------------------------- MODULE StatusUpdaterProofs ------------------------
(***************************************************************************)
(* The steps of UpdateStatus, of the workflow controller and of the        *)
(* cluster keep StaleCopiesHarmless.  First the facts that the proofs for  *)
(* the addon controller use as well: the types of the operators on         *)
(* statuses, and what a write of the API server and a move of a controller *)
(* do to the parts of the invariant.                                       *)
(***************************************************************************)
EXTENDS AddonManager, TLAPS

-----------------------------------------------------------------------------
\* Types of the operators on statuses

\* SetInstallStatus returns a status.
LEMMA SetInstallStatusType ==
  ASSUME NEW st \in Statuses, NEW p \in Phases
  PROVE  SetInstallStatus(st, p) \in Statuses
BY Zenon DEF SetInstallStatus, Statuses

\* SetPrereqAndInstallStatuses returns a status.
LEMMA SetPrereqsType ==
  ASSUME NEW st \in Statuses, NEW p \in Phases
  PROVE  SetPrereqAndInstallStatuses(st, p) \in Statuses
BY Zenon DEF SetPrereqAndInstallStatuses, Statuses, Phases

\* SetStatusByLifecyleStep returns a status, whatever the step.
LEMMA SetStatusType ==
  ASSUME NEW st \in Statuses, NEW step \in Steps, NEW p \in Phases
  PROVE  SetStatusByLifecyleStep(st, step, p) \in Statuses
<1>1. "DeleteSucceeded" \in Phases /\ "DeleteFailed" \in Phases
  BY Zenon DEF Phases
<1> QED
  BY <1>1, SetInstallStatusType, SetPrereqsType DEF SetStatusByLifecyleStep

\* ConvertWorkflowPhaseToAddonPhase returns a phase of the addon for every phase of a
\* workflow.
LEMMA ConvertType ==
  ASSUME NEW step, NEW wp
  PROVE  ConvertWorkflowPhaseToAddonPhase(step, wp) \in Phases
BY DEF ConvertWorkflowPhaseToAddonPhase, Phases

\* The status that runWorkflow leaves after it has read the workflow is a status.
LEMMA SyncedType ==
  ASSUME NEW st \in Statuses, NEW step \in Steps, NEW phase
  PROVE  Synced(st, step, phase) \in Statuses
BY Zenon, ConvertType, SetStatusType DEF Synced

\* A new install cycle begins Pending, from any status.
LEMMA NewCycleType ==
  ASSUME NEW st \in Statuses, NEW t \in Nat
  PROVE  SetPrereqAndInstallStatuses(ClearStatus([st EXCEPT !.startTime = t]), "Pending")
           \in Statuses
<1>1. ClearStatus([st EXCEPT !.startTime = t]) \in Statuses
  BY Zenon DEF ClearStatus, Statuses, Phases
<1> QED
  BY Zenon, <1>1, SetPrereqsType DEF Phases

-----------------------------------------------------------------------------
\* The API server and the informer

\* A write keeps InformerInv if it leaves the finalizer on every addon of which
\* there is a copy that claims it.
LEMMA WriteInformer ==
  ASSUME StoreTypeOK, InformerInv, NEW o \in MaybeAddon, Write(o), cache' = cache,
         \A c \in Copies : Claims(c) => o # NoAddon /\ o.finalizer /\ o.uid = c.uid
  PROVE  InformerInv'
<1>1. CASE o = api
  BY <1>1 DEF Write, storeVars, InformerInv, Copies, Claims, Held
<1>2. CASE o # api
  <2>1. api' = o /\ watch' = Append(watch, o) /\ fresh' = {} /\ watch \in Seq(MaybeAddon)
    BY <1>2 DEF Write, StoreTypeOK
  <2>2. Len(watch') = Len(watch) + 1 /\ watch'[Len(watch')] = o /\ watch' # << >>
        /\ Len(watch) \in Nat /\ \A i \in 1..Len(watch) : watch'[i] = watch[i]
    BY <2>1
  <2>3. Copies' \subseteq Copies \cup {o}
    BY <2>1, <2>2 DEF Copies
  <2>4. \A c \in Copies' : Claims(c)' => Held(c)'
    BY <2>1, <2>3 DEF Claims, Held
  <2> QED
    BY <2>1, <2>2, <2>4 DEF InformerInv
<1> QED
  BY <1>1, <1>2

\* A write of the API server keeps the types of what it stores and delivers.
LEMMA WriteType ==
  ASSUME StoreTypeOK, NEW o \in MaybeAddon, Write(o), cache' = cache
  PROVE  StoreTypeOK'
BY DEF Write, storeVars, StoreTypeOK

\* A step in which nothing is stored or delivered keeps InformerInv; a Get makes a
\* process fresh only when nothing is to be delivered.
LEMMA InformerSame ==
  ASSUME InformerInv, UNCHANGED <<api, watch, cache>>, fresh' \subseteq fresh \/ watch = << >>
  PROVE  InformerInv'
BY DEF InformerInv, Copies, Claims, Held

\* A write that changes fields of the stored addon and does not take its
\* finalizer.
LEMMA ChangeFields ==
  ASSUME StoreTypeOK, InformerInv, api # NoAddon, NEW o \in Addons, Write(o), cache' = cache,
         o.uid = api.uid, api.finalizer => o.finalizer
  PROVE  /\ StoreTypeOK'
         /\ InformerInv'
         /\ (api' = api /\ fresh' = fresh) \/ fresh' = {}
         /\ api' = o /\ api' # NoAddon
         /\ \A c : Held(c) => api'.finalizer /\ api'.uid = c.uid
<1>1. o \in MaybeAddon /\ o # NoAddon
  BY NoAddonAssumption DEF MaybeAddon
<1>2. \A c \in Copies : Claims(c) => o # NoAddon /\ o.finalizer /\ o.uid = c.uid
  BY <1>1 DEF InformerInv, Held
<1>3. StoreTypeOK' /\ InformerInv'
  BY <1>1, <1>2, WriteType, WriteInformer
<1>4. api' = o /\ ((api' = api /\ fresh' = fresh) \/ fresh' = {})
  BY DEF Write, storeVars
<1> QED
  BY <1>1, <1>3, <1>4 DEF Held

-----------------------------------------------------------------------------
\* The workers

\* Process p moves to label l with the copy o, and the others stay.
LEMMA MoveWorkers ==
  ASSUME StoreTypeOK, WorkersTypeOK, WorkersInv,
         NEW p \in Procs, NEW l \in Labels, NEW o \in MaybeAddon,
         pc' = [pc EXCEPT ![p] = l], inst' = [inst EXCEPT ![p] = o],
         l # "idle" => o # NoAddon,
         p = "workflow" => l \in Updating \cup {"idle"},
         pc'["workflow"] # "idle" => wkey' \in Keys,
         (api' = api /\ fresh' \subseteq fresh \cup {p}) \/ fresh' = {},
         p \in fresh' => Knows(p)',
         pc'[self] \in Installing => Held(me)'
  PROVE  WorkersInv'
<1>1. \A q \in Procs \ {p} : pc'[q] = pc[q] /\ inst'[q] = inst[q]
  BY DEF WorkersTypeOK
<1>2. pc'[p] = l /\ inst'[p] = o
  BY DEF WorkersTypeOK
<1>3. \A q \in fresh' : Knows(q)'
  <2>1. SUFFICES ASSUME NEW q \in fresh', q # p, api' = api, q \in fresh
                 PROVE  Knows(q)'
    OBVIOUS
  <2>2. q \in Procs \ {p}
    BY <2>1 DEF StoreTypeOK
  <2> QED
    BY <1>1, <2>1, <2>2 DEF Knows, WorkersInv, RaceGuard
<1>4. \A q \in Procs : pc'[q] # "idle" => inst'[q] # NoAddon
  BY <1>1, <1>2 DEF WorkersInv
<1>5. pc'["workflow"] \in Updating \cup {"idle"}
  BY <1>1, <1>2 DEF WorkersInv, Procs
<1> QED
  BY <1>3, <1>4, <1>5 DEF WorkersInv

\* The workers stay where they are while something else happens.
LEMMA StayWorkers ==
  ASSUME WorkersInv, UNCHANGED <<pc, inst, wkey>>,
         (api' = api /\ fresh' \subseteq fresh) \/ fresh' = {},
         pc[self] \in Installing => Held(me)'
  PROVE  WorkersInv'
BY DEF WorkersInv, Knows, RaceGuard, me

\* The addon controller goes on to label l with the copy o.
LEMMA GotoWorkers ==
  ASSUME StoreTypeOK, WorkersTypeOK, FlagsTypeOK, WorkersInv,
         NEW l \in Labels \ {"idle"}, NEW o \in Addons, Goto(l, o),
         (api' = api /\ fresh' \subseteq fresh \cup {self}) \/ fresh' = {},
         self \in fresh' => Knows(self)',
         l \in Installing => Held(o)'
  PROVE  WorkersTypeOK' /\ requeue' \in BOOLEAN /\ WorkersInv'
<1>1. pc' = [pc EXCEPT ![self] = l] /\ inst' = [inst EXCEPT ![self] = o]
      /\ wkey' = wkey /\ tries' = tries /\ requeue' = requeue
  BY DEF Goto
<1>2. self \in Procs /\ self # "workflow" /\ l \in Labels /\ o \in MaybeAddon /\ o # NoAddon
  BY NoAddonAssumption DEF self, Procs, MaybeAddon
<1>3. WorkersTypeOK'
  BY <1>1, <1>2 DEF WorkersTypeOK
<1>4. requeue' \in BOOLEAN
  BY <1>1 DEF FlagsTypeOK
<1>5. pc'["workflow"] = pc["workflow"] /\ pc'[self] = l /\ me' = o
  BY <1>1, <1>2 DEF WorkersTypeOK, me, Procs
<1>6. pc'["workflow"] # "idle" => wkey' \in Keys
  BY <1>1, <1>5 DEF WorkersInv
<1>7. pc'[self] \in Installing => Held(me)'
  BY <1>5 DEF Held
<1>8. WorkersInv'
  BY Zenon, <1>1, <1>2, <1>6, <1>7, MoveWorkers
<1> QED
  BY <1>3, <1>4, <1>8

\* The addon controller goes on to UpdateStatus.
LEMMA UpdateWorkers ==
  ASSUME StoreTypeOK, WorkersTypeOK, WorkersInv,
         NEW o \in Addons, NEW st \in Statuses, NEW again \in BOOLEAN, Update(o, st, again),
         (api' = api /\ fresh' \subseteq fresh \cup {self}) \/ fresh' = {}
  PROVE  WorkersTypeOK' /\ requeue' \in BOOLEAN /\ WorkersInv'
<1> DEFINE n == [o EXCEPT !.status = st]
<1>1. pc' = [pc EXCEPT ![self] = "lock"] /\ inst' = [inst EXCEPT ![self] = n]
      /\ wkey' = wkey /\ tries' = tries /\ requeue' = again
  BY DEF Update
<1>2. n \in Addons
  BY DEF Addons
<1> HIDE DEF n
<1>3. self \in Procs /\ self # "workflow" /\ "lock" \in Labels /\ n \in MaybeAddon /\ n # NoAddon
  BY <1>2, NoAddonAssumption DEF self, Procs, MaybeAddon, Labels
<1>4. WorkersTypeOK'
  BY <1>1, <1>3 DEF WorkersTypeOK
<1>5. pc'["workflow"] = pc["workflow"] /\ pc'[self] = "lock"
  BY <1>1, <1>3 DEF WorkersTypeOK, Procs
<1>6. pc'["workflow"] # "idle" => wkey' \in Keys
  BY <1>1, <1>5 DEF WorkersInv
<1>7. Knows(self)' /\ pc'[self] \notin Installing
  BY <1>5 DEF Knows, Installing
<1>8. WorkersInv'
  BY Zenon, <1>1, <1>3, <1>6, <1>7, MoveWorkers
<1> QED
  BY <1>1, <1>4, <1>8

\* A panic ends the pass of the addon controller.
LEMMA PanicWorkers ==
  ASSUME StoreTypeOK, WorkersTypeOK, FlagsTypeOK, WorkersInv, Goto("idle", NoAddon),
         api' = api, fresh' \subseteq fresh
  PROVE  WorkersTypeOK' /\ requeue' \in BOOLEAN /\ WorkersInv'
<1>1. pc' = [pc EXCEPT ![self] = "idle"] /\ inst' = [inst EXCEPT ![self] = NoAddon]
      /\ wkey' = wkey /\ tries' = tries /\ requeue' = requeue
  BY DEF Goto
<1>2. self \in Procs /\ self # "workflow" /\ "idle" \in Labels /\ NoAddon \in MaybeAddon
  BY DEF self, Procs, Labels, MaybeAddon
<1>3. WorkersTypeOK'
  BY <1>1, <1>2 DEF WorkersTypeOK
<1>4. requeue' \in BOOLEAN
  BY <1>1 DEF FlagsTypeOK
<1>5. pc'["workflow"] = pc["workflow"] /\ pc'[self] = "idle"
  BY <1>1, <1>2 DEF WorkersTypeOK, Procs
<1>6. pc'["workflow"] # "idle" => wkey' \in Keys
  BY <1>1, <1>5 DEF WorkersInv
<1>7. Knows(self)' /\ pc'[self] \notin Installing
  BY <1>5 DEF Knows, Installing
<1>8. WorkersInv'
  BY Zenon, <1>1, <1>2, <1>6, <1>7, MoveWorkers
<1> QED
  BY <1>3, <1>4, <1>8

\* Process p ends its reconcile, in whatever way.
LEMMA ReturnWorkers ==
  ASSUME StoreTypeOK, WorkersTypeOK, FlagsTypeOK, WorkersInv, wfQueue \subseteq Keys,
         NEW p \in Procs, NEW err \in BOOLEAN, pc[p] # "idle", Return(p, err),
         (api' = api /\ fresh' \subseteq fresh \cup {p}) \/ fresh' = {},
         p # self => \A c : Held(c) => api' # NoAddon /\ api'.finalizer /\ api'.uid = c.uid
  PROVE  WorkersTypeOK' /\ FlagsTypeOK' /\ wfQueue' \subseteq Keys /\ WorkersInv'
<1>1. pc' = [pc EXCEPT ![p] = "idle"] /\ inst' = [inst EXCEPT ![p] = NoAddon]
      /\ tries' = [tries EXCEPT ![p] = 0]
  BY DEF Return
<1>2. "idle" \in Labels /\ NoAddon \in MaybeAddon /\ wkey' \in {wkey, NoKey}
      /\ (p = "addon" => wkey' = wkey /\ wfQueue' = wfQueue)
  BY DEF Labels, MaybeAddon, Return
<1>3. WorkersTypeOK'
  BY <1>1, <1>2 DEF WorkersTypeOK
<1>4. FlagsTypeOK'
  BY Zenon DEF Return, FlagsTypeOK
<1>5. wfQueue' \subseteq Keys
  BY DEF Return, WorkersInv
<1>6. pc'[p] = "idle" /\ \A q \in Procs \ {p} : pc'[q] = pc[q] /\ inst'[q] = inst[q]
  BY <1>1 DEF WorkersTypeOK
<1>7. pc'["workflow"] # "idle" => wkey' \in Keys
  BY <1>2, <1>6 DEF WorkersInv, Procs
<1>8. Knows(p)'
  BY <1>6 DEF Knows
<1>9. pc'[self] \in Installing => Held(me)'
  BY <1>6 DEF WorkersInv, me, Held, Installing, Procs, self
<1>10. WorkersInv'
  BY Zenon, <1>1, <1>2, <1>7, <1>8, <1>9, MoveWorkers
<1> QED
  BY <1>3, <1>4, <1>5, <1>10

-----------------------------------------------------------------------------
\* UpdateStatus

\* The Get of an attempt of UpdateStatus: the guard that lets it pass has seen the
\* version that a successful update will replace.
LEMMA AttemptStep ==
  ASSUME StaleCopiesHarmless, NEW p \in Procs, NEW holder \in Procs \cup {"free"},
         pc[p] \in {"lock", "retry"}, Attempt(p, holder), crashes' = crashes
  PROVE  StaleCopiesHarmless'
<1>1. StoreTypeOK /\ WorkflowsTypeOK /\ CountersTypeOK /\ WorkersTypeOK /\ MemoryTypeOK
      /\ FlagsTypeOK /\ InformerInv /\ WorkersInv
  BY DEF StaleCopiesHarmless, TypeOK
<1>2. UNCHANGED <<api, watch, cache, wf, wfCache, ran, now, uids, edits, faults, vcache>>
  BY DEF Attempt, envVars
<1>3. CountersTypeOK'
  BY <1>1, <1>2 DEF CountersTypeOK
<1>4. CASE /\ cache # NoAddon => RaceGuard(cache, inst[p])
           /\ Return(p, TRUE)
           /\ fresh' = fresh \ {p}
           /\ lock' = Released(p, holder)
  <2>1. WorkersTypeOK' /\ FlagsTypeOK' /\ wfQueue' \subseteq Keys /\ WorkersInv'
    <3>1. \A c : Held(c) => api' # NoAddon /\ api'.finalizer /\ api'.uid = c.uid
      BY <1>2 DEF Held
    <3> QED
      BY Zenon, <1>1, <1>2, <1>4, <3>1, ReturnWorkers DEF WorkflowsTypeOK
  <2>2. StoreTypeOK' /\ WorkflowsTypeOK' /\ MemoryTypeOK'
    BY <1>1, <1>2, <1>4, <2>1 DEF StoreTypeOK, WorkflowsTypeOK, MemoryTypeOK, Released
  <2>3. InformerInv'
    BY <1>1, <1>2, <1>4, InformerSame
  <2> QED
    BY <1>3, <2>1, <2>2, <2>3 DEF StaleCopiesHarmless, TypeOK
<1>5. CASE /\ cache # NoAddon
           /\ ~RaceGuard(cache, inst[p])
           /\ Get(p)
           /\ pc' = [pc EXCEPT ![p] = "put"]
           /\ lock' = holder
           /\ UNCHANGED <<queue, wfQueue, inst, requeue, wkey, tries>>
  <2>1. fresh' \subseteq fresh \cup {p} /\ (p \in fresh' => watch = << >>)
        /\ (fresh' \subseteq fresh \/ watch = << >>)
    BY <1>5 DEF Get
  <2>2. InformerInv'
    BY <1>1, <1>2, <2>1, InformerSame
  <2>3. "put" \in Labels /\ "put" \in Updating /\ "put" \notin Installing /\ pc'[p] = "put"
    BY <1>1, <1>5 DEF Labels, Updating, Installing, WorkersTypeOK
  <2>4. WorkersTypeOK' /\ FlagsTypeOK'
    BY <1>1, <1>5, <2>3 DEF WorkersTypeOK, FlagsTypeOK
  <2>5. StoreTypeOK' /\ WorkflowsTypeOK' /\ MemoryTypeOK'
    BY <1>1, <1>2, <1>5, <2>1 DEF StoreTypeOK, WorkflowsTypeOK, MemoryTypeOK
  <2>6. inst' = [inst EXCEPT ![p] = inst[p]] /\ inst[p] \in MaybeAddon /\ inst[p] # NoAddon
    BY <1>1, <1>5 DEF WorkersTypeOK, WorkersInv
  <2>7. p \in fresh' => Knows(p)'
    BY <1>1, <1>2, <1>5, <2>1, <2>3 DEF Knows, InformerInv, RaceGuard
  <2>8. pc'["workflow"] # "idle" => wkey' \in Keys
    BY <1>1, <1>5 DEF WorkersInv, WorkersTypeOK, Procs
  <2>9. pc'[self] \in Installing => Held(me)'
    <3>1. pc'[self] \in Installing => pc[self] \in Installing
      BY <1>1, <1>5, <2>3 DEF WorkersTypeOK, self, Procs
    <3> QED
      BY <1>1, <1>2, <1>5, <3>1 DEF WorkersInv, Held, me
  <2>10. WorkersInv'
    BY Zenon, <1>1, <1>2, <1>5, <2>1, <2>3, <2>6, <2>7, <2>8, <2>9, MoveWorkers
  <2> QED
    BY <1>3, <2>2, <2>4, <2>5, <2>10 DEF StaleCopiesHarmless, TypeOK
<1> QED
  BY Zenon, <1>4, <1>5 DEF Attempt

\* The update of the status changes nothing but the status.
LEMMA StatusWrite ==
  ASSUME StaleCopiesHarmless, NEW p \in Procs, pc[p] = "put", p \in fresh,
         Write([api EXCEPT !.status = inst[p].status]), cache' = cache
  PROVE  /\ StoreTypeOK'
         /\ InformerInv'
         /\ (api' = api /\ fresh' = fresh) \/ fresh' = {}
         /\ api' = [api EXCEPT !.status = inst[p].status] /\ api' # NoAddon
         /\ \A c : Held(c) => api'.finalizer /\ api'.uid = c.uid
<1> DEFINE o == [api EXCEPT !.status = inst[p].status]
<1>1. StoreTypeOK /\ WorkersTypeOK /\ InformerInv /\ WorkersInv
  BY DEF StaleCopiesHarmless, TypeOK
<1>2. api \in Addons /\ inst[p] \in Addons /\ api # NoAddon
  BY <1>1 DEF StoreTypeOK, WorkersTypeOK, WorkersInv, Knows, MaybeAddon
<1>3. o \in Addons /\ o.uid = api.uid /\ o.finalizer = api.finalizer
  BY <1>2 DEF Addons
<1>4. Write(o)
  OBVIOUS
<1> HIDE DEF o
<1>5. /\ StoreTypeOK'
      /\ InformerInv'
      /\ (api' = api /\ fresh' = fresh) \/ fresh' = {}
      /\ api' = o /\ api' # NoAddon
      /\ \A c : Held(c) => api'.finalizer /\ api'.uid = c.uid
  BY <1>1, <1>2, <1>3, <1>4, ChangeFields
<1> QED
  BY <1>5 DEF o

\* The successful update of the status keeps the invariant.
LEMMA PutStep ==
  ASSUME StaleCopiesHarmless, NEW p \in Procs, UpdateStatusPut(p), crashes' = crashes
  PROVE  StaleCopiesHarmless'
<1>1. StoreTypeOK /\ WorkflowsTypeOK /\ CountersTypeOK /\ WorkersTypeOK /\ MemoryTypeOK
      /\ FlagsTypeOK /\ InformerInv /\ WorkersInv
  BY DEF StaleCopiesHarmless, TypeOK
<1>2. /\ pc[p] = "put" /\ p \in fresh /\ Write([api EXCEPT !.status = inst[p].status])
      /\ pc' = [pc EXCEPT ![p] = "record"]
      /\ UNCHANGED <<cache, queue, wf, wfCache, wfQueue, ran, now, uids, edits, faults>>
      /\ UNCHANGED <<inst, requeue, wkey, tries, lock, vcache>>
  BY DEF UpdateStatusPut, wfVars, envVars
<1>3. /\ StoreTypeOK'
      /\ InformerInv'
      /\ (api' = api /\ fresh' = fresh) \/ fresh' = {}
      /\ api' # NoAddon
      /\ \A c : Held(c) => api'.finalizer /\ api'.uid = c.uid
  BY <1>2, StatusWrite
<1>4. WorkflowsTypeOK' /\ CountersTypeOK' /\ MemoryTypeOK' /\ FlagsTypeOK'
  BY <1>1, <1>2 DEF WorkflowsTypeOK, CountersTypeOK, MemoryTypeOK, FlagsTypeOK
<1>5. "record" \in Labels /\ "record" \in Updating /\ "record" \notin Installing
  BY DEF Labels, Updating, Installing
<1>6. pc'[p] = "record" /\ (p # self => pc'[self] = pc[self])
      /\ (pc'["workflow"] # "idle" => pc["workflow"] # "idle")
  BY <1>1, <1>2 DEF WorkersTypeOK, self, Procs
<1>7. WorkersTypeOK'
  BY <1>1, <1>2, <1>5 DEF WorkersTypeOK
<1>8. inst' = [inst EXCEPT ![p] = inst[p]] /\ inst[p] \in MaybeAddon /\ inst[p] # NoAddon
  BY <1>1, <1>2 DEF WorkersTypeOK, WorkersInv
<1>9. Knows(p)'
  BY <1>6 DEF Knows
<1>10. pc'["workflow"] # "idle" => wkey' \in Keys
  BY <1>1, <1>2, <1>6 DEF WorkersInv
<1>11. pc'[self] \in Installing => Held(me)'
  BY <1>1, <1>2, <1>3, <1>5, <1>6 DEF WorkersInv, Held, me
<1>12. WorkersInv'
  BY Zenon, <1>1, <1>2, <1>3, <1>5, <1>8, <1>9, <1>10, <1>11, MoveWorkers
<1> QED
  BY <1>3, <1>4, <1>7, <1>12 DEF StaleCopiesHarmless, TypeOK

\* A refused update, retried or given up, keeps the invariant.
LEMMA ConflictStep ==
  ASSUME StaleCopiesHarmless, NEW p \in Procs, UpdateStatusConflict(p), crashes' = crashes
  PROVE  StaleCopiesHarmless'
<1>1. StoreTypeOK /\ WorkflowsTypeOK /\ CountersTypeOK /\ WorkersTypeOK /\ MemoryTypeOK
      /\ FlagsTypeOK /\ InformerInv /\ WorkersInv
  BY DEF StaleCopiesHarmless, TypeOK
<1>2. /\ pc[p] = "put" /\ p \notin fresh
      /\ UNCHANGED <<api, watch, fresh, cache, wf, wfCache, ran>>
      /\ UNCHANGED <<now, uids, edits, faults, vcache>>
  BY DEF UpdateStatusConflict, storeVars, envVars
<1>3. StoreTypeOK' /\ CountersTypeOK' /\ InformerInv'
  BY <1>1, <1>2, InformerSame DEF StoreTypeOK, CountersTypeOK
<1>4. CASE /\ tries[p] + 1 < MaxRetries
           /\ pc' = [pc EXCEPT ![p] = "retry"]
           /\ tries' = [tries EXCEPT ![p] = @ + 1]
           /\ UNCHANGED <<queue, wfQueue, inst, requeue, wkey, lock>>
  <2>1. "retry" \in Labels /\ "retry" \in Updating /\ "retry" \notin Installing
    BY DEF Labels, Updating, Installing
  <2>2. WorkflowsTypeOK' /\ MemoryTypeOK' /\ FlagsTypeOK'
    BY <1>1, <1>2, <1>4 DEF WorkflowsTypeOK, MemoryTypeOK, FlagsTypeOK
  <2>3. WorkersTypeOK'
    BY <1>1, <1>4, <2>1 DEF WorkersTypeOK
  <2>4. pc'[p] = "retry" /\ (p # self => pc'[self] = pc[self])
        /\ (pc'["workflow"] # "idle" => pc["workflow"] # "idle")
    BY <1>1, <1>2, <1>4 DEF WorkersTypeOK, self, Procs
  <2>5. inst' = [inst EXCEPT ![p] = inst[p]] /\ inst[p] \in MaybeAddon /\ inst[p] # NoAddon
    BY <1>1, <1>2, <1>4 DEF WorkersTypeOK, WorkersInv
  <2>6. Knows(p)'
    BY <2>4 DEF Knows
  <2>7. pc'["workflow"] # "idle" => wkey' \in Keys
    BY <1>1, <1>4, <2>4 DEF WorkersInv
  <2>8. pc'[self] \in Installing => Held(me)'
    BY <1>1, <1>2, <1>4, <2>1, <2>4 DEF WorkersInv, Held, me
  <2>9. WorkersInv'
    BY Zenon, <1>1, <1>2, <1>4, <2>1, <2>5, <2>6, <2>7, <2>8, MoveWorkers
  <2> QED
    BY <1>3, <2>2, <2>3, <2>9 DEF StaleCopiesHarmless, TypeOK
<1>5. CASE Return(p, TRUE) /\ Unlock(p)
  <2>1. \A c : Held(c) => api' # NoAddon /\ api'.finalizer /\ api'.uid = c.uid
    BY <1>2 DEF Held
  <2>2. WorkersTypeOK' /\ FlagsTypeOK' /\ wfQueue' \subseteq Keys /\ WorkersInv'
    BY Zenon, <1>1, <1>2, <1>5, <2>1, ReturnWorkers DEF WorkflowsTypeOK
  <2>3. WorkflowsTypeOK' /\ MemoryTypeOK'
    BY <1>1, <1>2, <1>5, <2>2 DEF WorkflowsTypeOK, MemoryTypeOK, Unlock, Released
  <2> QED
    BY <1>3, <2>2, <2>3 DEF StaleCopiesHarmless, TypeOK
<1> QED
  BY Zenon, <1>4, <1>5 DEF UpdateStatusConflict

\* An update that fails, with or without effect, keeps the invariant.
LEMMA FailStep ==
  ASSUME StaleCopiesHarmless, NEW p \in Procs, UpdateStatusFail(p), crashes' = crashes
  PROVE  StaleCopiesHarmless'
<1>1. StoreTypeOK /\ WorkflowsTypeOK /\ CountersTypeOK /\ WorkersTypeOK /\ MemoryTypeOK
      /\ FlagsTypeOK /\ InformerInv /\ WorkersInv
  BY DEF StaleCopiesHarmless, TypeOK
<1>2. /\ pc[p] = "put" /\ p \in fresh /\ Return(p, TRUE) /\ Unlock(p)
      /\ UNCHANGED <<cache, wf, wfCache, ran, now, uids, edits, vcache>>
      /\ \/ faults' = faults + 1 /\ UNCHANGED <<api, watch, fresh>>
         \/ faults' = faults + 1 /\ Write([api EXCEPT !.status = inst[p].status])
  BY Zenon DEF UpdateStatusFail, Unanswered, Fault, storeVars
<1>3. /\ StoreTypeOK'
      /\ InformerInv'
      /\ (api' = api /\ fresh' = fresh) \/ fresh' = {}
      /\ \A c : Held(c) => api' # NoAddon /\ api'.finalizer /\ api'.uid = c.uid
  <2>1. CASE UNCHANGED <<api, watch, fresh>>
    BY <1>1, <1>2, <2>1, InformerSame DEF StoreTypeOK, Held
  <2>2. CASE Write([api EXCEPT !.status = inst[p].status])
    BY <1>2, <2>2, StatusWrite
  <2> QED
    BY <1>2, <2>1, <2>2
<1>4. CountersTypeOK'
  BY <1>1, <1>2 DEF CountersTypeOK
<1>5. WorkersTypeOK' /\ FlagsTypeOK' /\ wfQueue' \subseteq Keys /\ WorkersInv'
  BY Zenon, <1>1, <1>2, <1>3, ReturnWorkers DEF WorkflowsTypeOK
<1>6. WorkflowsTypeOK' /\ MemoryTypeOK'
  BY <1>1, <1>2, <1>5 DEF WorkflowsTypeOK, MemoryTypeOK, Unlock, Released
<1> QED
  BY <1>3, <1>4, <1>5, <1>6 DEF StaleCopiesHarmless, TypeOK

\* The update of the version cache and the unlock keep the invariant.
LEMMA RecordStep ==
  ASSUME StaleCopiesHarmless, NEW p \in Procs, UpdateStatusRecord(p), crashes' = crashes
  PROVE  StaleCopiesHarmless'
<1>1. StoreTypeOK /\ WorkflowsTypeOK /\ CountersTypeOK /\ WorkersTypeOK /\ MemoryTypeOK
      /\ FlagsTypeOK /\ InformerInv /\ WorkersInv
  BY DEF StaleCopiesHarmless, TypeOK
<1>2. /\ pc[p] = "record" /\ Record(inst[p]) /\ Return(p, FALSE) /\ Unlock(p)
      /\ fresh' = fresh \ {p}
      /\ UNCHANGED <<api, watch, cache, wf, wfCache, ran, now, uids, edits, faults>>
  BY Zenon DEF UpdateStatusRecord, envVars
<1>3. StoreTypeOK' /\ CountersTypeOK' /\ InformerInv'
  BY <1>1, <1>2, InformerSame DEF StoreTypeOK, CountersTypeOK
<1>4. \A c : Held(c) => api' # NoAddon /\ api'.finalizer /\ api'.uid = c.uid
  BY <1>2 DEF Held
<1>5. WorkersTypeOK' /\ FlagsTypeOK' /\ wfQueue' \subseteq Keys /\ WorkersInv'
  BY Zenon, <1>1, <1>2, <1>4, ReturnWorkers DEF WorkflowsTypeOK
<1>6. inst[p] \in Addons
  BY <1>1, <1>2 DEF WorkersTypeOK, WorkersInv, MaybeAddon
<1>7. inst[p].status.installed \in Phases /\ PkgVersion[inst[p].spec] \in Versions
  BY Zenon, <1>6, ConstantsAssumption DEF Addons, Statuses
<1>8. WorkflowsTypeOK' /\ MemoryTypeOK'
  BY <1>1, <1>2, <1>5, <1>7 DEF WorkflowsTypeOK, MemoryTypeOK, Record, Unlock, Released
<1> QED
  BY <1>3, <1>5, <1>8 DEF StaleCopiesHarmless, TypeOK

\* Every step of UpdateStatus, by either controller, keeps the invariant.
LEMMA UpdateStatusStep ==
  ASSUME StaleCopiesHarmless, NEW p \in Procs, UpdateStatus(p), crashes' = crashes
  PROVE  StaleCopiesHarmless'
<1>1. lock \in Procs \cup {"free"}
  BY DEF StaleCopiesHarmless, TypeOK, MemoryTypeOK
<1> QED
  BY <1>1, AttemptStep, PutStep, ConflictStep, FailStep, RecordStep
  DEF UpdateStatus, UpdateStatusLock, UpdateStatusRetry

-----------------------------------------------------------------------------
\* The workflow controller

\* Every step of the workflow controller keeps the invariant.
LEMMA WorkflowStepInv ==
  ASSUME StaleCopiesHarmless, WorkflowStep
  PROVE  StaleCopiesHarmless'
<1>1. StoreTypeOK /\ WorkflowsTypeOK /\ CountersTypeOK /\ WorkersTypeOK /\ MemoryTypeOK
      /\ FlagsTypeOK /\ InformerInv /\ WorkersInv
  BY DEF StaleCopiesHarmless, TypeOK
<1>2. ASSUME NEW k \in Keys, WfBegin(k), crashes' = crashes
      PROVE  /\ StoreTypeOK' /\ WorkflowsTypeOK' /\ CountersTypeOK' /\ MemoryTypeOK' /\ InformerInv'
             /\ UNCHANGED <<api, watch, fresh, cache, queue, requeue, tries>>
             /\ pc["workflow"] = "idle"
  <2>1. /\ UNCHANGED <<api, watch, fresh, cache, queue, wf, wfCache, ran, now, uids, edits, faults>>
        /\ UNCHANGED <<requeue, tries, lock, vcache>>
        /\ wfQueue' = wfQueue \ {k} /\ pc["workflow"] = "idle"
    BY <1>2 DEF WfBegin, storeVars, envVars
  <2>2. InformerInv'
    BY <1>1, <2>1, InformerSame
  <2> QED
    BY <1>1, <1>2, <2>1, <2>2
    DEF StoreTypeOK, WorkflowsTypeOK, CountersTypeOK, MemoryTypeOK
<1>3. ASSUME NEW k \in Keys, WfIgnore(k), crashes' = crashes
      PROVE  StaleCopiesHarmless'
  <2>1. WfBegin(k) /\ UNCHANGED <<pc, inst, wkey>>
    BY <1>3 DEF WfIgnore
  <2>2. WorkersTypeOK' /\ FlagsTypeOK'
    BY <1>1, <1>2, <1>3, <2>1 DEF WorkersTypeOK, FlagsTypeOK
  <2>3. WorkersInv'
    BY <1>1, <1>2, <1>3, <2>1 DEF WorkersInv, Knows, RaceGuard, Held, me
  <2> QED
    BY <1>2, <1>3, <2>1, <2>2, <2>3 DEF StaleCopiesHarmless, TypeOK
<1>4. ASSUME NEW k \in Keys, WfReconcile(k), crashes' = crashes
      PROVE  StaleCopiesHarmless'
  <2> DEFINE phase == ConvertWorkflowPhaseToAddonPhase(k[1], wfCache[k].phase)
             st == SetStatusByLifecyleStep(cache.status, k[1], phase)
             o == [cache EXCEPT !.status = st]
  <2>1. /\ WfBegin(k) /\ cache # NoAddon /\ wkey' = k
        /\ pc' = [pc EXCEPT !["workflow"] = "lock"]
        /\ inst' = [inst EXCEPT !["workflow"] = o]
    BY <1>4 DEF WfReconcile
  <2>2. cache \in Addons
    BY <1>1, <2>1 DEF StoreTypeOK, MaybeAddon
  <2>3. st \in Statuses
    <3>1. cache.status \in Statuses /\ k[1] \in Steps /\ phase \in Phases
      BY <2>2, ConvertType DEF Addons, Keys
    <3> QED
      BY <3>1, SetStatusType
  <2> HIDE DEF st
  <2>4. o \in Addons /\ o \in MaybeAddon /\ o # NoAddon
    BY <2>2, <2>3, NoAddonAssumption DEF Addons, MaybeAddon
  <2> HIDE DEF o
  <2>5. "lock" \in Labels /\ "lock" \in Updating /\ "workflow" \in Procs
    BY DEF Labels, Updating, Procs
  <2>6. WorkersTypeOK' /\ FlagsTypeOK'
    BY <1>1, <1>2, <1>4, <2>1, <2>4, <2>5 DEF WorkersTypeOK, FlagsTypeOK
  <2>7. pc'["workflow"] = "lock" /\ pc'[self] = pc[self] /\ me' = me
    BY <1>1, <2>1, <2>5 DEF WorkersTypeOK, self, me, Procs
  <2>8. Knows("workflow")'
    BY <2>7 DEF Knows
  <2>9. pc'[self] \in Installing => Held(me)'
    BY <1>1, <1>2, <1>4, <2>1, <2>7 DEF WorkersInv, Held
  <2>10. WorkersInv'
    BY Zenon, <1>1, <1>2, <1>4, <2>1, <2>4, <2>5, <2>8, <2>9, MoveWorkers
  <2> QED
    BY <1>2, <1>4, <2>1, <2>6, <2>10 DEF StaleCopiesHarmless, TypeOK
<1>5. "workflow" \in Procs
  BY DEF Procs
<1> QED
  BY <1>3, <1>4, <1>5, UpdateStatusStep DEF WorkflowStep

-----------------------------------------------------------------------------
\* The cluster

\* A delivery to the informer keeps InformerInv.
LEMMA DeliverInformer ==
  ASSUME StoreTypeOK, InformerInv, Deliver
  PROVE  StoreTypeOK' /\ InformerInv' /\ api' = api /\ fresh' = fresh
<1>1. /\ watch \in Seq(MaybeAddon) /\ watch # << >>
      /\ cache' = Head(watch) /\ watch' = Tail(watch) /\ api' = api /\ fresh' = fresh
  BY DEF Deliver, StoreTypeOK
<1>2. Len(watch) \in Nat /\ Len(watch) > 0 /\ Head(watch) = watch[1] /\ Len(watch') = Len(watch) - 1
      /\ \A i \in 1..Len(watch') : watch'[i] = watch[i + 1]
  BY <1>1
<1>3. StoreTypeOK'
  BY <1>1, <1>2 DEF StoreTypeOK
<1>4. Copies' \subseteq Copies
  BY <1>1, <1>2 DEF Copies
<1>5. fresh = {} /\ watch[Len(watch)] = api
  BY <1>1 DEF InformerInv
<1>6. IF watch' = << >> THEN cache' = api' ELSE watch'[Len(watch')] = api'
  <2>1. CASE watch' = << >>
    BY <1>1, <1>2, <1>5, <2>1
  <2>2. CASE watch' # << >>
    <3>1. Len(watch') \in 1..Len(watch')
      BY <1>1, <1>2, <2>2
    <3> QED
      BY <1>1, <1>2, <1>5, <2>2, <3>1
  <2> QED
    BY <2>1, <2>2
<1>7. \A o \in Copies' : Claims(o)' => Held(o)'
  BY <1>1, <1>4 DEF InformerInv, Claims, Held
<1> QED
  BY <1>1, <1>3, <1>5, <1>6, <1>7 DEF InformerInv

\* A write to an addon that nobody relies on the finalizer of.
LEMMA NotHeldWrite ==
  ASSUME StoreTypeOK, InformerInv, WorkersInv, api = NoAddon \/ ~api.finalizer,
         NEW o \in MaybeAddon, o # api, Write(o), cache' = cache, UNCHANGED <<pc, inst, wkey>>
  PROVE  StoreTypeOK' /\ InformerInv' /\ WorkersInv'
<1>1. \A c : ~Held(c)
  BY DEF Held
<1>2. StoreTypeOK' /\ InformerInv'
  BY <1>1, WriteType, WriteInformer DEF InformerInv
<1>3. fresh' = {}
  BY DEF Write
<1> QED
  BY <1>1, <1>2, <1>3, StayWorkers DEF WorkersInv

\* What the user does to the addon keeps the invariant: deleting an addon that has
\* its finalizer only marks it.
LEMMA UserStep ==
  ASSUME StoreTypeOK, InformerInv, WorkersInv, UNCHANGED <<pc, inst, wkey>>, CountersTypeOK,
         \/ \E s \in NewSpecs : Create(s)
         \/ \E s \in Specs : EditSpec(s)
         \/ DeleteAddon
  PROVE  StoreTypeOK' /\ InformerInv' /\ WorkersInv'
<1>1. ASSUME NEW s \in NewSpecs, Create(s)
      PROVE  StoreTypeOK' /\ InformerInv' /\ WorkersInv'
  <2> DEFINE o == [uid |-> uids + 1, spec |-> s, deleting |-> FALSE, finalizer |-> FALSE,
                   status |-> NewStatus]
  <2>1. api = NoAddon /\ Write(o) /\ cache' = cache
    BY <1>1 DEF Create
  <2>2. NewStatus \in Statuses
    BY DEF NewStatus, Statuses, Phases
  <2>3. s \in Specs
    BY Zenon, ConstantsAssumption
  <2>4. uids + 1 \in Nat
    BY DEF CountersTypeOK
  <2>5. o \in Addons
    BY <2>2, <2>3, <2>4 DEF Addons
  <2> HIDE DEF o
  <2>6. o \in MaybeAddon /\ o # api
    BY <2>1, <2>5, NoAddonAssumption DEF MaybeAddon
  <2> QED
    BY <2>1, <2>6, NotHeldWrite
<1>2. ASSUME NEW o \in Addons, api \in Addons, o.uid = api.uid, o.finalizer = api.finalizer,
             Write(o), cache' = cache
      PROVE  StoreTypeOK' /\ InformerInv' /\ WorkersInv'
  <2>1. /\ StoreTypeOK'
        /\ InformerInv'
        /\ (api' = api /\ fresh' = fresh) \/ fresh' = {}
        /\ api' # NoAddon
        /\ \A c : Held(c) => api'.finalizer /\ api'.uid = c.uid
    BY <1>2, ChangeFields, NoAddonAssumption
  <2>2. pc[self] \in Installing => Held(me)'
    BY Zenon, <2>1 DEF WorkersInv, Held, me
  <2> QED
    BY Zenon, <2>1, <2>2, StayWorkers
<1>3. ASSUME NEW s \in Specs, EditSpec(s)
      PROVE  StoreTypeOK' /\ InformerInv' /\ WorkersInv'
  <2>1. api \in Addons /\ Write([api EXCEPT !.spec = s]) /\ cache' = cache
    BY <1>3 DEF EditSpec, StoreTypeOK, MaybeAddon
  <2>2. /\ [api EXCEPT !.spec = s] \in Addons
        /\ [api EXCEPT !.spec = s].uid = api.uid
        /\ [api EXCEPT !.spec = s].finalizer = api.finalizer
    BY <2>1 DEF Addons
  <2> QED
    BY Zenon, <1>2, <2>1, <2>2
<1>4. ASSUME DeleteAddon
      PROVE  StoreTypeOK' /\ InformerInv' /\ WorkersInv'
  <2>1. api \in Addons /\ api # NoAddon /\ cache' = cache
        /\ Write(IF api.finalizer THEN [api EXCEPT !.deleting = TRUE] ELSE NoAddon)
    BY <1>4 DEF DeleteAddon, StoreTypeOK, MaybeAddon
  <2>2. CASE api.finalizer
    <3>1. /\ [api EXCEPT !.deleting = TRUE] \in Addons
          /\ [api EXCEPT !.deleting = TRUE].uid = api.uid
          /\ [api EXCEPT !.deleting = TRUE].finalizer = api.finalizer
      BY Zenon, <2>1 DEF Addons
    <3> QED
      BY Zenon, <1>2, <2>1, <2>2, <3>1
  <2>3. CASE ~api.finalizer
    BY <2>1, <2>3, NotHeldWrite DEF MaybeAddon
  <2> QED
    BY <2>2, <2>3
<1> QED
  BY <1>1, <1>3, <1>4

\* Every step of the cluster keeps the invariant.
LEMMA EnvironmentInv ==
  ASSUME StaleCopiesHarmless, Environment
  PROVE  StaleCopiesHarmless'
<1>1. StoreTypeOK /\ WorkflowsTypeOK /\ CountersTypeOK /\ WorkersTypeOK /\ MemoryTypeOK
      /\ FlagsTypeOK /\ InformerInv /\ WorkersInv
  BY DEF StaleCopiesHarmless, TypeOK
<1>2. UNCHANGED <<pc, inst, requeue, wkey, tries, lock, vcache, crashes>>
  BY DEF Environment, procVars
<1>3. WorkersTypeOK' /\ MemoryTypeOK'
  BY <1>1, <1>2 DEF WorkersTypeOK, MemoryTypeOK
<1>4. StoreTypeOK' /\ InformerInv' /\ WorkersInv'
  <2>1. ASSUME StoreTypeOK', InformerInv', api' = api, fresh' = fresh
        PROVE  StoreTypeOK' /\ InformerInv' /\ WorkersInv'
    BY <1>1, <1>2, <2>1, StayWorkers DEF WorkersInv, Held, me
  <2>2. CASE UNCHANGED <<api, watch, fresh, cache>>
    BY <1>1, <2>1, <2>2, InformerSame DEF StoreTypeOK
  <2>3. CASE Deliver
    BY <1>1, <2>1, <2>3, DeliverInformer
  <2>4. CASE (\E s \in NewSpecs : Create(s)) \/ (\E s \in Specs : EditSpec(s)) \/ DeleteAddon
    BY <1>1, <1>2, <2>4, UserStep
  <2> QED
    BY <2>2, <2>3, <2>4
    DEF Environment, WfDeliver, WfStart, WfFinish, GarbageCollect, Tick, storeVars
<1>5. WorkflowsTypeOK'
  <2>1. ASSUME NEW k \in Keys, WfDeliver(k) \/ WfStart(k) \/ GarbageCollect(k)
        PROVE  WorkflowsTypeOK'
    <3>1. CASE WfDeliver(k)
      BY <1>1, <3>1 DEF WorkflowsTypeOK, WfDeliver
    <3>2. CASE WfStart(k)
      BY <1>1, <3>2 DEF WorkflowsTypeOK, WfStart, SetPhase, Workflows, WorkflowPhases
    <3>3. CASE GarbageCollect(k)
      <4>1. NoWorkflow \in Workflows
        BY DEF NoWorkflow, Workflows, WorkflowPhases
      <4> QED
        BY <1>1, <3>3, <4>1 DEF WorkflowsTypeOK, GarbageCollect
    <3> QED
      BY <2>1, <3>1, <3>2, <3>3
  <2>2. ASSUME NEW k \in Keys, WfFinish(k)
        PROVE  WorkflowsTypeOK'
    <3>1. PICK p \in Outcomes :
            /\ wf' = [wf EXCEPT ![k].phase = p]
            /\ ran' = IF p = "Succeeded" THEN ran \cup {<<wf[k].owner, k[1], k[2]>>} ELSE ran
      BY Zenon, <2>2 DEF WfFinish, SetPhase
    <3>2. p \in WorkflowPhases /\ wf[k] \in Workflows /\ UNCHANGED <<wfCache, wfQueue>>
      BY <1>1, <2>2, ConstantsAssumption DEF WorkflowPhases, WorkflowsTypeOK, WfFinish
    <3>3. wf' \in [Keys -> Workflows]
      BY <1>1, <3>1, <3>2 DEF WorkflowsTypeOK, Workflows
    <3>4. <<wf[k].owner, k[1], k[2]>> \in Nat \X Steps \X Checksums
      BY <3>2 DEF Workflows, Keys
    <3> QED
      BY <1>1, <3>1, <3>2, <3>3, <3>4 DEF WorkflowsTypeOK
  <2>3. CASE UNCHANGED wfVars
    BY <1>1, <2>3 DEF WorkflowsTypeOK, wfVars
  <2> QED
    BY Zenon, <2>1, <2>2, <2>3 DEF Environment, Deliver, Create, EditSpec, DeleteAddon, Tick
<1>6. CountersTypeOK'
  <2>1. CASE UNCHANGED <<now, uids, edits, faults>>
    BY <1>1, <1>2, <2>1 DEF CountersTypeOK
  <2>2. ASSUME NEW s \in NewSpecs, Create(s)
        PROVE  CountersTypeOK'
    BY <1>1, <1>2, <2>2 DEF CountersTypeOK, Create
  <2>3. ASSUME NEW s \in Specs, EditSpec(s)
        PROVE  CountersTypeOK'
    BY <1>1, <1>2, <2>3 DEF CountersTypeOK, EditSpec
  <2>4. CASE Tick
    BY <1>1, <1>2, <2>4 DEF CountersTypeOK, Tick
  <2> QED
    BY <2>1, <2>2, <2>3, <2>4
    DEF Environment, Deliver, WfDeliver, WfStart, WfFinish, GarbageCollect, DeleteAddon, envVars
<1>7. FlagsTypeOK'
  <2>1. queue' = queue \/ queue' = TRUE
    BY Zenon DEF Environment, Deliver, WfDeliver, WfStart, WfFinish, GarbageCollect, Create,
                 EditSpec, DeleteAddon, Tick
  <2> QED
    BY Zenon, <1>1, <1>2, <2>1 DEF FlagsTypeOK
<1> QED
  BY <1>3, <1>4, <1>5, <1>6, <1>7 DEF StaleCopiesHarmless, TypeOK

\* A restart keeps the invariant: the informers begin with what is stored.
LEMMA CrashInv ==
  ASSUME StaleCopiesHarmless, Crash
  PROVE  StaleCopiesHarmless'
<1>1. StoreTypeOK /\ WorkflowsTypeOK /\ CountersTypeOK
  BY DEF StaleCopiesHarmless, TypeOK
<1>2. StoreTypeOK' /\ WorkflowsTypeOK' /\ CountersTypeOK'
  BY <1>1 DEF StoreTypeOK, WorkflowsTypeOK, CountersTypeOK, Crash, envVars
<1>3. WorkersTypeOK' /\ MemoryTypeOK'
  BY DEF Crash, WorkersTypeOK, MemoryTypeOK, Labels, MaybeAddon
<1>4. FlagsTypeOK'
  BY Zenon DEF Crash, FlagsTypeOK
<1>5. Copies' = {api}
  BY DEF Crash, Copies
<1>6. InformerInv'
  BY <1>5 DEF Crash, InformerInv, Claims, Held
<1>7. WorkersInv'
  BY DEF Crash, WorkersInv, Procs, self, Installing
<1> QED
  BY <1>2, <1>3, <1>4, <1>6, <1>7 DEF StaleCopiesHarmless, TypeOK

\* An event of a deployed resource keeps the invariant.
LEMMA ResourceEventInv ==
  ASSUME StaleCopiesHarmless, ResourceEvent, crashes' = crashes
  PROVE  StaleCopiesHarmless'
<1>1. /\ UNCHANGED <<api, watch, fresh, cache, wf, wfCache, wfQueue, ran, now, uids, edits, faults>>
      /\ UNCHANGED <<pc, inst, requeue, wkey, tries, lock, vcache>> /\ queue' = TRUE
  BY DEF ResourceEvent, storeVars, wfVars, envVars, procVars
<1>2. TypeOK'
  BY <1>1 DEF StaleCopiesHarmless, TypeOK, StoreTypeOK, WorkflowsTypeOK, CountersTypeOK,
              WorkersTypeOK, MemoryTypeOK, FlagsTypeOK
<1>3. InformerInv'
  BY <1>1, InformerSame DEF StaleCopiesHarmless
<1>4. WorkersInv'
  BY <1>1, StayWorkers DEF StaleCopiesHarmless, WorkersInv, Held, me
<1> QED
  BY <1>2, <1>3, <1>4 DEF StaleCopiesHarmless

\* The invariant holds initially.
LEMMA InitInv == Init => StaleCopiesHarmless
<1> SUFFICES ASSUME Init PROVE StaleCopiesHarmless
  OBVIOUS
<1>1. StoreTypeOK /\ CountersTypeOK /\ MemoryTypeOK
  <2>1. StoreTypeOK
    BY DEF Init, StoreTypeOK, MaybeAddon
  <2>2. CountersTypeOK
    BY DEF Init, CountersTypeOK
  <2>3. MemoryTypeOK
    BY DEF Init, MemoryTypeOK
  <2> QED
    BY <2>1, <2>2, <2>3
<1>2. WorkflowsTypeOK
  BY DEF Init, WorkflowsTypeOK, Workflows, WorkflowPhases, NoWorkflow
<1>3. WorkersTypeOK
  BY DEF Init, WorkersTypeOK, MaybeAddon, Labels
<1>4. FlagsTypeOK
  BY Zenon DEF Init, FlagsTypeOK
<1>5. InformerInv
  BY DEF Init, InformerInv, Copies, Claims
<1>6. WorkersInv
  BY DEF Init, WorkersInv, Procs, self, Installing
<1> QED
  BY <1>1, <1>2, <1>3, <1>4, <1>5, <1>6 DEF StaleCopiesHarmless, TypeOK

=============================================================================
