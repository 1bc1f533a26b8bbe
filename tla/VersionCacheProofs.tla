------------------------- MODULE VersionCacheProofs -------------------------
(***************************************************************************)
(* The version cache has the phase that the API shows whenever the manager *)
(* is quiet: a step that is still to come records it, whatever crashes or  *)
(* fails in between.                                                       *)
(***************************************************************************)
EXTENDS DeploymentProofs

-----------------------------------------------------------------------------
\* The version cache: how a step uses what the workers share

\* Labels at which a process has the addon's mutex, and labels of a deletion.
Locked == {"retry", "put", "record"}
Finalizing == {"delete", "deleteSubmitted", "unfinalize"}

\* At most process p moves.
Only(p) == \A q \in Procs \ {p} : pc'[q] = pc[q] /\ inst'[q] = inst[q]

\* Nothing in the workers' memory changes.
Undisturbed ==
  lock' = lock /\ vcache' = vcache /\ pc' = pc /\ inst' = inst /\ (queue => queue')

\* The addon worker finds no addon; or begins a pass, which ends at once only if the
\* addon is being deleted; or goes on with the pass; or is deleting.
Forgets == pc[self] = "idle" /\ cache = NoAddon /\ pc' = pc /\ inst' = inst

Starts ==
  /\ pc[self] = "idle" /\ cache # NoAddon
  /\ lock' = lock /\ Only(self) /\ pc'[self] \notin Locked
  /\ cache.deleting \/ (vcache' = vcache /\ pc'[self] # "idle")

Proceeds ==
  /\ pc[self] # "idle" /\ pc'[self] \notin Locked \cup {"idle"}
  /\ lock' = lock /\ vcache' = vcache /\ queue' = queue /\ Only(self)

Deletes ==
  /\ pc[self] \in Finalizing /\ pc'[self] \notin Locked
  /\ lock' = lock /\ Only(self) /\ (queue => queue')

\* The workflow worker takes a workflow from its queue.
Takes ==
  /\ pc'["workflow"] \in {"idle", "lock"}
  /\ lock' = lock /\ vcache' = vcache /\ queue' = queue /\ Only("workflow")

\* UpdateStatus gets the mutex, works on, fails, or records what it has written.
Locks(p) ==
  /\ pc'[p] = "put" /\ lock = "free" /\ lock' = p
  /\ vcache' = vcache /\ queue' = queue

Tries(p) ==
  /\ pc[p] \in Locked /\ pc'[p] \in Locked /\ inst'[p] = inst[p]
  /\ pc'[p] = "record" => pc[p] = "put" /\ api' = [api EXCEPT !.status = inst[p].status]
  /\ lock' = lock /\ vcache' = vcache /\ queue' = queue

Fails(p) ==
  /\ pc'[p] = "idle" /\ lock' = Released(p, lock)
  /\ vcache' = vcache /\ (queue => queue') /\ (p = self => queue')

Records(p) ==
  /\ pc[p] = "record" /\ pc'[p] = "idle" /\ lock' = Released(p, lock)
  /\ Record(inst[p]) /\ (queue => queue')

MemoryMove ==
  \/ Undisturbed \/ Forgets \/ Starts \/ Proceeds \/ Deletes \/ Takes \/ Crash
  \/ \E p \in Procs : Only(p) /\ (Locks(p) \/ Tries(p) \/ Fails(p) \/ Records(p))

\* The panics from which execAddon recovers do not occur.
NoPanic == "panic" \notin Faults /\ "panic" \notin ValidationOutcomes

\* A worker that returns leaves the other one alone, and an error of the addon
\* worker is a reason for another pass.
LEMMA ReturnMemory ==
  ASSUME WorkersTypeOK, NEW p \in Procs, NEW err, Return(p, err)
  PROVE  Only(p) /\ pc'[p] = "idle" /\ (queue => queue') /\ (p = self /\ err => queue')
<1>1. pc' = [pc EXCEPT ![p] = "idle"] /\ inst' = [inst EXCEPT ![p] = NoAddon]
  BY Zenon DEF Return
<1>2. Only(p) /\ pc'[p] = "idle"
  BY <1>1 DEF Only, WorkersTypeOK
<1>3. self = "addon" /\ self # "workflow"
  BY DEF self
<1>4. CASE p = self
  <2>1. queue' = (queue \/ requeue \/ err)
    BY Zenon, <1>3, <1>4 DEF Return
  <2> QED
    BY <1>2, <2>1
<1>5. CASE p # self
  <2>1. queue' = queue
    BY Zenon, <1>3, <1>5 DEF Return
  <2> QED
    BY <1>2, <1>5, <2>1
<1> QED
  BY <1>4, <1>5

\* The steps of UpdateStatus.
LEMMA UpdateStatusMemory ==
  ASSUME WorkersTypeOK, NEW p \in Procs, UpdateStatus(p)
  PROVE  Only(p) /\ (Locks(p) \/ Tries(p) \/ Fails(p) \/ Records(p))
<1>1. ASSUME NEW l, pc' = [pc EXCEPT ![p] = l], inst' = inst
      PROVE  Only(p) /\ pc'[p] = l /\ inst'[p] = inst[p]
  BY <1>1 DEF Only, WorkersTypeOK
<1>2. ASSUME NEW holder, Attempt(p, holder)
      PROVE  /\ vcache' = vcache
             /\ \/ Return(p, TRUE) /\ lock' = Released(p, holder)
                \/ /\ pc' = [pc EXCEPT ![p] = "put"] /\ inst' = inst
                   /\ lock' = holder /\ queue' = queue
  BY Zenon, <1>2 DEF Attempt
<1>3. CASE UpdateStatusLock(p)
  <2>1. lock = "free" /\ Attempt(p, p) /\ Released(p, p) = Released(p, lock)
    BY <1>3 DEF UpdateStatusLock, Released
  <2> QED
    BY Zenon, <1>1, <1>2, <2>1, ReturnMemory DEF Locks, Fails
<1>4. CASE UpdateStatusRetry(p)
  <2>1. pc[p] = "retry" /\ Attempt(p, lock)
    BY Zenon, <1>4 DEF UpdateStatusRetry
  <2>2. "retry" \in Locked /\ "put" \in Locked /\ "put" # "record"
    BY DEF Locked
  <2> QED
    BY Zenon, <1>1, <1>2, <2>1, <2>2, ReturnMemory DEF Tries, Fails
<1>5. CASE UpdateStatusPut(p)
  <2>1. /\ pc[p] = "put" /\ Write([api EXCEPT !.status = inst[p].status])
        /\ pc' = [pc EXCEPT ![p] = "record"] /\ inst' = inst
        /\ lock' = lock /\ vcache' = vcache /\ queue' = queue
    BY Zenon, <1>5 DEF UpdateStatusPut
  <2>2. api' = [api EXCEPT !.status = inst[p].status]
    BY <2>1 DEF Write, storeVars
  <2>3. "put" \in Locked /\ "record" \in Locked
    BY DEF Locked
  <2> QED
    BY Zenon, <1>1, <2>1, <2>2, <2>3 DEF Tries
<1>6. CASE UpdateStatusConflict(p)
  <2>1. /\ pc[p] = "put" /\ vcache' = vcache
        /\ \/ pc' = [pc EXCEPT ![p] = "retry"] /\ inst' = inst /\ lock' = lock /\ queue' = queue
           \/ Return(p, TRUE) /\ lock' = Released(p, lock)
    BY Zenon, <1>6 DEF UpdateStatusConflict, Unlock
  <2>2. "put" \in Locked /\ "retry" \in Locked /\ "retry" # "record"
    BY DEF Locked
  <2> QED
    BY Zenon, <1>1, <2>1, <2>2, ReturnMemory DEF Tries, Fails
<1>7. CASE UpdateStatusFail(p)
  BY Zenon, <1>7, ReturnMemory DEF UpdateStatusFail, Unlock, Fails
<1>8. CASE UpdateStatusRecord(p)
  BY Zenon, <1>8, ReturnMemory DEF UpdateStatusRecord, Unlock, Records
<1> QED
  BY Zenon, <1>3, <1>4, <1>5, <1>6, <1>7, <1>8 DEF UpdateStatus

\* Going on leaves the other worker alone.
LEMMA GotoMemory ==
  ASSUME WorkersTypeOK, NEW l, (\E o : Goto(l, o)) \/ (l = "lock" /\ \E o, st, again : Update(o, st, again))
  PROVE  Only(self) /\ pc'[self] = l
<1>1. pc' = [pc EXCEPT ![self] = l] /\ \E o : inst' = [inst EXCEPT ![self] = o]
  BY Zenon DEF Goto, Update
<1> QED
  BY <1>1 DEF Only, WorkersTypeOK, self, Procs

\* The steps that begin a pass.
LEMMA BeginMemory ==
  ASSUME StaleCopiesHarmless, NoPanic,
         \/ ReconcileGone \/ MarkDeleting \/ Finalize \/ ProcessChanged \/ ProcessCompleted
         \/ \E outcome \in ValidationOutcomes : ProcessValidate(outcome)
  PROVE  Forgets \/ Starts
<1>1. WorkersTypeOK
  BY DEF StaleCopiesHarmless, TypeOK
<1>2. pc[self] = "idle"
  BY Zenon DEF ReconcileGone, MarkDeleting, Finalize, ProcessChanged, ProcessCompleted,
     ProcessValidate, BeginWith, Begin
<1>3. CASE ReconcileGone
  BY Zenon, <1>2, <1>3 DEF ReconcileGone, Forgets, procVars
<1>4. CASE MarkDeleting \/ Finalize
  <2>1. cache # NoAddon /\ cache.deleting = TRUE /\ lock' = lock
    BY Zenon, <1>4 DEF MarkDeleting, Finalize, BeginWith
  <2>2. \/ UNCHANGED procVars
        \/ \E l \in {"unfinalize", "delete"} : \E o : Goto(l, o)
        \/ \E o, st, again : Update(o, st, again)
    BY Zenon, <1>4 DEF MarkDeleting, Finalize
  <2>3. Only(self) /\ pc'[self] \in {"idle", "unfinalize", "delete", "lock"}
    <3>1. CASE UNCHANGED procVars
      BY <1>2, <3>1 DEF procVars, Only
    <3> QED
      BY Zenon, <1>1, <2>2, <3>1, GotoMemory
  <2> QED
    BY <1>2, <2>1, <2>3 DEF Starts, Locked
<1>5. CASE \/ ProcessChanged \/ ProcessCompleted
           \/ \E outcome \in ValidationOutcomes : ProcessValidate(outcome)
  <2>1. cache # NoAddon /\ lock' = lock /\ vcache' = vcache
    BY Zenon, <1>5 DEF ProcessChanged, ProcessCompleted, ProcessValidate, BeginWith
  <2>2. \/ \E l \in {"listwf", "prereqs", "finalizer"} : \E o : Goto(l, o)
        \/ \E o, st, again : Update(o, st, again)
    <3>1. ASSUME NEW outcome \in ValidationOutcomes, ProcessValidate(outcome)
          PROVE  \/ \E l \in {"listwf", "prereqs", "finalizer"} : \E o : Goto(l, o)
                 \/ \E o, st, again : Update(o, st, again)
      <4>1. (IF cache.finalizer THEN "prereqs" ELSE "finalizer") \in {"listwf", "prereqs", "finalizer"}
        OBVIOUS
      <4>2. outcome # "panic"
        BY <3>1 DEF NoPanic
      <4> QED
        BY Zenon, <3>1, <4>1, <4>2 DEF ProcessValidate
    <3> QED
      BY Zenon, <1>5, <3>1 DEF ProcessChanged, ProcessCompleted
  <2>3. Only(self) /\ pc'[self] \in {"listwf", "prereqs", "finalizer", "lock"}
    BY Zenon, <1>1, <2>2, GotoMemory
  <2> QED
    BY <1>2, <2>1, <2>3 DEF Starts, Locked
<1> QED
  BY <1>3, <1>4, <1>5

\* The steps of an installation.
LEMMA InstallMemory ==
  ASSUME StaleCopiesHarmless, NoPanic,
         \/ DeleteOldWorkflows \/ SetFinalizer \/ RunPrereqs \/ RunInstall
         \/ \E step \in Steps : SyncPhase(step)
  PROVE  Proceeds
<1>1. WorkersTypeOK
  BY DEF StaleCopiesHarmless, TypeOK
<1>2. pc[self] # "idle"
  <2>1. \A step \in Steps : Submitted[step] # "idle"
    BY DEF Steps, Submitted
  <2>2. \/ pc[self] \in {"listwf", "finalizer", "prereqs", "install"}
        \/ \E step \in Steps : pc[self] = Submitted[step]
    BY Zenon DEF DeleteOldWorkflows, SetFinalizer, RunPrereqs, RunInstall, SyncPhase
  <2> QED
    BY <2>1, <2>2
<1>3. lock' = lock /\ vcache' = vcache /\ queue' = queue
  BY Zenon DEF DeleteOldWorkflows, SetFinalizer, RunPrereqs, RunInstall, SyncPhase, unchangedByRun
<1> DEFINE On == \/ \E l \in {"prereqs", "install", "prereqsSubmitted", "installSubmitted"} : \E o : Goto(l, o)
                 \/ \E o, st, again : Update(o, st, again)
<1>4. ASSUME NEW step \in {"prereqs", "install"}, NEW o, NEW st, AfterWorkflow(step, o, st)
      PROVE  On
  BY Zenon, <1>4 DEF AfterWorkflow, AfterPrereqs, Observe
<1>5. ASSUME NEW step \in {"prereqs", "install"}, RunWorkflow(step)
      PROVE  On
  <2>1. ~Panic /\ Submitted[step] \in {"prereqs", "install", "prereqsSubmitted", "installSubmitted"}
    <3>1. ~Panic
      BY Zenon DEF NoPanic, Panic, Fault
    <3> QED
      BY Zenon, <3>1, SubmittedLabels
  <2> QED
    BY Zenon, <1>4, <1>5, <2>1 DEF RunWorkflow
<1>6. ASSUME NEW step \in Steps, SyncPhase(step)
      PROVE  On
  <2>1. step \in {"prereqs", "install"}
    BY <1>6 DEF SyncPhase, Steps
  <2> QED
    BY Zenon, <1>4, <1>6, <2>1 DEF SyncPhase
<1>7. On
  BY Zenon, <1>5, <1>6 DEF DeleteOldWorkflows, SetFinalizer, RunPrereqs, RunInstall
<1>8. Only(self) /\ pc'[self] \in {"prereqs", "install", "prereqsSubmitted", "installSubmitted", "lock"}
  BY Zenon, <1>1, <1>7, GotoMemory
<1> QED
  BY <1>2, <1>3, <1>8 DEF Proceeds, Locked

\* The steps of a deletion.
LEMMA DeletionMemory ==
  ASSUME StaleCopiesHarmless, RunDelete \/ SyncDelete \/ Unfinalize
  PROVE  Deletes
<1>1. WorkersTypeOK /\ self \in Procs
  BY DEF StaleCopiesHarmless, TypeOK, self, Procs
<1>2. pc[self] \in Finalizing /\ lock' = lock
  <2>1. Submitted["delete"] = "deleteSubmitted"
    BY DEF Submitted
  <2> QED
    BY Zenon, <2>1 DEF RunDelete, SyncDelete, Unfinalize, Finalizing
<1>3. \/ \E err : Return(self, err)
      \/ queue' = queue /\ \E l \in {"deleteSubmitted", "unfinalize", "idle"} : \E o : Goto(l, o)
  <2>1. Submitted["delete"] = "deleteSubmitted"
    BY DEF Submitted
  <2> QED
    BY Zenon, <2>1 DEF RunDelete, SyncDelete, Unfinalize, Panic
<1>4. CASE \E err : Return(self, err)
  <2>1. Only(self) /\ pc'[self] = "idle" /\ (queue => queue')
    BY Zenon, <1>1, <1>4, ReturnMemory
  <2> QED
    BY <1>2, <2>1 DEF Deletes, Locked
<1>5. CASE queue' = queue /\ \E l \in {"deleteSubmitted", "unfinalize", "idle"} : \E o : Goto(l, o)
  <2>1. Only(self) /\ pc'[self] \in {"deleteSubmitted", "unfinalize", "idle"}
    BY Zenon, <1>1, <1>5, GotoMemory
  <2> QED
    BY <1>2, <1>5, <2>1 DEF Deletes, Locked
<1> QED
  BY <1>3, <1>4, <1>5

\* Every step is one of these.
LEMMA MemoryMoves ==
  ASSUME StaleCopiesHarmless, NoPanic, [Next]_vars
  PROVE  MemoryMove
<1>1. WorkersTypeOK /\ self \in Procs /\ "workflow" \in Procs
  BY DEF StaleCopiesHarmless, TypeOK, self, Procs
<1>2. ASSUME NEW p \in Procs, UpdateStatus(p)
      PROVE  MemoryMove
  BY Zenon, <1>1, <1>2, UpdateStatusMemory DEF MemoryMove
<1>3. CASE AddonStep
  BY Zenon, <1>1, <1>2, <1>3, BeginMemory, InstallMemory, DeletionMemory
     DEF AddonStep, Reconcile, MemoryMove
<1>4. CASE \E k \in Keys : WfIgnore(k) \/ WfReconcile(k)
  <2>1. PICK k \in Keys : WfIgnore(k) \/ WfReconcile(k)
    BY <1>4
  <2>2. lock' = lock /\ vcache' = vcache /\ queue' = queue /\ pc["workflow"] = "idle"
    BY Zenon, <2>1 DEF WfIgnore, WfReconcile, WfBegin
  <2>3. \/ pc' = pc /\ inst' = inst
        \/ /\ pc' = [pc EXCEPT !["workflow"] = "lock"]
           /\ \E o : inst' = [inst EXCEPT !["workflow"] = o]
    BY Zenon, <2>1 DEF WfIgnore, WfReconcile
  <2>4. Only("workflow") /\ pc'["workflow"] \in {"idle", "lock"}
    BY <1>1, <2>2, <2>3 DEF Only, WorkersTypeOK
  <2> QED
    BY Zenon, <2>2, <2>4 DEF Takes, MemoryMove
<1>5. CASE WorkflowStep
  BY Zenon, <1>1, <1>2, <1>4, <1>5 DEF WorkflowStep
<1>6. CASE Environment
  <2>1. lock' = lock /\ vcache' = vcache /\ pc' = pc /\ inst' = inst
    BY Zenon, <1>6 DEF Environment, procVars
  <2>2. queue' = queue \/ queue' = TRUE
    BY Zenon, <1>6 DEF Environment, Deliver, WfDeliver, WfStart, WfFinish, GarbageCollect, Create,
       EditSpec, DeleteAddon, Tick
  <2> QED
    BY <2>1, <2>2 DEF Undisturbed, MemoryMove
<1>7. CASE ResourceEvent \/ UNCHANGED vars
  <2>1. lock' = lock /\ vcache' = vcache /\ pc' = pc /\ inst' = inst
    BY Zenon, <1>7 DEF ResourceEvent, procVars, vars
  <2>2. queue' = queue \/ queue' = TRUE
    BY Zenon, <1>7 DEF ResourceEvent, vars, clusterVars
  <2> QED
    BY <2>1, <2>2 DEF Undisturbed, MemoryMove
<1>8. CASE Crash
  BY Zenon, <1>8 DEF MemoryMove
<1> QED
  BY Zenon, <1>3, <1>5, <1>6, <1>7, <1>8 DEF Next

-----------------------------------------------------------------------------
\* The version cache: the invariant

Leaving == api = NoAddon \/ api.deleting

\* An addon that exists was not there before: no version on its way says that it
\* is gone, and nobody works on it before the informer has it.
EarlyInv ==
  /\ uids = 0 => watch = << >>
  /\ api # NoAddon => /\ \A i \in 1..Len(watch) : watch[i] # NoAddon
                      /\ cache = NoAddon => \A p \in Procs : pc[p] = "idle"

\* A version that is marked, and a worker that finalizes, were told of a deletion.
LeavingInv ==
  /\ \A o \in Copies : o # NoAddon /\ o.deleting => Leaving
  /\ pc[self] \in Finalizing => Leaving

\* The mutex excludes, and the status that a process is about to record is the
\* stored one.
RecordInv ==
  api # NoAddon => \A p \in Procs : /\ pc[p] \in Locked => lock = p
                                    /\ pc[p] = "record" => api.status = inst[p].status

\* The spec a pass works on is the one the informer has, or there is another pass.
PassInv == pc[self] # "idle" => queue \/ (cache # NoAddon /\ me.spec = cache.spec)

\* The version cache has the stored status, or there is something left to do.
Tracked ==
  \/ Leaving
  \/ vcache[PkgVersion[api.spec]] = api.status.installed
  \/ queue \/ watch # << >> \/ pc[self] # "idle"

CacheInv == EarlyInv /\ LeavingInv /\ RecordInv /\ PassInv /\ Tracked

\* As long as no process has a copy of an addon, none works.
LEMMA IdleStays ==
  ASSUME StaleCopiesHarmless, [Next]_vars, cache = NoAddon, \A p \in Procs : pc[p] = "idle"
  PROVE  \A p \in Procs : pc'[p] = "idle"
<1>1. "idle" \notin Updating /\ cache \notin Addons /\ Procs = {self, "workflow"}
  BY NoAddonAssumption DEF Updating, Procs, self
<1>2. AddonMove /\ WorkflowMove
  BY WorkerMoves
<1>3. pc'[self] = "idle"
  BY Zenon, <1>1, <1>2 DEF AddonMove, Stays, Leaves
<1>4. pc'["workflow"] = "idle"
  BY Zenon, <1>1, <1>2, ReconcileMoves DEF WorkflowMove, Stays, Leaves
<1> QED
  BY <1>1, <1>3, <1>4

\* In a step that creates the addon no process works.
LEMMA BornIdle ==
  ASSUME StaleCopiesHarmless, LivesInv, OneLife', [Next]_vars, Born
  PROVE  \A p \in Procs : pc[p] = "idle" /\ pc'[p] = "idle"
<1>1. \A p \in Procs : pc[p] = "idle"
  BY BornFirst DEF StaleCopiesHarmless, WorkersInv
<1>2. cache = NoAddon
  BY BornFirst, CopiesStep
<1> QED
  BY <1>1, <1>2, IdleStays

\* An addon that exists after a step and was not created by it existed before, and
\* one that is being deleted does not come back.
LEMMA StillThere ==
  ASSUME StaleCopiesHarmless, LivesInv, OneLife', [Next]_vars, ~Born
  PROVE  /\ api' # NoAddon => api # NoAddon
         /\ Leaving => Leaving'
<1>1. CASE Kept
  BY <1>1 DEF Kept, Leaving
<1>2. CASE Gone
  BY <1>2 DEF Gone, Leaving
<1>3. CASE Changed
  <2>1. api \in Addons /\ api # NoAddon
    BY <1>3, ChangedType DEF Changed
  <2>2. api.deleting => api'.deleting
    BY <1>3, <2>1 DEF Changed, Edited, Finalized, Marked, Reported, Addons
  <2> QED
    BY <2>1, <2>2 DEF Leaving
<1> QED
  BY <1>1, <1>2, <1>3, ApiStep

\* EarlyInv is kept.
LEMMA EarlyStep ==
  ASSUME StaleCopiesHarmless, LivesInv, OneLife', EarlyInv, [Next]_vars
  PROVE  EarlyInv'
<1>1. watch \in Seq(MaybeAddon) /\ uids \in Nat /\ InformerInv /\ InformerMove
  BY InformerMoves DEF StaleCopiesHarmless, TypeOK, StoreTypeOK, CountersTypeOK
<1>2. ASSUME uids' = 0
      PROVE  watch' = << >>
  <2>1. uids = 0 /\ watch = << >>
    BY <1>1, <1>2, LivesStep DEF EarlyInv
  <2>2. api = NoAddon
    <3>1. api # NoAddon => api.uid \in 1..uids
      BY Zenon, StoredIsCopy DEF LivesInv, OfALife
    <3> QED
      BY <2>1, <3>1
  <2>3. api' = api
    BY <1>2, <2>1, <2>2, ApiStep DEF Kept, Born, Changed, Gone
  <2> QED
    BY <1>1, <2>1, <2>3 DEF InformerMove, Crash
<1>3. ASSUME api' # NoAddon
      PROVE  /\ \A i \in 1..Len(watch') : watch'[i] # NoAddon
             /\ cache' = NoAddon => \A p \in Procs : pc'[p] = "idle"
  <2>1. \A i \in 1..Len(watch) : watch[i] # NoAddon
    <3>1. CASE Born
      <4>1. uids = 0
        BY <1>1, <3>1 DEF Born, OneLife
      <4> QED
        BY <4>1 DEF EarlyInv
    <3>2. CASE ~Born
      BY <1>3, <3>2, StillThere DEF EarlyInv
    <3> QED
      BY <3>1, <3>2
  <2>2. \A i \in 1..Len(watch') : watch'[i] # NoAddon
    BY <1>1, <1>3, <2>1 DEF InformerMove, Crash
  <2>3. ASSUME cache' = NoAddon
        PROVE  \A p \in Procs : pc'[p] = "idle"
    <3>1. CASE Born
      BY <3>1, BornIdle
    <3>2. CASE ~Born
      <4>1. cache = NoAddon
        BY <1>1, <1>3, <2>1, <2>3 DEF InformerMove, Crash
      <4> QED
        BY <1>3, <3>2, <4>1, StillThere, IdleStays DEF EarlyInv
    <3> QED
      BY <3>1, <3>2
  <2> QED
    BY <2>2, <2>3
<1> QED
  BY <1>2, <1>3 DEF EarlyInv

\* LeavingInv is kept.
LEMMA LeavingStep ==
  ASSUME StaleCopiesHarmless, LivesInv, OneLife', LeavingInv, [Next]_vars
  PROVE  LeavingInv'
<1>1. CASE Born
  <2>1. ~api'.deleting
    BY <1>1 DEF Born
  <2>2. \A o \in Copies' : o = NoAddon \/ o = api'
    BY <1>1, BornFirst, CopiesStep
  <2>3. pc'[self] = "idle"
    BY <1>1, BornIdle DEF self, Procs
  <2> QED
    BY <2>1, <2>2, <2>3 DEF LeavingInv, Finalizing
<1>2. CASE ~Born
  <2>1. Leaving => Leaving'
    BY <1>2, StillThere
  <2>2. ASSUME NEW o \in Copies', o # NoAddon, o.deleting
        PROVE  Leaving'
    <3>1. CASE o = api'
      BY <2>2, <3>1 DEF Leaving
    <3>2. CASE o \in Copies
      BY Zenon, <2>1, <2>2, <3>2 DEF LeavingInv
    <3> QED
      BY <3>1, <3>2, CopiesStep
  <2>3. ASSUME pc'[self] \in Finalizing
        PROVE  Leaving'
    <3>1. CASE pc[self] \in Finalizing
      BY Zenon, <2>1, <3>1 DEF LeavingInv
    <3>2. CASE pc[self] \notin Finalizing
      <4>1. ~Stays(self) /\ ~Leaves(self)
        BY <2>3, <3>2 DEF Stays, Leaves, Updating, Finalizing
      <4>2. ASSUME NEW o, NEW l, NEW st, Moved(o, l, st)
            PROVE  l \in Finalizing
        BY <2>3, <4>2 DEF Moved
      <4>3. ASSUME NEW l \in Finalizing, NEW st
            PROVE  ~BeginsInstallation(l, st) /\ ~GoesOnPreparing(l, st) /\ ~GoesOnRunning(l, st)
        BY DEF Finalizing, BeginsInstallation, GoesOnPreparing, GoesOnRunning, Submitted
      <4>4. ASSUME NEW l, NEW st, GoesOnDeleting(l, st)
            PROVE  pc[self] \in Finalizing
        BY <4>4 DEF GoesOnDeleting, Finalizing
      <4>5. cache \in Addons /\ cache.deleting
        BY Zenon, <3>2, <4>1, <4>2, <4>3, <4>4, WorkerMoves DEF AddonMove, BeginsDeletion
      <4>6. Leaving
        BY <4>5, CopiesStep, NoAddonAssumption DEF LeavingInv
      <4> QED
        BY <2>1, <4>6
    <3> QED
      BY <3>1, <3>2
  <2> QED
    BY <2>2, <2>3 DEF LeavingInv
<1> QED
  BY <1>1, <1>2

\* The mutex excludes after a step.
LEMMA LockStep ==
  ASSUME StaleCopiesHarmless, NoPanic, EarlyInv, RecordInv, [Next]_vars, api # NoAddon,
         NEW p \in Procs, pc'[p] \in Locked
  PROVE  lock' = p
<1>1. /\ \A q \in Procs : pc[q] \in Locked => lock = q
      /\ "idle" \notin Locked /\ "lock" \notin Locked /\ "free" \notin Procs
  BY DEF RecordInv, Locked, Procs
<1>2. CASE Undisturbed \/ Forgets
  <2>1. pc[p] \in Locked
    BY <1>2 DEF Undisturbed, Forgets
  <2>2. ~Forgets
    BY <1>1, <2>1 DEF Forgets, EarlyInv
  <2> QED
    BY <1>1, <1>2, <2>1, <2>2 DEF Undisturbed
<1>3. CASE Starts \/ Proceeds \/ Deletes
  <2>1. p # self /\ lock' = lock /\ pc'[p] = pc[p]
    BY <1>3 DEF Starts, Proceeds, Deletes, Only
  <2> QED
    BY <1>1, <2>1
<1>4. CASE Takes
  <2>1. p # "workflow" /\ lock' = lock /\ pc'[p] = pc[p]
    BY <1>1, <1>4 DEF Takes, Only
  <2> QED
    BY <1>1, <2>1
<1>5. CASE Crash
  BY <1>1, <1>5 DEF Crash
<1>6. ASSUME NEW q \in Procs, Only(q), Locks(q) \/ Tries(q) \/ Fails(q) \/ Records(q)
      PROVE  lock' = p
  <2>1. p # q => pc'[p] = pc[p]
    BY <1>6 DEF Only
  <2> QED
    BY <1>1, <1>6, <2>1 DEF Locks, Tries, Fails, Records, Released
<1> QED
  BY Zenon, <1>2, <1>3, <1>4, <1>5, <1>6, MemoryMoves DEF MemoryMove

\* A process that is about to record came there with this step, which stored its
\* status, or was there already.
LEMMA AboutToRecord ==
  ASSUME StaleCopiesHarmless, NoPanic, [Next]_vars, NEW p \in Procs, pc'[p] = "record"
  PROVE  /\ inst'[p] = inst[p]
         /\ \/ pc[p] = "record"
            \/ pc[p] = "put" /\ api' = [api EXCEPT !.status = inst[p].status]
<1>1. "record" \in Locked /\ "record" \notin {"idle", "lock", "put"}
  BY DEF Locked
<1>2. CASE Undisturbed \/ Forgets
  BY <1>2 DEF Undisturbed, Forgets
<1>3. CASE Starts \/ Proceeds \/ Deletes
  BY <1>1, <1>3 DEF Starts, Proceeds, Deletes, Only
<1>4. CASE Takes
  BY <1>1, <1>4 DEF Takes, Only
<1>5. CASE Crash
  BY <1>5 DEF Crash
<1>6. ASSUME NEW q \in Procs, Only(q), Locks(q) \/ Tries(q) \/ Fails(q) \/ Records(q), p = q
      PROVE  /\ inst'[p] = inst[p]
             /\ pc[p] = "put" /\ api' = [api EXCEPT !.status = inst[p].status]
  BY <1>6 DEF Locks, Tries, Fails, Records
<1>7. ASSUME NEW q \in Procs, Only(q), p # q
      PROVE  inst'[p] = inst[p] /\ pc[p] = "record"
  BY <1>7 DEF Only
<1> QED
  BY Zenon, <1>2, <1>3, <1>4, <1>5, <1>6, <1>7, MemoryMoves DEF MemoryMove

\* While a process is about to record, its status stays the stored one.
LEMMA RecordedIsStored ==
  ASSUME StaleCopiesHarmless, NoPanic, RecordInv, [Next]_vars, api # NoAddon, api' # NoAddon,
         NEW p \in Procs, pc'[p] = "record"
  PROVE  api'.status = inst'[p].status
<1>1. api \in Addons
  BY DEF StaleCopiesHarmless, TypeOK, StoreTypeOK, MaybeAddon
<1>2. CASE api' = [api EXCEPT !.status = inst[p].status]
  BY <1>1, <1>2, AboutToRecord DEF Addons
<1>3. CASE pc[p] = "record"
  <2>1. lock = p /\ api.status = inst[p].status
    BY <1>3 DEF RecordInv, Locked
  <2>2. ~Reported
    <3>1. \A q \in fresh : q \in Procs /\ (pc[q] = "put" => lock = q)
      BY DEF RecordInv, Locked, StaleCopiesHarmless, TypeOK, StoreTypeOK
    <3> QED
      BY <1>3, <2>1, <3>1 DEF Reported
  <2>3. api'.status = api.status
    BY <1>1, <2>2, ApiStep DEF Kept, Born, Changed, Edited, Finalized, Marked, Gone, Addons
  <2> QED
    BY <2>1, <2>3, AboutToRecord
<1> QED
  BY <1>2, <1>3, AboutToRecord

\* RecordInv is kept.
LEMMA RecordInvStep ==
  ASSUME StaleCopiesHarmless, LivesInv, OneLife', NoPanic, EarlyInv, RecordInv, [Next]_vars
  PROVE  RecordInv'
<1> SUFFICES ASSUME api' # NoAddon, NEW p \in Procs
             PROVE  /\ pc'[p] \in Locked => lock' = p
                    /\ pc'[p] = "record" => api'.status = inst'[p].status
  BY Zenon DEF RecordInv
<1>1. CASE Born
  BY <1>1, BornIdle DEF Locked
<1>2. CASE ~Born
  <2>1. api # NoAddon
    BY <1>2, StillThere
  <2> QED
    BY Zenon, <2>1, LockStep, RecordedIsStored
<1> QED
  BY <1>1, <1>2

\* PassInv is kept.
LEMMA PassStep ==
  ASSUME StaleCopiesHarmless, NoPanic, PassInv, [Next]_vars
  PROVE  PassInv'
<1> SUFFICES ASSUME pc'[self] # "idle", ~queue'
             PROVE  cache' # NoAddon /\ inst'[self].spec = cache'.spec
  BY DEF PassInv, me
<1>1. "idle" \notin Updating /\ ~Crash /\ self \in Procs
  BY DEF Updating, Crash, self, Procs
<1>2. AddonMove /\ InformerMove /\ MemoryMove
  BY WorkerMoves, InformerMoves, MemoryMoves
<1>3. CASE pc[self] = "idle"
  <2>1. cache \in Addons /\ cache' = cache /\ \E l, st : Moved(cache, l, st)
    BY Zenon, <1>1, <1>2, <1>3 DEF AddonMove, Stays, Leaves
  <2> QED
    BY <2>1, NoAddonAssumption DEF Moved
<1>4. CASE pc[self] # "idle"
  <2>1. ~queue
    BY Zenon, <1>1, <1>2, <1>4 DEF MemoryMove, Undisturbed, Forgets, Starts, Proceeds, Deletes,
       Takes, Locks, Tries, Fails, Records
  <2>2. cache # NoAddon /\ me.spec = cache.spec
    BY <1>4, <2>1 DEF PassInv
  <2>3. cache' = cache
    BY <1>1, <1>2 DEF InformerMove
  <2>4. inst'[self].spec = me.spec
    BY Zenon, <1>2, <1>4 DEF AddonMove, Stays, Leaves, Moved, me
  <2> QED
    BY <2>2, <2>3, <2>4
<1> QED
  BY <1>3, <1>4

\* In a step after which the informer lags behind nothing and no pass is to come,
\* nothing is stored.
LEMMA NothingStored ==
  ASSUME StaleCopiesHarmless, [Next]_vars, api' # NoAddon, ~queue', watch' = << >>
  PROVE  UNCHANGED <<api, watch, cache>> /\ cache = api /\ ~Crash
<1>1. InformerMove /\ watch \in Seq(MaybeAddon)
  BY InformerMoves DEF StaleCopiesHarmless, TypeOK, StoreTypeOK
<1>2. ~Crash
  BY DEF Crash
<1>3. watch' # Append(watch, api')
  <2>1. api' \in MaybeAddon
    BY NextInv DEF StaleCopiesHarmless, TypeOK, StoreTypeOK
  <2>2. Len(Append(watch, api')) = Len(watch) + 1 /\ Len(watch) \in Nat
    BY <1>1, <2>1
  <2> QED
    BY <2>2
<1>4. UNCHANGED <<api, watch, cache>>
  BY <1>1, <1>2, <1>3 DEF InformerMove
<1>5. cache = api
  BY <1>4 DEF StaleCopiesHarmless, InformerInv
<1> QED
  BY <1>2, <1>4, <1>5

\* Recording the status that is stored makes or leaves the entry right.
LEMMA RecordsStored ==
  ASSUME StaleCopiesHarmless, api \in Addons, NEW o \in Addons, o.status = api.status, Record(o),
         o.spec = api.spec \/ vcache[PkgVersion[api.spec]] = api.status.installed
  PROVE  vcache'[PkgVersion[api.spec]] = api.status.installed
<1>1. vcache \in [Versions -> Phases \cup {"none"}] /\ PkgVersion[api.spec] \in Versions
  BY ConstantsAssumption DEF StaleCopiesHarmless, TypeOK, MemoryTypeOK, Addons
<1> QED
  BY <1>1 DEF Record

\* Tracked is kept: a pass ends with an error, and then another one comes, or by
\* recording the status that is stored.
LEMMA TrackedStep ==
  ASSUME StaleCopiesHarmless, NoPanic, EarlyInv, LeavingInv, RecordInv, PassInv, Tracked, [Next]_vars
  PROVE  Tracked'
<1> SUFFICES ASSUME ~Leaving', ~queue', watch' = << >>, pc'[self] = "idle"
             PROVE  vcache'[PkgVersion[api'.spec]] = api'.status.installed
  BY DEF Tracked
<1>1. UNCHANGED <<api, watch, cache>> /\ cache = api /\ ~Crash /\ ~Leaving
  BY NothingStored DEF Leaving
<1>2. api \in Addons /\ api # NoAddon /\ ~cache.deleting
  BY <1>1 DEF Leaving, StaleCopiesHarmless, TypeOK, StoreTypeOK, MaybeAddon
<1>3. ~Forgets /\ ~Starts /\ ~Deletes /\ ~Proceeds
  BY <1>1, <1>2 DEF Forgets, Starts, Deletes, Proceeds, LeavingInv
<1>4. self \in Procs /\ "record" # "idle" /\ "lock" # "idle" /\ "idle" \notin Locked
  BY DEF self, Procs, Locked
<1>5. CASE Undisturbed \/ Takes
  <2>1. ~queue /\ watch = << >> /\ pc[self] = "idle" /\ vcache' = vcache
    BY <1>1, <1>5 DEF Undisturbed, Takes, Only, self, Procs
  <2> QED
    BY <1>1, <2>1 DEF Tracked
<1>6. ASSUME NEW p \in Procs, Only(p), Locks(p) \/ Tries(p) \/ Fails(p)
      PROVE  vcache' = vcache /\ ~queue /\ pc[self] = "idle"
  <2>1. p # self
    BY <1>4, <1>6 DEF Locks, Tries, Fails
  <2> QED
    BY <1>4, <1>6, <2>1 DEF Locks, Tries, Fails, Only
<1>7. ASSUME NEW p \in Procs, Only(p), Records(p)
      PROVE  vcache'[PkgVersion[api.spec]] = api.status.installed
  <2>1. pc[p] = "record" /\ Record(inst[p]) /\ ~queue
    BY <1>7 DEF Records
  <2>2. inst[p] \in Addons /\ inst[p].status = api.status
    BY <1>2, <1>4, <2>1 DEF RecordInv, StaleCopiesHarmless, WorkersInv, TypeOK, WorkersTypeOK, MaybeAddon
  <2>3. CASE p = self
    <3>1. inst[p].spec = api.spec
      BY <1>1, <1>4, <2>1, <2>3 DEF PassInv, me
    <3> QED
      BY Zenon, <1>2, <2>1, <2>2, <3>1, RecordsStored
  <2>4. CASE p # self
    <3>1. pc[self] = "idle"
      BY <1>4, <1>7, <2>4 DEF Only
    <3>2. vcache[PkgVersion[api.spec]] = api.status.installed
      BY <1>1, <2>1, <3>1 DEF Tracked
    <3> QED
      BY Zenon, <1>2, <2>1, <2>2, <3>2, RecordsStored
  <2> QED
    BY <2>3, <2>4
<1>8. CASE vcache' = vcache /\ ~queue /\ pc[self] = "idle"
  BY <1>1, <1>8 DEF Tracked
<1> QED
  BY Zenon, <1>1, <1>3, <1>5, <1>6, <1>7, <1>8, MemoryMoves DEF MemoryMove

\* CacheInv is kept as long as the name of the addon is used once and nothing panics.
LEMMA CacheStep ==
  ASSUME StaleCopiesHarmless, LivesInv, OneLife', NoPanic, CacheInv, [Next]_vars
  PROVE  CacheInv'
<1>1. EarlyInv /\ LeavingInv /\ RecordInv /\ PassInv /\ Tracked
  BY DEF CacheInv
<1>2. EarlyInv' /\ LeavingInv' /\ RecordInv'
  BY Zenon, <1>1, EarlyStep, LeavingStep, RecordInvStep
<1>3. PassInv' /\ Tracked'
  BY Zenon, <1>1, PassStep, TrackedStep
<1> QED
  BY <1>2, <1>3 DEF CacheInv

\* An addon whose name is used once, of which no validation and no template makes
\* execAddon panic: whenever the manager is quiet, the version cache has the status
\* of the API, after restarts and failures too.
THEOREM VersionCacheFollows ==
  ASSUME NoPanic
  PROVE  Spec /\ []OneLife => []VersionCacheFollowsStatus
<1>1. Init => CacheInv
  <2> SUFFICES ASSUME Init
               PROVE  CacheInv
    OBVIOUS
  <2>1. Copies = {NoAddon} /\ api = NoAddon /\ watch = << >> /\ pc[self] = "idle"
    BY DEF Init, Copies, self, Procs
  <2> QED
    BY <2>1 DEF CacheInv, EarlyInv, LeavingInv, RecordInv, PassInv, Tracked, Leaving, Finalizing
<1>2. StaleCopiesHarmless /\ LivesInv /\ OneLife' /\ CacheInv /\ [Next]_vars => CacheInv'
  BY CacheStep
<1>3. CacheInv => VersionCacheFollowsStatus
  BY DEF CacheInv, Tracked, Leaving, VersionCacheFollowsStatus, Quiet, self, Procs
<1> QED
  BY <1>1, <1>2, <1>3, StaleCopiesHarmlessAlways, LivesAlways, PTL DEF Spec

=============================================================================
