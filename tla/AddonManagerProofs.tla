------------------------- MODULE AddonManagerProofs -------------------------
(***************************************************************************)
(* The steps of the addon controller keep StaleCopiesHarmless; and, for    *)
(* every value of the constants: it is an invariant of the manager, what   *)
(* follows from it, and that the manager implements AddonLife.             *)
(***************************************************************************)
EXTENDS StatusUpdaterProofs

-----------------------------------------------------------------------------
\* The addon controller: the beginning of a pass

\* The Get with which a pass begins, and what it tells.
LEMMA BeginFacts ==
  ASSUME StaleCopiesHarmless, NEW deleting, BeginWith(deleting), crashes' = crashes
  PROVE  /\ StoreTypeOK' /\ InformerInv' /\ WorkflowsTypeOK' /\ CountersTypeOK'
         /\ queue' = FALSE /\ api' = api /\ pc[self] = "idle"
         /\ cache \in Addons /\ cache.deleting = deleting
         /\ fresh' \subseteq fresh \cup {self}
         /\ self \in fresh' => cache = api
         /\ Claims(cache) => Held(cache)
<1>1. StoreTypeOK /\ WorkflowsTypeOK /\ CountersTypeOK /\ InformerInv
  BY DEF StaleCopiesHarmless, TypeOK
<1>2. /\ UNCHANGED <<api, watch, cache, wf, wfCache, wfQueue, ran, now, uids, edits, faults>>
      /\ queue' = FALSE /\ pc[self] = "idle" /\ cache # NoAddon /\ cache.deleting = deleting
      /\ Get(self)
  BY DEF BeginWith, Begin, wfVars, envVars
<1>3. /\ fresh' \subseteq fresh \cup {self} /\ (self \in fresh' => watch = << >>)
      /\ (fresh' \subseteq fresh \/ watch = << >>) /\ self \in Procs
  BY <1>2 DEF Get, self, Procs
<1>4. InformerInv'
  BY <1>1, <1>2, <1>3, InformerSame
<1>5. StoreTypeOK' /\ WorkflowsTypeOK' /\ CountersTypeOK'
  BY <1>1, <1>2, <1>3 DEF StoreTypeOK, WorkflowsTypeOK, CountersTypeOK
<1>6. cache \in Addons /\ (self \in fresh' => cache = api) /\ (Claims(cache) => Held(cache))
  BY <1>1, <1>2, <1>3 DEF StoreTypeOK, MaybeAddon, InformerInv, Copies
<1> QED
  BY <1>2, <1>3, <1>4, <1>5, <1>6

\* A pass that ends where it began.
LEMMA IdleWorkers ==
  ASSUME WorkersInv, pc[self] = "idle", UNCHANGED <<pc, inst, wkey>>, api' = api,
         fresh' \subseteq fresh \cup {self}
  PROVE  WorkersInv'
BY DEF WorkersInv, Knows, RaceGuard, Installing, self

\* ... and goes on to UpdateStatus.
LEMMA BeginUpdate ==
  ASSUME StaleCopiesHarmless, NEW deleting, BeginWith(deleting), crashes' = crashes,
         NEW st \in Statuses, NEW again \in BOOLEAN, Update(cache, st, again), MemoryTypeOK'
  PROVE  StaleCopiesHarmless'
<1>1. StoreTypeOK /\ WorkersTypeOK /\ WorkersInv
  BY DEF StaleCopiesHarmless, TypeOK
<1>2. WorkersTypeOK' /\ requeue' \in BOOLEAN /\ WorkersInv'
  BY Zenon, <1>1, BeginFacts, UpdateWorkers
<1>3. FlagsTypeOK'
  BY Zenon, <1>2, BeginFacts DEF FlagsTypeOK
<1> QED
  BY Zenon, <1>2, <1>3, BeginFacts DEF StaleCopiesHarmless, TypeOK

\* ... and goes on to another label.
LEMMA BeginGoto ==
  ASSUME StaleCopiesHarmless, NEW deleting, BeginWith(deleting), crashes' = crashes,
         NEW l \in Labels \ {"idle", "put"}, NEW o \in Addons, Goto(l, o), MemoryTypeOK',
         o.uid = cache.uid,
         l \in {"delete", "deleteSubmitted", "unfinalize"} => deleting = TRUE,
         l \in Installing => Held(o)
  PROVE  StaleCopiesHarmless'
<1>1. StoreTypeOK /\ WorkersTypeOK /\ FlagsTypeOK /\ WorkersInv
  BY DEF StaleCopiesHarmless, TypeOK
<1>2. pc'[self] = l /\ inst'[self] = o
  BY <1>1 DEF Goto, WorkersTypeOK, self, Procs
<1>3. self \in fresh' => Knows(self)'
  BY Zenon, <1>2, BeginFacts, NoAddonAssumption DEF Knows
<1>4. l \in Installing => Held(o)'
  BY Zenon, BeginFacts DEF Held
<1>5. WorkersTypeOK' /\ requeue' \in BOOLEAN /\ WorkersInv'
  BY Zenon, <1>1, <1>3, <1>4, BeginFacts, GotoWorkers
<1>6. FlagsTypeOK'
  BY Zenon, <1>5, BeginFacts DEF FlagsTypeOK
<1> QED
  BY Zenon, <1>5, <1>6, BeginFacts DEF StaleCopiesHarmless, TypeOK

\* ... and ends at once.
LEMMA BeginEnd ==
  ASSUME StaleCopiesHarmless, NEW deleting, BeginWith(deleting), crashes' = crashes,
         UNCHANGED procVars, MemoryTypeOK'
  PROVE  StaleCopiesHarmless'
<1>1. WorkersTypeOK /\ FlagsTypeOK /\ WorkersInv
  BY DEF StaleCopiesHarmless, TypeOK
<1>2. WorkersTypeOK' /\ FlagsTypeOK'
  BY Zenon, <1>1, BeginFacts DEF WorkersTypeOK, FlagsTypeOK, procVars
<1>3. WorkersInv'
  BY Zenon, <1>1, BeginFacts, IdleWorkers DEF procVars
<1> QED
  BY Zenon, <1>2, <1>3, BeginFacts DEF StaleCopiesHarmless, TypeOK

\* RemoveVersion keeps the type of the version cache.
LEMMA RemoveVersionType ==
  ASSUME MemoryTypeOK, NEW v \in Versions, RemoveVersion(v), lock' \in Procs \cup {"free"}
  PROVE  MemoryTypeOK'
BY DEF MemoryTypeOK, RemoveVersion

\* RemoveFromCache, for an addon that is gone, keeps the invariant.
LEMMA ReconcileGoneInv ==
  ASSUME StaleCopiesHarmless, ReconcileGone, crashes' = crashes
  PROVE  StaleCopiesHarmless'
<1>1. StoreTypeOK /\ WorkflowsTypeOK /\ CountersTypeOK /\ WorkersTypeOK /\ MemoryTypeOK
      /\ FlagsTypeOK /\ InformerInv /\ WorkersInv
  BY DEF StaleCopiesHarmless, TypeOK
<1>2. /\ UNCHANGED <<api, watch, cache, fresh, wf, wfCache, wfQueue, ran, now, uids, edits, faults>>
      /\ UNCHANGED <<pc, inst, requeue, wkey, tries>>
      /\ queue' = FALSE /\ pc[self] = "idle" /\ RemoveFromCache
  BY DEF ReconcileGone, Begin, wfVars, envVars, procVars
<1>3. StoreTypeOK' /\ WorkflowsTypeOK' /\ CountersTypeOK' /\ WorkersTypeOK' /\ FlagsTypeOK'
  BY Zenon, <1>1, <1>2 DEF StoreTypeOK, WorkflowsTypeOK, CountersTypeOK, WorkersTypeOK, FlagsTypeOK
<1>4. MemoryTypeOK'
  BY <1>1, <1>2 DEF RemoveFromCache, RemoveVersion, MemoryTypeOK
<1>5. InformerInv' /\ WorkersInv'
  BY <1>1, <1>2, InformerSame, IdleWorkers
<1> QED
  BY <1>3, <1>4, <1>5 DEF StaleCopiesHarmless, TypeOK

\* The first step of a pass keeps the invariant.
LEMMA BeginInv ==
  ASSUME StaleCopiesHarmless, crashes' = crashes,
         \/ MarkDeleting \/ Finalize \/ ProcessChanged \/ ProcessCompleted
         \/ \E outcome \in ValidationOutcomes : ProcessValidate(outcome)
  PROVE  StaleCopiesHarmless'
<1>1. MemoryTypeOK
  BY DEF StaleCopiesHarmless, TypeOK
<1>2. ASSUME lock' = lock, vcache' = vcache
      PROVE  MemoryTypeOK'
  BY <1>1, <1>2 DEF MemoryTypeOK
<1>3. {"Deleting", "Pending", "ValidationFailed"} \subseteq Phases
  BY DEF Phases
<1>4. {"unfinalize", "delete", "listwf", "prereqs", "finalizer"} \subseteq Labels \ {"idle", "put"}
  BY DEF Labels
<1>5. ASSUME cache \in Addons
      PROVE  cache.status \in Statuses /\ PkgVersion[cache.spec] \in Versions
             /\ Checksum[cache.spec] \in Checksums
  BY <1>5, ConstantsAssumption DEF Addons
<1>6. CASE MarkDeleting
  <2>1. BeginWith(TRUE) /\ MemoryTypeOK'
        /\ Update(cache, SetInstallStatus(cache.status, "Deleting"), FALSE)
    BY Zenon, <1>2, <1>6 DEF MarkDeleting
  <2>2. SetInstallStatus(cache.status, "Deleting") \in Statuses
    BY Zenon, <1>3, <1>5, <2>1, BeginFacts, SetInstallStatusType
  <2> QED
    BY Zenon, <2>1, <2>2, BeginUpdate
<1>7. CASE Finalize
  <2>1. BeginWith(TRUE) /\ lock' = lock
    BY Zenon, <1>7 DEF Finalize
  <2>2. cache \in Addons /\ PkgVersion[cache.spec] \in Versions
    BY Zenon, <1>5, <2>1, BeginFacts
  <2>3. MemoryTypeOK'
    BY Zenon, <1>1, <1>2, <1>7, <2>1, <2>2, RemoveVersionType DEF Finalize, MemoryTypeOK
  <2>4. "unfinalize" \notin Installing /\ "delete" \notin Installing
    BY DEF Installing
  <2>5. Goto("unfinalize", cache) \/ Goto("delete", cache) \/ UNCHANGED procVars
    BY Zenon, <1>7 DEF Finalize
  <2>6. CASE Goto("unfinalize", cache)
    BY Zenon, <1>4, <2>1, <2>2, <2>3, <2>4, <2>6, BeginGoto
  <2>7. CASE Goto("delete", cache)
    BY Zenon, <1>4, <2>1, <2>2, <2>3, <2>4, <2>7, BeginGoto
  <2>8. CASE UNCHANGED procVars
    BY Zenon, <2>1, <2>3, <2>8, BeginEnd
  <2> QED
    BY <2>5, <2>6, <2>7, <2>8
<1>8. CASE ProcessChanged
  <2> DEFINE o == [cache EXCEPT !.status.checksum = Checksum[cache.spec]]
  <2>1. BeginWith(FALSE) /\ MemoryTypeOK' /\ Goto("listwf", o)
    BY Zenon, <1>2, <1>8 DEF ProcessChanged
  <2>2. cache \in Addons /\ cache.status \in Statuses /\ Checksum[cache.spec] \in Checksums
    BY Zenon, <1>5, <2>1, BeginFacts
  <2>3. o \in Addons /\ o.uid = cache.uid
    BY Zenon, <2>2 DEF Addons, Statuses
  <2> HIDE DEF o
  <2>4. "listwf" \notin Installing
    BY DEF Installing
  <2> QED
    BY Zenon, <1>4, <2>1, <2>3, <2>4, BeginGoto
<1>9. CASE ProcessCompleted
  <2>1. BeginWith(FALSE) /\ MemoryTypeOK' /\ Update(cache, cache.status, FALSE)
    BY Zenon, <1>2, <1>9 DEF ProcessCompleted
  <2> QED
    BY Zenon, <1>5, <2>1, BeginFacts, BeginUpdate
<1>10. ASSUME NEW outcome \in ValidationOutcomes, ProcessValidate(outcome)
       PROVE  StaleCopiesHarmless'
  <2>1. BeginWith(FALSE) /\ MemoryTypeOK'
    BY Zenon, <1>2, <1>10 DEF ProcessValidate
  <2>2. cache \in Addons /\ cache.status \in Statuses /\ cache.deleting = FALSE
        /\ (Claims(cache) => Held(cache))
    BY Zenon, <1>5, <2>1, BeginFacts
  <2>3. \/ cache.finalizer /\ Goto("prereqs", cache)
        \/ Goto("finalizer", cache)
        \/ Update(cache, SetInstallStatus(cache.status, "Pending"), TRUE)
        \/ Update(cache, SetInstallStatus(cache.status, "ValidationFailed"), TRUE)
        \/ UNCHANGED procVars
    BY Zenon, <1>10 DEF ProcessValidate
  <2>4. CASE cache.finalizer /\ Goto("prereqs", cache)
    <3>1. Held(cache)
      BY <2>2, <2>4, NoAddonAssumption DEF Claims
    <3> QED
      BY Zenon, <1>4, <2>1, <2>2, <2>4, <3>1, BeginGoto
  <2>5. CASE Goto("finalizer", cache)
    <3>1. "finalizer" \notin Installing
      BY DEF Installing
    <3> QED
      BY Zenon, <1>4, <2>1, <2>2, <2>5, <3>1, BeginGoto
  <2>6. ASSUME NEW p \in {"Pending", "ValidationFailed"},
               Update(cache, SetInstallStatus(cache.status, p), TRUE)
        PROVE  StaleCopiesHarmless'
    <3>1. SetInstallStatus(cache.status, p) \in Statuses
      BY <1>3, <2>2, SetInstallStatusType
    <3> QED
      BY Zenon, <2>1, <2>6, <3>1, BeginUpdate
  <2>7. CASE UNCHANGED procVars
    BY Zenon, <2>1, <2>7, BeginEnd
  <2> QED
    BY Zenon, <2>3, <2>4, <2>5, <2>6, <2>7
<1> QED
  BY <1>6, <1>7, <1>8, <1>9, <1>10

-----------------------------------------------------------------------------
\* The addon controller: installation

\* How every step of executePrereqAndInstall ends.
Continues ==
  \/ \E st \in Statuses, again \in BOOLEAN : Update(me, st, again)
  \/ \E l \in {"prereqsSubmitted", "install", "installSubmitted"}, st \in Statuses :
       Goto(l, [me EXCEPT !.status = st])
  \/ Goto("idle", NoAddon)

\* A step that ends like this keeps the invariant.
LEMMA ContinuesInv ==
  ASSUME StaleCopiesHarmless, crashes' = crashes,
         UNCHANGED unchangedByRun, wf' \in [Keys -> Workflows], faults' \in Nat,
         pc[self] \in {"listwf", "prereqs", "prereqsSubmitted", "install", "installSubmitted"},
         Continues,
         pc'[self] \in Installing => pc[self] \in Installing
  PROVE  StaleCopiesHarmless'
<1>1. StoreTypeOK /\ WorkflowsTypeOK /\ CountersTypeOK /\ WorkersTypeOK /\ MemoryTypeOK
      /\ FlagsTypeOK /\ InformerInv /\ WorkersInv
  BY DEF StaleCopiesHarmless, TypeOK
<1>2. /\ UNCHANGED <<api, watch, fresh, cache, queue, wfCache, wfQueue, ran>>
      /\ UNCHANGED <<now, uids, edits, lock, vcache>>
  BY DEF unchangedByRun, storeVars
<1>3. StoreTypeOK' /\ WorkflowsTypeOK' /\ CountersTypeOK' /\ MemoryTypeOK'
  BY <1>1, <1>2 DEF StoreTypeOK, WorkflowsTypeOK, CountersTypeOK, MemoryTypeOK
<1>4. InformerInv'
  BY <1>1, <1>2, InformerSame
<1>5. me \in Addons
  BY <1>1 DEF WorkersTypeOK, WorkersInv, MaybeAddon, me, self, Procs
<1>6. WorkersTypeOK' /\ requeue' \in BOOLEAN /\ WorkersInv'
  <2>1. ASSUME NEW st \in Statuses, NEW again \in BOOLEAN, Update(me, st, again)
        PROVE  WorkersTypeOK' /\ requeue' \in BOOLEAN /\ WorkersInv'
    BY <1>1, <1>2, <1>5, <2>1, UpdateWorkers
  <2>2. ASSUME NEW l \in {"prereqsSubmitted", "install", "installSubmitted"},
               NEW st \in Statuses, Goto(l, [me EXCEPT !.status = st])
        PROVE  WorkersTypeOK' /\ requeue' \in BOOLEAN /\ WorkersInv'
    <3>1. PICK o \in Addons : o.uid = me.uid /\ Goto(l, o)
      BY <1>5, <2>2 DEF Addons
    <3>2. l \in Labels \ {"idle"} /\ pc'[self] = l
      BY <1>1, <2>2 DEF Labels, Goto, WorkersTypeOK, self, Procs
    <3>3. Knows(self)'
      BY <3>2 DEF Knows
    <3>4. l \in Installing => Held(o)'
      BY <1>1, <1>2, <3>1, <3>2 DEF WorkersInv, Held
    <3> QED
      BY <1>1, <1>2, <3>1, <3>2, <3>3, <3>4, GotoWorkers
  <2>3. CASE Goto("idle", NoAddon)
    BY <1>1, <1>2, <2>3, PanicWorkers
  <2> QED
    BY Zenon, <2>1, <2>2, <2>3 DEF Continues
<1>7. FlagsTypeOK'
  BY <1>1, <1>2, <1>6 DEF FlagsTypeOK
<1> QED
  BY <1>3, <1>4, <1>6, <1>7 DEF StaleCopiesHarmless, TypeOK

\* A failed call is counted.
LEMMA FaultType ==
  ASSUME faults \in Nat, NEW f, Fault(f)
  PROVE  faults' \in Nat
BY DEF Fault

\* The end of processAddon is such an end.
LEMMA ObserveContinues ==
  ASSUME NEW st \in Statuses, faults \in Nat, Observe(me, st)
  PROVE  Continues /\ faults' \in Nat
<1>1. SetInstallStatus(st, "Failed") \in Statuses
  BY Zenon, SetInstallStatusType DEF Phases
<1>2. Running(st.installed) \in BOOLEAN
  BY DEF Running
<1>3. CASE Update(me, st, Running(st.installed)) /\ UNCHANGED faults
  BY <1>2, <1>3 DEF Continues
<1>4. CASE Fault("observe") /\ Update(me, SetInstallStatus(st, "Failed"), TRUE)
  <2>1. Continues
    BY Zenon, <1>1, <1>4 DEF Continues
  <2> QED
    BY <1>4, <2>1, FaultType
<1> QED
  BY Zenon, <1>3, <1>4 DEF Observe

\* So is what follows runWorkflow.
LEMMA AfterWorkflowContinues ==
  ASSUME NEW st \in Statuses, NEW step, faults \in Nat, AfterWorkflow(step, me, st)
  PROVE  Continues /\ faults' \in Nat
<1>1. SetInstallStatus(st, "Failed") \in Statuses
  BY Zenon, SetInstallStatusType DEF Phases
<1>2. CASE Goto("install", [me EXCEPT !.status = st]) /\ UNCHANGED faults
  BY <1>2 DEF Continues
<1>3. CASE Observe(me, st) \/ Observe(me, SetInstallStatus(st, "Failed"))
  BY <1>1, <1>3, ObserveContinues
<1> QED
  BY <1>2, <1>3 DEF AfterWorkflow, AfterPrereqs

\* Submitting a workflow keeps the type of the workflows.
LEMMA SubmitType ==
  ASSUME WorkflowsTypeOK, NEW o \in Addons, NEW step \in Steps, Submit(o, step)
  PROVE  wf' \in [Keys -> Workflows]
<1>1. Key(o, step) \in Keys
  BY ConstantsAssumption DEF Key, Keys, Addons
<1>2. [phase |-> "new", owner |-> o.uid] \in Workflows
  BY DEF Workflows, WorkflowPhases, Addons
<1> QED
  BY <1>1, <1>2 DEF Submit, WorkflowsTypeOK

\* So is runWorkflow up to the submission.
LEMMA RunWorkflowContinues ==
  ASSUME WorkflowsTypeOK, faults \in Nat, me \in Addons, NEW step \in {"prereqs", "install"},
         RunWorkflow(step)
  PROVE  Continues /\ faults' \in Nat /\ wf' \in [Keys -> Workflows]
<1>1. step \in Steps /\ me.status \in Statuses
  BY DEF Steps, Addons
<1>2. /\ SetStatusByLifecyleStep(me.status, step, "Succeeded") \in Statuses
      /\ SetStatusByLifecyleStep(me.status, step, "Failed") \in Statuses
  BY Zenon, <1>1, SetStatusType DEF Phases
<1>3. CASE AfterWorkflow(step, me, me.status) /\ UNCHANGED wf
  BY <1>1, <1>3, AfterWorkflowContinues DEF WorkflowsTypeOK
<1>4. CASE AfterWorkflow(step, me, SetStatusByLifecyleStep(me.status, step, "Succeeded"))
           /\ UNCHANGED wf
  BY <1>2, <1>4, AfterWorkflowContinues DEF WorkflowsTypeOK
<1>5. CASE Submit(me, step) /\ Goto(Submitted[step], me) /\ UNCHANGED faults
  <2>1. me = [me EXCEPT !.status = me.status]
    BY DEF Addons
  <2>2. Submitted[step] \in {"prereqsSubmitted", "install", "installSubmitted"}
    BY DEF Submitted
  <2> QED
    BY <1>1, <1>5, <2>1, <2>2, SubmitType DEF Continues
<1>6. CASE /\ Fault("create")
           /\ Update(me, SetStatusByLifecyleStep(me.status, step, "Failed"), TRUE)
           /\ UNCHANGED wf
  <2>1. Continues
    BY Zenon, <1>2, <1>6 DEF Continues
  <2> QED
    BY <1>6, <2>1, FaultType DEF WorkflowsTypeOK
<1>7. CASE Panic
  <2>1. Continues /\ Fault("panic") /\ UNCHANGED wf
    BY Zenon, <1>7 DEF Panic, Continues
  <2> QED
    BY <2>1, FaultType DEF WorkflowsTypeOK
<1> QED
  BY Zenon, <1>3, <1>4, <1>5, <1>6, <1>7 DEF RunWorkflow

\* The steps of an installation after the finalizer, and deleteOldWorkflows, keep the
\* invariant.
LEMMA InstallInv ==
  ASSUME StaleCopiesHarmless, crashes' = crashes,
         DeleteOldWorkflows \/ RunPrereqs \/ RunInstall \/ \E step \in Steps : SyncPhase(step)
  PROVE  StaleCopiesHarmless'
<1>1. StoreTypeOK /\ WorkflowsTypeOK /\ CountersTypeOK /\ WorkersTypeOK /\ FlagsTypeOK /\ WorkersInv
  BY DEF StaleCopiesHarmless, TypeOK
<1>2. faults \in Nat /\ now \in Nat /\ wf \in [Keys -> Workflows]
  BY <1>1 DEF CountersTypeOK, WorkflowsTypeOK
<1>3. ASSUME pc[self] # "idle"
      PROVE  me \in Addons /\ me.status \in Statuses
  BY <1>1, <1>3 DEF WorkersTypeOK, WorkersInv, MaybeAddon, me, self, Procs, Addons
<1>4. ASSUME NEW st, NEW again, Update(me, st, again)
      PROVE  pc'[self] \notin Installing
  BY <1>1, <1>4 DEF Update, WorkersTypeOK, self, Procs, Installing
<1>5. CASE DeleteOldWorkflows
  <2>1. pc[self] = "listwf" /\ UNCHANGED unchangedByRun
    BY <1>5 DEF DeleteOldWorkflows, unchangedByRun
  <2>2. CASE Fault("list") /\ Update(me, me.status, TRUE) /\ UNCHANGED wf
    <3>1. Continues /\ pc'[self] \notin Installing
      BY Zenon, <1>3, <1>4, <2>1, <2>2 DEF Continues
    <3>2. faults' \in Nat
      BY <1>2, <2>2, FaultType
    <3> QED
      BY <1>2, <2>1, <2>2, <3>1, <3>2, ContinuesInv
  <2>3. ASSUME NEW kept \in SUBSET {k \in Keys : wf[k] # NoWorkflow},
               (kept = {} /\ UNCHANGED faults) \/ (kept # {} /\ Fault("delwf")),
               wf' = [k \in Keys |-> IF k \in kept THEN wf[k] ELSE NoWorkflow],
               Update(me, SetPrereqAndInstallStatuses(
                            ClearStatus([me.status EXCEPT !.startTime = now]), "Pending"), TRUE)
        PROVE  StaleCopiesHarmless'
    <3>1. SetPrereqAndInstallStatuses(ClearStatus([me.status EXCEPT !.startTime = now]), "Pending")
            \in Statuses
      BY <1>2, <1>3, <2>1, NewCycleType
    <3>2. Continues /\ pc'[self] \notin Installing
      BY Zenon, <1>4, <2>3, <3>1 DEF Continues
    <3>3. faults' \in Nat
      BY <1>2, <2>3, FaultType
    <3>4. wf' \in [Keys -> Workflows]
      BY <1>2, <2>3 DEF NoWorkflow, Workflows, WorkflowPhases
    <3> QED
      BY <2>1, <3>2, <3>3, <3>4, ContinuesInv
  <2> QED
    BY Zenon, <1>5, <2>2, <2>3 DEF DeleteOldWorkflows
<1>6. CASE RunPrereqs
  <2>1. pc[self] = "prereqs" /\ UNCHANGED unchangedByRun /\ "prereqs" \in Installing
    BY <1>6 DEF RunPrereqs, Installing
  <2>2. CASE RunWorkflow("prereqs")
    BY <1>1, <1>2, <1>3, <2>1, <2>2, RunWorkflowContinues, ContinuesInv
  <2>3. CASE Update(me, SetInstallStatus(me.status, "Failed"), TRUE) /\ UNCHANGED <<wf, faults>>
    <3>1. SetInstallStatus(me.status, "Failed") \in Statuses
      BY Zenon, <1>3, <2>1, SetInstallStatusType DEF Phases
    <3>2. Continues
      BY Zenon, <2>3, <3>1 DEF Continues
    <3> QED
      BY <1>2, <2>1, <2>3, <3>2, ContinuesInv
  <2> QED
    BY Zenon, <1>6, <2>2, <2>3 DEF RunPrereqs
<1>7. CASE RunInstall
  <2>1. pc[self] = "install" /\ UNCHANGED unchangedByRun /\ "install" \in Installing
    BY <1>7 DEF RunInstall, Installing
  <2>2. CASE RunWorkflow("install")
    BY <1>1, <1>2, <1>3, <2>1, <2>2, RunWorkflowContinues, ContinuesInv
  <2>3. CASE /\ Fault("secrets")
             /\ Update(me, SetInstallStatus(me.status, "Failed"), TRUE)
             /\ UNCHANGED wf
    <3>1. SetInstallStatus(me.status, "Failed") \in Statuses
      BY Zenon, <1>3, <2>1, SetInstallStatusType DEF Phases
    <3>2. Continues
      BY Zenon, <2>3, <3>1 DEF Continues
    <3>3. faults' \in Nat
      BY <1>2, <2>3, FaultType
    <3> QED
      BY <1>2, <2>1, <2>3, <3>2, <3>3, ContinuesInv
  <2> QED
    BY Zenon, <1>7, <2>2, <2>3 DEF RunInstall
<1>8. ASSUME NEW step \in Steps, SyncPhase(step)
      PROVE  StaleCopiesHarmless'
  <2>1. step \in {"prereqs", "install"} /\ pc[self] = Submitted[step]
        /\ UNCHANGED unchangedByRun /\ UNCHANGED wf
    BY <1>8 DEF SyncPhase, Steps
  <2>2. PICK phase : AfterWorkflow(step, me, Synced(me.status, step, phase))
    BY Zenon, <1>8 DEF SyncPhase
  <2>3. pc[self] \in {"prereqsSubmitted", "installSubmitted"}
        /\ (pc[self] = "installSubmitted" => step = "install")
    BY <2>1 DEF Submitted
  <2>4. Synced(me.status, step, phase) \in Statuses
    BY <1>3, <2>3, SyncedType
  <2>5. Continues /\ faults' \in Nat
    BY <1>2, <2>2, <2>4, AfterWorkflowContinues
  <2>6. pc'[self] \in Installing => pc[self] \in Installing
    <3>1. CASE pc[self] = "prereqsSubmitted"
      BY <3>1 DEF Installing
    <3>2. CASE step = "install"
      <4>1. PICK st, again : Update(me, st, again)
        BY Zenon, <2>2, <3>2 DEF AfterWorkflow, Observe
      <4> QED
        BY <1>4, <4>1
    <3> QED
      BY <2>3, <3>1, <3>2
  <2> QED
    BY <1>2, <2>1, <2>3, <2>5, <2>6, ContinuesInv
<1> QED
  BY <1>5, <1>6, <1>7, <1>8

\* SetFinalizer keeps the invariant: when its update succeeds, the addon is held.
LEMMA SetFinalizerInv ==
  ASSUME StaleCopiesHarmless, SetFinalizer, crashes' = crashes
  PROVE  StaleCopiesHarmless'
<1>1. StoreTypeOK /\ WorkflowsTypeOK /\ CountersTypeOK /\ WorkersTypeOK /\ MemoryTypeOK
      /\ FlagsTypeOK /\ InformerInv /\ WorkersInv
  BY DEF StaleCopiesHarmless, TypeOK
<1>2. /\ pc[self] = "finalizer"
      /\ UNCHANGED <<cache, queue, wf, wfCache, wfQueue, ran, now, uids, edits, lock, vcache>>
      /\ \/ faults' = faults \/ \E f : Fault(f)
  BY Zenon DEF SetFinalizer, Unanswered, wfVars
<1>3. WorkflowsTypeOK' /\ MemoryTypeOK'
  BY <1>1, <1>2 DEF WorkflowsTypeOK, MemoryTypeOK
<1>4. CountersTypeOK'
  BY <1>1, <1>2 DEF CountersTypeOK, Fault
<1>5. me \in Addons /\ me.status \in Statuses
  BY <1>1, <1>2 DEF WorkersTypeOK, WorkersInv, MaybeAddon, me, self, Procs, Addons
<1>6. ASSUME self \in fresh, Write([api EXCEPT !.finalizer = TRUE])
      PROVE  /\ StoreTypeOK' /\ InformerInv'
             /\ (api' = api /\ fresh' = fresh) \/ fresh' = {}
             /\ api' # NoAddon /\ api'.finalizer = TRUE /\ api'.uid = me.uid
  <2>1. api \in Addons /\ api # NoAddon /\ api.uid = me.uid
    BY <1>1, <1>2, <1>6 DEF WorkersInv, Knows, StoreTypeOK, MaybeAddon, me
  <2> DEFINE o == [api EXCEPT !.finalizer = TRUE]
  <2>2. o \in Addons /\ o.uid = api.uid /\ o.finalizer = TRUE
    BY Zenon, <2>1 DEF Addons
  <2>3. Write(o)
    BY <1>6
  <2> HIDE DEF o
  <2> QED
    BY Zenon, <1>1, <1>2, <2>1, <2>2, <2>3, ChangeFields
<1>7. CASE /\ self \in fresh
           /\ Write([api EXCEPT !.finalizer = TRUE])
           /\ Goto("prereqs", [me EXCEPT !.finalizer = TRUE])
  <2>1. PICK o \in Addons : o.uid = me.uid /\ Goto("prereqs", o)
    BY Zenon, <1>5, <1>7 DEF Addons
  <2>2. "prereqs" \in Labels \ {"idle"} /\ pc'[self] = "prereqs"
    BY <1>1, <2>1 DEF Labels, Goto, WorkersTypeOK, self, Procs
  <2>3. Knows(self)'
    BY <2>2 DEF Knows
  <2>4. Held(o)'
    BY Zenon, <1>6, <1>7, <2>1 DEF Held
  <2>5. WorkersTypeOK' /\ requeue' \in BOOLEAN /\ WorkersInv'
    BY <1>1, <1>6, <1>7, <2>1, <2>2, <2>3, <2>4, GotoWorkers
  <2>6. FlagsTypeOK'
    BY <1>1, <1>2, <2>5 DEF FlagsTypeOK
  <2> QED
    BY <1>3, <1>4, <1>6, <1>7, <2>5, <2>6 DEF StaleCopiesHarmless, TypeOK
<1>8. CASE /\ Unanswered(self, [api EXCEPT !.finalizer = TRUE])
           /\ Update(me, me.status, TRUE)
  <2>1. StoreTypeOK' /\ InformerInv' /\ ((api' = api /\ fresh' = fresh) \/ fresh' = {})
    <3>1. CASE UNCHANGED storeVars
      BY <1>1, <1>2, <3>1, InformerSame DEF storeVars, StoreTypeOK
    <3>2. CASE self \in fresh /\ Write([api EXCEPT !.finalizer = TRUE])
      BY <1>6, <3>2
    <3> QED
      BY <1>8, <3>1, <3>2 DEF Unanswered
  <2>2. WorkersTypeOK' /\ requeue' \in BOOLEAN /\ WorkersInv'
    BY Zenon, <1>1, <1>5, <1>8, <2>1, UpdateWorkers
  <2>3. FlagsTypeOK'
    BY <1>1, <1>2, <2>2 DEF FlagsTypeOK
  <2> QED
    BY <1>3, <1>4, <2>1, <2>2, <2>3 DEF StaleCopiesHarmless, TypeOK
<1> QED
  BY Zenon, <1>7, <1>8 DEF SetFinalizer

-----------------------------------------------------------------------------
\* The addon controller: finalization

\* The submission of the delete workflow keeps the invariant.
LEMMA RunDeleteInv ==
  ASSUME StaleCopiesHarmless, RunDelete, crashes' = crashes
  PROVE  StaleCopiesHarmless'
<1>1. StoreTypeOK /\ WorkflowsTypeOK /\ CountersTypeOK /\ WorkersTypeOK /\ MemoryTypeOK
      /\ FlagsTypeOK /\ InformerInv /\ WorkersInv
  BY DEF StaleCopiesHarmless, TypeOK
<1>2. pc[self] = "delete" /\ self \in Procs
      /\ UNCHANGED <<api, watch, cache, wfCache, ran, now, uids, edits, lock, vcache>>
  BY DEF RunDelete, self, Procs
<1>3. me \in Addons
  BY <1>1, <1>2 DEF WorkersTypeOK, WorkersInv, MaybeAddon, me
<1>4. MemoryTypeOK'
  BY <1>1, <1>2 DEF MemoryTypeOK
<1>5. CASE /\ Submit(me, "delete")
           /\ Goto(Submitted["delete"], me)
           /\ UNCHANGED <<queue, wfQueue, faults, fresh>>
  <2>1. PICK o \in Addons : o = me /\ Goto("deleteSubmitted", o)
    BY Zenon, <1>3, <1>5 DEF Submitted
  <2>2. "deleteSubmitted" \in Labels \ {"idle"} /\ "deleteSubmitted" \notin Installing
        /\ pc'[self] = "deleteSubmitted" /\ "delete" \in Steps
    BY <1>1, <2>1 DEF Labels, Installing, Goto, WorkersTypeOK, self, Procs, Steps
  <2>3. self \in fresh' => Knows(self)'
    BY Zenon, <1>1, <1>2, <1>5, <2>2 DEF WorkersInv, Knows
  <2>4. WorkersTypeOK' /\ requeue' \in BOOLEAN /\ WorkersInv'
    BY Zenon, <1>1, <1>2, <1>5, <2>1, <2>2, <2>3, GotoWorkers
  <2>5. wf' \in [Keys -> Workflows]
    BY <1>1, <1>3, <1>5, <2>2, SubmitType
  <2>6. StoreTypeOK' /\ WorkflowsTypeOK' /\ CountersTypeOK' /\ FlagsTypeOK'
    BY <1>1, <1>2, <1>5, <2>4, <2>5 DEF StoreTypeOK, WorkflowsTypeOK, CountersTypeOK, FlagsTypeOK
  <2>7. InformerInv'
    BY <1>1, <1>2, <1>5, InformerSame
  <2> QED
    BY <1>4, <2>4, <2>6, <2>7 DEF StaleCopiesHarmless, TypeOK
<1>6. CASE /\ Fault("create")
           /\ Return(self, TRUE)
           /\ fresh' = fresh \ {self}
           /\ UNCHANGED wf
  <2>1. WorkersTypeOK' /\ FlagsTypeOK' /\ wfQueue' \subseteq Keys /\ WorkersInv'
    BY Zenon, <1>1, <1>2, <1>6, ReturnWorkers DEF WorkflowsTypeOK
  <2>2. CountersTypeOK'
    BY <1>1, <1>2, <1>6 DEF CountersTypeOK, Fault
  <2>3. StoreTypeOK' /\ WorkflowsTypeOK'
    BY <1>1, <1>2, <1>6, <2>1 DEF StoreTypeOK, WorkflowsTypeOK
  <2>4. InformerInv'
    BY <1>1, <1>2, <1>6, InformerSame
  <2> QED
    BY <1>4, <2>1, <2>2, <2>3, <2>4 DEF StaleCopiesHarmless, TypeOK
<1>7. CASE Panic /\ UNCHANGED <<queue, wfQueue, fresh>>
  <2>1. Fault("panic") /\ Goto("idle", NoAddon) /\ UNCHANGED <<wf, queue, wfQueue, fresh>>
    BY <1>7 DEF Panic
  <2>2. WorkersTypeOK' /\ requeue' \in BOOLEAN /\ WorkersInv'
    BY <1>1, <1>2, <2>1, PanicWorkers
  <2>3. CountersTypeOK'
    BY <1>1, <1>2, <2>1 DEF CountersTypeOK, Fault
  <2>4. StoreTypeOK' /\ WorkflowsTypeOK' /\ FlagsTypeOK'
    BY <1>1, <1>2, <2>1, <2>2 DEF StoreTypeOK, WorkflowsTypeOK, FlagsTypeOK
  <2>5. InformerInv'
    BY <1>1, <1>2, <2>1, InformerSame
  <2> QED
    BY <1>4, <2>2, <2>3, <2>4, <2>5 DEF StaleCopiesHarmless, TypeOK
<1> QED
  BY Zenon, <1>5, <1>6, <1>7 DEF RunDelete

\* Reading the phase of the delete workflow keeps the invariant.
LEMMA SyncDeleteInv ==
  ASSUME StaleCopiesHarmless, SyncDelete, crashes' = crashes
  PROVE  StaleCopiesHarmless'
<1>1. StoreTypeOK /\ WorkflowsTypeOK /\ CountersTypeOK /\ WorkersTypeOK /\ MemoryTypeOK
      /\ FlagsTypeOK /\ InformerInv /\ WorkersInv
  BY DEF StaleCopiesHarmless, TypeOK
<1>2. pc[self] = "deleteSubmitted" /\ self \in Procs /\ RemoveVersion(PkgVersion[me.spec])
      /\ UNCHANGED <<api, watch, cache, wf, wfCache, ran, now, uids, edits, faults, lock>>
  BY Zenon DEF SyncDelete, Submitted, self, Procs, envVars
<1>3. me \in Addons /\ PkgVersion[me.spec] \in Versions
  BY Zenon, <1>1, <1>2, ConstantsAssumption DEF WorkersTypeOK, WorkersInv, MaybeAddon, me, Addons
<1>4. MemoryTypeOK'
  BY Zenon, <1>1, <1>2, <1>3, RemoveVersionType DEF MemoryTypeOK
<1>5. CountersTypeOK'
  BY Zenon, <1>1, <1>2 DEF CountersTypeOK
<1>6. CASE Goto("unfinalize", me) /\ UNCHANGED <<queue, wfQueue, fresh>>
  <2>1. PICK o \in Addons : o = me /\ Goto("unfinalize", o)
    BY <1>3, <1>6
  <2>2. "unfinalize" \in Labels \ {"idle"} /\ "unfinalize" \notin Installing
        /\ pc'[self] = "unfinalize"
    BY <1>1, <2>1 DEF Labels, Installing, Goto, WorkersTypeOK, self, Procs
  <2>3. self \in fresh' => Knows(self)'
    BY Zenon, <1>1, <1>2, <1>6, <2>2 DEF WorkersInv, Knows
  <2>4. WorkersTypeOK' /\ requeue' \in BOOLEAN /\ WorkersInv'
    BY Zenon, <1>1, <1>2, <1>6, <2>1, <2>2, <2>3, GotoWorkers
  <2>5. StoreTypeOK' /\ WorkflowsTypeOK' /\ FlagsTypeOK'
    BY Zenon, <1>1, <1>2, <1>6, <2>4 DEF StoreTypeOK, WorkflowsTypeOK, FlagsTypeOK
  <2>6. InformerInv'
    BY Zenon, <1>1, <1>2, <1>6, InformerSame
  <2> QED
    BY <1>4, <1>5, <2>4, <2>5, <2>6 DEF StaleCopiesHarmless, TypeOK
<1>7. CASE Return(self, FALSE) /\ fresh' = fresh \ {self}
  <2>1. WorkersTypeOK' /\ FlagsTypeOK' /\ wfQueue' \subseteq Keys /\ WorkersInv'
    BY Zenon, <1>1, <1>2, <1>7, ReturnWorkers DEF WorkflowsTypeOK
  <2>2. StoreTypeOK' /\ WorkflowsTypeOK'
    BY Zenon, <1>1, <1>2, <1>7, <2>1 DEF StoreTypeOK, WorkflowsTypeOK
  <2>3. InformerInv'
    BY Zenon, <1>1, <1>2, <1>7, InformerSame
  <2> QED
    BY <1>4, <1>5, <2>1, <2>2, <2>3 DEF StaleCopiesHarmless, TypeOK
<1> QED
  BY Zenon, <1>6, <1>7 DEF SyncDelete

\* Taking the finalizer off keeps the invariant: it succeeds only if the informer is
\* up to date, and then no copy claims the finalizer.
LEMMA UnfinalizeInv ==
  ASSUME StaleCopiesHarmless, Unfinalize, crashes' = crashes
  PROVE  StaleCopiesHarmless'
<1>1. StoreTypeOK /\ WorkflowsTypeOK /\ CountersTypeOK /\ WorkersTypeOK /\ MemoryTypeOK
      /\ FlagsTypeOK /\ InformerInv /\ WorkersInv
  BY DEF StaleCopiesHarmless, TypeOK
<1>2. /\ pc[self] = "unfinalize" /\ self \in Procs
      /\ UNCHANGED <<cache, wf, wfCache, ran, now, uids, edits, lock, vcache>>
      /\ \/ faults' = faults \/ \E f : Fault(f)
      /\ \E err \in BOOLEAN : Return(self, err)
      /\ \/ UNCHANGED <<api, watch, fresh>>
         \/ self \in fresh /\ Write(NoAddon)
  BY Zenon DEF Unfinalize, Unanswered, storeVars, self, Procs
<1>3. StoreTypeOK' /\ InformerInv' /\ ((api' = api /\ fresh' = fresh) \/ fresh' = {})
  <2>1. CASE UNCHANGED <<api, watch, fresh>>
    BY <1>1, <1>2, <2>1, InformerSame DEF StoreTypeOK
  <2>2. CASE self \in fresh /\ Write(NoAddon)
    <3>1. watch = << >> /\ cache = api /\ api # NoAddon /\ api.deleting
      BY <1>1, <1>2, <2>2 DEF InformerInv, WorkersInv, Knows
    <3>2. \A c \in Copies : ~Claims(c)
      BY <3>1 DEF Copies, Claims
    <3>3. NoAddon \in MaybeAddon
      BY DEF MaybeAddon
    <3>4. fresh' = {}
      BY <2>2, <3>1 DEF Write
    <3> QED
      BY <1>1, <1>2, <2>2, <3>2, <3>3, <3>4, WriteInformer, WriteType
  <2> QED
    BY <1>2, <2>1, <2>2
<1>4. WorkersTypeOK' /\ FlagsTypeOK' /\ wfQueue' \subseteq Keys /\ WorkersInv'
  BY Zenon, <1>1, <1>2, <1>3, ReturnWorkers DEF WorkflowsTypeOK
<1>5. WorkflowsTypeOK' /\ MemoryTypeOK'
  BY <1>1, <1>2, <1>4 DEF WorkflowsTypeOK, MemoryTypeOK
<1>6. CountersTypeOK'
  BY <1>1, <1>2 DEF CountersTypeOK, Fault
<1> QED
  BY <1>3, <1>4, <1>5, <1>6 DEF StaleCopiesHarmless, TypeOK

-----------------------------------------------------------------------------
\* The theorems

\* Every step keeps the invariant.
LEMMA NextInv ==
  ASSUME StaleCopiesHarmless, [Next]_vars
  PROVE  StaleCopiesHarmless'
<1>1. self \in Procs
  BY DEF self, Procs
<1>2. CASE AddonStep
  BY <1>1, <1>2, ReconcileGoneInv, BeginInv, InstallInv, SetFinalizerInv, RunDeleteInv,
     SyncDeleteInv, UnfinalizeInv, UpdateStatusStep
  DEF AddonStep, Reconcile
<1>3. CASE WorkflowStep
  BY <1>3, WorkflowStepInv
<1>4. CASE Environment
  BY <1>4, EnvironmentInv
<1>5. CASE ResourceEvent /\ UNCHANGED crashes
  BY <1>5, ResourceEventInv
<1>6. CASE Crash
  BY <1>6, CrashInv
<1>7. CASE UNCHANGED vars
  <2>1. /\ UNCHANGED <<api, watch, fresh, cache, queue, wf, wfCache, wfQueue, ran>>
        /\ UNCHANGED <<now, uids, edits, faults, crashes>>
        /\ UNCHANGED <<pc, inst, requeue, wkey, tries, lock, vcache>>
    BY <1>7 DEF vars, clusterVars, storeVars, wfVars, envVars, procVars
  <2>2. TypeOK'
    BY <2>1 DEF StaleCopiesHarmless, TypeOK, StoreTypeOK, WorkflowsTypeOK, CountersTypeOK,
                WorkersTypeOK, MemoryTypeOK, FlagsTypeOK
  <2>3. InformerInv'
    BY <2>1, InformerSame DEF StaleCopiesHarmless
  <2>4. WorkersInv'
    BY <2>1, StayWorkers DEF StaleCopiesHarmless, WorkersInv, Held, me
  <2> QED
    BY <2>2, <2>3, <2>4 DEF StaleCopiesHarmless
<1> QED
  BY <1>2, <1>3, <1>4, <1>5, <1>6, <1>7 DEF Next

\* Whatever the interleaving of the two controllers, the informers, the user,
\* failures and restarts, every stale copy of the addon is harmless.
THEOREM StaleCopiesHarmlessAlways == Spec => []StaleCopiesHarmless
BY InitInv, NextInv, PTL DEF Spec

\* Every variable always has its type.
THEOREM TypeCorrect == Spec => []TypeOK
<1>1. StaleCopiesHarmless => TypeOK
  BY DEF StaleCopiesHarmless
<1> QED
  BY <1>1, StaleCopiesHarmlessAlways, PTL

\* How the stored addon changes in a step.
LEMMA ApiChanges ==
  ASSUME StaleCopiesHarmless, [Next]_vars, api # NoAddon, api' # NoAddon
  PROVE  \/ api' = api
         \/ api'.status = api.status
         \/ \E p \in fresh : pc[p] = "put" /\ api' = [api EXCEPT !.status = inst[p].status]
<1> DEFINE goal == \/ api' = api
                   \/ api'.status = api.status
                   \/ \E p \in fresh : pc[p] = "put" /\ api' = [api EXCEPT !.status = inst[p].status]
<1>1. api \in Addons
  BY DEF StaleCopiesHarmless, TypeOK, StoreTypeOK, MaybeAddon
<1>2. ASSUME NEW o, Write(o)
      PROVE  api' = o
  BY <1>2 DEF Write, storeVars
<1>3. ASSUME NEW p, UpdateStatus(p)
      PROVE  goal
  BY Zenon, <1>2, <1>3
  DEF UpdateStatus, UpdateStatusLock, UpdateStatusRetry, Attempt, UpdateStatusPut,
      UpdateStatusConflict, UpdateStatusFail, UpdateStatusRecord, Unanswered, storeVars
<1>4. CASE SetFinalizer
  <2>1. api' = api \/ api' = [api EXCEPT !.finalizer = TRUE]
    BY Zenon, <1>2, <1>4 DEF SetFinalizer, Unanswered, storeVars
  <2> QED
    BY <1>1, <2>1 DEF Addons
<1>5. CASE Unfinalize
  BY Zenon, <1>2, <1>5 DEF Unfinalize, Unanswered, storeVars
<1>6. CASE Environment
  <2>1. ASSUME NEW s, EditSpec(s)
        PROVE  api'.status = api.status
    BY <1>1, <1>2, <2>1 DEF EditSpec, Addons
  <2>2. ASSUME DeleteAddon
        PROVE  api'.status = api.status
    <3>1. api' = IF api.finalizer THEN [api EXCEPT !.deleting = TRUE] ELSE NoAddon
      BY <1>2, <2>2 DEF DeleteAddon
    <3> QED
      BY <1>1, <3>1 DEF Addons
  <2> QED
    BY Zenon, <1>6, <2>1, <2>2
    DEF Environment, Deliver, WfDeliver, WfStart, WfFinish, GarbageCollect, Create, Tick, storeVars
<1>7. CASE \/ ReconcileGone \/ MarkDeleting \/ Finalize \/ ProcessChanged \/ ProcessCompleted
           \/ (\E outcome \in ValidationOutcomes : ProcessValidate(outcome))
  BY Zenon, <1>7 DEF ReconcileGone, MarkDeleting, Finalize, ProcessChanged, ProcessCompleted,
              ProcessValidate, BeginWith, Begin
<1>8. CASE \/ DeleteOldWorkflows \/ RunPrereqs \/ RunInstall
           \/ (\E step \in Steps : SyncPhase(step)) \/ RunDelete \/ SyncDelete
  BY Zenon, <1>8 DEF DeleteOldWorkflows, RunPrereqs, RunInstall, SyncPhase, RunDelete, SyncDelete,
              unchangedByRun, storeVars
<1>9. CASE WorkflowStep
  BY <1>3, <1>9 DEF WorkflowStep, WfIgnore, WfReconcile, WfBegin, storeVars
<1>10. CASE AddonStep
  BY <1>3, <1>4, <1>5, <1>7, <1>8, <1>10 DEF AddonStep, Reconcile
<1>11. CASE ResourceEvent \/ Crash \/ UNCHANGED vars
  BY <1>11 DEF ResourceEvent, Crash, vars, clusterVars, storeVars
<1> QED
  BY <1>6, <1>9, <1>10, <1>11 DEF Next

\* The race guard and the API server's refusal of stale writes together keep a
\* terminal status from being replaced by a running one in its install cycle.
THEOREM TerminalStatusStays == Spec => TerminalNotRegressed
<1>1. ASSUME StaleCopiesHarmless, [Next]_vars, api # NoAddon, api' # NoAddon,
             api'.status.checksum = api.status.checksum, Completed(api.status.installed)
      PROVE  ~Running(api'.status.installed)
  <2>1. ~Running(api.status.installed)
    BY <1>1 DEF Completed, Succeeded, Failed, Running
  <2>2. ASSUME NEW p \in fresh, pc[p] = "put", api' = [api EXCEPT !.status = inst[p].status]
        PROVE  ~Running(api'.status.installed)
    <3>1. ~RaceGuard(api, inst[p]) /\ api \in Addons
      BY <1>1, <2>2 DEF StaleCopiesHarmless, WorkersInv, Knows, TypeOK, StoreTypeOK, MaybeAddon
    <3>2. api'.status = inst[p].status
      BY <2>2, <3>1 DEF Addons
    <3> QED
      BY <1>1, <3>1, <3>2 DEF RaceGuard
  <2> QED
    BY <1>1, <2>1, <2>2, ApiChanges
<1>2. StaleCopiesHarmless /\ [Next]_vars =>
        [/\ api # NoAddon /\ api' # NoAddon
         /\ api'.uid = api.uid
         /\ api'.status.checksum = api.status.checksum
         /\ Completed(api.status.installed)
         => ~Running(api'.status.installed)]_vars
  BY <1>1
<1> QED
  BY <1>2, StaleCopiesHarmlessAlways, PTL DEF Spec, TerminalNotRegressed

\* Only the addon controller's runWorkflow, where the addon is held, submits a
\* workflow of an installation.
LEMMA Submissions ==
  ASSUME StaleCopiesHarmless, [Next]_vars, NEW k \in Keys, k[1] # "delete", Submits(k)
  PROVE  pc[self] \in Installing /\ wf'[k].owner = me.uid
<1> DEFINE goal == pc[self] \in Installing /\ wf'[k].owner = me.uid
<1>1. wf \in [Keys -> Workflows] /\ wf[k] = NoWorkflow /\ wf'[k] # NoWorkflow
  BY DEF StaleCopiesHarmless, TypeOK, WorkflowsTypeOK, Submits
<1>2. wf' # wf /\ wf[k].phase = "absent"
  BY <1>1 DEF NoWorkflow
<1>3. ASSUME NEW step, Submit(me, step), k # Key(me, step)
      PROVE  FALSE
  BY <1>1, <1>3 DEF Submit
<1>4. ASSUME NEW step, Submit(me, step)
      PROVE  wf'[k].owner = me.uid
  BY <1>1, <1>3, <1>4 DEF Submit
<1>5. ASSUME NEW step, RunWorkflow(step)
      PROVE  wf'[k].owner = me.uid
  BY Zenon, <1>2, <1>4, <1>5 DEF RunWorkflow, Panic
<1>6. CASE RunPrereqs \/ RunInstall
  BY Zenon, <1>2, <1>5, <1>6 DEF RunPrereqs, RunInstall, Installing
<1>7. CASE RunDelete
  <2>1. k # Key(me, "delete")
    BY DEF Key
  <2> QED
    BY Zenon, <1>2, <1>3, <1>7, <2>1 DEF RunDelete, Panic
<1>8. CASE DeleteOldWorkflows
  BY Zenon, <1>1, <1>2, <1>8 DEF DeleteOldWorkflows
<1>9. CASE Environment
  <2>1. ASSUME NEW j \in Keys, WfStart(j) \/ WfFinish(j) \/ GarbageCollect(j)
        PROVE  FALSE
    <3>1. j # k => wf'[k] = wf[k]
      BY <1>1, <2>1 DEF WfStart, WfFinish, GarbageCollect, SetPhase
    <3> QED
      BY Zenon, <1>1, <1>2, <2>1, <3>1 DEF WfStart, WfFinish, GarbageCollect
  <2> QED
    BY Zenon, <1>2, <1>9, <2>1
    DEF Environment, Deliver, WfDeliver, Create, EditSpec, DeleteAddon, Tick, wfVars
<1>10. ASSUME NEW p, UpdateStatus(p)
       PROVE  FALSE
  BY Zenon, <1>2, <1>10
  DEF UpdateStatus, UpdateStatusLock, UpdateStatusRetry, Attempt, UpdateStatusPut,
      UpdateStatusConflict, UpdateStatusFail, UpdateStatusRecord, wfVars
<1>11. CASE \/ ReconcileGone \/ MarkDeleting \/ Finalize \/ ProcessChanged \/ ProcessCompleted
            \/ (\E outcome \in ValidationOutcomes : ProcessValidate(outcome))
  BY Zenon, <1>2, <1>11 DEF ReconcileGone, MarkDeleting, Finalize, ProcessChanged, ProcessCompleted,
                     ProcessValidate, BeginWith, Begin, wfVars
<1>12. CASE SetFinalizer \/ (\E step \in Steps : SyncPhase(step)) \/ SyncDelete \/ Unfinalize
  BY Zenon, <1>2, <1>12 DEF SetFinalizer, SyncPhase, SyncDelete, Unfinalize, wfVars
<1>13. CASE WorkflowStep
  BY <1>2, <1>10, <1>13 DEF WorkflowStep, WfIgnore, WfReconcile, WfBegin
<1>14. CASE AddonStep
  BY <1>6, <1>7, <1>8, <1>10, <1>11, <1>12, <1>14 DEF AddonStep, Reconcile
<1>15. CASE ResourceEvent \/ Crash \/ UNCHANGED vars
  BY <1>2, <1>15 DEF ResourceEvent, Crash, vars, clusterVars, wfVars
<1> QED
  BY Zenon, <1>9, <1>13, <1>14, <1>15 DEF Next

\* A workflow of an installation is submitted only for an addon that exists and
\* has its finalizer, so that its delete workflow will have its turn.
THEOREM FinalizerBeforeWorkflows == Spec => NoWorkflowWithoutFinalizer
<1>1. ASSUME StaleCopiesHarmless, [Next]_vars, NEW k \in Keys, k[1] # "delete", Submits(k)
      PROVE  api # NoAddon /\ api.finalizer /\ api.uid = wf'[k].owner
  BY Zenon, <1>1, Submissions DEF StaleCopiesHarmless, WorkersInv, Held
<1>2. StaleCopiesHarmless /\ [Next]_vars =>
        [\A k \in Keys : k[1] # "delete" /\ Submits(k) =>
           api # NoAddon /\ api.finalizer /\ api.uid = wf'[k].owner]_vars
  BY <1>1
<1> QED
  BY <1>2, StaleCopiesHarmlessAlways, PTL DEF Spec, NoWorkflowWithoutFinalizer

-----------------------------------------------------------------------------
\* How the stored addon and the workflows change in a step

\* The addon in the API is the last one that was created.
LastLife == api # NoAddon => api.uid = uids

Born ==
  /\ api = NoAddon
  /\ uids < MaxCreates
  /\ uids' = uids + 1
  /\ \E s \in Specs : api' = [uid |-> uids + 1, spec |-> s, deleting |-> FALSE,
                              finalizer |-> FALSE, status |-> NewStatus]

Gone ==
  /\ api # NoAddon /\ api' = NoAddon
  /\ ~api.finalizer \/ (api.deleting /\ self \in fresh /\ pc[self] = "unfinalize")
  /\ uids' = uids

Edited == \E s \in Specs : <<api.spec, s>> \in Edits /\ api' = [api EXCEPT !.spec = s]
Finalized == api' = [api EXCEPT !.finalizer = TRUE]
Marked == api.finalizer /\ ~api.deleting /\ api' = [api EXCEPT !.deleting = TRUE]
Reported == \E p \in fresh : pc[p] = "put" /\ api' = [api EXCEPT !.status = inst[p].status]

Changed ==
  /\ api # NoAddon
  /\ Edited \/ Finalized \/ Marked \/ Reported
  /\ uids' = uids

Kept == api' = api /\ uids' = uids

\* UpdateStatus writes the status of a copy of which the API has no newer version,
\* or nothing.
LEMMA UpdateStatusStores ==
  ASSUME StaleCopiesHarmless, NEW p, UpdateStatus(p)
  PROVE  wf' = wf /\ (Kept \/ Changed)
<1>1. ASSUME NEW o, Write(o)
      PROVE  api' = o
  BY <1>1 DEF Write, storeVars
<1>2. wf' = wf /\ uids' = uids
  BY Zenon DEF UpdateStatus, UpdateStatusLock, UpdateStatusRetry, Attempt, UpdateStatusPut,
      UpdateStatusConflict, UpdateStatusFail, UpdateStatusRecord, wfVars, envVars
<1>3. \/ api' = api
      \/ p \in fresh /\ pc[p] = "put" /\ api' = [api EXCEPT !.status = inst[p].status]
  BY Zenon, <1>1 DEF UpdateStatus, UpdateStatusLock, UpdateStatusRetry, Attempt, UpdateStatusPut,
      UpdateStatusConflict, UpdateStatusFail, UpdateStatusRecord, Unanswered, storeVars
<1>4. ASSUME p \in fresh, pc[p] = "put"
      PROVE  api # NoAddon
  BY Zenon, <1>4 DEF StaleCopiesHarmless, WorkersInv, Knows
<1> QED
  BY Zenon, <1>2, <1>3, <1>4 DEF Kept, Changed, Reported

\* The finalizer is set on the stored addon and is taken off only when the addon
\* is being deleted.
LEMMA FinalizerStores ==
  ASSUME StaleCopiesHarmless, SetFinalizer \/ Unfinalize
  PROVE  wf' = wf /\ (Kept \/ Changed \/ Gone)
<1>1. ASSUME NEW o, Write(o)
      PROVE  api' = o
  BY <1>1 DEF Write, storeVars
<1>2. wf' = wf /\ uids' = uids
  BY Zenon DEF SetFinalizer, Unfinalize, wfVars
<1>3. CASE SetFinalizer
  <2>1. api' = api \/ (self \in fresh /\ pc[self] = "finalizer" /\ Finalized)
    BY Zenon, <1>1, <1>3 DEF SetFinalizer, Unanswered, storeVars, Finalized
  <2>2. ASSUME self \in fresh, pc[self] = "finalizer"
        PROVE  api # NoAddon
    BY Zenon, <2>2 DEF StaleCopiesHarmless, WorkersInv, Knows
  <2> QED
    BY Zenon, <1>2, <2>1, <2>2 DEF Kept, Changed
<1>4. CASE Unfinalize
  <2>1. api' = api \/ (self \in fresh /\ pc[self] = "unfinalize" /\ api' = NoAddon)
    BY Zenon, <1>1, <1>4 DEF Unfinalize, Unanswered, storeVars
  <2>2. ASSUME self \in fresh, pc[self] = "unfinalize"
        PROVE  api # NoAddon /\ api.deleting
    BY <2>2 DEF StaleCopiesHarmless, WorkersInv, Knows
  <2> QED
    BY Zenon, <1>2, <2>1, <2>2 DEF Kept, Gone
<1> QED
  BY <1>3, <1>4

\* The user creates, edits and deletes the addon.
LEMMA UserStores ==
  ASSUME StaleCopiesHarmless,
         (\E s \in NewSpecs : Create(s)) \/ (\E s \in Specs : EditSpec(s)) \/ DeleteAddon
  PROVE  wf' = wf /\ (Kept \/ Born \/ Changed \/ Gone)
<1>1. ASSUME NEW o, Write(o)
      PROVE  api' = o
  BY <1>1 DEF Write, storeVars
<1>2. wf' = wf
  BY Zenon DEF Create, EditSpec, DeleteAddon, wfVars
<1>3. ASSUME NEW s \in NewSpecs, Create(s)
      PROVE  Born
  BY Zenon, <1>1, <1>3, ConstantsAssumption DEF Create, Born
<1>4. ASSUME NEW s \in Specs, EditSpec(s)
      PROVE  Changed
  BY Zenon, <1>1, <1>4 DEF EditSpec, Changed, Edited
<1>5. CASE DeleteAddon
  <2>1. api # NoAddon /\ ~api.deleting /\ uids' = uids
        /\ api' = IF api.finalizer THEN [api EXCEPT !.deleting = TRUE] ELSE NoAddon
    BY Zenon, <1>1, <1>5 DEF DeleteAddon, envVars
  <2> QED
    BY Zenon, <1>2, <2>1 DEF Changed, Marked, Gone
<1> QED
  BY <1>2, <1>3, <1>4, <1>5

-----------------------------------------------------------------------------
\* How the workflows change

New(o) == [phase |-> "new", owner |-> o.uid]

\* Workflow k goes on, and if it is done by now then `ran' has it.
GoesOn(k) ==
  /\ wf[k] # NoWorkflow
  /\ wf'[k].owner = wf[k].owner
  /\ \/ wf'[k].phase # "Succeeded"
     \/ wf[k].phase = "Succeeded"
     \/ <<wf[k].owner, k[1], k[2]>> \in ran'

\* Workflows go, or go on.
Fewer == \A k \in Keys : wf'[k] = NoWorkflow \/ GoesOn(k)

\* One workflow is submitted, for the step the controller is at and the addon it
\* works on.
OneMore(steps) ==
  \E step \in steps :
    /\ pc[self] = step
    /\ wf[Key(me, step)] = NoWorkflow
    /\ wf' = [wf EXCEPT ![Key(me, step)] = New(me)]

\* A workflow's name is one of the names.
LEMMA KeyType ==
  ASSUME NEW o \in Addons, NEW step \in Steps
  PROVE  Key(o, step) \in Keys /\ Key(o, step)[1] = step /\ Key(o, step)[2] = Checksum[o.spec]
BY ConstantsAssumption DEF Key, Keys, Addons

\* Submit adds the one workflow it is asked for, or finds it there or fails and
\* leaves the workflows as they are.
LEMMA SubmitOne ==
  ASSUME NEW step, pc[self] = step, Submit(me, step)
  PROVE  wf' = wf \/ OneMore({step})
BY Zenon DEF Submit, OneMore, New

\* runWorkflow submits at most one workflow, and only where the addon is held.
LEMMA RunSubmits ==
  ASSUME RunPrereqs \/ RunInstall \/ RunDelete
  PROVE  /\ Kept
         /\ \/ wf' = wf
            \/ OneMore({"delete"})
            \/ pc[self] \in Installing /\ OneMore({"prereqs", "install"})
<1>1. Kept
  BY Zenon DEF RunPrereqs, RunInstall, RunDelete, unchangedByRun, storeVars, Kept
<1>2. ASSUME NEW step \in {"prereqs", "install"}, pc[self] = step, RunWorkflow(step)
      PROVE  wf' = wf \/ OneMore({"prereqs", "install"})
  <2>1. wf' = wf \/ Submit(me, step)
    BY Zenon, <1>2 DEF RunWorkflow, Panic
  <2>2. OneMore({step}) => OneMore({"prereqs", "install"})
    BY Zenon, <1>2 DEF OneMore
  <2> QED
    BY Zenon, <1>2, <2>1, <2>2, SubmitOne
<1>3. CASE RunPrereqs \/ RunInstall
  <2>1. pc[self] \in Installing
    BY <1>3 DEF RunPrereqs, RunInstall, Installing
  <2>2. \/ wf' = wf
        \/ pc[self] = "prereqs" /\ RunWorkflow("prereqs")
        \/ pc[self] = "install" /\ RunWorkflow("install")
    BY Zenon, <1>3 DEF RunPrereqs, RunInstall
  <2> QED
    BY Zenon, <1>1, <1>2, <2>1, <2>2
<1>4. CASE RunDelete
  <2>1. pc[self] = "delete" /\ (wf' = wf \/ Submit(me, "delete"))
    BY Zenon, <1>4 DEF RunDelete, Panic
  <2> QED
    BY Zenon, <1>1, <2>1, SubmitOne
<1> QED
  BY <1>3, <1>4

\* deleteOldWorkflows, Argo and the garbage collector submit nothing.
LEMMA FewerWorkflows ==
  ASSUME StaleCopiesHarmless,
         \/ DeleteOldWorkflows
         \/ \E k \in Keys : WfStart(k) \/ WfFinish(k) \/ GarbageCollect(k)
  PROVE  Kept /\ (wf' = wf \/ Fewer)
<1>1. wf \in [Keys -> Workflows]
  BY DEF StaleCopiesHarmless, TypeOK, WorkflowsTypeOK
<1>2. Kept
  BY Zenon DEF DeleteOldWorkflows, WfStart, WfFinish, GarbageCollect, storeVars, envVars, Kept
<1>3. ASSUME NEW k \in Keys, wf'[k] = wf[k] \/ wf'[k] = NoWorkflow
      PROVE  wf'[k] = NoWorkflow \/ GoesOn(k)
  BY Zenon, <1>3 DEF GoesOn
<1>4. CASE DeleteOldWorkflows
  <2>1. \/ wf' = wf
        \/ \E kept \in SUBSET {k \in Keys : wf[k] # NoWorkflow} :
             wf' = [k \in Keys |-> IF k \in kept THEN wf[k] ELSE NoWorkflow]
    BY Zenon, <1>4 DEF DeleteOldWorkflows
  <2>2. \A k \in Keys : wf'[k] = wf[k] \/ wf'[k] = NoWorkflow
    BY <2>1
  <2> QED
    BY Zenon, <1>2, <1>3, <2>2 DEF Fewer
<1>5. ASSUME NEW j \in Keys, WfStart(j) \/ WfFinish(j)
      PROVE  Fewer
  <2>1. PICK p : /\ wf' = [wf EXCEPT ![j].phase = p]
                 /\ p = "Succeeded" => <<wf[j].owner, j[1], j[2]>> \in ran'
    BY <1>5 DEF WfStart, WfFinish, SetPhase
  <2>2. wf[j] # NoWorkflow
    <3>1. wf[j].phase \in {"new", "Running"}
      BY Zenon, <1>5 DEF WfStart, WfFinish
    <3> QED
      BY <3>1 DEF NoWorkflow
  <2>3. wf'[j].owner = wf[j].owner /\ wf'[j].phase = p
    BY <1>1, <2>1 DEF Workflows
  <2>4. GoesOn(j)
    BY Zenon, <2>1, <2>2, <2>3 DEF GoesOn
  <2>5. \A k \in Keys \ {j} : wf'[k] = wf[k]
    BY <1>1, <2>1
  <2> QED
    BY Zenon, <1>3, <2>4, <2>5 DEF Fewer
<1>6. ASSUME NEW j \in Keys, GarbageCollect(j)
      PROVE  Fewer
  <2>1. \A k \in Keys : wf'[k] = wf[k] \/ wf'[k] = NoWorkflow
    BY <1>1, <1>6 DEF GarbageCollect
  <2> QED
    BY Zenon, <1>3, <2>1 DEF Fewer
<1> QED
  BY <1>2, <1>4, <1>5, <1>6

-----------------------------------------------------------------------------
\* Every step is one of these

\* A step changes the stored addon or the workflows, not both; only the addon
\* controller, installing, adds a workflow of an installation, one at a time.
LEMMA StepKinds ==
  ASSUME StaleCopiesHarmless, [Next]_vars
  PROVE  \/ wf' = wf /\ (Kept \/ Born \/ Changed \/ Gone)
         \/ Kept /\ (Fewer \/ OneMore({"delete"}))
         \/ Kept /\ pc[self] \in Installing /\ OneMore({"prereqs", "install"})
<1>1. CASE \E p : UpdateStatus(p)
  BY Zenon, <1>1, UpdateStatusStores
<1>2. CASE SetFinalizer \/ Unfinalize
  BY Zenon, <1>2, FinalizerStores
<1>3. CASE RunPrereqs \/ RunInstall \/ RunDelete
  BY Zenon, <1>3, RunSubmits
<1>4. CASE DeleteOldWorkflows
  BY Zenon, <1>4, FewerWorkflows
<1>5. CASE \/ ReconcileGone \/ MarkDeleting \/ Finalize \/ ProcessChanged \/ ProcessCompleted
           \/ (\E outcome \in ValidationOutcomes : ProcessValidate(outcome))
           \/ (\E step \in Steps : SyncPhase(step)) \/ SyncDelete
  <2>1. Kept
    BY Zenon, <1>5 DEF ReconcileGone, MarkDeleting, Finalize, ProcessChanged, ProcessCompleted,
       ProcessValidate, BeginWith, Begin, SyncPhase, SyncDelete, unchangedByRun, storeVars, envVars,
       Kept
  <2>2. wf' = wf
    BY Zenon, <1>5 DEF ReconcileGone, MarkDeleting, Finalize, ProcessChanged, ProcessCompleted,
       ProcessValidate, BeginWith, Begin, SyncPhase, SyncDelete, wfVars
  <2> QED
    BY <2>1, <2>2
<1>6. CASE AddonStep
  BY Zenon, <1>1, <1>2, <1>3, <1>4, <1>5, <1>6 DEF AddonStep, Reconcile
<1>7. CASE WorkflowStep
  <2>1. CASE \E k \in Keys : WfIgnore(k) \/ WfReconcile(k)
    BY Zenon, <2>1 DEF WfIgnore, WfReconcile, WfBegin, storeVars, envVars, Kept
  <2> QED
    BY Zenon, <1>1, <1>7, <2>1 DEF WorkflowStep
<1>8. CASE Environment
  <2>1. CASE Deliver \/ (\E k \in Keys : WfDeliver(k)) \/ Tick
    BY Zenon, <2>1 DEF Deliver, WfDeliver, Tick, storeVars, envVars, wfVars, Kept
  <2>2. CASE \E k \in Keys : WfStart(k) \/ WfFinish(k) \/ GarbageCollect(k)
    BY Zenon, <2>2, FewerWorkflows
  <2>3. CASE (\E s \in NewSpecs : Create(s)) \/ (\E s \in Specs : EditSpec(s)) \/ DeleteAddon
    BY Zenon, <2>3, UserStores
  <2> QED
    BY Zenon, <1>8, <2>1, <2>2, <2>3 DEF Environment
<1>9. CASE ResourceEvent \/ Crash \/ UNCHANGED vars
  BY Zenon, <1>9 DEF ResourceEvent, Crash, vars, clusterVars, storeVars, envVars, wfVars, Kept
<1> QED
  BY Zenon, <1>6, <1>7, <1>8, <1>9 DEF Next

-----------------------------------------------------------------------------
\* Refinement

\* The same workflows deploy the same.
LEMMA DeployingSame ==
  ASSUME wf' = wf
  PROVE  Deploying' = Deploying
BY DEF Deploying

\* Workflows that end or are deleted add nothing to what is deployed.
LEMMA DeployingFewer ==
  ASSUME Fewer
  PROVE  Deploying' \subseteq Deploying
BY DEF Fewer, GoesOn, Deploying, Installations

\* A delete workflow deploys nothing.
LEMMA DeployingDelete ==
  ASSUME WorkflowsTypeOK, OneMore({"delete"})
  PROVE  Deploying' = Deploying
<1>1. Key(me, "delete") \notin Installations
  BY DEF Installations, Key
<1>2. \A k \in Installations : wf'[k] = wf[k]
  BY <1>1 DEF WorkflowsTypeOK, OneMore, Installations
<1> QED
  BY <1>2 DEF Deploying, Installations

\* A prereqs or install workflow that is submitted is deployed for the life of the
\* addon in the hands of the worker.
LEMMA DeployingMore ==
  ASSUME WorkflowsTypeOK, me \in Addons, OneMore({"prereqs", "install"})
  PROVE  \E d \in Installations : Deploying' = Deploying \cup {<<d, me.uid>>}
<1>1. PICK step \in {"prereqs", "install"} :
        wf[Key(me, step)] = NoWorkflow /\ wf' = [wf EXCEPT ![Key(me, step)] = New(me)]
  BY Zenon DEF OneMore
<1> DEFINE d == Key(me, step)
<1>2. d \in Installations /\ d \in Keys
  BY KeyType DEF Installations, Steps
<1> HIDE DEF d
<1>3. wf'[d].owner = me.uid /\ wf'[d] # NoWorkflow
  BY <1>1, <1>2 DEF WorkflowsTypeOK, New, NoWorkflow, d
<1>4. \A k \in Keys \ {d} : wf'[k] = wf[k]
  BY <1>1 DEF WorkflowsTypeOK, d
<1>5. wf[d] = NoWorkflow
  BY <1>1 DEF d
<1>6. Deploying' = Deploying \cup {<<d, me.uid>>}
  <2> DEFINE J == {j \in Installations : wf[j] # NoWorkflow}
             K == {j \in Installations : wf'[j] # NoWorkflow}
  <2>1. \A j \in Installations : j \in Keys
    BY DEF Installations
  <2>2. d \in K /\ d \notin J /\ \A j \in Keys \ {d} : j \in K <=> j \in J
    BY <1>2, <1>3, <1>4, <1>5
  <2>3. \A j \in J : <<j, wf'[j].owner>> = <<j, wf[j].owner>>
    BY <1>4, <2>1, <2>2
  <2>4. K = J \cup {d}
    BY <2>1, <2>2
  <2> HIDE DEF J, K
  <2>5. {<<j, wf'[j].owner>> : j \in K} = {<<j, wf[j].owner>> : j \in J} \cup {<<d, me.uid>>}
    BY Zenon, <1>3, <2>3, <2>4
  <2> QED
    BY Zenon, <2>5 DEF Deploying, Installations, J, K
<1> QED
  BY <1>2, <1>6

\* A step of the manager is a step of AddonLife or leaves what AddonLife sees.
LEMMA StepRefines ==
  ASSUME StaleCopiesHarmless, LastLife, [Next]_vars
  PROVE  [Life!Next]_(Life!vars) /\ LastLife'
<1>1. StoreTypeOK /\ WorkflowsTypeOK /\ CountersTypeOK /\ WorkersTypeOK /\ WorkersInv
  BY DEF StaleCopiesHarmless, TypeOK
<1>2. ASSUME Kept
      PROVE  UNCHANGED <<Stage, uids, Cycle, Outcome>> /\ LastLife'
  BY <1>2 DEF Kept, Stage, Cycle, Outcome, LastLife
<1>3. CASE Kept /\ wf' = wf
  BY <1>2, <1>3, DeployingSame DEF Life!vars
<1>4. CASE Kept /\ (Fewer \/ OneMore({"delete"}))
  <2>1. Deploying' \subseteq Deploying
    BY <1>1, <1>4, DeployingFewer, DeployingDelete
  <2>2. Life!Forget
    BY <1>2, <1>4, <2>1 DEF Life!Forget
  <2> QED
    BY <1>2, <1>4, <2>2 DEF Life!Next
<1>5. CASE Kept /\ pc[self] \in Installing /\ OneMore({"prereqs", "install"})
  <2>1. Held(me) /\ me \in Addons
    BY <1>1, <1>5 DEF WorkersInv, WorkersTypeOK, MaybeAddon, Installing, me, self, Procs
  <2>2. Stage \in {"held", "leaving"} /\ me.uid = uids
    BY <2>1 DEF Held, Stage, LastLife
  <2>3. PICK d \in Installations : Deploying' = Deploying \cup {<<d, uids>>}
    BY <1>1, <1>5, <2>1, <2>2, DeployingMore
  <2>4. Life!Deploy(d)
    BY <1>2, <1>5, <2>2, <2>3 DEF Life!Deploy
  <2> QED
    BY <1>2, <1>5, <2>4 DEF Life!Next
<1>6. CASE wf' = wf /\ Born
  <2>1. api' # NoAddon /\ api'.uid = uids' /\ ~api'.deleting /\ ~api'.finalizer
        /\ api'.status = NewStatus
    <3>1. PICK s \in Specs : api' = [uid |-> uids + 1, spec |-> s, deleting |-> FALSE,
                                     finalizer |-> FALSE, status |-> NewStatus]
      BY <1>6 DEF Born
    <3>2. NewStatus \in Statuses
      BY Zenon DEF NewStatus, Statuses, Phases
    <3>3. uids + 1 \in Nat
      BY <1>1 DEF CountersTypeOK
    <3>4. api' \in Addons
      BY <3>1, <3>2, <3>3 DEF Addons
    <3> QED
      BY <1>6, <3>1, <3>4, NoAddonAssumption DEF Born
  <2>2. Stage = "absent" /\ Stage' = "present" /\ uids' = uids + 1 /\ LastLife'
    BY <1>6, <2>1 DEF Stage, Born, LastLife
  <2>3. UNCHANGED <<Cycle, Outcome>>
    <3>1. Cycle = "" /\ Outcome = "open"
      BY <1>6 DEF Born, Cycle, Outcome
    <3>2. api'.status.checksum = "" /\ api'.status.installed = ""
      <4>1. NewStatus.checksum = "" /\ NewStatus.installed = ""
        BY DEF NewStatus
      <4> QED
        BY <2>1, <4>1
    <3>3. Cycle' = ""
      BY <2>1, <3>2 DEF Cycle
    <3>4. Outcome' = "open"
      BY <2>1, <3>2 DEF Outcome, Completed, Succeeded, Failed, Running
    <3> QED
      BY <3>1, <3>3, <3>4
  <2>4. Life!Appear
    BY <1>6, <2>2, <2>3, DeployingSame DEF Life!Appear
  <2> QED
    BY <2>2, <2>4 DEF Life!Next
<1>7. CASE wf' = wf /\ Gone
  <2>1. Stage \in {"present", "leaving"} /\ Stage' = "absent" /\ Cycle' = "" /\ Outcome' = "open"
        /\ uids' = uids /\ LastLife'
    BY <1>7 DEF Gone, Stage, Cycle, Outcome, LastLife
  <2>2. Life!Vanish
    BY <1>7, <2>1, DeployingSame DEF Life!Vanish
  <2> QED
    BY <2>1, <2>2 DEF Life!Next
<1>8. CASE wf' = wf /\ Changed
  <2>1. api \in Addons /\ uids' = uids /\ Deploying' = Deploying
    BY <1>1, <1>8, DeployingSame DEF StoreTypeOK, MaybeAddon, Changed
  <2>2. api' \in Addons /\ api'.uid = api.uid
    <3>1. ASSUME NEW p \in fresh, pc[p] = "put"
          PROVE  inst[p].status \in Statuses
      BY <1>1, <3>1 DEF StoreTypeOK, WorkersTypeOK, WorkersInv, MaybeAddon, Addons
    <3> QED
      BY <1>8, <2>1, <3>1 DEF Changed, Edited, Finalized, Marked, Reported, Addons
  <2>3. api' # NoAddon /\ LastLife'
    BY <1>8, <2>1, <2>2, NoAddonAssumption DEF LastLife, Changed
  <2>4. CASE Edited
    <3>1. UNCHANGED <<Stage, Cycle, Outcome>>
      BY <1>8, <2>1, <2>3, <2>4 DEF Changed, Edited, Addons, Stage, Cycle, Outcome
    <3> QED
      BY <2>1, <2>3, <3>1 DEF Life!vars
  <2>5. CASE Finalized
    <3>1. UNCHANGED <<Cycle, Outcome>>
      BY <1>8, <2>1, <2>3, <2>5 DEF Changed, Finalized, Addons, Cycle, Outcome
    <3>2. Stage' = Stage \/ (Stage = "present" /\ Stage' = "held")
      BY <1>8, <2>1, <2>3, <2>5 DEF Changed, Finalized, Addons, Stage
    <3> QED
      BY <2>1, <2>3, <3>1, <3>2 DEF Life!vars, Life!Next, Life!Hold
  <2>6. CASE Marked
    <3>1. UNCHANGED <<Cycle, Outcome>>
      BY <1>8, <2>1, <2>3, <2>6 DEF Changed, Marked, Addons, Cycle, Outcome
    <3>2. Stage = "held" /\ Stage' = "leaving"
      BY <1>8, <2>1, <2>3, <2>6 DEF Changed, Marked, Addons, Stage
    <3> QED
      BY <2>1, <2>3, <3>1, <3>2 DEF Life!Next, Life!Leave
  <2>7. CASE Reported
    <3>1. PICK p \in fresh : pc[p] = "put" /\ api' = [api EXCEPT !.status = inst[p].status]
      BY <2>7 DEF Reported
    <3>2. api'.status = inst[p].status /\ api'.deleting = api.deleting
          /\ api'.finalizer = api.finalizer
      BY <2>1, <3>1 DEF Addons
    <3>3. Stage' = Stage /\ Stage # "absent"
      BY <1>8, <2>3, <3>2 DEF Changed, Stage
    <3>4. ~RaceGuard(api, inst[p])
      BY <1>1, <3>1 DEF WorkersInv, Knows
    <3>5. Cycle' = Cycle /\ Outcome = "done" => Outcome' # "running"
      BY <1>8, <2>3, <3>2, <3>4 DEF Changed, RaceGuard, Cycle, Outcome
    <3>6. Cycle' \in Checksums \cup {""} /\ Outcome' \in {"open", "running", "done"}
      BY <2>2, <2>3 DEF Cycle, Outcome, Addons, Statuses
    <3>7. Life!Report(Cycle', Outcome')
      BY <2>1, <3>3, <3>5 DEF Life!Report
    <3> QED
      BY <2>3, <3>6, <3>7 DEF Life!Next
  <2> QED
    BY <1>8, <2>4, <2>5, <2>6, <2>7 DEF Changed
<1> QED
  BY <1>3, <1>4, <1>5, <1>6, <1>7, <1>8, StepKinds

\* The manager, whatever the interleaving, the failures and the restarts,
\* implements AddonLife.
THEOREM ManagerImplementsLife == Spec => ImplementsLife
<1>1. Init => Life!Init /\ LastLife
  <2> SUFFICES ASSUME Init
               PROVE  Life!Init /\ LastLife
    OBVIOUS
  <2>1. api = NoAddon /\ uids = 0 /\ \A k \in Keys : wf[k] = NoWorkflow
    BY DEF Init
  <2>2. Stage = "absent" /\ Cycle = "" /\ Outcome = "open"
    BY Zenon, <2>1 DEF Stage, Cycle, Outcome
  <2>3. Deploying = {}
    BY Zenon, <2>1 DEF Deploying, Installations
  <2>4. LastLife
    BY Zenon, <2>1 DEF LastLife
  <2> QED
    BY Zenon, <2>1, <2>2, <2>3, <2>4 DEF Life!Init
<1>2. StaleCopiesHarmless /\ LastLife /\ [Next]_vars => [Life!Next]_(Life!vars) /\ LastLife'
  BY StepRefines
<1> QED
  BY <1>1, <1>2, StaleCopiesHarmlessAlways, PTL DEF Spec, ImplementsLife, Life!Spec

=============================================================================
