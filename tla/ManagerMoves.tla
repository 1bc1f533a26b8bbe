---------------------------- MODULE ManagerMoves ----------------------------
(***************************************************************************)
(* What a step of the manager does, said without the program counters: how *)
(* the informers, the workers, the lives of the addon and the statuses     *)
(* move.  The arguments of DeploymentProofs go over these moves instead of *)
(* over the actions.                                                       *)
(***************************************************************************)
EXTENDS AddonManagerProofs

-----------------------------------------------------------------------------
\* The moves of the informers and of the controllers

\* The informer's copy and what it has not heard of yet.
InformerMove ==
  \/ UNCHANGED <<api, watch, cache>>
  \/ cache' = cache /\ watch' = Append(watch, api') /\ api' # api
  \/ /\ watch # << >> /\ cache' = Head(watch) /\ watch' = Tail(watch)
     /\ api' = api /\ queue' = TRUE
  \/ Crash

\* A step of UpdateStatus keeps its copy, or is the last one.
Stays(p) ==
  /\ inst'[p] = inst[p]
  /\ pc'[p] = pc[p] \/ (pc[p] \in Updating /\ pc'[p] \in Updating)

Leaves(p) == inst'[p] = NoAddon /\ pc'[p] = "idle"

\* The addon controller goes on at label l with a copy that is o up to the
\* finalizer and has status st.
Moved(o, l, st) ==
  /\ pc'[self] = l
  /\ inst'[self] \in Addons
  /\ inst'[self].uid = o.uid /\ inst'[self].spec = o.spec
  /\ inst'[self].deleting = o.deleting /\ inst'[self].status = st

\* A pass begins.
BeginsDeletion(l, st) ==
  /\ cache.deleting
  /\ \/ l = "lock" /\ st = SetInstallStatus(cache.status, "Deleting")
     \/ /\ l = "unfinalize" /\ st = cache.status
        /\ "delete" \notin Templates[cache.spec] \/ st.installed = "DeleteSucceeded"
     \/ l = "delete" /\ st = cache.status /\ st.installed = "Deleting"

BeginsInstallation(l, st) ==
  /\ ~cache.deleting
  /\ \/ l = "listwf" /\ st = [cache.status EXCEPT !.checksum = Checksum[cache.spec]]
     \/ /\ ~ChecksumChanged
        /\ \/ l = "lock" /\ \/ st = cache.status
                            \/ st = SetInstallStatus(cache.status, "Pending")
                            \/ st = SetInstallStatus(cache.status, "ValidationFailed")
           \/ l \in {"finalizer", "prereqs"} /\ st = cache.status

\* A pass goes on.  Result(step, st): runWorkflow may leave the status st.
NewCycle(st) ==
  SetPrereqAndInstallStatuses(ClearStatus([st EXCEPT !.startTime = now]), "Pending")

Result(step, st) ==
  \/ st = me.status
  \/ step \notin Templates[me.spec] /\ st = SetStatusByLifecyleStep(me.status, step, "Succeeded")
  \/ \E phase \in Seen(Key(me, step)) : st = Synced(me.status, step, phase)

GoesOnPreparing(l, st) ==
  \/ /\ pc[self] = "listwf" /\ l = "lock"
     /\ st = NewCycle(me.status) \/ ("list" \in Faults /\ st = me.status)
  \/ pc[self] = "finalizer" /\ l \in {"prereqs", "lock"} /\ st = me.status

GoesOnRunning(l, st) ==
  \E step \in {"prereqs", "install"} :
    /\ pc[self] \in {step, Submitted[step]}
    /\ \/ l = Submitted[step] /\ st = me.status
       \/ l = "lock" /\ \/ st = SetStatusByLifecyleStep(me.status, step, "Failed")
                        \/ st = SetInstallStatus(me.status, "Failed")
                        \/ Result(step, st)
                        \/ \E r : Result(step, r) /\ st = SetInstallStatus(r, "Failed")
       \/ step = "prereqs" /\ l = "install" /\ Result(step, st) /\ Succeeded(st.prereqs)

GoesOnDeleting(l, st) ==
  /\ st = me.status
  /\ \/ pc[self] = "delete" /\ l = "deleteSubmitted"
     \/ /\ pc[self] = "deleteSubmitted" /\ l = "unfinalize"
        /\ \E phase \in Seen(Key(me, "delete")) :
             Succeeded(Synced(st, "delete", phase).installed)

\* A move of the addon controller's worker.
AddonMove ==
  \/ Stays(self)
  \/ Leaves(self)
  \/ /\ pc[self] = "idle" /\ cache \in Addons /\ UNCHANGED <<api, watch, cache>>
     /\ \E l, st : Moved(cache, l, st) /\ (BeginsDeletion(l, st) \/ BeginsInstallation(l, st))
  \/ /\ pc[self] # "idle" /\ me \in Addons
     /\ \E l, st : /\ Moved(me, l, st)
                   /\ \/ GoesOnPreparing(l, st)
                      \/ GoesOnRunning(l, st)
                      \/ GoesOnDeleting(l, st)

\* A move of the workflow controller's worker.
WorkflowMove ==
  \/ Stays("workflow")
  \/ Leaves("workflow")
  \/ \E k \in Keys : WfReconcile(k)

-----------------------------------------------------------------------------

\* Goto moves the worker.
LEMMA GotoMoves ==
  ASSUME WorkersTypeOK, NEW c \in Addons, NEW o \in Addons, NEW l, Goto(l, o),
         o.uid = c.uid, o.spec = c.spec, o.deleting = c.deleting
  PROVE  Moved(c, l, o.status)
BY DEF WorkersTypeOK, Goto, Moved, self, Procs

\* Update moves the worker into UpdateStatus.
LEMMA UpdateMoves ==
  ASSUME WorkersTypeOK, NEW o \in Addons, NEW st \in Statuses, NEW again, Update(o, st, again)
  PROVE  Moved(o, "lock", st)
<1> DEFINE n == [o EXCEPT !.status = st]
<1>1. n \in Addons /\ n.uid = o.uid /\ n.spec = o.spec /\ n.deleting = o.deleting /\ n.status = st
  BY DEF Addons
<1>2. pc' = [pc EXCEPT ![self] = "lock"] /\ inst' = [inst EXCEPT ![self] = n]
  BY DEF Update
<1> HIDE DEF n
<1>3. pc'[self] = "lock" /\ inst'[self] = n
  BY <1>2 DEF WorkersTypeOK, self, Procs
<1> QED
  BY <1>1, <1>3 DEF Moved

\* Return and a panic leave the worker idle, and touch no other worker.
LEMMA ReturnLeaves ==
  ASSUME WorkersTypeOK, NEW p \in Procs,
         (\E err : Return(p, err)) \/ (p = self /\ Goto("idle", NoAddon))
  PROVE  Leaves(p) /\ \A q \in Procs \ {p} : Stays(q)
BY DEF WorkersTypeOK, Return, Goto, Leaves, Stays

\* The addon controller's moves touch no other worker.
LEMMA OthersStay ==
  ASSUME WorkersTypeOK, \/ \E l, o : Goto(l, o)
                        \/ \E o, st, again : Update(o, st, again)
                        \/ UNCHANGED procVars
  PROVE  Stays("workflow")
BY DEF WorkersTypeOK, Goto, Update, Stays, procVars, self, Procs

\* UpdateStatus keeps the copy it writes until it returns.
LEMMA UpdateStatusMoves ==
  ASSUME WorkersTypeOK, NEW p \in Procs, UpdateStatus(p)
  PROVE  (Stays(p) \/ Leaves(p)) /\ \A q \in Procs \ {p} : Stays(q)
<1>1. CASE \E err : Return(p, err)
  BY Zenon, <1>1, ReturnLeaves
<1>2. CASE \E l \in {"retry", "put", "record"} : pc' = [pc EXCEPT ![p] = l] /\ inst' = inst
                                                /\ pc[p] \in Updating
  BY <1>2 DEF WorkersTypeOK, Stays, Updating
<1>3. pc[p] \in Updating
  BY DEF UpdateStatus, UpdateStatusLock, UpdateStatusRetry, UpdateStatusPut,
     UpdateStatusConflict, UpdateStatusFail, UpdateStatusRecord, Updating
<1> QED
  BY Zenon, <1>1, <1>2, <1>3 DEF UpdateStatus, UpdateStatusLock, UpdateStatusRetry, Attempt,
     UpdateStatusPut, UpdateStatusConflict, UpdateStatusFail, UpdateStatusRecord

\* How a pass of the addon controller begins.
LEMMA BeginMoves ==
  ASSUME StaleCopiesHarmless,
         \/ MarkDeleting \/ Finalize \/ ProcessChanged \/ ProcessCompleted
         \/ \E outcome \in ValidationOutcomes : ProcessValidate(outcome)
  PROVE  AddonMove /\ Stays("workflow")
<1>1. StoreTypeOK /\ WorkersTypeOK
  BY DEF StaleCopiesHarmless, TypeOK
<1>2. pc[self] = "idle" /\ cache # NoAddon /\ UNCHANGED <<api, watch, cache>>
  BY Zenon DEF MarkDeleting, Finalize, ProcessChanged, ProcessCompleted, ProcessValidate,
     BeginWith, Begin
<1>3. cache \in Addons
  BY <1>1, <1>2 DEF StoreTypeOK, MaybeAddon
<1>4. cache.status \in Statuses /\ cache.spec \in Specs
  BY <1>3 DEF Addons
<1>5. Stays("workflow")
  BY Zenon, <1>1, OthersStay DEF MarkDeleting, Finalize, ProcessChanged, ProcessCompleted,
     ProcessValidate
<1> SUFFICES AddonMove
  BY <1>5
<1>6. ASSUME NEW l, NEW st, Moved(cache, l, st), BeginsDeletion(l, st) \/ BeginsInstallation(l, st)
      PROVE  AddonMove
  BY Zenon, <1>2, <1>3, <1>6 DEF AddonMove
<1>7. ASSUME UNCHANGED procVars
      PROVE  AddonMove
  BY Zenon, <1>7 DEF procVars, AddonMove, Stays
<1>8. ASSUME NEW l, Goto(l, cache)
      PROVE  Moved(cache, l, cache.status)
  BY Zenon, <1>1, <1>3, <1>8, GotoMoves
<1>9. ASSUME NEW st \in Statuses, NEW again, Update(cache, st, again)
      PROVE  Moved(cache, "lock", st)
  BY Zenon, <1>1, <1>3, <1>9, UpdateMoves
<1>10. ASSUME NEW p \in {"Deleting", "Pending", "ValidationFailed"}
       PROVE  SetInstallStatus(cache.status, p) \in Statuses
  BY Zenon, <1>4, <1>10, SetInstallStatusType DEF Phases
<1>11. CASE MarkDeleting
  <2>1. cache.deleting /\ Update(cache, SetInstallStatus(cache.status, "Deleting"), FALSE)
    BY Zenon, <1>11 DEF MarkDeleting, BeginWith
  <2> QED
    BY Zenon, <1>6, <1>9, <1>10, <2>1 DEF BeginsDeletion
<1>12. CASE Finalize
  <2>1. /\ cache.deleting
        /\ \/ /\ Goto("unfinalize", cache)
              /\ "delete" \notin Templates[cache.spec] \/ cache.status.installed = "DeleteSucceeded"
           \/ Goto("delete", cache) /\ cache.status.installed = "Deleting"
           \/ UNCHANGED procVars
    BY Zenon, <1>12 DEF Finalize, BeginWith
  <2> QED
    BY Zenon, <1>6, <1>7, <1>8, <2>1 DEF BeginsDeletion
<1>13. CASE ProcessChanged
  <2> DEFINE n == [cache EXCEPT !.status.checksum = Checksum[cache.spec]]
             st == [cache.status EXCEPT !.checksum = Checksum[cache.spec]]
  <2>1. cache.deleting = FALSE /\ Goto("listwf", n)
    BY Zenon, <1>13 DEF ProcessChanged, BeginWith
  <2>2. st \in Statuses
    BY <1>4, ConstantsAssumption DEF Statuses
  <2>3. n = [cache EXCEPT !.status = st]
    BY <1>3 DEF Addons
  <2>4. n \in Addons /\ n.uid = cache.uid /\ n.spec = cache.spec /\ n.deleting = cache.deleting
        /\ n.status = st
    BY <1>3, <2>2, <2>3 DEF Addons
  <2> HIDE DEF n, st
  <2>5. Moved(cache, "listwf", st)
    BY Zenon, <1>1, <1>3, <2>1, <2>4, GotoMoves
  <2> QED
    BY Zenon, <1>6, <2>1, <2>5 DEF BeginsInstallation, st
<1>14. CASE ProcessCompleted
  <2>1. cache.deleting = FALSE /\ ~ChecksumChanged /\ Update(cache, cache.status, FALSE)
    BY Zenon, <1>14 DEF ProcessCompleted, BeginWith
  <2> QED
    BY Zenon, <1>4, <1>6, <1>9, <2>1 DEF BeginsInstallation
<1>15. CASE \E outcome \in ValidationOutcomes : ProcessValidate(outcome)
  <2>1. /\ cache.deleting = FALSE /\ ~ChecksumChanged
        /\ \/ Goto("prereqs", cache)
           \/ Goto("finalizer", cache)
           \/ Update(cache, SetInstallStatus(cache.status, "Pending"), TRUE)
           \/ Update(cache, SetInstallStatus(cache.status, "ValidationFailed"), TRUE)
           \/ UNCHANGED procVars
    BY Zenon, <1>15 DEF ProcessValidate, BeginWith
  <2> QED
    BY Zenon, <1>6, <1>7, <1>8, <1>9, <1>10, <2>1 DEF BeginsInstallation
<1> QED
  BY <1>11, <1>12, <1>13, <1>14, <1>15

\* The statuses that runWorkflow leaves are statuses.
LEMMA ResultType ==
  ASSUME me \in Addons, NEW step \in Steps, NEW st, Result(step, st)
  PROVE  st \in Statuses
<1>1. me.status \in Statuses /\ "Succeeded" \in Phases
  BY DEF Addons, Phases
<1> QED
  BY Zenon, <1>1, SetStatusType, SyncedType DEF Result

\* Observe looks up the resources and updates the status.
LEMMA ObserveMoves ==
  ASSUME WorkersTypeOK, NEW o \in Addons, NEW st \in Statuses, Observe(o, st)
  PROVE  Moved(o, "lock", st) \/ Moved(o, "lock", SetInstallStatus(st, "Failed"))
<1>1. SetInstallStatus(st, "Failed") \in Statuses
  BY Zenon, SetInstallStatusType DEF Phases
<1> QED
  BY Zenon, <1>1, UpdateMoves DEF Observe

\* What follows when runWorkflow returns.
LEMMA AfterWorkflowMoves ==
  ASSUME WorkersTypeOK, me \in Addons, NEW step \in {"prereqs", "install"}, NEW st,
         Result(step, st), pc[self] \in {step, Submitted[step]}, AfterWorkflow(step, me, st)
  PROVE  \E l, n : Moved(me, l, n) /\ GoesOnRunning(l, n)
<1>1. st \in Statuses
  BY Zenon, ResultType DEF Steps
<1>2. SetInstallStatus(st, "Failed") \in Statuses
  BY Zenon, <1>1, SetInstallStatusType DEF Phases
<1>3. ASSUME Moved(me, "lock", st) \/ Moved(me, "lock", SetInstallStatus(st, "Failed"))
      PROVE  \E l, n : Moved(me, l, n) /\ GoesOnRunning(l, n)
  BY Zenon, <1>3 DEF GoesOnRunning
<1>4. CASE Observe(me, st)
  BY Zenon, <1>1, <1>3, <1>4, ObserveMoves
<1>5. CASE Observe(me, SetInstallStatus(st, "Failed"))
  <2>1. SetInstallStatus(SetInstallStatus(st, "Failed"), "Failed") = SetInstallStatus(st, "Failed")
    BY <1>1 DEF SetInstallStatus, Statuses
  <2> QED
    BY Zenon, <1>2, <1>3, <1>5, <2>1, ObserveMoves
<1>6. CASE step = "prereqs" /\ Succeeded(st.prereqs) /\ Goto("install", [me EXCEPT !.status = st])
  <2> DEFINE n == [me EXCEPT !.status = st]
  <2>1. n \in Addons /\ n.uid = me.uid /\ n.spec = me.spec /\ n.deleting = me.deleting
        /\ n.status = st
    BY <1>1 DEF Addons
  <2>2. Goto("install", n)
    BY <1>6
  <2> HIDE DEF n
  <2>3. Moved(me, "install", st)
    BY Zenon, <2>1, <2>2, GotoMoves
  <2> QED
    BY Zenon, <1>6, <2>3 DEF GoesOnRunning
<1> QED
  BY Zenon, <1>4, <1>5, <1>6 DEF AfterWorkflow, AfterPrereqs

\* A phase that is not there leaves the status as it is.
LEMMA SyncedAbsent ==
  ASSUME NEW st, NEW step
  PROVE  Synced(st, step, "absent") = st
BY DEF Synced, ConvertWorkflowPhaseToAddonPhase

\* How runWorkflow goes on.
LEMMA RunWorkflowMoves ==
  ASSUME WorkersTypeOK, me \in Addons, NEW step \in {"prereqs", "install"},
         pc[self] = step, RunWorkflow(step)
  PROVE  Leaves(self) \/ \E l, st : Moved(me, l, st) /\ GoesOnRunning(l, st)
<1>1. self \in Procs /\ step \in Steps /\ me.status \in Statuses
      /\ "Succeeded" \in Phases /\ "Failed" \in Phases
  BY DEF self, Procs, Steps, Addons, Phases
<1>2. \/ AfterWorkflow(step, me, me.status)
      \/ /\ step \notin Templates[me.spec]
         /\ AfterWorkflow(step, me, SetStatusByLifecyleStep(me.status, step, "Succeeded"))
      \/ Goto(Submitted[step], me)
      \/ Update(me, SetStatusByLifecyleStep(me.status, step, "Failed"), TRUE)
      \/ Goto("idle", NoAddon)
  BY Zenon DEF RunWorkflow, Panic
<1>3. ASSUME NEW st, Result(step, st), AfterWorkflow(step, me, st)
      PROVE  \E l, n : Moved(me, l, n) /\ GoesOnRunning(l, n)
  BY Zenon, <1>3, AfterWorkflowMoves
<1>4. CASE Goto(Submitted[step], me)
  <2>1. Moved(me, Submitted[step], me.status)
    BY Zenon, <1>4, GotoMoves
  <2> QED
    BY Zenon, <2>1 DEF GoesOnRunning
<1>5. CASE Update(me, SetStatusByLifecyleStep(me.status, step, "Failed"), TRUE)
  <2>1. Moved(me, "lock", SetStatusByLifecyleStep(me.status, step, "Failed"))
    BY Zenon, <1>1, <1>5, SetStatusType, UpdateMoves
  <2> QED
    BY Zenon, <2>1 DEF GoesOnRunning
<1>6. CASE Goto("idle", NoAddon)
  BY Zenon, <1>1, <1>6, ReturnLeaves
<1> QED
  BY Zenon, <1>2, <1>3, <1>4, <1>5, <1>6 DEF Result

\* How a pass goes on that installs.
LEMMA InstallMoves ==
  ASSUME StaleCopiesHarmless,
         \/ DeleteOldWorkflows \/ SetFinalizer \/ RunPrereqs \/ RunInstall
         \/ \E step \in Steps : SyncPhase(step)
  PROVE  AddonMove /\ Stays("workflow")
<1>1. WorkersTypeOK /\ WorkersInv
  BY DEF StaleCopiesHarmless, TypeOK
<1>2. pc[self] # "idle"
  <2>1. \A step \in Steps : Submitted[step] # "idle"
    BY DEF Submitted, Steps
  <2> QED
    BY <2>1 DEF DeleteOldWorkflows, SetFinalizer, RunPrereqs, RunInstall, SyncPhase
<1>3. me \in Addons
  BY <1>1, <1>2 DEF WorkersTypeOK, WorkersInv, MaybeAddon, me, self, Procs
<1>4. me.status \in Statuses /\ SetInstallStatus(me.status, "Failed") \in Statuses
  <2>1. me.status \in Statuses
    BY <1>3 DEF Addons
  <2> QED
    BY Zenon, <2>1, SetInstallStatusType DEF Phases
<1>5. Stays("workflow")
  BY Zenon, <1>1, OthersStay DEF DeleteOldWorkflows, SetFinalizer, RunPrereqs, RunInstall,
     SyncPhase, RunWorkflow, AfterWorkflow, AfterPrereqs, Observe, Panic
<1> SUFFICES AddonMove
  BY <1>5
<1>6. ASSUME NEW l, NEW st, Moved(me, l, st), GoesOnPreparing(l, st) \/ GoesOnRunning(l, st)
      PROVE  AddonMove
  BY Zenon, <1>2, <1>3, <1>6 DEF AddonMove
<1>7. ASSUME NEW st \in Statuses, NEW again, Update(me, st, again)
      PROVE  Moved(me, "lock", st)
  BY Zenon, <1>1, <1>3, <1>7, UpdateMoves
<1>8. CASE DeleteOldWorkflows
  <2>1. /\ pc[self] = "listwf"
        /\ \/ "list" \in Faults /\ Update(me, me.status, TRUE)
           \/ Update(me, NewCycle(me.status), TRUE)
    BY Zenon, <1>8 DEF DeleteOldWorkflows, Fault, NewCycle
  <2>2. NewCycle(me.status) \in Statuses
    BY <1>1, <1>3, NewCycleType DEF StaleCopiesHarmless, TypeOK, CountersTypeOK, Addons, NewCycle
  <2> QED
    BY Zenon, <1>4, <1>6, <1>7, <2>1, <2>2 DEF GoesOnPreparing
<1>9. CASE SetFinalizer
  <2>1. /\ pc[self] = "finalizer"
        /\ Goto("prereqs", [me EXCEPT !.finalizer = TRUE]) \/ Update(me, me.status, TRUE)
    BY Zenon, <1>9 DEF SetFinalizer
  <2>2. ASSUME Goto("prereqs", [me EXCEPT !.finalizer = TRUE])
        PROVE  Moved(me, "prereqs", me.status)
    <3> DEFINE n == [me EXCEPT !.finalizer = TRUE]
    <3>1. n \in Addons /\ n.uid = me.uid /\ n.spec = me.spec /\ n.deleting = me.deleting
          /\ n.status = me.status
      BY <1>3 DEF Addons
    <3>2. Goto("prereqs", n)
      BY <2>2
    <3> HIDE DEF n
    <3> QED
      BY Zenon, <1>1, <1>3, <3>1, <3>2, GotoMoves
  <2> QED
    BY Zenon, <1>4, <1>6, <1>7, <2>1, <2>2 DEF GoesOnPreparing
<1>10. ASSUME NEW step \in {"prereqs", "install"}, pc[self] = step,
              RunWorkflow(step) \/ Update(me, SetInstallStatus(me.status, "Failed"), TRUE)
       PROVE  AddonMove
  <2>1. CASE RunWorkflow(step)
    BY Zenon, <1>1, <1>3, <1>6, <1>10, <2>1, RunWorkflowMoves DEF AddonMove
  <2>2. CASE Update(me, SetInstallStatus(me.status, "Failed"), TRUE)
    <3>1. Moved(me, "lock", SetInstallStatus(me.status, "Failed"))
      BY Zenon, <1>4, <1>7, <2>2
    <3> QED
      BY Zenon, <1>6, <1>10, <3>1 DEF GoesOnRunning
  <2> QED
    BY <1>10, <2>1, <2>2
<1>11. CASE RunPrereqs
  BY Zenon, <1>10, <1>11 DEF RunPrereqs
<1>12. CASE RunInstall
  BY Zenon, <1>10, <1>12 DEF RunInstall
<1>13. CASE \E step \in Steps : SyncPhase(step)
  <2>1. PICK step \in {"prereqs", "install"} : SyncPhase(step)
    BY <1>13 DEF SyncPhase, Steps
  <2>2. PICK phase \in Seen(Key(me, step)) : AfterWorkflow(step, me, Synced(me.status, step, phase))
    BY Zenon, <2>1 DEF SyncPhase
  <2>3. pc[self] = Submitted[step]
    BY Zenon, <2>1 DEF SyncPhase
  <2>4. Result(step, Synced(me.status, step, phase))
    BY Zenon, <2>2 DEF Result
  <2> QED
    BY Zenon, <1>1, <1>3, <1>6, <2>2, <2>3, <2>4, AfterWorkflowMoves
<1> QED
  BY <1>8, <1>9, <1>11, <1>12, <1>13

\* How a pass goes on that finalizes.
LEMMA DeletionMoves ==
  ASSUME StaleCopiesHarmless, RunDelete \/ SyncDelete \/ Unfinalize
  PROVE  AddonMove /\ Stays("workflow")
<1>1. WorkersTypeOK /\ WorkersInv /\ self \in Procs /\ "workflow" \in Procs \ {self}
  BY DEF StaleCopiesHarmless, TypeOK, self, Procs
<1>2. pc[self] # "idle"
  BY DEF RunDelete, SyncDelete, Unfinalize, Submitted
<1>3. me \in Addons
  BY <1>1, <1>2 DEF WorkersTypeOK, WorkersInv, MaybeAddon, me
<1>4. CASE (\E err : Return(self, err)) \/ Goto("idle", NoAddon)
  BY Zenon, <1>1, <1>4, ReturnLeaves DEF AddonMove
<1>5. ASSUME NEW l, Goto(l, me), GoesOnDeleting(l, me.status)
      PROVE  AddonMove /\ Stays("workflow")
  <2>1. Moved(me, l, me.status)
    BY Zenon, <1>1, <1>3, <1>5, GotoMoves
  <2> QED
    BY Zenon, <1>1, <1>2, <1>3, <1>5, <2>1, OthersStay DEF AddonMove
<1>6. CASE RunDelete
  <2>1. /\ pc[self] = "delete"
        /\ Goto("deleteSubmitted", me) \/ (\E err : Return(self, err)) \/ Goto("idle", NoAddon)
    BY Zenon, <1>6 DEF RunDelete, Panic, Submitted
  <2> QED
    BY Zenon, <1>4, <1>5, <2>1 DEF GoesOnDeleting
<1>7. CASE SyncDelete
  <2>1. /\ pc[self] = "deleteSubmitted"
        /\ \/ /\ Goto("unfinalize", me)
              /\ \E phase \in Seen(Key(me, "delete")) :
                   Succeeded(Synced(me.status, "delete", phase).installed)
           \/ \E err : Return(self, err)
    BY Zenon, <1>7 DEF SyncDelete, Submitted
  <2> QED
    BY Zenon, <1>4, <1>5, <2>1 DEF GoesOnDeleting
<1>8. CASE Unfinalize
  BY Zenon, <1>4, <1>8 DEF Unfinalize
<1> QED
  BY <1>6, <1>7, <1>8

\* Every step moves the two workers in one of these ways.
LEMMA WorkerMoves ==
  ASSUME StaleCopiesHarmless, [Next]_vars
  PROVE  AddonMove /\ WorkflowMove
<1>1. WorkersTypeOK /\ self \in Procs /\ "workflow" \in Procs /\ self # "workflow"
  BY DEF StaleCopiesHarmless, TypeOK, self, Procs
<1>2. ASSUME UNCHANGED <<pc, inst>>
      PROVE  AddonMove /\ WorkflowMove
  BY Zenon, <1>2 DEF AddonMove, WorkflowMove, Stays
<1>3. CASE AddonStep
  <2>1. CASE UpdateStatus(self)
    BY Zenon, <1>1, <2>1, UpdateStatusMoves DEF AddonMove, WorkflowMove
  <2>2. CASE ReconcileGone
    BY Zenon, <1>2, <2>2 DEF ReconcileGone, procVars
  <2> QED
    BY Zenon, <1>3, <2>1, <2>2, BeginMoves, InstallMoves, DeletionMoves
       DEF AddonStep, Reconcile, WorkflowMove
<1>4. CASE WorkflowStep
  <2>1. CASE UpdateStatus("workflow")
    BY Zenon, <1>1, <2>1, UpdateStatusMoves DEF AddonMove, WorkflowMove
  <2>2. ASSUME NEW k \in Keys, WfIgnore(k)
        PROVE  AddonMove /\ WorkflowMove
    BY Zenon, <1>2, <2>2 DEF WfIgnore
  <2>3. ASSUME NEW k \in Keys, WfReconcile(k)
        PROVE  AddonMove /\ WorkflowMove
    <3>1. Stays(self)
      BY <1>1, <2>3 DEF WfReconcile, WorkersTypeOK, Stays
    <3> QED
      BY Zenon, <2>3, <3>1 DEF AddonMove, WorkflowMove
  <2> QED
    BY Zenon, <1>4, <2>1, <2>2, <2>3 DEF WorkflowStep
<1>5. CASE Environment \/ ResourceEvent \/ UNCHANGED vars
  BY Zenon, <1>2, <1>5 DEF Environment, ResourceEvent, vars, procVars
<1>6. CASE Crash
  BY Zenon, <1>1, <1>6 DEF Crash, AddonMove, WorkflowMove, Leaves
<1> QED
  BY Zenon, <1>3, <1>4, <1>5, <1>6 DEF Next

\* Every step moves the informer in one of these ways.
LEMMA InformerMoves ==
  ASSUME StaleCopiesHarmless, [Next]_vars
  PROVE  InformerMove
<1>1. ASSUME UNCHANGED <<api, watch, cache>>
      PROVE  InformerMove
  BY Zenon, <1>1 DEF InformerMove
<1>2. ASSUME NEW o, Write(o), cache' = cache
      PROVE  InformerMove
  BY Zenon, <1>2 DEF Write, storeVars, InformerMove
<1>3. ASSUME NEW p, NEW o, Unanswered(p, o), cache' = cache
      PROVE  InformerMove
  BY Zenon, <1>1, <1>2, <1>3 DEF Unanswered, storeVars
<1>4. ASSUME NEW p, UpdateStatus(p)
      PROVE  InformerMove
  BY Zenon, <1>1, <1>2, <1>3, <1>4 DEF UpdateStatus, UpdateStatusLock, UpdateStatusRetry,
     Attempt, UpdateStatusPut, UpdateStatusConflict, UpdateStatusFail, UpdateStatusRecord, storeVars
<1>5. CASE AddonStep
  <2>1. CASE SetFinalizer \/ Unfinalize
    BY Zenon, <1>2, <1>3, <2>1 DEF SetFinalizer, Unfinalize
  <2>2. CASE \/ DeleteOldWorkflows \/ RunPrereqs \/ RunInstall \/ RunDelete \/ SyncDelete
             \/ \E step \in Steps : SyncPhase(step)
    BY Zenon, <1>1, <2>2 DEF DeleteOldWorkflows, RunPrereqs, RunInstall, RunDelete, SyncDelete,
       SyncPhase, unchangedByRun, storeVars
  <2>3. CASE \/ ReconcileGone \/ MarkDeleting \/ Finalize \/ ProcessChanged \/ ProcessCompleted
             \/ \E outcome \in ValidationOutcomes : ProcessValidate(outcome)
    BY Zenon, <1>1, <2>3 DEF ReconcileGone, MarkDeleting, Finalize, ProcessChanged,
       ProcessCompleted, ProcessValidate, BeginWith, Begin
  <2> QED
    BY Zenon, <1>4, <1>5, <2>1, <2>2, <2>3 DEF AddonStep, Reconcile
<1>6. CASE WorkflowStep
  BY Zenon, <1>1, <1>4, <1>6 DEF WorkflowStep, WfIgnore, WfReconcile, WfBegin, storeVars
<1>7. CASE Environment
  <2>1. CASE Deliver
    BY Zenon, <2>1 DEF Deliver, InformerMove
  <2>2. CASE (\E k \in Keys : WfDeliver(k) \/ WfStart(k) \/ WfFinish(k) \/ GarbageCollect(k)) \/ Tick
    BY Zenon, <1>1, <2>2 DEF WfDeliver, WfStart, WfFinish, GarbageCollect, Tick, storeVars
  <2>3. CASE (\E s \in NewSpecs : Create(s)) \/ (\E s \in Specs : EditSpec(s)) \/ DeleteAddon
    BY Zenon, <1>2, <2>3 DEF Create, EditSpec, DeleteAddon
  <2> QED
    BY Zenon, <1>7, <2>1, <2>2, <2>3 DEF Environment
<1>8. CASE ResourceEvent \/ UNCHANGED vars
  BY Zenon, <1>1, <1>8 DEF ResourceEvent, vars, clusterVars, storeVars
<1> QED
  BY Zenon, <1>5, <1>6, <1>7, <1>8 DEF Next, InformerMove

\* The status that the workflow controller makes of the phase of workflow k.
FromWorkflow(k) ==
  SetStatusByLifecyleStep(cache.status, k[1],
    ConvertWorkflowPhaseToAddonPhase(k[1], wfCache[k].phase))

\* The workflow controller's copy is the informer's, with the phase of a workflow
\* of the same spec.
LEMMA ReconcileMoves ==
  ASSUME StaleCopiesHarmless, NEW k \in Keys, WfReconcile(k)
  PROVE  LET n == inst'["workflow"]
         IN /\ cache \in Addons /\ n \in Addons
            /\ n.uid = cache.uid /\ n.spec = cache.spec /\ n.deleting = cache.deleting
            /\ n.status = FromWorkflow(k)
            /\ pc'["workflow"] = "lock"
            /\ Checksum[cache.spec] = k[2] /\ ~Completed(cache.status.installed)
<1>1. StoreTypeOK /\ WorkersTypeOK
  BY DEF StaleCopiesHarmless, TypeOK
<1>2. /\ inst' = [inst EXCEPT !["workflow"] =
                    [cache EXCEPT !.status = SetStatusByLifecyleStep(@, k[1],
                       ConvertWorkflowPhaseToAddonPhase(k[1], wfCache[k].phase))]]
      /\ pc' = [pc EXCEPT !["workflow"] = "lock"]
      /\ cache # NoAddon
      /\ ~Ignored(k)
  BY Zenon DEF WfReconcile
<1>3. cache \in Addons
  BY <1>1, <1>2 DEF StoreTypeOK, MaybeAddon
<1>4. cache.status \in Statuses /\ k[1] \in Steps
  BY <1>3 DEF Addons, Keys
<1>5. FromWorkflow(k) \in Statuses
  BY Zenon, <1>4, ConvertType, SetStatusType DEF FromWorkflow
<1>6. [cache EXCEPT !.status = SetStatusByLifecyleStep(@, k[1],
         ConvertWorkflowPhaseToAddonPhase(k[1], wfCache[k].phase))]
      = [cache EXCEPT !.status = FromWorkflow(k)]
  BY Zenon DEF FromWorkflow
<1>7. inst'["workflow"] = [cache EXCEPT !.status = FromWorkflow(k)] /\ pc'["workflow"] = "lock"
  BY <1>1, <1>2, <1>6 DEF WorkersTypeOK, Procs
<1>8. Checksum[cache.spec] = k[2] /\ ~Completed(cache.status.installed)
  BY Zenon, <1>2 DEF Ignored
<1> QED
  BY <1>3, <1>5, <1>7, <1>8 DEF Addons

\* The informer's copy or the last version on its way is the stored version.
LEMMA StoredIsCopy ==
  ASSUME StaleCopiesHarmless
  PROVE  api \in Copies
BY DEF StaleCopiesHarmless, TypeOK, StoreTypeOK, InformerInv, Copies

\* What the informer holds or is still to hear of was there before, or is what
\* the API stores now.
LEMMA CopiesStep ==
  ASSUME StaleCopiesHarmless, [Next]_vars
  PROVE  api \in Copies /\ cache \in Copies /\ Copies' \subseteq Copies \cup {api'}
<1>1. watch \in Seq(MaybeAddon) /\ InformerInv
  BY DEF StaleCopiesHarmless, TypeOK, StoreTypeOK
<1>2. api \in Copies
  BY StoredIsCopy
<1>3. CASE UNCHANGED <<api, watch, cache>>
  BY <1>2, <1>3 DEF Copies
<1>4. CASE cache' = cache /\ watch' = Append(watch, api')
  BY <1>1, <1>2, <1>4 DEF Copies
<1>5. CASE watch # << >> /\ cache' = Head(watch) /\ watch' = Tail(watch)
  <2>1. cache' \in Copies
    BY <1>1, <1>5 DEF Copies
  <2>2. ASSUME NEW i \in 1..Len(watch')
        PROVE  watch'[i] = watch[i + 1] /\ i + 1 \in 1..Len(watch)
    BY <1>1, <1>5
  <2> QED
    BY <1>2, <2>1, <2>2 DEF Copies
<1>6. CASE Crash
  BY <1>1, <1>2, <1>6 DEF Crash, Copies
<1> QED
  BY Zenon, <1>3, <1>4, <1>5, <1>6, InformerMoves DEF InformerMove, Copies

\* The history grows; the informer's copy of a workflow is an old one or is up to
\* date.
LEMMA HistoryStep ==
  ASSUME StaleCopiesHarmless, [Next]_vars
  PROVE  ran \subseteq ran' /\ \A k \in Keys : wfCache'[k] \in {wfCache[k], wf[k]}
<1>1. wfCache \in [Keys -> Workflows]
  BY DEF StaleCopiesHarmless, TypeOK, WorkflowsTypeOK
<1>2. CASE UNCHANGED <<wfCache, ran>>
  BY <1>2
<1>3. ASSUME NEW p, UpdateStatus(p)
      PROVE  UNCHANGED <<wfCache, ran>>
  BY Zenon, <1>3 DEF UpdateStatus, UpdateStatusLock, UpdateStatusRetry, Attempt, UpdateStatusPut,
     UpdateStatusConflict, UpdateStatusFail, UpdateStatusRecord, wfVars
<1>4. CASE Reconcile
  <2>1. UNCHANGED <<wfCache, ran>>
    BY Zenon, <1>4 DEF Reconcile, ReconcileGone, MarkDeleting, Finalize, ProcessChanged,
       ProcessCompleted, ProcessValidate, BeginWith, Begin, DeleteOldWorkflows, SetFinalizer,
       RunPrereqs, RunInstall, SyncPhase, RunDelete, SyncDelete, Unfinalize, unchangedByRun, wfVars
  <2> QED
    BY <1>2, <2>1
<1>5. CASE Environment
  <2>1. \/ UNCHANGED <<wfCache, ran>>
        \/ \E k \in Keys : WfDeliver(k)
        \/ wfCache' = wfCache /\ \E k \in Keys : WfFinish(k)
    BY Zenon, <1>5 DEF Environment, Deliver, WfStart, WfFinish, GarbageCollect, Create, EditSpec,
       DeleteAddon, Tick, wfVars
  <2>2. ASSUME NEW k \in Keys, WfDeliver(k)
        PROVE  ran \subseteq ran' /\ \A j \in Keys : wfCache'[j] \in {wfCache[j], wf[j]}
    BY <1>1, <2>2 DEF WfDeliver
  <2>3. ASSUME NEW k \in Keys, WfFinish(k)
        PROVE  ran \subseteq ran'
    BY <2>3 DEF WfFinish
  <2> QED
    BY <1>2, <2>1, <2>2, <2>3
<1>6. CASE WorkflowStep
  BY Zenon, <1>2, <1>3, <1>6 DEF WorkflowStep, WfIgnore, WfReconcile, WfBegin
<1>7. CASE ResourceEvent \/ UNCHANGED vars
  BY Zenon, <1>2, <1>7 DEF ResourceEvent, vars, clusterVars, wfVars
<1>8. CASE Crash
  BY <1>8 DEF Crash
<1> QED
  BY Zenon, <1>2, <1>3, <1>4, <1>5, <1>6, <1>7, <1>8 DEF Next, AddonStep

-----------------------------------------------------------------------------
\* Lives and what is remembered of them

\* o is a version of an addon that was created.
OfALife(o) == o # NoAddon => o.uid \in 1..uids

\* w, under the name k, was submitted for an addon that was created; that it
\* succeeded is remembered.
Told(w, k) ==
  w # NoWorkflow => /\ w.owner \in 1..uids
                    /\ w.phase = "Succeeded" => <<w.owner, k[1], k[2]>> \in ran

LivesInv ==
  /\ \A o \in Copies : OfALife(o)
  /\ \A p \in Procs : OfALife(inst[p])
  /\ \A k \in Keys : Told(wf[k], k) /\ Told(wfCache[k], k)

\* The name of the addon was used once.
OneLife == uids <= 1

\* What the stored addon is after a step.
LEMMA ApiStep ==
  ASSUME StaleCopiesHarmless, [Next]_vars
  PROVE  Kept \/ Born \/ Changed \/ Gone
BY Zenon, StepKinds

\* A change of the stored addon is none of its uid, and is an addon.
LEMMA ChangedType ==
  ASSUME StaleCopiesHarmless, Changed
  PROVE  api \in Addons /\ api' \in Addons /\ api' # NoAddon /\ api'.uid = api.uid
<1>1. StoreTypeOK /\ WorkersTypeOK /\ WorkersInv
  BY DEF StaleCopiesHarmless, TypeOK
<1>2. api \in Addons
  BY <1>1 DEF StoreTypeOK, MaybeAddon, Changed
<1>3. ASSUME NEW p \in fresh, pc[p] = "put"
      PROVE  inst[p].status \in Statuses
  BY <1>1, <1>3 DEF StoreTypeOK, WorkersTypeOK, WorkersInv, MaybeAddon, Addons
<1>4. api' \in Addons /\ api'.uid = api.uid
  BY <1>2, <1>3 DEF Changed, Edited, Finalized, Marked, Reported, Addons
<1> QED
  BY <1>2, <1>4, NoAddonAssumption

\* What a worker holds after a step.
LEMMA HandsStep ==
  ASSUME StaleCopiesHarmless, [Next]_vars, NEW p \in Procs
  PROVE  \/ inst'[p] = inst[p]
         \/ inst'[p] = NoAddon
         \/ cache # NoAddon /\ inst'[p].uid = cache.uid
         \/ inst[p] # NoAddon /\ inst'[p].uid = inst[p].uid
<1>1. CASE p = self
  <2>1. \A l, st : Moved(cache, l, st) => inst'[p].uid = cache.uid
    BY Zenon, <1>1 DEF Moved
  <2>2. \A l, st : Moved(me, l, st) => inst'[p].uid = inst[p].uid
    BY Zenon, <1>1 DEF Moved, me
  <2>3. cache \in Addons => cache # NoAddon
    BY NoAddonAssumption
  <2>4. me \in Addons => inst[p] # NoAddon
    BY <1>1, NoAddonAssumption DEF me
  <2> QED
    BY Zenon, <1>1, <2>1, <2>2, <2>3, <2>4, WorkerMoves DEF AddonMove, Stays, Leaves
<1>2. CASE p = "workflow"
  <2>1. ASSUME NEW k \in Keys, WfReconcile(k)
        PROVE  cache # NoAddon /\ inst'[p].uid = cache.uid
    BY <1>2, <2>1, ReconcileMoves, NoAddonAssumption
  <2> QED
    BY Zenon, <1>2, <2>1, WorkerMoves DEF WorkflowMove, Stays, Leaves
<1> QED
  BY <1>1, <1>2 DEF Procs, self

\* What the workflows are after a step.
LEMMA WorkflowsStep ==
  ASSUME StaleCopiesHarmless, [Next]_vars, NEW k \in Keys
  PROVE  \/ wf'[k] = wf[k]
         \/ wf'[k] = NoWorkflow
         \/ GoesOn(k)
         \/ me \in Addons /\ pc[self] \in Steps /\ k = Key(me, pc[self]) /\ wf'[k] = New(me)
<1>1. wf \in [Keys -> Workflows] /\ WorkersTypeOK /\ WorkersInv
  BY DEF StaleCopiesHarmless, TypeOK, WorkflowsTypeOK
<1>2. ASSUME NEW step \in Steps, OneMore({step})
      PROVE  \/ wf'[k] = wf[k]
             \/ me \in Addons /\ pc[self] \in Steps /\ k = Key(me, pc[self]) /\ wf'[k] = New(me)
  <2>1. pc[self] = step /\ wf' = [wf EXCEPT ![Key(me, step)] = New(me)]
    BY Zenon, <1>2 DEF OneMore
  <2>2. me \in Addons
    BY <1>1, <2>1 DEF WorkersTypeOK, WorkersInv, MaybeAddon, me, self, Procs, Steps
  <2>3. Key(me, step) \in Keys
    BY Zenon, <2>2, KeyType
  <2> QED
    BY <1>1, <2>1, <2>2, <2>3
<1>3. OneMore({"prereqs", "install"}) => OneMore({"prereqs"}) \/ OneMore({"install"})
  BY Zenon DEF OneMore
<1> QED
  BY Zenon, <1>2, <1>3, StepKinds DEF Fewer, Steps

\* LivesInv is kept.
LEMMA LivesStep ==
  ASSUME StaleCopiesHarmless, LivesInv, [Next]_vars
  PROVE  LivesInv' /\ uids' \in Nat /\ uids <= uids'
<1>1. uids \in Nat /\ wf \in [Keys -> Workflows]
  BY DEF StaleCopiesHarmless, TypeOK, CountersTypeOK, WorkflowsTypeOK
<1>2. uids' \in Nat /\ uids <= uids'
  BY <1>1, ApiStep DEF Kept, Born, Changed, Gone
<1>3. \A o : OfALife(o) => (o # NoAddon => o.uid \in 1..uids')
  BY <1>1, <1>2 DEF OfALife
<1>4. ASSUME NEW w, NEW k, Told(w, k)
      PROVE  w # NoWorkflow => /\ w.owner \in 1..uids'
                               /\ w.phase = "Succeeded" => <<w.owner, k[1], k[2]>> \in ran'
  BY <1>1, <1>2, <1>4, HistoryStep DEF Told
<1>5. OfALife(api)'
  <2>1. OfALife(api)
    BY Zenon, CopiesStep DEF LivesInv
  <2>2. CASE Born
    BY <1>1, <2>2 DEF Born, OfALife
  <2>3. CASE Changed
    BY <1>3, <2>1, <2>3, ChangedType DEF Changed, OfALife
  <2> QED
    BY <1>3, <2>1, <2>2, <2>3, ApiStep DEF Kept, Gone, OfALife
<1>6. \A o \in Copies' : o # NoAddon => o.uid \in 1..uids'
  BY <1>3, <1>5, CopiesStep DEF LivesInv, OfALife
<1>7. ASSUME NEW p \in Procs
      PROVE  OfALife(inst[p])'
  <2>1. OfALife(inst[p]) /\ OfALife(cache)
    BY Zenon, CopiesStep DEF LivesInv
  <2> QED
    BY <1>3, <2>1, HandsStep DEF OfALife
<1>8. ASSUME NEW k \in Keys
      PROVE  Told(wf[k], k)' /\ Told(wfCache[k], k)'
  <2>1. Told(wf[k], k) /\ Told(wfCache[k], k)
    BY DEF LivesInv
  <2>2. Told(wfCache[k], k)'
    BY <1>4, <2>1, HistoryStep DEF Told
  <2> SUFFICES Told(wf[k], k)'
    BY <2>2
  <2>3. CASE wf'[k] = wf[k] \/ wf'[k] = NoWorkflow
    BY <1>4, <2>1, <2>3 DEF Told
  <2>4. CASE GoesOn(k)
    BY <1>4, <2>1, <2>4, HistoryStep DEF Told, GoesOn
  <2>5. CASE me \in Addons /\ wf'[k] = New(me)
    <3>1. me.uid \in 1..uids'
      BY <1>3, <2>5, NoAddonAssumption DEF LivesInv, me, self, Procs
    <3> QED
      BY <2>5, <3>1 DEF Told, New
  <2> QED
    BY Zenon, <2>3, <2>4, <2>5, WorkflowsStep
<1> QED
  BY <1>2, <1>6, <1>7, <1>8 DEF LivesInv, OfALife

\* The addon controller's copy is the stored version only if it was, or is read now,
\* and nothing is stored.
LEMMA FreshStep ==
  ASSUME StaleCopiesHarmless, [Next]_vars, self \in fresh'
  PROVE  api' = api /\ (self \in fresh \/ pc[self] \in {"idle", "lock", "retry"})
<1>1. ASSUME fresh' \subseteq fresh, api' = api
      PROVE  api' = api /\ self \in fresh
  BY <1>1
<1>2. ASSUME NEW o, Write(o)
      PROVE  api' = api /\ fresh' = fresh
  BY Zenon, <1>2 DEF Write, storeVars
<1>3. ASSUME NEW p, Get(p)
      PROVE  p = self \/ self \in fresh
  BY <1>3 DEF Get
<1>4. ASSUME NEW p \in Procs, UpdateStatus(p)
      PROVE  api' = api /\ (self \in fresh \/ pc[self] \in {"idle", "lock", "retry"})
  <2>1. CASE UpdateStatusLock(p) \/ UpdateStatusRetry(p)
    <3>1. pc[p] \in {"lock", "retry"} /\ api' = api /\ (Get(p) \/ fresh' = fresh \ {p})
      BY Zenon, <2>1 DEF UpdateStatusLock, UpdateStatusRetry, Attempt
    <3> QED
      BY <1>3, <3>1
  <2>2. CASE UpdateStatusPut(p) \/ UpdateStatusConflict(p) \/ UpdateStatusFail(p)
    <3>1. (\E o : Write(o)) \/ UNCHANGED storeVars
      BY Zenon, <2>2 DEF UpdateStatusPut, UpdateStatusConflict, UpdateStatusFail, Unanswered
    <3> QED
      BY Zenon, <1>1, <1>2, <3>1 DEF storeVars
  <2>3. CASE UpdateStatusRecord(p)
    BY <2>3 DEF UpdateStatusRecord
  <2> QED
    BY Zenon, <1>4, <2>1, <2>2, <2>3 DEF UpdateStatus
<1>5. CASE AddonStep
  <2>1. CASE SetFinalizer \/ Unfinalize
    <3>1. (\E o : Write(o)) \/ UNCHANGED storeVars
      BY Zenon, <2>1 DEF SetFinalizer, Unfinalize, Unanswered
    <3> QED
      BY Zenon, <1>1, <1>2, <3>1 DEF storeVars
  <2>2. CASE \/ DeleteOldWorkflows \/ RunPrereqs \/ RunInstall \/ RunDelete \/ SyncDelete
             \/ \E step \in Steps : SyncPhase(step)
    <3>1. api' = api /\ (fresh' = fresh \/ fresh' = fresh \ {self})
      BY Zenon, <2>2 DEF DeleteOldWorkflows, RunPrereqs, RunInstall, RunDelete, SyncDelete,
         SyncPhase, unchangedByRun, storeVars
    <3> QED
      BY <3>1
  <2>3. CASE \/ ReconcileGone \/ MarkDeleting \/ Finalize \/ ProcessChanged \/ ProcessCompleted
             \/ \E outcome \in ValidationOutcomes : ProcessValidate(outcome)
    BY Zenon, <2>3 DEF ReconcileGone, MarkDeleting, Finalize, ProcessChanged, ProcessCompleted,
       ProcessValidate, BeginWith, Begin
  <2> QED
    BY Zenon, <1>4, <1>5, <2>1, <2>2, <2>3 DEF AddonStep, Reconcile, self, Procs
<1>6. CASE WorkflowStep
  BY Zenon, <1>1, <1>4, <1>6 DEF WorkflowStep, WfIgnore, WfReconcile, WfBegin, storeVars, Procs
<1>7. CASE Environment
  <2>1. (\E o : Write(o)) \/ UNCHANGED <<api, fresh>>
    BY Zenon, <1>7 DEF Environment, Deliver, WfDeliver, WfStart, WfFinish, GarbageCollect, Tick,
       Create, EditSpec, DeleteAddon, storeVars
  <2> QED
    BY Zenon, <1>1, <1>2, <2>1
<1>8. CASE ResourceEvent \/ UNCHANGED vars
  BY Zenon, <1>1, <1>8 DEF ResourceEvent, vars, clusterVars, storeVars
<1>9. CASE Crash
  BY <1>9 DEF Crash
<1> QED
  BY Zenon, <1>5, <1>6, <1>7, <1>8, <1>9 DEF Next

-----------------------------------------------------------------------------
\* What the statuses say

\* SetInstallStatus sets the phase of the installation.
LEMMA SetInstallFields ==
  ASSUME NEW st \in Statuses, NEW p
  PROVE  LET n == SetInstallStatus(st, p)
         IN n.checksum = st.checksum /\ n.prereqs = st.prereqs /\ n.installed = p
BY DEF SetInstallStatus, Statuses

\* SetPrereqAndInstallStatuses sets the phase of the prereqs, and never lets the
\* installation succeed.
LEMMA SetPrereqsFields ==
  ASSUME NEW st \in Statuses, NEW p \in {"Succeeded", "Pending", "Failed"}
  PROVE  LET n == SetPrereqAndInstallStatuses(st, p)
         IN n.checksum = st.checksum /\ n.prereqs = p /\ n.installed \in {"Pending", "Failed"}
BY DEF SetPrereqAndInstallStatuses, Statuses

\* A new install cycle has everything pending.
LEMMA NewCycleFields ==
  ASSUME NEW st \in Statuses, now \in Nat
  PROVE  LET n == NewCycle(st)
         IN n.checksum = st.checksum /\ n.prereqs = "Pending" /\ n.installed = "Pending"
<1> DEFINE c == ClearStatus([st EXCEPT !.startTime = now])
<1>1. c \in Statuses /\ c.checksum = st.checksum
  BY DEF ClearStatus, Statuses, Phases
<1> HIDE DEF c
<1>2. SetPrereqAndInstallStatuses(c, "Pending").checksum = c.checksum
      /\ SetPrereqAndInstallStatuses(c, "Pending").prereqs = "Pending"
      /\ SetPrereqAndInstallStatuses(c, "Pending").installed = "Pending"
  BY <1>1 DEF SetPrereqAndInstallStatuses, Statuses
<1> QED
  BY <1>1, <1>2 DEF NewCycle, c

\* What a status with a phase of workflow <<step, c>> says.
Says(st, step, phase, n) ==
  /\ n.checksum = st.checksum
  /\ step = "prereqs" =>
       /\ n.installed \in {"Pending", "Failed"}
       /\ n.prereqs \in {"Pending", "Failed", "Succeeded"}
       /\ n.prereqs = "Succeeded" => phase = "Succeeded"
  /\ step = "install" =>
       /\ n.prereqs = st.prereqs
       /\ n.installed \in {"Pending", "Failed", "Succeeded"}
       /\ n.installed = "Succeeded" => phase = "Succeeded"
  /\ step = "delete" =>
       /\ n.prereqs = st.prereqs
       /\ n.installed \in {"Deleting", "DeleteFailed", "DeleteSucceeded"}
       /\ n.installed = "DeleteSucceeded" => phase = "Succeeded"

\* The phase of a workflow that runs or has ended, taken over into a status.
LEMMA PhaseFields ==
  ASSUME NEW st \in Statuses, NEW step \in Steps, NEW phase \in {"Running", "Succeeded", "Failed"}
  PROVE  LET p == ConvertWorkflowPhaseToAddonPhase(step, phase)
         IN p # "" /\ Says(st, step, phase, SetStatusByLifecyleStep(st, step, p))
<1> DEFINE p == ConvertWorkflowPhaseToAddonPhase(step, phase)
           n == SetStatusByLifecyleStep(st, step, p)
<1> SUFFICES p # "" /\ Says(st, step, phase, n)
  OBVIOUS
<1> HIDE DEF p, n
<1>1. CASE step = "prereqs"
  <2>1. p \in {"Succeeded", "Pending", "Failed"} /\ (p = "Succeeded" => phase = "Succeeded")
    BY <1>1 DEF p, ConvertWorkflowPhaseToAddonPhase
  <2>2. n = SetPrereqAndInstallStatuses(st, p)
    BY <1>1 DEF n, SetStatusByLifecyleStep
  <2> QED
    BY <1>1, <2>1, <2>2, SetPrereqsFields DEF Says
<1>2. CASE step = "install"
  <2>1. p \in {"Succeeded", "Pending", "Failed"} /\ (p = "Succeeded" => phase = "Succeeded")
    BY <1>2 DEF p, ConvertWorkflowPhaseToAddonPhase
  <2>2. n = SetInstallStatus(st, p)
    BY <1>2 DEF n, SetStatusByLifecyleStep
  <2> QED
    BY <1>2, <2>1, <2>2, SetInstallFields DEF Says
<1>3. CASE step = "delete"
  <2>1. p \in {"Deleting", "DeleteSucceeded", "DeleteFailed"}
        /\ (p = "DeleteSucceeded" => phase = "Succeeded")
    BY <1>3 DEF p, ConvertWorkflowPhaseToAddonPhase
  <2>2. n = SetInstallStatus(st, p)
    BY <1>3, <2>1 DEF n, SetStatusByLifecyleStep
  <2> QED
    BY <1>3, <2>1, <2>2, SetInstallFields DEF Says
<1> QED
  BY <1>1, <1>2, <1>3 DEF Steps

\* Synced takes over the phase that a Get of the workflow shows, if it is one.
LEMMA SyncedFields ==
  ASSUME WorkflowsTypeOK, NEW st \in Statuses, NEW step \in Steps, NEW k \in Keys,
         NEW phase \in Seen(k)
  PROVE  Synced(st, step, phase) = st \/ Says(st, step, wf[k].phase, Synced(st, step, phase))
<1>1. phase = "absent" \/ phase = wf[k].phase
  BY DEF Seen
<1>2. phase \in WorkflowPhases
  BY <1>1 DEF WorkflowsTypeOK, Workflows, WorkflowPhases
<1>3. CASE phase \in {"absent", "new"}
  <2>1. ConvertWorkflowPhaseToAddonPhase(step, phase) = ""
    BY <1>3 DEF ConvertWorkflowPhaseToAddonPhase
  <2> QED
    BY <2>1 DEF Synced
<1>4. CASE phase \in {"Running", "Succeeded", "Failed"}
  BY <1>1, <1>4, PhaseFields DEF Synced
<1> QED
  BY <1>2, <1>3, <1>4 DEF WorkflowPhases

\* The workflow of the step has succeeded, or there is none to run.
Done(step) == step \notin Templates[me.spec] \/ wf[Key(me, step)].phase = "Succeeded"

\* What the status st says, me.status said already, or runWorkflow(step) found out.
Supported(step, st) ==
  /\ st.checksum = me.status.checksum
  /\ Succeeded(st.prereqs) => Succeeded(me.status.prereqs) \/ (step = "prereqs" /\ Done(step))
  /\ st.installed = "Succeeded" =>
       me.status.installed = "Succeeded" \/ (step = "install" /\ Done(step))
  /\ st.installed = "DeleteSucceeded" => me.status.installed = "DeleteSucceeded"

\* Whatever runWorkflow leaves is supported by what it found.
LEMMA ResultSupported ==
  ASSUME WorkflowsTypeOK, me \in Addons, NEW step \in {"prereqs", "install"}, NEW st,
         \/ Result(step, st)
         \/ st = SetStatusByLifecyleStep(me.status, step, "Failed")
  PROVE  Supported(step, st)
<1>1. me.status \in Statuses /\ step \in Steps
  BY DEF Addons, Steps
<1>2. ASSUME NEW phase, Says(me.status, step, phase, st), phase = "Succeeded" => Done(step)
      PROVE  Supported(step, st)
  BY <1>2 DEF Says, Supported, Succeeded
<1>3. CASE st = me.status
  BY <1>3 DEF Supported
<1>4. ASSUME NEW p \in {"Succeeded", "Failed"}, st = SetStatusByLifecyleStep(me.status, step, p),
             p = "Succeeded" => Done(step)
      PROVE  Supported(step, st)
  <2>1. ConvertWorkflowPhaseToAddonPhase(step, p) = p
    BY <1>4 DEF ConvertWorkflowPhaseToAddonPhase
  <2>2. Says(me.status, step, p, st)
    BY <1>1, <1>4, <2>1, PhaseFields
  <2> QED
    BY <1>2, <1>4, <2>2
<1>5. ASSUME NEW phase \in Seen(Key(me, step)), st = Synced(me.status, step, phase)
      PROVE  Supported(step, st)
  <2>1. Key(me, step) \in Keys
    BY Zenon, <1>1, KeyType
  <2>2. st = me.status \/ Says(me.status, step, wf[Key(me, step)].phase, st)
    BY Zenon, <1>1, <1>5, <2>1, SyncedFields
  <2> QED
    BY Zenon, <1>2, <1>3, <2>2 DEF Done
<1>6. step \notin Templates[me.spec] => Done(step)
  BY Zenon DEF Done
<1> QED
  BY Zenon, <1>3, <1>4, <1>5, <1>6 DEF Result

\* A failure claims nothing.
LEMMA FailedSupported ==
  ASSUME NEW step, NEW r \in Statuses, Supported(step, r)
  PROVE  Supported(step, SetInstallStatus(r, "Failed"))
BY SetInstallFields DEF Supported

\* Where an installation goes on, and with which status.
LEMMA RunningSupported ==
  ASSUME WorkflowsTypeOK, me \in Addons, NEW l, NEW st, GoesOnRunning(l, st)
  PROVE  \E step \in {"prereqs", "install"} :
           /\ pc[self] \in {step, Submitted[step]}
           /\ Supported(step, st)
           /\ \/ l = "lock"
              \/ l = Submitted[step] /\ st = me.status
              \/ step = "prereqs" /\ l = "install" /\ Succeeded(st.prereqs)
<1>1. PICK step \in {"prereqs", "install"} :
        /\ pc[self] \in {step, Submitted[step]}
        /\ \/ l = Submitted[step] /\ st = me.status
           \/ l = "lock" /\ \/ st = SetStatusByLifecyleStep(me.status, step, "Failed")
                            \/ st = SetInstallStatus(me.status, "Failed")
                            \/ Result(step, st)
                            \/ \E r : Result(step, r) /\ st = SetInstallStatus(r, "Failed")
           \/ step = "prereqs" /\ l = "install" /\ Result(step, st) /\ Succeeded(st.prereqs)
  BY Zenon DEF GoesOnRunning
<1>2. me.status \in Statuses /\ step \in Steps
  BY DEF Addons, Steps
<1>3. Result(step, me.status)
  BY Zenon DEF Result
<1>4. ASSUME NEW r, Result(step, r)
      PROVE  Supported(step, r) /\ Supported(step, SetInstallStatus(r, "Failed"))
  BY Zenon, <1>2, <1>4, ResultSupported, ResultType, FailedSupported
<1>5. Supported(step, SetStatusByLifecyleStep(me.status, step, "Failed"))
  BY Zenon, ResultSupported
<1> QED
  BY Zenon, <1>1, <1>3, <1>4, <1>5

=============================================================================
