-------------------------- MODULE AddonController ---------------------------
(***************************************************************************)
(* AddonReconciler (controllers/addon_controller.go): one worker that      *)
(* takes the addon from its queue, reads it from the informer's copy and   *)
(* installs or finalizes it.  A pass is cut into steps at the calls to the *)
(* API server and to Argo; what it computes between two calls belongs to   *)
(* the step before.                                                        *)
(*                                                                         *)
(*   idle -> listwf -> UpdateStatus                     spec changed       *)
(*   idle -> finalizer -> prereqs -> prereqsSubmitted                      *)
(*        -> install -> installSubmitted -> UpdateStatus                   *)
(*   idle -> delete -> deleteSubmitted -> unfinalize    being deleted      *)
(***************************************************************************)
EXTENDS StatusUpdater

CONSTANT ValidationOutcomes  \* what addonValidator.Validate may answer

ASSUME ValidationAssumption ==
  ValidationOutcomes \subseteq {"valid", "depPending", "invalid", "panic"}

self == "addon"
me == inst[self]

\* Where the worker is once the workflow of a step is submitted.
Submitted == [prereqs |-> "prereqsSubmitted", install |-> "installSubmitted",
              delete |-> "deleteSubmitted"]

Key(o, step) == <<step, Checksum[o.spec]>>

\* Goes on at label l with o as its copy of the addon.
Goto(l, o) ==
  /\ pc' = [pc EXCEPT ![self] = l]
  /\ inst' = [inst EXCEPT ![self] = o]
  /\ UNCHANGED <<requeue, wkey, tries>>

\* processAddon returns, and execAddon calls UpdateStatus with the copy whose
\* status is st.
Update(o, st, again) ==
  /\ pc' = [pc EXCEPT ![self] = "lock"]
  /\ inst' = [inst EXCEPT ![self] = [o EXCEPT !.status = st]]
  /\ requeue' = again
  /\ UNCHANGED <<wkey, tries>>

\* The end of processAddon: the deployed resources are looked up.
Observe(o, st) ==
  \/ Update(o, st, Running(st.installed)) /\ UNCHANGED faults
  \/ Fault("observe") /\ Update(o, SetInstallStatus(st, "Failed"), TRUE)

IsExpired(startTime) == now - startTime >= TTL

-----------------------------------------------------------------------------
\* A pass begins: Get, then what needs no call

\* Takes the addon from the queue.
Begin ==
  /\ pc[self] = "idle"
  /\ queue
  /\ queue' = FALSE
  /\ UNCHANGED <<api, watch, cache, wfVars, envVars>>

BeginWith(deleting) == Begin /\ cache # NoAddon /\ cache.deleting = deleting /\ Get(self)

ReconcileGone ==
  /\ Begin
  /\ cache = NoAddon
  /\ RemoveFromCache
  /\ UNCHANGED <<fresh, procVars>>

MarkDeleting ==
  /\ BeginWith(TRUE)
  /\ ~Deleting(cache.status.installed)
  /\ Update(cache, SetInstallStatus(cache.status, "Deleting"), FALSE)
  /\ UNCHANGED <<lock, vcache>>

\* Finalize, up to the submission of the delete workflow.  With no delete
\* template, or after a delete workflow that succeeded, there is nothing to
\* run; after one that failed nothing is done.
Finalize ==
  /\ BeginWith(TRUE)
  /\ Deleting(cache.status.installed)
  /\ LET runs == "delete" \in Templates[cache.spec]
         phase == cache.status.installed
     IN \/ /\ ~runs \/ phase = "DeleteSucceeded"
           /\ RemoveVersion(PkgVersion[cache.spec])
           /\ Goto("unfinalize", cache)
        \/ /\ runs /\ phase = "DeleteFailed"
           /\ RemoveVersion(PkgVersion[cache.spec])
           /\ UNCHANGED procVars
        \/ /\ runs /\ phase = "Deleting"
           /\ Goto("delete", cache)
           /\ UNCHANGED vcache
  /\ UNCHANGED lock

ChecksumChanged == cache.status.checksum # Checksum[cache.spec]

ProcessChanged ==
  /\ BeginWith(FALSE)
  /\ ChecksumChanged
  /\ Goto("listwf", [cache EXCEPT !.status.checksum = Checksum[cache.spec]])
  /\ UNCHANGED <<lock, vcache>>

\* Mutant: nothing at all is done for a completed addon.
ProcessCompletedSkips ==
  /\ BeginWith(FALSE)
  /\ ~ChecksumChanged
  /\ Completed(cache.status.installed)
  /\ UNCHANGED <<procVars, lock, vcache>>

ProcessCompleted ==
  /\ BeginWith(FALSE)
  /\ ~ChecksumChanged
  /\ Completed(cache.status.installed)
  /\ Update(cache, cache.status, FALSE)
  /\ UNCHANGED <<lock, vcache>>

\* Validate.  "depPending" is the answer ErrDepPending; "invalid" is any other
\* error, ErrDepNotInstalled included: the same status, and another pass.  A
\* panic ends the pass in execAddon's recover, with an empty Result, no error and
\* no status update.
ProcessValidate(outcome) ==
  /\ BeginWith(FALSE)
  /\ ~ChecksumChanged
  /\ ~Completed(cache.status.installed)
  /\ \/ outcome = "valid" /\ Goto(IF cache.finalizer THEN "prereqs" ELSE "finalizer", cache)
     \/ outcome = "depPending" /\ Update(cache, SetInstallStatus(cache.status, "Pending"), TRUE)
     \/ /\ outcome = "invalid"
        /\ Update(cache, SetInstallStatus(cache.status, "ValidationFailed"), TRUE)
     \/ outcome = "panic" /\ UNCHANGED procVars
  /\ UNCHANGED <<lock, vcache>>

-----------------------------------------------------------------------------
\* Installation

\* Mutant: the status of the last install cycle is not cleared.
DeleteOldWorkflowsOnly ==
  /\ pc[self] = "listwf"
  /\ wf' = [k \in Keys |-> NoWorkflow]
  /\ Update(me, SetInstallStatus([me.status EXCEPT !.startTime = now], "Pending"), TRUE)
  /\ UNCHANGED <<storeVars, cache, queue, wfCache, wfQueue, ran, envVars, lock, vcache>>

\* deleteOldWorkflows, then the status of a new install cycle.  When the list
\* cannot be read the pass ends with the new checksum and the old lifecycle.
\* Workflows whose deletion fails stay.
DeleteOldWorkflows ==
  /\ pc[self] = "listwf"
  /\ \/ /\ Fault("list")
        /\ Update(me, me.status, TRUE)
        /\ UNCHANGED wf
     \/ /\ \E kept \in SUBSET {k \in Keys : wf[k] # NoWorkflow} :
             /\ \/ kept = {} /\ UNCHANGED faults
                \/ kept # {} /\ Fault("delwf")
             /\ wf' = [k \in Keys |-> IF k \in kept THEN wf[k] ELSE NoWorkflow]
        /\ Update(me, SetPrereqAndInstallStatuses(
                        ClearStatus([me.status EXCEPT !.startTime = now]), "Pending"), TRUE)
  /\ UNCHANGED <<storeVars, cache, queue, wfCache, wfQueue, ran, now, uids, edits, lock, vcache>>

\* Mutant: an update that is refused is taken for done.
SetFinalizerUnchecked ==
  /\ pc[self] = "finalizer"
  /\ \/ self \in fresh /\ Write([api EXCEPT !.finalizer = TRUE])
     \/ self \notin fresh /\ UNCHANGED storeVars
  /\ Goto("prereqs", [me EXCEPT !.finalizer = TRUE])
  /\ UNCHANGED <<cache, queue, wfVars, envVars, lock, vcache>>

\* Mutant: its failure is no reason for another pass.
SetFinalizerGivesUp ==
  /\ pc[self] = "finalizer"
  /\ \/ /\ self \in fresh
        /\ Write([api EXCEPT !.finalizer = TRUE])
        /\ Goto("prereqs", [me EXCEPT !.finalizer = TRUE])
        /\ UNCHANGED faults
     \/ /\ Unanswered(self, [api EXCEPT !.finalizer = TRUE])
        /\ Update(me, me.status, FALSE)
  /\ UNCHANGED <<cache, queue, wfVars, now, uids, edits, lock, vcache>>

\* SetFinalizer: an update of the object, after whose failure the pass ends.
SetFinalizer ==
  /\ pc[self] = "finalizer"
  /\ \/ /\ self \in fresh
        /\ Write([api EXCEPT !.finalizer = TRUE])
        /\ Goto("prereqs", [me EXCEPT !.finalizer = TRUE])
        /\ UNCHANGED faults
     \/ /\ Unanswered(self, [api EXCEPT !.finalizer = TRUE])
        /\ Update(me, me.status, TRUE)
  /\ UNCHANGED <<cache, queue, wfVars, now, uids, edits, lock, vcache>>

\* Mutant: prereqs that have not failed are good enough.
AfterPrereqsNotFailed(o, st) ==
  \/ ~Failed(st.prereqs) /\ Goto("install", [o EXCEPT !.status = st]) /\ UNCHANGED faults
  \/ Failed(st.prereqs) /\ Observe(o, SetInstallStatus(st, "Failed"))

\* executePrereqAndInstall after runWorkflow(Prereqs).
AfterPrereqs(o, st) ==
  \/ Succeeded(st.prereqs) /\ Goto("install", [o EXCEPT !.status = st]) /\ UNCHANGED faults
  \/ Failed(st.prereqs) /\ Observe(o, SetInstallStatus(st, "Failed"))
  \/ ~Completed(st.prereqs) /\ Observe(o, st)

\* runWorkflow returned without an error, with status st.
AfterWorkflow(step, o, st) ==
  \/ step = "prereqs" /\ AfterPrereqs(o, st)
  \/ step = "install" /\ Observe(o, st)

\* Mutant: the workflow is not owned by the addon.
SubmitUnowned(o, step) ==
  LET k == Key(o, step)
  IN wf' = IF wf[k] = NoWorkflow
           THEN [wf EXCEPT ![k] = [phase |-> "new", owner |-> 0]]
           ELSE wf

\* Mutant: a workflow that is over does not count as one that exists.
SubmitAgain(o, step) ==
  LET k == Key(o, step)
  IN wf' = IF wf[k].phase \in {"absent", "Succeeded", "Failed"}
           THEN [wf EXCEPT ![k] = [phase |-> "new", owner |-> o.uid]]
           ELSE wf

\* Install of the workflow: creates it, or finds that its name exists.
Submit(o, step) ==
  LET k == Key(o, step)
  IN wf' = IF wf[k] = NoWorkflow
           THEN [wf EXCEPT ![k] = [phase |-> "new", owner |-> o.uid]]
           ELSE wf

\* Install panics, on a template that Validate accepts although its spec is no map:
\* execAddon recovers, and the pass ends with no error and no status update.
Panic == Fault("panic") /\ Goto("idle", NoAddon) /\ UNCHANGED wf

\* runWorkflow up to the submission, for the steps of an installation.
RunWorkflow(step) ==
  LET st == me.status
      completed == Completed(IF step = "prereqs" THEN st.prereqs ELSE st.installed)
      template == step \in Templates[me.spec]
  IN \/ /\ completed
        /\ AfterWorkflow(step, me, st)
        /\ UNCHANGED wf
     \/ /\ ~completed /\ ~template
        /\ AfterWorkflow(step, me, SetStatusByLifecyleStep(st, step, "Succeeded"))
        /\ UNCHANGED wf
     \/ /\ ~completed /\ template
        /\ \/ Submit(me, step) /\ Goto(Submitted[step], me) /\ UNCHANGED faults
           \/ /\ Fault("create")
              /\ Update(me, SetStatusByLifecyleStep(st, step, "Failed"), TRUE)
              /\ UNCHANGED wf
           \/ Panic

unchangedByRun ==
  <<storeVars, cache, queue, wfCache, wfQueue, ran, now, uids, edits, lock, vcache>>

\* The clock is read before anything is run.
RunPrereqs ==
  /\ pc[self] = "prereqs"
  /\ \/ ~IsExpired(me.status.startTime) /\ RunWorkflow("prereqs")
     \/ /\ IsExpired(me.status.startTime)
        /\ Update(me, SetInstallStatus(me.status, "Failed"), TRUE)
        /\ UNCHANGED <<wf, faults>>
  /\ UNCHANGED unchangedByRun

\* validateSecrets, then the install workflow.
RunInstall ==
  /\ pc[self] = "install"
  /\ \/ RunWorkflow("install")
     \/ /\ Fault("secrets")
        /\ Update(me, SetInstallStatus(me.status, "Failed"), TRUE)
        /\ UNCHANGED wf
  /\ UNCHANGED unchangedByRun

\* The status st after the phase of the submitted workflow is read and copied.
Synced(st, step, phase) ==
  LET p == ConvertWorkflowPhaseToAddonPhase(step, phase)
  IN IF p = "" THEN st ELSE SetStatusByLifecyleStep(st, step, p)

\* The phase a Get of the workflow shows; one that fails, or finds nothing, is
\* ignored.
Seen(k) == {wf[k].phase} \cup (IF "getwf" \in Faults THEN {"absent"} ELSE {})

\* The rest of runWorkflow.
SyncPhase(step) ==
  /\ step # "delete"
  /\ pc[self] = Submitted[step]
  /\ \E phase \in Seen(Key(me, step)) : AfterWorkflow(step, me, Synced(me.status, step, phase))
  /\ UNCHANGED <<wf, unchangedByRun>>

-----------------------------------------------------------------------------
\* Finalization.  It writes no status: a pass that finds the delete workflow
\* still running, or failed, ends, and one that fails is tried again.

RunDelete ==
  /\ pc[self] = "delete"
  /\ \/ /\ Submit(me, "delete")
        /\ Goto(Submitted["delete"], me)
        /\ UNCHANGED <<queue, wfQueue, faults, fresh>>
     \/ /\ Fault("create")
        /\ Return(self, TRUE)
        /\ fresh' = fresh \ {self}
        /\ UNCHANGED wf
     \/ Panic /\ UNCHANGED <<queue, wfQueue, fresh>>
  /\ UNCHANGED <<api, watch, cache, wfCache, ran, now, uids, edits, lock, vcache>>

\* Mutant: the delete workflow is submitted and not waited for.
SyncDeleteAtOnce ==
  /\ pc[self] = Submitted["delete"]
  /\ RemoveVersion(PkgVersion[me.spec])
  /\ Goto("unfinalize", me)
  /\ UNCHANGED <<storeVars, cache, queue, wfVars, envVars, lock>>

SyncDelete ==
  /\ pc[self] = Submitted["delete"]
  /\ RemoveVersion(PkgVersion[me.spec])
  /\ \E phase \in Seen(Key(me, "delete")) :
       \/ /\ Succeeded(Synced(me.status, "delete", phase).installed)
          /\ Goto("unfinalize", me)
          /\ UNCHANGED <<queue, wfQueue, fresh>>
       \/ /\ ~Succeeded(Synced(me.status, "delete", phase).installed)
          /\ Return(self, FALSE)
          /\ fresh' = fresh \ {self}
  /\ UNCHANGED <<api, watch, cache, wf, wfCache, ran, envVars, lock>>

\* The update without the finalizer, after which the API server removes the
\* object.
Unfinalize ==
  /\ pc[self] = "unfinalize"
  /\ \/ self \in fresh /\ Write(NoAddon) /\ Return(self, FALSE) /\ UNCHANGED faults
     \/ Unanswered(self, NoAddon) /\ Return(self, TRUE)
  /\ UNCHANGED <<cache, wf, wfCache, ran, now, uids, edits, lock, vcache>>

-----------------------------------------------------------------------------

\* An event of a resource that carries the addon's name as its label is mapped
\* to a request through the version cache.
ResourceEvent ==
  /\ "event" \in Inputs
  /\ \E v \in Versions : vcache[v] # "none"
  /\ queue' = TRUE
  /\ UNCHANGED <<storeVars, cache, wfVars, envVars, procVars, lock, vcache>>

Reconcile ==
  \/ ReconcileGone
  \/ MarkDeleting
  \/ Finalize
  \/ ProcessChanged
  \/ ProcessCompleted
  \/ \E outcome \in ValidationOutcomes : ProcessValidate(outcome)
  \/ DeleteOldWorkflows
  \/ SetFinalizer
  \/ RunPrereqs
  \/ RunInstall
  \/ \E step \in Steps : SyncPhase(step)
  \/ RunDelete
  \/ SyncDelete
  \/ Unfinalize

=============================================================================
