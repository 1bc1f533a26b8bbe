---------------------------- MODULE AddonManager ----------------------------
(***************************************************************************)
(* The manager process with its two controllers, the cluster around it,    *)
(* and what the whole promises about one addon.                            *)
(***************************************************************************)
EXTENDS AddonController, WorkflowController

VARIABLE crashes  \* restarts of the manager so far

vars == <<clusterVars, procVars, lock, vcache, crashes>>

Init ==
  /\ api = NoAddon
  /\ watch = << >>
  /\ cache = NoAddon
  /\ fresh = {}
  /\ queue = FALSE
  /\ wf = [k \in Keys |-> NoWorkflow]
  /\ wfCache = wf
  /\ wfQueue = {}
  /\ now = 1
  /\ uids = 0
  /\ edits = 0
  /\ faults = 0
  /\ ran = {}
  /\ pc = [p \in Procs |-> "idle"]
  /\ inst = [p \in Procs |-> NoAddon]
  /\ requeue = FALSE
  /\ wkey = NoKey
  /\ tries = [p \in Procs |-> 0]
  /\ lock = "free"
  /\ vcache = [v \in Versions |-> "none"]
  /\ crashes = 0

\* The process stops anywhere and starts again: the informers list what exists
\* and enqueue it, and all memory is lost.
Crash ==
  /\ crashes < MaxCrashes
  /\ crashes' = crashes + 1
  /\ cache' = api
  /\ watch' = << >>
  /\ fresh' = {}
  /\ queue' = (api # NoAddon)
  /\ wfCache' = wf
  /\ wfQueue' = {k \in Keys : wf[k] # NoWorkflow}
  /\ pc' = [p \in Procs |-> "idle"]
  /\ inst' = [p \in Procs |-> NoAddon]
  /\ requeue' = FALSE
  /\ wkey' = NoKey
  /\ tries' = [p \in Procs |-> 0]
  /\ lock' = "free"
  /\ vcache' = [v \in Versions |-> "none"]
  /\ UNCHANGED <<api, wf, ran, envVars>>

\* Steps of the controllers.
AddonStep == (Reconcile \/ UpdateStatus(self)) /\ UNCHANGED crashes

WorkflowStep ==
  /\ \/ \E k \in Keys : WfIgnore(k) \/ WfReconcile(k)
     \/ UpdateStatus("workflow")
  /\ UNCHANGED crashes

\* Steps of the cluster that change nothing in the manager's memory but its
\* informers and queues.
Environment ==
  /\ \/ Deliver
     \/ \E k \in Keys : WfDeliver(k) \/ WfStart(k) \/ WfFinish(k) \/ GarbageCollect(k)
     \/ \E s \in NewSpecs : Create(s)
     \/ \E s \in Specs : EditSpec(s)
     \/ DeleteAddon
     \/ Tick
  /\ UNCHANGED <<procVars, lock, vcache, crashes>>

Next ==
  \/ AddonStep
  \/ WorkflowStep
  \/ Environment
  \/ ResourceEvent /\ UNCHANGED crashes
  \/ Crash

Spec == Init /\ [][Next]_vars

-----------------------------------------------------------------------------

Labels == {"idle", "listwf", "finalizer", "prereqs", "prereqsSubmitted", "install",
           "installSubmitted", "delete", "deleteSubmitted", "unfinalize",
           "lock", "retry", "put", "record"}

StoreTypeOK ==
  /\ api \in MaybeAddon
  /\ watch \in Seq(MaybeAddon)
  /\ cache \in MaybeAddon
  /\ fresh \subseteq Procs

WorkflowsTypeOK ==
  /\ wf \in [Keys -> Workflows]
  /\ wfCache \in [Keys -> Workflows]
  /\ wfQueue \subseteq Keys
  /\ ran \subseteq Nat \X Steps \X Checksums

CountersTypeOK ==
  now \in Nat /\ uids \in Nat /\ edits \in Nat /\ faults \in Nat /\ crashes \in Nat

WorkersTypeOK ==
  /\ pc \in [Procs -> Labels]
  /\ inst \in [Procs -> MaybeAddon]
  /\ wkey \in Keys \cup {NoKey}
  /\ tries \in [Procs -> Nat]

MemoryTypeOK ==
  /\ lock \in Procs \cup {"free"}
  /\ vcache \in [Versions -> Phases \cup {"none"}]

FlagsTypeOK == queue \in BOOLEAN /\ requeue \in BOOLEAN

\* Every variable of the manager and of the cluster has its type; a workflow's
\* phase, in particular, is never taken over as a phase of the addon without
\* conversion.
TypeOK ==
  /\ StoreTypeOK
  /\ WorkflowsTypeOK
  /\ CountersTypeOK
  /\ WorkersTypeOK
  /\ MemoryTypeOK
  /\ FlagsTypeOK

-----------------------------------------------------------------------------
\* Safety

\* The race guard of UpdateStatus (addon_update.go), together with the API
\* server's optimistic concurrency, does what it is there for: whatever the
\* order of the two controllers' reads and writes, a terminal status is never
\* replaced by a running one in the same install cycle.
TerminalNotRegressed ==
  [][/\ api # NoAddon /\ api' # NoAddon
     /\ api'.uid = api.uid
     /\ api'.status.checksum = api.status.checksum
     /\ Completed(api.status.installed)
     => ~Running(api'.status.installed)]_vars

\* Workflow k is submitted in this step.
Submits(k) == wf[k] = NoWorkflow /\ wf'[k] # NoWorkflow

\* processAddon sets the finalizer before it runs anything, so that an addon
\* whose workflows may have deployed something cannot vanish without its delete
\* workflow: a prereqs or install workflow is submitted only while the addon it
\* is for is in the API with its finalizer, even if the pass began with a stale
\* copy or the user deletes the addon meanwhile.
NoWorkflowWithoutFinalizer ==
  [][\A k \in Keys : k[1] # "delete" /\ Submits(k) =>
       api # NoAddon /\ api.finalizer /\ api.uid = wf'[k].owner]_vars

\* Finalize holds the finalizer until a delete workflow of this addon has
\* succeeded, whichever controller saw that and however stale its copy was.
GoneMeansDeleted ==
  [][api # NoAddon /\ api.finalizer /\ api' = NoAddon =>
       \/ "delete" \notin Templates[api.spec]
       \/ \E c \in Checksums : <<api.uid, "delete", c>> \in ran]_vars

\* Workflow <<step, c>> ran to its end for the addon with this uid and spec, or
\* there was nothing to run.
Ran(uid, spec, step) == step \notin Templates[spec] \/ <<uid, step, Checksum[spec]>> \in ran

\* executePrereqAndInstall submits the install workflow of a spec only after the
\* prereqs workflow of the same spec has succeeded.
PrereqsBeforeInstall ==
  [][\A k \in Keys : k[1] = "install" /\ Submits(k) =>
       Ran(wf'[k].owner, inst[self].spec, "prereqs")]_vars

\* A pass that is repeated (after an error, a restart between Install and the
\* update of the status, a lost answer) finds by its name the workflow that the
\* pass before it submitted: while the spec stays as it is, no step of the
\* installation that has succeeded is started again.
NoSecondInstallation ==
  [][\A k \in Keys :
       k[1] # "delete" /\ wf[k].phase # "new" /\ wf'[k].phase = "new" =>
         <<wf'[k].owner, k[1], k[2]>> \notin ran]_vars

\* "Succeeded Used to indicate that all of application's components have already
\* been deployed" (addon_types.go): an addon shown as Succeeded for its present
\* spec has had the workflows of that spec succeed.
SucceededMeansDeployed ==
  api # NoAddon /\ api.status.installed = "Succeeded"
                /\ api.status.checksum = Checksum[api.spec] =>
    Ran(api.uid, api.spec, "prereqs") /\ Ran(api.uid, api.spec, "install")

\* The manager has nothing to do for the addon.
Quiet == watch = << >> /\ ~queue /\ \A p \in Procs : pc[p] = "idle"

\* Other addons decide whether their dependencies are installed by the version
\* cache, which UpdateStatus writes after the API, and which a restart empties:
\* when the manager is quiet, the entry for the addon's package version is the
\* status in the API.
VersionCacheFollowsStatus ==
  Quiet /\ api # NoAddon /\ ~api.deleting =>
    vcache[PkgVersion[api.spec]] = api.status.installed

\* "Verify addon remains in DeleteFailed state after delete workflow fails"
\* (addon_controller_test.go): when the manager is quiet and has heard of all
\* workflows, an addon whose delete workflow has failed shows it.  Of the two
\* controllers only the workflow controller writes DeleteFailed, and only if the
\* status it finds is not terminal.
DeleteFailureShown ==
  /\ Quiet /\ wfQueue = {} /\ wfCache = wf
  /\ api # NoAddon /\ wf[<<"delete", Checksum[api.spec]>>].phase = "Failed"
  => api.status.installed = "DeleteFailed"

-----------------------------------------------------------------------------
\* What the safety properties rest on

\* The versions of the addon that a Get may return now or later.
Copies == {cache} \cup {watch[i] : i \in 1..Len(watch)}

\* A version that processAddon would install without setting the finalizer first.
Claims(o) == o # NoAddon /\ o.finalizer /\ ~o.deleting

\* The addon of which o is a version exists and has its finalizer.
Held(o) == api # NoAddon /\ api.finalizer /\ api.uid = o.uid

\* The informer's copy lags behind the API server but ends with what it has, and
\* no process has read the stored version while the informer lags.  However old
\* a copy is, if it has the finalizer and is not being deleted then the addon is
\* still held: only the controller takes the finalizer off, after it has seen
\* the deletion.
InformerInv ==
  /\ IF watch = << >> THEN cache = api ELSE watch[Len(watch)] = api
  /\ fresh # {} => watch = << >>
  /\ \A o \in Copies : Claims(o) => Held(o)

\* What p, by its label, knows of the stored addon as long as no version was
\* stored after p's last Get.
Knows(p) ==
  /\ pc[p] = "put" => api # NoAddon /\ ~RaceGuard(api, inst[p])
  /\ pc[p] = "finalizer" => api # NoAddon /\ api.uid = inst[p].uid
  /\ pc[p] \in {"delete", "deleteSubmitted", "unfinalize"} => api # NoAddon /\ api.deleting

\* Labels of UpdateStatus, and labels at which the workflows of an installation
\* are still to be submitted.
Updating == {"lock", "retry", "put", "record"}
Installing == {"prereqs", "prereqsSubmitted", "install"}

\* The workers' copies.  Where the addon controller submits the workflows of an
\* installation the addon is held, even if the copy is old.
WorkersInv ==
  /\ pc["workflow"] \in Updating \cup {"idle"}
  /\ pc["workflow"] # "idle" => wkey \in Keys
  /\ \A p \in Procs : pc[p] # "idle" => inst[p] # NoAddon
  /\ \A p \in fresh : Knows(p)
  /\ pc[self] \in Installing => Held(me)

\* The inductive invariant: copies that are stale, in the informer or in the
\* hands of a controller, are stale in harmless ways only.
StaleCopiesHarmless == TypeOK /\ InformerInv /\ WorkersInv

-----------------------------------------------------------------------------
\* What all this implements

\* The stage of life in which the API shows the addon.
Stage ==
  IF api = NoAddon THEN "absent"
  ELSE IF api.deleting THEN "leaving"
  ELSE IF api.finalizer THEN "held" ELSE "present"

\* The install cycle, and how a user reads its status.
Cycle == IF api = NoAddon THEN "" ELSE api.status.checksum

Outcome ==
  IF api = NoAddon THEN "open"
  ELSE IF Completed(api.status.installed) THEN "done"
  ELSE IF Running(api.status.installed) THEN "running" ELSE "open"

\* The workflows of installations, and those that exist.
Installations == {k \in Keys : k[1] # "delete"}

Deploying == {<<k, wf[k].owner>> : k \in {j \in Installations : wf[j] # NoWorkflow}}

Life == INSTANCE AddonLife
          WITH Deployments <- Installations, Cycles <- Checksums \cup {""},
               stage <- Stage, life <- uids, cycle <- Cycle, outcome <- Outcome,
               deploying <- Deploying

\* The two controllers, the updater they share, the informers, failures and
\* restarts together implement AddonLife: what the API shows of the addon and of
\* its workflows changes only in the ways that AddonLife allows.
ImplementsLife == Life!Spec

-----------------------------------------------------------------------------
\* Liveness

\* The workers, the informers and Argo keep working; sync.Mutex does not starve
\* a waiter.  Nothing is assumed of the user, the clock, failures and restarts.
Fairness ==
  /\ WF_vars(AddonStep)
  /\ SF_vars(UpdateStatusLock(self) /\ UNCHANGED crashes)
  /\ WF_vars(WorkflowStep)
  /\ SF_vars(UpdateStatusLock("workflow") /\ UNCHANGED crashes)
  /\ WF_vars(Deliver /\ Environment)
  /\ \A k \in Keys : WF_vars((WfDeliver(k) \/ WfStart(k) \/ WfFinish(k)) /\ Environment)

FairSpec == Spec /\ Fairness

\* An addon that is valid and left alone is brought to a terminal status for its
\* spec: execAddon returns every error of processAddon and of UpdateStatus, so
\* that the pass is repeated, whatever calls fail and wherever the manager
\* restarts.
InstallEnds ==
  <>[](api # NoAddon /\ ~api.deleting =>
         Completed(api.status.installed) /\ api.status.checksum = Checksum[api.spec])

\* A deleted addon goes, unless its delete workflow fails: Finalize, which does
\* not wait for the workflow, is called again once the workflow controller has
\* written the workflow's end into the status.
DeletionEnds ==
  (api # NoAddon /\ api.deleting) ~>
    (api = NoAddon \/ \E c \in Checksums : wf[<<"delete", c>>].phase = "Failed")

=============================================================================
