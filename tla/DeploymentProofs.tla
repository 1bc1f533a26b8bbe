-------------------------- MODULE DeploymentProofs --------------------------
(***************************************************************************)
(* What the API shows of an addon is true: that it is deployed, that its   *)
(* prereqs came first, that it is deleted.  All of this is about an addon  *)
(* whose name is used once (OneLife).                                      *)
(***************************************************************************)
EXTENDS ManagerMoves

\* Where a worker waits for the workflow of a step.
LEMMA SubmittedLabels ==
  /\ Submitted["prereqs"] = "prereqsSubmitted" /\ Submitted["install"] = "installSubmitted"
  /\ Submitted["delete"] = "deleteSubmitted"
BY DEF Submitted

-----------------------------------------------------------------------------
\* Deletion

\* A delete workflow of the addon ran to its end.
Deleted == \E c \in Checksums : <<1, "delete", c>> \in ran

SaysDeleted(o) == o # NoAddon /\ o.status.installed = "DeleteSucceeded" => Deleted

\* No copy of the addon, however it was made, says that it was deleted unless it
\* was; the finalizer is about to be taken off only if it was, or if there is
\* nothing to run for the spec that the worker has, which is the stored one.
DeletionInv ==
  /\ \A o \in Copies : SaysDeleted(o)
  /\ \A p \in Procs : SaysDeleted(inst[p])
  /\ pc[self] \in {"delete", "deleteSubmitted"} => me.status.installed = "Deleting"
  /\ pc[self] = "unfinalize" => "delete" \notin Templates[me.spec] \/ Deleted
  /\ self \in fresh /\ pc[self] \in {"delete", "deleteSubmitted", "unfinalize"} =>
       api.spec = me.spec

\* How the status of the addon controller's copy comes to say that the addon is
\* deleted: it said so before.
LEMMA MovedSaysDeleted ==
  ASSUME StaleCopiesHarmless, AddonMove
  PROVE  \/ Stays(self) \/ Leaves(self)
         \/ /\ pc[self] = "idle" /\ cache \in Addons /\ UNCHANGED <<api, watch, cache>>
            /\ \E l, st : /\ Moved(cache, l, st)
                          /\ BeginsDeletion(l, st) \/ BeginsInstallation(l, st)
                          /\ st.installed = "DeleteSucceeded" =>
                               cache.status.installed = "DeleteSucceeded"
         \/ /\ pc[self] # "idle" /\ me \in Addons
            /\ \E l, st : /\ Moved(me, l, st)
                          /\ \/ GoesOnDeleting(l, st)
                             \/ l \notin {"delete", "deleteSubmitted", "unfinalize"}
                          /\ st.installed = "DeleteSucceeded" =>
                               me.status.installed = "DeleteSucceeded"
<1>1. now \in Nat /\ WorkflowsTypeOK
  BY DEF StaleCopiesHarmless, TypeOK, CountersTypeOK
<1>2. ASSUME cache \in Addons, NEW l, NEW st, BeginsDeletion(l, st) \/ BeginsInstallation(l, st)
      PROVE  st.installed = "DeleteSucceeded" => cache.status.installed = "DeleteSucceeded"
  <2>1. cache.status \in Statuses
    BY <1>2 DEF Addons
  <2>2. [cache.status EXCEPT !.checksum = Checksum[cache.spec]].installed = cache.status.installed
    BY <2>1 DEF Statuses
  <2>3. \A p : SetInstallStatus(cache.status, p).installed = p
    BY <2>1, SetInstallFields
  <2> QED
    BY <1>2, <2>2, <2>3 DEF BeginsDeletion, BeginsInstallation
<1>3. ASSUME me \in Addons, NEW l, NEW st, GoesOnPreparing(l, st)
      PROVE  /\ l \notin {"delete", "deleteSubmitted", "unfinalize"}
             /\ st.installed = "DeleteSucceeded" => me.status.installed = "DeleteSucceeded"
  <2>1. me.status \in Statuses
    BY <1>3 DEF Addons
  <2>2. NewCycle(me.status).installed = "Pending"
    BY <1>1, <2>1, NewCycleFields
  <2> QED
    BY <1>3, <2>2 DEF GoesOnPreparing
<1>4. ASSUME me \in Addons, NEW l, NEW st, GoesOnRunning(l, st)
      PROVE  /\ l \notin {"delete", "deleteSubmitted", "unfinalize"}
             /\ st.installed = "DeleteSucceeded" => me.status.installed = "DeleteSucceeded"
  <2>1. PICK step \in {"prereqs", "install"} :
          Supported(step, st) /\ l \in {"lock", Submitted[step], "install"}
    BY <1>1, <1>4, RunningSupported
  <2>2. Submitted[step] \in {"prereqsSubmitted", "installSubmitted"}
    BY DEF Submitted
  <2> QED
    BY <2>1, <2>2 DEF Supported
<1>5. ASSUME NEW l, NEW st, GoesOnDeleting(l, st)
      PROVE  st = me.status
  BY Zenon, <1>5 DEF GoesOnDeleting
<1> QED
  BY Zenon, <1>2, <1>3, <1>4, <1>5 DEF AddonMove

\* The delete workflow that the worker sees succeed did.
LEMMA SeenDeleted ==
  ASSUME StaleCopiesHarmless, LivesInv, OneLife, me \in Addons, me.status.installed = "Deleting",
         NEW phase \in Seen(Key(me, "delete")),
         Succeeded(Synced(me.status, "delete", phase).installed)
  PROVE  Deleted
<1>1. WorkflowsTypeOK /\ me.status \in Statuses /\ uids \in Nat
  BY DEF StaleCopiesHarmless, TypeOK, CountersTypeOK, Addons
<1> DEFINE k == Key(me, "delete")
<1>2. k \in Keys /\ k[1] = "delete" /\ k[2] \in Checksums
  <2>1. k \in Keys /\ k[1] = "delete"
    BY Zenon, KeyType DEF Steps
  <2> QED
    BY <2>1 DEF Keys
<1>3. phase \in Seen(k)
  OBVIOUS
<1> HIDE DEF k
<1>4. \/ Synced(me.status, "delete", phase) = me.status
      \/ Says(me.status, "delete", wf[k].phase, Synced(me.status, "delete", phase))
  BY Zenon, <1>1, <1>2, <1>3, SyncedFields DEF Steps
<1>5. wf[k].phase = "Succeeded"
  BY <1>4 DEF Says, Succeeded
<1>6. Told(wf[k], k) /\ wf[k] # NoWorkflow
  BY <1>2, <1>5 DEF LivesInv, NoWorkflow
<1> QED
  BY <1>1, <1>2, <1>5, <1>6 DEF Told, Deleted, OneLife

\* The status that the workflow controller writes says that the addon is deleted
\* only if a delete workflow succeeded.
LEMMA ReconcileSaysDeleted ==
  ASSUME StaleCopiesHarmless, LivesInv, OneLife, NEW k \in Keys, WfReconcile(k),
         FromWorkflow(k).installed = "DeleteSucceeded"
  PROVE  Deleted
<1>1. WorkflowsTypeOK /\ uids \in Nat /\ k[1] \in Steps /\ k[2] \in Checksums
  BY DEF StaleCopiesHarmless, TypeOK, CountersTypeOK, Keys
<1>2. cache.status \in Statuses
  BY ReconcileMoves DEF Addons
<1>3. wfCache[k].phase \in {"Running", "Succeeded", "Failed"}
  BY <1>1 DEF WfReconcile, Ignored, WorkflowsTypeOK, Workflows, WorkflowPhases
<1>4. Says(cache.status, k[1], wfCache[k].phase, FromWorkflow(k))
  BY Zenon, <1>1, <1>2, <1>3, PhaseFields DEF FromWorkflow
<1>5. k[1] = "delete" /\ wfCache[k].phase = "Succeeded"
  BY <1>1, <1>4 DEF Says, Steps
<1>6. Told(wfCache[k], k) /\ wfCache[k] # NoWorkflow
  BY <1>5 DEF LivesInv, NoWorkflow
<1> QED
  BY <1>1, <1>5, <1>6 DEF Told, Deleted, OneLife

\* DeletionInv is kept as long as the name of the addon is used once.
LEMMA DeletionStep ==
  ASSUME StaleCopiesHarmless, LivesInv, DeletionInv, OneLife, [Next]_vars
  PROVE  DeletionInv'
<1>1. Deleted => Deleted'
  BY HistoryStep DEF Deleted
<1>2. \A o : SaysDeleted(o) => (o # NoAddon /\ o.status.installed = "DeleteSucceeded" => Deleted')
  BY <1>1 DEF SaysDeleted
<1>3. SaysDeleted(api) /\ SaysDeleted(cache) /\ SaysDeleted(me)
  BY Zenon, CopiesStep DEF DeletionInv, me, self, Procs
<1>4. SaysDeleted(api)'
  <2>1. CASE Born
    <3>1. PICK s \in Specs : api' = [uid |-> uids + 1, spec |-> s, deleting |-> FALSE,
                                     finalizer |-> FALSE, status |-> NewStatus]
      BY <2>1 DEF Born
    <3> QED
      BY <3>1 DEF SaysDeleted, NewStatus
  <2>2. CASE Changed
    <3>1. api \in Addons /\ api # NoAddon
      BY <2>2, ChangedType DEF Changed
    <3>2. CASE Edited \/ Finalized \/ Marked
      <4>1. api'.status = api.status
        BY <3>1, <3>2 DEF Edited, Finalized, Marked, Addons
      <4> QED
        BY <1>1, <1>3, <3>1, <4>1 DEF SaysDeleted
    <3>3. CASE Reported
      <4>1. PICK p \in fresh : pc[p] = "put" /\ api' = [api EXCEPT !.status = inst[p].status]
        BY <3>3 DEF Reported
      <4>2. p \in Procs /\ inst[p] # NoAddon
        BY <4>1 DEF StaleCopiesHarmless, TypeOK, StoreTypeOK, WorkersInv
      <4>3. api'.status = inst[p].status
        BY <3>1, <4>1 DEF Addons
      <4> QED
        BY <1>1, <4>2, <4>3 DEF DeletionInv, SaysDeleted
    <3> QED
      BY <2>2, <3>2, <3>3 DEF Changed
  <2> QED
    BY <1>2, <1>3, <2>1, <2>2, ApiStep DEF Kept, Gone, SaysDeleted
<1>5. \A o \in Copies' : o # NoAddon /\ o.status.installed = "DeleteSucceeded" => Deleted'
  BY <1>2, <1>4, CopiesStep DEF DeletionInv, SaysDeleted
<1>6. SaysDeleted(inst["workflow"])'
  <2>1. ASSUME NEW k \in Keys, WfReconcile(k)
        PROVE  inst'["workflow"].status.installed = "DeleteSucceeded" => Deleted'
    BY <1>1, <2>1, ReconcileMoves, ReconcileSaysDeleted
  <2>2. SaysDeleted(inst["workflow"])
    BY Zenon DEF DeletionInv, Procs
  <2> QED
    BY <1>2, <2>1, <2>2, WorkerMoves DEF WorkflowMove, Stays, Leaves, SaysDeleted
<1> DEFINE Finalizing == {"delete", "deleteSubmitted", "unfinalize"}
           Rest ==
             /\ pc[self] \in {"delete", "deleteSubmitted"} => me.status.installed = "Deleting"
             /\ pc[self] = "unfinalize" => "delete" \notin Templates[me.spec] \/ Deleted
             /\ self \in fresh /\ pc[self] \in Finalizing => api.spec = me.spec
<1>7. Rest
  BY DEF DeletionInv
<1>8. SaysDeleted(me)' /\ Rest'
  <2>1. CASE Stays(self)
    <3>1. me' = me /\ (pc'[self] \in Finalizing => pc'[self] = pc[self])
      BY <2>1 DEF Stays, me, Updating
    <3>2. self \in fresh' /\ pc'[self] \in Finalizing => self \in fresh /\ api' = api
      BY <3>1, FreshStep
    <3> QED
      BY <1>1, <1>2, <1>3, <1>7, <3>1, <3>2 DEF SaysDeleted
  <2>2. CASE Leaves(self)
    BY <2>2 DEF Leaves, SaysDeleted, me
  <2>3. CASE /\ pc[self] = "idle" /\ cache \in Addons /\ UNCHANGED <<api, watch, cache>>
             /\ \E l, st : /\ Moved(cache, l, st)
                           /\ BeginsDeletion(l, st) \/ BeginsInstallation(l, st)
                           /\ st.installed = "DeleteSucceeded" =>
                                cache.status.installed = "DeleteSucceeded"
    <3>1. PICK l, st : /\ Moved(cache, l, st)
                       /\ BeginsDeletion(l, st) \/ BeginsInstallation(l, st)
                       /\ st.installed = "DeleteSucceeded" =>
                            cache.status.installed = "DeleteSucceeded"
      BY <2>3
    <3>2. cache # NoAddon
      BY <2>3, NoAddonAssumption
    <3>3. pc'[self] = l /\ me'.spec = cache.spec /\ me'.status = st
      BY <3>1 DEF Moved, me
    <3>4. SaysDeleted(me)'
      BY <1>1, <1>3, <3>1, <3>2, <3>3 DEF SaysDeleted
    <3>5. self \in fresh' => api'.spec = me'.spec
      <4>1. StaleCopiesHarmless'
        BY Zenon, NextInv
      <4>2. self \in fresh' => cache' = api'
        BY <4>1 DEF StaleCopiesHarmless, InformerInv
      <4> QED
        BY <2>3, <3>3, <4>2
    <3>6. (pc'[self] \in {"delete", "deleteSubmitted"} => me'.status.installed = "Deleting")
          /\ (pc'[self] = "unfinalize" => "delete" \notin Templates[me'.spec] \/ Deleted')
      BY <1>1, <1>3, <3>1, <3>2, <3>3 DEF BeginsDeletion, BeginsInstallation, SaysDeleted
    <3> QED
      BY <3>4, <3>5, <3>6
  <2>4. CASE /\ pc[self] # "idle" /\ me \in Addons
             /\ \E l, st : /\ Moved(me, l, st)
                           /\ GoesOnDeleting(l, st) \/ l \notin Finalizing
                           /\ st.installed = "DeleteSucceeded" =>
                                me.status.installed = "DeleteSucceeded"
    <3>1. PICK l, st : /\ Moved(me, l, st)
                       /\ GoesOnDeleting(l, st) \/ l \notin Finalizing
                       /\ st.installed = "DeleteSucceeded" =>
                            me.status.installed = "DeleteSucceeded"
      BY <2>4
    <3>2. me # NoAddon
      BY <2>4, NoAddonAssumption
    <3>3. pc'[self] = l /\ me'.spec = me.spec /\ me'.status = st
      BY <3>1 DEF Moved, me
    <3>4. SaysDeleted(me)'
      BY <1>1, <1>3, <3>1, <3>2, <3>3 DEF SaysDeleted
    <3>5. CASE l \notin Finalizing
      BY <3>3, <3>4, <3>5
    <3>6. CASE GoesOnDeleting(l, st)
      <4>1. st = me.status /\ pc[self] \in {"delete", "deleteSubmitted"}
            /\ l \in {"deleteSubmitted", "unfinalize"}
        BY <3>6 DEF GoesOnDeleting
      <4>2. me.status.installed = "Deleting"
        BY <1>7, <4>1
      <4>3. l = "unfinalize" => Deleted
        BY <2>4, <3>6, <4>1, <4>2, SeenDeleted DEF GoesOnDeleting
      <4>4. self \in fresh' => api'.spec = me'.spec
        BY <1>7, <3>3, <4>1, FreshStep
      <4> QED
        BY <1>1, <3>3, <3>4, <4>1, <4>2, <4>3, <4>4
    <3> QED
      BY <3>1, <3>5, <3>6
  <2> QED
    BY Zenon, <2>1, <2>2, <2>3, <2>4, WorkerMoves, MovedSaysDeleted
<1> QED
  BY <1>5, <1>6, <1>8 DEF DeletionInv, SaysDeleted, me, self, Procs

\* Nothing is claimed when nothing was created.
LEMMA InitLives ==
  ASSUME Init
  PROVE  LivesInv
<1>1. Copies = {NoAddon}
  BY DEF Init, Copies
<1> QED
  BY <1>1 DEF Init, LivesInv, OfALife, Told

\* LivesInv holds whatever happens.
THEOREM LivesAlways == Spec => []LivesInv
<1>1. Init => LivesInv
  BY InitLives
<1>2. StaleCopiesHarmless /\ LivesInv /\ [Next]_vars => LivesInv'
  BY LivesStep
<1> QED
  BY <1>1, <1>2, StaleCopiesHarmlessAlways, PTL DEF Spec

\* In particular the name is used once if the user may create the addon only once.
LEMMA CreatedOnce ==
  ASSUME MaxCreates <= 1
  PROVE  Spec => []OneLife
<1>1. Init => OneLife
  BY DEF Init, OneLife
<1>2. StaleCopiesHarmless /\ OneLife /\ [Next]_vars => OneLife'
  <2> SUFFICES ASSUME StaleCopiesHarmless, OneLife, [Next]_vars
               PROVE  OneLife'
    OBVIOUS
  <2>1. uids \in Nat /\ MaxCreates \in Nat
    BY ConstantsAssumption DEF StaleCopiesHarmless, TypeOK, CountersTypeOK
  <2>2. uids' = uids \/ (uids < MaxCreates /\ uids' = uids + 1)
    BY ApiStep DEF Kept, Born, Changed, Gone
  <2> QED
    BY <2>1, <2>2 DEF OneLife
<1> QED
  BY <1>1, <1>2, StaleCopiesHarmlessAlways, PTL DEF Spec

\* An addon whose name is used once loses its finalizer only after a delete
\* workflow of it has succeeded, or if its spec has none: Finalize, the delete
\* workflow and the status that the workflow controller writes of it.
THEOREM DeletedBeforeGone == Spec /\ []OneLife => GoneMeansDeleted
<1>1. Init => DeletionInv
  <2>1. Init => Copies = {NoAddon}
    BY DEF Init, Copies
  <2> QED
    BY <2>1 DEF Init, DeletionInv, SaysDeleted, self, Procs
<1>2. StaleCopiesHarmless /\ LivesInv /\ OneLife /\ DeletionInv /\ [Next]_vars => DeletionInv'
  BY DeletionStep
<1>3. StaleCopiesHarmless /\ LivesInv /\ OneLife /\ DeletionInv /\ [Next]_vars =>
        [api # NoAddon /\ api.finalizer /\ api' = NoAddon =>
           \/ "delete" \notin Templates[api.spec]
           \/ \E c \in Checksums : <<api.uid, "delete", c>> \in ran]_vars
  <2>1. SUFFICES ASSUME StaleCopiesHarmless, LivesInv, OneLife, DeletionInv, [Next]_vars,
                        api # NoAddon, api.finalizer, api' = NoAddon
                 PROVE  \/ "delete" \notin Templates[api.spec]
                        \/ \E c \in Checksums : <<api.uid, "delete", c>> \in ran
    OBVIOUS
  <2>2. Gone
    <3>1. ~Changed
      BY <2>1, ChangedType
    <3> QED
      BY <2>1, <3>1, ApiStep DEF Kept, Born
  <2>3. self \in fresh /\ pc[self] = "unfinalize"
    BY <2>1, <2>2 DEF Gone
  <2>4. "delete" \notin Templates[api.spec] \/ Deleted
    BY <2>1, <2>3 DEF DeletionInv
  <2>5. api.uid = 1
    <3>1. OfALife(api) /\ uids \in Nat
      BY <2>1, CopiesStep DEF LivesInv, StaleCopiesHarmless, TypeOK, CountersTypeOK
    <3> QED
      BY <2>1, <3>1 DEF OfALife, OneLife
  <2> QED
    BY <2>4, <2>5 DEF Deleted
<1> QED
  BY <1>1, <1>2, <1>3, StaleCopiesHarmlessAlways, LivesAlways, PTL DEF Spec, GoneMeansDeleted

-----------------------------------------------------------------------------
\* Deployment

\* R orders the checksums so that every edit keeps the checksum or goes forward: the
\* user does not come back to a spec that was replaced.
Forward(R) ==
  /\ \A c \in Checksums : <<c, c>> \notin R
  /\ \A a, b, c \in Checksums : <<a, b>> \in R /\ <<b, c>> \in R => <<a, c>> \in R
  /\ \A s, t \in Specs : <<s, t>> \in Edits =>
       Checksum[s] = Checksum[t] \/ <<Checksum[s], Checksum[t]>> \in R

\* A checksum is no empty string, and specs with one checksum run the same steps:
\* there is no collision of checksums that matters.
ChecksumsTell ==
  /\ "" \notin Checksums
  /\ \A s, t \in Specs : Checksum[s] = Checksum[t] => Templates[s] = Templates[t]

UpTo(R, a, b) == a = b \/ <<a, b>> \in R

\* The workflows of this step ran to their end for every spec with this checksum.
RanFor(c, step) == \A s \in Specs : Checksum[s] = c => Ran(1, s, step)

\* What a version says of its own spec is so.  Where no edit changes the checksum,
\* whatever it says is of its own spec.
Truthful(R, o) ==
  o.status.checksum = Checksum[o.spec] \/ R = {} =>
    /\ Succeeded(o.status.prereqs) => RanFor(Checksum[o.spec], "prereqs")
    /\ o.status.installed = "Succeeded" =>
         RanFor(Checksum[o.spec], "prereqs") /\ RanFor(Checksum[o.spec], "install")

\* A version's status is of its spec or of one before, and its spec is the stored
\* one or one before.
Behind(R, o) ==
  /\ o.status.checksum = "" \/ UpTo(R, o.status.checksum, Checksum[o.spec])
  /\ api # NoAddon => UpTo(R, Checksum[o.spec], Checksum[api.spec])

\* Labels at which the worker has a status of its own spec, and those it reaches
\* only with prereqs that succeeded.
Cycling == {"finalizer", "prereqs", "prereqsSubmitted", "install", "installSubmitted"}
Prepared == {"install", "installSubmitted"}

\* Every version is behind and truthful, except the worker's own while it has the
\* new checksum and still the lifecycle of another one; an install workflow comes after the
\* prereqs of its spec.
VersionsInv(R) == \A o \in Copies : o # NoAddon => Behind(R, o) /\ Truthful(R, o)

HandInv(R, p) ==
  inst[p] # NoAddon =>
    Behind(R, inst[p]) /\ (pc[p] # "listwf" \/ R = {} => Truthful(R, inst[p]))

LabelInv ==
  /\ pc[self] \in Cycling => me.status.checksum = Checksum[me.spec]
  /\ pc[self] \in Prepared => Succeeded(me.status.prereqs)

OrderInv ==
  \A k \in Keys : k[1] = "install" /\ (wf[k] # NoWorkflow \/ wfCache[k] # NoWorkflow) =>
    RanFor(k[2], "prereqs")

DeploymentInv(R) ==
  VersionsInv(R) /\ (\A p \in Procs : HandInv(R, p)) /\ LabelInv /\ OrderInv

-----------------------------------------------------------------------------

\* The order of checksums is transitive and antisymmetric.
LEMMA UpToOrder ==
  ASSUME NEW R, Forward(R), NEW a \in Checksums, NEW b \in Checksums, NEW c \in Checksums,
         UpTo(R, a, b), UpTo(R, b, c)
  PROVE  UpTo(R, a, c) /\ (a = c => b = c)
BY Zenon DEF Forward, UpTo

\* What ran stays so.
LEMMA RanForGrows ==
  ASSUME StaleCopiesHarmless, [Next]_vars
  PROVE  /\ \A c, step : RanFor(c, step) => RanFor(c, step)'
         /\ \A R, o : Truthful(R, o) => Truthful(R, o)'
<1>1. ran \subseteq ran'
  BY HistoryStep
<1>2. \A c, step : RanFor(c, step) => RanFor(c, step)'
  BY <1>1 DEF RanFor, Ran
<1> QED
  BY Zenon, <1>2 DEF Truthful

\* A workflow that succeeded, of a checksum, ran for every spec with it.
LEMMA ToldRan ==
  ASSUME LivesInv, OneLife, uids \in Nat, NEW k \in Keys, NEW w \in {wf[k], wfCache[k]},
         w.phase = "Succeeded"
  PROVE  RanFor(k[2], k[1])
<1>1. Told(w, k) /\ w # NoWorkflow
  BY DEF LivesInv, NoWorkflow
<1>2. <<1, k[1], k[2]>> \in ran
  BY <1>1 DEF Told, OneLife
<1> QED
  BY <1>2 DEF RanFor, Ran

\* A step that is done ran.
LEMMA DoneRan ==
  ASSUME ChecksumsTell, LivesInv, OneLife, uids \in Nat, me \in Addons, NEW step \in Steps,
         Done(step)
  PROVE  RanFor(Checksum[me.spec], step)
<1>1. me.spec \in Specs
  BY DEF Addons
<1>2. CASE step \notin Templates[me.spec]
  BY <1>1, <1>2 DEF ChecksumsTell, RanFor, Ran
<1>3. CASE wf[Key(me, step)].phase = "Succeeded"
  BY <1>3, KeyType, ToldRan
<1> QED
  BY <1>2, <1>3 DEF Done

\* When the addon is created for the first time there is no other version of it.
LEMMA BornFirst ==
  ASSUME StaleCopiesHarmless, LivesInv, OneLife', Born
  PROVE  (\A o \in Copies : o = NoAddon) /\ (\A p \in Procs : inst[p] = NoAddon)
<1>1. uids = 0
  BY DEF Born, OneLife, StaleCopiesHarmless, TypeOK, CountersTypeOK
<1>2. \A o : OfALife(o) => o = NoAddon
  BY <1>1 DEF OfALife
<1> QED
  BY Zenon, <1>2 DEF LivesInv

\* Unless the addon is created, the stored spec goes forward.
LEMMA SpecForward ==
  ASSUME StaleCopiesHarmless, NEW R, Forward(R), [Next]_vars, ~Born, api' # NoAddon
  PROVE  /\ api \in Addons /\ api' \in Addons /\ api # NoAddon
         /\ UpTo(R, Checksum[api.spec], Checksum[api'.spec])
<1>1. StoreTypeOK
  BY DEF StaleCopiesHarmless, TypeOK
<1>3. CASE Kept /\ api' # NoAddon
  BY <1>1, <1>3 DEF Kept, StoreTypeOK, MaybeAddon, UpTo
<1>4. CASE Changed
  <2>1. api \in Addons /\ api' \in Addons /\ api # NoAddon
    BY <1>4, ChangedType DEF Changed
  <2>2. CASE Edited
    <3>1. PICK s \in Specs : <<api.spec, s>> \in Edits /\ api' = [api EXCEPT !.spec = s]
      BY <2>2 DEF Edited
    <3>2. api.spec \in Specs /\ api'.spec = s
      BY <2>1, <3>1 DEF Addons
    <3> QED
      BY Zenon, <2>1, <3>1, <3>2 DEF Forward, UpTo
  <2>3. CASE Finalized \/ Marked \/ Reported
    <3>1. api'.spec = api.spec
      BY <2>1, <2>3 DEF Finalized, Marked, Reported, Addons
    <3> QED
      BY <2>1, <3>1 DEF UpTo
  <2> QED
    BY <1>4, <2>2, <2>3 DEF Changed
<1> QED
  BY Zenon, <1>3, <1>4, ApiStep DEF Gone

\* A version that is behind stays behind.
LEMMA BehindStays ==
  ASSUME StaleCopiesHarmless, NEW R, Forward(R), [Next]_vars, ~Born,
         NEW o \in Addons, Behind(R, o)
  PROVE  Behind(R, o)'
<1>1. CASE api' = NoAddon
  BY <1>1 DEF Behind
<1>2. CASE api' # NoAddon
  <2>1. api \in Addons /\ api' \in Addons /\ api # NoAddon
        /\ UpTo(R, Checksum[api.spec], Checksum[api'.spec])
    BY Zenon, <1>2, SpecForward
  <2>2. Checksum[o.spec] \in Checksums /\ Checksum[api.spec] \in Checksums
        /\ Checksum[api'.spec] \in Checksums
    BY <2>1, ConstantsAssumption DEF Addons
  <2>3. UpTo(R, Checksum[o.spec], Checksum[api'.spec])
    <3>1. UpTo(R, Checksum[o.spec], Checksum[api.spec])
      BY Zenon, <2>1 DEF Behind
    <3>2. \A a, b, c \in Checksums : UpTo(R, a, b) /\ UpTo(R, b, c) => UpTo(R, a, c)
      BY Zenon, UpToOrder
    <3> QED
      BY Zenon, <2>1, <2>2, <3>1, <3>2
  <2> QED
    BY Zenon, <2>3 DEF Behind
<1> QED
  BY <1>1, <1>2

\* The status of a truthful version is truthful with a later spec.
LEMMA TruthForward ==
  ASSUME ChecksumsTell, NEW R, Forward(R), NEW o \in Addons, NEW n \in Addons,
         n.status = o.status, UpTo(R, Checksum[o.spec], Checksum[n.spec]), Behind(R, o), Truthful(R, o)
  PROVE  /\ n.status.checksum = "" \/ UpTo(R, n.status.checksum, Checksum[n.spec])
         /\ Truthful(R, n)
<1>1. Checksum[o.spec] \in Checksums /\ Checksum[n.spec] \in Checksums
      /\ o.status.checksum \in Checksums \cup {""}
  BY ConstantsAssumption DEF Addons, Statuses
<1>2. CASE o.status.checksum = ""
  BY <1>1, <1>2 DEF Truthful, ChecksumsTell, UpTo
<1>3. CASE o.status.checksum \in Checksums /\ o.status.checksum # ""
  <2>1. UpTo(R, o.status.checksum, Checksum[o.spec])
    BY Zenon, <1>3 DEF Behind
  <2>2. /\ UpTo(R, o.status.checksum, Checksum[n.spec])
        /\ o.status.checksum = Checksum[n.spec] => Checksum[o.spec] = Checksum[n.spec]
    <3> DEFINE a == o.status.checksum
               b == Checksum[o.spec]
               c == Checksum[n.spec]
    <3>1. a \in Checksums /\ b \in Checksums /\ c \in Checksums /\ UpTo(R, a, b) /\ UpTo(R, b, c)
      BY Zenon, <1>1, <1>3, <2>1
    <3> SUFFICES UpTo(R, a, c) /\ (a = c => b = c)
      OBVIOUS
    <3> HIDE DEF a, b, c
    <3> QED
      BY <3>1, UpToOrder
  <2> QED
    BY <2>2 DEF Truthful, UpTo
<1> QED
  BY <1>1, <1>2, <1>3

\* The stored version is truthful after every step: a new one claims nothing, an
\* edit takes the spec away from the status, and a status that UpdateStatus writes
\* for the stored spec was made for a spec with its checksum.
LEMMA ApiTruthful ==
  ASSUME StaleCopiesHarmless, LivesInv, OneLife', ChecksumsTell, NEW R, Forward(R),
         DeploymentInv(R), [Next]_vars, api' # NoAddon
  PROVE  Behind(R, api)' /\ Truthful(R, api)'
<1>1. StoreTypeOK /\ WorkersTypeOK /\ WorkersInv
  BY DEF StaleCopiesHarmless, TypeOK
<1>2. CASE Born
  <2>1. PICK s \in Specs : api' = [uid |-> uids + 1, spec |-> s, deleting |-> FALSE,
                                   finalizer |-> FALSE, status |-> NewStatus]
    BY <1>2 DEF Born
  <2>2. api'.status.checksum = "" /\ api'.spec = s
        /\ ~Succeeded(api'.status.prereqs) /\ api'.status.installed # "Succeeded"
    BY <2>1 DEF NewStatus, Succeeded
  <2> QED
    BY <2>2 DEF Behind, Truthful, UpTo
<1>3. CASE ~Born
  <2>1. api \in Addons /\ api' \in Addons /\ api # NoAddon
        /\ UpTo(R, Checksum[api.spec], Checksum[api'.spec])
    BY Zenon, <1>3, SpecForward
  <2>2. \E o \in Addons : /\ api'.status = o.status
                          /\ UpTo(R, Checksum[o.spec], Checksum[api'.spec])
                          /\ Behind(R, o) /\ Truthful(R, o)
    <3>1. Behind(R, api) /\ Truthful(R, api)
      BY Zenon, <2>1, CopiesStep DEF DeploymentInv, VersionsInv
    <3>2. CASE api'.status = api.status
      BY Zenon, <2>1, <3>1, <3>2
    <3>3. CASE Reported
      <4>1. PICK p \in fresh : pc[p] = "put" /\ api' = [api EXCEPT !.status = inst[p].status]
        BY <3>3 DEF Reported
      <4>2. p \in Procs /\ inst[p] # NoAddon /\ inst[p] \in Addons
        BY <1>1, <4>1 DEF StoreTypeOK, WorkersTypeOK, WorkersInv, MaybeAddon
      <4>3. api'.status = inst[p].status /\ api'.spec = api.spec
        BY <2>1, <4>1 DEF Addons
      <4>4. HandInv(R, p)
        BY Zenon, <4>2 DEF DeploymentInv
      <4>5. Behind(R, inst[p]) /\ Truthful(R, inst[p])
        BY <4>1, <4>2, <4>4 DEF HandInv
      <4>6. UpTo(R, Checksum[inst[p].spec], Checksum[api'.spec])
        BY Zenon, <2>1, <4>3, <4>5 DEF Behind
      <4> QED
        BY Zenon, <4>2, <4>3, <4>5, <4>6
    <3>4. CASE Changed /\ (Edited \/ Finalized \/ Marked)
      <4>1. api'.status = api.status
        BY <2>1, <3>4 DEF Edited, Finalized, Marked, Addons
      <4> QED
        BY <3>2, <4>1
    <3> QED
      BY <1>3, <3>2, <3>3, <3>4, ApiStep DEF Kept, Changed, Gone
  <2>3. api'.status.checksum = "" \/ UpTo(R, api'.status.checksum, Checksum[api'.spec])
    BY Zenon, <2>1, <2>2, TruthForward
  <2>4. Behind(R, api)'
    BY Zenon, <2>3 DEF Behind, UpTo
  <2>5. Truthful(R, api)'
    <3>1. PICK o \in Addons : /\ api'.status = o.status
                              /\ UpTo(R, Checksum[o.spec], Checksum[api'.spec])
                              /\ Behind(R, o) /\ Truthful(R, o)
      BY <2>2
    <3>2. \A n \in Addons : n.status = o.status /\ UpTo(R, Checksum[o.spec], Checksum[n.spec])
            => Truthful(R, n) /\ Truthful(R, n)'
      BY Zenon, <3>1, TruthForward, RanForGrows
    <3> QED
      BY <2>1, <3>1, <3>2 DEF Truthful, RanFor, Ran
  <2> QED
    BY <2>4, <2>5
<1> QED
  BY <1>2, <1>3

\* Every version the informer has or will have is behind and truthful after a step:
\* the only new one is the stored one.
LEMMA VersionsStep ==
  ASSUME StaleCopiesHarmless, LivesInv, OneLife', ChecksumsTell, NEW R, Forward(R),
         DeploymentInv(R), [Next]_vars
  PROVE  VersionsInv(R)'
<1> SUFFICES ASSUME NEW o \in Copies', o # NoAddon
             PROVE  Behind(R, o)' /\ Truthful(R, o)'
  BY Zenon DEF VersionsInv
<1>1. CASE o = api'
  BY <1>1, ApiTruthful DEF Behind, Truthful, UpTo, RanFor, Ran
<1>2. CASE o \in Copies
  <2>1. Behind(R, o) /\ Truthful(R, o)
    BY Zenon, <1>2 DEF DeploymentInv, VersionsInv
  <2>2. o \in Addons
    BY <1>2 DEF StaleCopiesHarmless, TypeOK, StoreTypeOK, Copies, MaybeAddon
  <2>3. ~Born \/ o = NoAddon
    BY Zenon, <1>2, BornFirst
  <2> QED
    BY Zenon, <2>1, <2>2, <2>3, BehindStays, RanForGrows
<1> QED
  BY <1>1, <1>2, CopiesStep

\* A worker's copy that has the spec of a version that was behind, and its checksum
\* or that of the spec, is behind.
LEMMA HandBehind ==
  ASSUME StaleCopiesHarmless, NEW R, Forward(R), [Next]_vars, ~Born, NEW p \in Procs,
         NEW o \in Addons, Behind(R, o), inst'[p].spec = o.spec,
         inst'[p].status.checksum \in {o.status.checksum, Checksum[o.spec]}
  PROVE  Behind(R, inst[p])'
<1>1. Behind(R, o)'
  BY Zenon, BehindStays
<1>2. inst'[p].status.checksum = "" \/ UpTo(R, inst'[p].status.checksum, Checksum[inst'[p].spec])
  BY DEF Behind, UpTo
<1> QED
  BY <1>1, <1>2 DEF Behind, UpTo

\* A worker's copy that tells the truth before a step does so after it.
LEMMA HandTruthful ==
  ASSUME StaleCopiesHarmless, [Next]_vars, NEW p \in Procs, NEW R, NEW n, Truthful(R, n),
         inst'[p].spec = n.spec, inst'[p].status = n.status
  PROVE  Truthful(R, inst[p])'
<1>1. Truthful(R, n)'
  BY Zenon, RanForGrows
<1> QED
  BY <1>1 DEF Truthful, RanFor, Ran

\* What a move of the addon worker gives it is behind, and truthful if the status it
\* moves with is.
LEMMA MovedHand ==
  ASSUME StaleCopiesHarmless, NEW R, Forward(R), [Next]_vars, ~Born, NEW o \in Addons, Behind(R, o),
         NEW l, NEW st, Moved(o, l, st), st.checksum \in {o.status.checksum, Checksum[o.spec]},
         l # "listwf" \/ R = {} => Truthful(R, [o EXCEPT !.status = st])
  PROVE  HandInv(R, self)'
<1>1. self \in Procs
  BY DEF self, Procs
<1>2. Behind(R, inst[self])'
  BY <1>1, HandBehind DEF Moved
<1>3. CASE l = "listwf" /\ R # {}
  BY <1>2, <1>3 DEF HandInv, Moved
<1>4. CASE l # "listwf" \/ R = {}
  <2> DEFINE n == [o EXCEPT !.status = st]
  <2>1. n.spec = o.spec /\ n.status = st
    BY DEF Addons
  <2>2. Truthful(R, n)
    BY <1>4
  <2> HIDE DEF n
  <2>3. Truthful(R, inst[self])'
    BY Zenon, <1>1, <2>1, <2>2, HandTruthful DEF Moved
  <2> QED
    BY Zenon, <1>2, <2>3 DEF HandInv
<1> QED
  BY <1>3, <1>4

\* A status whose checksum is the version's, and that claims no more than the
\* version does, is truthful.
LEMMA ClaimsNoMore ==
  ASSUME NEW R, NEW o \in Addons, Truthful(R, o), NEW st \in Statuses, st.checksum = o.status.checksum,
         Succeeded(st.prereqs) => Succeeded(o.status.prereqs),
         st.installed = "Succeeded" => o.status.installed = "Succeeded"
  PROVE  Truthful(R, [o EXCEPT !.status = st])
<1> DEFINE n == [o EXCEPT !.status = st]
<1>1. n.spec = o.spec /\ n.status = st
  BY DEF Addons
<1> HIDE DEF n
<1> SUFFICES Truthful(R, n)
  BY DEF n
<1> QED
  BY <1>1 DEF Truthful

\* A pass that begins has a copy that is behind and, unless it has just taken the
\* new checksum, truthful.
LEMMA BeginHand ==
  ASSUME StaleCopiesHarmless, NEW R, Forward(R), [Next]_vars, ~Born,
         cache \in Addons, Behind(R, cache), Truthful(R, cache), NEW l, NEW st,
         Moved(cache, l, st), BeginsDeletion(l, st) \/ BeginsInstallation(l, st)
  PROVE  HandInv(R, self)' /\ LabelInv'
<1>1. st \in Statuses /\ cache.status \in Statuses
  BY DEF Moved, Addons
<1>2. \A p : LET n == SetInstallStatus(cache.status, p)
             IN n.checksum = cache.status.checksum /\ n.prereqs = cache.status.prereqs
                /\ n.installed = p
  BY Zenon, <1>1, SetInstallFields
<1>3. CASE l = "listwf" /\ st = [cache.status EXCEPT !.checksum = Checksum[cache.spec]]
  <2>1. st.checksum = Checksum[cache.spec]
    BY <1>1, <1>3 DEF Statuses
  <2>2. ASSUME R = {}
        PROVE  Truthful(R, [cache EXCEPT !.status = st])
    <3> DEFINE n == [cache EXCEPT !.status = st]
    <3>1. n.spec = cache.spec /\ n.status = st
      BY DEF Addons
    <3>2. st.prereqs = cache.status.prereqs /\ st.installed = cache.status.installed
      BY <1>1, <1>3 DEF Statuses
    <3> HIDE DEF n
    <3>3. Truthful(R, n)
      BY <2>2, <3>1, <3>2 DEF Truthful
    <3> QED
      BY <3>3 DEF n
  <2>3. HandInv(R, self)'
    BY Zenon, <1>3, <2>1, <2>2, MovedHand
  <2> QED
    BY <1>3, <2>3 DEF LabelInv, Cycling, Prepared, Moved, me
<1>4. CASE /\ st \in {cache.status} \cup
                     {SetInstallStatus(cache.status, p) : p \in {"Deleting", "Pending", "ValidationFailed"}}
           /\ l \in {"lock", "unfinalize", "delete"}
              \/ (l \in {"finalizer", "prereqs"} /\ ~ChecksumChanged)
  <2>1. st.checksum = cache.status.checksum /\ st.prereqs = cache.status.prereqs
        /\ (st.installed = "Succeeded" => cache.status.installed = "Succeeded")
    BY <1>2, <1>4
  <2>2. Truthful(R, [cache EXCEPT !.status = st])
    BY Zenon, <1>1, <2>1, ClaimsNoMore
  <2>3. HandInv(R, self)'
    BY <2>1, <2>2, MovedHand
  <2>4. LabelInv'
    BY <1>4, <2>1 DEF LabelInv, Cycling, Prepared, Moved, me, ChecksumChanged
  <2> QED
    BY <2>3, <2>4
<1> QED
  BY <1>3, <1>4 DEF BeginsDeletion, BeginsInstallation

\* A pass that goes on with the workflow of a step claims what it has seen.
LEMMA RunningTruthful ==
  ASSUME StaleCopiesHarmless, LivesInv, OneLife, ChecksumsTell, LabelInv, me \in Addons,
         NEW R, Truthful(R, me),
         NEW st \in Statuses, NEW step \in {"prereqs", "install"},
         pc[self] \in {step, Submitted[step]}, Supported(step, st)
  PROVE  Truthful(R, [me EXCEPT !.status = st])
<1> DEFINE n == [me EXCEPT !.status = st]
           c == Checksum[me.spec]
<1>1. n.spec = me.spec /\ n.status = st
  BY DEF Addons
<1>2. WorkflowsTypeOK /\ uids \in Nat
  BY DEF StaleCopiesHarmless, TypeOK, CountersTypeOK
<1>3. \A s \in Steps : Done(s) => RanFor(c, s)
  BY Zenon, <1>2, DoneRan
<1>4. step \in Steps /\ me.status.checksum = c /\ (step = "install" => Succeeded(me.status.prereqs))
  BY DEF LabelInv, Cycling, Prepared, Submitted, Steps
<1>5. /\ Succeeded(me.status.prereqs) => RanFor(c, "prereqs")
      /\ me.status.installed = "Succeeded" => RanFor(c, "prereqs") /\ RanFor(c, "install")
  BY <1>4 DEF Truthful
<1>6. Succeeded(st.prereqs) => RanFor(c, "prereqs")
  BY Zenon, <1>3, <1>4, <1>5 DEF Supported
<1>7. st.installed = "Succeeded" => RanFor(c, "prereqs") /\ RanFor(c, "install")
  BY Zenon, <1>3, <1>4, <1>5 DEF Supported
<1> HIDE DEF n
<1> SUFFICES Truthful(R, n)
  BY DEF n
<1> QED
  BY Zenon, <1>1, <1>6, <1>7 DEF Truthful

\* A pass that goes on keeps a copy that is behind and truthful, and comes to the
\* install workflow only with prereqs that succeeded.
LEMMA GoesOnHand ==
  ASSUME StaleCopiesHarmless, LivesInv, OneLife, ChecksumsTell, NEW R, Forward(R), [Next]_vars,
         ~Born, "list" \in Faults => R = {}, me \in Addons, HandInv(R, self), LabelInv, NEW l, NEW st,
         Moved(me, l, st),
         GoesOnPreparing(l, st) \/ GoesOnRunning(l, st) \/ GoesOnDeleting(l, st)
  PROVE  HandInv(R, self)' /\ LabelInv'
<1>1. st \in Statuses /\ me.status \in Statuses /\ me # NoAddon
  BY NoAddonAssumption DEF Moved, Addons
<1>2. WorkflowsTypeOK /\ now \in Nat
  BY DEF StaleCopiesHarmless, TypeOK, CountersTypeOK
<1>3. Behind(R, me) /\ (pc[self] # "listwf" \/ R = {} => Truthful(R, me))
  BY <1>1 DEF HandInv, me
<1>4. ASSUME st.checksum = me.status.checksum, Truthful(R, [me EXCEPT !.status = st])
      PROVE  HandInv(R, self)'
  BY <1>3, <1>4, MovedHand
<1>5. CASE st = NewCycle(me.status) /\ l = "lock"
  <2>1. st.checksum = me.status.checksum /\ st.prereqs = "Pending" /\ st.installed = "Pending"
    BY <1>1, <1>2, <1>5, NewCycleFields
  <2> DEFINE n == [me EXCEPT !.status = st]
  <2>2. n.status = st
    BY DEF Addons
  <2>3. Truthful(R, n)
    BY <2>1, <2>2 DEF Truthful, Succeeded
  <2> QED
    BY <1>4, <1>5, <2>1, <2>3 DEF LabelInv, Cycling, Prepared, Moved
<1>6. CASE /\ st = me.status
           /\ pc[self] \in {"finalizer", "delete", "deleteSubmitted"} \/ R = {}
           /\ l \in {"prereqs", "lock", "deleteSubmitted", "unfinalize"}
           /\ l = "prereqs" => pc[self] = "finalizer"
  <2>1. Truthful(R, me)
    BY <1>3, <1>6
  <2>2. Truthful(R, [me EXCEPT !.status = st])
    BY Zenon, <1>1, <1>6, <2>1, ClaimsNoMore
  <2>3. HandInv(R, self)'
    BY Zenon, <1>4, <1>6, <2>2
  <2>4. LabelInv'
    BY <1>6 DEF LabelInv, Cycling, Prepared, Moved, me
  <2> QED
    BY <2>3, <2>4
<1>7. CASE GoesOnRunning(l, st)
  <2>1. PICK step \in {"prereqs", "install"} :
           /\ pc[self] \in {step, Submitted[step]}
           /\ Supported(step, st)
           /\ \/ l = "lock"
              \/ l = Submitted[step] /\ st = me.status
              \/ step = "prereqs" /\ l = "install" /\ Succeeded(st.prereqs)
    BY Zenon, <1>2, <1>7, RunningSupported
  <2>2. pc[self] \in Cycling /\ (step = "install" => pc[self] \in Prepared)
    <3>1. CASE step = "prereqs"
      BY Zenon, <2>1, <3>1, SubmittedLabels DEF Cycling
    <3>2. CASE step = "install"
      BY Zenon, <2>1, <3>2, SubmittedLabels DEF Cycling, Prepared
    <3> QED
      BY <3>1, <3>2
  <2>3. Truthful(R, me)
    BY <1>3, <2>2 DEF Cycling
  <2>4. Truthful(R, [me EXCEPT !.status = st])
    BY Zenon, <1>1, <2>1, <2>3, RunningTruthful
  <2>5. st.checksum = me.status.checksum
    BY <2>1 DEF Supported
  <2>6. HandInv(R, self)'
    BY Zenon, <1>4, <2>4, <2>5
  <2>7. LabelInv'
    <3>1. /\ pc'[self] = l /\ me'.status = st /\ me'.spec = me.spec
          /\ me.status.checksum = Checksum[me.spec]
          /\ step = "install" => Succeeded(me.status.prereqs)
      BY Zenon, <2>2 DEF Moved, LabelInv, me
    <3>2. CASE l = "lock"
      BY <3>1, <3>2 DEF LabelInv, Cycling, Prepared
    <3>3. CASE l = Submitted[step] /\ st = me.status
      <4>1. l \in Prepared => step = "install"
        BY <3>3, SubmittedLabels DEF Prepared
      <4> QED
        BY Zenon, <3>1, <3>3, <4>1 DEF LabelInv
    <3>4. CASE l = "install" /\ Succeeded(st.prereqs)
      BY Zenon, <2>5, <3>1, <3>4 DEF LabelInv
    <3> QED
      BY <2>1, <3>2, <3>3, <3>4
  <2> QED
    BY <2>6, <2>7
<1> QED
  BY <1>5, <1>6, <1>7 DEF GoesOnPreparing, GoesOnDeleting

\* The addon worker's copy after a step.
LEMMA AddonHandStep ==
  ASSUME StaleCopiesHarmless, LivesInv, OneLife, ChecksumsTell, NEW R, Forward(R),
         "list" \in Faults => R = {}, DeploymentInv(R), [Next]_vars, ~Born
  PROVE  HandInv(R, self)' /\ LabelInv'
<1>1. self \in Procs /\ HandInv(R, self) /\ LabelInv
  BY DEF self, Procs, DeploymentInv
<1>2. CASE Stays(self)
  <2>1. HandInv(R, self)'
    <3> SUFFICES ASSUME inst'[self] # NoAddon
                 PROVE  /\ Behind(R, inst[self])'
                        /\ pc'[self] # "listwf" \/ R = {} => Truthful(R, inst[self])'
      BY DEF HandInv
    <3>1. inst'[self] = inst[self] /\ inst[self] \in Addons
      BY <1>1, <1>2 DEF Stays, StaleCopiesHarmless, TypeOK, WorkersTypeOK, MaybeAddon
    <3>2. /\ Behind(R, inst[self])
          /\ pc'[self] # "listwf" \/ R = {} => Truthful(R, inst[self])
      BY <1>1, <1>2, <3>1 DEF HandInv, Stays, Updating
    <3>3. Behind(R, inst[self])'
      BY <1>1, <3>1, <3>2, HandBehind
    <3>4. pc'[self] # "listwf" \/ R = {} => Truthful(R, inst[self])'
      BY Zenon, <1>1, <3>1, <3>2, HandTruthful
    <3> QED
      BY <3>3, <3>4
  <2>2. LabelInv'
    BY <1>1, <1>2 DEF LabelInv, Stays, Updating, Cycling, Prepared, me
  <2> QED
    BY <2>1, <2>2
<1>3. CASE Leaves(self)
  BY <1>3 DEF HandInv, LabelInv, Leaves, Cycling, Prepared
<1>4. CASE /\ pc[self] = "idle" /\ cache \in Addons /\ UNCHANGED <<api, watch, cache>>
           /\ \E l, st : Moved(cache, l, st) /\ (BeginsDeletion(l, st) \/ BeginsInstallation(l, st))
  <2>1. Behind(R, cache) /\ Truthful(R, cache)
    BY <1>4, CopiesStep, NoAddonAssumption DEF DeploymentInv, VersionsInv
  <2> QED
    BY Zenon, <1>4, <2>1, BeginHand
<1>5. CASE /\ pc[self] # "idle" /\ me \in Addons
           /\ \E l, st : /\ Moved(me, l, st)
                         /\ \/ GoesOnPreparing(l, st)
                            \/ GoesOnRunning(l, st)
                            \/ GoesOnDeleting(l, st)
  BY Zenon, <1>1, <1>5, GoesOnHand
<1> QED
  BY Zenon, <1>2, <1>3, <1>4, <1>5, WorkerMoves DEF AddonMove

\* What the workflow controller makes of a workflow's end is truthful.
LEMMA ReconcileTruthful ==
  ASSUME StaleCopiesHarmless, LivesInv, OneLife, OrderInv, cache \in Addons, NEW R, Truthful(R, cache),
         NEW k \in Keys, wfCache[k].phase \in {"Running", "Succeeded", "Failed"},
         Checksum[cache.spec] = k[2], NEW n \in Addons, n.spec = cache.spec,
         n.status = FromWorkflow(k)
  PROVE  Truthful(R, n) /\ n.status.checksum = cache.status.checksum
<1> DEFINE st == n.status
           c == Checksum[cache.spec]
<1>1. k[1] \in Steps /\ cache.status \in Statuses /\ uids \in Nat
  BY DEF Keys, Addons, StaleCopiesHarmless, TypeOK, CountersTypeOK
<1>2. Says(cache.status, k[1], wfCache[k].phase, FromWorkflow(k))
  BY Zenon, <1>1, PhaseFields DEF FromWorkflow
<1>3. wfCache[k].phase = "Succeeded" => RanFor(c, k[1])
  BY Zenon, <1>1, ToldRan
<1>4. k[1] = "install" => RanFor(c, "prereqs")
  <2>1. wfCache[k] # NoWorkflow
    BY DEF NoWorkflow
  <2> QED
    BY <2>1 DEF OrderInv
<1>5. st.checksum = c \/ R = {} => (Succeeded(cache.status.prereqs) => RanFor(c, "prereqs"))
  BY <1>2 DEF Truthful, Says
<1>6. st.checksum = c \/ R = {} => (Succeeded(st.prereqs) => RanFor(c, "prereqs"))
  BY <1>1, <1>2, <1>3, <1>5 DEF Says, Succeeded, Steps
<1>7. st.installed = "Succeeded" => RanFor(c, "prereqs") /\ RanFor(c, "install")
  BY <1>1, <1>2, <1>3, <1>4 DEF Says, Steps
<1> QED
  BY Zenon, <1>2, <1>6, <1>7 DEF Truthful, Says

\* The workflow worker's copy after a step.
LEMMA WorkflowHandStep ==
  ASSUME StaleCopiesHarmless, LivesInv, OneLife, NEW R, Forward(R), DeploymentInv(R), [Next]_vars, ~Born
  PROVE  HandInv(R, "workflow")'
<1> DEFINE p == "workflow"
<1>1. p \in Procs /\ HandInv(R, p) /\ pc[p] # "listwf" /\ OrderInv
  BY DEF Procs, DeploymentInv, StaleCopiesHarmless, WorkersInv, Updating
<1> SUFFICES ASSUME inst'[p] # NoAddon
             PROVE  Behind(R, inst[p])' /\ Truthful(R, inst[p])'
  BY Zenon DEF HandInv
<1>2. CASE Stays(p)
  <2>1. inst'[p] = inst[p] /\ inst[p] \in Addons
    BY <1>1, <1>2 DEF Stays, StaleCopiesHarmless, TypeOK, WorkersTypeOK, MaybeAddon
  <2>2. Behind(R, inst[p]) /\ Truthful(R, inst[p])
    BY <1>1, <2>1 DEF HandInv
  <2>3. Behind(R, inst[p])'
    BY <1>1, <2>1, <2>2, HandBehind
  <2>4. Truthful(R, inst[p])'
    BY Zenon, <1>1, <2>1, <2>2, HandTruthful
  <2> QED
    BY <2>3, <2>4
<1>3. CASE \E k \in Keys : WfReconcile(k)
  <2>1. PICK k \in Keys : WfReconcile(k)
    BY <1>3
  <2>2. PICK n : n = inst'[p]
    OBVIOUS
  <2>3. /\ cache \in Addons /\ n \in Addons /\ n.spec = cache.spec
        /\ n.status = FromWorkflow(k) /\ Checksum[cache.spec] = k[2]
    BY <2>1, <2>2, ReconcileMoves
  <2>4. wfCache[k].phase \in {"Running", "Succeeded", "Failed"}
    BY <2>1 DEF WfReconcile, Ignored, StaleCopiesHarmless, TypeOK, WorkflowsTypeOK, Workflows, WorkflowPhases
  <2>5. Behind(R, cache) /\ Truthful(R, cache)
    BY <2>3, CopiesStep, NoAddonAssumption DEF DeploymentInv, VersionsInv
  <2>6. Truthful(R, n) /\ n.status.checksum = cache.status.checksum
    BY Zenon, <1>1, <2>3, <2>4, <2>5, ReconcileTruthful
  <2>7. Behind(R, inst[p])'
    BY <1>1, <2>2, <2>3, <2>5, <2>6, HandBehind
  <2>8. Truthful(R, inst[p])'
    BY Zenon, <1>1, <2>2, <2>6, HandTruthful
  <2> QED
    BY <2>7, <2>8
<1> QED
  BY Zenon, <1>2, <1>3, WorkerMoves DEF WorkflowMove, Leaves

\* No install workflow exists whose prereqs did not run.
LEMMA OrderStep ==
  ASSUME StaleCopiesHarmless, NEW R, DeploymentInv(R), [Next]_vars
  PROVE  OrderInv'
<1> SUFFICES ASSUME NEW k \in Keys, k[1] = "install", wf'[k] # NoWorkflow \/ wfCache'[k] # NoWorkflow
             PROVE  RanFor(k[2], "prereqs")
  BY Zenon, RanForGrows DEF OrderInv
<1>1. CASE wf[k] # NoWorkflow \/ wfCache[k] # NoWorkflow
  BY <1>1 DEF DeploymentInv, OrderInv
<1>2. CASE wf[k] = NoWorkflow /\ wfCache[k] = NoWorkflow
  <2>1. wfCache'[k] = NoWorkflow
    BY <1>2, HistoryStep
  <2>2. ~GoesOn(k)
    BY <1>2 DEF GoesOn, NoWorkflow
  <2>3. me \in Addons /\ pc[self] \in Steps /\ k = Key(me, pc[self])
    BY <1>2, <2>1, <2>2, WorkflowsStep
  <2>4. pc[self] = "install" /\ k[2] = Checksum[me.spec] /\ self \in Procs
    BY <2>3 DEF Key, self, Procs
  <2>5. LabelInv /\ HandInv(R, self)
    BY <2>4 DEF DeploymentInv
  <2>6. me.status.checksum = Checksum[me.spec] /\ Succeeded(me.status.prereqs) /\ Truthful(R, me)
    BY <2>3, <2>4, <2>5, NoAddonAssumption DEF LabelInv, HandInv, Cycling, Prepared, me
  <2> QED
    BY <2>4, <2>6 DEF Truthful
<1> QED
  BY <1>1, <1>2

\* DeploymentInv holds at the start.
LEMMA InitDeployment ==
  ASSUME Init, NEW R
  PROVE  DeploymentInv(R)
<1>1. Copies = {NoAddon} /\ self \in Procs
  BY DEF Init, Copies, self, Procs
<1>2. VersionsInv(R)
  BY <1>1 DEF VersionsInv
<1>3. LabelInv /\ OrderInv /\ \A p \in Procs : HandInv(R, p)
  BY <1>1 DEF Init, LabelInv, OrderInv, HandInv, Cycling, Prepared
<1> QED
  BY <1>2, <1>3 DEF DeploymentInv

\* DeploymentInv is kept as long as the name of the addon is used once.
LEMMA DeploymentStep ==
  ASSUME StaleCopiesHarmless, LivesInv, OneLife, OneLife', ChecksumsTell, NEW R, Forward(R),
         "list" \in Faults => R = {}, DeploymentInv(R), [Next]_vars
  PROVE  DeploymentInv(R)'
<1>1. VersionsInv(R)' /\ OrderInv'
  BY Zenon, VersionsStep, OrderStep
<1>2. (\A p \in Procs : HandInv(R, p)') /\ LabelInv'
  <2>1. CASE Born
    <3>1. \A p \in Procs : inst'[p] = NoAddon
      BY <2>1, BornFirst, HandsStep, CopiesStep
    <3>2. pc'[self] = "idle"
      BY <3>1, NextInv DEF StaleCopiesHarmless, WorkersInv, self, Procs
    <3> QED
      BY <3>1, <3>2 DEF HandInv, LabelInv, Cycling, Prepared
  <2>2. CASE ~Born
    BY Zenon, <2>2, AddonHandStep, WorkflowHandStep DEF Procs, self
  <2> QED
    BY <2>1, <2>2
<1> QED
  BY Zenon, <1>1, <1>2 DEF DeploymentInv

\* The versions of an addon whose name is used once have the uid 1.
LEMMA OnlyUid ==
  ASSUME StaleCopiesHarmless, LivesInv, OneLife, NEW o \in Copies \cup {inst[p] : p \in Procs},
         o # NoAddon
  PROVE  o.uid = 1
<1>1. OfALife(o) /\ uids \in Nat
  BY DEF LivesInv, StaleCopiesHarmless, TypeOK, CountersTypeOK
<1> QED
  BY <1>1 DEF OfALife, OneLife

\* As long as the name of the addon is used once, its user does not come back to a
\* spec that was replaced, checksums tell specs apart, and the old workflows can be
\* listed or no edit changes the checksum (any order of checksums will do, and so
\* will none): an addon that UpdateStatus shows as Succeeded for its present spec has
\* had the prereqs and the install workflow of that spec succeed.
THEOREM DeployedBeforeSucceeded ==
  ASSUME ChecksumsTell, NEW R, Forward(R), "list" \in Faults => R = {}
  PROVE  Spec /\ []OneLife => []SucceededMeansDeployed
<1>1. Init => DeploymentInv(R)
  BY InitDeployment
<1>2. StaleCopiesHarmless /\ LivesInv /\ OneLife /\ OneLife' /\ DeploymentInv(R) /\ [Next]_vars =>
        DeploymentInv(R)'
  BY DeploymentStep
<1>3. StaleCopiesHarmless /\ LivesInv /\ OneLife /\ DeploymentInv(R) => SucceededMeansDeployed
  <2> SUFFICES ASSUME StaleCopiesHarmless, LivesInv, OneLife, DeploymentInv(R), api # NoAddon,
                      api.status.installed = "Succeeded", api.status.checksum = Checksum[api.spec]
               PROVE  Ran(api.uid, api.spec, "prereqs") /\ Ran(api.uid, api.spec, "install")
    BY DEF SucceededMeansDeployed
  <2>1. api \in Copies /\ api.spec \in Specs
    BY StoredIsCopy DEF StaleCopiesHarmless, TypeOK, StoreTypeOK, MaybeAddon, Addons
  <2>2. api.uid = 1
    BY Zenon, <2>1, OnlyUid
  <2>3. RanFor(Checksum[api.spec], "prereqs") /\ RanFor(Checksum[api.spec], "install")
    BY <2>1 DEF DeploymentInv, VersionsInv, Truthful
  <2> QED
    BY <2>1, <2>2, <2>3 DEF RanFor
<1> QED
  BY <1>1, <1>2, <1>3, StaleCopiesHarmlessAlways, LivesAlways, PTL DEF Spec

\* Under the same conditions executePrereqAndInstall submits the install workflow of
\* a spec only after the prereqs workflow of that spec has succeeded.
THEOREM InstalledAfterPrereqs ==
  ASSUME ChecksumsTell, NEW R, Forward(R), "list" \in Faults => R = {}
  PROVE  Spec /\ []OneLife => PrereqsBeforeInstall
<1>1. Init => DeploymentInv(R)
  BY InitDeployment
<1>2. StaleCopiesHarmless /\ LivesInv /\ OneLife /\ OneLife' /\ DeploymentInv(R) /\ [Next]_vars =>
        DeploymentInv(R)'
  BY DeploymentStep
<1>3. StaleCopiesHarmless /\ LivesInv /\ OneLife /\ DeploymentInv(R) /\ [Next]_vars =>
        [\A k \in Keys : k[1] = "install" /\ Submits(k) =>
           Ran(wf'[k].owner, inst[self].spec, "prereqs")]_vars
  <2> SUFFICES ASSUME StaleCopiesHarmless, LivesInv, OneLife, DeploymentInv(R), [Next]_vars,
                      NEW k \in Keys, k[1] = "install", Submits(k)
               PROVE  Ran(wf'[k].owner, me.spec, "prereqs")
    BY DEF me
  <2>1. wf[k] = NoWorkflow /\ wf'[k] # NoWorkflow /\ ~GoesOn(k)
    BY DEF Submits, GoesOn, NoWorkflow
  <2>2. me \in Addons /\ pc[self] \in Steps /\ k = Key(me, pc[self]) /\ wf'[k] = New(me)
    BY Zenon, <2>1, WorkflowsStep
  <2>3. pc[self] = "install" /\ k[2] = Checksum[me.spec] /\ wf'[k].owner = me.uid /\ self \in Procs
    <3>1. k[1] = pc[self] /\ k[2] = Checksum[me.spec]
      BY <2>2 DEF Key
    <3>2. New(me).owner = me.uid /\ self \in Procs
      BY DEF New, self, Procs
    <3> QED
      BY <2>2, <3>1, <3>2
  <2>4. me.uid = 1
    <3>1. me \in {inst[p] : p \in Procs} /\ me # NoAddon
      BY <2>2, <2>3, NoAddonAssumption DEF me
    <3> QED
      BY Zenon, <3>1, OnlyUid
  <2>5. LabelInv /\ HandInv(R, self)
    BY <2>3 DEF DeploymentInv
  <2>6. RanFor(Checksum[me.spec], "prereqs")
    BY <2>2, <2>3, <2>5, NoAddonAssumption DEF LabelInv, HandInv, Cycling, Prepared, me, Truthful
  <2> QED
    BY <2>2, <2>3, <2>4, <2>6 DEF RanFor, Addons
<1> QED
  BY <1>1, <1>2, <1>3, StaleCopiesHarmlessAlways, LivesAlways, PTL DEF Spec, PrereqsBeforeInstall

=============================================================================
