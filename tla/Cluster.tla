------------------------------ MODULE Cluster -------------------------------
(***************************************************************************)
(* What surrounds the manager: the API server that stores the Addon, the   *)
(* informers through which the manager reads it, the Argo controller that  *)
(* runs the workflows the manager submits, the garbage collector and the   *)
(* user.  None of it is code of this repository; it is modelled from how   *)
(* the controllers use it.                                                 *)
(*                                                                         *)
(* Optimistic concurrency.  Every version the API server stores has a new  *)
(* resourceVersion, and a write is refused unless it carries the           *)
(* resourceVersion of the stored object.  Only that comparison matters, so *)
(* the model keeps its outcome instead of the number: a process is in      *)
(* `fresh' as long as no version was stored after the one it read last.    *)
(***************************************************************************)
EXTENDS Integers, Sequences, FiniteSets, AddonTypes

CONSTANTS
  NoAddon,     \* the addon's name has no object in the API
  Specs,       \* addon specs a user may apply
  Checksums,   \* values of CalculateChecksum
  Checksum,    \* [Specs -> Checksums]
  Templates,   \* [Specs -> SUBSET Steps]: the steps with a non-empty template
  Versions,    \* package versions
  PkgVersion,  \* [Specs -> Versions]
  NewSpecs,    \* the specs with which a user may create the addon
  Edits,       \* the pairs <<s, t>> such that a user may replace s by t
  Faults,      \* the calls that may fail, see FaultKinds
  Inputs,      \* which of "delete" (by the user) and "event" (of a resource the
               \* addon deployed) may happen
  Outcomes,    \* phases in which a workflow may end
  TTL,         \* time an installation may take (api/addon/const.go: 1 hour)
  MaxFaults, MaxCrashes, MaxEdits, MaxCreates, MaxTime, MaxLag  \* bounds

FaultKinds == {"list", "delwf", "create", "getwf", "secrets", "observe",
               "update", "updateLost", "panic"}

ASSUME ConstantsAssumption ==
  /\ Checksum \in [Specs -> Checksums]
  /\ Templates \in [Specs -> SUBSET Steps]
  /\ PkgVersion \in [Specs -> Versions]
  /\ NewSpecs \subseteq Specs
  /\ Edits \subseteq Specs \X Specs
  /\ Faults \subseteq FaultKinds
  /\ Inputs \subseteq {"delete", "event"}
  /\ Outcomes \subseteq {"Succeeded", "Failed"}
  /\ TTL \in Nat
  /\ \A b \in {MaxFaults, MaxCrashes, MaxEdits, MaxCreates, MaxTime, MaxLag} : b \in Nat

\* The two controllers of the manager, each with one worker.
Procs == {"addon", "workflow"}

\* A workflow's name is made of the addon's name, the step and the checksum.
Keys == Steps \X Checksums

Statuses == [checksum : Checksums \cup {""}, prereqs : Phases, installed : Phases,
             startTime : Nat]

Addons == [uid : Nat, spec : Specs, deleting : BOOLEAN, finalizer : BOOLEAN,
           status : Statuses]

ASSUME NoAddonAssumption == NoAddon \notin Addons

MaybeAddon == Addons \cup {NoAddon}

Workflows == [phase : WorkflowPhases, owner : Nat]

NoWorkflow == [phase |-> "absent", owner |-> 0]

VARIABLES
  api,       \* the Addon as the API server stores it
  watch,     \* versions stored and not yet delivered to the informer, oldest first
  cache,     \* the informer's copy: what a Get of the manager's client returns
  fresh,     \* processes whose last Get returned the version the API still has
  queue,     \* the addon is in the addon controller's work queue
  wf,        \* workflows in the API server, by name
  wfCache,   \* the informer's copy of them
  wfQueue,   \* the workflow controller's work queue
  now,       \* the clock
  uids,      \* uids given out so far
  edits,     \* spec edits so far
  faults,    \* failed calls so far
  ran        \* history: <<uid, step, checksum>> of the workflows that succeeded

storeVars == <<api, watch, fresh>>
wfVars == <<wf, wfCache, wfQueue, ran>>
envVars == <<now, uids, edits, faults>>
clusterVars == <<storeVars, cache, queue, wfVars, envVars>>

-----------------------------------------------------------------------------
\* The API server

\* Stores o (NoAddon: removes the object) and notifies the watchers.  A write
\* that changes nothing makes no new version.
Write(o) ==
  /\ Len(watch) < MaxLag
  /\ IF o = api THEN UNCHANGED storeVars
                ELSE api' = o /\ watch' = Append(watch, o) /\ fresh' = {}

\* What p's Get of the informer's copy means for its next write.
Get(p) == fresh' = IF watch = << >> THEN fresh \cup {p} ELSE fresh \ {p}

\* A call of kind f fails.
Fault(f) ==
  /\ f \in Faults
  /\ faults < MaxFaults
  /\ faults' = faults + 1

\* p's update of the stored object to o fails: it is refused, the call fails, or
\* it is made and the answer is lost.
Unanswered(p, o) ==
  \/ p \notin fresh /\ UNCHANGED <<storeVars, faults>>
  \/ Fault("update") /\ UNCHANGED storeVars
  \/ Fault("updateLost") /\ p \in fresh /\ Write(o)

\* The informer hears of the next version; the addon is enqueued.
Deliver ==
  /\ watch # << >>
  /\ cache' = Head(watch)
  /\ watch' = Tail(watch)
  /\ queue' = TRUE
  /\ UNCHANGED <<api, fresh, wfVars, envVars>>

WfDeliver(k) ==
  /\ wfCache[k] # wf[k]
  /\ wfCache' = [wfCache EXCEPT ![k] = wf[k]]
  /\ wfQueue' = wfQueue \cup {k}
  /\ UNCHANGED <<storeVars, cache, queue, wf, ran, envVars>>

-----------------------------------------------------------------------------
\* The Argo controller and the garbage collector

SetPhase(k, p) == wf' = [wf EXCEPT ![k].phase = p]

WfStart(k) ==
  /\ wf[k].phase = "new"
  /\ SetPhase(k, "Running")
  /\ UNCHANGED <<storeVars, cache, queue, wfCache, wfQueue, ran, envVars>>

\* activeDeadlineSeconds makes every workflow end.
WfFinish(k) ==
  /\ wf[k].phase = "Running"
  /\ \E p \in Outcomes :
       /\ SetPhase(k, p)
       /\ ran' = IF p = "Succeeded" THEN ran \cup {<<wf[k].owner, k[1], k[2]>>} ELSE ran
  /\ UNCHANGED <<storeVars, cache, queue, wfCache, wfQueue, envVars>>

\* Workflows are controlled by the addon (SetControllerReference), and go when
\* the addon they were made for is gone.
GarbageCollect(k) ==
  /\ wf[k] # NoWorkflow
  /\ api # NoAddon => api.uid # wf[k].owner
  /\ wf' = [wf EXCEPT ![k] = NoWorkflow]
  /\ UNCHANGED <<storeVars, cache, queue, wfCache, wfQueue, ran, envVars>>

-----------------------------------------------------------------------------
\* The user and the clock

NewStatus == [checksum |-> "", prereqs |-> "", installed |-> "", startTime |-> 0]

Create(s) ==
  /\ api = NoAddon
  /\ uids < MaxCreates
  /\ uids' = uids + 1
  /\ Write([uid |-> uids + 1, spec |-> s, deleting |-> FALSE, finalizer |-> FALSE,
            status |-> NewStatus])
  /\ UNCHANGED <<cache, queue, wfVars, now, edits, faults>>

EditSpec(s) ==
  /\ api # NoAddon
  /\ <<api.spec, s>> \in Edits
  /\ edits < MaxEdits
  /\ edits' = edits + 1
  /\ Write([api EXCEPT !.spec = s])
  /\ UNCHANGED <<cache, queue, wfVars, now, uids, faults>>

\* An object with a finalizer is only marked.
DeleteAddon ==
  /\ "delete" \in Inputs
  /\ api # NoAddon
  /\ ~api.deleting
  /\ Write(IF api.finalizer THEN [api EXCEPT !.deleting = TRUE] ELSE NoAddon)
  /\ UNCHANGED <<cache, queue, wfVars, envVars>>

Tick ==
  /\ now < MaxTime
  /\ now' = now + 1
  /\ UNCHANGED <<storeVars, cache, queue, wfVars, uids, edits, faults>>

=============================================================================
