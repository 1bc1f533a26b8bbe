------------------------------- MODULE Fleet --------------------------------
(***************************************************************************)
(* Several addons under one manager.  What they share is the worker of the *)
(* addon controller, which takes one addon at a time, and the version      *)
(* cache, through which addonValidator.Validate of one addon depends on    *)
(* what UpdateStatus recorded for the others.  AddonManager follows the    *)
(* calls of a pass over one addon; here a pass has two steps, for only two *)
(* of its calls concern the other addons: Validate reads the version cache *)
(* and UpdateStatus, later, writes it.  The informers have no delay, each  *)
(* addon has an install workflow and no other.                             *)
(***************************************************************************)
EXTENDS AddonTypes, AddonValidator

CONSTANTS
  Names,        \* of addons
  Specs,        \* function from the ids of specs to records pkg, ver, deps
  First,        \* function from names to the id of the spec it is created with
  MayHave,      \* function from names to the ids of the specs it may have
  MayFail,      \* the addons whose workflows may fail
  MayDelete,    \* whether users delete addons
  MayWait,      \* the addons whose install cycle may last longer than its TTL
  MaxEdits,     \* bound on creations, edits and deletions
  MaxCrashes    \* bound on restarts of the manager

ASSUME FleetAssumption ==
  /\ "none" \notin Names
  /\ MayHave \in [Names -> SUBSET DOMAIN Specs]
  /\ \A a \in Names : First[a] \in MayHave[a]
  /\ MayFail \subseteq Names
  /\ MaxEdits \in Nat /\ MaxCrashes \in Nat

VARIABLES
  addons,   \* the Addon resources
  wf,       \* the install workflow of each addon
  cache,    \* the version cache
  queue,    \* the addons the controller is to look at
  worker,   \* the pass that is to call UpdateStatus: its copy of the addon
  done,     \* history: the package versions an install workflow succeeded for
  edits, crashes

vars == <<addons, wf, cache, queue, worker, done, edits, crashes>>

NoAddon == [spec |-> "none"]
NoWorkflow == [spec |-> "none", phase |-> "absent"]
NoWork == [name |-> "none"]

Present == {a \in Names : addons[a] # NoAddon}

\* What Validate sees of addon a with copy o: the name, GetPackageSpec, and the
\* rest of the spec, which is well-formed and the same for the whole fleet.
Package(a, o) ==
  [name |-> a, pkg |-> Specs[o.spec].pkg, ver |-> Specs[o.spec].ver, deps |-> Specs[o.spec].deps,
   longName |-> FALSE, namespace |-> "target", configs |-> {}, data |-> {},
   templates |-> [install |-> [yaml |-> TRUE, gvk |-> "workflow", spec |-> "map", params |-> {}]]]

Version(o) == <<Specs[o.spec].pkg, Specs[o.spec].ver>>

\* Every variable has its type; in particular the phase of a workflow gets into a
\* status and into the version cache only as ConvertWorkflowPhaseToAddonPhase
\* translates it.
TypeOK ==
  /\ \A a \in Present : /\ addons[a].spec \in MayHave[a]
                        /\ addons[a].checksum \in MayHave[a] \cup {"none"}
                        /\ addons[a].installed \in Phases
                        /\ {addons[a].deleting, addons[a].finalizer, addons[a].late} \subseteq BOOLEAN
  /\ \A a \in Names : wf[a].phase \in WorkflowPhases
  /\ \A e \in cache : e.name \in Names /\ e.phase \in Phases
  /\ queue \subseteq Names
  /\ worker = NoWork \/ worker.name \in Names
  /\ edits \in 0..MaxEdits /\ crashes \in 0..MaxCrashes

Init ==
  /\ addons = [a \in Names |-> NoAddon]
  /\ wf = [a \in Names |-> NoWorkflow]
  /\ cache = {} /\ queue = {} /\ worker = NoWork /\ done = {}
  /\ edits = 0 /\ crashes = 0

-----------------------------------------------------------------------------
\* Users, Argo, time

Edited(a, o) ==
  /\ edits < MaxEdits
  /\ edits' = edits + 1
  /\ addons' = [addons EXCEPT ![a] = o]
  /\ queue' = queue \cup {a}
  /\ UNCHANGED <<cache, worker, done, crashes>>

CreateAddon(a) ==
  /\ addons[a] = NoAddon
  /\ Edited(a, [spec |-> First[a], checksum |-> "none", installed |-> "", deleting |-> FALSE,
                finalizer |-> FALSE, late |-> FALSE])
  /\ UNCHANGED wf

EditAddon(a, s) ==
  /\ a \in Present
  /\ addons[a].spec # s
  /\ Edited(a, [addons[a] EXCEPT !.spec = s])
  /\ UNCHANGED wf

DeleteAddon(a) ==
  /\ MayDelete
  /\ a \in Present
  /\ ~addons[a].deleting
  /\ \/ addons[a].finalizer /\ Edited(a, [addons[a] EXCEPT !.deleting = TRUE]) /\ UNCHANGED wf
     \/ /\ ~addons[a].finalizer
        /\ Edited(a, NoAddon)
        /\ wf' = [wf EXCEPT ![a] = NoWorkflow]

\* The TTL of the install cycle of addon a runs out: "late" stands for the start
\* time in a status that is too long ago.
Wait(a) ==
  /\ a \in MayWait
  /\ a \in Present
  /\ ~addons[a].late
  /\ addons' = [addons EXCEPT ![a].late = TRUE]
  /\ worker' = IF worker.name = a THEN [worker EXCEPT !.copy.late = TRUE] ELSE worker
  /\ UNCHANGED <<wf, cache, queue, done, edits, crashes>>

EndWorkflow(a, phase) ==
  /\ wf[a].phase = "Running"
  /\ phase = "Failed" => a \in MayFail
  /\ wf' = [wf EXCEPT ![a].phase = phase]
  /\ done' = IF phase = "Succeeded" THEN done \cup {Version(wf[a])} ELSE done
  /\ UNCHANGED <<addons, cache, queue, worker, edits, crashes>>

-----------------------------------------------------------------------------
\* UpdateStatus

\* addAddonToCache: the entry for copy o of addon a.
Entry(a, o) ==
  [name |-> a, pkg |-> Specs[o.spec].pkg, ver |-> Specs[o.spec].ver, deps |-> Specs[o.spec].deps,
   phase |-> o.installed]

\* The status of copy o is written over that of addon a.
Written(a, o) ==
  [addons EXCEPT ![a].checksum = o.checksum, ![a].installed = o.installed, ![a].late = o.late]

RaceGuard(a, o) ==
  /\ Completed(addons[a].installed)
  /\ Running(o.installed)
  /\ addons[a].checksum = o.checksum

\* The worker's UpdateStatus.  A write that fails, or that the guard stops, is an
\* error: the addon is looked at again.
UpdateStatus ==
  /\ worker # NoWork
  /\ worker' = NoWork
  /\ LET a == worker.name
         o == worker.copy
         fails == a \notin Present \/ RaceGuard(a, o)
     IN /\ addons' = IF fails THEN addons ELSE Written(a, o)
        /\ cache' = IF fails THEN cache ELSE AddVersion(cache, Entry(a, o))
        /\ queue' = IF worker.again \/ fails \/ addons' # addons
                    THEN queue \cup {a} ELSE queue
  /\ UNCHANGED <<wf, done, edits, crashes>>

\* The workflow controller reports the phase of the workflow of the present spec
\* of an addon that is not Completed; its UpdateStatus writes what it just read.
ReportWorkflow(a) ==
  /\ a \in Present
  /\ wf[a].phase \in {"Running", "Succeeded", "Failed"}
  /\ wf[a].spec = addons[a].spec
  /\ ~Completed(addons[a].installed)
  /\ LET phase == ConvertWorkflowPhaseToAddonPhase("install", wf[a].phase)
         o == [addons[a] EXCEPT !.installed = phase]
     IN /\ addons' = Written(a, o)
        /\ cache' = AddVersion(cache, Entry(a, o))
        /\ queue' = IF addons' = addons THEN queue ELSE queue \cup {a}
  /\ UNCHANGED <<wf, worker, done, edits, crashes>>

-----------------------------------------------------------------------------
\* A pass of the addon controller, up to UpdateStatus

Begin(a) ==
  /\ worker = NoWork
  /\ a \in queue

\* The pass goes on to UpdateStatus with copy o; what it wrote before, if
\* anything, queues the addon again.
Update(a, o, again) ==
  /\ queue' = IF addons' = addons THEN queue \ {a} ELSE queue
  /\ worker' = [name |-> a, copy |-> o, again |-> again]

unchangedByPass == <<done, edits, crashes>>

\* The addon is gone: RemoveFromCache.
ReconcileGone(a) ==
  /\ Begin(a)
  /\ a \notin Present
  /\ queue' = queue \ {a}
  /\ LET found == HasVersionName(cache, a)
     IN \/ found = {} /\ UNCHANGED cache
        \/ \E e \in found : cache' = RemoveVersion(cache, e.pkg, e.ver)
  /\ UNCHANGED <<addons, wf, worker, unchangedByPass>>

MarkDeleting(a) ==
  /\ Begin(a)
  /\ a \in Present /\ addons[a].deleting /\ ~Deleting(addons[a].installed)
  /\ UNCHANGED <<addons, wf, cache, unchangedByPass>>
  /\ Update(a, [addons[a] EXCEPT !.installed = "Deleting"], FALSE)

\* Finalize, with no delete workflow to run: the addon is gone at the end, which
\* queues it again, and with it the workflow it owns.
Finalize(a) ==
  /\ Begin(a)
  /\ a \in Present /\ addons[a].deleting /\ Deleting(addons[a].installed)
  /\ cache' = RemoveVersion(cache, Version(addons[a])[1], Version(addons[a])[2])
  /\ addons' = [addons EXCEPT ![a] = NoAddon]
  /\ wf' = [wf EXCEPT ![a] = NoWorkflow]
  /\ UNCHANGED <<queue, worker, unchangedByPass>>

Installing(a) == a \in Present /\ ~addons[a].deleting

ProcessChanged(a) ==
  /\ Begin(a)
  /\ Installing(a) /\ addons[a].checksum # addons[a].spec
  /\ wf' = [wf EXCEPT ![a] = NoWorkflow]
  /\ UNCHANGED <<addons, cache, unchangedByPass>>
  /\ Update(a, [addons[a] EXCEPT !.checksum = addons[a].spec, !.installed = "Pending",
                                 !.late = FALSE], TRUE)

\* Mutant: nothing is done for a completed addon, so nothing is recorded.
ProcessCompletedSkips(a) ==
  /\ Begin(a)
  /\ Installing(a) /\ addons[a].checksum = addons[a].spec /\ Completed(addons[a].installed)
  /\ queue' = queue \ {a}
  /\ UNCHANGED <<addons, wf, cache, worker, unchangedByPass>>

ProcessCompleted(a) ==
  /\ Begin(a)
  /\ Installing(a) /\ addons[a].checksum = addons[a].spec /\ Completed(addons[a].installed)
  /\ UNCHANGED <<addons, wf, cache, unchangedByPass>>
  /\ Update(a, addons[a], FALSE)

\* Validated: the finalizer, then the workflow, unless the TTL is over.
Run(a) ==
  /\ addons' = [addons EXCEPT ![a].finalizer = TRUE]
  /\ \/ /\ addons[a].late
        /\ Update(a, [addons[a] EXCEPT !.finalizer = TRUE, !.installed = "Failed"], TRUE)
        /\ UNCHANGED wf
     \/ /\ ~addons[a].late
        /\ wf' = IF wf[a] # NoWorkflow THEN wf
                 ELSE [wf EXCEPT ![a] = [spec |-> addons[a].spec, phase |-> "Running"]]
        /\ LET phase == ConvertWorkflowPhaseToAddonPhase("install", wf'[a].phase)
           IN Update(a, [addons[a] EXCEPT !.finalizer = TRUE, !.installed = phase], Running(phase))

\* Validate.  It does not panic for a fleet smaller than MaxDepth.
ProcessValidate(a) ==
  /\ Begin(a)
  /\ Installing(a) /\ addons[a].checksum = addons[a].spec /\ ~Completed(addons[a].installed)
  /\ UNCHANGED <<cache, unchangedByPass>>
  /\ \E pkg \in {Package(a, addons[a])} : \E answer \in Validate(cache, pkg) :
       \/ answer = "ok" /\ Run(a)
       \/ /\ answer \notin {"ok", "panic"}
          /\ UNCHANGED <<addons, wf>>
          /\ Update(a, [addons[a] EXCEPT !.installed =
                          IF answer = "pending" THEN "Pending" ELSE "ValidationFailed"], TRUE)

\* The manager restarts: the version cache is empty, and every addon is listed.
Crash ==
  /\ crashes < MaxCrashes
  /\ crashes' = crashes + 1
  /\ cache' = {} /\ worker' = NoWork /\ queue' = Present
  /\ UNCHANGED <<addons, wf, done, edits>>

-----------------------------------------------------------------------------

Pass(a) ==
  \/ ReconcileGone(a)
  \/ MarkDeleting(a)
  \/ Finalize(a)
  \/ ProcessChanged(a)
  \/ ProcessCompleted(a)
  \/ ProcessValidate(a)

Next ==
  \/ \E a \in Names :
       \/ CreateAddon(a)
       \/ \E s \in MayHave[a] : EditAddon(a, s)
       \/ DeleteAddon(a)
       \/ Wait(a)
       \/ \E phase \in {"Succeeded", "Failed"} : EndWorkflow(a, phase)
       \/ ReportWorkflow(a)
       \/ Pass(a)
  \/ UpdateStatus
  \/ Crash

Spec == Init /\ [][Next]_vars

\* The queue is served in turn, a pass ends, Argo goes on ending workflows and
\* their reports go on being delivered.
FairSpec ==
  /\ Spec
  /\ \A a \in Names : SF_vars(Pass(a))
  /\ WF_vars(UpdateStatus)
  /\ WF_vars(\E a \in Names, phase \in {"Succeeded", "Failed"} : EndWorkflow(a, phase))
  /\ WF_vars(\E a \in Names : ReportWorkflow(a))

-----------------------------------------------------------------------------
\* Properties

\* The package versions that satisfy dependency d, as GetVersion reads it.
Meets(v, d) == v[1] = d[1] /\ (v[2] = d[2] \/ <<d[2], v[2]>> \in Satisfies)

Submits(a) == wf[a] = NoWorkflow /\ wf'[a] # NoWorkflow

\* The workflow of an addon is submitted only when each package it depends on has
\* been installed before: at some time an install workflow of a version that
\* meets the dependency has succeeded (ValidateDependencies over what the passes
\* of the other addons recorded, through upgrades, deletions and restarts).
DependentsWait ==
  [][\A a \in Names : Submits(a) =>
       \A d \in Specs[addons[a].spec].deps : \E v \in done : Meets(v, d)]_vars

\* ... and is installed now: there is an addon with such a version, and its status
\* is Succeeded ("Validate dependencies are installed.").
DependenciesInstalled ==
  [][\A a \in Names : Submits(a) =>
       \A d \in Specs[addons[a].spec].deps : \E b \in Present :
          /\ Meets(Version(addons[b]), d)
          /\ addons[b].installed = "Succeeded"]_vars

\* No version of a package is installed by two addons (validateDuplicate).
NoDuplicates ==
  \A a, b \in Present :
    /\ a # b
    /\ addons[a].installed = "Succeeded" /\ addons[b].installed = "Succeeded"
    /\ addons[a].checksum = addons[a].spec /\ addons[b].checksum = addons[b].spec
    => Version(addons[a]) # Version(addons[b])

\* Addon a and some others are there and depend on each other only; those that a
\* depends on are Succeeded.
Ready(a) ==
  \E others \in SUBSET (Names \ {a}) :
    /\ \A b \in others \cup {a} :
         /\ Installing(b)
         /\ \A d \in Specs[addons[b].spec].deps : \E e \in others :
              /\ Installing(e) /\ Meets(Version(addons[e]), d)
              /\ b = a => addons[e].installed = "Succeeded" /\ addons[e].checksum = addons[e].spec

\* An addon whose dependencies are there and stay gets to the end of its
\* installation: the passes that waited for them, and a restart that emptied the
\* version cache, are made up for.
DependentsFollow ==
  \A a \in Names : <>[]Ready(a) => <>[](addons[a] # NoAddon /\ Completed(addons[a].installed))

=============================================================================
