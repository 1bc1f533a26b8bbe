---------------------------- MODULE FleetProofs -----------------------------
(***************************************************************************)
(* For every fleet: what the version cache says of the other addons is     *)
(* true, so that no addon is installed before what it depends on.          *)
(***************************************************************************)
EXTENDS Fleet, TLAPS

-----------------------------------------------------------------------------
\* The validator

\* A package version that is recorded in c as installed meets dependency d.
Recorded(c, d) ==
  \E e \in c : /\ e.pkg = d[1] /\ e.phase = "Succeeded"
               /\ d[2] = "*" \/ e.ver = d[2] \/ <<d[2], e.ver>> \in Satisfies

\* A dependency passes, or ends the loop, only if it is recorded as installed.
LEMMA DependencyRecorded ==
  ASSUME NEW c, NEW d, {"ok", "return"} \cap ValidateDependency(c, d) # {}
  PROVE  Recorded(c, d)
<1>1. CASE d[2] = "*"
  <2>1. \E e \in GetVersions(c, d[1]) : e.phase = "Succeeded"
    BY <1>1 DEF ValidateDependency
  <2> QED
    BY <1>1, <2>1 DEF GetVersions, Recorded
<1>2. CASE d[2] # "*"
  <2>1. PICK v \in GetVersion(c, d[1], d[2]) : v # NoVersion /\ v.phase = "Succeeded"
    BY <1>2 DEF ValidateDependency
  <2>2. v \in c /\ v.pkg = d[1] /\ (v.ver = d[2] \/ <<d[2], v.ver>> \in Satisfies)
    BY <2>1 DEF GetVersion, GetVersions, resolveVersion
  <2> QED
    BY <2>1, <2>2 DEF Recorded
<1> QED
  BY <1>1, <1>2

\* Where the loop cannot leave out a dependency by its early return: there is one
\* dependency, or all are on any version.
AllLookedAt(deps) == \A d, e \in deps : d # e => d[2] = "*" /\ e[2] = "*"

\* An addon passes ValidateDependencies only if all it depends on is recorded.
LEMMA DependenciesRecorded ==
  ASSUME NEW c, NEW a, AllLookedAt(a.deps), "ok" \in ValidateDependencies(c, a), NEW d \in a.deps
  PROVE  Recorded(c, d)
<1>1. CASE \E e \in a.deps : "return" \in ValidateDependency(c, e)
  <2>1. PICK e \in a.deps : "return" \in ValidateDependency(c, e)
    BY <1>1
  <2>2. e[2] # "*"
    BY <2>1 DEF ValidateDependency
  <2>3. e = d
    BY <2>2 DEF AllLookedAt
  <2> QED
    BY <2>1, <2>3, DependencyRecorded
<1>2. CASE "ok" \in ValidateDependency(c, d)
  BY <1>2, DependencyRecorded
<1>3. \/ \E answers \in {ValidateDependency(c, e) : e \in a.deps} : "return" \in answers
      \/ \A answers \in {ValidateDependency(c, e) : e \in a.deps} : "ok" \in answers
  BY DEF ValidateDependencies
<1> QED
  BY <1>1, <1>2, <1>3

\* Validate says "ok" only if each of its checks does.
LEMMA AllChecksPassed ==
  ASSUME NEW c, NEW a, "ok" \in Validate(c, a)
  PROVE  "ok" \in ValidateDependencies(c, a)
<1>1. ASSUME NEW answers, NEW next, "ok" \in AndThen(answers, next)
      PROVE  "ok" \in next
  BY <1>1 DEF AndThen
<1> QED
  BY <1>1, Zenon DEF Validate

-----------------------------------------------------------------------------
\* The invariant

\* The specs that addons of the fleet may have.
InUse == UNION {MayHave[a] : a \in Names}

\* The version of the spec with this id.
VersionOf(s) == <<Specs[s].pkg, Specs[s].ver>>

Copies ==
  [spec : InUse, checksum : InUse \cup {"none"}, installed : Phases, deleting : BOOLEAN,
   finalizer : BOOLEAN, late : BOOLEAN]

\* A copy of addon a: its specs are among those it may have.  If it says that the
\* installation succeeded, then so did a workflow of the version of the spec whose
\* checksum it has.
CopyOf(a, o) ==
  /\ o \in Copies
  /\ o.spec \in MayHave[a] /\ o.checksum \in MayHave[a] \cup {"none"}
  /\ o.installed = "Succeeded" => o.checksum \in InUse /\ VersionOf(o.checksum) \in done

AddonsInv ==
  /\ addons \in [Names -> Copies \cup {NoAddon}]
  /\ \A a \in Present : CopyOf(a, addons[a])

\* A workflow is that of the install cycle in the status.
WorkflowsInv ==
  /\ wf \in [Names -> [spec : InUse, phase : WorkflowPhases \ {"absent"}] \cup {NoWorkflow}]
  /\ \A a \in Names : wf[a] # NoWorkflow =>
       /\ a \in Present /\ addons[a].checksum = wf[a].spec
       /\ wf[a].phase = "Succeeded" => VersionOf(wf[a].spec) \in done

\* What is recorded as installed was installed.
CacheInv ==
  \A e \in cache : /\ e.name \in Names /\ e.phase \in Phases
                   /\ \E s \in InUse : <<e.pkg, e.ver>> = VersionOf(s)
                   /\ e.phase = "Succeeded" => <<e.pkg, e.ver>> \in done

\* The copy that is about to be written and recorded: if it says Succeeded, it
\* says so of its own spec, and no workflow of another cycle is there.
WorkerInv ==
  worker # NoWork =>
    /\ worker = [name |-> worker.name, copy |-> worker.copy, again |-> worker.again]
    /\ worker.name \in Names /\ CopyOf(worker.name, worker.copy)
    /\ worker.copy.installed = "Succeeded" => worker.copy.checksum = worker.copy.spec
    /\ wf[worker.name] # NoWorkflow => worker.copy.checksum = wf[worker.name].spec

CountsInv == queue \subseteq Names /\ edits \in 0..MaxEdits /\ crashes \in 0..MaxCrashes

FleetInv == AddonsInv /\ WorkflowsInv /\ CacheInv /\ WorkerInv /\ CountsInv

\* Every spec of the fleet is one of Specs.
LEMMA InUseSpecs == InUse \subseteq DOMAIN Specs /\ \A a \in Names : MayHave[a] \subseteq InUse
BY FleetAssumption DEF InUse

\* A record for an addon is not the record for none.
LEMMA CopiesExist == NoAddon \notin Copies
<1>1. ASSUME NoAddon \in Copies PROVE FALSE
  <2>1. DOMAIN NoAddon = {"spec"} /\ "late" \in DOMAIN NoAddon
    BY <1>1 DEF Copies, NoAddon
  <2> QED
    BY <2>1
<1> QED
  BY <1>1

\* What a copy says stays true.
LEMMA CopyStays ==
  ASSUME NEW a, NEW o, CopyOf(a, o), done \subseteq done'
  PROVE  CopyOf(a, o)'
BY DEF CopyOf

\* What addAddonToCache records.
LEMMA EntryFields ==
  ASSUME NEW a, NEW o
  PROVE  LET e == Entry(a, o)
         IN e.name = a /\ e.phase = o.installed /\ <<e.pkg, e.ver>> = VersionOf(o.spec)
BY DEF Entry, VersionOf

\* A version cache from which something was removed is as true as before.
LEMMA CacheShrinks ==
  ASSUME CacheInv, cache' \subseteq cache, done \subseteq done'
  PROVE  CacheInv'
BY DEF CacheInv

\* Recording a copy that says the truth about its own spec keeps the version cache
\* true.
LEMMA CacheRecords ==
  ASSUME CacheInv, NEW a \in Names, NEW o \in Copies, done' = done,
         o.installed = "Succeeded" => VersionOf(o.spec) \in done,
         cache' = AddVersion(cache, Entry(a, o))
  PROVE  CacheInv'
<1> DEFINE n == Entry(a, o)
<1>1. o.spec \in InUse /\ o.installed \in Phases
  BY DEF Copies
<1>2. n.name = a /\ n.phase = o.installed /\ <<n.pkg, n.ver>> = VersionOf(o.spec)
  BY <1>1, EntryFields
<1> HIDE DEF n
<1>3. cache' = {e \in cache : ~(e.pkg = n.pkg /\ e.ver = n.ver)} \cup {n}
  BY DEF AddVersion, n
<1>4. ASSUME NEW e \in cache'
      PROVE  /\ e.name \in Names /\ e.phase \in Phases
             /\ \E s \in InUse : <<e.pkg, e.ver>> = VersionOf(s)
             /\ e.phase = "Succeeded" => <<e.pkg, e.ver>> \in done
  BY <1>1, <1>2, <1>3, <1>4 DEF CacheInv
<1> QED
  BY <1>4 DEF CacheInv

-----------------------------------------------------------------------------
\* Every step keeps the invariant

\* The types of the workflows.
Workflows == [Names -> [spec : InUse, phase : WorkflowPhases \ {"absent"}] \cup {NoWorkflow}]

\* A step writes what is true of an addon, and submits its workflow if it does.
LEMMA AddonAndWorkflow ==
  ASSUME AddonsInv, WorkflowsInv, NEW a \in Names, NEW o, done' = done,
         addons' = [addons EXCEPT ![a] = o], CopyOf(a, o), wf' \in Workflows,
         \A b \in Names : wf'[b] = wf[b] \/ (b = a /\ wf'[b].phase # "Succeeded"),
         wf'[a] # NoWorkflow => o.checksum = wf'[a].spec
  PROVE  AddonsInv' /\ WorkflowsInv'
<1>1. addons' \in [Names -> Copies \cup {NoAddon}] /\ addons'[a] = o
  BY DEF AddonsInv, CopyOf
<1>2. \A b \in Names : b # a => addons'[b] = addons[b]
  BY DEF AddonsInv
<1>3. o # NoAddon
  BY CopiesExist DEF CopyOf
<1>4. Present' = Present \cup {a}
  BY <1>1, <1>2, <1>3 DEF Present
<1>5. \A b \in Present' : CopyOf(b, addons'[b])
  BY <1>1, <1>2, <1>4 DEF AddonsInv, Present
<1>6. \A b \in Present' : CopyOf(b, addons[b])'
  BY <1>5 DEF CopyOf
<1>7. AddonsInv'
  BY <1>1, <1>6 DEF AddonsInv
<1>8. ASSUME NEW b \in Names, wf'[b] # NoWorkflow
      PROVE  /\ b \in Present' /\ addons'[b].checksum = wf'[b].spec
             /\ wf'[b].phase = "Succeeded" => VersionOf(wf'[b].spec) \in done
  BY <1>1, <1>2, <1>4, <1>8 DEF WorkflowsInv
<1> QED
  BY <1>7, <1>8 DEF WorkflowsInv, Workflows

\* A step that changes one addon and no workflow: it keeps the checksum if there is
\* a workflow for it, and what it writes is true.
LEMMA AddonChanges ==
  ASSUME AddonsInv, WorkflowsInv, NEW a \in Names, NEW o, done' = done, wf' = wf,
         addons' = [addons EXCEPT ![a] = o], CopyOf(a, o),
         wf[a] # NoWorkflow => o.checksum = wf[a].spec
  PROVE  AddonsInv' /\ WorkflowsInv'
<1>1. wf' \in Workflows
  BY DEF WorkflowsInv, Workflows
<1> QED
  BY <1>1, AddonAndWorkflow

\* An addon goes, and its workflow with it.
LEMMA AddonGoes ==
  ASSUME AddonsInv, WorkflowsInv, NEW a \in Names, done' = done,
         addons' = [addons EXCEPT ![a] = NoAddon], wf' = [wf EXCEPT ![a] = NoWorkflow]
  PROVE  AddonsInv' /\ WorkflowsInv'
<1>1. addons' \in [Names -> Copies \cup {NoAddon}] /\ addons'[a] = NoAddon
  BY DEF AddonsInv
<1>2. \A b \in Names : b # a => addons'[b] = addons[b] /\ wf'[b] = wf[b]
  BY DEF AddonsInv, WorkflowsInv
<1>3. wf'[a] = NoWorkflow
  BY DEF WorkflowsInv
<1>4. Present' = Present \ {a}
  BY <1>1, <1>2 DEF Present
<1>5. \A b \in Present' : CopyOf(b, addons'[b])
  BY <1>2, <1>4 DEF AddonsInv, Present
<1>6. \A b \in Present' : CopyOf(b, addons[b])'
  BY <1>5 DEF CopyOf
<1>7. AddonsInv'
  BY <1>1, <1>6 DEF AddonsInv
<1>8. wf' \in [Names -> [spec : InUse, phase : WorkflowPhases \ {"absent"}] \cup {NoWorkflow}]
  BY DEF WorkflowsInv
<1>9. ASSUME NEW b \in Names, wf'[b] # NoWorkflow
      PROVE  /\ b \in Present' /\ addons'[b].checksum = wf'[b].spec
             /\ wf'[b].phase = "Succeeded" => VersionOf(wf'[b].spec) \in done
  BY <1>2, <1>3, <1>4, <1>9 DEF WorkflowsInv
<1> QED
  BY <1>7, <1>8, <1>9 DEF WorkflowsInv

\* A worker that keeps its copy stays right as long as no workflow is submitted.
LEMMA WorkerStays ==
  ASSUME WorkerInv, worker' = worker, done \subseteq done',
         \A a \in Names : wf'[a] # NoWorkflow => wf[a] # NoWorkflow /\ wf'[a].spec = wf[a].spec
  PROVE  WorkerInv'
<1> SUFFICES ASSUME worker # NoWork
             PROVE  /\ CopyOf(worker.name, worker.copy)'
                    /\ wf'[worker.name] # NoWorkflow => worker.copy.checksum = wf'[worker.name].spec
  BY DEF WorkerInv
<1> QED
  BY DEF WorkerInv, CopyOf

\* A worker is right with a copy that is.
LEMMA WorkerHolds ==
  ASSUME NEW a \in Names, NEW o, NEW again, done' = done, CopyOf(a, o),
         worker' = [name |-> a, copy |-> o, again |-> again],
         o.installed = "Succeeded" => o.checksum = o.spec,
         wf'[a] # NoWorkflow => o.checksum = wf'[a].spec
  PROVE  WorkerInv'
<1>1. worker'.name = a /\ worker'.copy = o /\ worker'.again = again
  OBVIOUS
<1> QED
  BY <1>1 DEF WorkerInv, CopyOf

\* Users create, edit and delete addons.
LEMMA UsersStep ==
  ASSUME FleetInv, NEW a \in Names,
         CreateAddon(a) \/ (\E s \in MayHave[a] : EditAddon(a, s)) \/ DeleteAddon(a)
  PROVE  FleetInv'
<1> USE DEF FleetInv
<1>1. PICK o : Edited(a, o)
  BY Zenon DEF CreateAddon, EditAddon, DeleteAddon
<1>2. done' = done /\ cache' = cache /\ worker' = worker /\ addons' = [addons EXCEPT ![a] = o]
  BY <1>1 DEF Edited
<1>3. CountsInv'
  BY <1>1, FleetAssumption DEF Edited, CountsInv
<1>4. CacheInv'
  BY <1>2, CacheShrinks
<1>5. CASE CreateAddon(a)
  <2> DEFINE n == [spec |-> First[a], checksum |-> "none", installed |-> "", deleting |-> FALSE,
                   finalizer |-> FALSE, late |-> FALSE]
  <2>1. CopyOf(a, n)
    BY FleetAssumption, InUseSpecs DEF CopyOf, Copies, Phases
  <2>2. addons' = [addons EXCEPT ![a] = n] /\ wf' = wf
    BY <1>5 DEF CreateAddon, Edited
  <2>3. wf[a] = NoWorkflow
    BY <1>5 DEF CreateAddon, WorkflowsInv, Present
  <2> HIDE DEF n
  <2> QED
    BY <1>2, <1>3, <1>4, <2>1, <2>2, <2>3, AddonChanges, WorkerStays
<1>6. ASSUME NEW s \in MayHave[a], EditAddon(a, s)
      PROVE  FleetInv'
  <2> DEFINE n == [addons[a] EXCEPT !.spec = s]
  <2>1. CopyOf(a, addons[a])
    BY <1>6 DEF EditAddon, AddonsInv
  <2>2. CopyOf(a, n) /\ n.checksum = addons[a].checksum
    BY <2>1, InUseSpecs DEF CopyOf, Copies
  <2>3. addons' = [addons EXCEPT ![a] = n] /\ wf' = wf
    BY <1>6 DEF EditAddon, Edited
  <2>4. wf[a] # NoWorkflow => n.checksum = wf[a].spec
    BY <2>2 DEF WorkflowsInv
  <2> HIDE DEF n
  <2> QED
    BY <1>2, <1>3, <1>4, <2>2, <2>3, <2>4, AddonChanges, WorkerStays
<1>7. CASE DeleteAddon(a) /\ addons[a].finalizer
  <2> DEFINE n == [addons[a] EXCEPT !.deleting = TRUE]
  <2>1. CopyOf(a, addons[a])
    BY <1>7 DEF DeleteAddon, AddonsInv
  <2>2. CopyOf(a, n) /\ n.checksum = addons[a].checksum
    BY <2>1 DEF CopyOf, Copies
  <2>3. addons' = [addons EXCEPT ![a] = n] /\ wf' = wf
    BY <1>7 DEF DeleteAddon, Edited
  <2>4. wf[a] # NoWorkflow => n.checksum = wf[a].spec
    BY <2>2 DEF WorkflowsInv
  <2> HIDE DEF n
  <2> QED
    BY <1>2, <1>3, <1>4, <2>2, <2>3, <2>4, AddonChanges, WorkerStays
<1>8. CASE DeleteAddon(a) /\ ~addons[a].finalizer
  <2>1. addons' = [addons EXCEPT ![a] = NoAddon] /\ wf' = [wf EXCEPT ![a] = NoWorkflow]
    BY <1>8 DEF DeleteAddon, Edited
  <2>2. \A b \in Names : wf'[b] # NoWorkflow => wf'[b] = wf[b]
    BY <2>1 DEF WorkflowsInv
  <2> QED
    BY <1>2, <1>3, <1>4, <2>1, <2>2, AddonGoes, WorkerStays
<1> QED
  BY <1>5, <1>6, <1>7, <1>8

\* Time passes for an addon and for the worker's copy of it.
LEMMA WaitStep ==
  ASSUME FleetInv, NEW a \in Names, Wait(a)
  PROVE  FleetInv'
<1> USE DEF FleetInv
<1> DEFINE n == [addons[a] EXCEPT !.late = TRUE]
<1>1. CopyOf(a, addons[a])
  BY DEF Wait, AddonsInv
<1>2. CopyOf(a, n) /\ n.checksum = addons[a].checksum
  BY <1>1 DEF CopyOf, Copies
<1>3. addons' = [addons EXCEPT ![a] = n]
  BY DEF Wait, AddonsInv
<1>4. wf[a] # NoWorkflow => n.checksum = wf[a].spec
  BY <1>2 DEF WorkflowsInv
<1>5. wf' = wf /\ done' = done /\ cache' = cache /\ CountsInv'
  BY DEF Wait, CountsInv
<1> HIDE DEF n
<1>6. AddonsInv' /\ WorkflowsInv' /\ CacheInv'
  BY <1>2, <1>3, <1>4, <1>5, AddonChanges, CacheShrinks
<1>7. CASE worker.name # a
  <2>1. worker' = worker
    BY <1>7 DEF Wait
  <2> QED
    BY <1>5, <1>6, <2>1, WorkerStays
<1>8. CASE worker.name = a
  <2>1. worker # NoWork
    BY <1>8, FleetAssumption DEF NoWork
  <2> DEFINE m == [worker.copy EXCEPT !.late = TRUE]
  <2>2. CopyOf(worker.name, worker.copy)
    BY <2>1 DEF WorkerInv
  <2>3. /\ CopyOf(worker.name, m) /\ m.checksum = worker.copy.checksum /\ m.spec = worker.copy.spec
        /\ m.installed = worker.copy.installed
    BY <2>2 DEF CopyOf, Copies
  <2>4. worker' = [worker EXCEPT !.copy = m]
    BY <1>8, <2>1 DEF Wait, WorkerInv
  <2> HIDE DEF m
  <2>5. worker' = [name |-> worker.name, copy |-> m, again |-> worker.again]
    BY <2>1, <2>4 DEF WorkerInv
  <2>6. worker.name \in Names /\ (m.installed = "Succeeded" => m.checksum = m.spec)
    BY <2>1, <2>3 DEF WorkerInv
  <2>7. wf'[worker.name] # NoWorkflow => m.checksum = wf'[worker.name].spec
    BY <1>5, <2>1, <2>3 DEF WorkerInv
  <2>8. WorkerInv'
    BY <1>5, <2>3, <2>5, <2>6, <2>7, WorkerHolds
  <2> QED
    BY <1>5, <1>6, <2>8
<1> QED
  BY <1>7, <1>8

\* A workflow ends; if it succeeds that is remembered.
LEMMA EndStep ==
  ASSUME FleetInv, NEW a \in Names, NEW phase \in {"Succeeded", "Failed"}, EndWorkflow(a, phase)
  PROVE  FleetInv'
<1> USE DEF FleetInv
<1>1. /\ addons' = addons /\ cache' = cache /\ worker' = worker /\ done \subseteq done' /\ CountsInv'
      /\ Present' = Present
  BY DEF EndWorkflow, CountsInv, Present
<1>2. wf[a] # NoWorkflow
  BY DEF EndWorkflow, NoWorkflow
<1>3. wf[a] \in [spec : InUse, phase : WorkflowPhases \ {"absent"}]
  BY <1>2 DEF WorkflowsInv
<1>4. wf'[a] \in [spec : InUse, phase : WorkflowPhases \ {"absent"}]
  BY <1>3 DEF EndWorkflow, WorkflowsInv, WorkflowPhases
<1>5. wf'[a].spec = wf[a].spec /\ wf'[a].phase = phase
  BY <1>3 DEF EndWorkflow, WorkflowsInv
<1>6. \A b \in Names : b # a => wf'[b] = wf[b]
  BY DEF EndWorkflow, WorkflowsInv
<1>7. phase = "Succeeded" => VersionOf(wf[a].spec) \in done'
  BY DEF EndWorkflow, Version, VersionOf
<1>8. wf' \in [Names -> [spec : InUse, phase : WorkflowPhases \ {"absent"}] \cup {NoWorkflow}]
  BY <1>4 DEF EndWorkflow, WorkflowsInv
<1>9. WorkflowsInv'
  BY <1>1, <1>2, <1>5, <1>6, <1>7, <1>8 DEF WorkflowsInv
<1>10. AddonsInv'
  <2>1. \A b \in Present : CopyOf(b, addons[b])'
    BY <1>1 DEF AddonsInv, CopyOf
  <2> QED
    BY <1>1, <2>1 DEF AddonsInv
<1>11. WorkerInv'
  BY <1>1, <1>2, <1>5, <1>6, WorkerStays
<1> QED
  BY <1>1, <1>9, <1>10, <1>11, CacheShrinks

\* A status that is written over that of addon a, and recorded for it.
LEMMA WrittenStep ==
  ASSUME FleetInv, NEW a \in Present, NEW o, CopyOf(a, o), addons' = Written(a, o),
         o.installed = "Succeeded" => VersionOf(o.spec) \in done,
         wf[a] # NoWorkflow => o.checksum = wf[a].spec,
         cache' = AddVersion(cache, Entry(a, o)), done' = done, wf' = wf
  PROVE  AddonsInv' /\ WorkflowsInv' /\ CacheInv'
<1> USE DEF FleetInv
<1> DEFINE n == [addons[a] EXCEPT !.checksum = o.checksum, !.installed = o.installed, !.late = o.late]
<1>1. a \in Names /\ CopyOf(a, addons[a])
  BY DEF AddonsInv, Present
<1>2. CopyOf(a, n) /\ n.checksum = o.checksum
  BY <1>1 DEF CopyOf, Copies
<1>3. addons' = [addons EXCEPT ![a] = n]
  BY <1>1 DEF Written, AddonsInv
<1> HIDE DEF n
<1>4. AddonsInv' /\ WorkflowsInv'
  BY <1>1, <1>2, <1>3, AddonChanges
<1>5. CacheInv'
  BY <1>1, CacheRecords DEF CopyOf
<1> QED
  BY <1>4, <1>5

\* The worker's UpdateStatus.
LEMMA UpdateStep ==
  ASSUME FleetInv, UpdateStatus
  PROVE  FleetInv'
<1> USE DEF FleetInv
<1> DEFINE a == worker.name
           o == worker.copy
           fails == a \notin Present \/ RaceGuard(a, o)
<1>1. /\ worker # NoWork /\ worker' = NoWork /\ wf' = wf /\ done' = done
      /\ addons' = IF fails THEN addons ELSE Written(a, o)
      /\ cache' = IF fails THEN cache ELSE AddVersion(cache, Entry(a, o))
      /\ queue' \subseteq queue \cup {a} /\ edits' = edits /\ crashes' = crashes
  BY DEF UpdateStatus
<1>2. /\ a \in Names /\ CopyOf(a, o)
      /\ o.installed = "Succeeded" => o.checksum = o.spec
      /\ wf[a] # NoWorkflow => o.checksum = wf[a].spec
  BY <1>1 DEF WorkerInv
<1>3. o.installed = "Succeeded" => VersionOf(o.spec) \in done
  BY <1>2 DEF CopyOf
<1>4. CountsInv' /\ WorkerInv'
  BY <1>1, <1>2 DEF CountsInv, WorkerInv
<1> HIDE DEF a, o
<1>5. CASE fails
  <2>1. addons' = addons /\ cache' = cache
    BY <1>1, <1>5
  <2>2. Present' = Present /\ \A b \in Present : CopyOf(b, addons[b])'
    BY <1>1, <2>1 DEF Present, AddonsInv, CopyOf
  <2>3. AddonsInv' /\ WorkflowsInv'
    BY <1>1, <2>1, <2>2 DEF AddonsInv, WorkflowsInv
  <2> QED
    BY <1>1, <1>4, <2>1, <2>3, CacheShrinks
<1>6. CASE ~fails
  <2>1. a \in Present
    BY <1>6
  <2>2. addons' = Written(a, o) /\ cache' = AddVersion(cache, Entry(a, o))
    BY <1>1, <1>6
  <2> QED
    BY <1>1, <1>2, <1>3, <1>4, <2>1, <2>2, WrittenStep
<1> QED
  BY <1>5, <1>6

\* The phase of a workflow, as that of an addon.
LEMMA PhaseRead ==
  ASSUME NEW p \in WorkflowPhases
  PROVE  /\ ConvertWorkflowPhaseToAddonPhase("install", p) \in Phases
         /\ ConvertWorkflowPhaseToAddonPhase("install", p) = "Succeeded" => p = "Succeeded"
BY DEF ConvertWorkflowPhaseToAddonPhase, WorkflowPhases, Phases

\* The report of the workflow controller.
LEMMA ReportStep ==
  ASSUME FleetInv, NEW a \in Names, ReportWorkflow(a)
  PROVE  FleetInv'
<1> USE DEF FleetInv
<1> DEFINE p == ConvertWorkflowPhaseToAddonPhase("install", wf[a].phase)
           o == [addons[a] EXCEPT !.installed = p]
<1>1. /\ a \in Present /\ wf[a].spec = addons[a].spec /\ wf[a] # NoWorkflow
      /\ addons' = Written(a, o) /\ cache' = AddVersion(cache, Entry(a, o))
      /\ wf' = wf /\ worker' = worker /\ done' = done
  BY DEF ReportWorkflow, NoWorkflow
<1>2. CountsInv'
  BY DEF ReportWorkflow, CountsInv
<1>3. /\ wf[a].spec \in InUse /\ wf[a].phase \in WorkflowPhases /\ addons[a].checksum = wf[a].spec
      /\ wf[a].phase = "Succeeded" => VersionOf(wf[a].spec) \in done
  BY <1>1 DEF WorkflowsInv
<1>4. p \in Phases /\ (p = "Succeeded" => wf[a].phase = "Succeeded")
  BY <1>3, PhaseRead
<1> HIDE DEF p
<1>5. CopyOf(a, addons[a])
  BY <1>1 DEF AddonsInv
<1>6. /\ CopyOf(a, o) /\ o.checksum = wf[a].spec
      /\ o.installed = "Succeeded" => VersionOf(o.spec) \in done
  BY <1>1, <1>3, <1>4, <1>5 DEF CopyOf, Copies
<1> HIDE DEF o
<1>7. AddonsInv' /\ WorkflowsInv' /\ CacheInv'
  BY <1>1, <1>6, WrittenStep
<1> QED
  BY <1>1, <1>2, <1>7, WorkerStays

\* A pass that writes nothing before UpdateStatus: it takes copy o there, and may
\* have deleted the workflow of the addon.
LEMMA QuietPass ==
  ASSUME FleetInv, NEW a \in Names, NEW o, NEW again, CopyOf(a, o),
         o.installed = "Succeeded" => o.checksum = o.spec,
         addons' = addons, cache' = cache, UNCHANGED unchangedByPass, Update(a, o, again),
         \/ wf' = wf /\ (wf[a] # NoWorkflow => o.checksum = wf[a].spec)
         \/ wf' = [wf EXCEPT ![a] = NoWorkflow]
  PROVE  FleetInv'
<1> USE DEF FleetInv
<1>1. /\ done' = done /\ queue' \subseteq queue /\ edits' = edits /\ crashes' = crashes
      /\ worker' = [name |-> a, copy |-> o, again |-> again]
  BY DEF Update, unchangedByPass
<1>2. CountsInv'
  BY <1>1 DEF CountsInv
<1>3. Present' = Present
  BY DEF Present
<1>4. AddonsInv'
  <2>1. \A b \in Present : CopyOf(b, addons[b])'
    BY <1>1 DEF AddonsInv, CopyOf
  <2> QED
    BY <1>3, <2>1 DEF AddonsInv
<1>5. \A b \in Names : wf'[b] # NoWorkflow => wf'[b] = wf[b]
  BY DEF WorkflowsInv
<1>6. wf' \in [Names -> [spec : InUse, phase : WorkflowPhases \ {"absent"}] \cup {NoWorkflow}]
  BY DEF WorkflowsInv
<1>7. WorkflowsInv'
  BY <1>1, <1>3, <1>5, <1>6 DEF WorkflowsInv
<1>8. wf'[a] # NoWorkflow => o.checksum = wf'[a].spec
  BY DEF WorkflowsInv
<1>9. WorkerInv'
  BY <1>1, <1>8, WorkerHolds
<1> QED
  BY <1>1, <1>2, <1>4, <1>7, <1>9, CacheShrinks

\* The parts of a pass that install nothing.
LEMMA OtherPasses ==
  ASSUME FleetInv, NEW a \in Names,
         ReconcileGone(a) \/ MarkDeleting(a) \/ Finalize(a) \/ ProcessChanged(a) \/ ProcessCompleted(a)
  PROVE  FleetInv'
<1> USE DEF FleetInv
<1>1. a \in Present => CopyOf(a, addons[a]) /\ (wf[a] # NoWorkflow => addons[a].checksum = wf[a].spec)
  BY DEF AddonsInv, WorkflowsInv
<1>2. CASE ReconcileGone(a)
  <2>1. cache' \subseteq cache /\ queue' \subseteq queue
    BY <1>2 DEF ReconcileGone, RemoveVersion
  <2>2. /\ addons' = addons /\ wf' = wf /\ worker' = worker /\ done' = done
        /\ edits' = edits /\ crashes' = crashes
    BY <1>2 DEF ReconcileGone, unchangedByPass
  <2>3. Present' = Present /\ \A b \in Present : CopyOf(b, addons[b])'
    BY <2>2 DEF Present, AddonsInv, CopyOf
  <2>4. AddonsInv' /\ WorkflowsInv'
    BY <2>2, <2>3 DEF AddonsInv, WorkflowsInv
  <2>5. CountsInv'
    BY <2>1, <2>2 DEF CountsInv
  <2> QED
    BY <2>1, <2>2, <2>4, <2>5, CacheShrinks, WorkerStays
<1>3. CASE MarkDeleting(a)
  <2> DEFINE o == [addons[a] EXCEPT !.installed = "Deleting"]
  <2>1. /\ a \in Present /\ addons' = addons /\ wf' = wf /\ cache' = cache
        /\ UNCHANGED unchangedByPass /\ Update(a, o, FALSE)
    BY <1>3 DEF MarkDeleting
  <2>2. CopyOf(a, o) /\ o.checksum = addons[a].checksum /\ o.installed # "Succeeded"
    BY <1>1, <2>1 DEF CopyOf, Copies, Phases
  <2> HIDE DEF o
  <2> QED
    BY <1>1, <2>1, <2>2, QuietPass
<1>4. CASE Finalize(a)
  <2>1. /\ addons' = [addons EXCEPT ![a] = NoAddon] /\ wf' = [wf EXCEPT ![a] = NoWorkflow]
        /\ cache' \subseteq cache /\ queue' = queue /\ worker' = worker /\ done' = done
        /\ edits' = edits /\ crashes' = crashes
    BY <1>4 DEF Finalize, RemoveVersion, unchangedByPass
  <2>2. \A b \in Names : wf'[b] # NoWorkflow => wf'[b] = wf[b]
    BY <2>1 DEF WorkflowsInv
  <2>3. CountsInv'
    BY <2>1 DEF CountsInv
  <2> QED
    BY <2>1, <2>2, <2>3, AddonGoes, CacheShrinks, WorkerStays
<1>5. CASE ProcessChanged(a)
  <2> DEFINE o == [addons[a] EXCEPT !.checksum = addons[a].spec, !.installed = "Pending",
                                    !.late = FALSE]
  <2>1. /\ a \in Present /\ addons' = addons /\ wf' = [wf EXCEPT ![a] = NoWorkflow] /\ cache' = cache
        /\ UNCHANGED unchangedByPass /\ Update(a, o, TRUE)
    BY <1>5 DEF ProcessChanged, Installing
  <2>2. CopyOf(a, o) /\ o.installed # "Succeeded"
    BY <1>1, <2>1 DEF CopyOf, Copies, Phases
  <2> HIDE DEF o
  <2> QED
    BY <2>1, <2>2, QuietPass
<1>6. CASE ProcessCompleted(a)
  <2>1. /\ a \in Present /\ addons[a].checksum = addons[a].spec /\ addons' = addons /\ wf' = wf
        /\ cache' = cache /\ UNCHANGED unchangedByPass /\ Update(a, addons[a], FALSE)
    BY <1>6 DEF ProcessCompleted, Installing
  <2> QED
    BY <1>1, <2>1, QuietPass
<1> QED
  BY <1>2, <1>3, <1>4, <1>5, <1>6

\* A pass that installs the addon: the finalizer, the workflow, and the copy that
\* says how far it is.
LEMMA RunStep ==
  ASSUME FleetInv, NEW a \in Present, addons[a].checksum = addons[a].spec, Run(a),
         cache' = cache, UNCHANGED unchangedByPass
  PROVE  FleetInv'
<1> USE DEF FleetInv
<1> DEFINE n == [addons[a] EXCEPT !.finalizer = TRUE]
<1>1. a \in Names /\ CopyOf(a, addons[a]) /\ (wf[a] # NoWorkflow => addons[a].checksum = wf[a].spec)
  BY DEF AddonsInv, WorkflowsInv, Present
<1>2. CopyOf(a, n) /\ n.checksum = addons[a].checksum
  BY <1>1 DEF CopyOf, Copies
<1>3. addons' = [addons EXCEPT ![a] = n] /\ done' = done /\ edits' = edits /\ crashes' = crashes
  BY <1>1 DEF Run, AddonsInv, unchangedByPass
<1> HIDE DEF n
<1>4. \E o, again : Update(a, o, again)
  BY Zenon DEF Run
<1>5. CountsInv'
  BY <1>3, <1>4 DEF CountsInv, Update
<1>6. CASE addons[a].late
  <2> DEFINE o == [addons[a] EXCEPT !.finalizer = TRUE, !.installed = "Failed"]
  <2>1. wf' = wf /\ Update(a, o, TRUE)
    BY <1>6 DEF Run
  <2>2. CopyOf(a, o) /\ o.checksum = addons[a].checksum /\ o.installed # "Succeeded"
    BY <1>1 DEF CopyOf, Copies, Phases
  <2>3. worker' = [name |-> a, copy |-> o, again |-> TRUE]
    BY <2>1 DEF Update
  <2> HIDE DEF o
  <2>4. AddonsInv' /\ WorkflowsInv'
    BY <1>1, <1>2, <1>3, <2>1, AddonChanges
  <2>5. WorkerInv'
    BY <1>1, <1>3, <2>1, <2>2, <2>3, WorkerHolds
  <2> QED
    BY <1>3, <1>5, <2>4, <2>5, CacheShrinks
<1>7. CASE ~addons[a].late
  <2> DEFINE p == ConvertWorkflowPhaseToAddonPhase("install", wf'[a].phase)
             o == [addons[a] EXCEPT !.finalizer = TRUE, !.installed = p]
  <2>1. /\ wf' = IF wf[a] # NoWorkflow THEN wf
                 ELSE [wf EXCEPT ![a] = [spec |-> addons[a].spec, phase |-> "Running"]]
        /\ Update(a, o, Running(p))
    BY <1>7 DEF Run
  <2>2. wf' \in Workflows
    BY <1>1, <2>1 DEF WorkflowsInv, Workflows, WorkflowPhases, CopyOf, Copies
  <2>3. /\ wf'[a] # NoWorkflow /\ wf'[a].spec = addons[a].checksum
        /\ wf'[a].phase = "Succeeded" => VersionOf(wf'[a].spec) \in done
        /\ wf'[a] = wf[a] \/ wf'[a].phase # "Succeeded"
    BY <1>1, <2>1 DEF WorkflowsInv, NoWorkflow
  <2>4. \A b \in Names : b # a => wf'[b] = wf[b]
    BY <2>1 DEF WorkflowsInv
  <2>5. wf'[a].phase \in WorkflowPhases /\ wf'[a].spec \in InUse
    BY <1>1, <2>2, <2>3 DEF Workflows
  <2>6. p \in Phases /\ (p = "Succeeded" => wf'[a].phase = "Succeeded")
    BY <2>5, PhaseRead
  <2>7. worker' = [name |-> a, copy |-> o, again |-> Running(p)]
    BY <2>1 DEF Update
  <2> HIDE DEF p
  <2>8. CopyOf(a, o) /\ o.checksum = addons[a].checksum /\ o.spec = addons[a].spec
    BY <1>1, <2>3, <2>5, <2>6 DEF CopyOf, Copies
  <2> HIDE DEF o
  <2>9. AddonsInv' /\ WorkflowsInv'
    BY <1>1, <1>2, <1>3, <2>2, <2>3, <2>4, AddonAndWorkflow
  <2>10. WorkerInv'
    BY <1>1, <1>3, <2>3, <2>7, <2>8, WorkerHolds
  <2> QED
    BY <1>3, <1>5, <2>9, <2>10, CacheShrinks
<1> QED
  BY <1>6, <1>7

\* A pass that validates the addon.
LEMMA ValidateStep ==
  ASSUME FleetInv, NEW a \in Names, ProcessValidate(a)
  PROVE  FleetInv'
<1>1. a \in Present /\ addons[a].checksum = addons[a].spec /\ cache' = cache /\ UNCHANGED unchangedByPass
  BY DEF ProcessValidate, Installing
<1>2. CASE Run(a)
  BY <1>1, <1>2, RunStep
<1>3. ASSUME NEW p \in {"Pending", "ValidationFailed"}, addons' = addons, wf' = wf,
             Update(a, [addons[a] EXCEPT !.installed = p], TRUE)
      PROVE  FleetInv'
  <2> DEFINE o == [addons[a] EXCEPT !.installed = p]
  <2>1. CopyOf(a, addons[a]) /\ (wf[a] # NoWorkflow => addons[a].checksum = wf[a].spec)
    BY <1>1 DEF FleetInv, AddonsInv, WorkflowsInv
  <2>2. CopyOf(a, o) /\ o.checksum = addons[a].checksum /\ o.installed # "Succeeded"
    BY <2>1 DEF CopyOf, Copies, Phases
  <2>3. Update(a, o, TRUE)
    BY <1>3
  <2> HIDE DEF o
  <2> QED
    BY <1>1, <1>3, <2>1, <2>2, <2>3, QuietPass
<1>4. \/ Run(a)
      \/ \E p \in {"Pending", "ValidationFailed"} :
           addons' = addons /\ wf' = wf /\ Update(a, [addons[a] EXCEPT !.installed = p], TRUE)
  BY DEF ProcessValidate
<1> QED
  BY <1>2, <1>3, <1>4

\* Every step keeps the invariant.
LEMMA FleetStep ==
  ASSUME FleetInv, [Next]_vars
  PROVE  FleetInv'
<1>1. CASE Crash
  <2>1. /\ cache' = {} /\ worker' = NoWork /\ addons' = addons /\ wf' = wf /\ done' = done
        /\ Present' = Present
    BY <1>1 DEF Crash, Present
  <2>2. CountsInv'
    BY <1>1, FleetAssumption DEF Crash, FleetInv, CountsInv, Present
  <2>3. \A b \in Present : CopyOf(b, addons[b])'
    BY <2>1 DEF FleetInv, AddonsInv, CopyOf
  <2>4. AddonsInv' /\ WorkflowsInv'
    BY <2>1, <2>3 DEF FleetInv, AddonsInv, WorkflowsInv
  <2> QED
    BY <2>1, <2>2, <2>4, CacheShrinks DEF FleetInv, WorkerInv
<1>2. CASE UNCHANGED vars
  <2>1. /\ addons' = addons /\ wf' = wf /\ cache' = cache /\ queue' = queue /\ worker' = worker
        /\ done' = done /\ edits' = edits /\ crashes' = crashes /\ Present' = Present
    BY <1>2 DEF vars, Present
  <2>2. \A b \in Present : CopyOf(b, addons[b])'
    BY <2>1 DEF FleetInv, AddonsInv, CopyOf
  <2>3. AddonsInv' /\ WorkflowsInv' /\ CountsInv'
    BY <2>1, <2>2 DEF FleetInv, AddonsInv, WorkflowsInv, CountsInv
  <2> QED
    BY <2>1, <2>3, CacheShrinks, WorkerStays DEF FleetInv
<1>3. ASSUME NEW a \in Names, Pass(a)
      PROVE  FleetInv'
  BY Zenon, <1>3, OtherPasses, ValidateStep DEF Pass
<1> QED
  BY Zenon, <1>1, <1>2, <1>3, UsersStep, WaitStep, EndStep, ReportStep, UpdateStep DEF Next

-----------------------------------------------------------------------------
\* The theorems

\* In the initial state nothing is claimed.
LEMMA FleetInit ==
  ASSUME Init
  PROVE  FleetInv
<1>1. Present = {}
  BY DEF Init, Present
<1>2. AddonsInv
  BY <1>1 DEF Init, AddonsInv
<1>3. WorkflowsInv /\ CacheInv /\ WorkerInv /\ CountsInv
  BY FleetAssumption DEF Init, WorkflowsInv, CacheInv, WorkerInv, CountsInv
<1> QED
  BY <1>2, <1>3 DEF FleetInv

\* What the addons, the workflows, the version cache and the worker say of each
\* other stays true, through edits, deletions and restarts.
THEOREM FleetInvAlways == Spec => []FleetInv
<1>1. Init => FleetInv
  BY FleetInit
<1>2. FleetInv /\ [Next]_vars => FleetInv'
  BY FleetStep
<1> QED
  BY <1>1, <1>2, PTL DEF Spec

\* Type correctness of the fleet: what is recorded of a workflow, in particular, is
\* a phase of addons.
THEOREM FleetTypes == Spec => []TypeOK
<1>1. FleetInv => TypeOK
  <2> SUFFICES ASSUME FleetInv PROVE TypeOK
    OBVIOUS
  <2>1. \A a \in Present : /\ addons[a].spec \in MayHave[a]
                           /\ addons[a].checksum \in MayHave[a] \cup {"none"}
                           /\ addons[a].installed \in Phases
                           /\ {addons[a].deleting, addons[a].finalizer, addons[a].late} \subseteq BOOLEAN
    BY DEF FleetInv, AddonsInv, CopyOf, Copies
  <2>2. \A a \in Names : wf[a].phase \in WorkflowPhases
    BY DEF FleetInv, WorkflowsInv, WorkflowPhases, NoWorkflow
  <2>3. \A e \in cache : e.name \in Names /\ e.phase \in Phases
    BY DEF FleetInv, CacheInv
  <2>4. worker = NoWork \/ worker.name \in Names
    BY DEF FleetInv, WorkerInv
  <2> QED
    BY <2>1, <2>2, <2>3, <2>4 DEF FleetInv, CountsInv, TypeOK
<1> QED
  BY <1>1, FleetInvAlways, PTL

\* A workflow is submitted only by a pass that found the addon valid.
LEMMA Validated ==
  ASSUME FleetInv, [Next]_vars, NEW a \in Names, Submits(a)
  PROVE  a \in Present /\ "ok" \in Validate(cache, Package(a, addons[a]))
<1>1. wf'[a] # wf[a] /\ wf'[a] # NoWorkflow /\ wf[a] = NoWorkflow /\ wf \in Workflows
  BY DEF Submits, FleetInv, WorkflowsInv, Workflows
<1>2. ASSUME NEW b \in Names, ProcessValidate(b)
      PROVE  a \in Present /\ "ok" \in Validate(cache, Package(a, addons[a]))
  <2>1. b \in Present /\ "ok" \in Validate(cache, Package(b, addons[b])) /\ Run(b)
    BY Zenon, <1>1, <1>2 DEF ProcessValidate, Installing
  <2>2. b = a
    BY <1>1, <2>1 DEF Run, Workflows
  <2> QED
    BY <2>1, <2>2
<1>3. ASSUME NEW b \in Names,
             \/ DeleteAddon(b) \/ (\E phase \in {"Succeeded", "Failed"} : EndWorkflow(b, phase))
             \/ Finalize(b) \/ ProcessChanged(b)
      PROVE  FALSE
  <2>1. wf'[a] = wf[a] \/ wf'[a] = NoWorkflow \/ wf[a].phase = "Running"
    BY <1>1, <1>3 DEF DeleteAddon, EndWorkflow, Finalize, ProcessChanged, Workflows
  <2> QED
    BY <1>1, <2>1 DEF NoWorkflow
<1>4. ASSUME NEW b \in Names,
             \/ CreateAddon(b) \/ (\E s \in MayHave[b] : EditAddon(b, s)) \/ Wait(b) \/ ReportWorkflow(b)
             \/ ReconcileGone(b) \/ MarkDeleting(b) \/ ProcessCompleted(b)
      PROVE  FALSE
  BY Zenon, <1>1, <1>4
  DEF CreateAddon, EditAddon, Wait, ReportWorkflow, ReconcileGone, MarkDeleting, ProcessCompleted
<1>5. CASE UpdateStatus \/ Crash \/ UNCHANGED vars
  BY Zenon, <1>1, <1>5 DEF UpdateStatus, Crash, vars
<1> QED
  BY Zenon, <1>2, <1>3, <1>4, <1>5 DEF Next, Pass

\* The dependencies of every addon are ones among which the loop leaves out none.
NoEarlyReturn == \A s \in InUse : AllLookedAt(Specs[s].deps)

\* Every version of the fleet satisfies "*", as every semver release does.
Releases == \A s \in InUse : <<"*", Specs[s].ver>> \in Satisfies

\* In a fleet in which no addon has a dependency beside one on a given version, the
\* workflow of an addon is submitted only when what it depends on has been
\* installed before.
THEOREM DependenciesFirst ==
  ASSUME NoEarlyReturn, Releases
  PROVE  Spec => DependentsWait
<1>1. ASSUME FleetInv, [Next]_vars, NEW a \in Names, Submits(a),
             NEW d \in Specs[addons[a].spec].deps
      PROVE  \E v \in done : Meets(v, d)
  <2> DEFINE n == Package(a, addons[a])
  <2>1. a \in Present /\ "ok" \in Validate(cache, n)
    BY <1>1, Validated
  <2>2. addons[a].spec \in InUse
    BY <1>1, <2>1 DEF FleetInv, AddonsInv, CopyOf, Copies
  <2>3. n.deps = Specs[addons[a].spec].deps
    BY DEF Package
  <2> HIDE DEF n
  <2>4. "ok" \in ValidateDependencies(cache, n)
    BY <2>1, AllChecksPassed
  <2>5. Recorded(cache, d)
    BY <1>1, <2>2, <2>3, <2>4, DependenciesRecorded DEF NoEarlyReturn
  <2>6. PICK e \in cache : /\ e.pkg = d[1] /\ e.phase = "Succeeded"
                           /\ d[2] = "*" \/ e.ver = d[2] \/ <<d[2], e.ver>> \in Satisfies
    BY <2>5 DEF Recorded
  <2>7. <<e.pkg, e.ver>> \in done /\ <<"*", e.ver>> \in Satisfies
    BY <1>1, <2>6 DEF FleetInv, CacheInv, Releases, VersionOf
  <2>8. Meets(<<e.pkg, e.ver>>, d)
    BY <2>6, <2>7 DEF Meets
  <2> QED
    BY <2>7, <2>8
<1>2. FleetInv /\ [Next]_vars =>
        [\A a \in Names : Submits(a) =>
           \A d \in Specs[addons[a].spec].deps : \E v \in done : Meets(v, d)]_vars
  BY Zenon, <1>1
<1> QED
  BY <1>2, FleetInvAlways, PTL DEF Spec, DependentsWait

=============================================================================
