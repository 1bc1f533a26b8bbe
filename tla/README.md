# A TLA+ model of addon-manager

addon-manager is a Kubernetes operator. A user creates an `Addon`; the manager
validates it, submits Argo workflows for its lifecycle steps (`prereqs`,
`install`, `delete`), follows them, and writes what it knows into the addon's
status. This directory holds three models of the manager in TLA+ (one addon with
every call and failure; several addons that depend on each other; what the pure
code computes for one document), an abstract specification of what it promises,
the TLC runs that check them on small instances, and TLAPS proofs, for every
instance, of the refinement and of the safety properties (section 6 says which, and
under which hypotheses).

All paths below are relative to `src/`.

## 1. Inventory

| Part | Code | State | Operations |
|---|---|---|---|
| Addon controller | `controllers/addon_controller.go` | one worker, its copy of the addon, its queue | `Reconcile`, `execAddon`, `processAddon`, `runWorkflow`, `executePrereqAndInstall`, `deleteOldWorkflows`, `Finalize`, `SetFinalizer`, mapping of resource events |
| Workflow controller | `controllers/workflow_controller.go` | one worker, its queue of workflows | `Reconcile` |
| Status updater | `pkg/addon/addon_update.go` | a mutex per addon name | `UpdateStatus`, `UpdateAddonStatusLifecycleFromWorkflow`, `RemoveFromCache` |
| Version cache | `pkg/addon/addon_version_cache.go` | package, version -> addon and phase | `AddVersion`, `GetVersion(s)`, `RemoveVersion(s)`, `HasVersionName` |
| Validator | `pkg/addon/addon_validator.go` | none (reads the version cache) | `Validate`, duplicate, template, name and dependency checks |
| Addon types | `api/addon/v1alpha1/addon_types.go`, `api/addon/const.go` | the status | setters, predicates, checksum, workflow names, parameters |
| Workflow lifecycle | `pkg/workflows/workflow.go` | none | `Install`: rewrite the template, `submit` |
| Workflow builder | `pkg/workflows/workflow_builder.go` | a document | `Build`, `Scripts`, `Resources`, `Delete` |
| Helpers | `pkg/common/*.go` | none | phase conversion, name parsing, expiry |
| Observers | `controllers/objects.go` | none | list deployed resources |
| Process | `main.go`, `controllers/controller_manager_setup.go` | everything in memory | start |
| addonctl | `pkg/addonctl/addonctl.go` | none | build an Addon from flags, apply it |
| Generated and test code | `pkg/client`, `zz_generated.deepcopy.go`, `test-load`, `test-bdd` | | |

**How the parts interact.** Both controllers run in one process and share a
client that reads from an informer's copy and writes to the API server. Both
end a pass in `UpdateStatus`, which takes the addon's mutex, reads the addon
again, drops a write that would take a terminal status back to a running one
(the race guard), writes the status, repeats that on a conflict, and at last
records the phase in the version cache. The version cache is what other addons'
validation reads, and what maps an event of a deployed resource to its addon.

**What is hard about it.** A copy may be older than the stored object at each
of the two reads of a pass. Two workers write one status. A workflow ends while
the addon that submitted it is edited, deleted, or deleted and created again.
The process may stop between any two calls, an answer may be lost, a panic is
swallowed. `PROJECT.json` lists each such hazard with its line.

## 2. Modules

One addon, with every call:

    AddonTypes          phases, predicates, setters of the status (pure)
      Cluster           API server, informers, Argo, garbage collector, user (external)
        StatusUpdater   AddonUpdater and its part of the version cache
          AddonController      AddonReconciler
          WorkflowController   WorkflowReconciler
            AddonManager       the composition, its properties, its fairness
              MCAddonManager   instances for TLC
              StatusUpdaterProofs, AddonManagerProofs   the invariant, the refinement
              ManagerMoves, DeploymentProofs            what the status tells
              VersionCacheProofs                        what the version cache tells
    AddonLife           what the manager promises about one addon (abstract)

The pure code, as operators:

    VersionCache        addon_version_cache.go
    AddonSpec           the spec half of addon_types.go, the names of workflows
      WorkflowLifecycle workflow.go: from a template to a workflow
        WorkflowBuilder workflow_builder.go: from resources to a template
          Addonctl      addonctl.go: from flags to an Addon
        ResourceObserver  what is found by label: objects.go, addon_controller.go
        AddonValidator  addon_validator.go
    Pipeline, MCPipeline   the way of one addon through all of these
      ResolutionProofs     what resolveDependencies computes
      PipelineProofs       the rest of the way
    Fleet, MCFleet         several addons that share a version cache
      FleetProofs

### AddonTypes

The methods of `addon_types.go` that read or assign the status, as operators on
a record `[checksum, prereqs, installed, startTime]`, and
`ConvertWorkflowPhaseToAddonPhase`. `Status.Reason` and `Status.Resources` are
text for the user and left out, so a write that changes only these is a write
that changes nothing.

### Cluster (external)

`api` is the one addon the model is about, as stored, or `NoAddon`; `watch` the
versions the informer has not been told of, `cache` its copy. Only the
comparison of resourceVersions matters, so the model keeps the set `fresh` of
processes whose last `Get` returned the version that is still stored: a write
of the others is refused. `wf` holds workflows by name; a name is the pair of
step and checksum (`GetFormattedWorkflowName` with one addon name). A workflow
has its owner's uid and goes when that uid is gone. `Unanswered` is the three
ways an update can fail: refused, lost, or made with its answer lost. `ran` is
history: which workflows have succeeded, for which uid.

Deliberate simplifications:
- One addon, one namespace. The addons meet in the version cache only; what
  validation makes of it is the input `ValidationOutcomes` here and the subject
  of `Fleet`.
- A user who edits the addon keeps its finalizer, as `kubectl apply` does.
  `addonctl create` on an existing addon does not (it replaces the object).
- No periodic resync of the informers. It can only add passes; the safety
  properties do not depend on it (`ResourceEvent` adds passes at any time), and
  the liveness properties are the stronger for holding without it.
- No finalizers other than the manager's.
- A `Get` of the informer's copy fails only with NotFound.

### StatusUpdater

`pc`, `inst`, `requeue`, `wkey` and `tries` are the local state of the two
workers, `lock` the mutex, `vcache` the version cache restricted to the
versions of the addon's package.

| Action | `UpdateStatus` |
|---|---|
| `UpdateStatusLock`, `UpdateStatusRetry` (both `Attempt`) | lock; `Get`; NotFound; race guard |
| `UpdateStatusPut` | `Status().Update` succeeds |
| `UpdateStatusConflict` | it is refused: retry, or give up |
| `UpdateStatusFail` | it fails otherwise |
| `UpdateStatusRecord` | `addAddonToCache`, unlock |

`RemoveFromCache` also forgets the mutex. At that moment the only possible
holder is the workflow controller's worker, and nobody waits, as the caller is
the other worker. From then on a new caller gets a new mutex: `lock` becomes
`"free"`, and the old holder's unlock touches nothing (`Released`).

### AddonController

One pass is a path through the labels

    idle -> listwf -> UpdateStatus                              the spec changed
    idle -> finalizer -> prereqs -> prereqsSubmitted
         -> install -> installSubmitted -> UpdateStatus         installation
    idle -> delete -> deleteSubmitted -> unfinalize             deletion

with an action for each call of the API server or Argo, in the order of the
code, and its early returns. `ReconcileGone`, `MarkDeleting`, `Finalize`,
`ProcessChanged`, `ProcessCompleted` and `ProcessValidate` are what the pass
does with the copy it got: they start it. `DeleteOldWorkflows`, `SetFinalizer`,
`RunPrereqs`, `SyncPhase`, `RunInstall`, `RunDelete`, `SyncDelete` and
`Unfinalize` are the calls. The loop of `deleteOldWorkflows` is one step, as
only this worker creates workflows; any subset of the deletions may fail. A
requeue, after whatever delay, puts the addon back into the queue. `Panic` is a
panic inside `Install`, which `execAddon` recovers: the pass ends there, without
`UpdateStatus` and without a requeue. `Pipeline` shows which templates cause it.

### WorkflowController

`Ignored` collects the early returns of `Reconcile` and
`UpdateAddonStatusLifecycleFromWorkflow`. A workflow whose addon the informer
does not have is retried, which changes nothing and is a stuttering step.

### AddonManager

`Next` interleaves the two workers, the cluster, events of resources and
`Crash`, which empties all memory and lets the informers list what exists.

### AddonLife and its refinement

Five variables: the `stage` of the addon (absent, present, held by the
finalizer, leaving), the number of its `life` (addons of this name so far), the
install `cycle` that its status reports, the `outcome` (open, running, done), and
the set `deploying` of prereqs and install workflows, each with the life it is
for. It says that a workflow is deployed only for an addon that the finalizer
holds, and for its present life; that an addon that is held goes only through
leaving, which is not undone; and that, within a cycle, what is done does not
run again.

`AddonManager` maps its state to these (`Stage`, `Cycle`, `Outcome`,
`Deploying`; a life is the number of creations, the uid of the addon is the
number of the life it began). `ImplementsLife` is the abstract specification under
this mapping. The workers, queues, copies, retries, restarts and the version
cache are invisible in it: their steps stutter.

### VersionCache, AddonValidator

A cache is a set of entries `[name, pkg, ver, deps, phase]`, at most one for a
package and version. Go ranges over maps in random order, so `GetVersion`,
`validateWorkflow`, `resolveDependencies` and the other checks return the *set*
of the answers they may give: `"ok"`, an error, or `"panic"`. Semantic version
constraints are the constant relation `Satisfies`. `ValidateDependency` has the
early `return nil` of the code as an answer of its own. `checkTemplates` takes
the templates in every order; `Read` is the map that they are unmarshalled into
one after the other, in which a key of one template stands in for a missing key
of the next, and `FirstWrong` the loop that ends with the first error. The limit
of 256 levels is the constant `MaxDepth`.

### WorkflowLifecycle, WorkflowBuilder, Addonctl, ResourceObserver

A template is a record of what the code looks at: whether it is YAML, kind,
labels, spec, parameters, the two limits, the objects in each part that
`processWorkflowResources` searches, and those in parts it does not search
(`elsewhere`). An object has a text of one of a few sorts (an object, empty, only
comments, not YAML, not given as text), a kind, a namespace and labels. A name is
the sequence of its parts between dashes, so that taking a workflow's name apart
is modelled by what it does. `Install` is the composition of `parse`,
`configureGlobalWFParameters`, `configureWorkflowArtifacts`, `injectTTLs`,
`injectActiveDeadlineSeconds`, `injectInstanceId` and
`addDefaultLabelsToResource`; `answer` says whether it returned an error or
panicked. Assignments to a map are `Over`, the new entries over the old ones.
`Create` of `Addonctl` is `parseAllArgs` and the function that builds the Addon;
`Build` takes `doDelete`, a variable of the package, as a parameter.

The listers of `ResourceObserver` and the watches of the controller go through the
manager's cache, which `main.go` restricts to the namespace of the addons
(`Cached`). Four of the listers ask it for all namespaces, and get this one.

### Pipeline

One case goes through the stages: `RunCommand` or `ApplyManifest`,
`ValidateAddon`, `InstallStep` for each template in any order, `SecretsMissing`,
`Observe`. When these are repeated or interrupted is the subject of
`AddonManager`; the state here only lets the results of one feed the next.
`CasesAssumption` says what a case is: the version cache is finite and has a
package version once, a manifest names its addon and has
templates of lifecycle steps, an object of another addon has that addon's name in
its labels, and a flag that was not given is no path to a file.

### Fleet

A pass over an addon has two steps, up to `UpdateStatus` and `UpdateStatus`,
as only `Validate` (which reads the version cache) and `UpdateStatus` (which
writes it) concern other addons. `worker` is the pass between the two: there is
one worker, and meanwhile the workflow controller writes for other addons. Users
create, edit and delete addons; `Crash` empties the cache and queues all addons.
Informers have no delay and each addon has an install workflow only: delays and
the other workflows are the subject of `AddonManager`. `late` stands for a start
time longer ago than the TTL.

## 3. Properties

| Property | Says |
|---|---|
| `TypeOK` (`AddonManager`, `Fleet`) | types; the phases recorded are phases of addons, as `ConvertWorkflowPhaseToAddonPhase` translates them |
| `TerminalNotRegressed` | in one install cycle, Succeeded/Failed is never replaced by Pending/ValidationFailed |
| `NoWorkflowWithoutFinalizer` | a prereqs or install workflow is submitted only while its addon is stored with the finalizer |
| `GoneMeansDeleted` | an addon that had the finalizer goes only after its delete workflow succeeded, or if it has none |
| `PrereqsBeforeInstall` | the install workflow of a spec follows the success of the prereqs of the same spec |
| `SucceededMeansDeployed` | an addon shown Succeeded for its spec has had the workflows of that spec succeed |
| `NoSecondInstallation` | while the spec stays as it is, a prereqs or install workflow that has succeeded is not submitted again |
| `VersionCacheFollowsStatus` | when nothing is left to do, the version cache has the phase of the API |
| `StaleCopiesHarmless` | the inductive invariant, see section 6 |
| `ImplementsLife` | every step is one that `AddonLife` allows |
| `InstallEnds` | a valid addon ends Succeeded or Failed for its spec |
| `DeletionEnds` | a deleted addon goes, unless its delete workflow fails |
| `DeleteFailureShown` (violated) | when nothing is left to do, a failed delete workflow shows in the status |
| `DependentsWait` | nobody is installed before, for each dependency, some version that meets it was installed |
| `DependentsFollow` | an addon whose dependencies are there and stay is installed to the end |
| `DependenciesInstalled` (violated) | when an addon is installed its dependencies are installed at that moment |
| `NoDuplicates` (violated) | no package version is installed by two addons |
| `ResolutionMatchesGraph` | `resolveDependencies` finds cycles, missing and forbidden dependencies if and only if the graph has them |
| `PanicOnlyAtLimit` | its recursion stays below the number of versions, so it panics at the limit only |
| `TemplatesChecked` | `validateWorkflow` never refuses templates that are right and complete; in no order does it let through one that says something wrong, or one that lacks what no other template has |
| `TemplatesComplete` (violated) | no template without its kind or its spec gets through `Validate` |
| `ParametersArrive` | a submitted workflow has all parameters, and doubles only of package fields |
| `LimitsSet` | it has a TTL and a deadline, the user's where given |
| `NamesReadBack` | its name tells its step and checksum, whatever the addon's name |
| `OursAreFound` | old workflows, and the owner of an event of a watched object, are found, whatever labels the template set |
| `ObservedAreOurs` | of the objects in the manager's cache, those of another addon are never observed, and those of this one that match its selector all are, for the kinds that are listed |
| `CommandCarriedOut` | the Addon of `addonctl` says what the flags say, is valid, and can start |

## 4. Runs

`MCAddonManager` names specs `"a"` and `"c"` and, for an upgrade of these, `"b"` and
`"d"`. A spec is its own checksum, and `"b"` and `"d"` are version `v2` of the
package. `upgrade` has both pairs: no edit leads from one to the other, so that its
states are those of two instances side by side. Deadlock is not checked:
the manager is idle when there is nothing to do.

| Run | Instance | Shows |
|---|---|---|
| `install_faults` | prereqs and install; the TTL may expire; any one of the eight kinds of failed call, a panic included | the four properties of an installation |
| `upgrade` | an edit at any moment, from one install workflow to another or from no workflows to prereqs and install; deletion of old workflows may fail | `SucceededMeansDeployed`, `VersionCacheFollowsStatus`, `PrereqsBeforeInstall` across install cycles |
| `deletion` | delete at any moment; one crash, one failed call, panics, dependencies pending or missing | `StaleCopiesHarmless`, `NoWorkflowWithoutFinalizer`, `GoneMeansDeleted`, `ImplementsLife` |
| `install_ends` | one failed call or lost answer, one crash, resource events, fairness | `NoSecondInstallation`, `VersionCacheFollowsStatus`, `InstallEnds` |
| `deletion_ends` | delete at any moment, fairness | `DeletionEnds` |
| `fleet` | a chain of three addons, the last one with a dependency on a given version and an hour that may run out, the middle one may fail; an upgrade or deletion; one crash; fairness | `DependentsWait`, `DependentsFollow` |
| `pipeline` | every graph of up to four versions of three packages over a fixed set of possible dependencies; pairs of incomplete templates; limits; objects in every part; names with dashes; selectors; command lines | the nine properties of the pure code |

**Bounds.** `MaxLag = 2` versions may be on their way to the informer: one more
than needed for a worker to read a copy older than its own last write.
`MaxRetries`, 5 in the code, is 2 in `install_ends` and `list_failure`, so that
there is a conflict that is retried and one that is not after it, and 1, for time,
in the others; what is proved of these holds for any number. `MaxFaults = 1` and
`MaxCrashes = 1` place one failure, or one crash, at every point; two
independent ones add states, not kinds of states, as each leaves a state in
which the pass starts anew. `TTL = 1` with `MaxTime = 1` means no expiry,
`MaxTime = 2` expiry at any moment. `MaxEdits = 4` in `fleet` is the creation of
the three addons and one upgrade or deletion (or fewer addons and more of
these). `MaxDepth` is 4 there, more than the addons of the chain, and 3 in
`pipeline`, so that graphs of three versions stay below the limit and those of
four reach it.

**Where the code does not do what its documentation says.** Five runs end with
a counterexample. `PROJECT.json` quotes the lines; in short:

- `list_failure`: the old workflows cannot be listed during an upgrade. The new
  checksum is written with the old phases, so the upgrade is shown as Succeeded
  and never run.
- `delete_failure`: the result of the install workflow arrives while the addon is
  being deleted and is written over Deleting. While it stands, the failure of the
  delete workflow is ignored, as for a completed addon. The next pass writes
  Deleting again and nothing else happens until some further event.
- `fleet_duplicates`: the first pass over a new addon records it in the version
  cache, over the entry of the addon that has this version already. The
  second pass looks for a duplicate and finds itself.
- `fleet_dependencies`: of two dependencies, the one looked at first is
  Succeeded, and `ValidateDependencies` returns without looking at the other, which
  has not been installed yet.
- `incomplete_template`: `validateWorkflow` reads every template into the same map. A
  template without a kind or a spec passes if it comes after one that has them, in
  the random order in which Go ranges over the templates.

A deleted addon may be created again. The runs create it once, as two
lives with a delete workflow are beyond a few minutes of TLC; what is proved without
the hypothesis `OneLife` (section 6) holds for any number of lives. TLC has also checked `StaleCopiesHarmless`,
`NoWorkflowWithoutFinalizer` and `ImplementsLife` for two lives without a delete
workflow (`deletion` with `InstallOnly`, `MaxCreates = 2`, no faults or crashes,
`Outcomes = {"Succeeded"}`, `ValidationOutcomes = {"valid", "panic"}`; 769,566
states).

Further instances of `MCAddonManager` that end with a counterexample, and that
the passing runs of the same properties therefore leave out:

- An edit that is taken back (`Edits` from `"a"` to `"b"` and back,
  `MaxEdits = 2`) violates `SucceededMeansDeployed`: the workflow controller
  reads the addon with the new spec and the old status, and writes the old
  `status.checksum` back with the phase of the new spec's workflow.
- Delete and create again (`MaxCreates = 2`, `Inputs = {"delete"}`) violates
  `SucceededMeansDeployed`, and `GoneMeansDeleted` by the same way: a status
  computed for the deleted addon is written to the one created under its name.
  With `MaxRetries = 2` (not with 1) it violates `VersionCacheFollowsStatus` as
  well: `RemoveFromCache` forgets a mutex that is held, two `UpdateStatus`
  overlap, and the version cache stays Pending.
- An upgrade (`upgrade`) violates `NoSecondInstallation`: the workflow controller,
  with a copy of the old spec, waits for the mutex while the addon is edited and the
  install workflow of the new spec is submitted. Once it has the mutex it reads the
  addon again and writes the whole old status over the new one, the checksum
  included. The next pass sees a changed checksum, deletes the workflow of the new spec, which may have
  succeeded by then, and submits it again.
- A failing list during an upgrade also violates `PrereqsBeforeInstall`.
- After a failure that is not a workflow's (say, of the list of secrets), the
  retry may start from the copy before the failure and submit the install
  workflow of an addon recorded as Failed, which `addon_types.go:146` excludes.
- After a panic of the validation `VersionCacheFollowsStatus` fails with a
  restart: the pass that would have recorded the addon ends early.

What the model of the pure code shows and no property forbids: a template whose
spec is null passes validation and panics in `Install`; an integer among the
parameters panics in validation; objects that a workflow deploys outside the
namespace of the addons, such as the addon's target namespace, are neither observed
nor watched, as the manager's cache does not hold them; resources in the templates that `addonctl`
writes get no labels and so are not observed; its delete workflow has an
entrypoint that no template has; `--params` and scripts make it panic.

## 5. Fairness

`FairSpec` assumes weak fairness of each worker (controller-runtime keeps taking
requests from its queue), of the informers (a watch is resumed until it
delivers), and of Argo (`injectActiveDeadlineSeconds` gives every workflow a
deadline). It assumes strong fairness of taking the mutex: Go's `sync.Mutex`
hands over to a waiter that has starved for 1 ms. Nothing is assumed of the
user, the clock, failures, panics and restarts, and validation answers "valid".
Progress does not depend on the requeue after 30 seconds at the end of
`processAddon`: the watch of the workflow is enough when no call fails, and the
requeue of errors when one does.

`Fleet` assumes strong fairness of the passes over each addon: a pass over one is
disabled while the worker is busy with another, and the work queue serves its
items in turn. It assumes weak fairness of `UpdateStatus`, of the end of
workflows and of their reports. `DependentsFollow` is about addons whose
dependencies are there *from some time on* (`<>[]Ready`), which leaves the users
free; it asks for a terminal status and not for Succeeded, as the addon's own
workflow may fail, or its hour may be over when its dependencies are ready.

In `install_ends` the clock stands still. With a clock that moves there is a
behaviour in which every pass starts while the informer is one version behind:
`SetFinalizer` is refused, the status of the old copy, with its own start time,
is written back, and so on. The backoff of the work queue ends this in practice,
but that is a matter of real time, which the model does not have.

## 6. Proofs

Everything in this section holds for every choice of the constants that
satisfies the named assumptions of the modules (any number of specs, addons,
templates; any bounds, faults and inputs), and the further hypotheses that are
named.

| Theorem | | Hypotheses |
|---|---|---|
| *`AddonManagerProofs`* | | |
| `TypeCorrect` | `Spec => []TypeOK` | |
| `StaleCopiesHarmlessAlways` | `Spec => []StaleCopiesHarmless` | |
| `TerminalStatusStays` | `Spec => TerminalNotRegressed` | |
| `FinalizerBeforeWorkflows` | `Spec => NoWorkflowWithoutFinalizer` | |
| `ManagerImplementsLife` | `Spec => ImplementsLife` | |
| *`DeploymentProofs`* | | |
| `LivesAlways` | `Spec => []LivesInv` | |
| `DeletedBeforeGone` | `Spec /\ []OneLife => GoneMeansDeleted` | |
| `DeployedBeforeSucceeded` | `Spec /\ []OneLife => []SucceededMeansDeployed` | `ChecksumsTell`, `Forward(R)`, `"list" \in Faults => R = {}` |
| `InstalledAfterPrereqs` | `Spec /\ []OneLife => PrereqsBeforeInstall` | the same |
| *`VersionCacheProofs`* | | |
| `VersionCacheFollows` | `Spec /\ []OneLife => []VersionCacheFollowsStatus` | `NoPanic` |
| *`FleetProofs`* | | |
| `FleetInvAlways` | `Spec => []FleetInv` | |
| `FleetTypes` | `Spec => []TypeOK` | |
| `DependenciesFirst` | `Spec => DependentsWait` | `NoEarlyReturn`, `Releases` |
| *`PipelineProofs`* | | |
| `ResolutionMatchesGraphAlways` | `Spec => []ResolutionMatchesGraph` | |
| `PanicOnlyAtLimitAlways` | `Spec => []PanicOnlyAtLimit` | |
| `PipelineInvAlways` | `Spec => []PipelineInv` | |
| `TemplatesCheckedAlways` | `Spec => []TemplatesChecked` | |
| `ParametersArriveAlways` | `Spec => []ParametersArrive` | |
| `LimitsSetAlways` | `Spec => []LimitsSet` | |
| `NamesReadBackAlways` | `Spec => []NamesReadBack` | |
| `OursAreFoundAlways` | `Spec => []OursAreFound` | |
| `ObservedAreOursAlways` | `Spec => []ObservedAreOurs` | |
| `CommandCarriedOutAlways` | `Spec => []CommandCarriedOut` | |

**The hypotheses** are what the counterexamples of section 4 leave over: without
any one of them TLC finds a property that it is assumed for violated.

- `OneLife` (`uids <= 1`): the name of the addon is used once. Created again
  under its name, an addon can get a status that was computed for the one before.
  By the lemma `CreatedOnce` it follows from `MaxCreates <= 1`.
- `Forward(R)`: some order `R` of the checksums is such that every edit goes
  forward in it, or keeps the checksum: the user does not come back to a spec that
  was replaced. `ChecksumsTell`: two specs with the same checksum have the same
  lifecycle steps. The checksum is the Adler-32 sum of the whole spec
  (`addon_types.go:379`), so this excludes collisions only.
- `"list" \in Faults => R = {}`: the list of the old workflows does not fail, or no
  edit changes the checksum. An upgrade during which it fails is `list_failure`;
  an installation (`R = {}`, as in `install_faults`) may have any fault.
- `NoPanic`: no panic from which `execAddon` recovers. Such a pass ends before
  `UpdateStatus` records the addon.
- `NoEarlyReturn`: an addon has one dependency, or all of its dependencies are on
  `"*"`. Otherwise `ValidateDependencies` may return at the first one that is
  installed: see `fleet_dependencies`. `Releases`: every version of the fleet
  satisfies `"*"`, which is true of semver releases and not of pre-releases.

**Copies that are stale** (`StaleCopiesHarmless`). Neither
`TerminalNotRegressed` nor `NoWorkflowWithoutFinalizer` follows from the types.
The race guard looks at the informer's copy and not at the stored object, so one
has to know that a write that is accepted was guarded against the object it
replaces. A pass that finds the finalizer in its copy does not set it again, so
one has to know that no such copy outlives the finalizer. The inductive invariant
says both:

- `InformerInv`: what the informer has, followed by what is on its way, ends
  with the stored object. A process is in `fresh` only when nothing is on its
  way. Any copy with the finalizer and no deletion mark, however old, belongs to
  an addon that is still stored with its finalizer (`Claims(o) => Held(o)`):
  only the controller takes the finalizer off, with a write that is accepted
  only if it has read the version marked for deletion, and by then no copy
  without the mark is left.
- `WorkersInv`: what a fresh worker knows of the stored object by its label
  (`Knows`): at `put`, that the race guard does not hold of it; at `finalizer`,
  that it is the same addon; on the way to `unfinalize`, that it is marked for
  deletion. And that the addon is held wherever workflows of an installation are
  still to be submitted.

`StatusUpdaterProofs` has the facts about writes, reads, types and copies, then
the steps of `UpdateStatus`, of the workflow controller and of the cluster, and
`AddonManagerProofs` those of the addon controller: each is shown to keep the
three parts of the invariant. Then `ApiChanges` says which steps can change the
stored addon, and how, and `Submissions` which can submit a workflow; the two
action properties follow.

**The refinement** needs one more invariant, `LastLife`: an addon that is stored
is the last one created. A step then falls under one of the cases of `StepKinds`,
by what it does to the stored addon and to the workflows: a write of a status
(`Report`, where `TerminalNotRegressed` gives the guard), of the finalizer
(`Hold`, `Vanish`), of the user (`Appear`, `Leave`, `Vanish`), one new workflow
(`Deploy`, where `NoWorkflowWithoutFinalizer` gives the guard and the invariant
the life), fewer workflows (`Forget`), or neither (a stutter).

**What the status tells** (`ManagerMoves`, `DeploymentProofs`,
`VersionCacheProofs`). `ManagerMoves` summarises, once for all that follows, what
a step can do to the stored addon, to the copies of it in the informer and in the
workers' hands, to the workflows and to the history `ran`. `LivesInv` says that
every copy is of an addon that was created, and that a workflow that is seen as
succeeded, in the API or in an informer however old, is in `ran`. On it rest three
invariants:

- `DeletionInv`: no copy says deleted unless a delete workflow has succeeded, and
  a worker about to take off the finalizer has the stored spec in its hand and
  either sees the deletion done or has nothing to run. The property is about the
  stored spec and the worker decides by its copy: that the two agree for a fresh
  worker is the part that is not in the types.
- `DeploymentInv`: every copy's checksum is of its spec or one before it in `R`,
  its spec is the stored one or one before (`Behind`), and what it says of its own
  spec is so (`Truthful`); only the worker at `listwf`, with the new checksum and
  the phases of the old spec, may have an untruthful copy, which the next step
  clears. Where no edit changes the checksum (`R = {}`) there is no such
  exception: all that a copy says is of the one checksum there is, also before the
  status has it, so that a step that fails to clear does no harm. `OrderInv` is
  the same for workflows: one for install exists only if the prereqs of its
  checksum ran. `Behind` is needed because the workflow controller writes a phase
  into the status that it reads: that the workflow is of the spec whose checksum
  this status has follows only if no copy can be *ahead* and come back.
- `CacheInv`: whenever the version cache does not have the phase of the stored
  addon, some step is still to come that records it, in the informer's queue, in
  the work queue or in the hand of a worker (`Tracked`), also after a crash that
  empties the cache. `EarlyInv`, `LeavingInv`, `RecordInv` and `PassInv` say what
  such a pass knows at each label, so that its end does not lose the obligation.

**The fleet.** `DependentsWait` is about the history `done`, and `Validate` looks
at the phases in the version cache. `FleetInv` relates them: what the cache, an
addon's status for its own checksum, a workflow, or the copy in the worker's hand
between the two steps of a pass says is installed, is in `done`. `WorkerInv` is
what makes it inductive: a status tells of the spec whose *checksum* it has,
`UpdateStatus` records the version of the *present* spec, and a copy about to be
recorded as Succeeded has the two equal. `AllChecksPassed` then reads off what the
answer "ok" of `Validate` means, and `DependencyRecorded` what that of one
dependency does.

**The pure code.** Two lemmas are about the templates. `CheckedTemplates`:
`validateWorkflow` answers "ok" in every order if and only if each template is `Fine`
by itself. A template that is fine passes wherever it comes in the order, as its keys
replace those read before (`ReadLast`); one that is not is refused in the order that
begins with it (`ReadFirst`, `OrdersExist`). `PassedTemplates`: where it answers "ok"
in one order, no template says anything wrong, and a key that one lacks has been read
from another (`ReadFrom`). `Installed` follows a workflow through the steps of
`Install`; `Created` a command through `addonctl`. `PipelineInv` carries both
along the stages: a workflow is what `Install` makes of a template of an addon that
may pass validation, its objects are in the cluster, and what was observed is what
is there, with a cache that holds one namespace. TLC has checked `FleetInv` and `PipelineInv` as invariants of `fleet` and
`pipeline`.

**The search for dependencies** (`ResolutionProofs`). `resolveDependencies` recurses
over a graph that users write, with one `visited` map for all branches and a limit
on the depth. The proof has three parts.

- There is a function that satisfies the equation of the search, and the answers are
  its answers (`SearchExists`, `Resolution`). A call looks only at calls one level
  deeper (`SearchLooksAhead`), so the function is built from the limit upwards. This
  and the arguments below are inductions on the depth; they are done by hand from
  `Downwards`, which holds because a set of naturals that is not empty has a least
  element (`Least`).
- Every call of the search is for a version of the graph that was not visited before
  (`Call`, `NextCall`), and it has visited as many versions as it is deep. With no
  more versions than `MaxDepth`, none is left where the recursion gives up
  (`NoPanicBelowLimit`).
- An answer other than "ok" has its reason in the graph (`AnswersExplained`): the
  versions on the way to a call are reached from the addon and reach the call's
  version, so one that is met again is on a cycle. In the other direction, the set of
  versions that some call passes is closed under dependencies, and so has all that is
  reached (`ReachedPasses`). A version that was visited and is taken off the map
  again on the way back does no harm, as nothing visited is reached from a version
  that passed (`NothingVisitedReached`). This is where a diamond differs from a cycle.

**Model-checked only**: the three liveness properties, as fairness is out of the
prover's reach; `NoSecondInstallation`; and the violated properties. All other properties that a run
checks are also proved, under the hypotheses of the table.

## 7. Not modelled

- The text of `Status.Reason`, events and logs.
- The periodic resync of the informers: controller-runtime's own default, some
  hours. It would add passes, and would repair some of what section 4 describes
  as standing until a further event.
- `FlexString`'s decoding, the Kustomize and override types (no controller reads
  them), and how the Adler-32 checksum is computed: two specs with the same
  checksum are an instance of the model. They are one of the theorems too, except of
  `DeployedBeforeSucceeded` and `InstalledAfterPrereqs`, which assume that they have
  the same lifecycle steps (`ChecksumsTell`).
- Which strings are semantic versions and constraints (`Satisfies`), YAML and
  JSON (a template is what its text says).
- Code that nothing calls: `RemoveVersions`, `ObserveNamespace`,
  `workflowLifecycle.Delete`.
- That `addonctl create` replaces an existing addon without its finalizers.
  `GoneMeansDeleted`, `NoWorkflowWithoutFinalizer` and `ImplementsLife` are
  claimed for users who keep them.
- Leader election (one manager runs), flags and start-up of the process, clients,
  schemes and informers made by `pkg/common`, generated clients and deep copies,
  the test programs.
- Real time: delays of requeues and backoff.
