------------------------------ MODULE Pipeline ------------------------------
(***************************************************************************)
(* The way of one addon through the manager's pure code: from a command    *)
(* line of addonctl, or a manifest, to an Addon; Validate; Install for     *)
(* each of its templates; what the workflows deploy; what observeResources *)
(* then finds.  When these steps are taken, again or not at all is the     *)
(* subject of AddonManager; here it is what they compute.                  *)
(***************************************************************************)
EXTENDS Addonctl, AddonValidator, ResourceObserver, FiniteSets

\* The cases: each has the version cache, the secrets of the target namespace and
\* the objects that other addons have in the cluster at the time, with the labels
\* that Install gave them, and either an addon or the argument and the flags of a
\* command.
CONSTANT Cases

\* What the cases are made of.
IsObject(o) == DOMAIN o = {"text", "kind", "namespace", "labels"}

IsTemplate(t) ==
  /\ DOMAIN t = DOMAIN New
  /\ t.answer = "ok"
  /\ {t.ttl, t.deadline} \subseteq {"none", "zero", "theirs", "text"}
  /\ \A h \in t.holders : /\ DOMAIN h = DOMAIN NoObjects
                          /\ \A o \in h.artifacts \cup h.manifest : IsObject(o)

IsName(parts) == parts \in Seq(STRING) /\ parts # << >>

\* An addon, or an entry of the version cache.
IsVersion(v) == {"name", "pkg", "ver", "deps"} \subseteq DOMAIN v

IsAddon(a) ==
  /\ IsVersion(a)
  /\ IsName(a.name)
  /\ DOMAIN a.templates \subseteq LifecycleSteps
  /\ \A step \in DOMAIN a.templates :
       IsTemplate(a.templates[step]) /\ a.prefix[step] \in Seq(STRING)

\* The version cache is one.  A manifest names its addon and has templates of the
\* lifecycle steps only; the objects of other addons have those names, as Install
\* labels them.  Without the flag there is no path, and so no file.
ASSUME CasesAssumption ==
  \A c \in Cases :
    /\ IsCache(c.cache) /\ IsFiniteSet(c.cache) /\ \A v \in c.cache : IsVersion(v)
    /\ c.by = "kubectl" =>
         /\ IsAddon(c.addon)
         /\ \A o \in c.objects : ~Has(o.labels, "name", c.addon.name)
    /\ c.by = "addonctl" =>
         /\ IsName(c.arg.name)
         /\ \A o \in c.objects : ~Has(o.labels, "name", c.arg.name)
         /\ \A path \in {c.flags.prereqs, c.flags.install} :
              /\ path.is \in {"none", "missing", "file", "dir", "cwd"}
              /\ path.is = "none" => path.ext # "yaml"

VARIABLES
  case,       \* the case
  addon,      \* the Addon, once there is one
  stage,      \* "given", "applied", "valid", "observed" or "over"
  answer,     \* of the command or the validator, if it was not "ok"
  wfs,        \* function from the lifecycle steps run to their workflows
  objects,    \* in the cluster
  resources   \* of the addon's status

vars == <<case, addon, stage, answer, wfs, objects, resources>>

NoAddon == [name |-> << >>]

Init ==
  /\ case \in Cases
  /\ addon = NoAddon /\ stage = "given" /\ answer = "ok"
  /\ wfs = << >> /\ objects = case.objects /\ resources = {}

RunCommand ==
  /\ stage = "given"
  /\ case.by = "addonctl"
  /\ LET created == Create(case.arg, case.flags)
     IN IF created.answer = "ok"
        THEN addon' = created.addon /\ stage' = "applied" /\ UNCHANGED answer
        ELSE answer' = created.answer /\ stage' = "over" /\ UNCHANGED addon
  /\ UNCHANGED <<case, wfs, objects, resources>>

ApplyManifest ==
  /\ stage = "given"
  /\ case.by = "kubectl"
  /\ addon' = case.addon
  /\ stage' = "applied"
  /\ UNCHANGED <<case, answer, wfs, objects, resources>>

ValidateAddon ==
  /\ stage = "applied"
  /\ answer' \in Validate(case.cache, addon)
  /\ stage' = IF answer' = "ok" THEN "valid" ELSE "over"
  /\ UNCHANGED <<case, addon, wfs, objects, resources>>

\* What a workflow deploys: every object in it.
Deployed(w) ==
  {o \in w.elsewhere \cup UNION {h.artifacts \cup h.manifest : h \in w.holders} :
     o.text = "object"}

validateSecrets == addon.secrets \subseteq case.secrets

InstallStep(step) ==
  /\ stage = "valid"
  /\ step \in DOMAIN addon.templates \ DOMAIN wfs
  /\ step = "install" => validateSecrets
  /\ LET w == Install(addon, step, addon.templates[step])
     IN /\ wfs' = Over(wfs, [s \in {step} |-> w])
        /\ objects' = IF w.answer = "ok" THEN objects \cup Deployed(w) ELSE objects
  /\ UNCHANGED <<case, addon, stage, answer, resources>>

SecretsMissing ==
  /\ stage = "valid"
  /\ ~validateSecrets
  /\ answer' = "secrets" /\ stage' = "over"
  /\ UNCHANGED <<case, addon, wfs, objects, resources>>

Observe ==
  /\ stage = "valid"
  /\ resources' = observeResources(addon, objects)
  /\ stage' = "observed"
  /\ UNCHANGED <<case, addon, answer, wfs, objects>>

Next ==
  \/ RunCommand
  \/ ApplyManifest
  \/ ValidateAddon
  \/ \E step \in {"prereqs", "install", "delete"} : InstallStep(step)
  \/ SecretsMissing
  \/ Observe

Spec == Init /\ [][Next]_vars

-----------------------------------------------------------------------------
\* Dependencies: the search of resolveDependencies against the graph

\* The versions that the dependencies of n on other packages may be resolved to,
\* the addon itself instead of its own entry.
Targets(n) ==
  {IF v # NoVersion /\ Id(v) = Id(addon) THEN addon ELSE v :
     v \in UNION {GetVersion(case.cache, d[1], d[2]) : d \in {e \in n.deps : e[1] # n.pkg}}}

\* The versions that are reached from n.
Reach(n) ==
  LET all == case.cache \cup {addon, NoVersion, n}
      closed == {s \in SUBSET all : n \in s /\ \A v \in s \ {NoVersion} : Targets(v) \subseteq s}
  IN {v \in all : \A s \in closed : v \in s}

CycleReached ==
  \E v \in Reach(addon) \ {NoVersion} : \E w \in Targets(v) \ {NoVersion} : v \in Reach(w)

DependsOnItself == \E v \in Reach(addon) \ {NoVersion} : \E d \in v.deps : d[1] = v.pkg

\* How many versions a path in the graph can have.
Versions == Cardinality({Id(v) : v \in case.cache} \cup {Id(addon)})

\* resolveDependencies finds a cycle, for some order in which it takes the
\* dependencies, if and only if the addon reaches one in the graph of the version
\* cache; and an addon is never turned away if and only if it reaches no cycle, no
\* dependency that is not recorded and no package that depends on itself.
\* Diamonds are no cycles.  (The exception is a search that is given up for its
\* depth.)
ResolutionMatchesGraph ==
  LET answers == resolveDependencies(case.cache, addon, {}, 0)
  IN stage = "applied" /\ "panic" \notin answers =>
       /\ "circular" \in answers <=> CycleReached
       /\ answers = {"ok"} <=> ~CycleReached /\ NoVersion \notin Reach(addon) /\ ~DependsOnItself

\* The recursion of resolveDependencies ends, also in a cycle, before it is as
\* deep as there are versions: it panics only if there are more than MaxDepth, the
\* addon itself included.
PanicOnlyAtLimit ==
  stage = "applied" /\ Versions <= MaxDepth =>
    "panic" \notin resolveDependencies(case.cache, addon, {}, 0)

-----------------------------------------------------------------------------
\* Templates and workflows

\* The workflows that were submitted.
Submitted == {step \in DOMAIN wfs : wfs[step].answer = "ok"}

TemplatesOf(a) == {a.templates[step] : step \in DOMAIN a.templates}

\* What template t says is right, as far as it goes: no other kind, and no
\* parameter that the addon has or that cannot be copied.
SaysNoWrong(t) ==
  /\ t.yaml
  /\ t.gvk \in {"workflow", "none"}
  /\ t.spec # "none" =>
       \A p \in t.params : ~p.int /\ p.name \notin GetAllAddonParameters(addon)

Lacks(t) == {key \in {"gvk", "spec"} : t[key] = "none"}

\* validateWorkflow reads all templates into one map, in any order, and yet: it
\* never turns away an addon whose templates are each right and complete, and an
\* addon with a template that says something wrong is turned away in every order,
\* and so is one with a template that lacks what no other template has.
TemplatesChecked ==
  stage = "applied" =>
    /\ (\A t \in TemplatesOf(addon) : SaysNoWrong(t) /\ Lacks(t) = {}) =>
         validateWorkflow(addon) = {"ok"}
    /\ "ok" \in validateWorkflow(addon) =>
         \A t \in TemplatesOf(addon) :
           /\ SaysNoWrong(t)
           /\ \A key \in Lacks(t) : \E u \in TemplatesOf(addon) : key \notin Lacks(u)

\* "Validate workflow template is actually a workflow" (addon_validator.go): a
\* template without its kind or its spec does not get through Validate (the test
\* "workflow-template-invalid-missing-spec"), whatever other templates there are.
TemplatesComplete ==
  stage \in {"valid", "observed"} => \A t \in TemplatesOf(addon) : Lacks(t) = {}

\* A submitted workflow has every parameter of its template and of the addon; a
\* name that the template uses is given a second time only for a field of the
\* package, the parameters validateWorkflow does not look at.
ParametersArrive ==
  \A step \in Submitted :
    LET params == wfs[step].params
        theirs == addon.templates[step].params
    IN /\ theirs \subseteq params
       /\ GetAllAddonParameters(addon) \cup PackageFields \subseteq {p.name : p \in params}
       /\ \A p \in theirs, q \in params \ theirs : p.name = q.name => q.source = "package"

\* A submitted workflow has both limits, without which Argo might never end it or
\* never remove it, and the user's own number where there is one.
LimitsSet ==
  \A step \in Submitted :
    LET w == wfs[step]
        t == addon.templates[step]
    IN /\ {w.ttl, w.deadline} \cap {"none", "zero", "text"} = {}
       /\ t.ttl = "theirs" => w.ttl = "theirs"
       /\ t.deadline = "theirs" => w.deadline = "theirs"

\* The name under which a workflow is submitted tells the workflow controller its
\* lifecycle step and its checksum, whatever parts the addon's name has.
NamesReadBack ==
  \A step \in Submitted :
    ExtractChecksumAndLifecycleStep(wfs[step].name) = [checksum |-> addon.checksum, step |-> step]

\* deleteOldWorkflows finds the submitted workflows of the addon, and the addon is
\* queued for every event that reaches the controller of an object that its
\* workflows deploy from a part that Install searches, whatever labels the template
\* gave them.
OursAreFound ==
  \A step \in Submitted :
    LET w == wfs[step]
        recorded == AddVersion(case.cache, [name |-> addon.name, pkg |-> addon.pkg,
                                            ver |-> addon.ver, deps |-> {}, phase |-> "Pending"])
    IN /\ w \in oldWorkflows(addon, {wfs[s] : s \in Submitted})
       /\ \A h \in w.holders : \A o \in Watched(Searched(h)) :
            o.text = "object" => getAddonRequestsFromLabels(recorded, o.labels) = {addon.name}

\* observeResources reports no object of another addon, whatever the selector of
\* this one, and, of the namespace that the manager's cache holds, every object of
\* the kinds it lists that Install labelled and the user's own part of the selector
\* matches.
ObservedAreOurs ==
  stage = "observed" =>
    /\ resources \cap case.objects = {}
    /\ \A step \in Submitted : \A h \in wfs[step].holders : \A o \in Cached(Searched(h)) :
         /\ o.text = "object" /\ o.kind \in NamespacedKinds \cup ClusterKinds
         /\ \A x \in DOMAIN addon.selector \ {"name", "managedBy"} :
              Has(o.labels, x, addon.selector[x])
         => o \in resources

\* The Addon that addonctl makes says what its flags say; its templates pass
\* validateWorkflow; prereqs and install start at a template that exists and bring
\* the resources of their files.
CommandCarriedOut ==
  stage = "applied" /\ case.by = "addonctl" =>
    /\ addon.deps = case.flags.deps /\ addon.secrets = case.flags.secrets
    /\ validateWorkflow(addon) = {"ok"}
    /\ \A step \in {"prereqs", "install"} :
         /\ addon.templates[step].entrypoint
         /\ case.flags[step].ext = "yaml" =>
              addon.templates[step].elsewhere = case.flags[step].objects

=============================================================================
