--------------------------- MODULE AddonValidator ---------------------------
(***************************************************************************)
(* addonValidator.Validate (pkg/addon/addon_validator.go).  A check gives  *)
(* the set of its possible answers, for the maps it ranges over: "ok", an  *)
(* error, or "panic".  An addon to validate is a record of AddonSpec; the  *)
(* dependencies of it, and of an entry of the version cache, are a set of  *)
(* pairs <<package, required version>>.                                    *)
(***************************************************************************)
EXTENDS VersionCache, WorkflowLifecycle, FiniteSetsExt

\* Where the recursion of resolveDependencies gives up: 256 in the code.
CONSTANT MaxDepth

ASSUME DepthAssumption == MaxDepth \in Nat \ {0}

\* A check, and the next one if it says "ok".
AndThen(answers, next) == (answers \ {"ok"}) \cup (IF "ok" \in answers THEN next ELSE {})

\* A loop over a map that ends with the first answer other than "ok".
InAnyOrder(all) ==
  ((UNION all) \ {"ok"}) \cup (IF \A answers \in all : "ok" \in answers THEN {"ok"} ELSE {})

validateDuplicate(c, a) ==
  {IF v # NoVersion /\ v.name # a.name THEN "duplicate" ELSE "ok" :
     v \in GetVersion(c, a.pkg, a.ver)}

validateAddonNameLength(a) == {IF a.longName THEN "name" ELSE "ok"}

validateNamespace(a) == {IF a.namespace = "" THEN "namespace" ELSE "ok"}

-----------------------------------------------------------------------------
\* The templates

NoData == [gvk |-> "none", spec |-> "none", params |-> {}]

\* All templates are read into the same map.  What it holds after the n-th of them,
\* in this order: each key as in the last template that has it.
Read(a, order, n) ==
  LET last(key) == LET having == {i \in 1..n : a.templates[order[i]][key] # "none"}
                   IN IF having = {} THEN NoData ELSE a.templates[order[Max(having)]]
  IN [gvk |-> last("gvk").gvk, spec |-> last("spec").spec, params |-> last("spec").params]

\* The copy that NestedMap makes of the arguments panics on the integers that the
\* YAML parser produces.
checkTemplate(a, t, data) ==
  CASE ~t.yaml \/ data.gvk # "workflow" \/ data.spec = "none" -> "workflow"
    [] \E p \in data.params : p.int -> "panic"
    [] \E p \in data.params : p.name \in GetAllAddonParameters(a) -> "workflow"
    [] OTHER -> "ok"

\* The templates are taken in any order, up to the first that is wrong.
checkTemplates(a, steps) ==
  UNION {FirstWrong([i \in DOMAIN order |->
                       checkTemplate(a, a.templates[order[i]], Read(a, order, i))]) :
           order \in Bijection(1..Cardinality(steps), steps)}

\* Mutant: only the template that is installed is looked at.
validateInstallOnly(a) == checkTemplates(a, DOMAIN a.templates \cap {"install"})

validateWorkflow(a) == checkTemplates(a, DOMAIN a.templates)

-----------------------------------------------------------------------------
\* The dependencies

Id(n) == <<n.pkg, n.ver>>

\* Mutant: nobody looks at what was visited.
resolveUnvisited(c, n, visited, depth) ==
  LET search[m \in c \cup {n}, d \in 0..MaxDepth] ==
        LET resolve(v) == IF v = NoVersion THEN {"notInstalled"} ELSE search[v, d + 1]
            one(dep) == IF dep[1] = m.pkg THEN {"ownPackage"}
                        ELSE UNION {resolve(v) : v \in GetVersion(c, dep[1], dep[2])}
        IN IF d >= MaxDepth THEN {"panic"} ELSE InAnyOrder({one(dep) : dep \in m.deps})
  IN search[n, depth]

\* Mutant: the dependencies of dependencies are not followed.
resolveOneLevel(c, n, visited, depth) ==
  LET one(d) == IF d[1] = n.pkg THEN {"ownPackage"}
                ELSE {IF v = NoVersion THEN "notInstalled" ELSE "ok" :
                        v \in GetVersion(c, d[1], d[2])}
  IN InAnyOrder({one(d) : d \in n.deps})

\* Depth first, with the packages on the way from the addon as `visited'.
resolveDependencies(c, n, visited, depth) ==
  LET ids == visited \cup {Id(m) : m \in c \cup {n}}
      search[call \in (c \cup {n}) \X (SUBSET ids) \X (0..MaxDepth)] ==
        LET m == call[1]
            seen == call[2] \cup {Id(m)}
            d == call[3]
            resolve(v) == CASE v = NoVersion -> {"notInstalled"}
                            [] v # NoVersion /\ Id(v) \in seen -> {"circular"}
                            [] OTHER -> search[<<v, seen, d + 1>>]
            one(dep) == IF dep[1] = m.pkg THEN {"ownPackage"}
                        ELSE UNION {resolve(v) : v \in GetVersion(c, dep[1], dep[2])}
        IN IF d >= MaxDepth THEN {"panic"} ELSE InAnyOrder({one(dep) : dep \in m.deps})
  IN search[<<n, visited, depth>>]

\* Mutant: a version that is recorded is good enough, whatever its phase.
ValidateDependencyRecorded(c, d) ==
  {IF v = NoVersion THEN "notInstalled" ELSE "ok" : v \in GetVersion(c, d[1], d[2])}

\* The answer for one dependency: "return" is the nil that ends the loop with the
\* first dependency on a given version that is installed.
ValidateDependency(c, d) ==
  IF d[2] = "*"
  THEN {IF \E e \in GetVersions(c, d[1]) : e.phase = "Succeeded" THEN "ok" ELSE "notInstalled"}
  ELSE {CASE v = NoVersion -> "notInstalled"
          [] v # NoVersion /\ v.phase = "Succeeded" -> "return"
          [] v # NoVersion /\ v.phase = "Pending" -> "pending"
          [] OTHER -> "notInstalled" : v \in GetVersion(c, d[1], d[2])}

ValidateDependencies(c, a) ==
  LET all == {ValidateDependency(c, d) : d \in a.deps}
  IN ((UNION all) \ {"ok", "return"})
     \cup (IF \/ \E answers \in all : "return" \in answers
              \/ \A answers \in all : "ok" \in answers
           THEN {"ok"} ELSE {})

Validate(c, a) ==
  AndThen(validateDuplicate(c, a),
  AndThen(validateAddonNameLength(a),
  AndThen(validateNamespace(a),
  AndThen(validateWorkflow(a),
  AndThen(resolveDependencies(c, a, {}, 0),
          ValidateDependencies(c, a))))))

=============================================================================
