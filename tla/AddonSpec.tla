----------------------------- MODULE AddonSpec ------------------------------
(***************************************************************************)
(* The spec half of the Addon resource (api/addon/v1alpha1/addon_types.go) *)
(* and the names of its workflows (pkg/common/helpers.go).  An addon is a  *)
(* record with its name, the fields of its PackageSpec (pkg, ver, deps),   *)
(* its parameters (namespace, configs, data), selector, secrets, and for   *)
(* every lifecycle step that has one a workflow template and a name        *)
(* prefix.  What the manager does not look into is left out.               *)
(*                                                                         *)
(* A name is the sequence of its parts between dashes.  A template is what *)
(* its YAML text says: see WorkflowLifecycle.                              *)
(***************************************************************************)
EXTENDS Sequences, Naturals

\* Record or map f over g: the entries of both, those of f where both have one.
Over(f, g) == [x \in DOMAIN f \cup DOMAIN g |-> IF x \in DOMAIN f THEN f[x] ELSE g[x]]

\* Checks one after the other, of which these are the answers, come to the first
\* that is not "ok": the set of that answer.
FirstWrong(answers) ==
  IF \A i \in DOMAIN answers : answers[i] = "ok" THEN {"ok"}
  ELSE {answers[i] : i \in {j \in DOMAIN answers : /\ answers[j] # "ok"
                                                  /\ \A k \in 1..(j - 1) : answers[k] = "ok"}}

\* The steps that may have a template.  The one of "validate" is checked with the
\* others and never run.
LifecycleSteps == {"prereqs", "install", "validate", "delete"}

\* The keys of GetAllAddonParameters whatever the addon is, and the names under
\* which the fields of a PackageSpec are given to a workflow.
ContextFields == {"clusterName", "clusterRegion"}
PackageFields == {"pkgChannel", "pkgName", "pkgVersion", "pkgType", "pkgDescription"}

\* The names of the parameters of the addon itself: configs and data are the names
\* in its two maps of free parameters.
GetAllAddonParameters(a) ==
  {"namespace"} \cup ContextFields \cup a.configs \cup a.data

-----------------------------------------------------------------------------

\* Mutant: the prefix takes the place of the lifecycle step.
GetPrefixedWorkflowName(a, step) == a.name \o a.prefix[step] \o <<a.checksum, "wf">>

\* <addon-name>[-<prefix>]-<lifecycle>-<checksum>-wf
GetFormattedWorkflowName(a, step) ==
  a.name \o a.prefix[step] \o <<step, a.checksum, "wf">>

NotAName == [checksum |-> "", step |-> ""]

ExtractChecksumAndLifecycleStep(parts) ==
  LET n == Len(parts)
  IN IF n < 4 \/ parts[n] # "wf"
        \/ parts[n - 2] \notin LifecycleSteps
     THEN NotAName
     ELSE [checksum |-> parts[n - 1], step |-> parts[n - 2]]

=============================================================================
