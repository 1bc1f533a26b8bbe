----------------------------- MODULE AddonTypes -----------------------------
(***************************************************************************)
(* The status half of the Addon resource: the phases, the predicates on    *)
(* them and the setters (api/addon/v1alpha1/addon_types.go), and how a     *)
(* workflow phase is read as an addon phase (pkg/common/helpers.go).       *)
(* Pure operators: what a Go method assigns through its receiver is here   *)
(* the status the operator returns.  The "reason" and "resources" fields   *)
(* of the status are text for the user and no property is about them.      *)
(***************************************************************************)

\* ApplicationAssemblyPhase; "" is the zero value of a status never written.
Phases == {"", "Pending", "Succeeded", "Failed", "ValidationFailed",
           "Deleting", "DeleteFailed", "DeleteSucceeded"}

\* LifecycleStep, without Validate, for which the manager runs no workflow.
Steps == {"prereqs", "install", "delete"}

\* What the manager distinguishes of an Argo workflow: "absent" is a name no
\* workflow has, "new" one whose phase Argo has not set yet (the empty string
\* in the API), "Running" is Argo's Pending or Running, "Failed" its Failed or
\* Error.
WorkflowPhases == {"absent", "new", "Running", "Succeeded", "Failed"}

Succeeded(p) == p \in {"Succeeded", "DeleteSucceeded"}

Failed(p) == p \in {"Failed", "DeleteFailed"}

Completed(p) == Succeeded(p) \/ Failed(p)

Deleting(p) == p \in {"Deleting", "DeleteFailed", "DeleteSucceeded"}

Running(p) == p \in {"Pending", "ValidationFailed"}

-----------------------------------------------------------------------------

SetInstallStatus(st, p) == [st EXCEPT !.installed = p]

\* Mutant: installed follows prereqs in all three cases.
SetPrereqAndInstallTogether(st, p) == [st EXCEPT !.prereqs = p, !.installed = p]

\* A phase other than the three named leaves `installed' as it is and blanks
\* `prereqs'.
SetPrereqAndInstallStatuses(st, p) ==
  CASE p = "Succeeded" -> [st EXCEPT !.prereqs = p, !.installed = "Pending"]
    [] p \in {"Pending", "Failed"} -> [st EXCEPT !.prereqs = p, !.installed = p]
    [] OTHER -> [st EXCEPT !.prereqs = ""]

SetStatusByLifecyleStep(st, step, p) ==
  CASE step = "prereqs" -> SetPrereqAndInstallStatuses(st, p)
    [] step = "delete" /\ p \in {"Succeeded", "Failed"} ->
         SetInstallStatus(st, IF p = "Succeeded" THEN "DeleteSucceeded" ELSE "DeleteFailed")
    [] OTHER -> SetInstallStatus(st, p)

ClearStatus(st) == [st EXCEPT !.prereqs = "", !.installed = ""]

\* Mutant: the workflow's phase is taken over as it is.
ConvertNothing(step, wp) == wp

ConvertWorkflowPhaseToAddonPhase(step, wp) ==
  CASE wp = "Running" -> IF step = "delete" THEN "Deleting" ELSE "Pending"
    [] wp = "Succeeded" -> IF step = "delete" THEN "DeleteSucceeded" ELSE "Succeeded"
    [] wp = "Failed" -> IF step = "delete" THEN "DeleteFailed" ELSE "Failed"
    [] OTHER -> ""

=============================================================================
