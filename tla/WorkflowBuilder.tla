-------------------------- MODULE WorkflowBuilder ---------------------------
(***************************************************************************)
(* The templates that addonctl writes (pkg/workflows/workflow_builder.go): *)
(* an entry template whose only step group runs "submit", with the         *)
(* resources as an input artifact of the submit template, or the two       *)
(* templates of a deletion.  A builder is its content so far; doDelete is  *)
(* a variable of the package, which no builder resets.                     *)
(***************************************************************************)
EXTENDS WorkflowLifecycle

NoObjects == [hasArtifacts |-> FALSE, artifacts |-> {}, manifest |-> {}]

\* What New puts into every builder; `entrypoint' says whether a template has the
\* name of the entrypoint.
New ==
  [answer |-> "ok", yaml |-> TRUE, gvk |-> "none", labels |-> << >>, spec |-> "map",
   params |-> {}, ttl |-> "none", deadline |-> "none", templates |-> "list",
   holders |-> {NoObjects}, elsewhere |-> {}, entrypoint |-> FALSE]

\* Scripts: a list of maps is asserted to be a list of any values, which panics
\* for the first script.
Scripts(b, scripts) == IF scripts = {} THEN b ELSE [b EXCEPT !.answer = "panic"]

\* The step's own list of artifacts stays empty.
Resources(b, objects) ==
  Then(b, LAMBDA x : [x EXCEPT !.elsewhere = @ \cup objects,
                               !.holders = @ \cup {[NoObjects EXCEPT !.hasArtifacts = TRUE]}])

\* Build: the templates appended depend on doDelete; the entrypoint is "entry"
\* whatever they are.
Build(b, doDelete) ==
  Then(b, LAMBDA x : IF doDelete
                     THEN [x EXCEPT !.gvk = "workflow", !.holders = {NoObjects}, !.elsewhere = {}]
                     ELSE [x EXCEPT !.gvk = "workflow", !.entrypoint = TRUE])

=============================================================================
