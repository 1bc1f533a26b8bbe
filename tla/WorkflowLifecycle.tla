------------------------- MODULE WorkflowLifecycle --------------------------
(***************************************************************************)
(* workflowLifecycle.Install (pkg/workflows/workflow.go): from the         *)
(* template of a lifecycle step to the workflow that is submitted.  Pure   *)
(* operators: each takes the workflow as the one before it left it, and    *)
(* its "answer" says whether Install goes on ("ok"), returns an error or   *)
(* panics.                                                                 *)
(*                                                                         *)
(* A template, and a workflow, is a record with                            *)
(*   yaml       whether the text is YAML at all                            *)
(*   gvk        "workflow", "other", or "none" if it names no kind         *)
(*   labels     the function from its labels to their values               *)
(*   spec       "map", "null" (there, but no map) or "none"                *)
(*   params     spec.arguments.parameters, as records [name, source, int]: *)
(*              who gave it, and whether its value is an integer           *)
(*   ttl, deadline   the two limits: "none", "zero", "theirs" (another     *)
(*              number), "text" (no integer), and what Install sets        *)
(*   templates  "list", "none" or "bad" (spec.templates or a member of it  *)
(*              has another type)                                          *)
(*   holders    the parts that Install searches for resources: the spec,   *)
(*              each template and each step; each has the objects of its   *)
(*              arguments.artifacts (if it has that key) and of its        *)
(*              resource.manifest                                          *)
(*   elsewhere  the objects in parts that Install does not search: inputs  *)
(*              of templates, tasks of a DAG                               *)
(* and an object has a text ("object", "empty", "comment", "bad" YAML, or  *)
(* "sourced": an artifact not given as text), a kind, a namespace and      *)
(* labels.  The order of parameters and of objects is left out.            *)
(***************************************************************************)
EXTENDS AddonSpec

Error(w) == [w EXCEPT !.answer = "error"]

Then(w, Op(_)) == IF w.answer = "ok" THEN Op(w) ELSE w

\* The workflow a template stands for; parse makes it a Workflow and names it.
parse(a, step, t) ==
  LET w == Over(t, [answer |-> "ok", name |-> GetFormattedWorkflowName(a, step)])
  IN IF ~t.yaml \/ t.gvk = "none" \/ t.spec = "none"
     THEN Error(w) ELSE [w EXCEPT !.gvk = "workflow"]

\* Records for parameters that the addon gives.
Given(names, source) == {[name |-> x, source |-> source, int |-> FALSE] : x \in names}

\* Mutant: the parameters of the data map are forgotten.
configureWithoutData(a, w) ==
  IF w.spec = "null" THEN [w EXCEPT !.answer = "panic"]
  ELSE [w EXCEPT !.params = @ \cup Given({"namespace"}, "namespace")
          \cup Given(PackageFields, "package") \cup Given(ContextFields, "context")
          \cup Given(a.configs, "configs")]

\* Appends to the parameters of the template those of the addon, whatever names
\* there are already.  A spec that is no map is a nil map, to which `arguments'
\* cannot be assigned.
configureGlobalWFParameters(a, w) ==
  IF w.spec = "null" THEN [w EXCEPT !.answer = "panic"]
  ELSE [w EXCEPT !.params = @ \cup Given({"namespace"}, "namespace")
          \cup Given(PackageFields, "package") \cup Given(ContextFields, "context")
          \cup Given(a.configs, "configs") \cup Given(a.data, "data")]

\* The group of the API, as the value of a label.
Group == <<"addonmgr.keikoproj.io">>

\* Mutant: labels that are there already are kept.
addMissingLabels(a, labels) ==
  Over(labels, [name |-> a.name, version |-> <<a.ver>>, partOf |-> a.name, managedBy |-> Group])

\* The four app.kubernetes.io labels, in the place of any the resource has.
addDefaultLabelsToResource(a, labels) ==
  Over([name |-> a.name, version |-> <<a.ver>>, partOf |-> a.name, managedBy |-> Group], labels)

\* A document of comments only is read as an object with nothing but labels, and
\* an artifact with another source than raw text gets an empty text as well.
processArtifact(a, o) ==
  CASE o.text \in {"object", "comment"} ->
         [o EXCEPT !.labels = addDefaultLabelsToResource(a, @),
                   !.text = IF @ = "comment" THEN "labels only" ELSE @]
    [] o.text = "sourced" -> [o EXCEPT !.text = "sourced and raw"]
    [] OTHER -> o

\* The part of a holder that is searched: its manifest, unless it has artifacts.
Searched(h) == IF h.hasArtifacts THEN h.artifacts ELSE h.manifest

processWorkflowResources(a, h) ==
  LET labelled(objects) == {processArtifact(a, o) : o \in objects}
  IN IF h.hasArtifacts THEN [h EXCEPT !.artifacts = labelled(@)]
     ELSE [h EXCEPT !.manifest = labelled(@)]

configureWorkflowArtifacts(a, w) ==
  IF \/ w.templates = "bad"
     \/ \E h \in w.holders : \E o \in Searched(h) : o.text = "bad"
  THEN Error(w)
  ELSE [w EXCEPT !.holders = {processWorkflowResources(a, h) : h \in @}]

\* Mutant: the limit is set whatever the template says.
alwaysInject(val, default) == default

\* The value a limit gets: the default unless the template gives one.
inject(val, default) == IF val \in {"none", "zero"} THEN default ELSE val

injectTTLs(w) ==
  IF w.ttl = "text" THEN Error(w) ELSE [w EXCEPT !.ttl = inject(@, "3 days")]

injectActiveDeadlineSeconds(w) ==
  IF w.deadline = "text" THEN Error(w) ELSE [w EXCEPT !.deadline = inject(@, "5 minutes")]

injectInstanceId(w) ==
  [w EXCEPT !.labels = Over([instanceId |-> <<"addon-manager-workflow-controller">>], @)]

Install(a, step, t) ==
  LET w1 == parse(a, step, t)
      w2 == Then(w1, LAMBDA w : configureGlobalWFParameters(a, w))
      w3 == Then(w2, LAMBDA w : configureWorkflowArtifacts(a, w))
      w4 == Then(Then(w3, injectTTLs), injectActiveDeadlineSeconds)
      labelled(w) == [injectInstanceId(w) EXCEPT !.labels = addDefaultLabelsToResource(a, @)]
  IN Then(w4, labelled)

=============================================================================
