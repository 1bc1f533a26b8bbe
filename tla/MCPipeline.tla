----------------------------- MODULE MCPipeline -----------------------------
(***************************************************************************)
(* Cases for Pipeline: manifests whose dependencies, templates, names or   *)
(* selectors vary, one of these at a time, and command lines of addonctl.  *)
(***************************************************************************)
EXTENDS Pipeline

ours == <<"my", "wf">>
theirs == <<"other">>

MCSatisfies == {<<"*", "v1">>, <<"*", "v2">>}

-----------------------------------------------------------------------------
\* A plain manifest

Object(kind, namespace, labels) ==
  [text |-> "object", kind |-> kind, namespace |-> namespace, labels |-> labels]

Text(text) == [Object("none", "target", << >>) EXCEPT !.text = text]

Template ==
  [New EXCEPT !.gvk = "workflow", !.entrypoint = TRUE,
              !.holders = {[NoObjects EXCEPT !.manifest = {Object("Deployment", "target", << >>)}]}]

Manifest ==
  [name |-> ours, longName |-> FALSE, pkg |-> "p", ver |-> "v1", checksum |-> "c1", deps |-> {},
   namespace |-> "target", configs |-> {"x"}, data |-> {"y"}, selector |-> << >>, secrets |-> {},
   templates |-> [install |-> Template],
   prefix |-> [step \in LifecycleSteps |-> << >>]]

ByKubectl(a, c, found) ==
  [by |-> "kubectl", addon |-> a, cache |-> c, objects |-> found, secrets |-> {"s"}]

-----------------------------------------------------------------------------
\* Dependencies: every graph of up to four versions of three packages

Edges == [p |-> {<<"q", "v1">>, <<"r", "*">>},
          q |-> {<<"p", "v1">>, <<"r", "*">>, <<"q", "*">>},
          r |-> {<<"p", "v1">>, <<"q", "v1">>}]

Entries(name, pkg, ver) ==
  {{}} \cup {{[name |-> name, pkg |-> pkg, ver |-> ver, deps |-> d, phase |-> "Succeeded"]} :
               d \in SUBSET Edges[pkg]}

Graphs ==
  {ByKubectl([Manifest EXCEPT !.deps = d], p \cup q \cup r1 \cup r2, {}) :
     d \in SUBSET Edges["p"], p \in Entries(ours, "p", "v1"), q \in Entries(theirs, "q", "v1"),
     r1 \in Entries(theirs, "r", "v1"), r2 \in Entries(theirs, "r", "v2")}

\* Duplicates, names, namespaces, secrets.
Refused ==
  {ByKubectl([Manifest EXCEPT !.longName = long, !.namespace = ns, !.secrets = s], c, {}) :
     long \in BOOLEAN, ns \in {"", "target"}, s \in SUBSET {"s", "t"},
     c \in {{}, {[name |-> theirs, pkg |-> "p", ver |-> "v1", deps |-> {}, phase |-> "Failed"]}}}

-----------------------------------------------------------------------------
\* Templates

Parameter(x, int) == [name |-> x, source |-> "template", int |-> int]

\* A template has what is in its spec only if it has one.
Incomplete ==
  {IF s = "map" THEN [Template EXCEPT !.yaml = y, !.gvk = g, !.params = p]
   ELSE [New EXCEPT !.yaml = y, !.gvk = g, !.spec = s, !.templates = "none", !.holders = {}] :
     y \in BOOLEAN, g \in {"workflow", "other", "none"}, s \in {"map", "null", "none"},
     p \in {{}, {Parameter("z", FALSE)}, {Parameter("z", TRUE)}, {Parameter("namespace", FALSE)},
            {Parameter("x", FALSE)}, {Parameter("y", FALSE)}, {Parameter("pkgName", FALSE)}}}

Limited ==
  {[Template EXCEPT !.ttl = t, !.deadline = d, !.templates = l] :
     t \in {"none", "zero", "theirs", "text"}, d \in {"none", "zero", "theirs", "text"},
     l \in {"list", "none", "bad"}}

\* Objects, with labels of their own, in the parts of a template.
UserLabels == {<< >>, [name |-> theirs, user |-> theirs]}
Contents ==
  {{Object(k, ns, l)} : k \in {"Deployment", "Service"}, ns \in {"target", ManagedNameSpace},
                        l \in UserLabels}
  \cup {{}, {Text("empty")}, {Text("comment")}, {Text("bad")}}

Filled ==
  {[Template EXCEPT !.labels = l, !.elsewhere = e,
                    !.holders = {[hasArtifacts |-> h, artifacts |-> IF h THEN a ELSE {},
                                  manifest |-> m]}] :
     l \in UserLabels, h \in BOOLEAN, e \in {{}, {Object("Deployment", "target", << >>)}},
     a \in Contents \cup {{Text("sourced")}}, m \in Contents}

Documents ==
  {ByKubectl([Manifest EXCEPT !.templates = [install |-> t]], {}, {}) : t \in Limited \cup Filled}
  \cup {ByKubectl([Manifest EXCEPT !.templates = [install |-> t, delete |-> u]], {}, {}) :
          t \in Incomplete, u \in Incomplete}
  \cup {ByKubectl([Manifest EXCEPT !.templates = [install |-> Template, validate |-> u]], {}, {}) :
          u \in Incomplete}

-----------------------------------------------------------------------------
\* Names and selectors

Named ==
  {ByKubectl([Manifest EXCEPT !.name = n, !.templates = [prereqs |-> Template, install |-> Template],
                              !.prefix = [step \in LifecycleSteps |-> f]], {}, {}) :
     n \in {ours, <<"a">>, <<"delete", "wf">>, <<"install">>}, f \in {<< >>, <<"wf">>, <<"delete">>}}

\* Another addon has deployed objects that our selector might match.
Selected ==
  {ByKubectl([Manifest EXCEPT !.selector = s,
                !.templates = [install |-> [Template EXCEPT !.holders =
                                 {[NoObjects EXCEPT !.manifest = {Object(k, ns, l)}]}]]],
             {}, found) :
     s \in {<< >>, [user |-> theirs], [name |-> theirs], [partOf |-> theirs]},
     k \in {"Deployment", "Service"}, ns \in {"target", ManagedNameSpace}, l \in UserLabels,
     found \in {{}, {Object("Deployment", ManagedNameSpace,
                            [name |-> theirs, version |-> <<"v1">>, partOf |-> theirs,
                             managedBy |-> Group, user |-> theirs])}}}

-----------------------------------------------------------------------------
\* Command lines

Paths ==
  {[is |-> i, ext |-> e, objects |-> IF i = "file" /\ e = "yaml"
                                     THEN {Object("Deployment", "target", << >>)} ELSE {}] :
     i \in {"missing", "file", "dir", "cwd"}, e \in {"yaml", "py", "other"}}

NoPath == [is |-> "none", ext |-> "other", objects |-> {}]

Flags ==
  {[prereqs |-> p, install |-> i, params |-> a, malformed |-> m, deps |-> d, selector |-> << >>,
    secrets |-> {"s"}, pkgType |-> t, dryRun |-> r, namespace |-> "target", ver |-> "v1"] :
     p \in Paths \cup {NoPath}, i \in Paths, a \in {"none", "pairs", "unseparated"},
     m \in SUBSET {"deps", "selector"}, d \in {{}, {<<"q", "v1">>}}, t \in {"helm", "rpm"},
     r \in BOOLEAN}

Commands ==
  {[by |-> "addonctl", arg |-> [name |-> ours, pkg |-> "p"], flags |-> f, objects |-> {}, secrets |-> {"s"},
    cache |-> {[name |-> theirs, pkg |-> "q", ver |-> "v1", deps |-> {}, phase |-> "Succeeded"]}] :
     f \in Flags}

MCCases == Graphs \cup Refused \cup Documents \cup Named \cup Selected \cup Commands

=============================================================================
