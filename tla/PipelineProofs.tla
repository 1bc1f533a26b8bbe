--------------------------- MODULE PipelineProofs ---------------------------
(***************************************************************************)
(* For every addon: what resolveDependencies and validateWorkflow let      *)
(* pass, what Install makes of it, and that the manager finds again what   *)
(* it submitted and deployed.                                              *)
(***************************************************************************)
EXTENDS ResolutionProofs, SequenceTheorems

-----------------------------------------------------------------------------
\* Checks one after the other

\* They come to "ok" only if all of them do.
LEMMA AllOk ==
  ASSUME NEW answers, "ok" \in FirstWrong(answers), NEW i \in DOMAIN answers
  PROVE  answers[i] = "ok"
BY DEF FirstWrong

\* If the first of them is not "ok", that is what they come to.
LEMMA FirstIsWrong ==
  ASSUME NEW answers, 1 \in DOMAIN answers, answers[1] # "ok"
  PROVE  answers[1] \in FirstWrong(answers)
BY DEF FirstWrong

-----------------------------------------------------------------------------
\* The templates

\* The keys that a template has are read from it, whatever was read before.
LEMMA ReadLast ==
  ASSUME NEW a, NEW order, NEW n \in Nat \ {0}
  PROVE  LET t == a.templates[order[n]]
             data == Read(a, order, n)
         IN /\ t.gvk # "none" => data.gvk = t.gvk
            /\ t.spec # "none" => data.spec = t.spec /\ data.params = t.params
<1> DEFINE t == a.templates[order[n]]
           having(key) == {i \in 1..n : a.templates[order[i]][key] # "none"}
           last(key) == IF having(key) = {} THEN NoData ELSE a.templates[order[Max(having(key))]]
<1>1. ASSUME NEW S \in SUBSET (1..n), n \in S
      PROVE  Max(S) = n
  <2>1. \E x \in S : \A y \in S : x >= y
    BY <1>1
  <2>2. Max(S) \in S /\ \A y \in S : Max(S) >= y
    BY <2>1 DEF Max
  <2>3. Max(S) \in 1..n /\ Max(S) >= n
    BY <1>1, <2>2
  <2> QED
    BY <2>3
<1>2. ASSUME NEW key, t[key] # "none"
      PROVE  last(key) = t
  <2>1. having(key) \in SUBSET (1..n) /\ n \in having(key)
    BY <1>2
  <2>2. Max(having(key)) = n
    BY <1>1, <2>1
  <2> QED
    BY <2>1, <2>2
<1>3. Read(a, order, n) =
        [gvk |-> last("gvk").gvk, spec |-> last("spec").spec, params |-> last("spec").params]
  BY Zenon DEF Read
<1>4. /\ t.gvk # "none" => last("gvk").gvk = t.gvk
      /\ t.spec # "none" => last("spec").spec = t.spec /\ last("spec").params = t.params
  BY <1>2
<1> HIDE DEF last
<1> QED
  BY <1>3, <1>4

\* What is missing in the first template that is read is missing.
LEMMA ReadFirst ==
  ASSUME NEW a, NEW order
  PROVE  LET t == a.templates[order[1]]
             data == Read(a, order, 1)
         IN /\ t.gvk = "none" => data.gvk = "none"
            /\ t.spec = "none" => data.spec = "none"
<1> DEFINE t == a.templates[order[1]]
           having(key) == {i \in 1..1 : a.templates[order[i]][key] # "none"}
           last(key) == IF having(key) = {} THEN NoData ELSE a.templates[order[Max(having(key))]]
<1>1. ASSUME NEW key, t[key] = "none"
      PROVE  last(key) = NoData
  <2>1. having(key) = {}
    BY <1>1
  <2> QED
    BY <2>1
<1>2. Read(a, order, 1) =
        [gvk |-> last("gvk").gvk, spec |-> last("spec").spec, params |-> last("spec").params]
  BY Zenon DEF Read
<1>3. /\ t["gvk"] = "none" => last("gvk") = NoData
      /\ t["spec"] = "none" => last("spec") = NoData
  BY Zenon, <1>1
<1>4. NoData.gvk = "none" /\ NoData.spec = "none"
  BY DEF NoData
<1> HIDE DEF last
<1>5. /\ t.gvk = "none" => last("gvk").gvk = "none"
      /\ t.spec = "none" => last("spec").spec = "none"
  BY <1>3, <1>4
<1> QED
  BY <1>2, <1>5

\* The orders in which these lifecycle steps may be taken.
Orders(steps) == Bijection(1..Cardinality(steps), steps)

\* There is one, and any of the steps may be the first.
LEMMA OrdersExist ==
  ASSUME NEW steps \in SUBSET LifecycleSteps
  PROVE  /\ Cardinality(steps) \in Nat
         /\ Orders(steps) # {}
         /\ \A s \in steps : \E order \in Orders(steps) : 1 \in DOMAIN order /\ order[1] = s
<1> DEFINE n == Cardinality(steps)
<1>1. IsFiniteSet(LifecycleSteps)
  <2>1. IsFiniteSet({} \cup {"prereqs"}) /\ IsFiniteSet(({} \cup {"prereqs"}) \cup {"install"})
    BY FS_EmptySet, FS_AddElement
  <2>2. IsFiniteSet((({} \cup {"prereqs"}) \cup {"install"}) \cup {"validate"})
    BY <2>1, FS_AddElement
  <2>3. IsFiniteSet(((({} \cup {"prereqs"}) \cup {"install"}) \cup {"validate"}) \cup {"delete"})
    BY <2>2, FS_AddElement
  <2>4. LifecycleSteps = ((({} \cup {"prereqs"}) \cup {"install"}) \cup {"validate"}) \cup {"delete"}
    BY DEF LifecycleSteps
  <2> QED
    BY <2>3, <2>4
<1>2. IsFiniteSet(steps)
  BY <1>1, FS_Subset
<1>3. n \in Nat /\ ExistsBijection(1..n, steps)
  BY <1>2, FS_CardinalityType
<1> HIDE DEF n
<1>4. PICK f : f \in Bijection(1..n, steps)
  BY <1>3 DEF ExistsBijection
<1>5. ASSUME NEW s \in steps
      PROVE  \E order \in Bijection(1..n, steps) : 1 \in DOMAIN order /\ order[1] = s
  <2>1. /\ f \in [1..n -> steps]
        /\ \A i, j \in 1..n : f[i] = f[j] => i = j
        /\ \A t \in steps : \E i \in 1..n : f[i] = t
    BY <1>4 DEF Bijection, Injection, Surjection, IsInjective
  <2>2. PICK k \in 1..n : f[k] = s
    BY <2>1
  <2>3. 1 \in 1..n
    BY <1>3, <2>2
  <2> DEFINE g == [i \in 1..n |-> IF i = 1 THEN s ELSE IF i = k THEN f[1] ELSE f[i]]
  <2>4. g \in [1..n -> steps] /\ g[1] = s
    BY <2>1, <2>3
  <2>5. \A i, j \in 1..n : g[i] = g[j] => i = j
    BY <2>1, <2>2, <2>3
  <2>6. ASSUME NEW t \in steps
        PROVE  \E i \in 1..n : g[i] = t
    <3>1. PICK i \in 1..n : f[i] = t
      BY <2>1
    <3>2. CASE i = k
      BY <2>2, <2>4, <3>1, <3>2, <2>3
    <3>3. CASE i # k /\ i = 1
      BY <2>2, <3>1, <3>3
    <3>4. CASE i # k /\ i # 1
      BY <3>1, <3>4
    <3> QED
      BY <3>2, <3>3, <3>4
  <2> HIDE DEF g
  <2>7. g \in Bijection(1..n, steps)
    BY <2>4, <2>5, <2>6 DEF Bijection, Injection, Surjection, IsInjective
  <2> QED
    BY <2>3, <2>4, <2>7
<1> QED
  BY <1>3, <1>4, <1>5 DEF Orders, n

\* A template that deserves to pass.
Fine(a, t) ==
  /\ t.yaml /\ t.gvk = "workflow" /\ t.spec # "none"
  /\ \A p \in t.params : ~p.int /\ p.name \notin GetAllAddonParameters(a)

\* The answers to the templates, in this order.
Answers(a, order) ==
  [i \in DOMAIN order |-> checkTemplate(a, a.templates[order[i]], Read(a, order, i))]

\* A template that deserves it passes at any place.
LEMMA FinePasses ==
  ASSUME NEW a, NEW order, NEW i \in DOMAIN order, i \in Nat \ {0}, Fine(a, a.templates[order[i]])
  PROVE  Answers(a, order)[i] = "ok"
<1>1. LET data == Read(a, order, i)
          t == a.templates[order[i]]
      IN data.gvk = "workflow" /\ data.spec # "none" /\ data.params = t.params
  BY ReadLast DEF Fine
<1> QED
  BY <1>1 DEF Answers, checkTemplate, Fine

\* Only such a template passes as the first.
LEMMA FirstFine ==
  ASSUME NEW a, NEW order, 1 \in DOMAIN order, Answers(a, order)[1] = "ok"
  PROVE  Fine(a, a.templates[order[1]])
<1> DEFINE t == a.templates[order[1]]
           data == Read(a, order, 1)
<1>1. /\ t.yaml /\ data.gvk = "workflow" /\ data.spec # "none"
      /\ \A p \in data.params : ~p.int /\ p.name \notin GetAllAddonParameters(a)
  BY DEF Answers, checkTemplate
<1>2. /\ t.gvk = "none" => data.gvk = "none"
      /\ t.spec = "none" => data.spec = "none"
  BY ReadFirst
<1>3. /\ t.gvk # "none" => data.gvk = t.gvk
      /\ t.spec # "none" => data.spec = t.spec /\ data.params = t.params
  BY ReadLast
<1> HIDE DEF t, data
<1>4. t.yaml /\ t.gvk = "workflow" /\ t.spec # "none" /\ data.params = t.params
  BY <1>1, <1>2, <1>3
<1> QED
  BY <1>1, <1>4 DEF Fine, t

\* The check of some templates, by their orders.
LEMMA CheckedInOrders ==
  ASSUME NEW a, NEW steps
  PROVE  checkTemplates(a, steps) = UNION {FirstWrong(Answers(a, order)) : order \in Orders(steps)}
BY Zenon DEF checkTemplates, Orders, Answers

\* The templates always pass if and only if each of them deserves it.
LEMMA CheckedTemplates ==
  ASSUME NEW a, NEW steps \in SUBSET LifecycleSteps
  PROVE  checkTemplates(a, steps) = {"ok"} <=> \A s \in steps : Fine(a, a.templates[s])
<1>1. ASSUME checkTemplates(a, steps) = {"ok"}, NEW s \in steps
      PROVE  Fine(a, a.templates[s])
  <2>1. PICK order \in Orders(steps) : 1 \in DOMAIN order /\ order[1] = s
    BY OrdersExist
  <2>2. FirstWrong(Answers(a, order)) \subseteq {"ok"}
    BY <1>1, CheckedInOrders
  <2>3. 1 \in DOMAIN Answers(a, order)
    BY <2>1 DEF Answers
  <2>4. Answers(a, order)[1] = "ok"
    BY <2>2, <2>3, FirstIsWrong
  <2> QED
    BY <2>1, <2>4, FirstFine
<1>2. ASSUME \A s \in steps : Fine(a, a.templates[s])
      PROVE  checkTemplates(a, steps) = {"ok"}
  <2>1. ASSUME NEW order \in Orders(steps)
        PROVE  FirstWrong(Answers(a, order)) = {"ok"}
    <3>1. order \in [1..Cardinality(steps) -> steps] /\ Cardinality(steps) \in Nat
      BY OrdersExist DEF Orders, Bijection, Injection
    <3>2. \A i \in DOMAIN order : i \in Nat \ {0} /\ order[i] \in steps
      BY <3>1
    <3>3. \A i \in DOMAIN order : Answers(a, order)[i] = "ok"
      BY <1>2, <3>2, FinePasses
    <3>4. DOMAIN Answers(a, order) = DOMAIN order
      BY DEF Answers
    <3> QED
      BY <3>3, <3>4 DEF FirstWrong
  <2>2. Orders(steps) # {}
    BY OrdersExist
  <2> QED
    BY <2>1, <2>2, CheckedInOrders
<1> QED
  BY <1>1, <1>2

\* A key that is there after n templates is in one of them.
LEMMA ReadFrom ==
  ASSUME NEW a, NEW order, NEW n \in Nat
  PROVE  LET data == Read(a, order, n)
         IN /\ data.gvk # "none" => \E i \in 1..n : a.templates[order[i]].gvk # "none"
            /\ data.spec # "none" => \E i \in 1..n : a.templates[order[i]].spec # "none"
<1> DEFINE having(key) == {i \in 1..n : a.templates[order[i]][key] # "none"}
           last(key) == IF having(key) = {} THEN NoData ELSE a.templates[order[Max(having(key))]]
<1>1. Read(a, order, n) =
        [gvk |-> last("gvk").gvk, spec |-> last("spec").spec, params |-> last("spec").params]
  BY Zenon DEF Read
<1>2. NoData.gvk = "none" /\ NoData.spec = "none"
  BY DEF NoData
<1>3. /\ last("gvk").gvk # "none" => having("gvk") # {}
      /\ last("spec").spec # "none" => having("spec") # {}
  BY <1>2
<1>4. /\ having("gvk") # {} => \E i \in 1..n : a.templates[order[i]].gvk # "none"
      /\ having("spec") # {} => \E i \in 1..n : a.templates[order[i]].spec # "none"
  OBVIOUS
<1> HIDE DEF last, having
<1> QED
  BY <1>1, <1>3, <1>4

\* If the templates can pass, then each of them can be parsed and says nothing wrong,
\* and what it lacks another one has.
LEMMA PassedTemplates ==
  ASSUME NEW a, NEW steps \in SUBSET LifecycleSteps,
         "ok" \in checkTemplates(a, steps), NEW s \in steps
  PROVE  LET t == a.templates[s]
         IN /\ t.yaml /\ t.gvk \in {"workflow", "none"}
            /\ t.spec # "none" =>
                 \A p \in t.params : ~p.int /\ p.name \notin GetAllAddonParameters(a)
            /\ t.gvk = "none" => \E u \in steps : a.templates[u].gvk # "none"
            /\ t.spec = "none" => \E u \in steps : a.templates[u].spec # "none"
<1>1. PICK order \in Orders(steps) : "ok" \in FirstWrong(Answers(a, order))
  BY CheckedInOrders
<1>2. /\ order \in [1..Cardinality(steps) -> steps] /\ Cardinality(steps) \in Nat
      /\ \A t \in steps : \E i \in 1..Cardinality(steps) : order[i] = t
  BY OrdersExist DEF Orders, Bijection, Injection, Surjection
<1>3. PICK i \in DOMAIN order : i \in Nat \ {0} /\ order[i] = s
  BY <1>2
<1>4. i \in DOMAIN Answers(a, order)
  BY DEF Answers
<1>5. Answers(a, order)[i] = "ok"
  BY <1>1, <1>4, AllOk
<1>6. checkTemplate(a, a.templates[s], Read(a, order, i)) = "ok"
  BY <1>3, <1>5 DEF Answers
<1> DEFINE t == a.templates[s]
           data == Read(a, order, i)
<1>7. /\ t.gvk # "none" => data.gvk = t.gvk
      /\ t.spec # "none" => data.spec = t.spec /\ data.params = t.params
  BY <1>3, ReadLast
<1>8. /\ data.gvk # "none" => \E j \in 1..i : a.templates[order[j]].gvk # "none"
      /\ data.spec # "none" => \E j \in 1..i : a.templates[order[j]].spec # "none"
  BY <1>3, ReadFrom
<1>9. \A j \in 1..i : order[j] \in steps
  BY <1>2, <1>3
<1>10. /\ t.yaml /\ data.gvk = "workflow" /\ data.spec # "none"
       /\ \A p \in data.params : ~p.int /\ p.name \notin GetAllAddonParameters(a)
  BY <1>6 DEF checkTemplate
<1> HIDE DEF data
<1>11. /\ t.yaml /\ t.gvk \in {"workflow", "none"}
       /\ t.spec # "none" => \A p \in t.params : ~p.int /\ p.name \notin GetAllAddonParameters(a)
  BY <1>7, <1>10
<1>12. /\ \E u \in steps : a.templates[u].gvk # "none"
       /\ \E u \in steps : a.templates[u].spec # "none"
  BY <1>8, <1>9, <1>10
<1> QED
  BY <1>11, <1>12

-----------------------------------------------------------------------------
\* Install

\* A record over another one has the fields of both.
LEMMA OverFields ==
  ASSUME NEW f, NEW g
  PROVE  /\ DOMAIN Over(f, g) = DOMAIN f \cup DOMAIN g
         /\ \A x \in DOMAIN f : Over(f, g)[x] = f[x]
         /\ \A x \in DOMAIN g \ DOMAIN f : Over(f, g)[x] = g[x]
BY DEF Over

\* The fields of a template.
LEMMA TemplateFields ==
  DOMAIN New = {"answer", "yaml", "gvk", "labels", "spec", "params", "ttl", "deadline", "templates",
                "holders", "elsewhere", "entrypoint"}
BY DEF New

\* The workflow that parse makes.
LEMMA Parsed ==
  ASSUME NEW a, NEW step, NEW t, IsTemplate(t)
  PROVE  LET w == parse(a, step, t)
         IN /\ DOMAIN w = DOMAIN New \cup {"name"}
            /\ w.answer = "ok" => t.spec # "none"
            /\ w.name = GetFormattedWorkflowName(a, step)
            /\ w.labels = t.labels /\ w.spec = t.spec /\ w.params = t.params /\ w.ttl = t.ttl
            /\ w.deadline = t.deadline /\ w.holders = t.holders /\ w.elsewhere = t.elsewhere
            /\ w.templates = t.templates
<1> DEFINE g == [answer |-> "ok", name |-> GetFormattedWorkflowName(a, step)]
           v == Over(t, g)
<1>1. DOMAIN g = {"answer", "name"} /\ g["name"] = GetFormattedWorkflowName(a, step)
  OBVIOUS
<1> HIDE DEF g
<1>2. DOMAIN t = DOMAIN New
  BY DEF IsTemplate
<1>3. /\ DOMAIN v = DOMAIN New \cup {"name"}
      /\ \A x \in DOMAIN New : v[x] = t[x]
      /\ v["name"] = GetFormattedWorkflowName(a, step)
  <2>1. "name" \in DOMAIN g \ DOMAIN t /\ DOMAIN t \cup DOMAIN g = DOMAIN New \cup {"name"}
    BY <1>1, <1>2, TemplateFields
  <2>2. DOMAIN v = DOMAIN t \cup DOMAIN g /\ v["name"] = g["name"]
    BY <2>1 DEF Over
  <2>3. \A x \in DOMAIN t : v[x] = t[x]
    BY OverFields
  <2> QED
    BY <1>1, <1>2, <2>1, <2>2, <2>3
<1> HIDE DEF v
<1>4. parse(a, step, t) = IF ~t.yaml \/ t.gvk = "none" \/ t.spec = "none"
                          THEN [v EXCEPT !.answer = "error"] ELSE [v EXCEPT !.gvk = "workflow"]
  BY Zenon DEF parse, Error, v, g
<1> QED
  BY <1>3, <1>4, TemplateFields

\* The parameters that a template with these parameters gets.
AllParams(a, theirs) ==
  theirs \cup Given({"namespace"}, "namespace")
    \cup Given(PackageFields, "package") \cup Given(ContextFields, "context")
    \cup Given(a.configs, "configs") \cup Given(a.data, "data")

\* What the fields of a workflow are after Install, if it is submitted.
IsInstalled(w, a, step, t) ==
  /\ t.spec # "none"
  /\ w.name = GetFormattedWorkflowName(a, step)
  /\ w.params = AllParams(a, t.params)
  /\ w.holders = {processWorkflowResources(a, h) : h \in t.holders}
  /\ t.ttl # "text" /\ w.ttl = inject(t.ttl, "3 days")
  /\ t.deadline # "text" /\ w.deadline = inject(t.deadline, "5 minutes")
  /\ \E labels : w.labels = addDefaultLabelsToResource(a, labels)

\* Each step of Install does its part and keeps the parts of the others.
LEMMA Installed ==
  ASSUME NEW a, NEW step, NEW t, IsTemplate(t), Install(a, step, t).answer = "ok"
  PROVE  IsInstalled(Install(a, step, t), a, step, t)
<1> DEFINE w1 == parse(a, step, t)
           w2 == IF w1.answer = "ok" THEN configureGlobalWFParameters(a, w1) ELSE w1
           w3 == IF w2.answer = "ok" THEN configureWorkflowArtifacts(a, w2) ELSE w2
           w4 == IF w3.answer = "ok" THEN injectTTLs(w3) ELSE w3
           w5 == IF w4.answer = "ok" THEN injectActiveDeadlineSeconds(w4) ELSE w4
           labelled(w) == [injectInstanceId(w) EXCEPT !.labels = addDefaultLabelsToResource(a, @)]
           w6 == IF w5.answer = "ok" THEN labelled(w5) ELSE w5
<1> DEFINE Fields == DOMAIN New \cup {"name"}
<1>1. Install(a, step, t) = w6
  BY Zenon DEF Install, Then
<1>2. /\ DOMAIN w1 = Fields
      /\ w1.answer = "ok" => t.spec # "none"
      /\ w1.name = GetFormattedWorkflowName(a, step)
      /\ w1.labels = t.labels /\ w1.spec = t.spec /\ w1.params = t.params /\ w1.ttl = t.ttl
      /\ w1.deadline = t.deadline /\ w1.holders = t.holders
  BY Parsed
<1> HIDE DEF w1
<1>3. /\ DOMAIN w2 = Fields
      /\ w2.answer = "ok" => w1.answer = "ok" /\ w2.params = AllParams(a, w1.params)
      /\ w2.name = w1.name /\ w2.ttl = w1.ttl /\ w2.deadline = w1.deadline
      /\ w2.holders = w1.holders
  BY <1>2, TemplateFields DEF configureGlobalWFParameters, AllParams
<1> HIDE DEF w2
<1>4. /\ DOMAIN w3 = Fields
      /\ w3.answer = "ok" =>
           /\ w2.answer = "ok"
           /\ w3.holders = {processWorkflowResources(a, h) : h \in w2.holders}
      /\ w3.name = w2.name /\ w3.ttl = w2.ttl /\ w3.deadline = w2.deadline /\ w3.params = w2.params
  BY <1>3, TemplateFields DEF configureWorkflowArtifacts, Error
<1> HIDE DEF w3
<1>5. /\ DOMAIN w4 = Fields
      /\ w4.answer = "ok" =>
           w3.answer = "ok" /\ w3.ttl # "text" /\ w4.ttl = inject(w3.ttl, "3 days")
      /\ w4.name = w3.name /\ w4.deadline = w3.deadline /\ w4.params = w3.params
      /\ w4.holders = w3.holders
  BY <1>4, TemplateFields DEF injectTTLs, Error
<1> HIDE DEF w4
<1>6. /\ DOMAIN w5 = Fields
      /\ w5.answer = "ok" =>
           /\ w4.answer = "ok" /\ w4.deadline # "text"
           /\ w5.deadline = inject(w4.deadline, "5 minutes")
      /\ w5.name = w4.name /\ w5.ttl = w4.ttl /\ w5.params = w4.params /\ w5.holders = w4.holders
  BY <1>5, TemplateFields DEF injectActiveDeadlineSeconds, Error
<1> HIDE DEF w5
<1>7. /\ w6.answer = "ok" =>
           w5.answer = "ok" /\ \E labels : w6.labels = addDefaultLabelsToResource(a, labels)
      /\ w6.name = w5.name /\ w6.ttl = w5.ttl /\ w6.params = w5.params /\ w6.holders = w5.holders
      /\ w6.deadline = w5.deadline
  BY <1>6, TemplateFields DEF injectInstanceId
<1> HIDE DEF w6
<1>8. /\ w1.answer = "ok" /\ w2.answer = "ok" /\ w3.answer = "ok" /\ w4.answer = "ok"
      /\ w5.answer = "ok" /\ w6.answer = "ok"
  BY Zenon, <1>1, <1>3, <1>4, <1>5, <1>6, <1>7
<1>9. w6.holders = {processWorkflowResources(a, h) : h \in t.holders}
  <2>1. w2.holders = t.holders /\ w6.holders = w3.holders
    BY Zenon, <1>2, <1>3, <1>5, <1>6, <1>7
  <2> QED
    BY Zenon, <2>1, <1>4, <1>8
<1>10. w6.params = AllParams(a, t.params)
  <2>1. w6.params = w5.params /\ w5.params = w4.params
    BY Zenon, <1>6, <1>7
  <2>2. w4.params = w3.params /\ w3.params = w2.params
    BY Zenon, <1>4, <1>5
  <2>3. w2.params = AllParams(a, w1.params) /\ w1.params = t.params
    BY Zenon, <1>2, <1>3, <1>8
  <2> QED
    BY Zenon, <2>1, <2>2, <2>3
<1>11. /\ w6.name = GetFormattedWorkflowName(a, step) /\ t.spec # "none"
       /\ t.ttl # "text" /\ w6.ttl = inject(t.ttl, "3 days")
       /\ t.deadline # "text" /\ w6.deadline = inject(t.deadline, "5 minutes")
  <2>1. w6.name = w5.name /\ w5.name = w4.name /\ w6.ttl = w5.ttl /\ w5.ttl = w4.ttl
        /\ w6.deadline = w5.deadline
    BY Zenon, <1>6, <1>7
  <2>2. w4.name = w3.name /\ w3.name = w2.name /\ w4.deadline = w3.deadline
        /\ w3.deadline = w2.deadline /\ w3.ttl = w2.ttl
    BY Zenon, <1>4, <1>5
  <2>3. /\ w2.name = w1.name /\ w2.ttl = w1.ttl /\ w2.deadline = w1.deadline
        /\ w1.name = GetFormattedWorkflowName(a, step) /\ w1.ttl = t.ttl
        /\ w1.deadline = t.deadline /\ t.spec # "none"
    BY Zenon, <1>2, <1>3, <1>8
  <2>4. /\ w3.ttl # "text" /\ w4.ttl = inject(w3.ttl, "3 days")
        /\ w4.deadline # "text" /\ w5.deadline = inject(w4.deadline, "5 minutes")
    BY Zenon, <1>5, <1>6, <1>8
  <2> QED
    BY Zenon, <2>1, <2>2, <2>3, <2>4
<1> QED
  BY Zenon, <1>1, <1>7, <1>8, <1>9, <1>10, <1>11 DEF IsInstalled

-----------------------------------------------------------------------------
\* The way of the addon

\* There is an addon.
HasAddon == stage \in {"applied", "valid", "observed"} \/ DOMAIN wfs # {}

\* It is one of the kind that Install expects, and the objects of others do not have
\* its name.
AddonInv ==
  /\ case \in Cases
  /\ HasAddon => /\ IsAddon(addon)
               /\ \A o \in case.objects : ~Has(o.labels, "name", addon.name)
  /\ stage = "applied" /\ case.by = "addonctl" =>
       /\ Create(case.arg, case.flags).answer = "ok"
       /\ addon = Create(case.arg, case.flags).addon

\* Workflows are what Install makes of the templates of an addon that passed, and
\* those submitted have deployed their objects.
WorkflowsInv ==
  /\ stage \in {"given", "applied"} => DOMAIN wfs = {}
  /\ stage = "valid" \/ DOMAIN wfs # {} => "ok" \in validateWorkflow(addon)
  /\ \A step \in DOMAIN wfs :
       /\ step \in DOMAIN addon.templates
       /\ wfs[step] = Install(addon, step, addon.templates[step])
       /\ wfs[step].answer = "ok" => Deployed(wfs[step]) \subseteq objects

PipelineInv ==
  /\ AddonInv
  /\ WorkflowsInv
  /\ stage = "observed" => resources = observeResources(addon, objects)


\* What addonctl builds for a path that has no scripts, and for the deletion.
Built(objs) ==
  [New EXCEPT !.gvk = "workflow", !.entrypoint = TRUE, !.elsewhere = {} \cup objs,
              !.holders = {NoObjects} \cup {[NoObjects EXCEPT !.hasArtifacts = TRUE]}]

BuiltToDelete ==
  [New EXCEPT !.gvk = "workflow", !.holders = {NoObjects}, !.elsewhere = {}]

\* A builder that does not panic has no scripts.
LEMMA BuiltWithoutScripts ==
  ASSUME NEW scripts, NEW objs,
         Build(Resources(Scripts(New, scripts), objs), FALSE).answer # "panic"
  PROVE  Build(Resources(Scripts(New, scripts), objs), FALSE) = Built(objs)
<1>1. scripts = {}
  BY DEF Build, Resources, Scripts, Then, New
<1>2. Scripts(New, scripts) = New
  BY <1>1 DEF Scripts
<1>3. New.answer = "ok" /\ New.elsewhere = {} /\ New.holders = {NoObjects}
  BY DEF New
<1> DEFINE r == [New EXCEPT !.elsewhere = {} \cup objs,
                            !.holders = {NoObjects} \cup {[NoObjects EXCEPT !.hasArtifacts = TRUE]}]
<1>4. Resources(New, objs) = r
  BY <1>3 DEF Resources, Then
<1>5. r.answer = "ok"
  BY DEF New
<1>6. Build(r, FALSE) = [r EXCEPT !.gvk = "workflow", !.entrypoint = TRUE]
  BY <1>5 DEF Build, Then
<1>7. [r EXCEPT !.gvk = "workflow", !.entrypoint = TRUE] = Built(objs)
  BY DEF Built, New
<1> QED
  BY <1>2, <1>4, <1>6, <1>7

\* Such templates are templates, and pass.
LEMMA BuiltFine ==
  ASSUME NEW t, (\E objs : t = Built(objs)) \/ t = BuiltToDelete
  PROVE  IsTemplate(t) /\ \A a : Fine(a, t)
<1>1. /\ DOMAIN t = DOMAIN New
      /\ t.answer = "ok" /\ t.ttl = "none" /\ t.deadline = "none"
      /\ t.yaml /\ t.gvk = "workflow" /\ t.spec = "map" /\ t.params = {}
      /\ t.holders \subseteq {NoObjects, [NoObjects EXCEPT !.hasArtifacts = TRUE]}
  <2>1. CASE t = BuiltToDelete
    BY <2>1 DEF BuiltToDelete, New
  <2>2. ASSUME NEW objs, t = Built(objs)
        PROVE  /\ DOMAIN t = DOMAIN New
               /\ t.answer = "ok" /\ t.ttl = "none" /\ t.deadline = "none"
               /\ t.yaml /\ t.gvk = "workflow" /\ t.spec = "map" /\ t.params = {}
               /\ t.holders \subseteq {NoObjects, [NoObjects EXCEPT !.hasArtifacts = TRUE]}
    BY <2>2 DEF Built, New
  <2> QED
    BY <2>1, <2>2
<1>2. \A h \in t.holders : /\ DOMAIN h = DOMAIN NoObjects
                           /\ h.artifacts = {} /\ h.manifest = {}
  BY <1>1 DEF NoObjects
<1>3. IsTemplate(t)
  BY <1>1, <1>2 DEF IsTemplate
<1> QED
  BY <1>1, <1>3 DEF Fine

\* Six checks come to something.
LEMMA SomeAnswer ==
  ASSUME NEW a1, NEW a2, NEW a3, NEW a4, NEW a5, NEW a6
  PROVE  FirstWrong(<<a1, a2, a3, a4, a5, a6>>) # {}
<1> DEFINE all == <<a1, a2, a3, a4, a5, a6>>
<1> SUFFICES FirstWrong(all) # {}
  OBVIOUS
<1>1. DOMAIN all = {1, 2, 3, 4, 5, 6}
  OBVIOUS
<1>2. ASSUME NEW j \in DOMAIN all, all[j] # "ok", \A k \in 1..(j - 1) : all[k] = "ok"
      PROVE  FirstWrong(all) # {}
  BY <1>2 DEF FirstWrong
<1>3. CASE \A j \in DOMAIN all : all[j] = "ok"
  BY <1>3 DEF FirstWrong
<1> HIDE DEF all
<1>4. CASE \E j \in DOMAIN all : all[j] # "ok"
  <2>1. PICK j \in DOMAIN all : all[j] # "ok" /\ \A k \in 1..(j - 1) : all[k] = "ok"
    BY <1>1, <1>4
  <2> QED
    BY <1>2, <2>1
<1> QED
  BY <1>3, <1>4

\* What the Addon of a command has.
IsCreated(a, arg, flags) ==
  /\ IsAddon(a) /\ a.name = arg.name
  /\ a.deps = flags.deps /\ a.secrets = flags.secrets
  /\ DOMAIN a.templates = {"prereqs", "install", "delete"}
  /\ a.templates["prereqs"] = Built(extract(flags.prereqs).objects)
  /\ a.templates["install"] = Built(extract(flags.install).objects)
  /\ a.templates["delete"] = BuiltToDelete
  /\ extract(flags.prereqs).answer = "ok" /\ extract(flags.install).answer = "ok"

\* The Addon of a command that was carried out.
LEMMA Created ==
  ASSUME NEW arg, NEW flags, Create(arg, flags).answer = "ok", IsName(arg.name)
  PROVE  IsCreated(Create(arg, flags).addon, arg, flags)
<1> DEFINE a == Create(arg, flags).addon
           built(path) == Build(Resources(Scripts(New, extract(path).scripts),
                                          extract(path).objects), FALSE)
           all == <<extract(flags.prereqs).answer, extract(flags.install).answer,
                    parseAddonParams(flags.params), parsePairs(flags, "deps"),
                    parsePairs(flags, "selector"), validatePkgType(flags.pkgType)>>
<1>1. /\ Templates(flags) = [prereqs |-> built(flags.prereqs), install |-> built(flags.install),
                             delete |-> Build(New, TRUE)]
      /\ parseAllArgs(flags) = CHOOSE answer_ \in FirstWrong(all) : TRUE
  BY Zenon DEF Templates, parseAllArgs
<1>2. /\ parseAllArgs(flags) = "ok"
      /\ \A step \in DOMAIN Templates(flags) : Templates(flags)[step].answer # "panic"
  BY DEF Create
<1>3. /\ a.name = arg.name /\ a.deps = flags.deps
      /\ a.secrets = flags.secrets /\ a.templates = Templates(flags)
      /\ a.prefix = [step \in DOMAIN Templates(flags) |-> << >>]
  BY DEF Create
<1>0. IsVersion(a)
  BY DEF Create, IsVersion
<1> HIDE DEF a, built
<1>4. FirstWrong(all) # {}
  BY SomeAnswer
<1>5. "ok" \in FirstWrong(all)
  BY <1>1, <1>2, <1>4
<1>6. 1 \in DOMAIN all /\ 2 \in DOMAIN all /\ all[1] = extract(flags.prereqs).answer
      /\ all[2] = extract(flags.install).answer
  OBVIOUS
<1> HIDE DEF all
<1>7. extract(flags.prereqs).answer = "ok" /\ extract(flags.install).answer = "ok"
  BY <1>5, <1>6, AllOk
<1>8. /\ DOMAIN a.templates = {"prereqs", "install", "delete"}
      /\ a.templates["prereqs"] = built(flags.prereqs) /\ built(flags.prereqs).answer # "panic"
      /\ a.templates["install"] = built(flags.install) /\ built(flags.install).answer # "panic"
      /\ a.templates["delete"] = Build(New, TRUE)
  BY <1>1, <1>2, <1>3
<1>9. Build(New, TRUE) = BuiltToDelete
  BY DEF Build, Then, BuiltToDelete, New
<1>10. /\ a.templates["prereqs"] = Built(extract(flags.prereqs).objects)
       /\ a.templates["install"] = Built(extract(flags.install).objects)
  BY <1>8, BuiltWithoutScripts DEF built
<1>11. \A step \in DOMAIN a.templates : IsTemplate(a.templates[step])
  BY <1>8, <1>9, <1>10, BuiltFine
<1>12. \A step \in DOMAIN a.templates : a.prefix[step] \in Seq(STRING)
  BY <1>3
<1>13. IsAddon(a)
  BY Zenon, <1>0, <1>3, <1>8, <1>11, <1>12 DEF IsAddon, LifecycleSteps
<1> QED
  BY <1>3, <1>7, <1>8, <1>9, <1>10, <1>13 DEF a, IsCreated


\* What passes Validate can pass validateWorkflow.
LEMMA ValidatedWorkflow ==
  ASSUME NEW c, NEW a, "ok" \in Validate(c, a)
  PROVE  "ok" \in validateWorkflow(a)
<1>1. ASSUME NEW answers, NEW next, "ok" \in AndThen(answers, next)
      PROVE  "ok" \in answers /\ "ok" \in next
  BY <1>1 DEF AndThen
<1> DEFINE last == AndThen(resolveDependencies(c, a, {}, 0), ValidateDependencies(c, a))
           fromWorkflow == AndThen(validateWorkflow(a), last)
           fromNamespace == AndThen(validateNamespace(a), fromWorkflow)
           fromName == AndThen(validateAddonNameLength(a), fromNamespace)
<1>2. "ok" \in AndThen(validateDuplicate(c, a), fromName)
  BY Zenon DEF Validate
<1> HIDE DEF last
<1>3. "ok" \in fromName
  BY Zenon, <1>1, <1>2
<1>4. "ok" \in fromNamespace
  BY Zenon, <1>1, <1>3
<1>5. "ok" \in fromWorkflow
  BY Zenon, <1>1, <1>4
<1> QED
  BY Zenon, <1>1, <1>5

\* At first there is no addon and no workflow.
LEMMA PipelineInit ==
  ASSUME Init
  PROVE  PipelineInv
<1>1. case \in Cases /\ stage = "given" /\ DOMAIN wfs = {}
  BY DEF Init
<1> QED
  BY <1>1 DEF PipelineInv, AddonInv, WorkflowsInv, HasAddon

\* The addon that the command or the manifest makes.
LEMMA ApplyStep ==
  ASSUME PipelineInv, RunCommand \/ ApplyManifest
  PROVE  PipelineInv'
<1>1. case \in Cases /\ stage = "given" /\ DOMAIN wfs = {} /\ case' = case /\ wfs' = wfs
  BY DEF PipelineInv, AddonInv, WorkflowsInv, RunCommand, ApplyManifest
<1>2. DOMAIN wfs' = {}
  BY <1>1
<1>3. stage' \in {"applied", "over"}
  BY DEF RunCommand, ApplyManifest
<1>4. ASSUME stage' = "applied"
      PROVE  /\ IsAddon(addon')
             /\ \A o \in case.objects : ~Has(o.labels, "name", addon'.name)
             /\ case.by = "addonctl" => /\ Create(case.arg, case.flags).answer = "ok"
                                        /\ addon' = Create(case.arg, case.flags).addon
  <2>1. CASE RunCommand
    <3>1. /\ case.by = "addonctl"
          /\ Create(case.arg, case.flags).answer = "ok"
          /\ addon' = Create(case.arg, case.flags).addon
      BY <1>4, <2>1 DEF RunCommand
    <3>2. IsName(case.arg.name) /\ \A o \in case.objects : ~Has(o.labels, "name", case.arg.name)
      BY <1>1, <3>1, CasesAssumption
    <3>3. IsAddon(addon') /\ addon'.name = case.arg.name
      <4>1. IsCreated(addon', case.arg, case.flags)
        BY Zenon, <3>1, <3>2, Created
      <4> QED
        BY Zenon, <4>1 DEF IsCreated
    <3> QED
      BY <3>1, <3>2, <3>3
  <2>2. CASE ApplyManifest
    <3>1. case.by = "kubectl" /\ addon' = case.addon
      BY <2>2 DEF ApplyManifest
    <3> QED
      BY <1>1, <3>1, CasesAssumption
  <2> QED
    BY <2>1, <2>2
<1>5. AddonInv'
  BY <1>1, <1>2, <1>3, <1>4 DEF AddonInv, HasAddon
<1>6. WorkflowsInv'
  BY <1>2, <1>3 DEF WorkflowsInv
<1> QED
  BY <1>3, <1>5, <1>6 DEF PipelineInv

\* Validate lets the addon pass, or not; secrets may be missing; the resources are
\* observed.
LEMMA OtherSteps ==
  ASSUME PipelineInv, ValidateAddon \/ SecretsMissing \/ Observe
  PROVE  PipelineInv'
<1>1. case' = case /\ addon' = addon /\ wfs' = wfs /\ objects' = objects
  BY DEF ValidateAddon, SecretsMissing, Observe
<1>2. /\ stage \in {"applied", "valid"} /\ stage' \in {"valid", "observed", "over"}
      /\ stage' = "valid" => "ok" \in Validate(case.cache, addon)
      /\ stage' = "observed" => stage = "valid" /\ resources' = observeResources(addon, objects)
  BY DEF ValidateAddon, SecretsMissing, Observe
<1>3. AddonInv'
  BY <1>1, <1>2 DEF PipelineInv, AddonInv, HasAddon
<1>4. WorkflowsInv'
  <2>1. \A step \in DOMAIN wfs :
          /\ step \in DOMAIN addon.templates
          /\ wfs[step] = Install(addon, step, addon.templates[step])
          /\ wfs[step].answer = "ok" => Deployed(wfs[step]) \subseteq objects
    BY DEF PipelineInv, WorkflowsInv
  <2>2. stage' = "valid" \/ DOMAIN wfs # {} => "ok" \in validateWorkflow(addon)
    BY <1>2, ValidatedWorkflow DEF PipelineInv, WorkflowsInv
  <2> QED
    BY <1>1, <1>2, <2>1, <2>2 DEF WorkflowsInv
<1> QED
  BY <1>1, <1>2, <1>3, <1>4 DEF PipelineInv

\* A workflow is made, and submitted if nothing is wrong.
LEMMA InstallStepStep ==
  ASSUME PipelineInv, NEW step \in {"prereqs", "install", "delete"}, InstallStep(step)
  PROVE  PipelineInv'
<1> DEFINE w == Install(addon, step, addon.templates[step])
           one == [s \in {step} |-> w]
<1>1. /\ case' = case /\ addon' = addon /\ stage' = stage /\ stage = "valid"
      /\ step \in DOMAIN addon.templates
      /\ wfs' = Over(wfs, one)
      /\ objects' = IF w.answer = "ok" THEN objects \cup Deployed(w) ELSE objects
  BY Zenon DEF InstallStep
<1>2. DOMAIN one = {step} /\ one[step] = w
  OBVIOUS
<1> HIDE DEF w, one
<1>3. /\ DOMAIN wfs' = DOMAIN wfs \cup {step}
      /\ \A s \in DOMAIN wfs : wfs'[s] = wfs[s]
      /\ step \notin DOMAIN wfs => wfs'[step] = w
  BY <1>1, <1>2 DEF Over
<1>4. step \notin DOMAIN wfs
  BY DEF InstallStep
<1>5. AddonInv'
  BY <1>1 DEF PipelineInv, AddonInv, HasAddon
<1>6. ASSUME NEW s \in DOMAIN wfs'
      PROVE  /\ s \in DOMAIN addon.templates
             /\ wfs'[s] = Install(addon, s, addon.templates[s])
             /\ wfs'[s].answer = "ok" => Deployed(wfs'[s]) \subseteq objects'
  <2>1. CASE s \in DOMAIN wfs
    <3>1. wfs'[s] = wfs[s] /\ objects \subseteq objects'
      BY <1>1, <1>3, <2>1
    <3> QED
      BY <2>1, <3>1 DEF PipelineInv, WorkflowsInv
  <2>2. CASE s = step
    <3>1. wfs'[s] = w
      BY <1>3, <1>4, <2>2
    <3> QED
      BY <1>1, <2>2, <3>1 DEF w
  <2> QED
    BY <1>3, <1>6, <2>1, <2>2
<1>7. "ok" \in validateWorkflow(addon)
  BY <1>1 DEF PipelineInv, WorkflowsInv
<1>8. WorkflowsInv'
  <2>1. \A s \in DOMAIN wfs' :
          /\ s \in DOMAIN addon'.templates
          /\ wfs'[s] = Install(addon', s, addon'.templates[s])
          /\ wfs'[s].answer = "ok" => Deployed(wfs'[s]) \subseteq objects'
    BY Zenon, <1>1, <1>6
  <2> QED
    BY <1>1, <1>7, <2>1 DEF WorkflowsInv
<1> QED
  BY <1>1, <1>5, <1>8 DEF PipelineInv

\* Whatever the cases are, workflows are what Install makes of the templates of an
\* addon that validateWorkflow let pass, their objects are in the cluster, and what
\* was observed is what is there.
THEOREM PipelineInvAlways == Spec => []PipelineInv
<1>1. Init => PipelineInv
  BY PipelineInit
<1>2. PipelineInv /\ [Next]_vars => PipelineInv'
  <2>1. ASSUME PipelineInv, UNCHANGED vars
        PROVE  PipelineInv'
    BY <2>1 DEF vars, PipelineInv, AddonInv, WorkflowsInv, HasAddon
  <2> QED
    BY <2>1, ApplyStep, OtherSteps, InstallStepStep DEF Next
<1> QED
  BY <1>1, <1>2, PTL DEF Spec


-----------------------------------------------------------------------------
\* What follows for the addon and its workflows

\* A workflow that was submitted, and the addon it is of.
LEMMA SubmittedIs ==
  ASSUME PipelineInv, NEW step \in Submitted
  PROVE  /\ IsAddon(addon) /\ "ok" \in validateWorkflow(addon)
         /\ step \in DOMAIN addon.templates
         /\ DOMAIN addon.templates \subseteq LifecycleSteps
         /\ IsTemplate(addon.templates[step]) /\ addon.prefix[step] \in Seq(STRING)
         /\ IsInstalled(wfs[step], addon, step, addon.templates[step])
         /\ Deployed(wfs[step]) \subseteq objects
<1>1. step \in DOMAIN wfs /\ wfs[step].answer = "ok"
  BY DEF Submitted
<1>2. IsAddon(addon)
  BY <1>1 DEF PipelineInv, AddonInv, HasAddon
<1>3. /\ "ok" \in validateWorkflow(addon) /\ step \in DOMAIN addon.templates
      /\ wfs[step] = Install(addon, step, addon.templates[step])
      /\ Deployed(wfs[step]) \subseteq objects
  BY <1>1 DEF PipelineInv, WorkflowsInv
<1>4. /\ DOMAIN addon.templates \subseteq LifecycleSteps
      /\ IsTemplate(addon.templates[step]) /\ addon.prefix[step] \in Seq(STRING)
  BY <1>2, <1>3 DEF IsAddon
<1>5. IsInstalled(wfs[step], addon, step, addon.templates[step])
  BY <1>1, <1>3, <1>4, Installed
<1> QED
  BY <1>2, <1>3, <1>4, <1>5

\* The addon and the version cache are what the search of resolveDependencies is
\* about.
LEMMA GraphIsOK ==
  ASSUME PipelineInv, stage = "applied"
  PROVE  GraphOK
BY CasesAssumption DEF PipelineInv, AddonInv, HasAddon, IsAddon, GraphOK

\* For every version cache and addon, resolveDependencies reports a cycle if and only
\* if one is reached in the graph of the dependencies, and lets the addon pass in
\* every order of its loops if and only if nothing is wrong in that graph.
THEOREM ResolutionMatchesGraphAlways == Spec => []ResolutionMatchesGraph
<1>1. PipelineInv => ResolutionMatchesGraph
  BY GraphIsOK, ResolvedMatchesGraph DEF ResolutionMatchesGraph
<1> QED
  BY <1>1, PipelineInvAlways, PTL

\* The recursion of resolveDependencies is never given up, whatever the dependencies
\* are, while there are no more versions than MaxDepth.
THEOREM PanicOnlyAtLimitAlways == Spec => []PanicOnlyAtLimit
<1>1. PipelineInv => PanicOnlyAtLimit
  BY Zenon, GraphIsOK, PanicsOnlyAtLimit DEF PanicOnlyAtLimit
<1> QED
  BY <1>1, PipelineInvAlways, PTL

\* validateWorkflow refuses no addon whose templates are right and complete, and in
\* every order one with a template that says something wrong or that lacks what no
\* other has.
THEOREM TemplatesCheckedAlways == Spec => []TemplatesChecked
<1>1. ASSUME PipelineInv, stage = "applied"
      PROVE  TemplatesChecked
  <2>1. DOMAIN addon.templates \in SUBSET LifecycleSteps
    BY <1>1 DEF PipelineInv, AddonInv, HasAddon, IsAddon
  <2>2. validateWorkflow(addon) = {"ok"} <=>
          \A step \in DOMAIN addon.templates : Fine(addon, addon.templates[step])
    BY <2>1, CheckedTemplates DEF validateWorkflow
  <2>3. ASSUME NEW t, SaysNoWrong(t), Lacks(t) = {}
        PROVE  Fine(addon, t)
    <3>1. t["gvk"] # "none" /\ t["spec"] # "none"
      BY <2>3 DEF Lacks
    <3> QED
      BY <2>3, <3>1 DEF SaysNoWrong, Fine
  <2>4. (\A t \in TemplatesOf(addon) : SaysNoWrong(t) /\ Lacks(t) = {}) =>
          validateWorkflow(addon) = {"ok"}
    BY <2>2, <2>3 DEF TemplatesOf
  <2>5. ASSUME "ok" \in validateWorkflow(addon), NEW t \in TemplatesOf(addon)
        PROVE  /\ SaysNoWrong(t)
               /\ \A key \in Lacks(t) : \E u \in TemplatesOf(addon) : key \notin Lacks(u)
    <3>1. PICK s \in DOMAIN addon.templates : t = addon.templates[s]
      BY <2>5 DEF TemplatesOf
    <3>2. /\ t.yaml /\ t.gvk \in {"workflow", "none"}
          /\ t.spec # "none" =>
               \A p \in t.params : ~p.int /\ p.name \notin GetAllAddonParameters(addon)
          /\ t["gvk"] = "none" =>
               \E u \in DOMAIN addon.templates : addon.templates[u]["gvk"] # "none"
          /\ t["spec"] = "none" =>
               \E u \in DOMAIN addon.templates : addon.templates[u]["spec"] # "none"
      BY <2>1, <2>5, <3>1, PassedTemplates DEF validateWorkflow
    <3>3. SaysNoWrong(t)
      BY <3>2 DEF SaysNoWrong
    <3>4. ASSUME NEW key \in Lacks(t)
          PROVE  \E u \in TemplatesOf(addon) : key \notin Lacks(u)
      <4>1. key \in {"gvk", "spec"} /\ t[key] = "none"
        BY <3>4 DEF Lacks
      <4>2. \E u \in DOMAIN addon.templates : addon.templates[u][key] # "none"
        BY <3>2, <4>1
      <4> QED
        BY <4>2 DEF TemplatesOf, Lacks
    <3> QED
      BY <3>3, <3>4
  <2> QED
    BY <2>4, <2>5 DEF TemplatesChecked
<1>2. PipelineInv => TemplatesChecked
  BY <1>1 DEF TemplatesChecked
<1> QED
  BY <1>2, PipelineInvAlways, PTL

\* The parameters of a template and of the addon all reach the workflow, and never
\* two of the same name but for a field of the package.
THEOREM ParametersArriveAlways == Spec => []ParametersArrive
<1>1. ASSUME PipelineInv, NEW step \in Submitted
      PROVE  LET params == wfs[step].params
                 theirs == addon.templates[step].params
             IN /\ theirs \subseteq params
                /\ GetAllAddonParameters(addon) \cup PackageFields \subseteq {p.name : p \in params}
                /\ \A p \in theirs, q \in params \ theirs : p.name = q.name => q.source = "package"
  <2> DEFINE theirs == addon.templates[step].params
             params == wfs[step].params
  <2>1. params = AllParams(addon, theirs) /\ addon.templates[step].spec # "none"
    BY <1>1, SubmittedIs DEF IsInstalled
  <2>2. ASSUME NEW p \in theirs
        PROVE  p.name \notin GetAllAddonParameters(addon)
    <3>1. /\ DOMAIN addon.templates \in SUBSET LifecycleSteps
          /\ step \in DOMAIN addon.templates
          /\ "ok" \in checkTemplates(addon, DOMAIN addon.templates)
      BY <1>1, SubmittedIs DEF validateWorkflow
    <3> QED
      BY <2>1, <3>1, PassedTemplates
  <2> HIDE DEF theirs, params
  <2>3. ASSUME NEW names, NEW source, NEW x \in names
        PROVE  \E p \in Given(names, source) : p.name = x
    <3> DEFINE p == [name |-> x, source |-> source, int |-> FALSE]
    <3>1. p \in Given(names, source) /\ p.name = x
      BY DEF Given
    <3> QED
      BY <3>1
  <2>4. ASSUME NEW names, NEW source, NEW q \in Given(names, source)
        PROVE  q.name \in names /\ q.source = source
    BY DEF Given
  <2>5. ASSUME NEW x \in GetAllAddonParameters(addon) \cup PackageFields
        PROVE  \E p \in params : p.name = x
    BY <2>1, <2>3 DEF AllParams, GetAllAddonParameters
  <2>6. ASSUME NEW p \in theirs, NEW q \in params \ theirs, p.name = q.name
        PROVE  q.source = "package"
    <3>1. \/ q \in Given(PackageFields, "package")
          \/ q.name \in GetAllAddonParameters(addon)
      BY <2>1, <2>4 DEF AllParams, GetAllAddonParameters
    <3> QED
      BY <2>2, <2>4, <2>6, <3>1
  <2>7. theirs \subseteq params
    BY <2>1 DEF AllParams
  <2> QED
    BY <2>5, <2>6, <2>7 DEF theirs, params
<1>2. PipelineInv => ParametersArrive
  BY <1>1 DEF ParametersArrive
<1> QED
  BY <1>2, PipelineInvAlways, PTL

\* No workflow is submitted without a limit to its life and to what is left of it,
\* and a number that the template gives is never replaced.
THEOREM LimitsSetAlways == Spec => []LimitsSet
<1>1. ASSUME PipelineInv, NEW step \in Submitted
      PROVE  LET w == wfs[step]
                 t == addon.templates[step]
             IN /\ {w.ttl, w.deadline} \cap {"none", "zero", "text"} = {}
                /\ t.ttl = "theirs" => w.ttl = "theirs"
                /\ t.deadline = "theirs" => w.deadline = "theirs"
  <2> DEFINE w == wfs[step]
             t == addon.templates[step]
  <2>1. /\ t.ttl # "text" /\ w.ttl = inject(t.ttl, "3 days")
        /\ t.deadline # "text" /\ w.deadline = inject(t.deadline, "5 minutes")
    BY <1>1, SubmittedIs DEF IsInstalled
  <2> HIDE DEF w, t
  <2> QED
    BY <2>1 DEF inject, w, t
<1>2. PipelineInv => LimitsSet
  BY <1>1 DEF LimitsSet
<1> QED
  BY <1>2, PipelineInvAlways, PTL


\* The last three parts of a workflow's name.
LEMMA LastParts ==
  ASSUME NEW S, NEW name \in Seq(S), name # << >>, NEW prefix \in Seq(S), NEW x, NEW y, NEW z,
         NEW parts, parts = name \o prefix \o <<x, y, z>>
  PROVE  /\ Len(parts) \in Nat /\ Len(parts) >= 4
         /\ parts[Len(parts)] = z /\ parts[Len(parts) - 1] = y /\ parts[Len(parts) - 2] = x
<1>1. PICK front : front = name \o prefix
  OBVIOUS
<1>2. front \in Seq(S) /\ Len(front) \in Nat \ {0}
  BY <1>1
<1>3. /\ Len(parts) = Len(front) + 3
      /\ parts[Len(front) + 1] = x /\ parts[Len(front) + 2] = y /\ parts[Len(front) + 3] = z
  BY <1>1, <1>2
<1>4. /\ Len(front) + 3 \in Nat /\ Len(front) + 3 >= 4
      /\ (Len(front) + 3) - 1 = Len(front) + 2 /\ (Len(front) + 3) - 2 = Len(front) + 1
  BY <1>2
<1> QED
  BY <1>3, <1>4

\* A name of this form is read back.
LEMMA NameReadBack ==
  ASSUME NEW S, NEW name \in Seq(S), name # << >>, NEW prefix \in Seq(S),
         NEW step \in LifecycleSteps, NEW checksum
  PROVE  ExtractChecksumAndLifecycleStep(name \o prefix \o <<step, checksum, "wf">>)
           = [checksum |-> checksum, step |-> step]
<1>1. PICK parts : parts = name \o prefix \o <<step, checksum, "wf">>
  OBVIOUS
<1>2. PICK n : n = Len(parts)
  OBVIOUS
<1>3. n \in Nat /\ n >= 4 /\ parts[n] = "wf" /\ parts[n - 1] = checksum /\ parts[n - 2] = step
  BY <1>1, <1>2, LastParts
<1>4. ExtractChecksumAndLifecycleStep(parts)
        = IF n < 4 \/ parts[n] # "wf"
             \/ parts[n - 2] \notin LifecycleSteps
          THEN NotAName
          ELSE [checksum |-> parts[n - 1], step |-> parts[n - 2]]
  BY Zenon, <1>2 DEF ExtractChecksumAndLifecycleStep
<1>5. ~(n < 4) /\ parts[n - 2] \in LifecycleSteps
  BY <1>3
<1>6. ExtractChecksumAndLifecycleStep(parts) = [checksum |-> checksum, step |-> step]
  BY Zenon, <1>3, <1>4, <1>5
<1> QED
  BY <1>1, <1>6

\* The workflow controller reads the lifecycle step and the checksum from the name
\* of every submitted workflow as Install wrote them.
THEOREM NamesReadBackAlways == Spec => []NamesReadBack
<1>1. ASSUME PipelineInv, NEW step \in Submitted
      PROVE  ExtractChecksumAndLifecycleStep(wfs[step].name)
               = [checksum |-> addon.checksum, step |-> step]
  <2>1. wfs[step].name = addon.name \o addon.prefix[step] \o <<step, addon.checksum, "wf">>
    BY <1>1, SubmittedIs DEF IsInstalled, GetFormattedWorkflowName
  <2>2. /\ addon.name \in Seq(STRING) /\ addon.name # << >> /\ addon.prefix[step] \in Seq(STRING)
        /\ step \in LifecycleSteps
    BY <1>1, SubmittedIs DEF IsAddon, IsName
  <2>3. ASSUME NEW S, addon.name \in Seq(S), addon.prefix[step] \in Seq(S)
        PROVE  ExtractChecksumAndLifecycleStep(addon.name \o addon.prefix[step]
                                                 \o <<step, addon.checksum, "wf">>)
                 = [checksum |-> addon.checksum, step |-> step]
    BY <2>2, <2>3, NameReadBack
  <2> QED
    BY Zenon, <2>1, <2>2, <2>3
<1>2. PipelineInv => NamesReadBack
  BY <1>1 DEF NamesReadBack
<1> QED
  BY <1>2, PipelineInvAlways, PTL

\* The labels that are always set.
LEMMA DefaultLabels ==
  ASSUME NEW a, NEW labels
  PROVE  LET given == addDefaultLabelsToResource(a, labels)
         IN Has(given, "name", a.name) /\ Has(given, "managedBy", Group)
BY DEF addDefaultLabelsToResource, Over, Has

\* The objects of a submitted workflow in the parts that are searched have them, and
\* are deployed.
LEMMA SearchedLabelled ==
  ASSUME NEW a, NEW step, NEW t, NEW w, IsTemplate(t), IsInstalled(w, a, step, t),
         NEW h \in w.holders, NEW o \in Searched(h), o.text = "object"
  PROVE  Has(o.labels, "name", a.name) /\ Has(o.labels, "managedBy", Group) /\ o \in Deployed(w)
<1>1. PICK g \in t.holders : h = processWorkflowResources(a, g)
  BY DEF IsInstalled
<1>2. /\ DOMAIN g = {"hasArtifacts", "artifacts", "manifest"}
      /\ \A x \in g.artifacts \cup g.manifest : DOMAIN x = {"text", "kind", "namespace", "labels"}
  BY DEF IsTemplate, NoObjects, IsObject
<1> DEFINE labelled(objs) == {processArtifact(a, x) : x \in objs}
<1>3. h = IF g.hasArtifacts THEN [g EXCEPT !.artifacts = labelled(g.artifacts)]
          ELSE [g EXCEPT !.manifest = labelled(g.manifest)]
  BY Zenon, <1>1 DEF processWorkflowResources
<1>4. o \in h.artifacts \cup h.manifest
  BY DEF Searched
<1>5. \E x \in g.artifacts \cup g.manifest : o = processArtifact(a, x)
  <2>1. CASE g.hasArtifacts
    <3>1. h.hasArtifacts /\ h.artifacts = labelled(g.artifacts)
      BY <1>2, <1>3, <2>1
    <3> QED
      BY <3>1 DEF Searched
  <2>2. CASE ~g.hasArtifacts
    <3>1. ~h.hasArtifacts /\ h.manifest = labelled(g.manifest)
      BY <1>2, <1>3, <2>2
    <3> QED
      BY <3>1 DEF Searched
  <2> QED
    BY <2>1, <2>2
<1>6. PICK x \in g.artifacts \cup g.manifest : o = processArtifact(a, x)
  BY <1>5
<1>7. DOMAIN x = {"text", "kind", "namespace", "labels"}
  BY <1>2
<1>8. x.text = "object"
  BY <1>6, <1>7 DEF processArtifact
<1>9. o.labels = addDefaultLabelsToResource(a, x.labels)
  BY <1>6, <1>7, <1>8 DEF processArtifact
<1> QED
  BY <1>4, <1>9, DefaultLabels DEF Deployed


\* What the manager looks for by label it finds: the submitted workflows of the
\* addon, and the addon for every watched object that Install labelled.
THEOREM OursAreFoundAlways == Spec => []OursAreFound
<1> DEFINE entry == [name |-> addon.name, pkg |-> addon.pkg, ver |-> addon.ver, deps |-> {},
                     phase |-> "Pending"]
           recorded == AddVersion(case.cache, entry)
<1>1. ASSUME PipelineInv, NEW step \in Submitted
      PROVE  wfs[step] \in oldWorkflows(addon, {wfs[s] : s \in Submitted})
  <2>1. PICK labels : wfs[step].labels = addDefaultLabelsToResource(addon, labels)
    BY <1>1, SubmittedIs DEF IsInstalled
  <2>2. Has(wfs[step].labels, "name", addon.name)
    BY <2>1, DefaultLabels
  <2> QED
    BY <2>2 DEF oldWorkflows
<1>2. entry \in recorded /\ entry.name = addon.name
  BY DEF AddVersion
<1> HIDE DEF entry, recorded
<1>3. ASSUME PipelineInv, NEW step \in Submitted, NEW h \in wfs[step].holders,
             NEW o \in Watched(Searched(h)), o.text = "object"
      PROVE  getAddonRequestsFromLabels(recorded, o.labels) = {addon.name}
  <2>1. Has(o.labels, "name", addon.name)
    <3>1. o \in Searched(h)
      BY DEF Watched, Cached
    <3> QED
      BY <1>3, <3>1, SubmittedIs, SearchedLabelled
  <2>2. HasVersionName(recorded, addon.name) # {}
    BY <1>2 DEF HasVersionName
  <2>3. \A e \in HasVersionName(recorded, addon.name) : e.name = addon.name
    BY DEF HasVersionName
  <2>4. getAddonRequestsFromLabels(recorded, o.labels)
          = {e.name : e \in HasVersionName(recorded, addon.name)}
    BY <2>1 DEF getAddonRequestsFromLabels, Has
  <2> QED
    BY <2>2, <2>3, <2>4
<1>4. PipelineInv => OursAreFound
  BY Zenon, <1>1, <1>3 DEF OursAreFound, recorded, entry
<1> QED
  BY <1>4, PipelineInvAlways, PTL

\* The selector always asks for the name of the addon.
LEMMA SelectorAsks ==
  ASSUME NEW a
  PROVE  /\ DOMAIN labelSelector(a) = {"managedBy", "name"} \cup DOMAIN a.selector
         /\ labelSelector(a)["name"] = a.name /\ labelSelector(a)["managedBy"] = Group
         /\ \A x \in DOMAIN a.selector \ {"managedBy", "name"} :
              labelSelector(a)[x] = a.selector[x]
BY DEF labelSelector, Over

\* The resources of an addon's status are never another addon's, and none that
\* Install labelled and the user selects is missing, of the kinds that are listed and
\* the namespace that the manager's cache holds.
THEOREM ObservedAreOursAlways == Spec => []ObservedAreOurs
<1>1. ASSUME PipelineInv, stage = "observed"
      PROVE  resources \cap case.objects = {}
  <2>1. resources = observeResources(addon, objects)
    BY <1>1 DEF PipelineInv
  <2>2. ASSUME NEW o \in resources
        PROVE  Has(o.labels, "name", addon.name)
    <3>1. Matches(o.labels, labelSelector(addon))
      BY <2>1 DEF observeResources, ObserveNamespaced, ObserveAnywhere, Cached
    <3> QED
      BY <3>1, SelectorAsks DEF Matches
  <2>3. \A o \in case.objects : ~Has(o.labels, "name", addon.name)
    BY <1>1 DEF PipelineInv, AddonInv, HasAddon
  <2> QED
    BY <2>2, <2>3
<1>2. ASSUME PipelineInv, stage = "observed", NEW step \in Submitted,
             NEW h \in wfs[step].holders, NEW o \in Cached(Searched(h)), o.text = "object",
             o.kind \in NamespacedKinds \cup ClusterKinds,
             \A x \in DOMAIN addon.selector \ {"name", "managedBy"} :
               Has(o.labels, x, addon.selector[x])
      PROVE  o \in resources
  <2>1. /\ Has(o.labels, "name", addon.name) /\ Has(o.labels, "managedBy", Group)
        /\ o \in Cached(objects) /\ o.namespace = ManagedNameSpace
    <3>1. o \in Searched(h) /\ o.namespace = ManagedNameSpace
      BY DEF Cached
    <3>2. /\ Has(o.labels, "name", addon.name) /\ Has(o.labels, "managedBy", Group)
          /\ o \in objects
      BY <1>2, <3>1, SubmittedIs, SearchedLabelled
    <3> QED
      BY <3>1, <3>2 DEF Cached
  <2>2. ASSUME NEW x \in DOMAIN labelSelector(addon)
        PROVE  Has(o.labels, x, labelSelector(addon)[x])
    <3>1. CASE x = "name"
      BY <2>1, <3>1, SelectorAsks
    <3>2. CASE x = "managedBy"
      BY <2>1, <3>2, SelectorAsks
    <3>3. CASE x \notin {"name", "managedBy"}
      BY <1>2, <3>3, SelectorAsks
    <3> QED
      BY <3>1, <3>2, <3>3
  <2>3. o \in ObserveNamespaced(Cached(objects), ManagedNameSpace, labelSelector(addon))
             \cup ObserveAnywhere(Cached(objects), labelSelector(addon))
    BY <1>2, <2>1, <2>2 DEF ObserveNamespaced, ObserveAnywhere, Matches
  <2> QED
    BY <1>2, <2>3 DEF PipelineInv, observeResources
<1>3. PipelineInv => ObservedAreOurs
  BY Zenon, <1>1, <1>2 DEF ObservedAreOurs
<1> QED
  BY <1>3, PipelineInvAlways, PTL

\* What addonctl applies says what its flags say, passes validateWorkflow, and
\* brings the resources of the files.
THEOREM CommandCarriedOutAlways == Spec => []CommandCarriedOut
<1>1. ASSUME NEW path, path.is \in {"none", "missing", "file", "dir", "cwd"},
             path.is = "none" => path.ext # "yaml", path.ext = "yaml",
             extract(path).answer = "ok"
      PROVE  extract(path).objects = path.objects
  BY <1>1 DEF extract
<1>2. ASSUME PipelineInv, stage = "applied", case.by = "addonctl"
      PROVE  /\ addon.deps = case.flags.deps /\ addon.secrets = case.flags.secrets
             /\ validateWorkflow(addon) = {"ok"}
             /\ \A step \in {"prereqs", "install"} :
                  /\ addon.templates[step].entrypoint
                  /\ case.flags[step].ext = "yaml" =>
                       addon.templates[step].elsewhere = case.flags[step].objects
  <2>1. /\ case \in Cases /\ Create(case.arg, case.flags).answer = "ok"
        /\ addon = Create(case.arg, case.flags).addon
    BY <1>2 DEF PipelineInv, AddonInv
  <2>2. /\ IsName(case.arg.name)
        /\ \A path \in {case.flags.prereqs, case.flags.install} :
             /\ path.is \in {"none", "missing", "file", "dir", "cwd"}
             /\ path.is = "none" => path.ext # "yaml"
    BY <1>2, <2>1, CasesAssumption
  <2>3. /\ addon.deps = case.flags.deps /\ addon.secrets = case.flags.secrets
        /\ DOMAIN addon.templates = {"prereqs", "install", "delete"}
        /\ addon.templates["prereqs"] = Built(extract(case.flags.prereqs).objects)
        /\ addon.templates["install"] = Built(extract(case.flags.install).objects)
        /\ addon.templates["delete"] = BuiltToDelete
        /\ extract(case.flags.prereqs).answer = "ok" /\ extract(case.flags.install).answer = "ok"
    <3>1. IsCreated(addon, case.arg, case.flags)
      BY Zenon, <2>1, <2>2, Created
    <3> QED
      BY Zenon, <3>1 DEF IsCreated
  <2>4. \A step \in DOMAIN addon.templates : Fine(addon, addon.templates[step])
    BY <2>3, BuiltFine
  <2>5. validateWorkflow(addon) = {"ok"}
    <3>1. DOMAIN addon.templates \in SUBSET LifecycleSteps
      BY <2>3 DEF LifecycleSteps
    <3> QED
      BY <2>4, <3>1, CheckedTemplates DEF validateWorkflow
  <2>6. ASSUME NEW objs
        PROVE  Built(objs).entrypoint /\ Built(objs).elsewhere = objs
    BY DEF Built, New
  <2>7. ASSUME NEW step \in {"prereqs", "install"}
        PROVE  /\ addon.templates[step].entrypoint
               /\ case.flags[step].ext = "yaml" =>
                    addon.templates[step].elsewhere = case.flags[step].objects
    <3>1. /\ addon.templates[step] = Built(extract(case.flags[step]).objects)
          /\ extract(case.flags[step]).answer = "ok"
          /\ case.flags[step].is \in {"none", "missing", "file", "dir", "cwd"}
          /\ case.flags[step].is = "none" => case.flags[step].ext # "yaml"
      BY <2>2, <2>3
    <3>2. PICK path : path = case.flags[step]
      OBVIOUS
    <3>3. path.ext = "yaml" => extract(path).objects = path.objects
      <4>1. /\ path.is \in {"none", "missing", "file", "dir", "cwd"}
            /\ path.is = "none" => path.ext # "yaml"
            /\ extract(path).answer = "ok"
        BY Zenon, <3>1, <3>2
      <4>2. ASSUME path.ext = "yaml"
            PROVE  extract(path).objects = path.objects
        BY <1>1, <4>1, <4>2
      <4> QED
        BY <4>2
    <3>4. PICK objs : objs = extract(path).objects
      OBVIOUS
    <3>5. addon.templates[step] = Built(objs)
      BY <3>1, <3>2, <3>4
    <3>6. Built(objs).entrypoint /\ Built(objs).elsewhere = objs
      BY Zenon, <2>6
    <3> QED
      BY <3>2, <3>3, <3>4, <3>5, <3>6
  <2> QED
    BY <2>3, <2>5, <2>7
<1>3. PipelineInv => CommandCarriedOut
  BY Zenon, <1>2 DEF CommandCarriedOut
<1> QED
  BY <1>3, PipelineInvAlways, PTL

=============================================================================
