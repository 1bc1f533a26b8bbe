-------------------------- MODULE ResourceObserver --------------------------
(***************************************************************************)
(* How the addon controller finds what belongs to an addon in the cluster, *)
(* always by label: observeResources with the listers of objects.go,       *)
(* getAddonRequestsFromLabels for the events of watched resources, and the *)
(* selector of deleteOldWorkflows.  The labels are those that              *)
(* WorkflowLifecycle sets.  The listers and the watches go through the     *)
(* manager's cache, which holds the objects of one namespace only.         *)
(***************************************************************************)
EXTENDS WorkflowLifecycle, VersionCache

\* An object, or a list of requirements, has label x with value v.
Has(labels, x, v) == x \in DOMAIN labels /\ labels[x] = v

Matches(labels, selector) == \A x \in DOMAIN selector : Has(labels, x, selector[x])

\* The namespace of the addons, and of all that the manager's cache holds.
ManagedNameSpace == "addon-manager-system"

Cached(objects) == {o \in objects : o.namespace = ManagedNameSpace}

\* The kinds whose lister asks for the namespace of the addon itself, and those
\* whose lister asks for all namespaces.
NamespacedKinds == {"Service", "Job", "CronJob"}
ClusterKinds == {"Deployment", "DaemonSet", "ReplicaSet", "StatefulSet"}

\* Mutant: the user's selector is used alone.
selectorOfUser(a) == a.selector

\* The user's labels, with the two labels that are always added.
labelSelector(a) == Over([managedBy |-> Group, name |-> a.name], a.selector)

ObserveNamespaced(objects, namespace, selector) ==
  {o \in objects : /\ o.kind \in NamespacedKinds
                   /\ o.namespace = namespace
                   /\ Matches(o.labels, selector)}

ObserveAnywhere(objects, selector) ==
  {o \in objects : o.kind \in ClusterKinds /\ Matches(o.labels, selector)}

observeResources(a, objects) ==
  ObserveNamespaced(Cached(objects), ManagedNameSpace, labelSelector(a))
  \cup ObserveAnywhere(Cached(objects), labelSelector(a))

\* The objects whose events the controller is told of.
Watched(objects) ==
  {o \in Cached(objects) :
     o.kind \in {"Deployment", "Service", "DaemonSet", "ReplicaSet", "StatefulSet", "Job"}}

\* The addons that are queued for an event of a resource with these labels.
getAddonRequestsFromLabels(c, labels) ==
  IF "name" \in DOMAIN labels THEN {e.name : e \in HasVersionName(c, labels.name)} ELSE {}

\* The workflows deleteOldWorkflows deletes for addon a.
oldWorkflows(a, workflows) == {w \in workflows : Has(w.labels, "name", a.name)}

=============================================================================
