------------------------- MODULE WorkflowController -------------------------
(***************************************************************************)
(* WorkflowReconciler (controllers/workflow_controller.go) with            *)
(* UpdateAddonStatusLifecycleFromWorkflow (pkg/addon/addon_update.go): one *)
(* worker that reads a workflow and its addon from the informers' copies   *)
(* and writes the workflow's phase into the addon's status.                *)
(***************************************************************************)
EXTENDS StatusUpdater

\* Mutants: workflows of an earlier spec count; delete workflows do not.
IgnoredUnlessRunning(k) ==
  \/ wfCache[k].phase \in {"absent", "new"}
  \/ cache # NoAddon /\ Completed(cache.status.installed)

IgnoredOrDelete(k) ==
  \/ wfCache[k].phase \in {"absent", "new"}
  \/ k[1] = "delete"
  \/ /\ cache # NoAddon
     /\ \/ Completed(cache.status.installed)
        \/ Checksum[cache.spec] # k[2]

\* The workflow says nothing yet, the addon has reached a terminal status, or
\* the workflow is not one of the addon's present spec.
Ignored(k) ==
  \/ wfCache[k].phase \in {"absent", "new"}
  \/ /\ cache # NoAddon
     /\ \/ Completed(cache.status.installed)
        \/ Checksum[cache.spec] # k[2]

\* Takes k from the queue.  While the workflow has something to say but the
\* informer has no addon, the reconcile fails and k stays queued.
WfBegin(k) ==
  /\ pc["workflow"] = "idle"
  /\ k \in wfQueue
  /\ wfQueue' = wfQueue \ {k}
  /\ UNCHANGED <<storeVars, cache, queue, wf, wfCache, ran, envVars, requeue, tries, lock, vcache>>

WfIgnore(k) ==
  /\ WfBegin(k)
  /\ Ignored(k)
  /\ UNCHANGED <<pc, inst, wkey>>

WfReconcile(k) ==
  /\ WfBegin(k)
  /\ ~Ignored(k)
  /\ cache # NoAddon
  /\ LET phase == ConvertWorkflowPhaseToAddonPhase(k[1], wfCache[k].phase)
     IN inst' = [inst EXCEPT !["workflow"] =
                   [cache EXCEPT !.status = SetStatusByLifecyleStep(@, k[1], phase)]]
  /\ pc' = [pc EXCEPT !["workflow"] = "lock"]
  /\ wkey' = k

=============================================================================
