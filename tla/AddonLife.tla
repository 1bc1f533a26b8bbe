----------------------------- MODULE AddonLife ------------------------------
(***************************************************************************)
(* What the manager promises about the life of one addon, to those who see *)
(* only the API and what is deployed: no controllers, queues, copies,      *)
(* retries or failures.  The finalizer holds an addon, so that nothing is  *)
(* deployed for an addon that could vanish at once; what is deployed is    *)
(* deployed for the life the addon has now, not for an earlier addon of    *)
(* the same name; and within one install cycle a result is not taken back. *)
(***************************************************************************)
EXTENDS Naturals

CONSTANTS
  Deployments,  \* the workflows of installations, by name
  Cycles        \* install cycles: checksums, and "" before the first

VARIABLES
  stage,      \* "absent", "present", "held" (by the finalizer), "leaving" (deleted
              \* by the user and still held)
  life,       \* how many addons of this name there have been
  cycle,      \* the install cycle that is reported
  outcome,    \* "open", "running" or "done"
  deploying   \* pairs <<d, n>>: workflow d exists, for the n-th life

vars == <<stage, life, cycle, outcome, deploying>>

Init ==
  /\ stage = "absent"
  /\ life = 0
  /\ cycle = "" /\ outcome = "open"
  /\ deploying = {}

Appear ==
  /\ stage = "absent" /\ stage' = "present"
  /\ life' = life + 1
  /\ UNCHANGED <<cycle, outcome, deploying>>

Hold ==
  /\ stage = "present" /\ stage' = "held"
  /\ UNCHANGED <<life, cycle, outcome, deploying>>

Leave ==
  /\ stage = "held" /\ stage' = "leaving"
  /\ UNCHANGED <<life, cycle, outcome, deploying>>

\* At once if nothing holds the addon, or after it was let go.
Vanish ==
  /\ stage \in {"present", "leaving"} /\ stage' = "absent"
  /\ cycle' = "" /\ outcome' = "open"
  /\ UNCHANGED <<life, deploying>>

Report(c, o) ==
  /\ stage # "absent"
  /\ c = cycle /\ outcome = "done" => o # "running"
  /\ cycle' = c /\ outcome' = o
  /\ UNCHANGED <<stage, life, deploying>>

Deploy(d) ==
  /\ stage \in {"held", "leaving"}
  /\ deploying' = deploying \cup {<<d, life>>}
  /\ UNCHANGED <<stage, life, cycle, outcome>>

\* Workflows are deleted.
Forget ==
  /\ deploying' \subseteq deploying
  /\ UNCHANGED <<stage, life, cycle, outcome>>

Next ==
  \/ Appear \/ Hold \/ Leave \/ Vanish
  \/ \E c \in Cycles, o \in {"open", "running", "done"} : Report(c, o)
  \/ \E d \in Deployments : Deploy(d)
  \/ Forget

Spec == Init /\ [][Next]_vars

=============================================================================
