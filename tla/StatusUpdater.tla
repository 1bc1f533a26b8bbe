--------------------------- MODULE StatusUpdater ----------------------------
(***************************************************************************)
(* AddonUpdater (pkg/addon/addon_update.go), shared by the two             *)
(* controllers: it writes the status of the addon a controller has worked  *)
(* on, under a mutex per addon name, retrying on conflict, and then        *)
(* records the addon in the version cache.                                 *)
(*                                                                         *)
(* UpdateStatus has a step for each call that another process can come     *)
(* between: the lock and the first Get, the Get of a retry, the update of  *)
(* the status, the update of the version cache with the unlock.            *)
(***************************************************************************)
EXTENDS Cluster

CONSTANT MaxRetries  \* steps of retry.DefaultRetry (5)

ASSUME MaxRetriesAssumption == MaxRetries \in Nat \ {0}

VARIABLES
  pc,       \* where each process is
  inst,     \* the addon each process works on: its own copy
  requeue,  \* the addon controller will return a requeue or an error
  wkey,     \* the workflow the workflow controller works on
  tries,    \* updates tried in this UpdateStatus
  lock,     \* holder of the mutex statusMap[name], or "free"
  vcache    \* version cache: the phase recorded for each version of the
            \* package, or "none"

procVars == <<pc, inst, requeue, wkey, tries>>

NoKey == <<"", "">>

-----------------------------------------------------------------------------

\* Process p is done; err says whether its reconcile returns an error.
Return(p, err) ==
  /\ pc' = [pc EXCEPT ![p] = "idle"]
  /\ inst' = [inst EXCEPT ![p] = NoAddon]
  /\ tries' = [tries EXCEPT ![p] = 0]
  /\ \/ /\ p = "addon"
        /\ queue' = (queue \/ requeue \/ err)
        /\ requeue' = FALSE
        /\ UNCHANGED <<wfQueue, wkey>>
     \/ /\ p = "workflow"
        /\ wfQueue' = IF err THEN wfQueue \cup {wkey} ELSE wfQueue
        /\ wkey' = NoKey
        /\ UNCHANGED <<queue, requeue>>

\* Also when RemoveFromCache dropped the mutex meanwhile: the holder then
\* unlocks one that nobody else can reach.
Released(p, holder) == IF holder = p THEN "free" ELSE holder

Unlock(p) == lock' = Released(p, lock)

\* addAddonToCache
Record(o) == vcache' = [vcache EXCEPT ![PkgVersion[o.spec]] = o.status.installed]

\* Mutant: no race guard.
RaceGuardOff(current, o) == FALSE

\* A write that would take an addon from a terminal status back to a running
\* one in the same install cycle.
RaceGuard(current, o) ==
  /\ Completed(current.status.installed)
  /\ Running(o.status.installed)
  /\ current.status.checksum = o.status.checksum

\* The Get of an attempt, with the guard; `holder' has the mutex by then.
Attempt(p, holder) ==
  /\ \/ /\ cache # NoAddon => RaceGuard(cache, inst[p])
        /\ Return(p, TRUE)
        /\ fresh' = fresh \ {p}
        /\ lock' = Released(p, holder)
     \/ /\ cache # NoAddon
        /\ ~RaceGuard(cache, inst[p])
        /\ Get(p)
        /\ pc' = [pc EXCEPT ![p] = "put"]
        /\ lock' = holder
        /\ UNCHANGED <<queue, wfQueue, inst, requeue, wkey, tries>>
  /\ UNCHANGED <<api, watch, cache, wf, wfCache, ran, envVars, vcache>>

UpdateStatusLock(p) == pc[p] = "lock" /\ lock = "free" /\ Attempt(p, p)

UpdateStatusRetry(p) == pc[p] = "retry" /\ Attempt(p, lock)

\* Mutant: the mutex is released once the status is in the API.
UpdateStatusPutAndUnlock(p) ==
  /\ pc[p] = "put"
  /\ p \in fresh
  /\ Write([api EXCEPT !.status = inst[p].status])
  /\ pc' = [pc EXCEPT ![p] = "record"]
  /\ Unlock(p)
  /\ UNCHANGED <<cache, queue, wfVars, envVars, inst, requeue, wkey, tries, vcache>>

\* Status().Update of the object the Get returned, with the status of inst[p].
UpdateStatusPut(p) ==
  /\ pc[p] = "put"
  /\ p \in fresh
  /\ Write([api EXCEPT !.status = inst[p].status])
  /\ pc' = [pc EXCEPT ![p] = "record"]
  /\ UNCHANGED <<cache, queue, wfVars, envVars, inst, requeue, wkey, tries, lock, vcache>>

\* The API server refuses the update: the object has a newer version (retry,
\* until DefaultRetry is exhausted) or is gone (no retry).
UpdateStatusConflict(p) ==
  /\ pc[p] = "put"
  /\ p \notin fresh
  /\ \/ /\ api # NoAddon
        /\ tries[p] + 1 < MaxRetries
        /\ pc' = [pc EXCEPT ![p] = "retry"]
        /\ tries' = [tries EXCEPT ![p] = @ + 1]
        /\ UNCHANGED <<queue, wfQueue, inst, requeue, wkey, lock>>
     \/ /\ api = NoAddon \/ tries[p] + 1 = MaxRetries
        /\ Return(p, TRUE)
        /\ Unlock(p)
  /\ UNCHANGED <<storeVars, cache, wf, wfCache, ran, envVars, vcache>>

\* The update fails otherwise, and either had no effect or, its answer being
\* lost, was made all the same.
UpdateStatusFail(p) ==
  /\ pc[p] = "put"
  /\ p \in fresh
  /\ Unanswered(p, [api EXCEPT !.status = inst[p].status])
  /\ Return(p, TRUE)
  /\ Unlock(p)
  /\ UNCHANGED <<cache, wf, wfCache, ran, now, uids, edits, vcache>>

UpdateStatusRecord(p) ==
  /\ pc[p] = "record"
  /\ Record(inst[p])
  /\ Return(p, FALSE)
  /\ Unlock(p)
  /\ fresh' = fresh \ {p}
  /\ UNCHANGED <<api, watch, cache, wf, wfCache, ran, envVars>>

\* RemoveVersion of the version cache.
RemoveVersion(v) == vcache' = [vcache EXCEPT ![v] = "none"]

\* RemoveFromCache: forgets one version the cache has under the addon's name,
\* and the addon's mutex.
RemoveFromCache ==
  /\ \/ \E v \in Versions : vcache[v] # "none" /\ RemoveVersion(v)
     \/ (\A v \in Versions : vcache[v] = "none") /\ UNCHANGED vcache
  /\ lock' = "free"

UpdateStatus(p) ==
  \/ UpdateStatusLock(p)
  \/ UpdateStatusRetry(p)
  \/ UpdateStatusPut(p)
  \/ UpdateStatusConflict(p)
  \/ UpdateStatusFail(p)
  \/ UpdateStatusRecord(p)

=============================================================================
