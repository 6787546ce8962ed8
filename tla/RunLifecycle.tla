---------------------------- MODULE RunLifecycle ----------------------------
(***************************************************************************)
(* What the daemon promises of a run, with no queue, worker, handler or    *)
(* crash in sight: the life of its row, when its fault may be live, and    *)
(* that a started run only leaves the active states through an outcome.    *)
(* One run moves at a time.  RunQueue implements this specification.       *)
(***************************************************************************)
CONSTANT Runs

VARIABLES
    state,     \* runs.state; "absent" before the row is inserted
    started,   \* runs.started_at_ns is set
    fault      \* the run's fault is live in the target system

vars == <<state, started, fault>>

Init ==
    /\ state = [r \in Runs |-> "absent"]
    /\ started = [r \in Runs |-> FALSE]
    /\ fault = [r \in Runs |-> FALSE]

Move(r, from, to) ==
    /\ state[r] \in from
    /\ \E s \in to : state' = [state EXCEPT ![r] = s]

\* A run that has not started: created, decided on, claimed, or dropped.
\* It never had a fault, so dropping it owes no cleanup.
Wait(r) ==
    /\ ~started[r]
    /\ \/ Move(r, {"absent"}, {"queued", "pending_approval"})
       \/ Move(r, {"pending_approval"},
                  {"queued", "rejected", "expired", "aborted"})
       \/ Move(r, {"queued"}, {"validating"})
       \/ Move(r, {"queued", "validating"}, {"failed", "aborted", "orphaned"})
       \/ Move(r, {"orphaned"}, {"aborted"})
    /\ UNCHANGED <<started, fault>>

\* The only way to start, once, from a validated run.
Begin(r) ==
    /\ ~started[r]
    /\ Move(r, {"validating"}, {"running"})
    /\ started' = [started EXCEPT ![r] = TRUE]
    /\ UNCHANGED fault

\* The states of a started run that still owes its outcome.
Owing == {"running", "stopping", "orphaned", "rollback_pending"}

\* A started run: stopped, orphaned, waiting for its cleanup, or ended.
\* Only a run that no restart has orphaned can pass, deviate or fail.
End(r) ==
    /\ started[r]
    /\ \/ Move(r, {"running", "stopping"},
                  {"stopping", "passed", "deviated", "failed"})
       \/ Move(r, Owing, {"orphaned", "rollback_pending", "aborted"})
    /\ UNCHANGED <<started, fault>>

\* The runner injects while the run is its own; anybody who still owes the
\* outcome may clear the fault.
Inject(r) ==
    /\ started[r] /\ state[r] \in {"running", "stopping"}
    /\ fault' = [fault EXCEPT ![r] = TRUE]
    /\ UNCHANGED <<state, started>>

Clear(r) ==
    /\ started[r] /\ state[r] \in Owing
    /\ fault' = [fault EXCEPT ![r] = FALSE]
    /\ UNCHANGED <<state, started>>

Next == \E r \in Runs : Wait(r) \/ Begin(r) \/ End(r) \/ Inject(r) \/ Clear(r)

Spec == Init /\ [][Next]_vars
=============================================================================
