--------------------------- MODULE RunnerContract ---------------------------
(***************************************************************************)
(* The experiment runner as the daemon's worker sees it, and as RunQueue   *)
(* has it in InjectFault, RunnerStopsEarly, RunnerJudges, RunnerReturns    *)
(* and RunnerDies: one run, its fault, the cancellation token and the      *)
(* journal, with no thread, pause, guard or load in sight.                 *)
(***************************************************************************)
CONSTANT Strategy

VARIABLES
    phase,      \* "run", then "judged" or not, then "record" or "fail"
    status,     \* the journal's status
    rb,         \* its rollback results
    fault,      \* the run's fault is live
    cancelled   \* the caller cancelled

vars == <<phase, status, rb, fault, cancelled>>

Init ==
    /\ phase = "run"
    /\ status = "none"
    /\ rb = "none"
    /\ fault = FALSE
    /\ cancelled = FALSE

Cancel ==
    /\ phase # "fail"
    /\ cancelled' = TRUE
    /\ UNCHANGED <<phase, status, rb, fault>>

\* No provider is called once cancelled.
Inject ==
    /\ phase = "run"
    /\ ~cancelled
    /\ fault' = TRUE
    /\ UNCHANGED <<phase, status, rb, cancelled>>

\* Rollbacks that all succeed clear the fault.
Rollback(needed) ==
    LET wanted == Strategy = "Always" \/ (Strategy = "OnDeviation" /\ needed)
    IN  \/ wanted /\ rb' = "ok" /\ fault' = FALSE
        \/ wanted /\ rb' = "failed" /\ UNCHANGED fault
        \/ ~wanted /\ rb' = "none" /\ UNCHANGED fault

\* An early end rolls back, unless nothing was injected yet.
StopEarly ==
    /\ phase = "run"
    /\ phase' = "record"
    /\ \/ status' = "Aborted" /\ ~fault /\ Rollback(TRUE)
       \/ status' = "Halted" /\ Rollback(TRUE)
       \/ status' = "Interrupted" /\ cancelled /\ Rollback(TRUE)
       \/ status' = "Interrupted" /\ cancelled /\ ~fault /\ UNCHANGED <<rb, fault>>
    /\ UNCHANGED cancelled

\* The status is decided, and with it whether a fault that was injected is
\* rolled back.
Judge ==
    /\ phase = "run"
    /\ phase' = "judged"
    /\ \E s \in {"Completed", "Deviated", "Failed", "Interrupted"} :
         /\ s = "Interrupted" <=> cancelled
         /\ status' = s
         /\ Rollback(s = "Deviated" \/ (s \in {"Failed", "Interrupted"} /\ fault))
    /\ UNCHANGED cancelled

Return ==
    /\ phase = "judged"
    /\ phase' = "record"
    /\ status' = IF cancelled THEN "Interrupted" ELSE status
    /\ UNCHANGED <<rb, fault, cancelled>>

Die ==
    /\ phase = "run"
    /\ phase' = "fail"
    /\ UNCHANGED <<status, rb, fault, cancelled>>

Next == Cancel \/ Inject \/ StopEarly \/ Judge \/ Return \/ Die

Spec == Init /\ [][Next]_vars
=============================================================================
