------------------------------- MODULE Runner -------------------------------
(***************************************************************************)
(* The experiment runner (tumult-core/src/runner): run_experiment on one   *)
(* thread, the method's activities (foreground ones in order, background   *)
(* ones each on a scoped thread behind the fault gate), the auto-halt      *)
(* guard monitor on a thread of its own, and the caller's cancellation     *)
(* token, which may fire between any two steps.                            *)
(*                                                                         *)
(* Probes, pauses and providers take time but no memory: a step ends them. *)
(***************************************************************************)
EXTENDS Naturals, Sequences, FiniteSets

CONSTANTS
    Background,      \* the method's background activities
    NumForeground,   \* its foreground activities are 1 .. NumForeground
    Actions,         \* the activities that are actions, not probes
    Cap,             \* max_concurrent_faults
    NumGuards,       \* the experiment's guards are 1 .. NumGuards
    MinBreaches,     \* guard -> min_breaches
    HasHypothesis,   \* whether the experiment has a steady-state hypothesis
    HasLoad,         \* whether it has a load test
    Strategy         \* RunConfig.rollback_strategy

Foreground == 1 .. NumForeground
Activities == Foreground \cup Background
Guards == 1 .. NumGuards

\* validate_experiment refuses an empty method, a cap of 0 and a guard that
\* needs no breach.
ASSUME MethodAssumption == Activities # {}
ASSUME CountsAssumption == NumForeground \in Nat /\ NumGuards \in Nat
ASSUME BackgroundAssumption ==
    IsFiniteSet(Background) /\ Background \cap Foreground = {}
ASSUME ActionsAssumption == Actions \subseteq Activities
ASSUME CapAssumption == Cap \in Nat \ {0}
ASSUME BreachesAssumption == MinBreaches \in [Guards -> Nat \ {0}]
ASSUME SwitchAssumption == HasHypothesis \in BOOLEAN /\ HasLoad \in BOOLEAN
ASSUME StrategyAssumption == Strategy \in {"Always", "OnDeviation", "Never"}

VARIABLES
    rpc,        \* the runner thread's place in run_experiment
    token,      \* the caller's token is cancelled
    late,       \* history: it was cancelled after the runner's last look
    plug,       \* the guard monitor has cancelled the method's child token
    at,         \* each activity's place in execute_pending_activity
    res,        \* each activity's result, "none" when it left none
    active,     \* GateState.active
    peak,       \* GateState.peak
    mon,        \* the guard monitor
    idx,        \* the guard it evaluates next
    consecutive,\* guard -> breaches in a row
    load,       \* the load test
    status,     \* the journal's status, "none" until it is decided
    rb,         \* its rollback results: none ran, all succeeded, some failed
    injected,   \* history: the actions whose provider was called
    recent,     \* history: guard -> its last MinBreaches observations
    most        \* history: the most background providers running at once

tokenVars == <<token, late>>
threadVars == <<at, res, active, peak, injected, most>>
guardVars == <<plug, mon, idx, consecutive, recent>>
journalVars == <<status, rb>>
vars == <<rpc, tokenVars, threadVars, guardVars, load, journalVars>>

-----------------------------------------------------------------------------

RunnerPC == {"start", "before", "check", "method", "sampled", "joining",
             "post", "stopload", "judge", "rollback", "judged", "closing",
             "done", "error", "panicked"}

\* waiting (for its turn or for the gate), in the pause before, at the
\* dispatch boundary, in the provider, in the pause after; dropped when a
\* cancelled pause or gate let it go without a result.
ActivityPC == {"waiting", "pause", "ready", "running", "after", "done",
               "dropped"}

ActivityStatus == {"none", "Succeeded", "Failed", "Skipped"}

Status == {"none", "Completed", "Deviated", "Failed", "Aborted", "Halted",
           "Interrupted"}

RollbackResults == {"none", "ok", "failed"}

MonitorPC == {"off", "eval", "wait", "breached", "stopped", "panicked"}

TypeOK ==
    /\ rpc \in RunnerPC
    /\ token \in BOOLEAN
    /\ late \in BOOLEAN
    /\ plug \in BOOLEAN
    /\ at \in [Activities -> ActivityPC]
    /\ res \in [Activities -> ActivityStatus]
    /\ active \in Nat
    /\ peak \in Nat
    /\ mon \in MonitorPC
    /\ idx \in Nat \ {0}
    /\ consecutive \in [Guards -> Nat]
    /\ load \in {"off", "running", "collected", "lost"}
    /\ status \in Status
    /\ rb \in RollbackResults
    /\ injected \subseteq Actions
    /\ recent \in [Guards -> Seq(BOOLEAN)]
    /\ most \in Nat

Init ==
    /\ rpc = "start"
    /\ token = FALSE
    /\ late = FALSE
    /\ plug = FALSE
    /\ at = [a \in Activities |-> "waiting"]
    /\ res = [a \in Activities |-> "none"]
    /\ active = 0
    /\ peak = 0
    /\ mon = "off"
    /\ idx = 1
    /\ consecutive = [g \in Guards |-> 0]
    /\ load = "off"
    /\ status = "none"
    /\ rb = "none"
    /\ injected = {}
    /\ recent = [g \in Guards |-> <<>>]
    /\ most = 0

\* method_token, a child of the caller's token.
MethodCancelled == token \/ plug

\* The caller cancels (RunQueue::stop, SIGINT).
Cancel ==
    /\ ~token
    /\ rpc \notin {"done", "error", "panicked"}
    /\ token' = TRUE
    /\ late' = (rpc = "closing")
    /\ UNCHANGED <<rpc, threadVars, guardVars, load, journalVars>>

-----------------------------------------------------------------------------
(***************************************************************************)
(* The runner thread                                                       *)
(***************************************************************************)

RunnerGoes(pc) ==
    /\ rpc' = pc
    /\ UNCHANGED <<tokenVars, threadVars, guardVars>>

\* A journal without rollbacks.
ReturnInterrupted ==
    /\ RunnerGoes("done")
    /\ status' = "Interrupted"
    /\ UNCHANGED <<rb, load>>

should_rollback(needed) ==
    \/ Strategy = "Always"
    \/ Strategy = "OnDeviation" /\ needed

\* run_rollbacks, for an experiment that declares some: they go on past a
\* failure, so what counts is whether all of them succeeded.  Their outcome
\* is drawn when they start.
run_rollbacks(s, needed) ==
    /\ status' = s
    /\ \E r \in RollbackResults :
         /\ (r = "none") <=> ~should_rollback(needed)
         /\ rb' = r

Start ==
    /\ rpc = "start"
    /\ \/ token /\ ReturnInterrupted
       \/ ~token /\ RunnerGoes("before") /\ UNCHANGED <<load, journalVars>>

\* Hypothesis before: unmet, the experiment aborts and rolls back.
HypothesisBefore ==
    /\ rpc = "before"
    /\ \/ RunnerGoes("check") /\ UNCHANGED journalVars
       \/ HasHypothesis /\ RunnerGoes("rollback") /\ run_rollbacks("Aborted", TRUE)
    /\ UNCHANGED load

\* The last look at the token before the method; then the load test starts
\* (or fails to), and with the method the guard monitor.
BeginMethod ==
    /\ rpc = "check"
    /\ \/ token /\ ReturnInterrupted
       \/ ~token /\ HasLoad /\ RunnerGoes("error") /\ UNCHANGED <<load, journalVars>>
       \/ /\ ~token
          /\ rpc' = "method"
          /\ load' = IF HasLoad THEN "running" ELSE load
          /\ mon' = IF Guards = {} THEN "off" ELSE "eval"
          /\ UNCHANGED <<tokenVars, threadVars, plug, idx, consecutive, recent,
                         journalVars>>

\* The foreground loop ran to its end, or broke at a cancelled pause.
ForegroundEnded ==
    \/ \A i \in Foreground : at[i] = "done"
    \/ \E i \in Foreground : at[i] = "dropped"

\* Mutant: the background threads are not joined.
MethodEnds_Detached ==
    /\ rpc = "method"
    /\ ForegroundEnded
    /\ RunnerGoes("sampled")
    /\ UNCHANGED <<load, journalVars>>

\* execute_activities returns when the foreground loop has ended and every
\* background thread is joined.
MethodEnds ==
    /\ rpc = "method"
    /\ ForegroundEnded
    /\ \A b \in Background : at[b] \in {"done", "dropped"}
    /\ RunnerGoes("sampled")
    /\ UNCHANGED <<load, journalVars>>

\* The during-phase sampler is joined first, while the monitor still watches;
\* then the monitor's stop sender is dropped.
StopMonitor ==
    /\ rpc = "sampled"
    /\ RunnerGoes("joining")
    /\ UNCHANGED <<load, journalVars>>

\* finish_guard_monitor has joined; stop_load belongs to both early ends.
StopLoad ==
    load' \in IF load = "running" THEN {"collected", "lost"} ELSE {load}

\* A guard's halt wins over the caller's cancellation; both roll back.
MonitorJoined ==
    /\ rpc = "joining"
    /\ mon \in {"off", "breached", "stopped", "panicked"}
    /\ \/ /\ mon = "breached"
          /\ StopLoad /\ RunnerGoes("rollback") /\ run_rollbacks("Halted", TRUE)
       \/ /\ mon # "breached" /\ MethodCancelled
          /\ StopLoad /\ RunnerGoes("rollback") /\ run_rollbacks("Interrupted", TRUE)
       \/ /\ mon # "breached" /\ ~MethodCancelled
          /\ RunnerGoes("post")
          /\ UNCHANGED <<load, journalVars>>

\* Recovery is sampled until it is seen, times out or the caller cancels.
PostPhase ==
    /\ rpc = "post"
    /\ RunnerGoes("stopload")
    /\ UNCHANGED <<load, journalVars>>

CollectLoad ==
    /\ rpc = "stopload"
    /\ StopLoad
    /\ RunnerGoes("judge")
    /\ UNCHANGED journalVars

all_succeeded ==
    /\ \E a \in Activities : res[a] # "none"
    /\ \A a \in Activities : res[a] \in {"none", "Succeeded"}

\* determine_status once hypothesis-before was not unmet.
determine_status(afterMet) ==
    IF ~(all_succeeded /\ (HasLoad => load = "collected")) THEN "Failed"
    ELSE IF ~afterMet THEN "Deviated" ELSE "Completed"

\* Mutant: only an action that succeeded needs to be undone.
fault_started_Succeeded == \E a \in Actions : res[a] = "Succeeded"

\* An action left a result, so its fault may be live.
fault_started == \E a \in Actions : res[a] # "none"

\* Hypothesis after, the status, and whether it calls for rollbacks.
Judge ==
    /\ rpc = "judge"
    /\ RunnerGoes("judged")
    /\ \E afterMet \in BOOLEAN :
         /\ ~HasHypothesis => afterMet
         /\ LET s == IF token THEN "Interrupted" ELSE determine_status(afterMet)
            IN  run_rollbacks(s, \/ s = "Deviated"
                                 \/ s \in {"Failed", "Interrupted"} /\ fault_started)
    /\ UNCHANGED load

\* Mutant: the token is not read again after the rollbacks.
LastLook_Stale ==
    /\ rpc = "judged"
    /\ RunnerGoes("closing")
    /\ UNCHANGED <<load, journalVars>>

\* The rollbacks have run; the token has the last word on the status.
LastLook ==
    /\ rpc = "judged"
    /\ RunnerGoes("closing")
    /\ status' = IF token THEN "Interrupted" ELSE status
    /\ UNCHANGED <<load, rb>>

\* The analysis, the AfterExperiment controls and the metrics come between
\* that look and the journal, which is returned as it was decided.
ReturnJournal ==
    /\ rpc = "closing"
    /\ RunnerGoes("done")
    /\ UNCHANGED <<load, journalVars>>

\* The early ends return after their rollbacks, whatever the token says.
ReturnEarly ==
    /\ rpc = "rollback"
    /\ RunnerGoes("done")
    /\ UNCHANGED <<load, journalVars>>

\* Hypothesis and post-phase probes run uncontained: a provider that panics
\* there unwinds run_experiment.
ProbePanics ==
    /\ HasHypothesis
    /\ rpc \in {"before", "post", "judge"}
    /\ RunnerGoes("panicked")
    /\ UNCHANGED <<load, journalVars>>

RunnerThread ==
    \/ Start
    \/ HypothesisBefore
    \/ BeginMethod
    \/ MethodEnds
    \/ StopMonitor
    \/ MonitorJoined
    \/ PostPhase
    \/ CollectLoad
    \/ Judge
    \/ LastLook
    \/ ReturnJournal
    \/ ReturnEarly
    \/ ProbePanics

-----------------------------------------------------------------------------
(***************************************************************************)
(* The activities of the method                                            *)
(***************************************************************************)

ActivityGoes(a, pc) ==
    /\ at' = [at EXCEPT ![a] = pc]
    /\ UNCHANGED <<rpc, tokenVars, guardVars, load, journalVars>>

\* The steps at which a background activity owns a slot of the gate.
Holding == {"pause", "ready", "running", "after"}

RunningNow == {b \in Background : at[b] = "running"}

release(a) ==
    active' = IF a \in Background /\ active > 0 THEN active - 1 ELSE active

\* Mutant: one fault too many is let in.
GateAcquire_OffByOne(b) ==
    /\ rpc = "method"
    /\ at[b] = "waiting"
    /\ \/ /\ MethodCancelled
          /\ ActivityGoes(b, "dropped")
          /\ UNCHANGED <<active, peak>>
       \/ /\ ~MethodCancelled
          /\ active <= Cap
          /\ active' = active + 1
          /\ peak' = IF active' > peak THEN active' ELSE peak
          /\ ActivityGoes(b, "pause")
    /\ UNCHANGED <<res, injected, most>>

\* Mutant: the peak is taken before the slot is.
GateAcquire_PeakBefore(b) ==
    /\ rpc = "method"
    /\ at[b] = "waiting"
    /\ \/ /\ MethodCancelled
          /\ ActivityGoes(b, "dropped")
          /\ UNCHANGED <<active, peak>>
       \/ /\ ~MethodCancelled
          /\ active < Cap
          /\ active' = active + 1
          /\ peak' = IF active > peak THEN active ELSE peak
          /\ ActivityGoes(b, "pause")
    /\ UNCHANGED <<res, injected, most>>

\* FaultGate::acquire: waits for a slot, polling the token.
GateAcquire(b) ==
    /\ rpc = "method"
    /\ at[b] = "waiting"
    /\ \/ /\ MethodCancelled
          /\ ActivityGoes(b, "dropped")
          /\ UNCHANGED <<active, peak>>
       \/ /\ ~MethodCancelled
          /\ active < Cap
          /\ active' = active + 1
          /\ peak' = IF active' > peak THEN active' ELSE peak
          /\ ActivityGoes(b, "pause")
    /\ UNCHANGED <<res, injected, most>>

\* The foreground loop comes to its next activity.
TakeTurn(i) ==
    /\ rpc = "method"
    /\ at[i] = "waiting"
    /\ \A j \in Foreground : j < i => at[j] = "done"
    /\ ActivityGoes(i, "pause")
    /\ UNCHANGED <<res, active, peak, injected, most>>

\* pause_activity("before"): a cancelled pause drops the activity, and its
\* permit with it.
PauseBefore(a) ==
    /\ at[a] = "pause"
    /\ \/ MethodCancelled /\ ActivityGoes(a, "dropped") /\ release(a)
       \/ ~MethodCancelled /\ ActivityGoes(a, "ready") /\ UNCHANGED active
    /\ UNCHANGED <<res, peak, injected, most>>

\* Mutant: the token is not read again after the controls.
Dispatch_Unchecked(a) ==
    /\ at[a] = "ready"
    /\ ActivityGoes(a, "running")
    /\ injected' = injected \cup ({a} \cap Actions)
    /\ most' = LET n == Cardinality(RunningNow') IN IF n > most THEN n ELSE most
    /\ UNCHANGED <<res, active, peak>>

\* The BeforeActivity controls may take their time, so the token is read
\* again at the provider's door.
Dispatch(a) ==
    /\ at[a] = "ready"
    /\ \/ /\ MethodCancelled
          /\ res' = [res EXCEPT ![a] = "Skipped"]
          /\ ActivityGoes(a, "after")
          /\ UNCHANGED <<injected, most>>
       \/ /\ ~MethodCancelled
          /\ ActivityGoes(a, "running")
          /\ injected' = injected \cup ({a} \cap Actions)
          /\ most' = LET n == Cardinality(RunningNow')
                     IN  IF n > most THEN n ELSE most
          /\ UNCHANGED res
    /\ UNCHANGED <<active, peak>>

\* The provider returns, or panics: contained, and a Failed result.
ProviderReturns(a) ==
    /\ at[a] = "running"
    /\ \E s \in {"Succeeded", "Failed"} : res' = [res EXCEPT ![a] = s]
    /\ ActivityGoes(a, "after")
    /\ UNCHANGED <<active, peak, injected, most>>

\* Mutant: a failed activity keeps its slot.
PauseAfter_Leaks(a) ==
    /\ at[a] = "after"
    /\ ActivityGoes(a, "done")
    /\ IF res[a] = "Failed" THEN UNCHANGED active ELSE release(a)
    /\ UNCHANGED <<res, peak, injected, most>>

\* pause_activity("after"), cut short or not, then the permit drops.
PauseAfter(a) ==
    /\ at[a] = "after"
    /\ ActivityGoes(a, "done")
    /\ release(a)
    /\ UNCHANGED <<res, peak, injected, most>>

ActivityStep(a) ==
    \/ a \in Background /\ GateAcquire(a)
    \/ a \in Foreground /\ TakeTurn(a)
    \/ PauseBefore(a)
    \/ Dispatch(a)
    \/ ProviderReturns(a)
    \/ PauseAfter(a)

-----------------------------------------------------------------------------
(***************************************************************************)
(* The guard monitor                                                       *)
(***************************************************************************)

\* The last MinBreaches[g] observations of guard g, with one more.
Observed(g, safe) ==
    LET all == Append(recent[g], safe)
    IN  IF Len(all) <= MinBreaches[g] THEN all ELSE Tail(all)

GuardGoes(pc, i) ==
    /\ mon' = pc
    /\ idx' = i
    /\ UNCHANGED <<rpc, tokenVars, threadVars, load, journalVars>>

\* Mutant: a safe observation does not reset the count.
GuardEvaluate_NoReset ==
    /\ mon = "eval"
    /\ idx \in Guards
    /\ \E safe \in BOOLEAN :
         /\ recent' = [recent EXCEPT ![idx] = Observed(idx, safe)]
         /\ consecutive' = [consecutive EXCEPT ![idx] = IF safe THEN @ ELSE @ + 1]
         /\ \/ /\ ~safe /\ consecutive'[idx] >= MinBreaches[idx]
               /\ plug' = TRUE
               /\ GuardGoes("breached", idx)
            \/ /\ safe \/ consecutive'[idx] < MinBreaches[idx]
               /\ GuardGoes("eval", idx + 1)
               /\ UNCHANGED plug

\* One guard of the round: a breach often enough in a row pulls the plug.
GuardEvaluate ==
    /\ mon = "eval"
    /\ idx \in Guards
    /\ \E safe \in BOOLEAN :
         /\ recent' = [recent EXCEPT ![idx] = Observed(idx, safe)]
         /\ consecutive' = [consecutive EXCEPT ![idx] = IF safe THEN 0 ELSE @ + 1]
         /\ \/ /\ ~safe /\ consecutive'[idx] >= MinBreaches[idx]
               /\ plug' = TRUE
               /\ GuardGoes("breached", idx)
            \/ /\ safe \/ consecutive'[idx] < MinBreaches[idx]
               /\ GuardGoes("eval", idx + 1)
               /\ UNCHANGED plug

\* The round is over: the monitor waits for the interval or the stop.
GuardRoundEnds ==
    /\ mon = "eval"
    /\ idx \notin Guards
    /\ GuardGoes("wait", 1)
    /\ UNCHANGED <<plug, consecutive, recent>>

\* Mutant: the next round starts before the first guard.
GuardWaits_ZeroBased ==
    /\ mon = "wait"
    /\ IF rpc \in {"method", "sampled"} THEN GuardGoes("eval", 0)
                                      ELSE GuardGoes("stopped", 0)
    /\ UNCHANGED <<plug, consecutive, recent>>

\* Until the stop sender is gone a timeout starts another round.
GuardWaits ==
    /\ mon = "wait"
    /\ IF rpc \in {"method", "sampled"} THEN GuardGoes("eval", 1)
                                      ELSE GuardGoes("stopped", 1)
    /\ UNCHANGED <<plug, consecutive, recent>>

\* A guard's probe panics: the runner treats it as no halt.
GuardPanics ==
    /\ mon = "eval"
    /\ GuardGoes("panicked", idx)
    /\ UNCHANGED <<plug, consecutive, recent>>

Monitor == GuardEvaluate \/ GuardRoundEnds \/ GuardWaits \/ GuardPanics

-----------------------------------------------------------------------------

\* The journal is returned, or the call ended without one.
Ended == rpc \in {"done", "error", "panicked"} /\ UNCHANGED vars

Next ==
    \/ RunnerThread
    \/ \E a \in Activities : ActivityStep(a)
    \/ Monitor
    \/ Cancel
    \/ Ended

Spec == Init /\ [][Next]_vars

\* Threads are scheduled, and providers and probes return (they run under
\* their timeouts).  Nobody has to cancel, and no guard has to breach.
Fairness ==
    /\ WF_vars(RunnerThread)
    /\ \A a \in Activities : WF_vars(ActivityStep(a))
    /\ WF_vars(Monitor)

FairSpec == Spec /\ Fairness
-----------------------------------------------------------------------------
(* Properties *)

\* max_concurrent_faults is enforced: slots of the gate are neither leaked nor
\* minted by pauses, failures and cancellations, so no more background
\* activities are past it at once than the cap allows.
FaultsCapped ==
    /\ active = Cardinality({b \in Background : at[b] \in Holding})
    /\ active <= Cap

\* The blast radius in the journal never under-reports: the peak is at least
\* the most providers that ever ran at once, and within the cap.
PeakCovers == most <= peak /\ peak <= Cap

\* The gate bounds the blast radius and the journal reports it: both hold.
BlastRadiusBounded == FaultsCapped /\ PeakCovers

\* When the rollbacks run, and when a journal is returned, nothing of the
\* experiment is still at work: no activity of the method, no guard that could
\* pull the plug, no load.
QuietBeforeRollback ==
    rpc \in {"rollback", "judged", "closing", "done"} =>
        /\ \A a \in Activities : at[a] \notin Holding
        /\ mon \notin {"eval", "wait"}
        /\ load # "running"

\* A run is Halted exactly when a guard breached its safe condition
\* min_breaches times in a row, even when the caller cancels as well.
HaltIsEarned ==
    rpc \in {"rollback", "judged", "closing", "done"} =>
        (status = "Halted" <=>
           \E g \in Guards : /\ Len(recent[g]) = MinBreaches[g]
                             /\ \A k \in DOMAIN recent[g] : ~recent[g][k])

\* An experiment that called the provider of an action and did not complete
\* rolls back, whatever the action's own result: unless told never to, or
\* when the cancellation came after the status was decided.
FaultsCleaned ==
    rpc \in {"rollback", "judged"} /\ injected # {} /\ Strategy # "Never"
        => rb # "none" \/ status = "Completed"

\* Rollbacks start on a quiet system, and they are never forgotten.
CleanupSound == QuietBeforeRollback /\ FaultsCleaned

\* A run cancelled before the runner's last look at the token is never
\* reported with a verdict, however the cancellation raced the method, the
\* guards, the status and the rollbacks.  (A token cancelled while the
\* AfterExperiment controls run comes too late: nothing reads it any more.)
CancelledHasNoVerdict ==
    rpc \in {"closing", "done"} /\ token /\ ~late =>
        status \in {"Interrupted", "Halted", "Aborted"}

\* Every call of the runner ends: no activity waits for a slot for ever, and
\* the monitor never outlives the method.
RunnerEnds == (rpc = "start") ~> rpc \in {"done", "error", "panicked"}

\* The worker sees four phases of a run, and one fault that is live from the
\* first call of an action's provider until rollbacks that all succeed.
ContractPhase ==
    CASE rpc \in {"rollback", "closing", "done"} -> "record"
      [] rpc = "judged" -> "judged"
      [] rpc \in {"error", "panicked"} -> "fail"
      [] OTHER -> "run"

LiveFault == injected # {} /\ rb # "ok"

\* What the daemon's worker is promised of the runner it calls.
Contract == INSTANCE RunnerContract WITH
    phase <- ContractPhase, fault <- LiveFault, cancelled <- token

\* The runner's threads keep the contract that RunQueue's worker relies on.
KeepsContract == Contract!Spec

-----------------------------------------------------------------------------
(***************************************************************************)
(* The inductive invariant behind the safety properties, by thread.        *)
(***************************************************************************)

\* The foreground loop is in order, only the method runs activities, and an
\* activity's result tells whether its provider was called.
ActivityInv ==
    /\ \A i, j \in Foreground : j < i /\ at[i] # "waiting" => at[j] = "done"
    /\ rpc # "method" => \A a \in Activities : at[a] \notin Holding
    /\ rpc \in {"start", "before", "check"} => \A a \in Activities : at[a] = "waiting"
    /\ \A a \in Activities : res[a] # "none" <=> at[a] \in {"after", "done"}
    /\ \A a \in Actions : a \in injected <=>
         at[a] = "running" \/ res[a] \in {"Succeeded", "Failed"}

\* What the gate counts; the peak has seen every provider that ran.
GateInv ==
    /\ FaultsCapped
    /\ active <= peak
    /\ PeakCovers

\* The count of guard g is the length of the run of breaches that ends its
\* observations; it reaches min_breaches only by pulling the plug.
CountInv(g) ==
    LET n == Len(recent[g])
        c == consecutive[g]
    IN  /\ c <= n /\ n <= MinBreaches[g]
        /\ \A k \in 1 .. n : k > n - c => ~recent[g][k]
        /\ c < n => recent[g][n - c]
        /\ c = MinBreaches[g] => mon = "breached"

MonitorInv ==
    /\ \A g \in Guards : CountInv(g)
    /\ mon = "breached" => \E g \in Guards : consecutive[g] = MinBreaches[g]
    /\ plug <=> mon = "breached"
    /\ mon \in {"eval", "wait"} => rpc \in {"method", "sampled", "joining"}
    /\ rpc \in {"start", "before", "check"} => mon = "off"

\* Who has cancelled what, as far as the journal depends on it.
JournalInv ==
    /\ \A a \in Activities : res[a] = "Skipped" => MethodCancelled
    /\ rpc \in {"post", "stopload", "judge", "judged"} =>
         mon # "breached" /\ \A a \in Activities : res[a] # "Skipped"
    /\ load = "running" => rpc \in {"method", "sampled", "joining", "post",
                                    "stopload", "panicked"}
    /\ rpc \notin {"rollback", "judged", "closing", "done"} =>
         status = "none" /\ rb = "none"
    /\ rpc = "rollback" => status \in {"Aborted", "Halted", "Interrupted"}
    /\ rpc = "judged" => status \in {"Completed", "Deviated", "Failed", "Interrupted"}
    /\ late => rpc \in {"closing", "done"}
    /\ CancelledHasNoVerdict
    /\ rpc \in {"rollback", "judged", "closing", "done"} =>
         (status = "Halted" <=> mon = "breached")

IInv ==
    /\ TypeOK
    /\ ActivityInv
    /\ GateInv
    /\ MonitorInv
    /\ JournalInv
    /\ FaultsCleaned
=============================================================================
