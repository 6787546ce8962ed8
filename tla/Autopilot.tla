------------------------------ MODULE Autopilot ------------------------------
(***************************************************************************)
(* The autopilot (tumult-autopilot/src/): its gate, the tools of the MCP   *)
(* server that ask it (tumult-mcp/src/tools/autopilot/,                    *)
(* handler/dispatch/autopilot.rs), the enactment ledger (handler/enact.rs) *)
(* and the decision tables they write.  Tool calls run side by side; a     *)
(* pass gates all of its candidates on one reading of the store, then      *)
(* records and runs them one by one.                                       *)
(***************************************************************************)
EXTENDS Naturals, Sequences, FiniteSets, SequencesExt, TLC

CONSTANTS
    ApMaxDecisions, \* bound: decisions ever recorded
    Calls,        \* tool calls the server works on at once
    DailyBudget,  \* policy.max_runs_per_day
    PassLimit,    \* limit of a pass: candidates at most
    ApMaxAnswers, \* bound: calls of respond
    ApMaxChurn    \* bound: policy edits, days and crashes

ASSUME ApAssumption ==
    /\ DailyBudget \in Nat \ {0} /\ PassLimit \in Nat \ {0}
    /\ ApMaxDecisions \in Nat /\ ApMaxAnswers \in Nat /\ ApMaxChurn \in Nat
    /\ IsFiniteSet(Calls)

VARIABLES
    apSlot,      \* EnactLock.slot: the call that holds it
    apInFlight,  \* EnactLock.in_flight
    apCall,      \* the tool calls
    apDecision,  \* autopilot_decisions
    apEvents,    \* autopilot_events of each decision: how many, and the last
    apPolicy,    \* the policy file; its hash is its version
    apChurn,     \* edits, days and crashes so far, for the bound
    apAnswers    \* calls of respond so far, for the bound

apVars == <<apSlot, apInFlight, apCall, apDecision, apEvents, apPolicy, apChurn,
            apAnswers>>

-----------------------------------------------------------------------------
(* The gate: the validator, the autonomy ladder, the policy's lookups and  *)
(* evaluate (tumult-autopilot/src/).  Facts are records of flags and small *)
(* numbers; reasons are left out.                                          *)

\* RULE_ORDER: vetoes, enactability, bounded conditions.
VetoOrder == <<"enabled", "enrolled", "no_open_deviation", "no_concurrent",
               "daily_budget", "not_hollow">>
BoundedRules == {"tier", "guard_present", "telemetry", "business_hours",
                 "cooldown", "confidence", "autonomy"}
GateRules == ToSet(VetoOrder) \cup {"enactable"} \cup BoundedRules

\* validate: without a playbook the flags of the experiment mean nothing.
Hollow(c) == c.playbook /\ (~c.steady \/ c.faults = 0)
Blocked(c) == ~c.playbook \/ c.faults > 1 \/ ~c.rollback

\* inspect_experiment reports a rollback only beside a guard.
Inspect(x) == [steady |-> x.steady, rollback |-> x.rollback /\ x.guard,
               guard |-> x.guard, faults |-> x.faults]

\* autonomy_earned; the threshold is the fraction num / den, and the clean
\* runs are clamped to the total.
AutonomyEarned(p, total, clean) ==
    \/ p.pretrusted
    \/ /\ total > 0 /\ total >= p.minSamples
       /\ (IF clean < total THEN clean ELSE total) * p.den >= p.num * total

\* Whether each rule passes.
RulesEvaluated(p, c, a) ==
    [rule \in GateRules |->
       CASE rule = "enabled" -> p.enabled
         [] rule = "enrolled" -> ~p.requireEnrollment \/ p.enrolled
         [] rule = "no_open_deviation" -> ~a.deviation
         [] rule = "no_concurrent" -> a.concurrent = 0
         [] rule = "daily_budget" -> a.runsToday < p.maxRunsPerDay
         [] rule = "not_hollow" -> ~Hollow(c)
         [] rule = "enactable" -> ~Blocked(c)
         [] rule = "tier" -> p.tierAllowed
         [] rule = "guard_present" -> ~p.requireGuard \/ c.guard
         [] rule = "telemetry" -> a.telemetry
         [] rule = "business_hours" -> ~p.businessHoursOnly \/ a.businessHours
         [] rule = "cooldown" -> ~a.cooling
         [] rule = "confidence" -> c.high
         [] rule = "autonomy" -> AutonomyEarned(p, a.enacted, a.clean)]

\* evaluate on the rules: veto before propose before downgrade before enact.
VerdictOf(passed) ==
    CASE \E rule \in ToSet(VetoOrder) : ~passed[rule] -> "veto"
      [] ~passed["enactable"] -> "propose"
      [] \E rule \in BoundedRules : ~passed[rule] -> "downgrade"
      [] OTHER -> "enact"

\* The veto names the first of its rules that failed.
FiredRule(passed) == VetoOrder[SelectInSeq(VetoOrder, LAMBDA r : ~passed[r])]

Evaluate(p, c, a) == VerdictOf(RulesEvaluated(p, c, a))

-----------------------------------------------------------------------------
(* The calls and their records.                                            *)

Decisions == 1 .. ApMaxDecisions
Counted == {"human_approved", "human_denied", "re_gate_passed", "run_started"}
NoCall == [pc |-> "idle"]
NoDecision == [verdict |-> "none", hash |-> 0, today |-> FALSE]
Policy(version, enabled, trusted) ==
    [version |-> version, enabled |-> enabled, pretrusted |-> trusted,
     requireEnrollment |-> FALSE, enrolled |-> FALSE, maxRunsPerDay |-> DailyBudget,
     tierAllowed |-> TRUE, requireGuard |-> TRUE, businessHoursOnly |-> FALSE,
     minSamples |-> 1, num |-> 4, den |-> 5]

ApInit ==
    /\ apSlot = {} /\ apInFlight = 0
    /\ apCall = [c \in Calls |-> NoCall]
    /\ apDecision = [d \in Decisions |-> NoDecision]
    /\ apEvents = [d \in Decisions |->
         [last |-> "none", count |-> [kind \in Counted |-> 0]]]
    /\ apPolicy \in {Policy(1, enabled, TRUE) : enabled \in BOOLEAN}
    /\ apChurn = 0 /\ apAnswers = 0

\* A call that ends keeps nothing but the guard it still has to drop.
CallAt(c, pc) ==
    IF pc = "done" THEN IF c \in apSlot THEN [pc |-> "done"] ELSE NoCall
                   ELSE [apCall[c] EXCEPT !.pc = pc]
ApStep(c, pc) == apCall' = [apCall EXCEPT ![c] = CallAt(c, pc)]
NextItem(c, pc, decision) ==
    [apCall[c] EXCEPT !.pc = pc, !.decision = decision, !.queue = Tail(apCall[c].queue)]
ledger == <<apSlot, apInFlight>>
records == <<apDecision, apEvents>>
outside == <<apPolicy, apChurn, apAnswers>>

LastEvent(d) == apEvents[d].last
EventCount(d, kind) == apEvents[d].count[kind]
AppendEvent(d, kind) ==
    apEvents' = [apEvents EXCEPT ![d].last = kind,
      ![d].count = [k \in Counted |-> IF k = kind THEN @[k] + 1 ELSE @[k]]]

\* autopilot_decisions_since, autopilot_class_history and the cooldown look at
\* decisions with verdict enact, run or not.  One fault class, and a policy
\* without a cooldown.
EnactDecisions == {d \in Decisions : apDecision[d].verdict = "enact"}
RunsToday == Cardinality({d \in EnactDecisions : apDecision[d].today})

\* The ambient context as a call computes it; what comes from the lineage and
\* from the probe is chosen.
Ambient(concurrent, deviation, telemetry) ==
    [deviation |-> deviation, telemetry |-> telemetry, concurrent |-> concurrent,
     runsToday |-> RunsToday, businessHours |-> TRUE, cooling |-> FALSE,
     enacted |-> Cardinality(EnactDecisions),
     clean |-> Cardinality({d \in EnactDecisions : LastEvent(d) = "run_completed"})]

\* A candidate with a playbook whose experiment has all it needs, or not.
CandidateOf(rollback) ==
    Inspect([steady |-> TRUE, rollback |-> rollback, guard |-> TRUE, faults |-> 1])
      @@ [playbook |-> TRUE, high |-> TRUE]

-----------------------------------------------------------------------------
(* The ledger.                                                             *)

\* try_acquire takes the slot, and counts itself in a second step.
TryAcquire(c) ==
    /\ apCall[c].pc = "acquire"
    /\ IF apSlot = {}
         THEN apSlot' = {c} /\ ApStep(c, "count")
         ELSE /\ apCall' = [apCall EXCEPT ![c] =
                   IF @.op = "run_experiment" THEN NoCall ELSE [@ EXCEPT !.pc = "look"]]
              /\ UNCHANGED apSlot
    /\ UNCHANGED <<apInFlight, records, outside>>

FetchAdd(c) ==
    /\ apCall[c].pc = "count"
    /\ apInFlight' = apInFlight + 1
    /\ apCall' = [apCall EXCEPT ![c].pc =
                    IF @ = "count" /\ apCall[c].op = "run_experiment" THEN "running" ELSE "gate"]
    /\ UNCHANGED <<apSlot, records, outside>>

\* in_flight(), for a call without the slot.
LookInFlight(c) ==
    /\ apCall[c].pc = "look"
    /\ apCall' = [apCall EXCEPT ![c].pc = "gate", ![c].concurrent = apInFlight]
    /\ UNCHANGED <<ledger, records, outside>>

\* The guard is dropped: the count first, then the slot.
DropGuard(c) ==
    /\ apCall[c].pc = "done"
    /\ apInFlight' = apInFlight - 1 /\ ApStep(c, "unlock")
    /\ UNCHANGED <<apSlot, records, outside>>

Unlock(c) ==
    /\ apCall[c].pc = "unlock"
    /\ apSlot' = {} /\ apCall' = [apCall EXCEPT ![c] = NoCall]
    /\ UNCHANGED <<apInFlight, records, outside>>

-----------------------------------------------------------------------------
(* tumult_autopilot_run, tumult_autopilot_respond, tumult_run_experiment.  *)

\* Only a call that will run something asks for the slot.
CallTool(c, op, runs, d) ==
    /\ apCall[c].pc = "idle"
    /\ op = "run_experiment" => runs
    /\ op = "respond" => apDecision[d].verdict \in {"propose", "downgrade"}
    /\ apAnswers < ApMaxAnswers \/ op # "respond"
    /\ apAnswers' = apAnswers + (IF op = "respond" THEN 1 ELSE 0)
    /\ apCall' = [apCall EXCEPT ![c] =
         [pc |-> IF runs THEN "acquire" ELSE "look", op |-> op, runs |-> runs,
          decision |-> IF op = "respond" THEN {d} ELSE {}, concurrent |-> 0, queue |-> <<>>,
          policy |-> {}]]
    /\ UNCHANGED <<ledger, records, apPolicy, apChurn>>

\* assemble_candidates: every verdict of the pass from one reading.
Assemble(c, verdicts) ==
    /\ apCall[c].pc = "gate" /\ apCall[c].op = "run"
    /\ apCall' = [apCall EXCEPT ![c] =
         IF ~apPolicy.enabled \/ verdicts = <<>> THEN CallAt(c, "done")
         ELSE [@ EXCEPT !.pc = "persist", !.concurrent = 0,
                 !.queue = [i \in DOMAIN verdicts |->
                    [verdict |-> verdicts[i], hash |-> apPolicy.version]]]]
    /\ UNCHANGED <<ledger, records, outside>>

VerdictsOf(c) ==
    UNION {{Evaluate(apPolicy, CandidateOf(rollback),
                     Ambient(apCall[c].concurrent, FALSE, telemetry)) : telemetry \in BOOLEAN}
           : rollback \in BOOLEAN}

\* persist_decision, before anything runs; an enact verdict of a pass that
\* executes goes on to run_playbook, which first records its start.
Persist(c, d) ==
    /\ apCall[c].pc = "persist" /\ apCall[c].queue # <<>>
    /\ apDecision[d].verdict = "none" /\ \A e \in 1 .. d - 1 : apDecision[e].verdict # "none"
    /\ LET item == Head(apCall[c].queue)
           starts == item.verdict = "enact" /\ apCall[c].runs
       IN  /\ apDecision' = [apDecision EXCEPT ![d] =
                [verdict |-> item.verdict, hash |-> item.hash, today |-> TRUE]]
           /\ apCall' = [apCall EXCEPT ![c] =
                IF starts THEN NextItem(c, "start", {d})
                ELSE IF Len(apCall[c].queue) > 1 THEN NextItem(c, "persist", {})
                ELSE CallAt(c, "done")]
    /\ UNCHANGED <<ledger, apEvents, outside>>

RunPlaybook(c, d) ==
    /\ apCall[c].pc = "start" /\ d \in apCall[c].decision
    /\ AppendEvent(d, "run_started") /\ ApStep(c, "running")
    /\ UNCHANGED <<ledger, apDecision, outside>>

\* The run ends; an error of the runner ends the pass as well, and what it had
\* not recorded yet is lost.
RunEnds(c, outcome) ==
    /\ apCall[c].pc = "running"
    /\ IF apCall[c].decision = {} THEN UNCHANGED apEvents
       ELSE \E d \in apCall[c].decision :
              AppendEvent(d, IF outcome = "completed" THEN "run_completed" ELSE "run_failed")
    /\ ApStep(c, IF apCall[c].queue # <<>> /\ outcome # "error" THEN "persist" ELSE "done")
    /\ UNCHANGED <<ledger, apDecision, outside>>

\* The first check of respond, and the arguments of an approval: the policy is
\* read here, before the answer is recorded, and may not be readable.
RespondCheck(c, d) ==
    /\ apCall[c].pc = "gate" /\ apCall[c].op = "respond" /\ d \in apCall[c].decision
    /\ \/ /\ apCall[c].runs \/ LastEvent(d) \in {"human_approved", "human_denied"}
          /\ ApStep(c, "done")
       \/ /\ LastEvent(d) \notin {"human_approved", "human_denied"}
          /\ apCall' = [apCall EXCEPT ![c].pc = "answer",
                          ![c].policy = IF apCall[c].runs THEN {apPolicy} ELSE {}]
    /\ UNCHANGED <<ledger, records, outside>>

\* Mutant: an approval is acted on and not recorded.
RespondAnswer_Unrecorded(c, d) ==
    /\ apCall[c].pc = "answer" /\ d \in apCall[c].decision
    /\ ApStep(c, IF apCall[c].runs THEN "regate" ELSE "done")
    /\ UNCHANGED <<ledger, records, outside>>

RespondAnswer(c, d) ==
    /\ apCall[c].pc = "answer" /\ d \in apCall[c].decision
    /\ AppendEvent(d, IF apCall[c].runs THEN "human_approved" ELSE "human_denied")
    /\ ApStep(c, IF apCall[c].runs THEN "regate" ELSE "done")
    /\ UNCHANGED <<ledger, apDecision, outside>>

\* The hash of the policy the call has read, then the whole gate on the state
\* as it is now.
Regate(c, d, rollback, telemetry, deviation) ==
    /\ apCall[c].pc = "regate" /\ d \in apCall[c].decision
    /\ IF \E p \in apCall[c].policy :
            /\ p.version = apDecision[d].hash
            /\ Evaluate(p, CandidateOf(rollback),
                        Ambient(apCall[c].concurrent, deviation, telemetry)) = "enact"
         THEN AppendEvent(d, "re_gate_passed") /\ ApStep(c, "start")
         ELSE AppendEvent(d, "re_gate_refused") /\ ApStep(c, "done")
    /\ UNCHANGED <<ledger, apDecision, outside>>

-----------------------------------------------------------------------------
(* What happens around it.                                                 *)

Churn == apChurn < ApMaxChurn /\ apChurn' = apChurn + 1

\* An edit that takes the fault class out of pretrusted: the ladder decides.
PolicyEdit ==
    /\ Churn /\ apPolicy' = Policy(apPolicy.version + 1, apPolicy.enabled, FALSE)
    /\ UNCHANGED <<ledger, apCall, records, apAnswers>>

DayPasses ==
    /\ Churn
    /\ apDecision' = [d \in Decisions |-> [apDecision[d] EXCEPT !.today = FALSE]]
    /\ UNCHANGED <<ledger, apCall, apEvents, apPolicy, apAnswers>>

\* The server dies; what was recorded stays.
ServerCrash ==
    /\ Churn /\ apCall' = [c \in Calls |-> NoCall]
    /\ apSlot' = {} /\ apInFlight' = 0
    /\ UNCHANGED <<records, apPolicy, apAnswers>>

ApNext ==
    \/ \E c \in Calls :
         \/ \E op \in {"run", "run_experiment"}, runs \in BOOLEAN : CallTool(c, op, runs, 1)
         \/ \E runs \in BOOLEAN, d \in Decisions : CallTool(c, "respond", runs, d)
         \/ TryAcquire(c) \/ FetchAdd(c) \/ DropGuard(c) \/ Unlock(c)
         \/ LookInFlight(c)
         \/ /\ apCall[c].pc = "gate"
            /\ \E verdicts \in BoundedSeq(VerdictsOf(c), PassLimit) : Assemble(c, verdicts)
         \/ \E d \in Decisions :
              \/ Persist(c, d) \/ RunPlaybook(c, d)
              \/ RespondCheck(c, d) \/ RespondAnswer(c, d)
              \/ \E rollback, telemetry, deviation \in BOOLEAN :
                   Regate(c, d, rollback, telemetry, deviation)
         \/ \E outcome \in {"completed", "deviated", "error"} : RunEnds(c, outcome)
    \/ PolicyEdit
    \/ DayPasses \/ ServerCrash

ApSpec == ApInit /\ [][ApNext]_apVars

-----------------------------------------------------------------------------
Running == {c \in Calls : apCall[c].pc = "running"}

ApRunsAccounted ==
    \A d \in Decisions :
      LET starts == EventCount(d, "run_started") IN
      /\ (\E c \in Running : d \in apCall[c].decision) => starts > 0
      /\ starts > 0 => apDecision[d].verdict # "veto" /\ apDecision[d].verdict # "none"
      /\ apDecision[d].verdict = "enact" => starts <= 1
      /\ apDecision[d].verdict \in {"propose", "downgrade"} =>
           /\ starts <= EventCount(d, "re_gate_passed")
           /\ EventCount(d, "re_gate_passed") <= EventCount(d, "human_approved")

ApBudgetBounded ==
    RunsToday <= DailyBudget - 1 + PassLimit * Cardinality(Calls)

(* Nothing runs without its record, whatever the calls, crashes and policy
   edits do: a run of a decision was recorded before it began, either on its
   own enact verdict, or after an approval of its own that the gate, asked
   again under the policy the decision was made under as the call that approves
   has read it, let pass.  And the
   daily budget, which is read once per pass, before the pass adds to it, is
   exceeded by at most what the passes that read it together may add. *)
ApRunsEarned == ApRunsAccounted /\ ApBudgetBounded

(* enact.rs, "at most one fault-injection enactment runs at a time across the
   whole MCP server". *)
OneEnactmentAtATime == Cardinality(Running) <= 1

(* autopilot/mod.rs, "the one response a decision takes". *)
OneResponse ==
    \A d \in Decisions :
        EventCount(d, "human_approved") + EventCount(d, "human_denied") <= 1

=============================================================================
