---------------------------- MODULE Evaluations ----------------------------
(***************************************************************************)
(* What becomes of an agent's contracts (tumult-agentic, tumult agentic):  *)
(* the scores and the gate over them, the smoke runs of the bundled packs, *)
(* a command from its report to its journal file and its rows in the       *)
(* analytics store, and a live run of an agent process.                    *)
(***************************************************************************)
EXTENDS Agentic

CONSTANTS
    EvCommands,  \* tumult agentic processes, sharing a journal path and a store
    EvPipe,      \* units a pipe of the agent process holds
    EvTalk       \* units of the prompt, and of the agent's output

VARIABLES
    evCmd,     \* each command: where it is, its input, its next insert
    evFile,    \* the journal file
    evHolder,  \* the process that has the DuckDB file open
    evRows,    \* rows of the agentic tables, with the command that wrote each
    evCut,     \* commands whose ingest an error or a crash cut short
    evLive     \* a live run: the parent, the feeder, the pipes, the agent

ASSUME EvCommandsAssumption == "none" \notin EvCommands

evVars == <<evCmd, evFile, evHolder, evRows, evCut, evLive>>

-----------------------------------------------------------------------------
(* Scores.  A score is a pair of weights, the passed one and the whole.    *)

Outcome(c, passed) == [type |-> c.type, passed |-> passed, severity |-> c.severity]
Outcomes(cs, verdicts) == [i \in DOMAIN cs |-> Outcome(cs[i], verdicts[i])]
Weight(os) == FoldLeft(LAMBDA w, o : w + o.severity, 0, os)
Passed(os) == SelectSeq(os, LAMBDA o : o.passed)
OfTypes(os, types) == SelectSeq(os, LAMBDA o : o.type \in types)

\* Mutant: every contract counts the same.
resilience_score_Flat(os) ==
    IF os = <<>> THEN [passed |-> 1, total |-> 1] ELSE [passed |-> Len(Passed(os)), total |-> Len(os)]

resilience_score(os) ==
    IF Weight(os) = 0 THEN [passed |-> 1, total |-> 1]
    ELSE [passed |-> Weight(Passed(os)), total |-> Weight(os)]

AtMost(a, b) == a.passed * b.total <= b.passed * a.total

\* score_matrix and agentic_score: the subscore of every dimension with an outcome.
Subscores(os, dimensions) ==
    [d \in {e \in DOMAIN dimensions : OfTypes(os, dimensions[e]) # <<>>} |->
        resilience_score(OfTypes(os, dimensions[d]))]
score_matrix(os) ==
    [overall |-> resilience_score(os),
     subscores |-> Subscores(os, [latency |-> {"max_latency"}, retry_budget |-> {"retry_budget"},
                                  cost |-> {"max_token_usage"}, recovery |-> {"fallback_used"}])]

\* Mutant: the overall score forgets the steps' own contracts.
agentic_score_TopOnly(stepOs, trajOs) ==
    [overall |-> resilience_score(trajOs), subscores |-> Subscores(trajOs, [cost |-> {"step_budget"}])]

agentic_score(stepOs, trajOs) ==
    LET correct == IF stepOs = <<>> THEN <<>> ELSE [correctness |-> resilience_score(stepOs)]
        others == Subscores(trajOs, [recovery |-> {"recovers_within", "terminates_healthy"},
                                     cost |-> {"step_budget"}, loops |-> {"no_repeated_step"}])
    IN  [overall |-> resilience_score(stepOs \o trajOs),
         subscores |-> [d \in DOMAIN correct \cup DOMAIN others |->
                           IF d \in DOMAIN others THEN others[d] ELSE correct[d]]]

\* Mutant: the gate names the last contract, failed or not.
evaluate_score_gate_Last(score, os, threshold) ==
    IF AtMost(threshold, score.overall) THEN "ok"
    ELSE IF os = <<>> THEN "unknown" ELSE os[Len(os)].type

\* evaluate_score_gate; the error names the first failed contract.
evaluate_score_gate(score, os, threshold) ==
    IF AtMost(threshold, score.overall) THEN "ok"
    ELSE LET failed == SelectSeq(os, LAMBDA o : ~o.passed)
         IN  IF failed = <<>> THEN "unknown" ELSE failed[1].type

-----------------------------------------------------------------------------
(* The smoke runs.                                                         *)

\* pack_baseline: what a pack needs beforehand for its headline to show.
pack_baseline(pack) ==
    CASE pack = "hallucination" -> [Response("plain") EXCEPT !.calls = 1, !.tool = "lookup_order"]
      [] pack = "cost" -> [Response("plain") EXCEPT !.in = 600, !.out = 200]
      [] pack = "fallback" -> [Response("plain") EXCEPT !.tool = "lookup_order"]
      [] OTHER -> Response("plain")

\* pack_headline: the fault of a pack and the contract that it is to break.
pack_headline ==
    [storm |-> [fault |-> "retry_loop_pressure", contract |-> "retry_budget"],
     hallucination |-> [fault |-> "hallucinated_tool_call", contract |-> "max_tool_calls"],
     cost |-> [fault |-> "token_budget_exhaustion", contract |-> "max_token_usage"],
     fallback |-> [fault |-> "tool_failure", contract |-> "fallback_used"],
     poisoning |-> [fault |-> "retrieval_poisoning", contract |-> "required_citation"],
     malformed |-> [fault |-> "malformed_output", contract |-> "valid_json"]]

\* Mutant: the token budget is taken off the prompt as well.
PackOutcomes_Clipped(pack) ==
    LET r == AgEngine(AgPacks[pack], pack_baseline(pack))
    IN  Outcomes(AgPacks[pack].contracts, AgVerdicts(AgPacks[pack].contracts, [r EXCEPT !.in = 0]))

PackOutcomes(pack) ==
    Outcomes(AgPacks[pack].contracts,
             AgVerdicts(AgPacks[pack].contracts, AgEngine(AgPacks[pack], pack_baseline(pack))))

HeadlineFails(os, type) == \E i \in DOMAIN os : os[i].type = type /\ ~os[i].passed
run_scenario_pack_smoke(pack) == HeadlineFails(PackOutcomes(pack), pack_headline[pack].contract)

\* agentic_smoke and agentic_run_experiment of the tool server: a selection is
\* run only when it is the headline.
agentic_smoke(adapter, pack, fault, contract) ==
    /\ adapter \in {"fake-http", "fake-mcp", "replay"}
    /\ pack \in DOMAIN AgPacks
    /\ fault \in {"none", pack_headline[pack].fault}
    /\ contract \in {"none", pack_headline[pack].contract}

\* render_agentic_report passes a report whose headline fault was applied.
render_agentic_report(pack) ==
    /\ run_scenario_pack_smoke(pack)
    /\ \E i \in DOMAIN AgPacks[pack].faults : AgPacks[pack].faults[i].type = pack_headline[pack].fault

\* execute_trajectory with every fault applied, and the trajectory smoke.
RunTrajectory(pack) ==
    FoldLeft(LAMBDA run, i : TrajectoryTurn(pack, Range(pack.faults), run, i),
             [steps |-> <<>>, docs |-> {}], [i \in DOMAIN pack.steps |-> i])
TrajectoryOutcomes(pack) ==
    Outcomes(pack.contracts, TrajectoryVerdicts(pack, RunTrajectory(pack).steps))
StepOutcomes(pack) ==
    LET steps == RunTrajectory(pack).steps
    IN  FoldLeft(LAMBDA os, i : os \o Outcomes(pack.steps[i].contracts, steps[i].verdicts),
                 <<>>, [i \in DOMAIN steps |-> i])
trajectory_headline ==
    [rag |-> [type |-> "terminates_healthy", passed |-> FALSE],
     reflection |-> [type |-> "no_repeated_step", passed |-> FALSE],
     cascade |-> [type |-> "recovers_within", passed |-> TRUE]]
run_trajectory_pack_smoke(name) ==
    LET os == TrajectoryOutcomes(AgTrajectories[name])
    IN  \E i \in DOMAIN os : os[i].type = trajectory_headline[name].type
                             /\ os[i].passed = trajectory_headline[name].passed

\* A captured session: each step's output reference, which the adapter puts
\* into its JSON as it is, so a quote in one breaks the body.
Refs == {"ref", "quoted", "blank"}
\* Mutant: only the first step is looked at.
ReplayValid_First(steps) == steps # <<>> /\ steps[1] # "blank"

ReplayValid(steps) == steps # <<>> /\ \A i \in DOMAIN steps : steps[i] # "blank"
fixture_response(body) == [Response(body) EXCEPT !.latency = 1, !.in = 1, !.out = 1]
ReplayResponse(steps) ==
    fixture_response(IF \E i \in DOMAIN steps : steps[i] = "quoted" THEN "malformed" ELSE "plain")

\* invoke_tool of the fake MCP adapter, and the order of its refusals.
invoke_tool(fields, required, slow, failing) ==
    IF ~(required \subseteq fields) THEN "missing_required_field"
    ELSE IF slow THEN "timeout" ELSE IF failing THEN "tool_failure" ELSE "ok"

\* run_local_smoke_suite: a broken body, a failing tool whose error is handled,
\* and a replay that must be refused.
run_local_smoke_suite ==
    /\ ~Holds(AgContract("valid_json", 0, 4), fixture_response("malformed"))
    /\ invoke_tool({"scenario", "query"}, {"scenario", "query"}, FALSE, TRUE) = "tool_failure"
    /\ Holds(AgContract("graceful_error", 0, 4), fixture_response("error"))
    /\ Holds(AgContract("valid_json", 0, 4), ReplayResponse(<<"ref", "ref", "ref">>))
    /\ ~ReplayValid(<<"blank">>)

-----------------------------------------------------------------------------
(* A command's report, and what it leaves behind.                          *)

EvInputs ==
    [kind : {"pack"}, name : {"malformed", "storm"}, steps : {<<>>}]
        \cup [kind : {"replay"}, name : {"session"}, steps : UNION {[1..n -> Refs] : n \in 0..2}]
        \cup [kind : {"trajectory"}, name : {"rag"}, steps : {<<>>}]

Report(in) ==
    IF in.kind = "replay"
    THEN LET os == Outcomes(<<AgContract("valid_json", 0, 4)>>,
                            <<ValidJson(ReplayResponse(in.steps).body)>>)
         IN  [run |-> in.name, outcomes |-> os, faults |-> 1, passed |-> os[1].passed]
    ELSE IF in.kind = "pack"
    THEN [run |-> in.name, outcomes |-> PackOutcomes(in.name),
          faults |-> Len(AgPacks[in.name].faults), passed |-> render_agentic_report(in.name)]
    ELSE LET pack == AgTrajectories[in.name]
         IN  [run |-> in.name, outcomes |-> StepOutcomes(pack) \o TrajectoryOutcomes(pack),
              faults |-> Len(pack.faults), passed |-> run_trajectory_pack_smoke(in.name)]

\* metadata_evidence_from_result and metadata_evidence_from_trajectory.
Evidence(in) ==
    LET os == Report(in).outcomes
    IN  [of |-> in, contracts |-> os, faults |-> Report(in).faults,
         rate |-> IF os = <<>> THEN [passed |-> 1, total |-> 1]
                  ELSE [passed |-> Len(Passed(os)), total |-> Len(os)],
         score |-> resilience_score(os)]

EvRow(table, n) == [table |-> table, n |-> n]
\* Mutant: the run's own row goes in last.
Inserts_RunLast(in) ==
    [n \in 1..Len(Report(in).outcomes) |-> EvRow("contract", n)]
        \o [n \in 1..Report(in).faults |-> EvRow("fault", n)]
        \o (IF in.kind = "replay" THEN <<EvRow("replay", 1)>> ELSE <<>>)
        \o <<EvRow("run", 1)>>

\* ingest_agentic_run's statements, each committed by itself.
Inserts(in) ==
    <<EvRow("run", 1)>>
        \o [n \in 1..Len(Report(in).outcomes) |-> EvRow("contract", n)]
        \o [n \in 1..Report(in).faults |-> EvRow("fault", n)]
        \o (IF in.kind = "replay" THEN <<EvRow("replay", 1)>> ELSE <<>>)

HasRun(name) == \E r \in evRows : r.row.table = "run" /\ r.run = name

EvGo(c, pc) == evCmd' = [evCmd EXCEPT ![c].pc = pc]
EvEnd(c, ingested) ==
    evCmd' = [evCmd EXCEPT ![c].pc = IF Report(evCmd[c].input).passed THEN "pass" ELSE "fail",
                           ![c].ingested = ingested]

\* cmd_agentic_run_scenario, cmd_agentic_replay or cmd_agentic_trajectory, up to
\* its report.
EvEvaluate(c, in) ==
    /\ evCmd[c].pc = "new"
    /\ evCmd' = [evCmd EXCEPT ![c].input = in,
            ![c].pc = IF in.kind = "replay" /\ ~ReplayValid(in.steps) THEN "refused" ELSE "evaluated"]
    /\ UNCHANGED <<evFile, evHolder, evRows, evCut, evLive>>

\* write_metadata_journal_file: fs::write empties the file, then fills it.
EvTruncate(c) ==
    /\ evCmd[c].pc = "evaluated"
    /\ \/ evFile' = {} /\ EvGo(c, "truncated")
       \/ EvGo(c, "error") /\ UNCHANGED evFile
    /\ UNCHANGED <<evHolder, evRows, evCut, evLive>>
\* Over what another command wrote in between, both texts may be left.
EvWrite(c) ==
    /\ evCmd[c].pc = "truncated"
    /\ \E left \in SUBSET evFile : evFile' = left \cup {Evidence(evCmd[c].input)}
    /\ EvGo(c, "written")
    /\ UNCHANGED <<evHolder, evRows, evCut, evLive>>

\* render_agentic_report opens the store, or goes on without it; a run id that
\* is there already is not written again.  A trajectory is only journaled.
EvOpen(c) ==
    /\ evCmd[c].pc = "written"
    /\ IF evCmd[c].input.kind = "trajectory" \/ evHolder # "none" \/ HasRun(evCmd[c].input.name)
       THEN EvEnd(c, FALSE) /\ UNCHANGED evHolder
       ELSE evHolder' = c /\ EvGo(c, "ingesting")
    /\ UNCHANGED <<evFile, evRows, evCut, evLive>>

\* The next INSERT; an error is swallowed (unwrap_or(false)).
EvInsert(c) ==
    LET in == evCmd[c].input
        n == evCmd[c].next
    IN  /\ evCmd[c].pc = "ingesting"
        /\ evRows' = evRows \cup {[row |-> Inserts(in)[n], run |-> in.name, by |-> c,
                                   passed |-> \A o \in DOMAIN Report(in).outcomes :
                                                  Report(in).outcomes[o].passed]}
        /\ IF n < Len(Inserts(in))
           THEN evCmd' = [evCmd EXCEPT ![c].next = n + 1] /\ UNCHANGED evHolder
           ELSE EvEnd(c, TRUE) /\ evHolder' = "none"
        /\ UNCHANGED <<evFile, evCut, evLive>>
EvInsertFails(c) ==
    /\ evCmd[c].pc = "ingesting"
    /\ EvEnd(c, FALSE) /\ evHolder' = "none" /\ evCut' = evCut \cup {c}
    /\ UNCHANGED <<evFile, evRows, evLive>>

EvCrash(c) ==
    /\ evCmd[c].pc \in {"evaluated", "truncated", "written", "ingesting"}
    /\ EvGo(c, "crashed")
    /\ evHolder' = IF evHolder = c THEN "none" ELSE evHolder
    /\ evCut' = IF evCmd[c].pc = "ingesting" THEN evCut \cup {c} ELSE evCut
    /\ UNCHANGED <<evFile, evRows, evLive>>

-----------------------------------------------------------------------------
(* run_live: the parent reads the agent's output while a thread feeds the  *)
(* prompt.  No timeout bounds the agent.                                   *)

EvStays == UNCHANGED <<evCmd, evFile, evHolder, evRows, evCut>>

\* Mutant: the prompt is written before the output is read.
ParentReads_Fed == evLive.parent = "reading" /\ evLive.fed = EvTalk
ParentReads == evLive.parent = "reading"

LvSpawn ==
    /\ evLive.parent = "new"
    /\ \/ evLive' = [evLive EXCEPT !.parent = "reading", !.agent = "alive"]
       \/ evLive' = [evLive EXCEPT !.parent = "error"]
    /\ EvStays
\* The feeder; once the agent is gone its write fails and it ends.
LvFeed ==
    /\ evLive.parent = "reading" /\ evLive.fed < EvTalk
    /\ evLive' = IF evLive.agent = "alive"
                 THEN [evLive EXCEPT !.fed = @ + 1, !.in = @ + 1] ELSE [evLive EXCEPT !.fed = EvTalk]
    /\ evLive.agent = "alive" => evLive.in < EvPipe
    /\ EvStays
LvAgent ==
    /\ evLive.agent = "alive"
    /\ \/ evLive.in > 0 /\ evLive' = [evLive EXCEPT !.in = @ - 1]
       \/ evLive.said < EvTalk /\ evLive.out < EvPipe
            /\ evLive' = [evLive EXCEPT !.said = @ + 1, !.out = @ + 1]
       \/ \E code \in {"exit_ok", "exit_bad"} : evLive' = [evLive EXCEPT !.agent = code]
    /\ EvStays
LvRead ==
    /\ ParentReads /\ evLive.out > 0
    /\ evLive' = [evLive EXCEPT !.out = @ - 1, !.read = @ + 1]
    /\ EvStays
\* Mutant: the exit status is enough, whatever is left in the pipe.
LvJoined_Exited == evLive.agent # "alive" /\ evLive.fed = EvTalk
\* wait_with_output ends at the end of the output, then the feeder is joined.
LvJoined == evLive.agent \in {"exit_ok", "exit_bad"} /\ evLive.out = 0 /\ evLive.fed = EvTalk
LvEnd ==
    /\ evLive.parent = "reading" /\ LvJoined
    /\ evLive' = [evLive EXCEPT !.parent = IF evLive.agent = "exit_ok" THEN "judged" ELSE "error"]
    /\ EvStays

-----------------------------------------------------------------------------

EvInit ==
    /\ evCmd = [c \in EvCommands |->
                  [pc |-> "new", input |-> [kind |-> "pack", name |-> "storm", steps |-> <<>>],
                   next |-> 1, ingested |-> FALSE]]
    /\ evFile = {} /\ evHolder = "none" /\ evRows = {} /\ evCut = {}
    /\ evLive = [parent |-> "new", agent |-> "none", fed |-> 0, in |-> 0, said |-> 0,
                 out |-> 0, read |-> 0]

EvNext ==
    \E c \in EvCommands :
        \/ \E in \in EvInputs : EvEvaluate(c, in)
        \/ EvTruncate(c) \/ EvWrite(c) \/ EvOpen(c) \/ EvInsert(c) \/ EvInsertFails(c) \/ EvCrash(c)

LvNext == LvSpawn \/ LvFeed \/ LvAgent \/ LvRead \/ LvEnd

EvSpec == EvInit /\ [][EvNext \/ LvNext]_evVars

-----------------------------------------------------------------------------
(* Properties.                                                             *)

\* Every bundled pack, trajectory and smoke case reaches the outcome it is
\* documented to show (pack_headline against what apply_fault does to
\* pack_baseline), and each pack offers a fault and a contract that the tool
\* server lets a caller select.
HeadlinesHold ==
    /\ \A pack \in DOMAIN AgPacks :
          /\ render_agentic_report(pack)
          /\ \E i \in DOMAIN AgPacks[pack].faults :
                agentic_smoke("fake-http", pack, AgPacks[pack].faults[i].type, "none")
          /\ \E i \in DOMAIN AgPacks[pack].contracts :
                agentic_smoke("fake-mcp", pack, "none", AgPacks[pack].contracts[i].type)
    /\ \A name \in DOMAIN AgTrajectories : run_trajectory_pack_smoke(name)
    /\ run_local_smoke_suite

\* A score is explained by its parts: it is full exactly when every contract
\* that weighs anything passed, it lies between the lowest and the highest of
\* the subscores that cover the outcomes, and a gate it does not reach names a
\* contract that failed, whenever one did (scoring.rs).
SampleOutcomes ==
    UNION {[1..n -> [type : {"max_latency", "retry_budget"}, passed : BOOLEAN, severity : {0, 1, 4}]] :
              n \in 0..2}
Between(scores, overall) ==
    scores # {} => /\ \E a \in scores : AtMost(a, overall)
                   /\ \E a \in scores : AtMost(overall, a)
ScoresExplained ==
    LET Full(s) == s.passed = s.total
        AllPassed(os) == \A i \in DOMAIN os : os[i].severity > 0 => os[i].passed
    IN  /\ \A os \in SampleOutcomes, bound \in 0..5 :
             LET score == score_matrix(os)
                 gate == evaluate_score_gate(score, os, [passed |-> bound, total |-> 4])
             IN  /\ Full(score.overall) <=> AllPassed(os)
                 /\ Between({score.subscores[d] : d \in DOMAIN score.subscores}, score.overall)
                 /\ gate = "unknown" => \A i \in DOMAIN os : os[i].passed
                 /\ gate \notin {"ok", "unknown"} =>
                       \E i \in DOMAIN os : os[i].type = gate /\ ~os[i].passed
        /\ \A name \in DOMAIN AgTrajectories :
             LET steps == StepOutcomes(AgTrajectories[name])
                 top == TrajectoryOutcomes(AgTrajectories[name])
                 score == agentic_score(steps, top)
             IN  /\ Full(score.overall) <=> AllPassed(steps \o top)
                 /\ Between({score.subscores[d] : d \in DOMAIN score.subscores}, score.overall)

\* The tables hold one evaluation of a run: its rows come from one command,
\* nothing is stored twice, the verdict on a replay is stored after all of its
\* outcomes, and unless an ingest was cut short the rows are complete.  A
\* fixture that was refused leaves neither rows nor a journal
\* (ingest_agentic_run, render_agentic_report).
RowsOfOneEvaluation ==
    /\ \A r, s \in evRows : r.run = s.run => r.by = s.by
    /\ \A r \in evRows : LET in == evCmd[r.by].input
                             stored == {s.row : s \in {x \in evRows : x.by = r.by}}
                         IN  /\ in.kind = "replay" => \A i \in DOMAIN in.steps : in.steps[i] # "blank"
                             /\ EvRow("run", 1) \in stored
                             /\ r.row.table = "replay" => stored = Range(Inserts(in))
                             /\ r.by \in evCut \cup {evHolder} \/ stored = Range(Inserts(in))
    /\ \A c \in EvCommands : evCmd[c].ingested =>
          {r.row : r \in {x \in evRows : x.by = c}} = Range(Inserts(evCmd[c].input))
    /\ \A e \in evFile : e.of.kind = "replay" => \A i \in DOMAIN e.of.steps : e.of.steps[i] # "blank"

\* The agent and the command never wait for each other's full pipes, and what
\* is judged is all that an agent said that ended well (CommandAgentRunner::run).
LiveRunSound ==
    /\ ~(evLive.agent = "alive" /\ evLive.in = EvPipe /\ evLive.out = EvPipe /\ evLive.fed < EvTalk
           /\ ~ParentReads)
    /\ evLive.parent = "judged" => evLive.agent = "exit_ok" /\ evLive.read = evLive.said

\* The rate and the score of every evaluation in the journal agree on whether
\* everything passed (metadata_evidence_from_result,
\* metadata_evidence_from_trajectory).
JournalAgrees ==
    \A e \in evFile : e.rate.passed = e.rate.total <=> e.score.passed = e.score.total

\* What an evaluation says of a pack, a trajectory or a fixture is right: the
\* smoke runs, the scores and the journal's figures (scoring.rs, smoke.rs).
EvaluationsSound == HeadlinesHold /\ ScoresExplained /\ JournalAgrees

\* What runs does as it is judged: the injected faults reach the bodies and the
\* verdicts, the analytics rows are of one evaluation, and a live agent is heard
\* to its end (proxy/, trajectory.rs, orchestrator.rs, live.rs).
AgentsSound == AgFaultsSeen /\ RowsOfOneEvaluation /\ LiveRunSound
=============================================================================
