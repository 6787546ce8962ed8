------------------------------ MODULE Agentic ------------------------------
(***************************************************************************)
(* Faults in the traffic of AI agents (tumult-agentic).  A scenario pack   *)
(* is a list of faults and a list of contracts.  Two executors take it:    *)
(* the offline engine (engine.rs) applies the faults in order to a         *)
(* baseline response, and the live proxy (proxy/) sorts them into delays,  *)
(* short circuits and body mutations around a forwarded request.  A        *)
(* trajectory (trajectory.rs) is a sequence of model and tool calls with   *)
(* faults at single steps.                                                 *)
(***************************************************************************)
EXTENDS Naturals, Sequences, FiniteSets, SequencesExt

CONSTANT AgRequests  \* requests of the agent's client to the proxy

VARIABLES
    agPack,     \* the proxy's scenario pack
    agReq,      \* each request: where its handler is, its body, its latency
    agUpstream, \* requests the upstream has received
    agLines,    \* the lines of the proxy's journal
    agCount,    \* ProxyState::counter
    agTraj,     \* the trajectory pack being executed
    agFired,    \* the step faults the seeded gate lets through
    agSteps,    \* step outcomes so far
    agDocs      \* carried_docs: the retrieval context so far

agVars == <<agPack, agReq, agUpstream, agLines, agCount, agTraj, agFired, agSteps, agDocs>>
agProxyVars == <<agPack, agReq, agUpstream, agLines, agCount>>
agTrajVars == <<agTraj, agFired, agSteps, agDocs>>

-----------------------------------------------------------------------------
(* Responses, faults and contracts.  A body is known by what the contracts *)
(* ask of it: does it parse, does it cite a source.                        *)

AgBodies == {"cited", "plain", "text", "error", "malformed", "poisoned", "ungrounded"}
ValidJson(body) == body \notin {"text", "malformed"}
Cited(body) == body = "cited"

Response(body) ==
    [body |-> body, latency |-> 50, retries |-> 0, calls |-> 0, in |-> 16, out |-> 16,
     fallback |-> FALSE, tool |-> "none", docs |-> {}]

AgFault(type, arg) == [type |-> type, arg |-> arg]
Saturating(a, b) == IF a > b THEN a - b ELSE 0

\* apply_fault.
ApplyFault(r, f) ==
    CASE f.type \in {"model_latency", "tool_latency"} -> [r EXCEPT !.latency = @ + f.arg]
      [] f.type = "model_timeout" -> [r EXCEPT !.latency = @ + f.arg, !.body = "error"]
      [] f.type \in {"provider_error", "tool_failure"} -> [r EXCEPT !.body = "error"]
      [] f.type = "rate_limit" -> [r EXCEPT !.retries = @ + 1, !.latency = @ + f.arg]
      [] f.type \in {"malformed_output", "output_truncation"} -> [r EXCEPT !.body = "malformed"]
      [] f.type = "hallucinated_tool_call" -> [r EXCEPT !.tool = "unknown", !.calls = @ + 1]
      [] f.type = "retrieval_poisoning" ->
            [r EXCEPT !.docs = @ \cup {"poisoned"}, !.body = "poisoned"]
      [] f.type \in {"context_truncation", "token_budget_exhaustion"} ->
            [r EXCEPT !.out = IF r.in + r.out > f.arg THEN Saturating(f.arg, r.in) ELSE @]
      [] f.type = "retry_loop_pressure" -> [r EXCEPT !.retries = f.arg]

\* evaluate_contract; severities in quarters.
AgContract(type, arg, severity) == [type |-> type, arg |-> arg, severity |-> severity]
Holds(c, r) ==
    CASE c.type = "valid_json" -> ValidJson(r.body)
      [] c.type = "max_latency" -> r.latency <= c.arg
      [] c.type = "retry_budget" -> r.retries <= c.arg
      [] c.type = "max_tool_calls" -> r.calls <= c.arg
      [] c.type = "max_token_usage" -> r.in + r.out <= c.arg
      [] c.type = "fallback_used" -> r.fallback
      [] c.type = "required_citation" -> Cited(r.body)
      [] c.type \in {"graceful_error", "no_pii", "no_secret_leakage"} -> TRUE
AgVerdicts(cs, r) == [i \in DOMAIN cs |-> Holds(cs[i], r)]

\* bundled_packs.
AgPacks ==
    [ storm |-> [faults |-> <<AgFault("rate_limit", 250), AgFault("retry_loop_pressure", 5)>>,
                 contracts |-> <<AgContract("max_latency", 2000, 3), AgContract("retry_budget", 2, 4),
                                 AgContract("graceful_error", 0, 2)>>],
      hallucination |-> [faults |-> <<AgFault("model_timeout", 1500), AgFault("hallucinated_tool_call", 0)>>,
                 contracts |-> <<AgContract("max_tool_calls", 1, 4), AgContract("graceful_error", 0, 4),
                                 AgContract("fallback_used", 0, 3)>>],
      cost |-> [faults |-> <<AgFault("token_budget_exhaustion", 256), AgFault("retry_loop_pressure", 4)>>,
                 contracts |-> <<AgContract("max_token_usage", 512, 4), AgContract("retry_budget", 2, 3)>>],
      malformed |-> [faults |-> <<AgFault("malformed_output", 0)>>,
                 contracts |-> <<AgContract("valid_json", 0, 4), AgContract("graceful_error", 0, 2)>>],
      fallback |-> [faults |-> <<AgFault("tool_latency", 1000), AgFault("tool_failure", 0)>>,
                 contracts |-> <<AgContract("fallback_used", 0, 4), AgContract("max_latency", 2000, 2)>>],
      poisoning |-> [faults |-> <<AgFault("retrieval_poisoning", 2)>>,
                 contracts |-> <<AgContract("required_citation", 0, 3), AgContract("no_pii", 0, 4),
                                 AgContract("no_secret_leakage", 0, 4)>>] ]

\* execute: every fault of a bundled pack has probability one.
AgEngine(pack, baseline) == FoldLeft(ApplyFault, baseline, pack.faults)

-----------------------------------------------------------------------------
(* The proxy.                                                              *)

Delays == {"model_latency", "tool_latency"}
ShortCircuits == {"rate_limit", "provider_error", "model_timeout"}
\* Mutant: a tool failure is not sorted anywhere.
BodyFaults_NoTool == {"malformed_output", "output_truncation", "retrieval_poisoning"}

BodyFaults == {"malformed_output", "output_truncation", "tool_failure", "retrieval_poisoning"}

AgDelay(pack) == FoldLeft(LAMBDA d, f : IF f.type \in Delays THEN d + f.arg ELSE d, 0, pack.faults)
AgShort(pack) == \E i \in DOMAIN pack.faults : pack.faults[i].type \in ShortCircuits
MutateBody(pack, body) ==
    FoldLeft(LAMBDA r, f : IF f.type \in BodyFaults THEN ApplyFault(r, f) ELSE r,
             Response(body), pack.faults).body

\* record: the journal sees the body and the latency, and zero of the rest.
AgObserved(body, latency) == [Response(body) EXCEPT !.latency = latency, !.in = 0, !.out = 0]

\* The faults drawn for a request: every fault of a bundled pack has probability
\* one, and it is in the list whatever classify makes of it.
AgApplied(pack) == [i \in DOMAIN pack.faults |-> pack.faults[i].type]

\* Mutant: what is done to the body afterwards is not in the list.
AgApplied_BeforeForward(pack) ==
    [i \in DOMAIN pack.faults |-> IF pack.faults[i].type \in BodyFaults THEN "none"
                                  ELSE pack.faults[i].type]

\* Mutant: the journal's verdicts are on what the upstream sent.
AgLine_Unmutated(q, up, body, latency) ==
    LET pack == AgPacks[agPack]
        seen == IF up = "none" THEN body ELSE up
    IN  [req |-> q, faults |-> AgApplied(pack), latency |-> latency,
         verdicts |-> AgVerdicts(pack.contracts, AgObserved(seen, latency))]
AgLine(q, up, body, latency) ==
    LET pack == AgPacks[agPack]
    IN  [req |-> q, faults |-> AgApplied(pack), latency |-> latency,
         verdicts |-> AgVerdicts(pack.contracts, AgObserved(body, latency))]

\* The answer, and before it the line.  append_journal_line passes over a file
\* that cannot be opened or written: the answer goes out without its line.
AgRecord(q, up, body, latency) ==
    \/ /\ agLines' = Append(agLines, AgLine(q, up, body, latency))
       /\ agReq' = [agReq EXCEPT ![q] = [pc |-> "answered", up |-> up, body |-> body]]
    \/ /\ agReq' = [agReq EXCEPT ![q] = [pc |-> "unrecorded", up |-> up, body |-> body]]
       /\ UNCHANGED agLines

AgGo(q, pc, body) == agReq' = [agReq EXCEPT ![q].pc = pc, ![q].body = body]

\* handle: the body is read, the faults are drawn, the delays are slept.
AgReceive(q) ==
    /\ agReq[q].pc = "new"
    /\ \/ AgGo(q, "too_large", "error") /\ UNCHANGED agCount
       \/ agCount' = agCount + 1 /\ AgGo(q, "drawn", "none")
    /\ UNCHANGED <<agPack, agUpstream, agLines, agTrajVars>>

AgShortCircuit(q) ==
    /\ agReq[q].pc = "drawn" /\ AgShort(AgPacks[agPack])
    /\ AgRecord(q, "none", "error", AgDelay(AgPacks[agPack]))
    /\ UNCHANGED <<agPack, agUpstream, agCount, agTrajVars>>

AgForward(q) ==
    /\ agReq[q].pc = "drawn" /\ ~AgShort(AgPacks[agPack])
    /\ agUpstream' = agUpstream \cup {q} /\ AgGo(q, "forwarded", "none")
    /\ UNCHANGED <<agPack, agLines, agCount, agTrajVars>>

\* The upstream's answer, mutated.
AgUpstreamAnswers(q) ==
    /\ agReq[q].pc = "forwarded"
    /\ \E up \in {"cited", "plain", "text"}, wait \in {0, 1500} :
         AgRecord(q, up, MutateBody(AgPacks[agPack], up), AgDelay(AgPacks[agPack]) + wait)
    /\ UNCHANGED <<agPack, agUpstream, agCount, agTrajVars>>

\* An unreachable one is a 502, whose line still lists the body faults.
AgUnreachable(q) ==
    /\ agReq[q].pc = "forwarded"
    /\ AgRecord(q, "none", "error", AgDelay(AgPacks[agPack]))
    /\ UNCHANGED <<agPack, agUpstream, agCount, agTrajVars>>

\* The client hangs up: its handler is dropped where it awaits.
AgHangUp(q) ==
    /\ agReq[q].pc \in {"drawn", "forwarded"} /\ AgGo(q, "dropped", "none")
    /\ UNCHANGED <<agPack, agUpstream, agLines, agCount, agTrajVars>>

-----------------------------------------------------------------------------
(* Trajectories.                                                           *)

AgStep(label, consumes, body, contracts) ==
    [label |-> label, consumes |-> consumes, contracts |-> contracts,
     base |-> [Response(body) EXCEPT !.latency = 40, !.calls = 1]]
Json == AgContract("valid_json", 0, 2)
Falls == AgContract("fallback_used", 0, 4)

\* bundled_trajectory_packs; a step fault is its step and the fault.
StepFault(i, fault) == [at |-> i, fault |-> fault]
rag_grounding_failure_pack ==
    [steps |-> <<AgStep("retrieve", FALSE, "cited", <<Json>>),
                 AgStep("plan", FALSE, "plain", <<Json>>),
                 AgStep("answer", TRUE, "cited", <<AgContract("required_citation", 0, 4), Json>>)>>,
     faults |-> <<StepFault(1, AgFault("retrieval_poisoning", 2))>>,
     contracts |-> <<AgContract("terminates_healthy", 0, 4), AgContract("no_repeated_step", 0, 2),
                     AgContract("step_budget", 4, 2)>>]
reflection_loop_pack ==
    [steps |-> <<AgStep("plan", FALSE, "plain", <<AgContract("retry_budget", 2, 4)>>),
                 AgStep("reflect", FALSE, "plain", <<Json>>),
                 AgStep("reflect", FALSE, "plain", <<Json>>),
                 AgStep("reflect", FALSE, "plain", <<Json>>)>>,
     faults |-> <<StepFault(1, AgFault("retry_loop_pressure", 5))>>,
     contracts |-> <<AgContract("no_repeated_step", 0, 4), AgContract("step_budget", 3, 4),
                     AgContract("terminates_healthy", 0, 2)>>]
multi_tool_cascade_pack ==
    [steps |-> <<AgStep("search", FALSE, "cited", <<Json>>),
                 AgStep("lookup", FALSE, "plain", <<Falls>>),
                 [AgStep("synthesize", FALSE, "cited", <<Falls, AgContract("required_citation", 0, 3)>>)
                    EXCEPT !.base.fallback = TRUE]>>,
     faults |-> <<StepFault(2, AgFault("tool_failure", 0))>>,
     contracts |-> <<AgContract("recovers_within", 2, 4), AgContract("terminates_healthy", 0, 4),
                     AgContract("no_repeated_step", 0, 2)>>]
AgTrajectories ==
    [rag |-> rag_grounding_failure_pack, reflection |-> reflection_loop_pack,
     cascade |-> multi_tool_cascade_pack]

\* One turn of execute_trajectory's loop, from the steps and the documents so
\* far: the step's faults, the documents it adds, and the context it consumes.
TrajectoryTurn(pack, fired, run, i) ==
    LET step == pack.steps[i]
        r == FoldLeft(LAMBDA x, sf : IF sf.at = i /\ sf \in fired THEN ApplyFault(x, sf.fault) ELSE x,
                      step.base, pack.faults)
        docs == run.docs \cup r.docs
        seen == IF step.consumes /\ "poisoned" \in docs THEN [r EXCEPT !.body = "ungrounded"] ELSE r
    IN  [docs |-> docs,
         steps |-> Append(run.steps,
              [healthy |-> \A c \in DOMAIN step.contracts : Holds(step.contracts[c], seen),
               verdicts |-> AgVerdicts(step.contracts, seen),
               signature |-> <<step.label, seen.tool, seen.body>>])]

AgTakeStep ==
    LET i == Len(agSteps) + 1
        turn == TrajectoryTurn(AgTrajectories[agTraj], agFired, [steps |-> agSteps, docs |-> agDocs], i)
    IN  /\ i <= Len(AgTrajectories[agTraj].steps)
        /\ agDocs' = turn.docs /\ agSteps' = turn.steps
        /\ UNCHANGED <<agProxyVars, agTraj, agFired>>

\* evaluate_trajectory_contract: recovery is from the first unhealthy step only.
TrajectoryHolds(c, steps) ==
    LET Bad == {i \in DOMAIN steps : ~steps[i].healthy}
        FirstBad == CHOOSE i \in Bad : \A j \in Bad : i <= j
    IN  CASE c.type = "terminates_healthy" -> steps # <<>> /\ steps[Len(steps)].healthy
          [] c.type = "recovers_within" ->
                Bad = {} \/ \E i \in DOMAIN steps \ Bad : FirstBad < i /\ i <= FirstBad + c.arg
          [] c.type = "no_repeated_step" ->
                \A i, j \in DOMAIN steps : steps[i].signature = steps[j].signature => i = j
          [] c.type = "step_budget" -> Len(steps) <= c.arg
TrajectoryVerdicts(pack, steps) ==
    [i \in DOMAIN pack.contracts |-> TrajectoryHolds(pack.contracts[i], steps)]

-----------------------------------------------------------------------------

AgInit ==
    /\ agPack \in DOMAIN AgPacks
    /\ agReq = [q \in AgRequests |-> [pc |-> "new", up |-> "none", body |-> "none"]]
    /\ agUpstream = {} /\ agLines = <<>> /\ agCount = 0
    /\ agTraj \in DOMAIN AgTrajectories
    /\ agFired \in SUBSET Range(AgTrajectories[agTraj].faults)
    /\ agSteps = <<>> /\ agDocs = {}

AgNext ==
    \/ \E q \in AgRequests :
          \/ AgReceive(q) \/ AgShortCircuit(q) \/ AgForward(q) \/ AgUpstreamAnswers(q)
          \/ AgUnreachable(q) \/ AgHangUp(q)
    \/ AgTakeStep

AgSpec == AgInit /\ [][AgNext]_agVars

AgTypeOK ==
    /\ agReq \in [AgRequests -> [pc : {"new", "too_large", "drawn", "forwarded", "answered",
                                       "unrecorded", "dropped"},
                                 up : AgBodies \cup {"none"}, body : AgBodies \cup {"none"}]]
    /\ agCount \in Nat /\ agDocs \subseteq {"poisoned"}

-----------------------------------------------------------------------------
(* Properties.                                                             *)

\* A request answered through the upstream carries exactly the contamination
\* the offline engine gives the same body (mutate_body reuses apply_fault), and
\* a request the pack short-circuits never reaches the upstream.  A journal
\* line belongs to one request that was answered, and no request has two; it
\* judges the body that this request's agent received; and when the upstream
\* answered, it lists a fault of the body exactly when that body was changed.
\* An answer without a line is one whose append failed.
\* In a trajectory the poison spreads: once a step's retrieval was poisoned, a
\* later step that consumes retrieval and must cite is unhealthy, whatever lies
\* between them, and no trajectory that ends with it passes terminates_healthy
\* (execute_trajectory).
AgFaultsSeen ==
    /\ \A q \in AgRequests : agReq[q].up # "none" =>
          agReq[q].body = AgEngine(AgPacks[agPack], Response(agReq[q].up)).body
    /\ AgShort(AgPacks[agPack]) => agUpstream = {}
    /\ \A i \in DOMAIN agLines :
          LET line == agLines[i]
          IN  /\ agReq[line.req].pc = "answered"
              /\ \A j \in DOMAIN agLines : agLines[j].req = line.req => i = j
              /\ line.verdicts = AgVerdicts(AgPacks[agPack].contracts,
                                            AgObserved(agReq[line.req].body, line.latency))
              /\ agReq[line.req].up # "none" =>
                    (agReq[line.req].body # agReq[line.req].up
                       <=> \E k \in DOMAIN line.faults : line.faults[k] \in BodyFaults)
    /\ \A q \in AgRequests : agReq[q].pc = "answered" =>
          \E i \in DOMAIN agLines : agLines[i].req = q
    /\ \A sf \in agFired : sf.fault.type = "retrieval_poisoning" =>
          \A i \in sf.at..Len(agSteps) : AgTrajectories[agTraj].steps[i].consumes =>
              /\ ~agSteps[i].healthy
              /\ i = Len(agSteps) =>
                    \A c \in DOMAIN AgTrajectories[agTraj].contracts :
                        AgTrajectories[agTraj].contracts[c].type = "terminates_healthy" =>
                            ~TrajectoryVerdicts(AgTrajectories[agTraj], agSteps)[c]

\* The engine, which the module's comment says the live proxy funnels through,
\* and the proxy give a contract of the pack the same verdict.
ProxyJudgesAsEngine ==
    \A i \in DOMAIN agLines :
        agLines[i].verdicts \in {AgVerdicts(AgPacks[agPack].contracts, AgEngine(AgPacks[agPack], Response(b))) :
                            b \in {"cited", "plain", "text"}}
=============================================================================
