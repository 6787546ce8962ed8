------------------------------ MODULE RunQueue ------------------------------
(***************************************************************************)
(* The daemon's run queue (tumult-ingest/src/runs) over the run and        *)
(* approval rows of the lake (tumult-lake/src/{runs,approvals}.rs), driven *)
(* by the HTTP handlers of tumult-api/src/{approvals,runs/control}.rs.     *)
(*                                                                         *)
(* Every row change is a closure on the single-writer channel: closures    *)
(* run one after the other, and all but the completion of a run are one    *)
(* atomic step.  The completion looks at the token, ingests the journal    *)
(* and writes the row in three steps, because a stop cancels the token off *)
(* the writer.  Everything a handler or a worker does between two closures *)
(* interleaves with every other actor.  The daemon may crash and restart   *)
(* between any two steps: rows and injected faults survive, the channel,   *)
(* the permits, the tokens and every task are lost.                        *)
(***************************************************************************)
EXTENDS Naturals, Sequences, FiniteSets

CONSTANTS
    Runs,          \* run ids (one uuid each, never reused)
    Gated,         \* the runs classified T1-T3: they need an approval
    Workers,       \* the worker pool (TUMULTD_RUN_CONCURRENCY)
    Handlers,      \* concurrent HTTP requests
    Users,         \* identities that may decide on an approval request
    Requester,     \* approval_requests.requested_by
    None,          \* no run, no user
    QueueDepth,    \* TUMULTD_RUN_QUEUE_DEPTH
    Quorum,        \* quorum_required of a gated run
    MaxCrashes,    \* bound on daemon crashes
    StoreMayFail,  \* whether a writer closure may fail
    Disconnects,   \* whether a client may disconnect, dropping its handler
    Watched        \* the runs whose acknowledged stops the history remembers

ASSUME GatedAssumption == Gated \subseteq Runs
ASSUME NoneAssumption == None \notin Runs /\ None \notin Users
ASSUME DepthAssumption == QueueDepth \in Nat \ {0}
ASSUME QuorumAssumption == Quorum \in Nat \ {0}
ASSUME UsersAssumption == IsFiniteSet(Users) /\ Requester \in Users
ASSUME CrashAssumption == MaxCrashes \in Nat
ASSUME SwitchAssumption == StoreMayFail \in BOOLEAN /\ Disconnects \in BOOLEAN

VARIABLES
    state,       \* runs.state; "absent" before the row is inserted
    started,     \* runs.started_at_ns is set (with it, the recovery plan)
    rollback,    \* runs.rollback_status
    decisions,   \* approval_decisions: run -> approver -> decision
    breakGlass,  \* approval_requests.break_glass
    consumed,    \* approval_requests.consumed_at_ns is set
    lapsed,      \* the clock is past approval_requests.expires_at_ns
    draft,       \* the break-glass retrospective draft exists
    journal,     \* what the ingested journal says of rollbacks
    fault,       \* the run's fault is live in the target system
    permits,     \* free permits of the waiting semaphore
    channel,     \* the mpsc channel of work items
    token,       \* Shared.tokens: the registered cancellation token
    wpc, wrun,   \* each worker's place in process() and its run
    wstatus,     \* the status of the journal the worker holds
    wrb,         \* the rollback results of that journal
    hpc, hrun,   \* each handler's next step and its run
    hwho,        \* the approver behind an approve request
    up,          \* FALSE while the daemon reconciles at startup
    todo,        \* active_runs() read by reconcile_orphans, still to do
    recon,       \* the orphan in hand: its run, next step and outcome
    crashes,     \* crashes so far
    stopAck      \* history: what the acknowledged stops of the run met

rowVars == <<state, started, rollback>>
approvalVars == <<decisions, breakGlass, consumed, lapsed, draft>>
queueVars == <<permits, channel>>
workerVars == <<wpc, wrun, wstatus, wrb>>
handlerVars == <<hpc, hrun, hwho>>
bootVars == <<up, todo, recon, crashes>>

vars == <<rowVars, approvalVars, journal, fault, queueVars, token,
          workerVars, handlerVars, bootVars, stopAck>>

-----------------------------------------------------------------------------
(* run_state and rollback_status *)

ACTIVE == {"queued", "validating", "running", "stopping", "orphaned",
           "rollback_pending"}

TERMINAL == {"passed", "deviated", "failed", "aborted", "rejected", "expired"}

RunState == ACTIVE \cup TERMINAL \cup {"pending_approval"}

RollbackStatus == {"null", "not_needed", "completed", "failed"}

Decision == {"none", "approved", "rejected"}

\* ExperimentStatus, as far as terminal_state tells its values apart.
Status == {"Completed", "Deviated", "Failed", "Aborted", "Halted",
           "Interrupted"}

\* Journal.rollback_results: none ran, all succeeded, some failed.
RollbackResults == {"none", "ok", "failed"}

TokenState == {"none", "live", "cancelled"}

\* No stop was acknowledged; some were, one of them met a cancelled token; none
\* of them did.
StopAck == {"none", "heard", "missed"}

WorkerPC == {"idle", "verify", "refuse", "claim", "validate", "begin", "fail",
             "run", "judged", "record", "ingest", "finish", "unrecorded"}

HandlerPC == {"idle", "insert", "send", "expire", "decide", "draft",
              "dispatch", "requeue", "stop"}

ReconPC == {"idle", "rollback", "finish"}

OrphanOutcome == {"none", "NothingExecuted", "RolledBack", "RollbackFailed"}

\* The steps at which a handler owns a permit of the waiting semaphore.
HoldsPermit == {"insert", "requeue", "send"}

\* The steps of the closure that records a completion, once it has begun.
OnWriter == {"ingest", "finish"}

\* Mutant: a status without a run state of its own.
terminal_state_Unmapped(s) ==
    CASE s = "Completed" -> "passed"
      [] s = "Deviated" -> "deviated"
      [] s = "Failed" -> "failed"
      [] s = "Halted" -> "halted"
      [] OTHER -> "aborted"

terminal_state(s) ==
    CASE s = "Completed" -> "passed"
      [] s = "Deviated" -> "deviated"
      [] s = "Failed" -> "failed"
      [] OTHER -> "aborted"

\* The writer runs one closure after the other: none begins before the one that
\* records a completion has ended.
WriterFree == \A w \in Workers : wpc[w] \notin OnWriter

\* A closure whose WHERE clause is p has no effect when p fails, and may have
\* none when the store errs.
NoEffect(p) == StoreMayFail \/ ~p

TypeOK ==
    /\ state \in [Runs -> RunState \cup {"absent"}]
    /\ started \in [Runs -> BOOLEAN]
    /\ rollback \in [Runs -> RollbackStatus]
    /\ decisions \in [Runs -> [Users -> Decision]]
    /\ breakGlass \in [Runs -> BOOLEAN]
    /\ consumed \in [Runs -> BOOLEAN]
    /\ lapsed \in [Runs -> BOOLEAN]
    /\ draft \in [Runs -> BOOLEAN]
    /\ journal \in [Runs -> RollbackResults \cup {"absent"}]
    /\ fault \in [Runs -> BOOLEAN]
    /\ permits \in Nat
    /\ channel \in Seq(Runs)
    /\ token \in [Runs -> TokenState]
    /\ wpc \in [Workers -> WorkerPC]
    /\ wrun \in [Workers -> Runs \cup {None}]
    /\ wstatus \in [Workers -> Status \cup {"none"}]
    /\ wrb \in [Workers -> RollbackResults]
    /\ hpc \in [Handlers -> HandlerPC]
    /\ hrun \in [Handlers -> Runs \cup {None}]
    /\ hwho \in [Handlers -> Users \cup {None}]
    /\ up \in BOOLEAN
    /\ todo \subseteq Runs
    /\ recon \in [run : Runs \cup {None}, pc : ReconPC, outcome : OrphanOutcome]
    /\ crashes \in Nat
    /\ stopAck \in [Runs -> StopAck]

NotReconciling == [run |-> None, pc |-> "idle", outcome |-> "none"]

Init ==
    /\ state = [r \in Runs |-> "absent"]
    /\ started = [r \in Runs |-> FALSE]
    /\ rollback = [r \in Runs |-> "null"]
    /\ decisions = [r \in Runs |-> [u \in Users |-> "none"]]
    /\ breakGlass = [r \in Runs |-> FALSE]
    /\ consumed = [r \in Runs |-> FALSE]
    /\ lapsed = [r \in Runs |-> FALSE]
    /\ draft = [r \in Runs |-> FALSE]
    /\ journal = [r \in Runs |-> "absent"]
    /\ fault = [r \in Runs |-> FALSE]
    /\ permits = QueueDepth
    /\ channel = <<>>
    /\ token = [r \in Runs |-> "none"]
    /\ wpc = [w \in Workers |-> "idle"]
    /\ wrun = [w \in Workers |-> None]
    /\ wstatus = [w \in Workers |-> "none"]
    /\ wrb = [w \in Workers |-> "none"]
    /\ hpc = [h \in Handlers |-> "idle"]
    /\ hrun = [h \in Handlers |-> None]
    /\ hwho = [h \in Handlers |-> None]
    /\ up = TRUE
    /\ todo = {}
    /\ recon = NotReconciling
    /\ crashes = 0
    /\ stopAck = [r \in Runs |-> "none"]

-----------------------------------------------------------------------------
(***************************************************************************)
(* Writer operations: each is the guarded UPDATE of one closure.           *)
(***************************************************************************)

\* The WHERE clause of request_run_stop.
Stoppable == {"queued", "validating", "running", "stopping",
              "pending_approval"}

\* request_run_stop: a run that never started aborts, a started one keeps
\* its cleanup responsibility in `stopping'.
request_run_stop(r) ==
    /\ state' = [state EXCEPT ![r] = IF started[r] THEN "stopping"
                                                   ELSE "aborted"]
    /\ rollback' = [rollback EXCEPT ![r] = IF started[r] THEN @
                                                         ELSE "not_needed"]
    /\ UNCHANGED started

\* Mutant: a started run fails terminally and loses its cleanup.
fail_run_Terminal(r) ==
    /\ state' = [state EXCEPT ![r] =
                   IF @ \in {"queued", "validating", "running", "stopping"}
                   THEN "failed" ELSE @]
    /\ UNCHANGED <<started, rollback>>

\* Mutant: `stopping' is missing from the WHERE clause.
fail_run_NotStopping(r) ==
    /\ state' = [state EXCEPT ![r] =
                   IF @ \notin {"queued", "validating", "running"}
                   THEN @
                   ELSE IF started[r] THEN "rollback_pending" ELSE "failed"]
    /\ UNCHANGED <<started, rollback>>

\* fail_run: no effect on a row that is no longer in its WHERE clause.
fail_run(r) ==
    /\ state' = [state EXCEPT ![r] =
                   IF @ \notin {"queued", "validating", "running", "stopping"}
                   THEN @
                   ELSE IF started[r] THEN "rollback_pending" ELSE "failed"]
    /\ UNCHANGED <<started, rollback>>

\* finish_run: only `rejected' and `expired' require a pending row.
finish_run(r, s, rb) ==
    /\ state' = [state EXCEPT ![r] = s]
    /\ rollback' = [rollback EXCEPT ![r] = rb]
    /\ UNCHANGED started

\* The approval predicate of begin_run_execution and of verify_approval.
ApprovalUsable(r) ==
    r \in Gated => ~consumed[r] /\ (breakGlass[r] \/ ~lapsed[r])

ApprovedBy(dec) == {u \in Users : dec[u] = "approved"}

\* What dispatch_approved requires of the approval it re-reads.
DispatchCleared(r) ==
    /\ ~consumed[r]
    /\ \/ breakGlass[r]
       \/ /\ \A u \in Users : decisions[r][u] # "rejected"
          /\ Cardinality(ApprovedBy(decisions[r])) >= Quorum
          /\ ~lapsed[r]

-----------------------------------------------------------------------------
(***************************************************************************)
(* HTTP handlers.  hpc[h] is the step the handler takes next.              *)
(***************************************************************************)

HandlerGoes(h, pc) ==
    /\ hpc' = [hpc EXCEPT ![h] = pc]
    /\ UNCHANGED <<hrun, hwho>>

HandlerStarts(h, pc, r, u) ==
    /\ up
    /\ hpc[h] = "idle"
    /\ hpc' = [hpc EXCEPT ![h] = pc]
    /\ hrun' = [hrun EXCEPT ![h] = r]
    /\ hwho' = [hwho EXCEPT ![h] = u]

HandlerReturns(h) ==
    /\ hpc' = [hpc EXCEPT ![h] = "idle"]
    /\ hrun' = [hrun EXCEPT ![h] = None]
    /\ hwho' = [hwho EXCEPT ![h] = None]

AcquirePermit ==
    /\ permits > 0
    /\ permits' = permits - 1
    /\ UNCHANGED channel

ReleasePermit ==
    /\ permits' = permits + 1
    /\ UNCHANGED channel

\* enqueue_checked, up to its insert: a permit first, then a fresh run id.
EnqueueAcquire(h, r) ==
    /\ r \notin Gated
    /\ state[r] = "absent"
    /\ \A g \in Handlers : hrun[g] # r
    /\ HandlerStarts(h, "insert", r, None)
    /\ AcquirePermit
    /\ UNCHANGED <<rowVars, approvalVars, journal, fault, token, workerVars,
                   bootVars, stopAck>>

\* Mutant: the permit is forgotten when the insert fails.
EnqueueInsert_Leaks(h) ==
    /\ hpc[h] = "insert"
    /\ WriterFree
    /\ \/ /\ state' = [state EXCEPT ![hrun[h]] = "queued"]
          /\ HandlerGoes(h, "send")
       \/ /\ StoreMayFail
          /\ HandlerReturns(h)
          /\ UNCHANGED state
    /\ UNCHANGED <<started, rollback, approvalVars, journal, fault, queueVars,
                   token, workerVars, bootVars, stopAck>>

\* enqueue_checked: insert_run_with_context; on error the permit drops.
EnqueueInsert(h) ==
    /\ hpc[h] = "insert"
    /\ WriterFree
    /\ \/ /\ state' = [state EXCEPT ![hrun[h]] = "queued"]
          /\ HandlerGoes(h, "send")
          /\ UNCHANGED queueVars
       \/ /\ StoreMayFail
          /\ HandlerReturns(h)
          /\ ReleasePermit
          /\ UNCHANGED state
    /\ UNCHANGED <<started, rollback, approvalVars, journal, fault, token,
                   workerVars, bootVars, stopAck>>

\* The tail of enqueue_checked and of dispatch_approved: tx.send(item); the
\* permit now rides in the item.
SendItem(h) ==
    /\ hpc[h] = "send"
    /\ Len(channel) < QueueDepth
    /\ channel' = Append(channel, hrun[h])
    /\ HandlerReturns(h)
    /\ UNCHANGED <<rowVars, approvalVars, journal, fault, permits, token,
                   workerVars, bootVars, stopAck>>

\* request_gated_checked: the run row and its approval request, one closure.
RequestGated(r) ==
    /\ up
    /\ WriterFree
    /\ r \in Gated
    /\ state[r] = "absent"
    /\ state' = [state EXCEPT ![r] = "pending_approval"]
    /\ UNCHANGED <<started, rollback, approvalVars, journal, fault, queueVars,
                   token, workerVars, handlerVars, bootVars, stopAck>>

\* approve: pending_run and gate_check, read-side.  A gate that does not
\* clear returns without touching the rows.
ApproveRead(h, r, u) ==
    /\ state[r] = "pending_approval"
    /\ HandlerStarts(h, IF lapsed[r] THEN "expire" ELSE "decide", r, u)
    /\ UNCHANGED <<rowVars, approvalVars, journal, fault, queueVars, token,
                   workerVars, bootVars, stopAck>>

\* approve on a lapsed request: finish_run(EXPIRED), refused unless pending.
ApproveExpire(h) ==
    /\ hpc[h] = "expire"
    /\ WriterFree
    /\ \/ /\ state[hrun[h]] = "pending_approval"
          /\ finish_run(hrun[h], "expired", "not_needed")
       \/ /\ NoEffect(state[hrun[h]] = "pending_approval")
          /\ UNCHANGED rowVars
    /\ HandlerReturns(h)
    /\ UNCHANGED <<approvalVars, journal, fault, queueVars, token, workerVars,
                   bootVars, stopAck>>

\* Mutant: the requester may decide on their own request.
DecisionAccepted_Self(r, u) ==
    /\ state[r] = "pending_approval"
    /\ decisions[r][u] = "none"

\* insert_pending_approval_decision: still pending, not the requester, and
\* no decision of this approver yet.
DecisionAccepted(r, u) ==
    /\ state[r] = "pending_approval"
    /\ u # Requester
    /\ decisions[r][u] = "none"

\* approve: record the decision, then go on to dispatch_approved.
ApproveDecide(h) ==
    LET r == hrun[h]
        u == hwho[h]
    IN  /\ hpc[h] = "decide"
        /\ WriterFree
        /\ \/ /\ DecisionAccepted(r, u)
              /\ decisions' = [decisions EXCEPT ![r][u] = "approved"]
              /\ HandlerGoes(h, "dispatch")
           \/ /\ NoEffect(DecisionAccepted(r, u))
              /\ HandlerReturns(h)
              /\ UNCHANGED decisions
        /\ UNCHANGED <<rowVars, breakGlass, consumed, lapsed, draft, journal,
                       fault, queueVars, token, workerVars, bootVars, stopAck>>

\* reject: one closure of two transactions, the decision and finish_run; the
\* second may fail after the first committed.
Reject(r, u) ==
    /\ up
    /\ WriterFree
    /\ DecisionAccepted(r, u)
    /\ decisions' = [decisions EXCEPT ![r][u] = "rejected"]
    /\ \/ finish_run(r, "rejected", "not_needed")
       \/ StoreMayFail /\ UNCHANGED rowVars
    /\ UNCHANGED <<breakGlass, consumed, lapsed, draft, journal, fault,
                   queueVars, token, workerVars, handlerVars, bootVars,
                   stopAck>>

\* break_glass: mark_pending_break_glass while the run is still pending.
BreakGlassMark(h, r) ==
    /\ state[r] = "pending_approval"
    /\ WriterFree
    /\ HandlerStarts(h, "draft", r, None)
    /\ breakGlass' = [breakGlass EXCEPT ![r] = TRUE]
    /\ UNCHANGED <<rowVars, decisions, consumed, lapsed, draft, journal,
                   fault, queueVars, token, workerVars, bootVars, stopAck>>

\* break_glass: create_manual_draft, in a closure of its own, then dispatch.
BreakGlassDraft(h) ==
    /\ hpc[h] = "draft"
    /\ WriterFree
    /\ \/ /\ draft' = [draft EXCEPT ![hrun[h]] = TRUE]
          /\ HandlerGoes(h, "dispatch")
       \/ /\ StoreMayFail
          /\ HandlerReturns(h)
          /\ UNCHANGED draft
    /\ UNCHANGED <<rowVars, decisions, breakGlass, consumed, lapsed, journal,
                   fault, queueVars, token, workerVars, bootVars, stopAck>>

\* dispatch_approved: re-read run and approval, then try for a permit.
DispatchRead(h) ==
    LET cleared == /\ state[hrun[h]] = "pending_approval"
                   /\ DispatchCleared(hrun[h])
                   /\ permits > 0
    IN  /\ hpc[h] = "dispatch"
        /\ \/ cleared /\ AcquirePermit /\ HandlerGoes(h, "requeue")
           \/ ~cleared /\ UNCHANGED queueVars /\ HandlerReturns(h)
        /\ UNCHANGED <<rowVars, approvalVars, journal, fault, token,
                       workerVars, bootVars, stopAck>>

\* Mutant: the requeue does not check that the row is still pending.
DispatchRequeue_Blind(h) ==
    /\ hpc[h] = "requeue"
    /\ WriterFree
    /\ state' = [state EXCEPT ![hrun[h]] = "queued"]
    /\ HandlerGoes(h, "send")
    /\ UNCHANGED <<started, rollback, approvalVars, journal, fault, queueVars,
                   token, workerVars, bootVars, stopAck>>

\* dispatch_approved: set_run_state_with(QUEUED), which only a pending row
\* accepts; on refusal the permit drops.
DispatchRequeue(h) ==
    LET r == hrun[h]
    IN  /\ hpc[h] = "requeue"
        /\ WriterFree
        /\ \/ /\ state[r] = "pending_approval"
              /\ state' = [state EXCEPT ![r] = "queued"]
              /\ HandlerGoes(h, "send")
              /\ UNCHANGED queueVars
           \/ /\ NoEffect(state[r] = "pending_approval")
              /\ HandlerReturns(h)
              /\ ReleasePermit
              /\ UNCHANGED state
        /\ UNCHANGED <<started, rollback, approvalVars, journal, fault, token,
                       workerVars, bootVars, stopAck>>

\* RunQueue::stop: read the state, look the token up and cancel it.  A stop
\* that finds no token cancels nothing.
StopCancel(h, r) ==
    /\ state[r] \notin TERMINAL \cup {"absent"}
    /\ HandlerStarts(h, "stop", r, None)
    /\ token' = [token EXCEPT ![r] = IF @ = "live" THEN "cancelled" ELSE @]
    /\ UNCHANGED <<rowVars, approvalVars, journal, fault, queueVars,
                   workerVars, bootVars, stopAck>>

StopAcknowledged(r) ==
    stopAck' = [stopAck EXCEPT ![r] =
                  CASE r \notin Watched -> "none"
                    [] token[r] = "cancelled" -> "heard"
                    [] OTHER -> IF @ = "heard" THEN "heard" ELSE "missed"]

\* RunQueue::stop: request_run_stop on the writer.
StopWrite(h) ==
    LET r == hrun[h]
    IN  /\ hpc[h] = "stop"
        /\ WriterFree
        /\ \/ /\ state[r] \in Stoppable
              /\ request_run_stop(r)
              /\ StopAcknowledged(r)
           \/ /\ NoEffect(state[r] \in Stoppable)
              /\ UNCHANGED <<rowVars, stopAck>>
        /\ HandlerReturns(h)
        /\ UNCHANGED <<approvalVars, journal, fault, queueVars, token,
                       workerVars, bootVars>>

\* The client goes away: axum drops the handler's future at an await, and a
\* permit the future owns with it.
HandlerDropped(h) ==
    /\ Disconnects
    /\ hpc[h] # "idle"
    /\ IF hpc[h] \in HoldsPermit THEN ReleasePermit ELSE UNCHANGED queueVars
    /\ HandlerReturns(h)
    /\ UNCHANGED <<rowVars, approvalVars, journal, fault, token, workerVars,
                   bootVars, stopAck>>

HandlerStep(h) ==
    \/ EnqueueInsert(h)
    \/ SendItem(h)
    \/ ApproveExpire(h)
    \/ ApproveDecide(h)
    \/ BreakGlassDraft(h)
    \/ DispatchRead(h)
    \/ DispatchRequeue(h)
    \/ StopWrite(h)

Request(h) ==
    \E r \in Runs :
        \/ EnqueueAcquire(h, r)
        \/ \E u \in Users : ApproveRead(h, r, u)
        \/ BreakGlassMark(h, r)
        \/ StopCancel(h, r)

-----------------------------------------------------------------------------
(* Time and the approval sweeper *)

\* The clock passes expires_at_ns of a request.
Lapse(r) ==
    /\ r \in Gated
    /\ state[r] # "absent"
    /\ ~lapsed[r]
    /\ lapsed' = [lapsed EXCEPT ![r] = TRUE]
    /\ UNCHANGED <<rowVars, decisions, breakGlass, consumed, draft, journal,
                   fault, queueVars, token, workerVars, handlerVars, bootVars,
                   stopAck>>

\* Mutant: the sweeper skips overridden requests.
Sweep_SkipsOverridden(r) ==
    /\ up
    /\ WriterFree
    /\ lapsed[r]
    /\ ~breakGlass[r]
    /\ state[r] = "pending_approval"
    /\ finish_run(r, "expired", "not_needed")
    /\ UNCHANGED <<approvalVars, journal, fault, queueVars, token, workerVars,
                   handlerVars, bootVars, stopAck>>

\* sweep_expired_approvals, for one id of its list: finish_run(EXPIRED)
\* re-checks that the row is pending.
Sweep(r) ==
    /\ up
    /\ WriterFree
    /\ lapsed[r]
    /\ state[r] = "pending_approval"
    /\ finish_run(r, "expired", "not_needed")
    /\ UNCHANGED <<approvalVars, journal, fault, queueVars, token, workerVars,
                   handlerVars, bootVars, stopAck>>

-----------------------------------------------------------------------------
(***************************************************************************)
(* Workers: process() from the dequeue to the terminal write.              *)
(***************************************************************************)

WorkerGoes(w, pc) ==
    /\ wpc' = [wpc EXCEPT ![w] = pc]
    /\ UNCHANGED <<wrun, wstatus, wrb>>

\* process() returns: TokenRegistration drops and the token leaves the map.
WorkerLeaves(w) ==
    /\ wpc' = [wpc EXCEPT ![w] = "idle"]
    /\ wrun' = [wrun EXCEPT ![w] = None]
    /\ wstatus' = [wstatus EXCEPT ![w] = "none"]
    /\ wrb' = [wrb EXCEPT ![w] = "none"]
    /\ token' = [token EXCEPT ![wrun[w]] = "none"]

\* Receive an item: its permit is released at once and the token registered
\* before any visible transition.  A run that has a token is refused.
Dequeue(w) ==
    /\ up
    /\ wpc[w] = "idle"
    /\ channel # <<>>
    /\ channel' = Tail(channel)
    /\ permits' = permits + 1
    /\ IF token[Head(channel)] = "none"
       THEN /\ token' = [token EXCEPT ![Head(channel)] = "live"]
            /\ wpc' = [wpc EXCEPT ![w] = "verify"]
            /\ wrun' = [wrun EXCEPT ![w] = Head(channel)]
            /\ UNCHANGED <<wstatus, wrb>>
       ELSE UNCHANGED <<token, workerVars>>
    /\ UNCHANGED <<rowVars, approvalVars, journal, fault, handlerVars,
                   bootVars, stopAck>>

\* The run may have been stopped while it waited; a gated run's approval is
\* re-read and its pin recomputed (a drifted pin is refused).
VerifyApproval(w) ==
    LET r == wrun[w]
    IN  /\ wpc[w] = "verify"
        /\ \/ state[r] # "queued" /\ WorkerLeaves(w)
           \/ /\ state[r] = "queued"
              /\ \/ ApprovalUsable(r) /\ WorkerGoes(w, "claim")
                 \/ r \in Gated /\ WorkerGoes(w, "refuse")
              /\ UNCHANGED token
        /\ UNCHANGED <<rowVars, approvalVars, journal, fault, queueVars,
                       handlerVars, bootVars, stopAck>>

\* record_failure, and the dispatch_refused closure: fail_run, then return.
RecordFailure(w) ==
    /\ wpc[w] \in {"refuse", "fail"}
    /\ WriterFree
    /\ \/ fail_run(wrun[w])
       \/ StoreMayFail /\ UNCHANGED rowVars
    /\ WorkerLeaves(w)
    /\ UNCHANGED <<approvalVars, journal, fault, queueVars, handlerVars,
                   bootVars, stopAck>>

\* Mutant: the claim does not check that the row is still queued.
ClaimRun_Blind(w) ==
    /\ wpc[w] = "claim"
    /\ WriterFree
    /\ state' = [state EXCEPT ![wrun[w]] = "validating"]
    /\ WorkerGoes(w, "validate")
    /\ UNCHANGED <<started, rollback, approvalVars, journal, fault, queueVars,
                   token, handlerVars, bootVars, stopAck>>

\* claim_run: queued -> validating, or give the item up.
ClaimRun(w) ==
    LET r == wrun[w]
    IN  /\ wpc[w] = "claim"
        /\ WriterFree
        /\ \/ /\ state[r] = "queued"
              /\ state' = [state EXCEPT ![r] = "validating"]
              /\ WorkerGoes(w, "validate")
              /\ UNCHANGED token
           \/ /\ NoEffect(state[r] = "queued")
              /\ WorkerLeaves(w)
              /\ UNCHANGED state
        /\ UNCHANGED <<started, rollback, approvalVars, journal, fault,
                       queueVars, handlerVars, bootVars, stopAck>>

\* Capture and prepare the recovery plan, validate_dispatch_context (any of
\* them may refuse), and look at the token once more.
ValidateDispatch(w) ==
    /\ wpc[w] = "validate"
    /\ \/ WorkerGoes(w, "fail") /\ UNCHANGED token
       \/ token[wrun[w]] = "cancelled" /\ WorkerLeaves(w)
       \/ token[wrun[w]] = "live" /\ WorkerGoes(w, "begin") /\ UNCHANGED token
    /\ UNCHANGED <<rowVars, approvalVars, journal, fault, queueVars,
                   handlerVars, bootVars, stopAck>>

\* Mutant: the transaction does not check that the row is still validating.
BeginRunExecution_Blind(w) ==
    LET r == wrun[w]
    IN  /\ wpc[w] = "begin"
        /\ WriterFree
        /\ ApprovalUsable(r)
        /\ state' = [state EXCEPT ![r] = "running"]
        /\ started' = [started EXCEPT ![r] = TRUE]
        /\ consumed' = [consumed EXCEPT ![r] = r \in Gated]
        /\ WorkerGoes(w, "run")
        /\ UNCHANGED <<rollback, decisions, breakGlass, lapsed, draft,
                       journal, fault, queueVars, token, handlerVars,
                       bootVars, stopAck>>

\* begin_run_execution: start stamp, consumption of the approval and the
\* recovery plan commit together or not at all.
BeginRunExecution(w) ==
    LET r == wrun[w]
    IN  /\ wpc[w] = "begin"
        /\ WriterFree
        /\ \/ /\ state[r] = "validating" /\ ApprovalUsable(r)
              /\ state' = [state EXCEPT ![r] = "running"]
              /\ started' = [started EXCEPT ![r] = TRUE]
              /\ consumed' = [consumed EXCEPT ![r] = r \in Gated]
              /\ WorkerGoes(w, "run")
           \/ /\ NoEffect(state[r] = "validating" /\ ApprovalUsable(r))
              /\ WorkerGoes(w, "fail")
              /\ UNCHANGED <<state, started, consumed>>
        /\ UNCHANGED <<rollback, decisions, breakGlass, lapsed, draft,
                       journal, fault, queueVars, token, handlerVars,
                       bootVars, stopAck>>

-----------------------------------------------------------------------------
(***************************************************************************)
(* The runner inside the worker (run_experiment), for an experiment that   *)
(* declares rollbacks, under the daemon's OnDeviation strategy.            *)
(***************************************************************************)

\* A method action injects its fault; no activity starts once cancelled.
InjectFault(w) ==
    /\ wpc[w] = "run"
    /\ token[wrun[w]] = "live"
    /\ ~fault[wrun[w]]
    /\ fault' = [fault EXCEPT ![wrun[w]] = TRUE]
    /\ UNCHANGED <<rowVars, approvalVars, journal, queueVars, token,
                   workerVars, handlerVars, bootVars, stopAck>>

\* Rollbacks run for wanted = TRUE and clear the fault when all succeed.
run_rollbacks(w, wanted) ==
    \E res \in RollbackResults :
        /\ (res = "none") <=> ~wanted
        /\ wrb' = [wrb EXCEPT ![w] = res]
        /\ fault' = IF res = "ok" THEN [fault EXCEPT ![wrun[w]] = FALSE]
                                  ELSE fault

\* Early returns: hypothesis-before unmet, a guard's halt, a cancellation
\* seen before the method (nothing to undo) or after it.
RunnerStopsEarly(w) ==
    LET cancelled == token[wrun[w]] = "cancelled"
    IN  /\ wpc[w] = "run"
        /\ \E s \in {"Aborted", "Halted", "Interrupted"} :
             /\ s = "Aborted" => ~fault[wrun[w]]
             /\ s = "Interrupted" => cancelled
             /\ wstatus' = [wstatus EXCEPT ![w] = s]
             /\ \/ run_rollbacks(w, TRUE)
                \/ s = "Interrupted" /\ ~fault[wrun[w]] /\ run_rollbacks(w, FALSE)
        /\ wpc' = [wpc EXCEPT ![w] = "record"]
        /\ UNCHANGED <<rowVars, approvalVars, journal, queueVars, token, wrun,
                       handlerVars, bootVars, stopAck>>

\* After the method and hypothesis-after: the status is decided (Interrupted
\* when cancelled by now) and with it whether rollbacks run.
RunnerJudges(w) ==
    LET cancelled == token[wrun[w]] = "cancelled"
    IN  /\ wpc[w] = "run"
        /\ \E s \in {"Completed", "Deviated", "Failed", "Interrupted"} :
             /\ (s = "Interrupted") <=> cancelled
             /\ wstatus' = [wstatus EXCEPT ![w] = s]
             /\ run_rollbacks(w, \/ s = "Deviated"
                                 \/ s \in {"Failed", "Interrupted"} /\ fault[wrun[w]])
        /\ wpc' = [wpc EXCEPT ![w] = "judged"]
        /\ UNCHANGED <<rowVars, approvalVars, journal, queueVars, token, wrun,
                       handlerVars, bootVars, stopAck>>

\* After the rollbacks the token is read again; the journal goes back.
RunnerReturns(w) ==
    /\ wpc[w] = "judged"
    /\ wpc' = [wpc EXCEPT ![w] = "record"]
    /\ wstatus' = [wstatus EXCEPT ![w] =
                     IF token[wrun[w]] = "cancelled" THEN "Interrupted" ELSE @]
    /\ UNCHANGED <<rowVars, approvalVars, journal, fault, queueVars, token,
                   wrun, wrb, handlerVars, bootVars, stopAck>>

\* The runner returns an error or its task panics.
RunnerDies(w) ==
    /\ wpc[w] \in {"run", "judged"}
    /\ WorkerGoes(w, "fail")
    /\ UNCHANGED <<rowVars, approvalVars, journal, fault, queueVars, token,
                   handlerVars, bootVars, stopAck>>

\* The state and rollback_status that record_completion writes.
CompletionState(w) ==
    IF wrb[w] = "failed" THEN "rollback_pending" ELSE terminal_state(wstatus[w])

CompletionRollback(w) ==
    CASE wrb[w] = "none" -> "not_needed"
      [] wrb[w] = "ok" -> "completed"
      [] OTHER -> "failed"

\* Mutant: the closure does not look at the token.
CompletionRefused_Never(w) == FALSE

\* record_completion's closure looks at the token first: a stop that came
\* before it refuses any journal but an Interrupted one.
CompletionRefused(w) ==
    token[wrun[w]] = "cancelled" /\ wstatus[w] # "Interrupted"

\* The closure returns an error; what it has written stays.
CompletionFails(w) ==
    /\ WorkerGoes(w, "unrecorded")
    /\ UNCHANGED <<rowVars, journal, token>>

\* record_completion, the closure's look at the token.
RecordCheck(w) ==
    /\ wpc[w] = "record"
    /\ WriterFree
    /\ \/ /\ ~CompletionRefused(w)
          /\ WorkerGoes(w, "ingest")
          /\ UNCHANGED <<rowVars, journal, token>>
       \/ NoEffect(~CompletionRefused(w)) /\ CompletionFails(w)
    /\ UNCHANGED <<approvalVars, fault, queueVars, handlerVars, bootVars,
                   stopAck>>

\* record_completion, ingest_journal before the terminal write: the journal of
\* an experiment id that is already stored changes nothing.
RecordIngest(w) ==
    LET r == wrun[w]
    IN  /\ wpc[w] = "ingest"
        /\ \/ /\ journal' = [journal EXCEPT ![r] = IF @ = "absent" THEN wrb[w]
                                                                   ELSE @]
              /\ WorkerGoes(w, "finish")
              /\ UNCHANGED <<rowVars, token>>
           \/ StoreMayFail /\ CompletionFails(w)
        /\ UNCHANGED <<approvalVars, fault, queueVars, handlerVars, bootVars,
                       stopAck>>

\* record_completion, finish_run: nobody looks at the token again, so a stop
\* that cancels it now is answered by the ended row.
RecordFinish(w) ==
    /\ wpc[w] = "finish"
    /\ \/ /\ finish_run(wrun[w], CompletionState(w), CompletionRollback(w))
          /\ WorkerLeaves(w)
          /\ UNCHANGED journal
       \/ StoreMayFail /\ CompletionFails(w)
    /\ UNCHANGED <<approvalVars, fault, queueVars, handlerVars, bootVars,
                   stopAck>>

\* Mutant: a refused completion is not retried.
LateStopCleanup_GivesUp(w) ==
    /\ wpc[w] = "unrecorded"
    /\ WorkerLeaves(w)
    /\ UNCHANGED <<rowVars, approvalVars, journal, fault, queueVars,
                   handlerVars, bootVars, stopAck>>

\* complete_or_cleanup after a failed completion: a late stop runs the
\* rollbacks the runner did not (its task may panic) and records the journal
\* again, now Interrupted; that one is not refused, so when it fails too, as
\* when nobody stopped the run, the run is left recoverable.
LateStopCleanup(w) ==
    /\ wpc[w] = "unrecorded"
    /\ \/ ~CompletionRefused(w) /\ WorkerLeaves(w) /\ UNCHANGED fault
       \/ /\ CompletionRefused(w)
          /\ \/ wrb[w] = "none" /\ run_rollbacks(w, TRUE)
             \/ wrb[w] # "none" /\ UNCHANGED <<wrb, fault>>
          /\ wstatus' = [wstatus EXCEPT ![w] = "Interrupted"]
          /\ wpc' = [wpc EXCEPT ![w] = "record"]
          /\ UNCHANGED <<wrun, token>>
       \/ /\ CompletionRefused(w)
          /\ wrb[w] = "none"
          /\ WorkerGoes(w, "fail")
          /\ UNCHANGED <<fault, token>>
    /\ UNCHANGED <<rowVars, approvalVars, journal, queueVars, handlerVars,
                   bootVars, stopAck>>

WorkerStep(w) ==
    \/ Dequeue(w)
    \/ VerifyApproval(w)
    \/ RecordFailure(w)
    \/ ClaimRun(w)
    \/ ValidateDispatch(w)
    \/ BeginRunExecution(w)
    \/ InjectFault(w)
    \/ RunnerStopsEarly(w)
    \/ RunnerJudges(w)
    \/ RunnerReturns(w)
    \/ RunnerDies(w)
    \/ RecordCheck(w)
    \/ RecordIngest(w)
    \/ RecordFinish(w)
    \/ LateStopCleanup(w)

-----------------------------------------------------------------------------
(***************************************************************************)
(* Crash, restart and reconcile_orphans (which runs before the servers     *)
(* accept traffic and before any worker sees an item).                     *)
(***************************************************************************)

CrashRestart ==
    /\ crashes < MaxCrashes
    /\ crashes' = crashes + 1
    /\ up' = FALSE
    /\ todo' = {r \in Runs : state[r] \in ACTIVE}
    /\ recon' = NotReconciling
    /\ permits' = QueueDepth
    /\ channel' = <<>>
    /\ token' = [r \in Runs |-> "none"]
    /\ wpc' = [w \in Workers |-> "idle"]
    /\ wrun' = [w \in Workers |-> None]
    /\ wstatus' = [w \in Workers |-> "none"]
    /\ wrb' = [w \in Workers |-> "none"]
    /\ hpc' = [h \in Handlers |-> "idle"]
    /\ hrun' = [h \in Handlers |-> None]
    /\ hwho' = [h \in Handlers |-> None]
    /\ UNCHANGED <<rowVars, approvalVars, journal, fault, stopAck>>

\* Mark the next orphan; a failed write does not stop its recovery.  Whether
\* it had started is judged on the row as it was read.
OrphanMark(r) ==
    /\ ~up
    /\ recon.pc = "idle"
    /\ r \in todo
    /\ todo' = todo \ {r}
    /\ recon' = IF \/ started[r]
                   \/ state[r] \in {"running", "stopping", "rollback_pending"}
                THEN [run |-> r, pc |-> "rollback", outcome |-> "none"]
                ELSE [run |-> r, pc |-> "finish", outcome |-> "NothingExecuted"]
    /\ \/ state' = [state EXCEPT ![r] = "orphaned"]
       \/ StoreMayFail /\ UNCHANGED state
    /\ UNCHANGED <<started, rollback, approvalVars, journal, fault, queueVars,
                   token, workerVars, handlerVars, up, crashes, stopAck>>

\* attempt_orphan_rollback: it fails too when the plan cannot be prepared.
OrphanRollback ==
    /\ recon.pc = "rollback"
    /\ \/ /\ recon' = [recon EXCEPT !.pc = "finish", !.outcome = "RolledBack"]
          /\ fault' = [fault EXCEPT ![recon.run] = FALSE]
       \/ /\ recon' = [recon EXCEPT !.pc = "finish", !.outcome = "RollbackFailed"]
          /\ UNCHANGED fault
    /\ UNCHANGED <<rowVars, approvalVars, journal, queueVars, token,
                   workerVars, handlerVars, up, todo, crashes, stopAck>>

\* The outcome is recorded; a failed write leaves the row active.
OrphanFinish ==
    /\ recon.pc = "finish"
    /\ \/ /\ recon.outcome = "NothingExecuted"
          /\ finish_run(recon.run, "aborted", "not_needed")
       \/ /\ recon.outcome = "RolledBack"
          /\ finish_run(recon.run, "aborted", "completed")
       \/ /\ recon.outcome = "RollbackFailed"
          /\ finish_run(recon.run, "rollback_pending", "failed")
       \/ StoreMayFail /\ UNCHANGED rowVars
    /\ recon' = NotReconciling
    /\ UNCHANGED <<approvalVars, journal, fault, queueVars, token, workerVars,
                   handlerVars, up, todo, crashes, stopAck>>

\* No orphan left: workers and servers start.
Serve ==
    /\ ~up
    /\ todo = {}
    /\ recon.pc = "idle"
    /\ up' = TRUE
    /\ UNCHANGED <<rowVars, approvalVars, journal, fault, queueVars, token,
                   workerVars, handlerVars, todo, recon, crashes, stopAck>>

Reconcile == OrphanRollback \/ OrphanFinish \/ Serve \/ \E r \in Runs : OrphanMark(r)

-----------------------------------------------------------------------------

Next ==
    \/ \E h \in Handlers : Request(h) \/ HandlerStep(h) \/ HandlerDropped(h)
    \/ \E r \in Runs : RequestGated(r) \/ Lapse(r) \/ Sweep(r)
    \/ \E r \in Runs, u \in Users : Reject(r, u)
    \/ \E w \in Workers : WorkerStep(w)
    \/ Reconcile
    \/ CrashRestart

Spec == Init /\ [][Next]_vars

\* The scheduler runs every ready task: handlers past their first step, the
\* workers (whose activities end by their own timeouts), the sweeper and
\* the startup sequence.  Nobody is obliged to send a request.
Fairness ==
    /\ \A h \in Handlers : WF_vars(HandlerStep(h))
    /\ \A w \in Workers : WF_vars(WorkerStep(w))
    /\ \A r \in Runs : WF_vars(Sweep(r))
    /\ WF_vars(Reconcile)

FairSpec == Spec /\ Fairness

-----------------------------------------------------------------------------
(***************************************************************************)
(* Properties                                                              *)
(***************************************************************************)

\* A run in a terminal state never transitions again (run_state::TERMINAL),
\* although finish_run itself does not look at the state it overwrites.
TerminalIsFinal ==
    [][\A r \in Runs : state[r] \in TERMINAL => state'[r] = state[r]]_vars

\* The work items of a run: in the channel, about to be sent, or in hand.
ItemsOf(r) ==
    ({"channel"} \X {i \in DOMAIN channel : channel[i] = r})
      \cup ({"handler"} \X {h \in Handlers : hpc[h] = "send" /\ hrun[h] = r})
      \cup ({"worker"} \X {w \in Workers : wrun[w] = r})

\* However many approvals and overrides race through dispatch_approved, a run
\* has at most one work item, so no two workers ever process the same run.
OneItemPerRun == \A r \in Runs : Cardinality(ItemsOf(r)) <= 1

\* Enough users other than the requester approved.
QuorumMet(dec) == Cardinality(ApprovedBy(dec) \ {Requester}) >= Quorum

\* No provider of a gated run starts before its approval is consumed, and the
\* approval is a quorum of users other than the requester, or a break-glass.
ApprovedBeforeExecution ==
    \A r \in Gated : started[r] =>
        consumed[r] /\ (breakGlass[r] \/ QuorumMet(decisions[r]))

\* A live fault always has an owner: its run started durably and is still
\* active (a worker or the next restart cleans it up), unless the ingested
\* journal says that the runner itself chose to run no rollback.
FaultOwned ==
    \A r \in Runs : fault[r] =>
        /\ started[r]
        /\ \/ state[r] \in {"running", "stopping", "orphaned", "rollback_pending"}
           \/ state[r] \in TERMINAL /\ journal[r] = "none"

\* Every permit of the waiting semaphore is free, in an item of the channel,
\* or in a handler that has not sent its item yet: none leaks, none is minted.
PermitsConserved ==
    permits + Len(channel)
      + Cardinality({h \in Handlers : hpc[h] \in HoldsPermit}) = QueueDepth

\* A stop that was acknowledged while the token it cancels was there holds: the
\* run never ends passed or deviated, although the token is cancelled off the
\* writer, the completion looks at it only once, and its row is written blind.
CancelledStopHolds ==
    \A r \in Runs : stopAck[r] = "heard" =>
        state[r] \notin {"passed", "deviated"}

\* While the store accepts writes and no client disconnects, every row in
\* flight has somebody who will move it: an item, a worker, a stop request or
\* the startup reconciliation.  Only rollback_pending waits for a restart.
RowsHaveOwners ==
    \A r \in Runs :
        \/ state[r] \in TERMINAL \cup {"absent", "pending_approval",
                                       "rollback_pending"}
        \/ r \in todo \/ recon.run = r
        \/ \E w \in Workers : wrun[w] = r
        \/ state[r] = "queued" /\ ItemsOf(r) # {}
        \/ state[r] = "validating"
             /\ \E h \in Handlers : hpc[h] = "stop" /\ hrun[h] = r

\* Every run that got past approval ends, or waits for an operator with a
\* failed rollback.
RunsSettle ==
    \A r \in Runs :
        state[r] \notin {"absent", "pending_approval"}
          ~> state[r] \in TERMINAL \cup {"rollback_pending"}

\* A lapsed request does not stay pending.
LapsedSettles ==
    \A r \in Runs :
        (state[r] = "pending_approval" /\ lapsed[r])
          ~> state[r] # "pending_approval"

\* The queue implements the life of a run that RunLifecycle promises: handlers,
\* workers, sweeper, crashes and reconciliation move one row at a time along
\* its edges, and a fault changes only while its run owes an outcome.
Lifecycle == INSTANCE RunLifecycle

ImplementsLifecycle == Lifecycle!Spec

-----------------------------------------------------------------------------
(***************************************************************************)
(* The inductive invariant behind the safety properties, by component.     *)
(***************************************************************************)

\* The steps of a worker whose runner has been started.
Executing == {"run", "judged", "record", "ingest", "finish", "unrecorded"}

\* A busy worker's run has a token, no two workers share a run or the writer,
\* and while the runner owns the run its row says so.  A journal stored for the
\* run of a worker whose own journal has no rollbacks has none either.
WorkerInv ==
    /\ \A w \in Workers : wpc[w] = "idle" <=> wrun[w] = None
    /\ \A w \in Workers : wpc[w] # "idle" => token[wrun[w]] # "none"
    /\ \A v, w \in Workers : v # w /\ wrun[v] = wrun[w] => wrun[v] = None
    /\ \A w \in Workers : wpc[w] \in Executing =>
         started[wrun[w]] /\ state[wrun[w]] \in {"running", "stopping"}
    /\ \A w \in Workers : wpc[w] \in Executing /\ wrb[w] = "ok" =>
         ~fault[wrun[w]]
    /\ \A w \in Workers :
         wpc[w] \notin {"judged", "record", "ingest", "finish", "unrecorded",
                       "fail"} => wrb[w] = "none"
    /\ \A v, w \in Workers : wpc[v] \in OnWriter /\ wpc[w] \in OnWriter => v = w
    /\ \A w \in Workers : wpc[w] \in Executing /\ wrb[w] = "none" =>
         journal[wrun[w]] \in {"absent", "none"}
    /\ \A w \in Workers : wpc[w] = "finish" /\ wrb[w] = "none" =>
         journal[wrun[w]] = "none"

\* A busy handler has a run; a fresh id belongs to one ungated insert.
HandlerInv ==
    /\ \A h \in Handlers : hpc[h] = "idle" <=> hrun[h] = None
    /\ \A h \in Handlers : hpc[h] = "decide" => hwho[h] \in Users
    /\ \A h \in Handlers : hpc[h] = "insert" =>
         hrun[h] \notin Gated /\ state[hrun[h]] = "absent"
    /\ \A g, h \in Handlers :
         g # h /\ hpc[h] = "insert" => hrun[g] # hrun[h]

\* Reconciliation runs alone, on rows that are still active.
BootInv ==
    /\ up => todo = {} /\ recon.pc = "idle"
    /\ ~up => /\ \A w \in Workers : wpc[w] = "idle"
              /\ \A h \in Handlers : hpc[h] = "idle"
    /\ \A r \in todo : state[r] \in ACTIVE
    /\ recon.pc # "idle" =>
         /\ recon.run \in Runs \ todo
         /\ state[recon.run] \in ACTIVE
    /\ recon.pc = "rollback" => started[recon.run]
    /\ recon.pc = "finish" =>
         /\ recon.outcome # "none"
         /\ started[recon.run] <=> recon.outcome # "NothingExecuted"
         /\ recon.outcome = "RolledBack" => ~fault[recon.run]

\* A started run never waits again, and only a started run needs cleanup or
\* has a journal.
RowInv ==
    /\ \A r \in Runs : started[r] =>
         state[r] \in {"running", "stopping", "orphaned", "rollback_pending",
                       "passed", "deviated", "failed", "aborted"}
    /\ \A r \in Runs :
         state[r] \in {"running", "stopping", "rollback_pending"} => started[r]
    /\ \A r \in Runs : ~started[r] => journal[r] = "absent"

\* From the dispatch check to the start, the approval stays cleared.
ApprovalInv ==
    /\ \A r \in Runs : decisions[r][Requester] # "approved"
    /\ \A h \in Handlers : hpc[h] = "requeue" =>
         breakGlass[hrun[h]] \/ QuorumMet(decisions[hrun[h]])
    /\ \A r \in Gated : state[r] \in {"queued", "validating"} =>
         breakGlass[r] \/ QuorumMet(decisions[r])

IInv ==
    /\ TypeOK
    /\ WorkerInv
    /\ HandlerInv
    /\ BootInv
    /\ RowInv
    /\ FaultOwned
    /\ ApprovalInv
    /\ ApprovedBeforeExecution

-----------------------------------------------------------------------------
(* What comments and documents say, and the code does not always do. *)

\* "A concurrent stop either cancels this token or wins the queued-state
\* compare-and-set" (worker.rs): an acknowledged stop never ends as passed.
StopHonoured ==
    \A r \in Runs : stopAck[r] # "none" => state[r] \notin {"passed", "deviated"}

\* When the token is cancelled the runner "runs rollbacks for any fault already
\* injected" (runner/mod.rs): an aborted run leaves no fault behind.
AbortedIsClean == \A r \in Runs : state[r] = "aborted" => ~fault[r]

\* Break-glass "opens a retrospective manual-evidence draft" before it
\* dispatches: an overridden run that started has one.
BreakGlassHasDraft ==
    \A r \in Runs :
        /\ breakGlass[r]
        /\ started[r]
        /\ \A h \in Handlers : ~(hpc[h] = "draft" /\ hrun[h] = r)
        => draft[r]
=============================================================================
