--------------------------- MODULE RunQueueProofs ---------------------------
(***************************************************************************)
(* IInv is an inductive invariant of RunQueue, for any number of runs,     *)
(* workers, handlers, users and crashes; from it follow type correctness,  *)
(* FaultOwned, ApprovedBeforeExecution and TerminalIsFinal, and with       *)
(* HeardInv next to it CancelledStopHolds.  One lemma per action; a lemma  *)
(* about an action with several outcomes has one case per outcome.         *)
(***************************************************************************)
EXTENDS RunQueue, FiniteSetTheorems, TLAPS

USE GatedAssumption, NoneAssumption, UsersAssumption, DepthAssumption
USE DEF rowVars, approvalVars, queueVars, workerVars, handlerVars, bootVars,
        OnWriter

-----------------------------------------------------------------------------
(* Quorums *)

\* One more decision takes no approval away from a quorum.
LEMMA QuorumStays ==
    ASSUME NEW dec \in [Users -> Decision], NEW u \in Users,
           NEW v \in Decision, dec[u] = "none", QuorumMet(dec)
    PROVE  QuorumMet([dec EXCEPT ![u] = v])
<1> DEFINE Old == ApprovedBy(dec) \ {Requester}
           New == ApprovedBy([dec EXCEPT ![u] = v]) \ {Requester}
<1>1. Old \subseteq New
  BY DEF ApprovedBy
<1>2. IsFiniteSet(New)
  BY UsersAssumption, FS_Subset DEF ApprovedBy
<1>3. IsFiniteSet(Old) /\ Cardinality(Old) <= Cardinality(New)
  BY <1>1, <1>2, FS_Subset
<1>4. Cardinality(Old) \in Nat /\ Cardinality(New) \in Nat
  BY <1>2, <1>3, FS_CardinalityType
<1> QED
  BY <1>3, <1>4, QuorumAssumption DEF QuorumMet

\* Whatever an accepted decision says, every quorum stays.
LEMMA DecisionKeepsQuorums ==
    ASSUME TypeOK, NEW r \in Runs, NEW u \in Users, NEW v \in Decision,
           DecisionAccepted(r, u),
           decisions' = [decisions EXCEPT ![r][u] = v]
    PROVE  \A q \in Runs : QuorumMet(decisions[q]) => QuorumMet(decisions'[q])
<1> SUFFICES ASSUME NEW q \in Runs, QuorumMet(decisions[q])
             PROVE  QuorumMet(decisions'[q])
  OBVIOUS
<1>1. CASE q = r
  BY <1>1, QuorumStays DEF DecisionAccepted, TypeOK
<1>2. CASE q # r
  BY <1>2 DEF TypeOK
<1> QED
  BY <1>1, <1>2

\* What dispatch_approved clears has a quorum or an override.
LEMMA ClearedHasQuorum ==
    ASSUME NEW r \in Runs, DispatchCleared(r),
           decisions[r][Requester] # "approved"
    PROVE  breakGlass[r] \/ QuorumMet(decisions[r])
<1>1. ApprovedBy(decisions[r]) \ {Requester} = ApprovedBy(decisions[r])
  BY DEF ApprovedBy
<1> QED
  BY <1>1 DEF DispatchCleared, QuorumMet

-----------------------------------------------------------------------------
(* Ends of requests and of passes *)

\* A handler that returns takes nothing with it but its permit.
LEMMA HandlerQuits ==
    ASSUME IInv, NEW h \in Handlers, HandlerReturns(h),
           permits' \in Nat, channel' \in Seq(Runs),
           UNCHANGED <<rowVars, approvalVars, journal, fault, token,
                       workerVars, bootVars, stopAck>>
    PROVE  IInv'
<1>1. TypeOK'
  BY DEF HandlerReturns, IInv, TypeOK, HandlerPC
<1>2. HandlerInv'
  BY DEF HandlerReturns, IInv, TypeOK, HandlerInv
<1>3. BootInv'
  BY DEF HandlerReturns, IInv, TypeOK, WorkerInv, HandlerInv, BootInv,
     ACTIVE
<1>4. ApprovalInv'
  BY DEF HandlerReturns, IInv, TypeOK, HandlerInv, RowInv, ApprovalInv
<1>5. WorkerInv' /\ RowInv' /\ FaultOwned' /\ ApprovedBeforeExecution'
  BY DEF HandlerReturns, IInv, WorkerInv, RowInv, FaultOwned,
     ApprovedBeforeExecution
<1> QED
  BY <1>1, <1>2, <1>3, <1>4, <1>5 DEF IInv

\* A worker that returns from process() leaves the rows as they are.
LEMMA WorkerQuits ==
    ASSUME IInv, NEW w \in Workers, wrun[w] \in Runs, WorkerLeaves(w),
           UNCHANGED <<rowVars, approvalVars, journal, fault, queueVars,
                       handlerVars, bootVars, stopAck>>
    PROVE  IInv'
<1>1. TypeOK'
  BY DEF WorkerLeaves, IInv, TypeOK, WorkerPC, Status, RollbackResults,
     TokenState
<1>2. WorkerInv'
  BY DEF WorkerLeaves, IInv, TypeOK, WorkerInv, RowInv, HandlerInv,
     BootInv, Executing, ACTIVE
<1>3. BootInv'
  BY DEF WorkerLeaves, IInv, TypeOK, WorkerInv, HandlerInv, BootInv,
     ACTIVE
<1>4. HandlerInv' /\ RowInv' /\ FaultOwned' /\ ApprovalInv' /\
      ApprovedBeforeExecution'
  BY DEF WorkerLeaves, IInv, HandlerInv, RowInv, FaultOwned, ApprovalInv,
     ApprovedBeforeExecution
<1> QED
  BY <1>1, <1>2, <1>3, <1>4 DEF IInv

\* A busy worker may move to any step at which it executes nothing.
LEMMA WorkerMoves ==
    ASSUME IInv, NEW w \in Workers, wpc[w] # "idle",
           NEW pc \in {"claim", "refuse", "begin", "fail"},
           pc # "fail" => wrb[w] = "none", WorkerGoes(w, pc),
           UNCHANGED <<rowVars, approvalVars, journal, fault, queueVars,
                       token, handlerVars, bootVars, stopAck>>
    PROVE  IInv'
<1>1. TypeOK'
  BY DEF WorkerGoes, IInv, TypeOK, WorkerPC
<1>2. WorkerInv'
  BY DEF WorkerGoes, IInv, TypeOK, WorkerInv, RowInv, HandlerInv, BootInv,
     Executing, ACTIVE
<1>3. BootInv'
  BY DEF WorkerGoes, IInv, TypeOK, WorkerInv, HandlerInv, BootInv, ACTIVE
<1>4. HandlerInv' /\ RowInv' /\ FaultOwned' /\ ApprovalInv' /\
      ApprovedBeforeExecution'
  BY DEF WorkerGoes, IInv, HandlerInv, RowInv, FaultOwned, ApprovalInv,
     ApprovedBeforeExecution
<1> QED
  BY <1>1, <1>2, <1>3, <1>4 DEF IInv

-----------------------------------------------------------------------------
(* One lemma per action *)

\* A request took a permit and a fresh id; no row exists yet.
LEMMA EnqueueAcquireStep ==
    ASSUME IInv, NEW h \in Handlers, NEW r \in Runs, EnqueueAcquire(h, r)
    PROVE  IInv'
<1>1. TypeOK'
  BY DEF EnqueueAcquire, HandlerStarts, AcquirePermit, IInv, TypeOK, HandlerPC
<1>2. HandlerInv'
  BY DEF EnqueueAcquire, HandlerStarts, AcquirePermit, IInv, TypeOK,
     HandlerInv
<1>3. BootInv'
  BY DEF EnqueueAcquire, HandlerStarts, AcquirePermit, IInv, TypeOK,
     WorkerInv, HandlerInv, BootInv, ACTIVE
<1>4. ApprovalInv'
  BY DEF EnqueueAcquire, HandlerStarts, AcquirePermit, IInv, TypeOK,
     HandlerInv, RowInv, ApprovalInv
<1>5. WorkerInv' /\ RowInv' /\ FaultOwned' /\ ApprovedBeforeExecution'
  BY DEF EnqueueAcquire, HandlerStarts, AcquirePermit, IInv, WorkerInv,
     RowInv, FaultOwned, ApprovedBeforeExecution
<1> QED
  BY <1>1, <1>2, <1>3, <1>4, <1>5 DEF IInv

\* The insert makes a fresh ungated row `queued', or nothing.
LEMMA EnqueueInsertStep ==
    ASSUME IInv, NEW h \in Handlers, EnqueueInsert(h)
    PROVE  IInv'
<1>1. hrun[h] \in Runs
  BY DEF EnqueueInsert, IInv, TypeOK, HandlerInv
<1>2. hpc[h] = "insert"
  BY DEF EnqueueInsert
<1>3. UNCHANGED <<approvalVars, workerVars, bootVars, started, rollback,
          journal, fault, channel, token, stopAck>>
  BY DEF EnqueueInsert, HandlerGoes, HandlerReturns, ReleasePermit
<1>4. CASE /\ state' = [state EXCEPT ![hrun[h]] = "queued"]
          /\ HandlerGoes(h, "send")
          /\ UNCHANGED queueVars
  <2>1. TypeOK'
    BY <1>1, <1>2, <1>3, <1>4 DEF IInv, TypeOK, HandlerGoes, RunState, ACTIVE,
       TERMINAL, HandlerPC
  <2>2. WorkerInv'
    BY <1>1, <1>2, <1>3, <1>4 DEF HandlerGoes, IInv, TypeOK, WorkerInv,
       RowInv, HandlerInv, BootInv, Executing, ACTIVE
  <2>3. HandlerInv'
    BY <1>1, <1>2, <1>3, <1>4 DEF HandlerGoes, IInv, TypeOK, HandlerInv
  <2>4. BootInv'
    BY <1>1, <1>2, <1>3, <1>4 DEF HandlerGoes, IInv, TypeOK, WorkerInv,
       HandlerInv, BootInv, ACTIVE
  <2>5. RowInv'
    BY <1>1, <1>2, <1>3, <1>4 DEF HandlerGoes, IInv, TypeOK, WorkerInv,
       HandlerInv, BootInv, RowInv, ACTIVE, Executing
  <2>6. FaultOwned'
    BY <1>1, <1>2, <1>3, <1>4 DEF HandlerGoes, IInv, TypeOK, WorkerInv,
       HandlerInv, BootInv, RowInv, FaultOwned, ACTIVE, TERMINAL, Executing
  <2>7. ApprovalInv'
    BY <1>1, <1>2, <1>3, <1>4 DEF HandlerGoes, IInv, TypeOK, HandlerInv,
       RowInv, ApprovalInv
  <2>8. ApprovedBeforeExecution'
    BY <1>1, <1>2, <1>3, <1>4 DEF HandlerGoes, IInv, ApprovedBeforeExecution
  <2> QED
    BY <2>1, <2>2, <2>3, <2>4, <2>5, <2>6, <2>7, <2>8 DEF IInv
<1>5. CASE HandlerReturns(h) /\ ReleasePermit /\ UNCHANGED state
  BY <1>1, <1>2, <1>3, <1>5, HandlerQuits DEF ReleasePermit, IInv, TypeOK
<1> QED
  BY <1>4, <1>5 DEF EnqueueInsert, HandlerGoes, HandlerReturns, ReleasePermit

\* Sending the item only grows the channel.
LEMMA SendItemStep ==
    ASSUME IInv, NEW h \in Handlers, SendItem(h)
    PROVE  IInv'
<1>1. hrun[h] \in Runs
  BY DEF SendItem, IInv, TypeOK, HandlerInv
<1>2. channel' \in Seq(Runs)
  BY <1>1 DEF SendItem, IInv, TypeOK
<1> QED
  BY <1>2, HandlerQuits DEF SendItem, IInv, TypeOK

\* A gated row appears pending, with no approval.
LEMMA RequestGatedStep ==
    ASSUME IInv, NEW r \in Runs, RequestGated(r)
    PROVE  IInv'
<1>1. TypeOK'
  BY DEF RequestGated, IInv, TypeOK, RunState, ACTIVE, TERMINAL
<1>2. WorkerInv'
  BY DEF RequestGated, IInv, TypeOK, WorkerInv, RowInv, HandlerInv, BootInv,
     Executing, ACTIVE
<1>3. HandlerInv'
  BY DEF RequestGated, IInv, TypeOK, HandlerInv
<1>4. BootInv'
  BY DEF RequestGated, IInv, TypeOK, WorkerInv, HandlerInv, BootInv, ACTIVE
<1>5. RowInv'
  BY DEF RequestGated, IInv, TypeOK, WorkerInv, HandlerInv, BootInv, RowInv,
     ACTIVE, Executing
<1>6. FaultOwned'
  BY DEF RequestGated, IInv, TypeOK, WorkerInv, HandlerInv, BootInv, RowInv,
     FaultOwned, ACTIVE, TERMINAL, Executing
<1>7. ApprovalInv'
  BY DEF RequestGated, IInv, TypeOK, HandlerInv, RowInv, ApprovalInv
<1>8. ApprovedBeforeExecution'
  BY DEF RequestGated, IInv, ApprovedBeforeExecution
<1> QED
  BY <1>1, <1>2, <1>3, <1>4, <1>5, <1>6, <1>7, <1>8 DEF IInv

\* An approve request starts by reading.
LEMMA ApproveReadStep ==
    ASSUME IInv, NEW h \in Handlers, NEW r \in Runs, NEW u \in Users, ApproveRead(h, r, u)
    PROVE  IInv'
<1>1. TypeOK'
  BY DEF ApproveRead, HandlerStarts, IInv, TypeOK, HandlerPC
<1>2. HandlerInv'
  BY DEF ApproveRead, HandlerStarts, IInv, TypeOK, HandlerInv
<1>3. BootInv'
  BY DEF ApproveRead, HandlerStarts, IInv, TypeOK, WorkerInv, HandlerInv,
     BootInv, ACTIVE
<1>4. ApprovalInv'
  BY DEF ApproveRead, HandlerStarts, IInv, TypeOK, HandlerInv, RowInv,
     ApprovalInv
<1>5. WorkerInv' /\ RowInv' /\ FaultOwned' /\ ApprovedBeforeExecution'
  BY DEF ApproveRead, HandlerStarts, IInv, WorkerInv, RowInv, FaultOwned,
     ApprovedBeforeExecution
<1> QED
  BY <1>1, <1>2, <1>3, <1>4, <1>5 DEF IInv

\* A lapsed request expires only while pending: its run never started.
LEMMA ApproveExpireStep ==
    ASSUME IInv, NEW h \in Handlers, ApproveExpire(h)
    PROVE  IInv'
<1>1. hrun[h] \in Runs
  BY DEF ApproveExpire, IInv, TypeOK, HandlerInv
<1>2. hpc[h] = "expire" /\ HandlerReturns(h)
  BY DEF ApproveExpire
<1>3. UNCHANGED <<approvalVars, queueVars, workerVars, bootVars, started,
          journal, fault, token, stopAck>>
  BY DEF ApproveExpire, finish_run
<1>4. CASE /\ state[hrun[h]] = "pending_approval"
          /\ finish_run(hrun[h], "expired", "not_needed")
  <2>1. TypeOK'
    BY <1>1, <1>2, <1>3, <1>4 DEF IInv, TypeOK, finish_run, HandlerReturns,
       RunState, ACTIVE, TERMINAL, RollbackStatus, HandlerPC
  <2>2. WorkerInv'
    BY <1>1, <1>2, <1>3, <1>4 DEF finish_run, HandlerReturns, IInv, TypeOK,
       WorkerInv, RowInv, HandlerInv, BootInv, Executing, ACTIVE
  <2>3. HandlerInv'
    BY <1>1, <1>2, <1>3, <1>4 DEF finish_run, HandlerReturns, IInv, TypeOK,
       HandlerInv
  <2>4. BootInv'
    BY <1>1, <1>2, <1>3, <1>4 DEF finish_run, HandlerReturns, IInv, TypeOK,
       WorkerInv, HandlerInv, BootInv, ACTIVE
  <2>5. RowInv'
    BY <1>1, <1>2, <1>3, <1>4 DEF finish_run, HandlerReturns, IInv, TypeOK,
       WorkerInv, HandlerInv, BootInv, RowInv, ACTIVE, Executing
  <2>6. FaultOwned'
    BY <1>1, <1>2, <1>3, <1>4 DEF finish_run, HandlerReturns, IInv, TypeOK,
       WorkerInv, HandlerInv, BootInv, RowInv, FaultOwned, ACTIVE, TERMINAL,
       Executing
  <2>7. ApprovalInv'
    BY <1>1, <1>2, <1>3, <1>4 DEF finish_run, HandlerReturns, IInv, TypeOK,
       HandlerInv, RowInv, ApprovalInv
  <2>8. ApprovedBeforeExecution'
    BY <1>1, <1>2, <1>3, <1>4 DEF finish_run, HandlerReturns, IInv,
       ApprovedBeforeExecution
  <2> QED
    BY <2>1, <2>2, <2>3, <2>4, <2>5, <2>6, <2>7, <2>8 DEF IInv
<1>5. CASE UNCHANGED rowVars
  BY <1>1, <1>2, <1>3, <1>5, HandlerQuits DEF IInv, TypeOK
<1> QED
  BY <1>4, <1>5 DEF ApproveExpire, finish_run

\* An approval is added; the requester never approves.
LEMMA ApproveDecideStep ==
    ASSUME IInv, NEW h \in Handlers, ApproveDecide(h)
    PROVE  IInv'
<1>1. hrun[h] \in Runs
  BY DEF ApproveDecide, IInv, TypeOK, HandlerInv
<1>2. hpc[h] = "decide"
  BY DEF ApproveDecide
<1>3. hwho[h] \in Users
  BY <1>2 DEF IInv, HandlerInv
<1>4. UNCHANGED <<rowVars, queueVars, workerVars, bootVars, breakGlass,
          consumed, lapsed, draft, journal, fault, token, stopAck>>
  BY DEF ApproveDecide, HandlerGoes
<1>5. CASE /\ DecisionAccepted(hrun[h], hwho[h])
          /\ decisions' = [decisions EXCEPT ![hrun[h]][hwho[h]] = "approved"]
          /\ HandlerGoes(h, "dispatch")
  <2>1. hpc' = [hpc EXCEPT ![h] = "dispatch"] /\ hrun' = hrun
    BY <1>5 DEF HandlerGoes
  <2>2. TypeOK'
    BY <1>1, <1>2, <1>3, <1>4, <1>5, <2>1 DEF IInv, TypeOK, DecisionAccepted,
       HandlerGoes, Decision, HandlerPC
  <2>3. HandlerInv'
    BY <1>1, <1>2, <1>3, <1>4, <1>5, <2>1 DEF DecisionAccepted, HandlerGoes,
       IInv, TypeOK, HandlerInv
  <2>4. BootInv'
    BY <1>1, <1>2, <1>3, <1>4, <1>5, <2>1 DEF DecisionAccepted, HandlerGoes,
       IInv, TypeOK, WorkerInv, HandlerInv, BootInv, ACTIVE
  <2>5. ApprovalInv'
    <3>1. \A q \in Runs : QuorumMet(decisions[q]) => QuorumMet(decisions'[q])
      BY <1>1, <1>2, <1>3, <1>4, <1>5, DecisionKeepsQuorums DEF IInv, Decision
    <3>2. \A q \in Runs : decisions'[q][Requester] # "approved"
      BY <1>1, <1>2, <1>3, <1>4, <1>5 DEF DecisionAccepted, IInv, TypeOK, ApprovalInv
    <3> QED
      BY <1>1, <1>2, <1>4, <2>1, <3>1, <3>2
         DEF DecisionAccepted, HandlerGoes, IInv, TypeOK, HandlerInv, ApprovalInv
  <2>6. ApprovedBeforeExecution'
    <3>1. \A q \in Runs : QuorumMet(decisions[q]) => QuorumMet(decisions'[q])
      BY <1>1, <1>2, <1>3, <1>4, <1>5, DecisionKeepsQuorums DEF IInv, Decision
    <3> QED
      BY <1>4, <3>1
         DEF IInv, TypeOK, ApprovedBeforeExecution
  <2>7. WorkerInv' /\ RowInv' /\ FaultOwned'
    BY <1>1, <1>2, <1>3, <1>4, <1>5, <2>1 DEF DecisionAccepted, HandlerGoes,
       IInv, WorkerInv, RowInv, FaultOwned
  <2> QED
    BY <2>2, <2>3, <2>4, <2>5, <2>6, <2>7 DEF IInv
<1>6. CASE HandlerReturns(h) /\ UNCHANGED decisions
  BY <1>1, <1>2, <1>3, <1>4, <1>6, HandlerQuits DEF IInv, TypeOK
<1> QED
  BY <1>5, <1>6 DEF ApproveDecide, HandlerGoes

\* A rejection ends a pending run, whatever its second transaction does.
LEMMA RejectStep ==
    ASSUME IInv, NEW r \in Runs, NEW u \in Users, Reject(r, u)
    PROVE  IInv'
<1>1. /\ DecisionAccepted(r, u)
      /\ decisions' = [decisions EXCEPT ![r][u] = "rejected"]
  BY DEF Reject
<1>2. UNCHANGED <<queueVars, workerVars, handlerVars, bootVars, started,
          breakGlass, consumed, lapsed, draft, journal, fault, token, stopAck>>
  BY DEF Reject, finish_run
<1>3. CASE finish_run(r, "rejected", "not_needed")
  <2>1. state' = [state EXCEPT ![r] = "rejected"]
    BY <1>3 DEF finish_run
  <2>2. TypeOK'
    BY <1>1, <1>2, <1>3, <2>1 DEF IInv, TypeOK, DecisionAccepted, finish_run,
       RunState, ACTIVE, TERMINAL, RollbackStatus, Decision
  <2>3. WorkerInv'
    BY <1>1, <1>2, <1>3, <2>1 DEF DecisionAccepted, finish_run, IInv, TypeOK,
       WorkerInv, RowInv, HandlerInv, BootInv, Executing, ACTIVE
  <2>4. HandlerInv'
    BY <1>1, <1>2, <1>3, <2>1 DEF DecisionAccepted, finish_run, IInv, TypeOK,
       HandlerInv
  <2>5. BootInv'
    BY <1>1, <1>2, <1>3, <2>1 DEF DecisionAccepted, finish_run, IInv, TypeOK,
       WorkerInv, HandlerInv, BootInv, ACTIVE
  <2>6. RowInv'
    BY <1>1, <1>2, <1>3, <2>1 DEF DecisionAccepted, finish_run, IInv, TypeOK,
       WorkerInv, HandlerInv, BootInv, RowInv, ACTIVE, Executing
  <2>7. FaultOwned'
    BY <1>1, <1>2, <1>3, <2>1 DEF DecisionAccepted, finish_run, IInv, TypeOK,
       WorkerInv, HandlerInv, BootInv, RowInv, FaultOwned, ACTIVE, TERMINAL,
       Executing
  <2>8. ApprovalInv'
    <3>1. \A q \in Runs : QuorumMet(decisions[q]) => QuorumMet(decisions'[q])
      BY <1>1, <1>2, <1>3, DecisionKeepsQuorums DEF IInv, Decision
    <3>2. \A q \in Runs : decisions'[q][Requester] # "approved"
      BY <1>1, <1>2, <1>3 DEF DecisionAccepted, IInv, TypeOK, ApprovalInv
    <3> QED
      BY <1>2, <2>1, <3>1, <3>2
         DEF IInv, TypeOK, HandlerInv, ApprovalInv
  <2>9. ApprovedBeforeExecution'
    <3>1. \A q \in Runs : QuorumMet(decisions[q]) => QuorumMet(decisions'[q])
      BY <1>1, <1>2, <1>3, DecisionKeepsQuorums DEF IInv, Decision
    <3> QED
      BY <1>2, <3>1
         DEF IInv, TypeOK, ApprovedBeforeExecution
  <2> QED
    BY <2>2, <2>3, <2>4, <2>5, <2>6, <2>7, <2>8, <2>9 DEF IInv
<1>4. CASE UNCHANGED rowVars
  <2>1. TypeOK'
    BY <1>1, <1>2, <1>4 DEF IInv, TypeOK, DecisionAccepted, Decision
  <2>2. ApprovalInv'
    <3>1. \A q \in Runs : QuorumMet(decisions[q]) => QuorumMet(decisions'[q])
      BY <1>1, <1>2, <1>4, DecisionKeepsQuorums DEF IInv, Decision
    <3>2. \A q \in Runs : decisions'[q][Requester] # "approved"
      BY <1>1, <1>2, <1>4 DEF DecisionAccepted, IInv, TypeOK, ApprovalInv
    <3> QED
      BY <1>2, <1>4, <3>1, <3>2
         DEF IInv, TypeOK, HandlerInv, ApprovalInv
  <2>3. ApprovedBeforeExecution'
    <3>1. \A q \in Runs : QuorumMet(decisions[q]) => QuorumMet(decisions'[q])
      BY <1>1, <1>2, <1>4, DecisionKeepsQuorums DEF IInv, Decision
    <3> QED
      BY <1>2, <1>4, <3>1
         DEF IInv, TypeOK, ApprovedBeforeExecution
  <2>4. WorkerInv' /\ HandlerInv' /\ BootInv' /\ RowInv' /\ FaultOwned'
    BY <1>1, <1>2, <1>4 DEF DecisionAccepted, IInv, WorkerInv, HandlerInv,
       BootInv, RowInv, FaultOwned
  <2> QED
    BY <2>1, <2>2, <2>3, <2>4 DEF IInv
<1> QED
  BY <1>3, <1>4 DEF Reject, finish_run

\* The override is set on a pending run.
LEMMA BreakGlassMarkStep ==
    ASSUME IInv, NEW h \in Handlers, NEW r \in Runs, BreakGlassMark(h, r)
    PROVE  IInv'
<1>1. TypeOK'
  BY DEF BreakGlassMark, HandlerStarts, IInv, TypeOK, HandlerPC
<1>2. HandlerInv'
  BY DEF BreakGlassMark, HandlerStarts, IInv, TypeOK, HandlerInv
<1>3. BootInv'
  BY DEF BreakGlassMark, HandlerStarts, IInv, TypeOK, WorkerInv, HandlerInv,
     BootInv, ACTIVE
<1>4. ApprovalInv'
  BY DEF BreakGlassMark, HandlerStarts, IInv, TypeOK, HandlerInv, RowInv,
     ApprovalInv
<1>5. ApprovedBeforeExecution'
  BY DEF BreakGlassMark, HandlerStarts, IInv, TypeOK, RowInv, ApprovalInv,
     ApprovedBeforeExecution
<1>6. WorkerInv' /\ RowInv' /\ FaultOwned'
  BY DEF BreakGlassMark, HandlerStarts, IInv, WorkerInv, RowInv, FaultOwned
<1> QED
  BY <1>1, <1>2, <1>3, <1>4, <1>5, <1>6 DEF IInv

\* The draft touches no run row.
LEMMA BreakGlassDraftStep ==
    ASSUME IInv, NEW h \in Handlers, BreakGlassDraft(h)
    PROVE  IInv'
<1>1. hrun[h] \in Runs
  BY DEF BreakGlassDraft, IInv, TypeOK, HandlerInv
<1>2. hpc[h] = "draft"
  BY DEF BreakGlassDraft
<1>3. UNCHANGED <<rowVars, queueVars, workerVars, bootVars, decisions,
          breakGlass, consumed, lapsed, journal, fault, token, stopAck>>
  BY DEF BreakGlassDraft
<1>4. CASE /\ draft' = [draft EXCEPT ![hrun[h]] = TRUE]
          /\ HandlerGoes(h, "dispatch")
  <2>1. TypeOK'
    BY <1>1, <1>2, <1>3, <1>4 DEF IInv, TypeOK, HandlerGoes, HandlerPC
  <2>2. HandlerInv'
    BY <1>1, <1>2, <1>3, <1>4 DEF HandlerGoes, IInv, TypeOK, HandlerInv
  <2>3. BootInv'
    BY <1>1, <1>2, <1>3, <1>4 DEF HandlerGoes, IInv, TypeOK, WorkerInv,
       HandlerInv, BootInv, ACTIVE
  <2>4. ApprovalInv'
    BY <1>1, <1>2, <1>3, <1>4 DEF HandlerGoes, IInv, TypeOK, HandlerInv,
       RowInv, ApprovalInv
  <2>5. WorkerInv' /\ RowInv' /\ FaultOwned' /\ ApprovedBeforeExecution'
    BY <1>1, <1>2, <1>3, <1>4 DEF HandlerGoes, IInv, WorkerInv, RowInv,
       FaultOwned, ApprovedBeforeExecution
  <2> QED
    BY <2>1, <2>2, <2>3, <2>4, <2>5 DEF IInv
<1>5. CASE HandlerReturns(h) /\ UNCHANGED draft
  BY <1>1, <1>2, <1>3, <1>5, HandlerQuits DEF IInv, TypeOK
<1> QED
  BY <1>4, <1>5 DEF BreakGlassDraft

\* The dispatch check clears a quorum or an override.
LEMMA DispatchReadStep ==
    ASSUME IInv, NEW h \in Handlers, DispatchRead(h)
    PROVE  IInv'
<1>1. hrun[h] \in Runs
  BY DEF DispatchRead, IInv, TypeOK, HandlerInv
<1>2. hpc[h] = "dispatch"
  BY DEF DispatchRead
<1>3. UNCHANGED <<rowVars, approvalVars, workerVars, bootVars, journal,
          fault, channel, token, stopAck>>
  BY DEF DispatchRead, AcquirePermit, HandlerGoes, HandlerReturns
<1>4. CASE DispatchCleared(hrun[h]) /\ AcquirePermit /\ HandlerGoes(h, "requeue")
  <2>1. breakGlass[hrun[h]] \/ QuorumMet(decisions[hrun[h]])
    BY <1>1, <1>4, ClearedHasQuorum DEF IInv, ApprovalInv
  <2>2. TypeOK'
    BY <1>1, <1>2, <1>3, <1>4, <2>1 DEF IInv, TypeOK, AcquirePermit,
       HandlerGoes, HandlerPC
  <2>3. HandlerInv'
    BY <1>1, <1>2, <1>3, <1>4, <2>1 DEF AcquirePermit, HandlerGoes, IInv,
       TypeOK, HandlerInv
  <2>4. BootInv'
    BY <1>1, <1>2, <1>3, <1>4, <2>1 DEF AcquirePermit, HandlerGoes, IInv,
       TypeOK, WorkerInv, HandlerInv, BootInv, ACTIVE
  <2>5. ApprovalInv'
    BY <1>1, <1>2, <1>3, <1>4, <2>1 DEF AcquirePermit, HandlerGoes, IInv,
       TypeOK, HandlerInv, RowInv, ApprovalInv
  <2>6. WorkerInv' /\ RowInv' /\ FaultOwned' /\ ApprovedBeforeExecution'
    BY <1>1, <1>2, <1>3, <1>4, <2>1 DEF AcquirePermit, HandlerGoes, IInv,
       WorkerInv, RowInv, FaultOwned, ApprovedBeforeExecution
  <2> QED
    BY <2>2, <2>3, <2>4, <2>5, <2>6 DEF IInv
<1>5. CASE UNCHANGED queueVars /\ HandlerReturns(h)
  BY <1>1, <1>2, <1>3, <1>5, HandlerQuits DEF IInv, TypeOK
<1> QED
  BY <1>4, <1>5 DEF DispatchRead, AcquirePermit, HandlerGoes, HandlerReturns

\* Only a pending row is queued, and what cleared it still holds.
LEMMA DispatchRequeueStep ==
    ASSUME IInv, NEW h \in Handlers, DispatchRequeue(h)
    PROVE  IInv'
<1>1. hrun[h] \in Runs
  BY DEF DispatchRequeue, IInv, TypeOK, HandlerInv
<1>2. hpc[h] = "requeue"
  BY DEF DispatchRequeue
<1>3. UNCHANGED <<approvalVars, workerVars, bootVars, started, rollback,
          journal, fault, channel, token, stopAck>>
  BY DEF DispatchRequeue, HandlerGoes, HandlerReturns, ReleasePermit
<1>4. CASE /\ state[hrun[h]] = "pending_approval"
          /\ state' = [state EXCEPT ![hrun[h]] = "queued"]
          /\ HandlerGoes(h, "send")
          /\ UNCHANGED queueVars
  <2>1. TypeOK'
    BY <1>1, <1>2, <1>3, <1>4 DEF IInv, TypeOK, HandlerGoes, RunState, ACTIVE,
       TERMINAL, HandlerPC
  <2>2. WorkerInv'
    BY <1>1, <1>2, <1>3, <1>4 DEF HandlerGoes, IInv, TypeOK, WorkerInv,
       RowInv, HandlerInv, BootInv, Executing, ACTIVE
  <2>3. HandlerInv'
    BY <1>1, <1>2, <1>3, <1>4 DEF HandlerGoes, IInv, TypeOK, HandlerInv
  <2>4. BootInv'
    BY <1>1, <1>2, <1>3, <1>4 DEF HandlerGoes, IInv, TypeOK, WorkerInv,
       HandlerInv, BootInv, ACTIVE
  <2>5. RowInv'
    BY <1>1, <1>2, <1>3, <1>4 DEF HandlerGoes, IInv, TypeOK, WorkerInv,
       HandlerInv, BootInv, RowInv, ACTIVE, Executing
  <2>6. FaultOwned'
    BY <1>1, <1>2, <1>3, <1>4 DEF HandlerGoes, IInv, TypeOK, WorkerInv,
       HandlerInv, BootInv, RowInv, FaultOwned, ACTIVE, TERMINAL, Executing
  <2>7. ApprovalInv'
    BY <1>1, <1>2, <1>3, <1>4 DEF HandlerGoes, IInv, TypeOK, HandlerInv,
       RowInv, ApprovalInv
  <2>8. ApprovedBeforeExecution'
    BY <1>1, <1>2, <1>3, <1>4 DEF HandlerGoes, IInv, ApprovedBeforeExecution
  <2> QED
    BY <2>1, <2>2, <2>3, <2>4, <2>5, <2>6, <2>7, <2>8 DEF IInv
<1>5. CASE HandlerReturns(h) /\ ReleasePermit /\ UNCHANGED state
  BY <1>1, <1>2, <1>3, <1>5, HandlerQuits DEF ReleasePermit, IInv, TypeOK
<1> QED
  BY <1>4, <1>5 DEF DispatchRequeue, HandlerGoes, HandlerReturns,
     ReleasePermit

\* A stop cancels the token it finds.
LEMMA StopCancelStep ==
    ASSUME IInv, NEW h \in Handlers, NEW r \in Runs, StopCancel(h, r)
    PROVE  IInv'
<1>1. TypeOK'
  BY DEF StopCancel, HandlerStarts, IInv, TypeOK, TokenState, HandlerPC
<1>2. WorkerInv'
  BY DEF StopCancel, HandlerStarts, IInv, TypeOK, WorkerInv, RowInv,
     HandlerInv, BootInv, Executing, ACTIVE
<1>3. HandlerInv'
  BY DEF StopCancel, HandlerStarts, IInv, TypeOK, HandlerInv
<1>4. BootInv'
  BY DEF StopCancel, HandlerStarts, IInv, TypeOK, WorkerInv, HandlerInv,
     BootInv, ACTIVE
<1>5. ApprovalInv'
  BY DEF StopCancel, HandlerStarts, IInv, TypeOK, HandlerInv, RowInv,
     ApprovalInv
<1>6. RowInv' /\ FaultOwned' /\ ApprovedBeforeExecution'
  BY DEF StopCancel, HandlerStarts, IInv, RowInv, FaultOwned,
     ApprovedBeforeExecution
<1> QED
  BY <1>1, <1>2, <1>3, <1>4, <1>5, <1>6 DEF IInv

\* The stop keeps the cleanup of a started run in `stopping'.
LEMMA StopWriteStep ==
    ASSUME IInv, NEW h \in Handlers, StopWrite(h)
    PROVE  IInv'
<1>1. hrun[h] \in Runs
  BY DEF StopWrite, IInv, TypeOK, HandlerInv
<1>2. hpc[h] = "stop" /\ HandlerReturns(h)
  BY DEF StopWrite
<1>3. UNCHANGED <<approvalVars, queueVars, workerVars, bootVars, started,
          journal, fault, token>>
  BY DEF StopWrite, request_run_stop
<1>4. CASE /\ state[hrun[h]] \in Stoppable
          /\ request_run_stop(hrun[h])
          /\ StopAcknowledged(hrun[h])
  <2>1. TypeOK'
    BY <1>1, <1>2, <1>3, <1>4 DEF IInv, StopAcknowledged, StopAck, TypeOK, request_run_stop, Stoppable,
       HandlerReturns, RunState, ACTIVE, TERMINAL, RollbackStatus, HandlerPC
  <2>2. WorkerInv'
    BY <1>1, <1>2, <1>3, <1>4 DEF request_run_stop, Stoppable, HandlerReturns,
       IInv, TypeOK, WorkerInv, RowInv, HandlerInv, BootInv, Executing, ACTIVE
  <2>3. HandlerInv'
    BY <1>1, <1>2, <1>3, <1>4 DEF request_run_stop, Stoppable, HandlerReturns,
       IInv, TypeOK, HandlerInv
  <2>4. BootInv'
    BY <1>1, <1>2, <1>3, <1>4 DEF request_run_stop, Stoppable, HandlerReturns,
       IInv, TypeOK, WorkerInv, HandlerInv, BootInv, ACTIVE
  <2>5. RowInv'
    BY <1>1, <1>2, <1>3, <1>4 DEF request_run_stop, Stoppable, HandlerReturns,
       IInv, TypeOK, WorkerInv, HandlerInv, BootInv, RowInv, ACTIVE, Executing
  <2>6. FaultOwned'
    BY <1>1, <1>2, <1>3, <1>4 DEF request_run_stop, Stoppable, HandlerReturns,
       IInv, TypeOK, WorkerInv, HandlerInv, BootInv, RowInv, FaultOwned,
       ACTIVE, TERMINAL, Executing
  <2>7. ApprovalInv'
    BY <1>1, <1>2, <1>3, <1>4 DEF request_run_stop, Stoppable, HandlerReturns,
       IInv, TypeOK, HandlerInv, RowInv, ApprovalInv
  <2>8. ApprovedBeforeExecution'
    BY <1>1, <1>2, <1>3, <1>4 DEF request_run_stop, Stoppable, HandlerReturns,
       IInv, ApprovedBeforeExecution
  <2> QED
    BY <2>1, <2>2, <2>3, <2>4, <2>5, <2>6, <2>7, <2>8 DEF IInv
<1>5. CASE UNCHANGED <<rowVars, stopAck>>
  BY <1>1, <1>2, <1>3, <1>5, HandlerQuits DEF IInv, TypeOK
<1> QED
  BY <1>4, <1>5 DEF StopWrite, request_run_stop

\* A dropped handler gives its permit back.
LEMMA HandlerDroppedStep ==
    ASSUME IInv, NEW h \in Handlers, HandlerDropped(h)
    PROVE  IInv'
  BY HandlerQuits DEF HandlerDropped, ReleasePermit, IInv, TypeOK

\* The clock changes nothing the invariant speaks of.
LEMMA LapseStep ==
    ASSUME IInv, NEW r \in Runs, Lapse(r)
    PROVE  IInv'
<1>1. TypeOK'
  BY DEF Lapse, IInv, TypeOK
<1>2. WorkerInv' /\ HandlerInv' /\ BootInv' /\ RowInv' /\ FaultOwned' /\
      ApprovalInv' /\ ApprovedBeforeExecution'
  BY DEF Lapse, IInv, WorkerInv, HandlerInv, BootInv, RowInv, FaultOwned,
     ApprovalInv, ApprovedBeforeExecution
<1> QED
  BY <1>1, <1>2 DEF IInv

\* The sweeper expires only pending rows.
LEMMA SweepStep ==
    ASSUME IInv, NEW r \in Runs, Sweep(r)
    PROVE  IInv'
<1>1. TypeOK'
  BY DEF Sweep, finish_run, IInv, TypeOK, RunState, ACTIVE, TERMINAL,
     RollbackStatus
<1>2. WorkerInv'
  BY DEF Sweep, finish_run, IInv, TypeOK, WorkerInv, RowInv, HandlerInv,
     BootInv, Executing, ACTIVE
<1>3. HandlerInv'
  BY DEF Sweep, finish_run, IInv, TypeOK, HandlerInv
<1>4. BootInv'
  BY DEF Sweep, finish_run, IInv, TypeOK, WorkerInv, HandlerInv, BootInv,
     ACTIVE
<1>5. RowInv'
  BY DEF Sweep, finish_run, IInv, TypeOK, WorkerInv, HandlerInv, BootInv,
     RowInv, ACTIVE, Executing
<1>6. FaultOwned'
  BY DEF Sweep, finish_run, IInv, TypeOK, WorkerInv, HandlerInv, BootInv,
     RowInv, FaultOwned, ACTIVE, TERMINAL, Executing
<1>7. ApprovalInv'
  BY DEF Sweep, finish_run, IInv, TypeOK, HandlerInv, RowInv, ApprovalInv
<1>8. ApprovedBeforeExecution'
  BY DEF Sweep, finish_run, IInv, ApprovedBeforeExecution
<1> QED
  BY <1>1, <1>2, <1>3, <1>4, <1>5, <1>6, <1>7, <1>8 DEF IInv

\* A worker takes a run that has no token, so no other worker has it.
LEMMA DequeueStep ==
    ASSUME IInv, NEW w \in Workers, Dequeue(w)
    PROVE  IInv'
<1>1. /\ up /\ wpc[w] = "idle"
      /\ channel' = Tail(channel) /\ permits' = permits + 1
  BY DEF Dequeue
<1>2. Head(channel) \in Runs /\ Tail(channel) \in Seq(Runs)
  BY DEF Dequeue, IInv, TypeOK
<1>3. UNCHANGED <<rowVars, approvalVars, handlerVars, bootVars, journal,
          fault, stopAck>>
  BY DEF Dequeue
<1>4. CASE /\ token[Head(channel)] = "none"
          /\ token' = [token EXCEPT ![Head(channel)] = "live"]
          /\ wpc' = [wpc EXCEPT ![w] = "verify"]
          /\ wrun' = [wrun EXCEPT ![w] = Head(channel)]
          /\ UNCHANGED <<wstatus, wrb>>
  <2>1. TypeOK'
    BY <1>1, <1>2, <1>3, <1>4 DEF IInv, TypeOK, TokenState, WorkerPC
  <2>2. WorkerInv'
    BY <1>1, <1>2, <1>3, <1>4 DEF IInv, TypeOK, WorkerInv, RowInv, HandlerInv,
       BootInv, Executing, ACTIVE
  <2>3. BootInv'
    BY <1>1, <1>2, <1>3, <1>4 DEF IInv, TypeOK, WorkerInv, HandlerInv,
       BootInv, ACTIVE
  <2>4. HandlerInv' /\ RowInv' /\ FaultOwned' /\ ApprovalInv' /\
        ApprovedBeforeExecution'
    BY <1>1, <1>2, <1>3, <1>4 DEF IInv, HandlerInv, RowInv, FaultOwned,
       ApprovalInv, ApprovedBeforeExecution
  <2> QED
    BY <2>1, <2>2, <2>3, <2>4 DEF IInv
<1>5. CASE UNCHANGED <<token, workerVars>>
  <2>1. TypeOK'
    BY <1>1, <1>2, <1>3, <1>5 DEF IInv, TypeOK
  <2>2. WorkerInv' /\ HandlerInv' /\ BootInv' /\ RowInv' /\ FaultOwned' /\
        ApprovalInv' /\ ApprovedBeforeExecution'
    BY <1>1, <1>2, <1>3, <1>5 DEF IInv, WorkerInv, HandlerInv, BootInv,
       RowInv, FaultOwned, ApprovalInv, ApprovedBeforeExecution
  <2> QED
    BY <2>1, <2>2 DEF IInv
<1> QED
  BY <1>4, <1>5 DEF Dequeue

\* The second look at the row decides where the worker goes.
LEMMA VerifyApprovalStep ==
    ASSUME IInv, NEW w \in Workers, VerifyApproval(w)
    PROVE  IInv'
<1>1. wrun[w] \in Runs
  BY DEF VerifyApproval, IInv, TypeOK, WorkerInv
<1>2. wpc[w] = "verify"
  BY DEF VerifyApproval
<1>3. UNCHANGED <<rowVars, approvalVars, queueVars, handlerVars, bootVars,
          journal, fault, stopAck>>
  BY DEF VerifyApproval
<1>4. CASE WorkerLeaves(w)
  BY <1>1, <1>2, <1>3, <1>4, WorkerQuits DEF IInv, TypeOK
<1>5. CASE WorkerGoes(w, "claim") /\ UNCHANGED token
  BY <1>1, <1>2, <1>3, <1>5, WorkerMoves DEF IInv, WorkerInv
<1>6. CASE WorkerGoes(w, "refuse") /\ UNCHANGED token
  BY <1>1, <1>2, <1>3, <1>6, WorkerMoves DEF IInv, WorkerInv
<1> QED
  BY <1>4, <1>5, <1>6 DEF VerifyApproval

\* A failed run that started stays `rollback_pending'.
LEMMA RecordFailureStep ==
    ASSUME IInv, NEW w \in Workers, RecordFailure(w)
    PROVE  IInv'
<1>1. wrun[w] \in Runs
  BY DEF RecordFailure, IInv, TypeOK, WorkerInv
<1>2. wpc[w] \in {"refuse", "fail"} /\ WorkerLeaves(w)
  BY DEF RecordFailure
<1>3. UNCHANGED <<approvalVars, queueVars, handlerVars, bootVars, started,
          rollback, journal, fault, stopAck>>
  BY DEF RecordFailure, fail_run
<1>4. CASE fail_run(wrun[w])
  <2>1. TypeOK'
    BY <1>1, <1>2, <1>3, <1>4 DEF IInv, TypeOK, fail_run, WorkerLeaves,
       RunState, ACTIVE, TERMINAL, WorkerPC, Status, RollbackResults,
       TokenState
  <2>2. WorkerInv'
    BY <1>1, <1>2, <1>3, <1>4 DEF fail_run, WorkerLeaves, IInv, TypeOK,
       WorkerInv, RowInv, HandlerInv, BootInv, Executing, ACTIVE
  <2>3. HandlerInv'
    BY <1>1, <1>2, <1>3, <1>4 DEF fail_run, WorkerLeaves, IInv, TypeOK,
       HandlerInv
  <2>4. BootInv'
    BY <1>1, <1>2, <1>3, <1>4 DEF fail_run, WorkerLeaves, IInv, TypeOK,
       WorkerInv, HandlerInv, BootInv, ACTIVE
  <2>5. RowInv'
    BY <1>1, <1>2, <1>3, <1>4 DEF fail_run, WorkerLeaves, IInv, TypeOK,
       WorkerInv, HandlerInv, BootInv, RowInv, ACTIVE, Executing
  <2>6. FaultOwned'
    BY <1>1, <1>2, <1>3, <1>4 DEF fail_run, WorkerLeaves, IInv, TypeOK,
       WorkerInv, HandlerInv, BootInv, RowInv, FaultOwned, ACTIVE, TERMINAL,
       Executing
  <2>7. ApprovalInv'
    BY <1>1, <1>2, <1>3, <1>4 DEF fail_run, WorkerLeaves, IInv, TypeOK,
       HandlerInv, RowInv, ApprovalInv
  <2>8. ApprovedBeforeExecution'
    BY <1>1, <1>2, <1>3, <1>4 DEF fail_run, WorkerLeaves, IInv,
       ApprovedBeforeExecution
  <2> QED
    BY <2>1, <2>2, <2>3, <2>4, <2>5, <2>6, <2>7, <2>8 DEF IInv
<1>5. CASE UNCHANGED rowVars
  BY <1>1, <1>2, <1>3, <1>5, WorkerQuits
<1> QED
  BY <1>4, <1>5 DEF RecordFailure, fail_run

\* The claim moves a queued row to `validating'.
LEMMA ClaimRunStep ==
    ASSUME IInv, NEW w \in Workers, ClaimRun(w)
    PROVE  IInv'
<1>1. wrun[w] \in Runs
  BY DEF ClaimRun, IInv, TypeOK, WorkerInv
<1>2. wpc[w] = "claim"
  BY DEF ClaimRun
<1>3. UNCHANGED <<approvalVars, queueVars, handlerVars, bootVars, started,
          rollback, journal, fault, stopAck>>
  BY DEF ClaimRun
<1>4. CASE /\ state[wrun[w]] = "queued"
          /\ state' = [state EXCEPT ![wrun[w]] = "validating"]
          /\ WorkerGoes(w, "validate")
          /\ UNCHANGED token
  <2>1. TypeOK'
    BY <1>1, <1>2, <1>3, <1>4 DEF IInv, TypeOK, WorkerGoes, RunState, ACTIVE,
       TERMINAL, WorkerPC
  <2>2. WorkerInv'
    BY <1>1, <1>2, <1>3, <1>4 DEF WorkerGoes, IInv, TypeOK, WorkerInv, RowInv,
       HandlerInv, BootInv, Executing, ACTIVE
  <2>3. HandlerInv'
    BY <1>1, <1>2, <1>3, <1>4 DEF WorkerGoes, IInv, TypeOK, HandlerInv
  <2>4. BootInv'
    BY <1>1, <1>2, <1>3, <1>4 DEF WorkerGoes, IInv, TypeOK, WorkerInv,
       HandlerInv, BootInv, ACTIVE
  <2>5. RowInv'
    BY <1>1, <1>2, <1>3, <1>4 DEF WorkerGoes, IInv, TypeOK, WorkerInv,
       HandlerInv, BootInv, RowInv, ACTIVE, Executing
  <2>6. FaultOwned'
    BY <1>1, <1>2, <1>3, <1>4 DEF WorkerGoes, IInv, TypeOK, WorkerInv,
       HandlerInv, BootInv, RowInv, FaultOwned, ACTIVE, TERMINAL, Executing
  <2>7. ApprovalInv'
    BY <1>1, <1>2, <1>3, <1>4 DEF WorkerGoes, IInv, TypeOK, HandlerInv,
       RowInv, ApprovalInv
  <2>8. ApprovedBeforeExecution'
    BY <1>1, <1>2, <1>3, <1>4 DEF WorkerGoes, IInv, ApprovedBeforeExecution
  <2> QED
    BY <2>1, <2>2, <2>3, <2>4, <2>5, <2>6, <2>7, <2>8 DEF IInv
<1>5. CASE WorkerLeaves(w) /\ UNCHANGED state
  BY <1>1, <1>2, <1>3, <1>5, WorkerQuits DEF IInv, TypeOK
<1> QED
  BY <1>4, <1>5 DEF ClaimRun

\* Validation writes nothing.
LEMMA ValidateDispatchStep ==
    ASSUME IInv, NEW w \in Workers, ValidateDispatch(w)
    PROVE  IInv'
<1>1. wrun[w] \in Runs
  BY DEF ValidateDispatch, IInv, TypeOK, WorkerInv
<1>2. wpc[w] = "validate"
  BY DEF ValidateDispatch
<1>3. UNCHANGED <<rowVars, approvalVars, queueVars, handlerVars, bootVars,
          journal, fault, stopAck>>
  BY DEF ValidateDispatch
<1>4. CASE WorkerGoes(w, "fail") /\ UNCHANGED token
  BY <1>1, <1>2, <1>3, <1>4, WorkerMoves
<1>5. CASE WorkerLeaves(w)
  BY <1>1, <1>2, <1>3, <1>5, WorkerQuits DEF IInv, TypeOK
<1>6. CASE WorkerGoes(w, "begin") /\ UNCHANGED token
  BY <1>1, <1>2, <1>3, <1>6, WorkerMoves DEF IInv, WorkerInv
<1> QED
  BY <1>4, <1>5, <1>6 DEF ValidateDispatch

\* The start consumes an approval that is still good.
LEMMA BeginRunExecutionStep ==
    ASSUME IInv, NEW w \in Workers, BeginRunExecution(w)
    PROVE  IInv'
<1>1. wrun[w] \in Runs
  BY DEF BeginRunExecution, IInv, TypeOK, WorkerInv
<1>2. wpc[w] = "begin"
  BY DEF BeginRunExecution
<1>3. UNCHANGED <<queueVars, handlerVars, bootVars, rollback, decisions,
          breakGlass, lapsed, draft, journal, fault, token, stopAck>>
  BY DEF BeginRunExecution
<1>4. CASE /\ state[wrun[w]] = "validating"
          /\ state' = [state EXCEPT ![wrun[w]] = "running"]
          /\ started' = [started EXCEPT ![wrun[w]] = TRUE]
          /\ consumed' = [consumed EXCEPT ![wrun[w]] = wrun[w] \in Gated]
          /\ WorkerGoes(w, "run")
  <2>1. TypeOK'
    BY <1>1, <1>2, <1>3, <1>4 DEF IInv, TypeOK, WorkerGoes, RunState, ACTIVE,
       TERMINAL, WorkerPC
  <2>0. journal[wrun[w]] = "absent"
    BY <1>1, <1>4 DEF IInv, RowInv
  <2>2. WorkerInv'
    BY <1>1, <1>2, <1>3, <1>4, <2>0 DEF WorkerGoes, IInv, TypeOK, WorkerInv, RowInv,
       HandlerInv, BootInv, Executing, ACTIVE
  <2>3. HandlerInv'
    BY <1>1, <1>2, <1>3, <1>4 DEF WorkerGoes, IInv, TypeOK, HandlerInv
  <2>4. BootInv'
    BY <1>1, <1>2, <1>3, <1>4 DEF WorkerGoes, IInv, TypeOK, WorkerInv,
       HandlerInv, BootInv, ACTIVE
  <2>5. RowInv'
    BY <1>1, <1>2, <1>3, <1>4 DEF WorkerGoes, IInv, TypeOK, WorkerInv,
       HandlerInv, BootInv, RowInv, ACTIVE, Executing
  <2>6. FaultOwned'
    BY <1>1, <1>2, <1>3, <1>4 DEF WorkerGoes, IInv, TypeOK, WorkerInv,
       HandlerInv, BootInv, RowInv, FaultOwned, ACTIVE, TERMINAL, Executing
  <2>7. ApprovalInv'
    BY <1>1, <1>2, <1>3, <1>4 DEF WorkerGoes, IInv, TypeOK, HandlerInv,
       RowInv, ApprovalInv
  <2>8. ApprovedBeforeExecution'
    <3> SUFFICES ASSUME NEW r \in Gated, started'[r]
                 PROVE  consumed'[r] /\ (breakGlass[r] \/ QuorumMet(decisions[r]))
      BY <1>3 DEF ApprovedBeforeExecution, QuorumMet
    <3>1. r \in Runs
      BY GatedAssumption
    <3>2. CASE r = wrun[w]
      <4>1. consumed'[r]
        BY <1>1, <1>4, <3>2 DEF IInv, TypeOK
      <4>2. breakGlass[r] \/ QuorumMet(decisions[r])
        BY <1>4, <3>1, <3>2 DEF IInv, ApprovalInv
      <4> QED  BY <4>1, <4>2
    <3>3. CASE r # wrun[w]
      <4>1. started[r] /\ consumed'[r] = consumed[r]
        BY <1>4, <3>1, <3>3 DEF IInv, TypeOK
      <4> QED  BY <4>1 DEF IInv, ApprovedBeforeExecution
    <3> QED  BY <3>2, <3>3
  <2> QED
    BY <2>1, <2>2, <2>3, <2>4, <2>5, <2>6, <2>7, <2>8 DEF IInv
<1>5. CASE WorkerGoes(w, "fail") /\ UNCHANGED <<state, started, consumed>>
  BY <1>1, <1>2, <1>3, <1>5, WorkerMoves
<1> QED
  BY <1>4, <1>5 DEF BeginRunExecution

\* A fault appears only under a started run.
LEMMA InjectFaultStep ==
    ASSUME IInv, NEW w \in Workers, InjectFault(w)
    PROVE  IInv'
<1>1. wrun[w] \in Runs
  BY DEF InjectFault, IInv, TypeOK, WorkerInv
<1>2. wrb[w] = "none"
  BY DEF InjectFault, IInv, WorkerInv
<1>3. TypeOK'
  BY <1>1, <1>2 DEF InjectFault, IInv, TypeOK
<1>4. WorkerInv'
  BY <1>1, <1>2 DEF InjectFault, IInv, TypeOK, WorkerInv, RowInv, HandlerInv,
     BootInv, Executing, ACTIVE
<1>5. BootInv'
  BY <1>1, <1>2 DEF InjectFault, IInv, TypeOK, WorkerInv, HandlerInv, BootInv,
     ACTIVE
<1>6. FaultOwned'
  BY <1>1, <1>2 DEF InjectFault, IInv, TypeOK, WorkerInv, HandlerInv, BootInv,
     RowInv, FaultOwned, ACTIVE, TERMINAL, Executing
<1>7. HandlerInv' /\ RowInv' /\ ApprovalInv' /\ ApprovedBeforeExecution'
  BY <1>1, <1>2 DEF InjectFault, IInv, HandlerInv, RowInv, ApprovalInv,
     ApprovedBeforeExecution
<1> QED
  BY <1>3, <1>4, <1>5, <1>6, <1>7 DEF IInv

\* An early return rolls back or had nothing to undo.
LEMMA RunnerStopsEarlyStep ==
    ASSUME IInv, NEW w \in Workers, RunnerStopsEarly(w)
    PROVE  IInv'
<1>1. wrun[w] \in Runs
  BY DEF RunnerStopsEarly, IInv, TypeOK, WorkerInv
<1>2. /\ wpc[w] = "run"
      /\ wpc' = [wpc EXCEPT ![w] = "record"]
  BY DEF RunnerStopsEarly
<1>3. PICK s \in {"Aborted", "Halted", "Interrupted"} :
        wstatus' = [wstatus EXCEPT ![w] = s]
  BY DEF RunnerStopsEarly
<1>4. UNCHANGED <<rowVars, approvalVars, queueVars, handlerVars, bootVars,
          journal, token, wrun, stopAck>>
  BY DEF RunnerStopsEarly
<1>5. CASE run_rollbacks(w, TRUE)
  <2>1. TypeOK'
    BY <1>1, <1>2, <1>3, <1>4, <1>5 DEF IInv, TypeOK, run_rollbacks, WorkerPC,
       Status, RollbackResults
  <2>2. WorkerInv'
    BY <1>1, <1>2, <1>3, <1>4, <1>5 DEF run_rollbacks, IInv, TypeOK,
       WorkerInv, RowInv, HandlerInv, BootInv, Executing, ACTIVE
  <2>3. BootInv'
    BY <1>1, <1>2, <1>3, <1>4, <1>5 DEF run_rollbacks, IInv, TypeOK,
       WorkerInv, HandlerInv, BootInv, ACTIVE
  <2>4. FaultOwned'
    BY <1>1, <1>2, <1>3, <1>4, <1>5 DEF run_rollbacks, IInv, TypeOK,
       WorkerInv, HandlerInv, BootInv, RowInv, FaultOwned, ACTIVE, TERMINAL,
       Executing
  <2>5. HandlerInv' /\ RowInv' /\ ApprovalInv' /\ ApprovedBeforeExecution'
    BY <1>1, <1>2, <1>3, <1>4, <1>5 DEF run_rollbacks, IInv, HandlerInv,
       RowInv, ApprovalInv, ApprovedBeforeExecution
  <2> QED
    BY <2>1, <2>2, <2>3, <2>4, <2>5 DEF IInv
<1>6. CASE ~fault[wrun[w]] /\ run_rollbacks(w, FALSE)
  <2>1. TypeOK'
    BY <1>1, <1>2, <1>3, <1>4, <1>6 DEF IInv, TypeOK, run_rollbacks, WorkerPC,
       Status, RollbackResults
  <2>2. WorkerInv'
    BY <1>1, <1>2, <1>3, <1>4, <1>6 DEF run_rollbacks, IInv, TypeOK,
       WorkerInv, RowInv, HandlerInv, BootInv, Executing, ACTIVE
  <2>3. BootInv'
    BY <1>1, <1>2, <1>3, <1>4, <1>6 DEF run_rollbacks, IInv, TypeOK,
       WorkerInv, HandlerInv, BootInv, ACTIVE
  <2>4. FaultOwned'
    BY <1>1, <1>2, <1>3, <1>4, <1>6 DEF run_rollbacks, IInv, TypeOK,
       WorkerInv, HandlerInv, BootInv, RowInv, FaultOwned, ACTIVE, TERMINAL,
       Executing
  <2>5. HandlerInv' /\ RowInv' /\ ApprovalInv' /\ ApprovedBeforeExecution'
    BY <1>1, <1>2, <1>3, <1>4, <1>6 DEF run_rollbacks, IInv, HandlerInv,
       RowInv, ApprovalInv, ApprovedBeforeExecution
  <2> QED
    BY <2>1, <2>2, <2>3, <2>4, <2>5 DEF IInv
<1> QED
  BY <1>5, <1>6 DEF RunnerStopsEarly

\* The runner decides its status and runs its rollbacks.
LEMMA RunnerJudgesStep ==
    ASSUME IInv, NEW w \in Workers, RunnerJudges(w)
    PROVE  IInv'
<1>1. wrun[w] \in Runs
  BY DEF RunnerJudges, IInv, TypeOK, WorkerInv
<1>2. /\ wpc[w] = "run"
      /\ wpc' = [wpc EXCEPT ![w] = "judged"]
  BY DEF RunnerJudges
<1>3. PICK s \in {"Completed", "Deviated", "Failed", "Interrupted"},
           wanted \in BOOLEAN :
        wstatus' = [wstatus EXCEPT ![w] = s] /\ run_rollbacks(w, wanted)
  BY DEF RunnerJudges, IInv, TypeOK
<1>4. UNCHANGED <<rowVars, approvalVars, queueVars, handlerVars, bootVars,
                 journal, token, wrun, stopAck>>
  BY DEF RunnerJudges
<1>5. TypeOK'
  BY <1>1, <1>2, <1>3, <1>4 DEF run_rollbacks, IInv, TypeOK, WorkerPC, Status,
     RollbackResults
<1>6. WorkerInv'
  BY <1>1, <1>2, <1>3, <1>4 DEF run_rollbacks, IInv, TypeOK, WorkerInv,
     RowInv, HandlerInv, BootInv, Executing, ACTIVE
<1>7. BootInv'
  BY <1>1, <1>2, <1>3, <1>4 DEF run_rollbacks, IInv, TypeOK, WorkerInv,
     HandlerInv, BootInv, ACTIVE
<1>8. FaultOwned'
  BY <1>1, <1>2, <1>3, <1>4 DEF run_rollbacks, IInv, TypeOK, WorkerInv,
     HandlerInv, BootInv, RowInv, FaultOwned, ACTIVE, TERMINAL, Executing
<1>9. HandlerInv' /\ RowInv' /\ ApprovalInv' /\ ApprovedBeforeExecution'
  BY <1>1, <1>2, <1>3, <1>4 DEF run_rollbacks, IInv, HandlerInv, RowInv,
     ApprovalInv, ApprovedBeforeExecution
<1> QED
  BY <1>5, <1>6, <1>7, <1>8, <1>9 DEF IInv

\* The last look at the token changes the status only.
LEMMA RunnerReturnsStep ==
    ASSUME IInv, NEW w \in Workers, RunnerReturns(w)
    PROVE  IInv'
<1>1. TypeOK'
  BY DEF RunnerReturns, IInv, TypeOK, WorkerPC, Status
<1>2. WorkerInv'
  BY DEF RunnerReturns, IInv, TypeOK, WorkerInv, RowInv, HandlerInv, BootInv,
     Executing, ACTIVE
<1>3. BootInv'
  BY DEF RunnerReturns, IInv, TypeOK, WorkerInv, HandlerInv, BootInv, ACTIVE
<1>4. HandlerInv' /\ RowInv' /\ FaultOwned' /\ ApprovalInv' /\
      ApprovedBeforeExecution'
  BY DEF RunnerReturns, IInv, HandlerInv, RowInv, FaultOwned, ApprovalInv,
     ApprovedBeforeExecution
<1> QED
  BY <1>1, <1>2, <1>3, <1>4 DEF IInv

\* A dead runner leaves its run to record_failure.
LEMMA RunnerDiesStep ==
    ASSUME IInv, NEW w \in Workers, RunnerDies(w)
    PROVE  IInv'
  BY WorkerMoves DEF RunnerDies

\* A closure that fails leaves everything it has not written.
LEMMA CompletionFailsStep ==
    ASSUME IInv, NEW w \in Workers, wpc[w] \in {"record", "ingest", "finish"},
           CompletionFails(w),
           UNCHANGED <<approvalVars, fault, queueVars, handlerVars, bootVars,
                       stopAck>>
    PROVE  IInv'
<1>1. wrun[w] \in Runs
  BY DEF IInv, TypeOK, WorkerInv
<1>2. WorkerGoes(w, "unrecorded") /\ UNCHANGED <<rowVars, journal, token>>
  BY DEF CompletionFails
<1>3. TypeOK'
  BY <1>1, <1>2 DEF IInv, TypeOK, WorkerGoes, WorkerPC
<1>4. WorkerInv'
  BY <1>1, <1>2 DEF WorkerGoes, IInv, TypeOK, WorkerInv, Executing
<1>5. BootInv'
  BY <1>1, <1>2 DEF WorkerGoes, IInv, TypeOK, BootInv, ACTIVE
<1>6. HandlerInv' /\ RowInv' /\ FaultOwned' /\ ApprovalInv' /\
      ApprovedBeforeExecution'
  BY <1>2 DEF WorkerGoes, IInv, HandlerInv, RowInv, FaultOwned, ApprovalInv,
     ApprovedBeforeExecution
<1> QED
  BY <1>3, <1>4, <1>5, <1>6 DEF IInv

\* The look at the token takes the writer.
LEMMA RecordCheckStep ==
    ASSUME IInv, NEW w \in Workers, RecordCheck(w)
    PROVE  IInv'
<1>1. wrun[w] \in Runs
  BY DEF RecordCheck, IInv, TypeOK, WorkerInv
<1>2. /\ wpc[w] = "record" /\ WriterFree
      /\ UNCHANGED <<approvalVars, fault, queueVars, handlerVars, bootVars,
                     stopAck>>
  BY DEF RecordCheck
<1>3. CASE WorkerGoes(w, "ingest") /\ UNCHANGED <<rowVars, journal, token>>
  <2>1. TypeOK'
    BY <1>1, <1>2, <1>3 DEF IInv, TypeOK, WorkerGoes, WorkerPC
  <2>2. WorkerInv'
    BY <1>1, <1>2, <1>3 DEF WorkerGoes, WriterFree, IInv, TypeOK, WorkerInv,
       Executing
  <2>3. BootInv'
    BY <1>1, <1>2, <1>3 DEF WorkerGoes, IInv, TypeOK, BootInv, ACTIVE
  <2>4. HandlerInv' /\ RowInv' /\ FaultOwned' /\ ApprovalInv' /\
        ApprovedBeforeExecution'
    BY <1>2, <1>3 DEF WorkerGoes, IInv, HandlerInv, RowInv, FaultOwned,
       ApprovalInv, ApprovedBeforeExecution
  <2> QED
    BY <2>1, <2>2, <2>3, <2>4 DEF IInv
<1>4. CASE CompletionFails(w)
  BY <1>2, <1>4, CompletionFailsStep
<1> QED
  BY <1>3, <1>4 DEF RecordCheck

\* The journal is stored once; one that was there already belongs to the same
\* run, so it admits to no rollback if the worker's own has none.
LEMMA RecordIngestStep ==
    ASSUME IInv, NEW w \in Workers, RecordIngest(w)
    PROVE  IInv'
<1>1. wrun[w] \in Runs
  BY DEF RecordIngest, IInv, TypeOK, WorkerInv
<1>2. /\ wpc[w] = "ingest"
      /\ UNCHANGED <<approvalVars, fault, queueVars, handlerVars, bootVars,
                     stopAck>>
  BY DEF RecordIngest
<1>3. started[wrun[w]] /\ state[wrun[w]] \in {"running", "stopping"}
  BY <1>2 DEF IInv, WorkerInv, Executing
<1>4. CASE /\ journal' = [journal EXCEPT ![wrun[w]] =
                           IF @ = "absent" THEN wrb[w] ELSE @]
          /\ WorkerGoes(w, "finish")
          /\ UNCHANGED <<rowVars, token>>
  <2>1. TypeOK'
    BY <1>1, <1>2, <1>4 DEF IInv, TypeOK, WorkerGoes, RollbackResults, WorkerPC
  <2>2. WorkerInv'
    BY <1>1, <1>2, <1>4 DEF WorkerGoes, IInv, TypeOK, WorkerInv, Executing,
       RollbackResults
  <2>3. BootInv'
    BY <1>1, <1>2, <1>4 DEF WorkerGoes, IInv, TypeOK, BootInv, ACTIVE
  <2>4. RowInv'
    BY <1>1, <1>2, <1>3, <1>4 DEF WorkerGoes, IInv, TypeOK, RowInv
  <2>5. FaultOwned'
    BY <1>1, <1>2, <1>3, <1>4 DEF WorkerGoes, IInv, TypeOK, FaultOwned, TERMINAL
  <2>6. HandlerInv' /\ ApprovalInv' /\ ApprovedBeforeExecution'
    BY <1>2, <1>4 DEF WorkerGoes, IInv, HandlerInv, ApprovalInv,
       ApprovedBeforeExecution
  <2> QED
    BY <2>1, <2>2, <2>3, <2>4, <2>5, <2>6 DEF IInv
<1>5. CASE CompletionFails(w)
  BY <1>2, <1>5, CompletionFailsStep
<1> QED
  BY <1>4, <1>5 DEF RecordIngest

\* A completion with a live fault is either `rollback_pending' or the stored
\* journal says that no rollback ran.
LEMMA RecordFinishStep ==
    ASSUME IInv, NEW w \in Workers, RecordFinish(w)
    PROVE  IInv'
<1>1. wrun[w] \in Runs
  BY DEF RecordFinish, IInv, TypeOK, WorkerInv
<1>2. wpc[w] = "finish" /\ wpc[w] \in Executing
  BY DEF RecordFinish, Executing
<1>3. UNCHANGED <<approvalVars, queueVars, handlerVars, bootVars, started,
          fault, journal, stopAck>>
  BY DEF RecordFinish, CompletionFails, finish_run
<1>4. CASE /\ finish_run(wrun[w], CompletionState(w), CompletionRollback(w))
          /\ WorkerLeaves(w)
  <2>1. CompletionState(w) \in {"passed", "deviated", "failed", "aborted", "rollback_pending"}
    BY DEF CompletionState, terminal_state
  <2>2. CompletionRollback(w) \in RollbackStatus
    BY DEF CompletionRollback, RollbackStatus
  <2>3. wrb[w] = "failed" <=> CompletionState(w) = "rollback_pending"
    BY DEF CompletionState, terminal_state
  <2>4. TypeOK'
    BY <1>1, <1>2, <1>3, <1>4, <2>1, <2>2, <2>3 DEF IInv, TypeOK, finish_run,
       WorkerLeaves, RunState, ACTIVE, TERMINAL, RollbackStatus,
       RollbackResults, WorkerPC, Status, TokenState
  <2>5. WorkerInv'
    BY <1>1, <1>2, <1>3, <1>4, <2>1, <2>2, <2>3 DEF finish_run, WorkerLeaves,
       IInv, TypeOK, WorkerInv, RowInv, HandlerInv, BootInv, Executing, ACTIVE
  <2>6. HandlerInv'
    <3>1. state[wrun[w]] # "absent"
      BY <1>2 DEF IInv, WorkerInv
    <3> QED
      BY <1>1, <1>3, <1>4, <3>1 DEF finish_run, IInv, TypeOK, HandlerInv
  <2>7. BootInv'
    BY <1>1, <1>2, <1>3, <1>4, <2>1, <2>2, <2>3 DEF finish_run, WorkerLeaves,
       IInv, TypeOK, WorkerInv, HandlerInv, BootInv, ACTIVE
  <2>8. RowInv'
    BY <1>1, <1>2, <1>3, <1>4, <2>1, <2>2, <2>3 DEF finish_run, WorkerLeaves,
       IInv, TypeOK, WorkerInv, HandlerInv, BootInv, RowInv, ACTIVE, Executing
  <2>9. FaultOwned'
    BY <1>1, <1>2, <1>3, <1>4, <2>1, <2>2, <2>3 DEF finish_run, WorkerLeaves,
       IInv, TypeOK, WorkerInv, HandlerInv, BootInv, RowInv, FaultOwned,
       ACTIVE, TERMINAL, Executing, RollbackResults
  <2>10. ApprovalInv'
    BY <1>1, <1>2, <1>3, <1>4, <2>1, <2>2, <2>3 DEF finish_run, WorkerLeaves,
       IInv, TypeOK, HandlerInv, RowInv, ApprovalInv
  <2>11. ApprovedBeforeExecution'
    BY <1>1, <1>2, <1>3, <1>4, <2>1, <2>2, <2>3 DEF finish_run, WorkerLeaves,
       IInv, ApprovedBeforeExecution
  <2> QED
    BY <2>4, <2>5, <2>6, <2>7, <2>8, <2>9, <2>10, <2>11 DEF IInv
<1>5. CASE CompletionFails(w)
  BY <1>2, <1>3, <1>5, CompletionFailsStep
<1> QED
  BY <1>4, <1>5 DEF RecordFinish

\* The late cleanup owns the same run and the same row.
LEMMA LateStopCleanupStep ==
    ASSUME IInv, NEW w \in Workers, LateStopCleanup(w)
    PROVE  IInv'
<1>1. wrun[w] \in Runs
  BY DEF LateStopCleanup, IInv, TypeOK, WorkerInv
<1>2. wpc[w] = "unrecorded"
  BY DEF LateStopCleanup
<1>3. UNCHANGED <<rowVars, approvalVars, queueVars, handlerVars, bootVars,
          journal, stopAck>>
  BY DEF LateStopCleanup
<1>4. CASE WorkerLeaves(w) /\ UNCHANGED fault
  BY <1>1, <1>2, <1>3, <1>4, WorkerQuits DEF IInv, TypeOK
<1>5. CASE /\ run_rollbacks(w, TRUE)
          /\ wstatus' = [wstatus EXCEPT ![w] = "Interrupted"]
          /\ wpc' = [wpc EXCEPT ![w] = "record"]
          /\ UNCHANGED <<wrun, token>>
  <2>1. TypeOK'
    BY <1>1, <1>2, <1>3, <1>5 DEF IInv, TypeOK, run_rollbacks, WorkerPC,
       Status, RollbackResults
  <2>2. WorkerInv'
    BY <1>1, <1>2, <1>3, <1>5 DEF run_rollbacks, IInv, TypeOK, WorkerInv,
       RowInv, HandlerInv, BootInv, Executing, ACTIVE
  <2>3. BootInv'
    BY <1>1, <1>2, <1>3, <1>5 DEF run_rollbacks, IInv, TypeOK, WorkerInv,
       HandlerInv, BootInv, ACTIVE
  <2>4. FaultOwned'
    BY <1>1, <1>2, <1>3, <1>5 DEF run_rollbacks, IInv, TypeOK, WorkerInv,
       HandlerInv, BootInv, RowInv, FaultOwned, ACTIVE, TERMINAL, Executing
  <2>5. HandlerInv' /\ RowInv' /\ ApprovalInv' /\ ApprovedBeforeExecution'
    BY <1>1, <1>2, <1>3, <1>5 DEF run_rollbacks, IInv, HandlerInv, RowInv,
       ApprovalInv, ApprovedBeforeExecution
  <2> QED
    BY <2>1, <2>2, <2>3, <2>4, <2>5 DEF IInv
<1>6. CASE /\ UNCHANGED <<wrb, fault>>
          /\ wstatus' = [wstatus EXCEPT ![w] = "Interrupted"]
          /\ wpc' = [wpc EXCEPT ![w] = "record"]
          /\ UNCHANGED <<wrun, token>>
  <2>1. TypeOK'
    BY <1>1, <1>2, <1>3, <1>6 DEF IInv, TypeOK, WorkerPC, Status
  <2>2. WorkerInv'
    BY <1>1, <1>2, <1>3, <1>6 DEF IInv, TypeOK, WorkerInv, RowInv, HandlerInv,
       BootInv, Executing, ACTIVE
  <2>3. BootInv'
    BY <1>1, <1>2, <1>3, <1>6 DEF IInv, TypeOK, WorkerInv, HandlerInv,
       BootInv, ACTIVE
  <2>4. HandlerInv' /\ RowInv' /\ FaultOwned' /\ ApprovalInv' /\
        ApprovedBeforeExecution'
    BY <1>1, <1>2, <1>3, <1>6 DEF IInv, HandlerInv, RowInv, FaultOwned,
       ApprovalInv, ApprovedBeforeExecution
  <2> QED
    BY <2>1, <2>2, <2>3, <2>4 DEF IInv
<1>7. CASE WorkerGoes(w, "fail") /\ UNCHANGED <<fault, token>>
  BY <1>1, <1>2, <1>3, <1>7, WorkerMoves
<1> QED
  BY <1>4, <1>5, <1>6, <1>7 DEF LateStopCleanup

\* A crash keeps the rows, and every active one is in todo.
LEMMA CrashRestartStep ==
    ASSUME IInv, CrashRestart
    PROVE  IInv'
<1>1. /\ todo' = {r \in Runs : state[r] \in ACTIVE} /\ ~up'
      /\ recon' = [run |-> None, pc |-> "idle", outcome |-> "none"]
      /\ permits' = QueueDepth /\ channel' = <<>> /\ crashes' = crashes + 1
  BY DEF CrashRestart, NotReconciling
<1>2. /\ token' = [r \in Runs |-> "none"]
      /\ wpc' = [w \in Workers |-> "idle"]
      /\ wrun' = [w \in Workers |-> None]
      /\ wstatus' = [w \in Workers |-> "none"]
      /\ wrb' = [w \in Workers |-> "none"]
  BY DEF CrashRestart
<1>3. /\ hpc' = [h \in Handlers |-> "idle"]
      /\ hrun' = [h \in Handlers |-> None]
      /\ hwho' = [h \in Handlers |-> None]
  BY DEF CrashRestart
<1>4. UNCHANGED <<rowVars, approvalVars, journal, fault, stopAck>> /\ up' \in BOOLEAN
  BY DEF CrashRestart
<1>5. TypeOK'
  BY <1>1, <1>2, <1>3, <1>4 DEF IInv, TypeOK, WorkerPC, Status,
     RollbackResults, TokenState, HandlerPC, ReconPC, OrphanOutcome
<1>6. WorkerInv'
  BY <1>1, <1>2, <1>3, <1>4 DEF IInv, TypeOK, WorkerInv, RowInv, HandlerInv,
     BootInv, Executing, ACTIVE
<1>7. HandlerInv'
  BY <1>1, <1>2, <1>3, <1>4 DEF IInv, TypeOK, HandlerInv
<1>8. BootInv'
  BY <1>1, <1>2, <1>3, <1>4 DEF IInv, TypeOK, WorkerInv, HandlerInv, BootInv,
     ACTIVE
<1>9. ApprovalInv'
  BY <1>1, <1>2, <1>3, <1>4 DEF IInv, TypeOK, HandlerInv, RowInv, ApprovalInv
<1>10. RowInv' /\ FaultOwned' /\ ApprovedBeforeExecution'
  BY <1>1, <1>2, <1>3, <1>4 DEF IInv, RowInv, FaultOwned,
     ApprovedBeforeExecution
<1> QED
  BY <1>5, <1>6, <1>7, <1>8, <1>9, <1>10 DEF IInv

\* An orphan started if and only if its row says so.
LEMMA OrphanMarkStep ==
    ASSUME IInv, NEW r \in Runs, OrphanMark(r)
    PROVE  IInv'
<1>1. /\ ~up /\ recon.pc = "idle"
      /\ r \in todo /\ todo' = todo \ {r}
  BY DEF OrphanMark
<1>2. started[r] <=> \/ started[r]
                     \/ state[r] \in {"running", "stopping", "rollback_pending"}
  BY DEF IInv, RowInv
<1>3. UNCHANGED <<approvalVars, queueVars, workerVars, handlerVars, started,
          rollback, journal, fault, token, up, crashes, stopAck>>
  BY DEF OrphanMark
<1>4. CASE /\ started[r] /\ recon' = [run |-> r, pc |-> "rollback", outcome |-> "none"]
          /\ state' = [state EXCEPT ![r] = "orphaned"]
  <2>1. TypeOK'
    BY <1>1, <1>2, <1>3, <1>4 DEF IInv, TypeOK, RunState, ACTIVE, TERMINAL,
       ReconPC, OrphanOutcome
  <2>2. WorkerInv'
    BY <1>1, <1>2, <1>3, <1>4 DEF IInv, TypeOK, WorkerInv, RowInv, HandlerInv,
       BootInv, Executing, ACTIVE
  <2>3. HandlerInv'
    BY <1>1, <1>2, <1>3, <1>4 DEF IInv, TypeOK, HandlerInv, BootInv
  <2>4. BootInv'
    BY <1>1, <1>2, <1>3, <1>4 DEF IInv, TypeOK, WorkerInv, HandlerInv,
       BootInv, ACTIVE
  <2>5. RowInv'
    BY <1>1, <1>2, <1>3, <1>4 DEF IInv, TypeOK, WorkerInv, HandlerInv,
       BootInv, RowInv, ACTIVE, Executing
  <2>6. FaultOwned'
    BY <1>1, <1>2, <1>3, <1>4 DEF IInv, TypeOK, WorkerInv, HandlerInv,
       BootInv, RowInv, FaultOwned, ACTIVE, TERMINAL, Executing
  <2>7. ApprovalInv'
    BY <1>1, <1>2, <1>3, <1>4 DEF IInv, TypeOK, HandlerInv, RowInv,
       ApprovalInv
  <2>8. ApprovedBeforeExecution'
    BY <1>1, <1>2, <1>3, <1>4 DEF IInv, ApprovedBeforeExecution
  <2> QED
    BY <2>1, <2>2, <2>3, <2>4, <2>5, <2>6, <2>7, <2>8 DEF IInv
<1>5. CASE /\ started[r] /\ recon' = [run |-> r, pc |-> "rollback", outcome |-> "none"]
          /\ UNCHANGED state
  <2>1. TypeOK'
    BY <1>1, <1>2, <1>3, <1>5 DEF IInv, TypeOK, ReconPC, OrphanOutcome
  <2>2. BootInv'
    BY <1>1, <1>2, <1>3, <1>5 DEF IInv, TypeOK, WorkerInv, HandlerInv,
       BootInv, ACTIVE
  <2>3. WorkerInv' /\ HandlerInv' /\ RowInv' /\ FaultOwned' /\ ApprovalInv' /\
        ApprovedBeforeExecution'
    BY <1>1, <1>2, <1>3, <1>5 DEF IInv, WorkerInv, HandlerInv, RowInv,
       FaultOwned, ApprovalInv, ApprovedBeforeExecution
  <2> QED
    BY <2>1, <2>2, <2>3 DEF IInv
<1>6. CASE /\ ~started[r] /\ recon' = [run |-> r, pc |-> "finish", outcome |-> "NothingExecuted"]
          /\ state' = [state EXCEPT ![r] = "orphaned"]
  <2>1. TypeOK'
    BY <1>1, <1>2, <1>3, <1>6 DEF IInv, TypeOK, RunState, ACTIVE, TERMINAL,
       ReconPC, OrphanOutcome
  <2>2. WorkerInv'
    BY <1>1, <1>2, <1>3, <1>6 DEF IInv, TypeOK, WorkerInv, RowInv, HandlerInv,
       BootInv, Executing, ACTIVE
  <2>3. HandlerInv'
    BY <1>1, <1>2, <1>3, <1>6 DEF IInv, TypeOK, HandlerInv, BootInv
  <2>4. BootInv'
    BY <1>1, <1>2, <1>3, <1>6 DEF IInv, TypeOK, WorkerInv, HandlerInv,
       BootInv, ACTIVE
  <2>5. RowInv'
    BY <1>1, <1>2, <1>3, <1>6 DEF IInv, TypeOK, WorkerInv, HandlerInv,
       BootInv, RowInv, ACTIVE, Executing
  <2>6. FaultOwned'
    BY <1>1, <1>2, <1>3, <1>6 DEF IInv, TypeOK, WorkerInv, HandlerInv,
       BootInv, RowInv, FaultOwned, ACTIVE, TERMINAL, Executing
  <2>7. ApprovalInv'
    BY <1>1, <1>2, <1>3, <1>6 DEF IInv, TypeOK, HandlerInv, RowInv,
       ApprovalInv
  <2>8. ApprovedBeforeExecution'
    BY <1>1, <1>2, <1>3, <1>6 DEF IInv, ApprovedBeforeExecution
  <2> QED
    BY <2>1, <2>2, <2>3, <2>4, <2>5, <2>6, <2>7, <2>8 DEF IInv
<1>7. CASE /\ ~started[r] /\ recon' = [run |-> r, pc |-> "finish", outcome |-> "NothingExecuted"]
          /\ UNCHANGED state
  <2>1. TypeOK'
    BY <1>1, <1>2, <1>3, <1>7 DEF IInv, TypeOK, ReconPC, OrphanOutcome
  <2>2. BootInv'
    BY <1>1, <1>2, <1>3, <1>7 DEF IInv, TypeOK, WorkerInv, HandlerInv,
       BootInv, ACTIVE
  <2>3. WorkerInv' /\ HandlerInv' /\ RowInv' /\ FaultOwned' /\ ApprovalInv' /\
        ApprovedBeforeExecution'
    BY <1>1, <1>2, <1>3, <1>7 DEF IInv, WorkerInv, HandlerInv, RowInv,
       FaultOwned, ApprovalInv, ApprovedBeforeExecution
  <2> QED
    BY <2>1, <2>2, <2>3 DEF IInv
<1> QED
  BY <1>2, <1>4, <1>5, <1>6, <1>7 DEF OrphanMark

\* A successful orphan rollback clears the fault.
LEMMA OrphanRollbackStep ==
    ASSUME IInv, OrphanRollback
    PROVE  IInv'
<1>1. recon.pc = "rollback"
  BY DEF OrphanRollback
<1>2. recon.run \in Runs /\ started[recon.run]
  BY <1>1 DEF IInv, BootInv
<1>3. UNCHANGED <<rowVars, approvalVars, queueVars, workerVars, handlerVars,
          journal, token, up, todo, crashes, stopAck>>
  BY DEF OrphanRollback
<1>4. CASE /\ recon' = [recon EXCEPT !.pc = "finish", !.outcome = "RolledBack"]
          /\ fault' = [fault EXCEPT ![recon.run] = FALSE]
  <2>1. TypeOK'
    BY <1>1, <1>2, <1>3, <1>4 DEF IInv, TypeOK, ReconPC, OrphanOutcome
  <2>2. WorkerInv'
    BY <1>1, <1>2, <1>3, <1>4 DEF IInv, TypeOK, WorkerInv, RowInv, HandlerInv,
       BootInv, Executing, ACTIVE
  <2>3. BootInv'
    BY <1>1, <1>2, <1>3, <1>4 DEF IInv, TypeOK, WorkerInv, HandlerInv,
       BootInv, ACTIVE
  <2>4. FaultOwned'
    BY <1>1, <1>2, <1>3, <1>4 DEF IInv, TypeOK, WorkerInv, HandlerInv,
       BootInv, RowInv, FaultOwned, ACTIVE, TERMINAL, Executing
  <2>5. HandlerInv' /\ RowInv' /\ ApprovalInv' /\ ApprovedBeforeExecution'
    BY <1>1, <1>2, <1>3, <1>4 DEF IInv, HandlerInv, RowInv, ApprovalInv,
       ApprovedBeforeExecution
  <2> QED
    BY <2>1, <2>2, <2>3, <2>4, <2>5 DEF IInv
<1>5. CASE /\ recon' = [recon EXCEPT !.pc = "finish", !.outcome = "RollbackFailed"]
          /\ UNCHANGED fault
  <2>1. TypeOK'
    BY <1>1, <1>2, <1>3, <1>5 DEF IInv, TypeOK, ReconPC, OrphanOutcome
  <2>2. BootInv'
    BY <1>1, <1>2, <1>3, <1>5 DEF IInv, TypeOK, WorkerInv, HandlerInv,
       BootInv, ACTIVE
  <2>3. WorkerInv' /\ HandlerInv' /\ RowInv' /\ FaultOwned' /\ ApprovalInv' /\
        ApprovedBeforeExecution'
    BY <1>1, <1>2, <1>3, <1>5 DEF IInv, WorkerInv, HandlerInv, RowInv,
       FaultOwned, ApprovalInv, ApprovedBeforeExecution
  <2> QED
    BY <2>1, <2>2, <2>3 DEF IInv
<1> QED
  BY <1>4, <1>5 DEF OrphanRollback

\* A started orphan ends only after its rollback succeeded.
LEMMA OrphanFinishStep ==
    ASSUME IInv, OrphanFinish
    PROVE  IInv'
<1>1. recon.pc = "finish" /\ recon' = NotReconciling
  BY DEF OrphanFinish
<1>2. recon.run \in Runs
  BY <1>1 DEF IInv, BootInv
<1>3. UNCHANGED <<approvalVars, queueVars, workerVars, handlerVars, started,
          journal, fault, token, up, todo, crashes, stopAck>>
  BY DEF OrphanFinish, finish_run
<1>4. CASE /\ recon.outcome = "NothingExecuted"
          /\ finish_run(recon.run, "aborted", "not_needed")
  <2>1. TypeOK'
    BY <1>1, <1>2, <1>3, <1>4 DEF IInv, TypeOK, finish_run, NotReconciling,
       RunState, ACTIVE, TERMINAL, RollbackStatus, ReconPC, OrphanOutcome
  <2>2. WorkerInv'
    BY <1>1, <1>2, <1>3, <1>4 DEF finish_run, NotReconciling, IInv, TypeOK,
       WorkerInv, RowInv, HandlerInv, BootInv, Executing, ACTIVE
  <2>3. HandlerInv'
    BY <1>1, <1>2, <1>3, <1>4 DEF finish_run, NotReconciling, IInv, TypeOK,
       HandlerInv, BootInv
  <2>4. BootInv'
    BY <1>1, <1>2, <1>3, <1>4 DEF finish_run, NotReconciling, IInv, TypeOK,
       WorkerInv, HandlerInv, BootInv, ACTIVE
  <2>5. RowInv'
    BY <1>1, <1>2, <1>3, <1>4 DEF finish_run, NotReconciling, IInv, TypeOK,
       WorkerInv, HandlerInv, BootInv, RowInv, ACTIVE, Executing
  <2>6. FaultOwned'
    BY <1>1, <1>2, <1>3, <1>4 DEF finish_run, NotReconciling, IInv, TypeOK,
       WorkerInv, HandlerInv, BootInv, RowInv, FaultOwned, ACTIVE, TERMINAL,
       Executing
  <2>7. ApprovalInv'
    BY <1>1, <1>2, <1>3, <1>4 DEF finish_run, NotReconciling, IInv, TypeOK,
       HandlerInv, RowInv, ApprovalInv
  <2>8. ApprovedBeforeExecution'
    BY <1>1, <1>2, <1>3, <1>4 DEF finish_run, NotReconciling, IInv,
       ApprovedBeforeExecution
  <2> QED
    BY <2>1, <2>2, <2>3, <2>4, <2>5, <2>6, <2>7, <2>8 DEF IInv
<1>5. CASE /\ recon.outcome = "RolledBack"
          /\ finish_run(recon.run, "aborted", "completed")
  <2>1. TypeOK'
    BY <1>1, <1>2, <1>3, <1>5 DEF IInv, TypeOK, finish_run, NotReconciling,
       RunState, ACTIVE, TERMINAL, RollbackStatus, ReconPC, OrphanOutcome
  <2>2. WorkerInv'
    BY <1>1, <1>2, <1>3, <1>5 DEF finish_run, NotReconciling, IInv, TypeOK,
       WorkerInv, RowInv, HandlerInv, BootInv, Executing, ACTIVE
  <2>3. HandlerInv'
    BY <1>1, <1>2, <1>3, <1>5 DEF finish_run, NotReconciling, IInv, TypeOK,
       HandlerInv, BootInv
  <2>4. BootInv'
    BY <1>1, <1>2, <1>3, <1>5 DEF finish_run, NotReconciling, IInv, TypeOK,
       WorkerInv, HandlerInv, BootInv, ACTIVE
  <2>5. RowInv'
    BY <1>1, <1>2, <1>3, <1>5 DEF finish_run, NotReconciling, IInv, TypeOK,
       WorkerInv, HandlerInv, BootInv, RowInv, ACTIVE, Executing
  <2>6. FaultOwned'
    BY <1>1, <1>2, <1>3, <1>5 DEF finish_run, NotReconciling, IInv, TypeOK,
       WorkerInv, HandlerInv, BootInv, RowInv, FaultOwned, ACTIVE, TERMINAL,
       Executing
  <2>7. ApprovalInv'
    BY <1>1, <1>2, <1>3, <1>5 DEF finish_run, NotReconciling, IInv, TypeOK,
       HandlerInv, RowInv, ApprovalInv
  <2>8. ApprovedBeforeExecution'
    BY <1>1, <1>2, <1>3, <1>5 DEF finish_run, NotReconciling, IInv,
       ApprovedBeforeExecution
  <2> QED
    BY <2>1, <2>2, <2>3, <2>4, <2>5, <2>6, <2>7, <2>8 DEF IInv
<1>6. CASE /\ recon.outcome = "RollbackFailed"
          /\ finish_run(recon.run, "rollback_pending", "failed")
  <2>1. TypeOK'
    BY <1>1, <1>2, <1>3, <1>6 DEF IInv, TypeOK, finish_run, NotReconciling,
       RunState, ACTIVE, TERMINAL, RollbackStatus, ReconPC, OrphanOutcome
  <2>2. WorkerInv'
    BY <1>1, <1>2, <1>3, <1>6 DEF finish_run, NotReconciling, IInv, TypeOK,
       WorkerInv, RowInv, HandlerInv, BootInv, Executing, ACTIVE
  <2>3. HandlerInv'
    BY <1>1, <1>2, <1>3, <1>6 DEF finish_run, NotReconciling, IInv, TypeOK,
       HandlerInv, BootInv
  <2>4. BootInv'
    BY <1>1, <1>2, <1>3, <1>6 DEF finish_run, NotReconciling, IInv, TypeOK,
       WorkerInv, HandlerInv, BootInv, ACTIVE
  <2>5. RowInv'
    BY <1>1, <1>2, <1>3, <1>6 DEF finish_run, NotReconciling, IInv, TypeOK,
       WorkerInv, HandlerInv, BootInv, RowInv, ACTIVE, Executing
  <2>6. FaultOwned'
    BY <1>1, <1>2, <1>3, <1>6 DEF finish_run, NotReconciling, IInv, TypeOK,
       WorkerInv, HandlerInv, BootInv, RowInv, FaultOwned, ACTIVE, TERMINAL,
       Executing
  <2>7. ApprovalInv'
    BY <1>1, <1>2, <1>3, <1>6 DEF finish_run, NotReconciling, IInv, TypeOK,
       HandlerInv, RowInv, ApprovalInv
  <2>8. ApprovedBeforeExecution'
    BY <1>1, <1>2, <1>3, <1>6 DEF finish_run, NotReconciling, IInv,
       ApprovedBeforeExecution
  <2> QED
    BY <2>1, <2>2, <2>3, <2>4, <2>5, <2>6, <2>7, <2>8 DEF IInv
<1>7. CASE UNCHANGED rowVars
  <2>1. TypeOK'
    BY <1>1, <1>2, <1>3, <1>7 DEF IInv, TypeOK, NotReconciling, ReconPC,
       OrphanOutcome
  <2>2. BootInv'
    BY <1>1, <1>2, <1>3, <1>7 DEF NotReconciling, IInv, TypeOK, WorkerInv,
       HandlerInv, BootInv, ACTIVE
  <2>3. WorkerInv' /\ HandlerInv' /\ RowInv' /\ FaultOwned' /\ ApprovalInv' /\
        ApprovedBeforeExecution'
    BY <1>1, <1>2, <1>3, <1>7 DEF NotReconciling, IInv, WorkerInv, HandlerInv,
       RowInv, FaultOwned, ApprovalInv, ApprovedBeforeExecution
  <2> QED
    BY <2>1, <2>2, <2>3 DEF IInv
<1> QED
  BY <1>4, <1>5, <1>6, <1>7 DEF OrphanFinish, finish_run

\* Serving starts when nothing is left to reconcile.
LEMMA ServeStep ==
    ASSUME IInv, Serve
    PROVE  IInv'
<1>1. TypeOK'
  BY DEF Serve, IInv, TypeOK
<1>2. BootInv'
  BY DEF Serve, IInv, TypeOK, WorkerInv, HandlerInv, BootInv, ACTIVE
<1>3. WorkerInv' /\ HandlerInv' /\ RowInv' /\ FaultOwned' /\ ApprovalInv' /\
      ApprovedBeforeExecution'
  BY DEF Serve, IInv, WorkerInv, HandlerInv, RowInv, FaultOwned, ApprovalInv,
     ApprovedBeforeExecution
<1> QED
  BY <1>1, <1>2, <1>3 DEF IInv

-----------------------------------------------------------------------------
\* The empty lake of a fresh daemon satisfies the invariant.
LEMMA InitIInv == Init => IInv
<1> SUFFICES ASSUME Init PROVE IInv
  OBVIOUS
<1> USE DEF Init, NotReconciling
<1>1. TypeOK
  BY DEF TypeOK, RunState, RollbackStatus, Decision, RollbackResults,
     TokenState, StopAck, WorkerPC, HandlerPC, ReconPC, OrphanOutcome
<1>2. WorkerInv /\ HandlerInv /\ BootInv
  BY DEF WorkerInv, HandlerInv, BootInv, Executing
<1>3. RowInv /\ FaultOwned
  BY DEF RowInv, FaultOwned
<1>4. ApprovalInv /\ ApprovedBeforeExecution
  BY DEF ApprovalInv, ApprovedBeforeExecution
<1> QED
  BY <1>1, <1>2, <1>3, <1>4 DEF IInv

-----------------------------------------------------------------------------
\* Every step of the daemon, its clients and its crashes keeps the invariant.
LEMMA NextIInv == IInv /\ [Next]_vars => IInv'
<1> SUFFICES ASSUME IInv, [Next]_vars PROVE IInv'
  OBVIOUS
<1>1. CASE \E h \in Handlers : Request(h)
  BY <1>1, EnqueueAcquireStep, ApproveReadStep, BreakGlassMarkStep,
     StopCancelStep DEF Request
<1>2. CASE \E h \in Handlers : HandlerStep(h)
  BY <1>2, EnqueueInsertStep, SendItemStep, ApproveExpireStep,
     ApproveDecideStep, BreakGlassDraftStep, DispatchReadStep,
     DispatchRequeueStep, StopWriteStep DEF HandlerStep
<1>3. CASE \E h \in Handlers : HandlerDropped(h)
  BY <1>3, HandlerDroppedStep
<1>4. CASE \E r \in Runs : RequestGated(r) \/ Lapse(r) \/ Sweep(r)
  BY <1>4, RequestGatedStep, LapseStep, SweepStep
<1>5. CASE \E r \in Runs, u \in Users : Reject(r, u)
  BY <1>5, RejectStep
<1>6. CASE \E w \in Workers : WorkerStep(w)
  BY <1>6, DequeueStep, VerifyApprovalStep, RecordFailureStep, ClaimRunStep,
     ValidateDispatchStep, BeginRunExecutionStep, InjectFaultStep,
     RunnerStopsEarlyStep, RunnerJudgesStep, RunnerReturnsStep,
     RunnerDiesStep, RecordCheckStep, RecordIngestStep, RecordFinishStep,
     LateStopCleanupStep DEF WorkerStep
<1>7. CASE Reconcile
  BY <1>7, OrphanMarkStep, OrphanRollbackStep, OrphanFinishStep, ServeStep
     DEF Reconcile
<1>8. CASE CrashRestart
  BY <1>8, CrashRestartStep
<1>9. CASE UNCHANGED vars
  BY <1>9 DEF vars, IInv, TypeOK, WorkerInv, HandlerInv, BootInv, RowInv, FaultOwned, ApprovalInv,
     ApprovedBeforeExecution,
     ItemsOf
<1> QED
  BY <1>1, <1>2, <1>3, <1>4, <1>5, <1>6, <1>7, <1>8, <1>9 DEF Next

\* IInv holds in every reachable state.
THEOREM Invariance == Spec => []IInv
  BY InitIInv, NextIInv, PTL DEF Spec

\* Every variable keeps its type: in particular no write of any handler,
\* worker or reconciliation leaves run_state.
THEOREM TypeCorrect == Spec => []TypeOK
<1>1. IInv => TypeOK
  BY DEF IInv
<1> QED
  BY <1>1, Invariance, PTL

\* A live fault always belongs to a started run that some worker or the next
\* restart will clean up, or whose journal says that no rollback was run.
THEOREM FaultOwnedAlways == Spec => []FaultOwned
<1>1. IInv => FaultOwned
  BY DEF IInv
<1> QED
  BY <1>1, Invariance, PTL

\* No gated run starts a provider without a consumed approval of a quorum of
\* others or a break-glass override.
THEOREM ApprovedAlways == Spec => []ApprovedBeforeExecution
<1>1. IInv => ApprovedBeforeExecution
  BY DEF IInv
<1> QED
  BY <1>1, Invariance, PTL

-----------------------------------------------------------------------------
\* A write to a run row finds the run not ended.
RowWrite(r) == state'[r] # state[r] => state[r] \notin TERMINAL

\* The writes of the HTTP handlers and of the sweeper.
LEMMA HandlerRowWrite ==
    ASSUME IInv, NEW h \in Handlers, HandlerStep(h), NEW q \in Runs
    PROVE  RowWrite(q)
<1>1. ASSUME hpc[h] # "idle" PROVE hrun[h] \in Runs
  BY <1>1 DEF IInv, TypeOK, HandlerInv
<1>2. CASE EnqueueInsert(h)
  BY <1>1, <1>2 DEF EnqueueInsert, RowWrite, IInv, TypeOK, HandlerInv, TERMINAL
<1>3. CASE ApproveExpire(h)
  BY <1>1, <1>3 DEF ApproveExpire, finish_run, RowWrite, IInv, TypeOK, TERMINAL
<1>4. CASE DispatchRequeue(h)
  BY <1>1, <1>4 DEF DispatchRequeue, RowWrite, IInv, TypeOK, TERMINAL
<1>5. CASE StopWrite(h)
  BY <1>1, <1>5 DEF StopWrite, request_run_stop, Stoppable, RowWrite, IInv,
     TypeOK, TERMINAL
<1>6. CASE SendItem(h) \/ ApproveDecide(h) \/ BreakGlassDraft(h) \/ DispatchRead(h)
  BY <1>6 DEF SendItem, ApproveDecide, BreakGlassDraft, DispatchRead, RowWrite
<1> QED
  BY <1>2, <1>3, <1>4, <1>5, <1>6 DEF HandlerStep

\* The writes of a worker.
LEMMA WorkerRowWrite ==
    ASSUME IInv, NEW w \in Workers, WorkerStep(w), NEW q \in Runs
    PROVE  RowWrite(q)
<1>1. ASSUME wpc[w] # "idle" PROVE wrun[w] \in Runs
  BY <1>1 DEF IInv, TypeOK, WorkerInv
<1>2. CASE RecordFailure(w)
  BY <1>1, <1>2 DEF RecordFailure, fail_run, RowWrite, IInv, TypeOK, TERMINAL
<1>3. CASE ClaimRun(w)
  BY <1>1, <1>3 DEF ClaimRun, RowWrite, IInv, TypeOK, TERMINAL
<1>4. CASE BeginRunExecution(w)
  BY <1>1, <1>4 DEF BeginRunExecution, RowWrite, IInv, TypeOK, TERMINAL
<1>5. CASE RecordFinish(w)
  <2>1. state[wrun[w]] \in {"running", "stopping"}
    BY <1>5 DEF RecordFinish, IInv, WorkerInv, Executing
  <2> QED
    BY <1>1, <1>5, <2>1 DEF RecordFinish, CompletionFails, finish_run, RowWrite,
       IInv, TypeOK, TERMINAL
<1>6. CASE \/ Dequeue(w) \/ VerifyApproval(w) \/ ValidateDispatch(w)
           \/ InjectFault(w) \/ RunnerStopsEarly(w) \/ RunnerJudges(w)
           \/ RunnerReturns(w) \/ RunnerDies(w) \/ RecordCheck(w)
           \/ RecordIngest(w) \/ LateStopCleanup(w)
  BY <1>6 DEF Dequeue, VerifyApproval, ValidateDispatch, InjectFault,
     RunnerStopsEarly, RunnerJudges, RunnerReturns, RunnerDies,
     RecordCheck, RecordIngest, CompletionFails, LateStopCleanup, RowWrite
<1> QED
  BY <1>2, <1>3, <1>4, <1>5, <1>6 DEF WorkerStep

\* Every step writes rows that way.
LEMMA NextRowWrite == IInv /\ [Next]_vars => \A q \in Runs : RowWrite(q)
<1> SUFFICES ASSUME IInv, [Next]_vars, NEW q \in Runs PROVE RowWrite(q)
  OBVIOUS
<1>1. CASE \E h \in Handlers : Request(h) \/ HandlerDropped(h)
  BY <1>1 DEF Request, EnqueueAcquire, ApproveRead, BreakGlassMark,
     StopCancel, HandlerDropped, RowWrite
<1>2. CASE \E h \in Handlers : HandlerStep(h)
  BY <1>2, HandlerRowWrite
<1>3. CASE \E r \in Runs : RequestGated(r) \/ Lapse(r) \/ Sweep(r)
  BY <1>3 DEF RequestGated, Lapse, Sweep, finish_run, RowWrite, IInv, TypeOK,
     TERMINAL
<1>4. CASE \E r \in Runs, u \in Users : Reject(r, u)
  BY <1>4 DEF Reject, DecisionAccepted, finish_run, RowWrite, IInv, TypeOK,
     TERMINAL
<1>5. CASE \E w \in Workers : WorkerStep(w)
  BY <1>5, WorkerRowWrite
<1>6. CASE Reconcile
  BY <1>6 DEF Reconcile, OrphanMark, OrphanRollback, OrphanFinish, Serve,
     finish_run, RowWrite, IInv, TypeOK, BootInv, ACTIVE, TERMINAL
<1>7. CASE CrashRestart \/ UNCHANGED vars
  BY <1>7 DEF CrashRestart, vars, RowWrite
<1> QED
  BY <1>1, <1>2, <1>3, <1>4, <1>5, <1>6, <1>7 DEF Next

\* A run that ended never transitions again, whatever stop, dispatch, sweep,
\* completion or reconciliation is still in flight for it.
THEOREM TerminalForEver == Spec => TerminalIsFinal
<1>1. IInv /\ [Next]_vars =>
        [\A r \in Runs : state[r] \in TERMINAL => state'[r] = state[r]]_vars
  BY NextRowWrite DEF RowWrite
<1> QED
  BY <1>1, Invariance, PTL DEF Spec, TerminalIsFinal

-----------------------------------------------------------------------------
(* Acknowledged stops that met a cancelled token *)

\* Where the row of such a run can be: no completion was meant for it.
HeardState == {"stopping", "orphaned", "rollback_pending", "aborted", "failed"}

\* The row has left the states a completion is meant for, and a worker that may
\* still write it saw the token or will.
Heard(r) ==
    /\ state[r] \in HeardState
    /\ \A w \in Workers : wrun[w] = r /\ wpc[w] \in Executing =>
         /\ token[r] = "cancelled"
         /\ wpc[w] \in OnWriter => wstatus[w] = "Interrupted"

HeardInv == \A r \in Runs : stopAck[r] = "heard" => Heard(r)

\* The stop itself: it is a closure of its own, so a completion that has looked
\* at the token has written its row before, and then the stop is refused.
LEMMA StopWriteHeard ==
    ASSUME IInv, HeardInv, NEW h \in Handlers, StopWrite(h)
    PROVE  HeardInv'
<1>1. hrun[h] \in Runs
  BY DEF StopWrite, IInv, TypeOK, HandlerInv
<1>2. UNCHANGED <<workerVars, token>> /\ WriterFree
  BY DEF StopWrite
<1>3. CASE /\ state[hrun[h]] \in Stoppable
          /\ request_run_stop(hrun[h])
          /\ StopAcknowledged(hrun[h])
  <2> SUFFICES ASSUME NEW r \in Runs, stopAck'[r] = "heard" PROVE Heard(r)'
    BY DEF HeardInv
  <2>1. CASE r # hrun[h]
    BY <1>1, <1>2, <1>3, <2>1 DEF HeardInv, Heard, request_run_stop,
       StopAcknowledged, IInv, TypeOK
  <2>2. CASE r = hrun[h] /\ token[r] = "cancelled"
    BY <1>1, <1>2, <1>3, <2>2 DEF Heard, HeardState, request_run_stop, WriterFree,
       IInv, TypeOK
  <2>3. CASE r = hrun[h] /\ token[r] # "cancelled"
    <3>1. stopAck[r] = "heard"
      BY <1>1, <1>3, <2>3 DEF StopAcknowledged, IInv, TypeOK
    <3> QED
      BY <1>1, <1>2, <1>3, <2>3, <3>1 DEF HeardInv, Heard, HeardState,
         request_run_stop, IInv, TypeOK
  <2> QED
    BY <2>1, <2>2, <2>3
<1>4. CASE UNCHANGED <<rowVars, stopAck>>
  BY <1>2, <1>4 DEF HeardInv, Heard
<1> QED
  BY <1>3, <1>4 DEF StopWrite

\* No other request and no other handler writes the row of such a run.
LEMMA HandlerHeard ==
    ASSUME IInv, HeardInv, NEW h \in Handlers, HandlerStep(h) \/ Request(h)
    PROVE  HeardInv'
<1>1. ASSUME hpc[h] # "idle" PROVE hrun[h] \in Runs
  BY <1>1 DEF IInv, TypeOK, HandlerInv
<1>2. CASE EnqueueInsert(h)
  BY <1>1, <1>2 DEF EnqueueInsert, HeardInv, Heard, HeardState, IInv, TypeOK,
     HandlerInv
<1>3. CASE ApproveExpire(h)
  BY <1>1, <1>3 DEF ApproveExpire, finish_run, HeardInv, Heard, HeardState, IInv,
     TypeOK
<1>4. CASE DispatchRequeue(h)
  <2>1. state \in [Runs -> RunState \cup {"absent"}]
    BY DEF IInv, TypeOK
  <2> QED
    BY <1>1, <1>4, <2>1 DEF DispatchRequeue, HeardInv, Heard, HeardState
<1>5. CASE \E r \in Runs : StopCancel(h, r)
  BY <1>5 DEF StopCancel, HeardInv, Heard, IInv, TypeOK
<1>6. CASE \/ SendItem(h) \/ ApproveDecide(h) \/ BreakGlassDraft(h) \/ DispatchRead(h)
           \/ \E r \in Runs : \/ EnqueueAcquire(h, r)
                              \/ \E u \in Users : ApproveRead(h, r, u)
                              \/ BreakGlassMark(h, r)
  BY <1>6 DEF SendItem, ApproveDecide, BreakGlassDraft, DispatchRead,
     EnqueueAcquire, ApproveRead, BreakGlassMark, HeardInv, Heard
<1> QED
  BY <1>2, <1>3, <1>4, <1>5, <1>6, StopWriteHeard DEF HandlerStep, Request

\* A worker starts no such run, and completes it as interrupted only.
LEMMA WorkerHeard ==
    ASSUME IInv, HeardInv, NEW w \in Workers, WorkerStep(w)
    PROVE  HeardInv'
<1>1. ASSUME wpc[w] # "idle" PROVE wrun[w] \in Runs
  BY <1>1 DEF IInv, TypeOK, WorkerInv
<1>t. /\ state \in [Runs -> RunState \cup {"absent"}]
      /\ token \in [Runs -> TokenState]
      /\ wpc \in [Workers -> WorkerPC]
      /\ wrun \in [Workers -> Runs \cup {None}]
      /\ wstatus \in [Workers -> Status \cup {"none"}]
  BY DEF IInv, TypeOK
<1>d. /\ \A v \in Workers : v # w /\ wrun[v] = wrun[w] => wrun[v] = None
      /\ \A v \in Workers : wpc[v] # "idle" => token[wrun[v]] # "none"
  BY DEF IInv, WorkerInv
<1> USE DEF HeardInv, Heard, Executing
<1>2. CASE Dequeue(w)
  BY <1>1, <1>t, <1>d, <1>2 DEF Dequeue
<1>3. CASE VerifyApproval(w)
  BY <1>1, <1>t, <1>d, <1>3 DEF VerifyApproval, WorkerLeaves, WorkerGoes
<1>4. CASE RecordFailure(w)
  BY <1>1, <1>t, <1>d, <1>4 DEF RecordFailure, fail_run, WorkerLeaves, HeardState
<1>5. CASE ClaimRun(w)
  BY <1>1, <1>t, <1>d, <1>5 DEF ClaimRun, WorkerLeaves, WorkerGoes, HeardState
<1>6. CASE ValidateDispatch(w)
  BY <1>1, <1>t, <1>d, <1>6 DEF ValidateDispatch, WorkerLeaves, WorkerGoes
<1>7. CASE BeginRunExecution(w)
  BY <1>1, <1>t, <1>d, <1>7 DEF BeginRunExecution, WorkerGoes, HeardState
<1>8. CASE InjectFault(w)
  BY <1>1, <1>t, <1>d, <1>8 DEF InjectFault
<1>9. CASE RunnerStopsEarly(w) \/ RunnerJudges(w) \/ RunnerReturns(w)
  <2>1. /\ wpc[w] \in {"run", "judged"}
        /\ wpc' = [wpc EXCEPT ![w] = "record"] \/ wpc' = [wpc EXCEPT ![w] = "judged"]
        /\ UNCHANGED <<state, token, wrun, stopAck>>
    BY <1>9 DEF RunnerStopsEarly, RunnerJudges, RunnerReturns
  <2>2. \A v \in Workers : v # w => wstatus'[v] = wstatus[v]
    BY <1>t, <1>9 DEF RunnerStopsEarly, RunnerJudges, RunnerReturns
  <2> QED
    BY <1>1, <1>t, <2>1, <2>2
<1>10. CASE RunnerDies(w)
  BY <1>1, <1>t, <1>d, <1>10 DEF RunnerDies, WorkerGoes
<1>11. CASE RecordCheck(w)
  BY <1>1, <1>t, <1>d, <1>11 DEF RecordCheck, CompletionRefused, CompletionFails, WorkerGoes
<1>12. CASE RecordIngest(w)
  BY <1>1, <1>t, <1>d, <1>12 DEF RecordIngest, CompletionFails, WorkerGoes
<1>13. CASE RecordFinish(w)
  <2>1. CASE CompletionFails(w) /\ UNCHANGED stopAck
    BY <1>1, <1>t, <1>d, <1>13, <2>1 DEF RecordFinish, CompletionFails, WorkerGoes
  <2>2. CASE /\ finish_run(wrun[w], CompletionState(w), CompletionRollback(w))
            /\ WorkerLeaves(w) /\ UNCHANGED stopAck
    <3>1. wpc[w] = "finish" /\ wrun[w] \in Runs
      BY <1>1, <1>13 DEF RecordFinish
    <3>2. ASSUME stopAck[wrun[w]] = "heard" PROVE CompletionState(w) \in HeardState
      <4>1. wstatus[w] = "Interrupted"
        BY <3>1, <3>2
      <4> QED
        BY <4>1 DEF CompletionState, terminal_state, HeardState
    <3> QED
      BY <1>t, <1>d, <2>2, <3>1, <3>2 DEF finish_run, WorkerLeaves
  <2> QED
    BY <1>13, <2>1, <2>2 DEF RecordFinish
<1>14. CASE LateStopCleanup(w)
  <2>1. wpc[w] = "unrecorded" /\ UNCHANGED <<state, stopAck>>
    BY <1>14 DEF LateStopCleanup
  <2>2. CASE WorkerLeaves(w)
    BY <1>1, <1>t, <1>d, <2>1, <2>2 DEF WorkerLeaves
  <2>3. CASE WorkerGoes(w, "fail") /\ UNCHANGED token
    BY <1>1, <1>t, <2>1, <2>3 DEF WorkerGoes
  <2>4. CASE /\ wstatus' = [wstatus EXCEPT ![w] = "Interrupted"]
            /\ wpc' = [wpc EXCEPT ![w] = "record"]
            /\ UNCHANGED <<wrun, token>>
    BY <1>1, <1>t, <2>1, <2>4
  <2> QED
    BY <1>14, <2>2, <2>3, <2>4 DEF LateStopCleanup
<1> QED
  BY <1>2, <1>3, <1>4, <1>5, <1>6, <1>7, <1>8, <1>9, <1>10, <1>11, <1>12, <1>13,
     <1>14 DEF WorkerStep

\* Nor does the sweeper, a rejection, a crash or the reconciliation.
LEMMA NextHeard == IInv /\ HeardInv /\ [Next]_vars => HeardInv'
<1> SUFFICES ASSUME IInv, HeardInv, [Next]_vars PROVE HeardInv'
  OBVIOUS
<1>1. CASE \E h \in Handlers : Request(h) \/ HandlerStep(h)
  BY <1>1, HandlerHeard
<1>2. CASE \E h \in Handlers : HandlerDropped(h)
  BY <1>2 DEF HandlerDropped, HeardInv, Heard
<1>3. CASE \E r \in Runs : RequestGated(r) \/ Lapse(r) \/ Sweep(r)
  BY <1>3 DEF RequestGated, Lapse, Sweep, finish_run, HeardInv, Heard, HeardState,
     IInv, TypeOK
<1>4. CASE \E r \in Runs, u \in Users : Reject(r, u)
  BY <1>4 DEF Reject, DecisionAccepted, finish_run, HeardInv, Heard, HeardState,
     IInv, TypeOK
<1>5. CASE \E w \in Workers : WorkerStep(w)
  BY <1>5, WorkerHeard
<1>6. CASE Reconcile
  BY <1>6 DEF Reconcile, OrphanMark, OrphanRollback, OrphanFinish, Serve,
     finish_run, HeardInv, Heard, HeardState, IInv, TypeOK, BootInv
<1>7. CASE CrashRestart
  BY <1>7 DEF CrashRestart, HeardInv, Heard, Executing
<1>8. CASE UNCHANGED vars
  BY <1>8 DEF vars, HeardInv, Heard
<1> QED
  BY <1>1, <1>2, <1>3, <1>4, <1>5, <1>6, <1>7, <1>8 DEF Next

\* A stop that was acknowledged under a cancelled token holds: neither the
\* completion that raced it, nor its retry, nor a restart ends the run passed
\* or deviated.
THEOREM CancelledForEver == Spec => []CancelledStopHolds
<1>1. Init => HeardInv
  BY DEF Init, HeardInv
<1>2. HeardInv => CancelledStopHolds
  BY DEF HeardInv, Heard, HeardState, CancelledStopHolds
<1> QED
  BY <1>1, <1>2, Invariance, NextHeard, PTL DEF Spec
=============================================================================
