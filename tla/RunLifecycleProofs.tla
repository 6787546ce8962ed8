------------------------- MODULE RunLifecycleProofs -------------------------
(***************************************************************************)
(* The run queue implements RunLifecycle, for every value of the           *)
(* constants: under IInv each step of RunQueue moves one row along an edge *)
(* of the life cycle, changes one fault, or leaves rows and faults alone.  *)
(***************************************************************************)
EXTENDS RunQueueProofs

\* A step of the abstract specification, or a stutter.
LifecycleStep == [Lifecycle!Next]_(Lifecycle!vars)

\* What IInv says of the rows, in the shape the steps below need.
LEMMA RowFacts ==
    ASSUME IInv, NEW r \in Runs
    PROVE  /\ state \in [Runs -> RunState \cup {"absent"}]
           /\ started \in [Runs -> BOOLEAN] /\ fault \in [Runs -> BOOLEAN]
           /\ started[r] /\ state[r] \in ACTIVE => state[r] \in Lifecycle!Owing
           /\ started[r] => state[r] \notin {"absent", "pending_approval",
                                             "queued", "validating"}
           /\ ~started[r] /\ state[r] \in ACTIVE =>
                state[r] \in {"queued", "validating", "orphaned"}
  BY DEF IInv, TypeOK, RowInv, ACTIVE, Lifecycle!Owing

\* The abstract actions of one run, as the leaves below cite them.
LEMMA AbstractStep ==
    ASSUME NEW r \in Runs,
           \/ Lifecycle!Wait(r) \/ Lifecycle!Begin(r) \/ Lifecycle!End(r)
           \/ Lifecycle!Inject(r) \/ Lifecycle!Clear(r)
    PROVE  LifecycleStep
  BY DEF LifecycleStep, Lifecycle!Next

\* A step that leaves rows and faults alone is a stutter.
LEMMA Stutter ==
    ASSUME UNCHANGED <<state, started, fault>>
    PROVE  LifecycleStep
  BY DEF LifecycleStep, Lifecycle!vars

\* The steps of the HTTP handlers.
LEMMA HandlerImplements ==
    ASSUME IInv, NEW h \in Handlers, HandlerStep(h)
    PROVE  LifecycleStep
<1>1. ASSUME hpc[h] # "idle" PROVE hrun[h] \in Runs
  BY <1>1 DEF IInv, TypeOK, HandlerInv
<1>2. CASE EnqueueInsert(h)
  <2>1. hrun[h] \in Runs /\ state[hrun[h]] = "absent"
    BY <1>1, <1>2 DEF EnqueueInsert, IInv, HandlerInv
  <2>2. Lifecycle!Wait(hrun[h]) \/ UNCHANGED <<state, started, fault>>
    BY <1>2, <2>1, RowFacts DEF EnqueueInsert, Lifecycle!Wait, Lifecycle!Move
  <2> QED
    BY <2>1, <2>2, AbstractStep, Stutter
<1>3. CASE ApproveExpire(h)
  <2>1. hrun[h] \in Runs
    BY <1>1, <1>3 DEF ApproveExpire
  <2>2. Lifecycle!Wait(hrun[h]) \/ UNCHANGED <<state, started, fault>>
    BY <1>3, <2>1, RowFacts DEF ApproveExpire, finish_run, rowVars,
       Lifecycle!Wait, Lifecycle!Move
  <2> QED
    BY <2>1, <2>2, AbstractStep, Stutter
<1>4. CASE DispatchRequeue(h)
  <2>1. hrun[h] \in Runs
    BY <1>1, <1>4 DEF DispatchRequeue
  <2>2. Lifecycle!Wait(hrun[h]) \/ UNCHANGED <<state, started, fault>>
    BY <1>4, <2>1, RowFacts DEF DispatchRequeue, Lifecycle!Wait, Lifecycle!Move
  <2> QED
    BY <2>1, <2>2, AbstractStep, Stutter
<1>5. CASE StopWrite(h)
  <2>1. hrun[h] \in Runs
    BY <1>1, <1>5 DEF StopWrite
  <2>2. \/ UNCHANGED <<state, started, fault>>
        \/ /\ state[hrun[h]] \in Stoppable
           /\ request_run_stop(hrun[h])
           /\ UNCHANGED fault
    BY <1>5 DEF StopWrite, rowVars
  <2>3. CASE UNCHANGED <<state, started, fault>>
    BY <2>3, Stutter
  <2>4. CASE /\ state[hrun[h]] \in Stoppable
             /\ request_run_stop(hrun[h])
             /\ UNCHANGED fault
    <3>1. CASE started[hrun[h]]
      <4>1. Lifecycle!End(hrun[h])
        BY <2>1, <2>4, <3>1, RowFacts DEF request_run_stop, Stoppable,
           Lifecycle!End, Lifecycle!Move
      <4> QED
        BY <2>1, <4>1, AbstractStep
    <3>2. CASE ~started[hrun[h]]
      <4>1. state[hrun[h]] \in {"queued", "validating", "pending_approval"}
        BY <2>1, <2>4, <3>2, RowFacts DEF Stoppable, ACTIVE
      <4>2. Lifecycle!Wait(hrun[h])
        BY <2>4, <3>2, <4>1 DEF request_run_stop, Lifecycle!Wait, Lifecycle!Move
      <4> QED
        BY <2>1, <4>2, AbstractStep
    <3> QED
      BY <3>1, <3>2
  <2> QED
    BY <2>2, <2>3, <2>4
<1>6. CASE SendItem(h) \/ ApproveDecide(h) \/ BreakGlassDraft(h) \/ DispatchRead(h)
  BY <1>6, Stutter DEF SendItem, ApproveDecide, BreakGlassDraft, DispatchRead,
     rowVars
<1> QED
  BY <1>2, <1>3, <1>4, <1>5, <1>6 DEF HandlerStep

\* A worker's rollbacks clear the fault of a run it still owns, or do nothing.
LEMMA RollbacksImplement ==
    ASSUME IInv, NEW w \in Workers, wpc[w] \in Executing, NEW b,
           run_rollbacks(w, b), UNCHANGED <<state, started>>
    PROVE  LifecycleStep
<1>1. /\ wrun[w] \in Runs /\ started[wrun[w]]
      /\ state[wrun[w]] \in {"running", "stopping"}
  BY DEF IInv, TypeOK, WorkerInv, Executing
<1>2. fault' = [fault EXCEPT ![wrun[w]] = FALSE] \/ fault' = fault
  BY DEF run_rollbacks
<1>3. CASE fault' = [fault EXCEPT ![wrun[w]] = FALSE]
  <2>1. Lifecycle!Clear(wrun[w])
    BY <1>1, <1>3 DEF Lifecycle!Clear, Lifecycle!Owing
  <2> QED
    BY <1>1, <2>1, AbstractStep
<1> QED
  BY <1>2, <1>3, Stutter

\* The steps of a worker.
LEMMA WorkerImplements ==
    ASSUME IInv, NEW w \in Workers, WorkerStep(w)
    PROVE  LifecycleStep
<1>1. ASSUME wpc[w] # "idle" PROVE wrun[w] \in Runs
  BY <1>1 DEF IInv, TypeOK, WorkerInv
<1>2. ASSUME wpc[w] \in Executing
      PROVE  started[wrun[w]] /\ state[wrun[w]] \in {"running", "stopping"}
  BY <1>2 DEF IInv, WorkerInv
<1>3. CASE RecordFailure(w)
  <2>1. wrun[w] \in Runs
    BY <1>1, <1>3 DEF RecordFailure
  <2>2. UNCHANGED <<started, fault>>
    BY <1>3 DEF RecordFailure, fail_run, rowVars
  <2>3. CASE UNCHANGED state
    BY <2>2, <2>3, Stutter
  <2>4. CASE state' # state
    <3>1. /\ state[wrun[w]] \in {"queued", "validating", "running", "stopping"}
          /\ state' = [state EXCEPT ![wrun[w]] =
                         IF started[wrun[w]] THEN "rollback_pending" ELSE "failed"]
      BY <1>3, <2>1, <2>4, RowFacts DEF RecordFailure, fail_run, rowVars
    <3>2. CASE started[wrun[w]]
      <4>1. state[wrun[w]] \in Lifecycle!Owing
        BY <2>1, <3>1, <3>2, RowFacts DEF ACTIVE
      <4>2. Lifecycle!End(wrun[w])
        BY <2>2, <3>1, <3>2, <4>1 DEF Lifecycle!End, Lifecycle!Move
      <4> QED
        BY <2>1, <4>2, AbstractStep
    <3>3. CASE ~started[wrun[w]]
      <4>1. state[wrun[w]] \in {"queued", "validating"}
        BY <2>1, <3>1, <3>3, RowFacts DEF ACTIVE
      <4>2. Lifecycle!Wait(wrun[w])
        BY <2>2, <3>1, <3>3, <4>1 DEF Lifecycle!Wait, Lifecycle!Move
      <4> QED
        BY <2>1, <4>2, AbstractStep
    <3> QED
      BY <3>2, <3>3
  <2> QED
    BY <2>3, <2>4
<1>4. CASE ClaimRun(w)
  <2>1. wrun[w] \in Runs
    BY <1>1, <1>4 DEF ClaimRun
  <2>2. Lifecycle!Wait(wrun[w]) \/ UNCHANGED <<state, started, fault>>
    BY <1>4, <2>1, RowFacts DEF ClaimRun, Lifecycle!Wait, Lifecycle!Move
  <2> QED
    BY <2>1, <2>2, AbstractStep, Stutter
<1>5. CASE BeginRunExecution(w)
  <2>1. wrun[w] \in Runs
    BY <1>1, <1>5 DEF BeginRunExecution
  <2>2. Lifecycle!Begin(wrun[w]) \/ UNCHANGED <<state, started, fault>>
    BY <1>5, <2>1, RowFacts DEF BeginRunExecution, Lifecycle!Begin, Lifecycle!Move
  <2> QED
    BY <2>1, <2>2, AbstractStep, Stutter
<1>6. CASE InjectFault(w)
  <2>1. wrun[w] \in Runs /\ wpc[w] \in Executing
    BY <1>1, <1>6 DEF InjectFault, Executing
  <2>2. Lifecycle!Inject(wrun[w])
    BY <1>2, <1>6, <2>1 DEF InjectFault, rowVars, Lifecycle!Inject
  <2> QED
    BY <2>1, <2>2, AbstractStep
<1>7. CASE RunnerStopsEarly(w) \/ RunnerJudges(w)
  <2>1. wpc[w] \in Executing /\ UNCHANGED <<state, started>>
    BY <1>7 DEF RunnerStopsEarly, RunnerJudges, Executing, rowVars
  <2>2. \E b \in BOOLEAN : run_rollbacks(w, b)
    BY <1>7 DEF RunnerStopsEarly, RunnerJudges, run_rollbacks
  <2> QED
    BY <2>1, <2>2, RollbacksImplement
<1>8. CASE LateStopCleanup(w)
  <2>1. wpc[w] \in Executing /\ UNCHANGED <<state, started>>
    BY <1>8 DEF LateStopCleanup, Executing, rowVars
  <2>2. run_rollbacks(w, TRUE) \/ UNCHANGED fault
    BY <1>8 DEF LateStopCleanup
  <2> QED
    BY <2>1, <2>2, RollbacksImplement, Stutter
<1>9. CASE RecordCheck(w) \/ RecordIngest(w) \/ RecordFinish(w)
  <2>1. wrun[w] \in Runs /\ wpc[w] \in Executing
    BY <1>1, <1>9 DEF RecordCheck, RecordIngest, RecordFinish, Executing
  <2>2. UNCHANGED <<started, fault>>
    BY <1>9 DEF RecordCheck, RecordIngest, RecordFinish, CompletionFails, finish_run, rowVars
  <2>3. \/ UNCHANGED state
        \/ state' = [state EXCEPT ![wrun[w]] = CompletionState(w)]
    BY <1>9 DEF RecordCheck, RecordIngest, RecordFinish, CompletionFails, finish_run, rowVars
  <2>4. CompletionState(w) \in {"passed", "deviated", "failed", "aborted",
                                "rollback_pending"}
    BY DEF CompletionState, terminal_state
  <2>5. ASSUME state' = [state EXCEPT ![wrun[w]] = CompletionState(w)]
        PROVE  Lifecycle!End(wrun[w])
    BY <1>2, <2>1, <2>2, <2>4, <2>5 DEF Lifecycle!End, Lifecycle!Move,
       Lifecycle!Owing
  <2> QED
    BY <2>1, <2>2, <2>3, <2>5, AbstractStep, Stutter
<1>10. CASE \/ Dequeue(w) \/ VerifyApproval(w) \/ ValidateDispatch(w)
            \/ RunnerReturns(w) \/ RunnerDies(w)
  BY <1>10, Stutter DEF Dequeue, VerifyApproval, ValidateDispatch,
     RunnerReturns, RunnerDies, rowVars
<1> QED
  BY <1>3, <1>4, <1>5, <1>6, <1>7, <1>8, <1>9, <1>10 DEF WorkerStep

\* The steps of the startup reconciliation.
LEMMA ReconcileImplements ==
    ASSUME IInv, Reconcile
    PROVE  LifecycleStep
<1>1. CASE \E r \in Runs : OrphanMark(r)
  <2>1. PICK r \in Runs : OrphanMark(r)
    BY <1>1
  <2>2. /\ state[r] \in ACTIVE /\ UNCHANGED <<started, fault>>
        /\ state' = [state EXCEPT ![r] = "orphaned"] \/ UNCHANGED state
    BY <2>1 DEF OrphanMark, IInv, BootInv
  <2>3. CASE started[r] /\ state' = [state EXCEPT ![r] = "orphaned"]
    <3>1. state[r] \in Lifecycle!Owing
      BY <2>2, <2>3, RowFacts
    <3>2. Lifecycle!End(r)
      BY <2>2, <2>3, <3>1 DEF Lifecycle!End, Lifecycle!Move
    <3> QED
      BY <3>2, AbstractStep
  <2>4. CASE ~started[r] /\ state' = [state EXCEPT ![r] = "orphaned"]
    <3>1. state[r] \in {"queued", "validating", "orphaned"}
      BY <2>2, <2>4, RowFacts
    <3>2. CASE state[r] = "orphaned"
      <4>1. state' = state
        BY <2>4, <3>2, RowFacts
      <4> QED
        BY <2>2, <4>1, Stutter
    <3>3. CASE state[r] # "orphaned"
      <4>1. Lifecycle!Wait(r)
        BY <2>2, <2>4, <3>1, <3>3 DEF Lifecycle!Wait, Lifecycle!Move
      <4> QED
        BY <4>1, AbstractStep
    <3> QED
      BY <3>2, <3>3
  <2> QED
    BY <2>2, <2>3, <2>4, Stutter
<1>2. CASE OrphanRollback
  <2>1. /\ recon.run \in Runs /\ started[recon.run]
        /\ state[recon.run] \in Lifecycle!Owing
    BY <1>2, RowFacts DEF OrphanRollback, IInv, BootInv
  <2>2. Lifecycle!Clear(recon.run) \/ UNCHANGED <<state, started, fault>>
    BY <1>2, <2>1 DEF OrphanRollback, rowVars, Lifecycle!Clear
  <2> QED
    BY <2>1, <2>2, AbstractStep, Stutter
<1>3. CASE OrphanFinish
  <2>1. recon.run \in Runs /\ state[recon.run] \in ACTIVE
    BY <1>3 DEF OrphanFinish, IInv, BootInv
  <2>2. UNCHANGED <<started, fault>>
    BY <1>3 DEF OrphanFinish, finish_run, rowVars
  <2>3. CASE UNCHANGED state
    BY <2>2, <2>3, Stutter
  <2>4. CASE recon.outcome = "NothingExecuted" /\ state' # state
    <3>1. /\ ~started[recon.run]
          /\ state' = [state EXCEPT ![recon.run] = "aborted"]
      BY <1>3, <2>4 DEF OrphanFinish, finish_run, rowVars, IInv, BootInv
    <3>2. state[recon.run] \in {"queued", "validating", "orphaned"}
      BY <2>1, <3>1, RowFacts
    <3>3. Lifecycle!Wait(recon.run)
      BY <2>2, <3>1, <3>2 DEF Lifecycle!Wait, Lifecycle!Move
    <3> QED
      BY <2>1, <3>3, AbstractStep
  <2>5. CASE recon.outcome # "NothingExecuted" /\ state' # state
    <3>1. /\ started[recon.run]
          /\ \/ state' = [state EXCEPT ![recon.run] = "aborted"]
             \/ state' = [state EXCEPT ![recon.run] = "rollback_pending"]
      BY <1>3, <2>5 DEF OrphanFinish, finish_run, rowVars, IInv, BootInv
    <3>2. state[recon.run] \in Lifecycle!Owing
      BY <2>1, <3>1, RowFacts
    <3>3. Lifecycle!End(recon.run)
      BY <2>2, <3>1, <3>2 DEF Lifecycle!End, Lifecycle!Move
    <3> QED
      BY <2>1, <3>3, AbstractStep
  <2> QED
    BY <2>3, <2>4, <2>5
<1>4. CASE Serve
  BY <1>4, Stutter DEF Serve, rowVars
<1> QED
  BY <1>1, <1>2, <1>3, <1>4 DEF Reconcile

\* Every step of the queue is a step of the life cycle of one run, or none.
LEMMA NextImplements == IInv /\ [Next]_vars => LifecycleStep
<1> SUFFICES ASSUME IInv, [Next]_vars PROVE LifecycleStep
  OBVIOUS
<1>1. CASE \E h \in Handlers : Request(h) \/ HandlerDropped(h)
  BY <1>1, Stutter DEF Request, EnqueueAcquire, ApproveRead, BreakGlassMark,
     StopCancel, HandlerDropped, rowVars
<1>2. CASE \E h \in Handlers : HandlerStep(h)
  BY <1>2, HandlerImplements
<1>3. CASE \E r \in Runs : RequestGated(r) \/ Lapse(r) \/ Sweep(r)
  <2>1. PICK r \in Runs : RequestGated(r) \/ Lapse(r) \/ Sweep(r)
    BY <1>3
  <2>2. Lifecycle!Wait(r) \/ UNCHANGED <<state, started, fault>>
    BY <2>1, RowFacts DEF RequestGated, Lapse, Sweep, finish_run, rowVars,
       Lifecycle!Wait, Lifecycle!Move
  <2> QED
    BY <2>2, AbstractStep, Stutter
<1>4. CASE \E r \in Runs, u \in Users : Reject(r, u)
  <2>1. PICK r \in Runs, u \in Users : Reject(r, u)
    BY <1>4
  <2>2. Lifecycle!Wait(r) \/ UNCHANGED <<state, started, fault>>
    BY <2>1, RowFacts DEF Reject, DecisionAccepted, finish_run, rowVars,
       Lifecycle!Wait, Lifecycle!Move
  <2> QED
    BY <2>2, AbstractStep, Stutter
<1>5. CASE \E w \in Workers : WorkerStep(w)
  BY <1>5, WorkerImplements
<1>6. CASE Reconcile
  BY <1>6, ReconcileImplements
<1>7. CASE CrashRestart \/ UNCHANGED vars
  BY <1>7, Stutter DEF CrashRestart, vars, rowVars
<1> QED
  BY <1>1, <1>2, <1>3, <1>4, <1>5, <1>6, <1>7 DEF Next

\* The run queue, with its handlers, workers, crashes and reconciliation,
\* implements the life cycle of a run.
THEOREM Implementation == Spec => ImplementsLifecycle
<1>1. Init => Lifecycle!Init
  BY DEF Init, Lifecycle!Init
<1>2. IInv /\ [Next]_vars => [Lifecycle!Next]_(Lifecycle!vars)
  BY NextImplements DEF LifecycleStep
<1> QED
  BY <1>1, <1>2, Invariance, PTL DEF Spec, ImplementsLifecycle, Lifecycle!Spec
=============================================================================
