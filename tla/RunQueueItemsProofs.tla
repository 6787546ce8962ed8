------------------------ MODULE RunQueueItemsProofs ------------------------
(***************************************************************************)
(* That no permit of the queue is lost or made up, that a run never has    *)
(* two work items, and that no row is left behind: for any number of runs, *)
(* workers, handlers and crashes.  Stands on the invariant IInv of         *)
(* RunQueueProofs.                                                         *)
(***************************************************************************)
EXTENDS RunQueueProofs

USE GatedAssumption, NoneAssumption, UsersAssumption, DepthAssumption
USE DEF rowVars, approvalVars, queueVars, workerVars, handlerVars, bootVars

\* The handlers that own a permit.
Holders == {h \in Handlers : hpc[h] \in HoldsPermit}

PermitInv == IsFiniteSet(Holders) /\ PermitsConserved

\* The three steps of the closure that records a completion.
RecordCompletion(w) == RecordCheck(w) \/ RecordIngest(w) \/ RecordFinish(w)

\* The row of an item: only a stop or a failed start has touched it.
Waiting(r) == state[r] \in {"queued"} \cup TERMINAL

\* What is in the channel, about to be sent or in hand is there once, and
\* its row waits.
ItemInv ==
    /\ ~up => channel = <<>>
    /\ \A i, j \in DOMAIN channel : channel[i] = channel[j] => i = j
    /\ \A g, h \in Handlers :
         hpc[g] = "send" /\ hpc[h] = "send" /\ hrun[g] = hrun[h] => g = h
    /\ \A i \in DOMAIN channel :
         /\ Waiting(channel[i])
         /\ \A w \in Workers : wrun[w] # channel[i]
    /\ \A h \in Handlers : hpc[h] = "send" =>
         /\ Waiting(hrun[h])
         /\ \A i \in DOMAIN channel : channel[i] # hrun[h]
         /\ \A w \in Workers : wrun[w] # hrun[h]

\* How far the row of a worker's run can be at each step of the worker.
StageInv ==
    \A w \in Workers :
        /\ wpc[w] \in {"verify", "claim", "refuse"} => Waiting(wrun[w])
        /\ wpc[w] \in {"validate", "begin"} =>
             state[wrun[w]] \in {"validating"} \cup TERMINAL
        /\ wpc[w] = "fail" =>
             state[wrun[w]] \in {"validating", "running", "stopping"} \cup TERMINAL

\* A token belongs to a worker.
TokenInv == \A r \in Runs : token[r] # "none" => \E w \in Workers : wrun[w] = r

\* Who will move a row: RowsHaveOwners, with the items taken apart.
Owned(r) ==
    \/ state[r] \in TERMINAL \cup {"absent", "pending_approval", "rollback_pending"}
    \/ r \in todo \/ recon.run = r
    \/ \E w \in Workers : wrun[w] = r
    \/ state[r] = "queued" /\ \E i \in DOMAIN channel : channel[i] = r
    \/ state[r] = "queued" /\ \E h \in Handlers : hpc[h] = "send" /\ hrun[h] = r
    \/ state[r] = "validating" /\ \E h \in Handlers : hpc[h] = "stop" /\ hrun[h] = r

RowsOwned == \A r \in Runs : Owned(r)

\* Where the store answers and clients stay, a cancelled token has its stop on
\* the way until the row says so.
StopInv ==
    \A r \in Runs :
        token[r] = "cancelled" /\ state[r] \in {"queued", "validating"} =>
            \E h \in Handlers : hpc[h] = "stop" /\ hrun[h] = r

\* Only a journal that a stop overtook goes unrecorded: the interrupted one that
\* follows it is not refused.
RetryInv == \A w \in Workers : wpc[w] = "unrecorded" => CompletionRefused(w)

ReconInv == recon.pc = "idle" => recon.run = None

OwnerInv == RowsOwned /\ StopInv /\ RetryInv /\ ReconInv

-----------------------------------------------------------------------------
(* Permits *)

\* A step that moves no permit.
LEMMA PermitsStay ==
    ASSUME PermitInv, UNCHANGED <<permits, channel>>, Holders' = Holders
    PROVE  PermitInv'
  BY DEF PermitInv, PermitsConserved, Holders

\* A handler takes a permit.
LEMMA PermitTaken ==
    ASSUME TypeOK, PermitInv, NEW h \in Handlers, AcquirePermit,
           hpc[h] \notin HoldsPermit, Holders' = Holders \cup {h}
    PROVE  PermitInv'
<1>1. IsFiniteSet(Holders) /\ h \notin Holders
  BY DEF PermitInv, Holders
<1>2. /\ IsFiniteSet(Holders')
      /\ Cardinality(Holders') = Cardinality(Holders) + 1
  BY <1>1, FS_AddElement
<1>3. Cardinality(Holders) \in Nat /\ Len(channel) \in Nat /\ permits \in Nat
  BY <1>1, FS_CardinalityType DEF TypeOK
<1>4. permits + Len(channel) + Cardinality(Holders) = QueueDepth
  BY DEF PermitInv, PermitsConserved, Holders
<1>5. permits' = permits - 1 /\ channel' = channel
  BY DEF AcquirePermit
<1>6. permits' + Len(channel') + Cardinality(Holders') = QueueDepth
  BY <1>2, <1>3, <1>4, <1>5
<1> QED
  BY <1>2, <1>6 DEF PermitInv, PermitsConserved, Holders

\* A handler gives its permit up: back to the semaphore, or into the item.
LEMMA PermitGiven ==
    ASSUME TypeOK, PermitInv, NEW h \in Handlers,
           hpc[h] \in HoldsPermit, Holders' = Holders \ {h},
           \/ ReleasePermit
           \/ UNCHANGED permits /\ Len(channel') = Len(channel) + 1
    PROVE  PermitInv'
<1>1. IsFiniteSet(Holders) /\ h \in Holders
  BY DEF PermitInv, Holders
<1>2. /\ IsFiniteSet(Holders')
      /\ Cardinality(Holders') = Cardinality(Holders) - 1
  BY <1>1, FS_RemoveElement
<1>3. Cardinality(Holders) \in Nat /\ Len(channel) \in Nat /\ permits \in Nat
  BY <1>1, FS_CardinalityType DEF TypeOK
<1>4. permits + Len(channel) + Cardinality(Holders) = QueueDepth
  BY DEF PermitInv, PermitsConserved, Holders
<1>5. permits' + Len(channel') + Cardinality(Holders') = QueueDepth
  BY <1>2, <1>3, <1>4 DEF ReleasePermit
<1> QED
  BY <1>2, <1>5 DEF PermitInv, PermitsConserved, Holders

\* No step loses a permit or makes one up.
LEMMA PermitStep ==
    ASSUME IInv, PermitInv, [Next]_vars
    PROVE  PermitInv'
<1> USE DEF IInv, TypeOK
<1>1. ASSUME NEW h \in Handlers, NEW r \in Runs, EnqueueAcquire(h, r) PROVE PermitInv'
  <2>1. hpc[h] = "idle" /\ Holders' = Holders \cup {h}
    BY <1>1 DEF EnqueueAcquire, HandlerStarts, Holders, HoldsPermit
  <2> QED  BY <1>1, <2>1, PermitTaken DEF EnqueueAcquire, HoldsPermit
<1>2. ASSUME NEW h \in Handlers, NEW r \in Runs,
             (\E u \in Users : ApproveRead(h, r, u)) \/ BreakGlassMark(h, r) \/ StopCancel(h, r)
      PROVE  PermitInv'
  <2>1. Holders' = Holders
    BY <1>2 DEF ApproveRead, BreakGlassMark, StopCancel, HandlerStarts, Holders, HoldsPermit
  <2> QED  BY <1>2, <2>1, PermitsStay DEF ApproveRead, BreakGlassMark, StopCancel
<1>3. ASSUME NEW h \in Handlers, EnqueueInsert(h) \/ DispatchRequeue(h) PROVE PermitInv'
  <2>1. CASE HandlerGoes(h, "send") /\ UNCHANGED queueVars
    <3>1. Holders' = Holders
      BY <1>3, <2>1 DEF EnqueueInsert, DispatchRequeue, HandlerGoes, Holders, HoldsPermit
    <3> QED  BY <2>1, <3>1, PermitsStay
  <2>2. CASE HandlerReturns(h) /\ ReleasePermit
    <3>1. hpc[h] \in HoldsPermit /\ Holders' = Holders \ {h}
      BY <1>3, <2>2 DEF EnqueueInsert, DispatchRequeue, HandlerReturns, Holders, HoldsPermit
    <3> QED  BY <2>2, <3>1, PermitGiven
  <2> QED  BY <1>3, <2>1, <2>2 DEF EnqueueInsert, DispatchRequeue
<1>4. ASSUME NEW h \in Handlers, SendItem(h) PROVE PermitInv'
  <2>1. hpc[h] \in HoldsPermit /\ Holders' = Holders \ {h}
    BY <1>4 DEF SendItem, HandlerReturns, Holders, HoldsPermit
  <2>2. hrun[h] \in Runs
    BY <1>4 DEF SendItem, HandlerInv
  <2>3. UNCHANGED permits /\ Len(channel') = Len(channel) + 1
    BY <1>4, <2>2 DEF SendItem
  <2> QED  BY <2>1, <2>3, PermitGiven
<1>5. ASSUME NEW h \in Handlers,
             ApproveExpire(h) \/ ApproveDecide(h) \/ BreakGlassDraft(h) \/ StopWrite(h)
      PROVE  PermitInv'
  <2>1. hpc[h] \notin HoldsPermit /\ (HandlerReturns(h) \/ HandlerGoes(h, "dispatch"))
    BY <1>5 DEF ApproveExpire, ApproveDecide, BreakGlassDraft, StopWrite, HoldsPermit
  <2>2. Holders' = Holders
    BY <2>1 DEF HandlerReturns, HandlerGoes, Holders, HoldsPermit
  <2> QED
    BY <1>5, <2>2, PermitsStay DEF ApproveExpire, ApproveDecide, BreakGlassDraft, StopWrite
<1>6. ASSUME NEW h \in Handlers, DispatchRead(h) PROVE PermitInv'
  <2>1. hpc[h] \notin HoldsPermit
    BY <1>6 DEF DispatchRead, HoldsPermit
  <2>2. CASE AcquirePermit /\ HandlerGoes(h, "requeue")
    <3>1. Holders' = Holders \cup {h}
      BY <2>2 DEF HandlerGoes, Holders, HoldsPermit
    <3> QED  BY <2>1, <2>2, <3>1, PermitTaken
  <2>3. CASE UNCHANGED queueVars /\ HandlerReturns(h)
    <3>1. Holders' = Holders
      BY <2>1, <2>3 DEF HandlerReturns, Holders, HoldsPermit
    <3> QED  BY <2>3, <3>1, PermitsStay
  <2> QED  BY <1>6, <2>2, <2>3 DEF DispatchRead
<1>7. ASSUME NEW h \in Handlers, HandlerDropped(h) PROVE PermitInv'
  <2>1. CASE hpc[h] \in HoldsPermit
    <3>1. ReleasePermit /\ Holders' = Holders \ {h}
      BY <1>7, <2>1 DEF HandlerDropped, HandlerReturns, Holders, HoldsPermit
    <3> QED  BY <2>1, <3>1, PermitGiven
  <2>2. CASE hpc[h] \notin HoldsPermit
    <3>1. UNCHANGED queueVars /\ Holders' = Holders
      BY <1>7, <2>2 DEF HandlerDropped, HandlerReturns, Holders, HoldsPermit
    <3> QED  BY <3>1, PermitsStay
  <2> QED  BY <2>1, <2>2
<1>8. ASSUME NEW w \in Workers, Dequeue(w) PROVE PermitInv'
  <2>1. Holders' = Holders
    BY <1>8 DEF Dequeue, Holders
  <2>2. permits' = permits + 1 /\ Len(channel') = Len(channel) - 1 /\ Len(channel) \in Nat
    BY <1>8 DEF Dequeue
  <2>3. IsFiniteSet(Holders) /\ Cardinality(Holders) \in Nat
    BY FS_CardinalityType DEF PermitInv
  <2>4. permits + Len(channel) + Cardinality(Holders) = QueueDepth
    BY DEF PermitInv, PermitsConserved, Holders
  <2>5. permits' + Len(channel') + Cardinality(Holders') = QueueDepth
    BY <2>1, <2>2, <2>3, <2>4
  <2> QED  BY <2>1, <2>3, <2>5 DEF PermitInv, PermitsConserved, Holders
<1>9. ASSUME UNCHANGED <<permits, channel, hpc>> PROVE PermitInv'
  BY <1>9, PermitsStay DEF Holders
<1>10. CASE CrashRestart
  <2>1. Holders' = {} /\ permits' = QueueDepth /\ channel' = <<>>
    BY <1>10 DEF CrashRestart, Holders, HoldsPermit
  <2>2. IsFiniteSet(Holders') /\ Cardinality(Holders') = 0
    BY <2>1, FS_EmptySet
  <2>3. permits' + Len(channel') + Cardinality(Holders') = QueueDepth
    BY <2>1, <2>2
  <2> QED  BY <2>2, <2>3 DEF PermitInv, PermitsConserved, Holders
<1>11. ASSUME NEW r \in Runs,
              RequestGated(r) \/ Lapse(r) \/ Sweep(r) \/ (\E u \in Users : Reject(r, u))
       PROVE  PermitInv'
  BY <1>9, <1>11 DEF RequestGated, Lapse, Sweep, Reject
<1>12. ASSUME NEW w \in Workers, WorkerStep(w), ~Dequeue(w) PROVE PermitInv'
  BY <1>9, <1>12 DEF WorkerStep, VerifyApproval, RecordFailure, ClaimRun, ValidateDispatch,
     BeginRunExecution, InjectFault, RunnerStopsEarly, RunnerJudges, RunnerReturns, RunnerDies,
     RecordCheck, RecordIngest, RecordFinish, CompletionFails, LateStopCleanup
<1>13. CASE Reconcile
  BY <1>9, <1>13 DEF Reconcile, OrphanMark, OrphanRollback, OrphanFinish, Serve
<1>14. CASE UNCHANGED vars
  BY <1>9, <1>14 DEF vars
<1> QED
  BY <1>1, <1>2, <1>3, <1>4, <1>5, <1>6, <1>7, <1>8, <1>10, <1>11, <1>12, <1>13, <1>14
     DEF Next, Request, HandlerStep

-----------------------------------------------------------------------------
(* Items *)

\* A step that sends nothing and leaves every waiting row waiting adds no item.
LEMMA ItemsStay ==
    ASSUME IInv, ItemInv, UNCHANGED <<channel, up>>,
           \A w \in Workers : wrun'[w] \in {wrun[w], None},
           \A h \in Handlers : hpc'[h] = "send" => hpc[h] = "send" /\ hrun'[h] = hrun[h],
           \A r \in Runs : Waiting(r) => Waiting(r)'
    PROVE  ItemInv'
<1>1. \A i \in DOMAIN channel : channel[i] \in Runs
  BY DEF IInv, TypeOK
<1>2. \A h \in Handlers : hpc[h] = "send" => hrun[h] \in Runs
  BY DEF IInv, TypeOK, HandlerInv
<1> QED
  BY <1>1, <1>2 DEF ItemInv

\* A run that waits for approval, or does not exist yet, is in no hands.
LEMMA NobodyYet ==
    ASSUME IInv, StageInv, NEW r \in Runs, state[r] \in {"absent", "pending_approval"}
    PROVE  \A w \in Workers : wrun[w] # r
<1> SUFFICES ASSUME NEW w \in Workers, wrun[w] = r PROVE FALSE
  OBVIOUS
<1>1. wpc[w] \in WorkerPC \ {"idle"}
  BY DEF IInv, TypeOK, WorkerInv
<1> QED
  BY <1>1 DEF IInv, WorkerInv, StageInv, WorkerPC, Executing, Waiting, TERMINAL

\* A row that becomes `queued' while nothing of the run is under way, and the
\* handler that is about to send it.
LEMMA ItemMade ==
    ASSUME IInv, ItemInv, StageInv, NEW h \in Handlers,
           hpc[h] \in {"insert", "requeue"},
           state[hrun[h]] \in {"absent", "pending_approval"},
           state' = [state EXCEPT ![hrun[h]] = "queued"],
           HandlerGoes(h, "send"), UNCHANGED <<channel, wrun, up>>
    PROVE  ItemInv'
<1>1. hrun[h] \in Runs
  BY DEF IInv, TypeOK, HandlerInv
<1>2. ~Waiting(hrun[h])
  BY DEF Waiting, TERMINAL
<1>3. \A i \in DOMAIN channel : channel[i] # hrun[h]
  BY <1>2 DEF ItemInv
<1>4. \A w \in Workers : wrun[w] # hrun[h]
  BY <1>1, NobodyYet
<1>5. \A g \in Handlers : hpc[g] = "send" => hrun[g] # hrun[h]
  BY <1>2 DEF ItemInv
<1>6. \A r \in Runs : Waiting(r) => Waiting(r)'
  BY <1>1 DEF Waiting, IInv, TypeOK
<1>7. Waiting(hrun[h])'
  BY <1>1 DEF Waiting, IInv, TypeOK, HandlerGoes
<1>8. hpc' = [hpc EXCEPT ![h] = "send"] /\ hrun' = hrun /\ channel' = channel
      /\ wrun' = wrun /\ up' = up
  BY DEF HandlerGoes
<1>9. \A i \in DOMAIN channel : channel[i] \in Runs
  BY DEF IInv, TypeOK
<1>10. \A g \in Handlers : hpc[g] = "send" => hrun[g] \in Runs
  BY DEF IInv, TypeOK, HandlerInv
<1>11. hpc \in [Handlers -> HandlerPC]
  BY DEF IInv, TypeOK
<1>12. Waiting(hrun[h])' = (state'[hrun[h]] \in {"queued"} \cup TERMINAL)
  BY <1>8 DEF Waiting
<1> QED
  BY <1>3, <1>4, <1>5, <1>6, <1>7, <1>8, <1>9, <1>10, <1>11, <1>12 DEF ItemInv

\* No step makes a second item, or an item of a row that does not wait.
LEMMA ItemStep ==
    ASSUME IInv, IInv', ItemInv, StageInv, TokenInv, [Next]_vars
    PROVE  ItemInv'
<1> USE DEF IInv, TypeOK, WorkerInv, HandlerInv, BootInv, RowInv
<1>1. ASSUME UNCHANGED <<state, channel, hpc, hrun, wrun, up>> PROVE ItemInv'
  BY <1>1 DEF ItemInv, Waiting
<1>2. ASSUME NEW r \in Runs, Lapse(r) PROVE ItemInv'
  BY <1>1, <1>2 DEF Lapse
<1>3. ASSUME NEW w \in Workers, 
                \/ InjectFault(w)
                \/ RunnerStopsEarly(w)
                \/ RunnerJudges(w)
                \/ RunnerReturns(w)
                \/ RunnerDies(w)
      PROVE  ItemInv'
  BY <1>1, <1>3 DEF InjectFault, RunnerStopsEarly, RunnerJudges, RunnerReturns, RunnerDies,
     WorkerGoes
<1>4. ASSUME OrphanRollback PROVE ItemInv'
  BY <1>1, <1>4 DEF OrphanRollback
<1>5. ASSUME NEW h \in Handlers, NEW r \in Runs, EnqueueAcquire(h, r) PROVE ItemInv'
  BY <1>5 DEF EnqueueAcquire, HandlerStarts, AcquirePermit, ItemInv, Waiting
<1>6. ASSUME NEW h \in Handlers, NEW r \in Runs, NEW u \in Users, ApproveRead(h, r, u)
      PROVE  ItemInv'
  BY <1>6 DEF ApproveRead, HandlerStarts, ItemInv, Waiting
<1>7. ASSUME NEW h \in Handlers, NEW r \in Runs, BreakGlassMark(h, r) PROVE ItemInv'
  BY <1>7 DEF BreakGlassMark, HandlerStarts, ItemInv, Waiting
<1>8. ASSUME NEW h \in Handlers, NEW r \in Runs, StopCancel(h, r) PROVE ItemInv'
  BY <1>8 DEF StopCancel, HandlerStarts, ItemInv, Waiting
<1>9. ASSUME NEW h \in Handlers, EnqueueInsert(h) PROVE ItemInv'
  <2>1. CASE state' = [state EXCEPT ![hrun[h]] = "queued"] /\ HandlerGoes(h, "send")
    <3>1. /\ hpc[h] \in {"insert", "requeue"} /\ UNCHANGED <<channel, wrun, up>>
          /\ state[hrun[h]] \in {"absent", "pending_approval"}
      BY <1>9, <2>1 DEF EnqueueInsert, HandlerGoes, HandlerReturns, ReleasePermit
    <3> QED  BY <2>1, <3>1, ItemMade
  <2>2. CASE HandlerReturns(h) /\ UNCHANGED state
    <3>1. \A r \in Runs : Waiting(r) => Waiting(r)'
      BY <2>2 DEF Waiting
    <3>2. \A g \in Handlers : hpc'[g] = "send" => hpc[g] = "send" /\ hrun'[g] = hrun[g]
      BY <2>2 DEF HandlerReturns
    <3>3. UNCHANGED <<channel, wrun, up>>
      BY <1>9 DEF EnqueueInsert, HandlerGoes, HandlerReturns, ReleasePermit
    <3> QED  BY <3>1, <3>2, <3>3, ItemsStay
  <2> QED  BY <1>9, <2>1, <2>2 DEF EnqueueInsert
<1>10. ASSUME NEW h \in Handlers, SendItem(h) PROVE ItemInv'
  BY <1>10 DEF SendItem, HandlerReturns, ItemInv, Waiting
<1>11. ASSUME NEW h \in Handlers, ApproveExpire(h) PROVE ItemInv'
  <2>1. \A r \in Runs : Waiting(r) => Waiting(r)'
    BY <1>11 DEF ApproveExpire, HandlerReturns, finish_run, Waiting, TERMINAL
  <2>2. \A g \in Handlers : hpc'[g] = "send" => hpc[g] = "send" /\ hrun'[g] = hrun[g]
    BY <1>11 DEF ApproveExpire, HandlerReturns, finish_run
  <2>3. UNCHANGED <<channel, wrun, up>>
    BY <1>11 DEF ApproveExpire
  <2> QED  BY <2>1, <2>2, <2>3, ItemsStay
<1>12. ASSUME NEW h \in Handlers, ApproveDecide(h) PROVE ItemInv'
  <2>1. \A r \in Runs : Waiting(r) => Waiting(r)'
    BY <1>12 DEF ApproveDecide, HandlerGoes, HandlerReturns, Waiting, TERMINAL
  <2>2. \A g \in Handlers : hpc'[g] = "send" => hpc[g] = "send" /\ hrun'[g] = hrun[g]
    BY <1>12 DEF ApproveDecide, HandlerGoes, HandlerReturns
  <2>3. UNCHANGED <<channel, wrun, up>>
    BY <1>12 DEF ApproveDecide
  <2> QED  BY <2>1, <2>2, <2>3, ItemsStay
<1>13. ASSUME NEW h \in Handlers, BreakGlassDraft(h) PROVE ItemInv'
  <2>1. \A r \in Runs : Waiting(r) => Waiting(r)'
    BY <1>13 DEF BreakGlassDraft, HandlerGoes, HandlerReturns, Waiting, TERMINAL
  <2>2. \A g \in Handlers : hpc'[g] = "send" => hpc[g] = "send" /\ hrun'[g] = hrun[g]
    BY <1>13 DEF BreakGlassDraft, HandlerGoes, HandlerReturns
  <2>3. UNCHANGED <<channel, wrun, up>>
    BY <1>13 DEF BreakGlassDraft
  <2> QED  BY <2>1, <2>2, <2>3, ItemsStay
<1>14. ASSUME NEW h \in Handlers, DispatchRead(h) PROVE ItemInv'
  <2>1. UNCHANGED <<channel, wrun, state, up>>
    BY <1>14 DEF DispatchRead, AcquirePermit
  <2>2. \A g \in Handlers : hpc'[g] = "send" => hpc[g] = "send" /\ hrun'[g] = hrun[g]
    BY <1>14 DEF DispatchRead, HandlerGoes, HandlerReturns
  <2>3. \A r \in Runs : Waiting(r) => Waiting(r)'
    BY <2>1 DEF Waiting
  <2> QED  BY <2>1, <2>2, <2>3, ItemsStay
<1>15. ASSUME NEW h \in Handlers, DispatchRequeue(h) PROVE ItemInv'
  <2>1. CASE state' = [state EXCEPT ![hrun[h]] = "queued"] /\ HandlerGoes(h, "send")
    <3>1. /\ hpc[h] \in {"insert", "requeue"} /\ UNCHANGED <<channel, wrun, up>>
          /\ state[hrun[h]] \in {"absent", "pending_approval"}
      BY <1>15, <2>1 DEF DispatchRequeue, HandlerGoes, HandlerReturns, ReleasePermit
    <3> QED  BY <2>1, <3>1, ItemMade
  <2>2. CASE HandlerReturns(h) /\ UNCHANGED state
    <3>1. \A r \in Runs : Waiting(r) => Waiting(r)'
      BY <2>2 DEF Waiting
    <3>2. \A g \in Handlers : hpc'[g] = "send" => hpc[g] = "send" /\ hrun'[g] = hrun[g]
      BY <2>2 DEF HandlerReturns
    <3>3. UNCHANGED <<channel, wrun, up>>
      BY <1>15 DEF DispatchRequeue, HandlerGoes, HandlerReturns, ReleasePermit
    <3> QED  BY <3>1, <3>2, <3>3, ItemsStay
  <2> QED  BY <1>15, <2>1, <2>2 DEF DispatchRequeue
<1>16. ASSUME NEW h \in Handlers, StopWrite(h) PROVE ItemInv'
  <2>1. \A r \in Runs : Waiting(r) => Waiting(r)'
    BY <1>16 DEF StopWrite, HandlerReturns, request_run_stop, Stoppable, Waiting, TERMINAL
  <2>2. \A g \in Handlers : hpc'[g] = "send" => hpc[g] = "send" /\ hrun'[g] = hrun[g]
    BY <1>16 DEF StopWrite, HandlerReturns, request_run_stop
  <2>3. UNCHANGED <<channel, wrun, up>>
    BY <1>16 DEF StopWrite
  <2> QED  BY <2>1, <2>2, <2>3, ItemsStay
<1>17. ASSUME NEW h \in Handlers, HandlerDropped(h) PROVE ItemInv'
  BY <1>17 DEF HandlerDropped, HandlerReturns, ReleasePermit, ItemInv, Waiting
<1>18. ASSUME NEW r \in Runs, RequestGated(r) PROVE ItemInv'
  BY <1>18 DEF RequestGated, ItemInv, Waiting, StageInv, TokenInv, TERMINAL, ACTIVE,
     Executing
<1>19. ASSUME NEW r \in Runs, Sweep(r) PROVE ItemInv'
  BY <1>19 DEF Sweep, finish_run, ItemInv, Waiting, StageInv, TokenInv, TERMINAL, ACTIVE,
     Executing
<1>20. ASSUME NEW r \in Runs, NEW u \in Users, Reject(r, u) PROVE ItemInv'
  <2>1. UNCHANGED <<channel, hpc, hrun, wrun, up>>
    BY <1>20 DEF Reject
  <2>2. \A q \in Runs : Waiting(q) => Waiting(q)'
    BY <1>20 DEF Reject, finish_run, Waiting, TERMINAL
  <2> QED  BY <2>1, <2>2, ItemsStay
<1>21. ASSUME NEW w \in Workers, Dequeue(w) PROVE ItemInv'
  BY <1>21 DEF Dequeue, ItemInv, Waiting
<1>22. ASSUME NEW w \in Workers, VerifyApproval(w) PROVE ItemInv'
  BY <1>22 DEF VerifyApproval, WorkerGoes, WorkerLeaves, ItemInv, Waiting
<1>23. ASSUME NEW w \in Workers, RecordFailure(w) PROVE ItemInv'
  BY <1>23 DEF RecordFailure, WorkerLeaves, fail_run, ItemInv, Waiting
<1>24. ASSUME NEW w \in Workers, ClaimRun(w) PROVE ItemInv'
  BY <1>24 DEF ClaimRun, WorkerGoes, WorkerLeaves, ItemInv, Waiting
<1>25. ASSUME NEW w \in Workers, ValidateDispatch(w) PROVE ItemInv'
  BY <1>25 DEF ValidateDispatch, WorkerGoes, WorkerLeaves, ItemInv, Waiting
<1>26. ASSUME NEW w \in Workers, BeginRunExecution(w) PROVE ItemInv'
  BY <1>26 DEF BeginRunExecution, WorkerGoes, ItemInv, Waiting
<1>27. ASSUME NEW w \in Workers, RecordCompletion(w) PROVE ItemInv'
  BY <1>27 DEF RecordCompletion, RecordCheck, RecordIngest, RecordFinish, WorkerGoes,
     WorkerLeaves, finish_run, CompletionFails,
     CompletionState, terminal_state, ItemInv, Waiting
<1>28. ASSUME NEW w \in Workers, LateStopCleanup(w) PROVE ItemInv'
  <2>1. UNCHANGED <<channel, hpc, hrun, state, up>>
    BY <1>28 DEF LateStopCleanup
  <2>2. WorkerLeaves(w) \/ UNCHANGED wrun
    BY <1>28 DEF LateStopCleanup, WorkerGoes
  <2>3. \A v \in Workers : wrun'[v] \in {wrun[v], None}
    BY <2>2 DEF WorkerLeaves
  <2>4. \A r \in Runs : Waiting(r) => Waiting(r)'
    BY <2>1 DEF Waiting
  <2> QED  BY <2>1, <2>3, <2>4, ItemsStay
<1>29. ASSUME NEW r \in Runs, OrphanMark(r) PROVE ItemInv'
  <2>1. UNCHANGED <<channel, hpc, hrun, wrun, up>>
    BY <1>29 DEF OrphanMark
  <2>2. ~up /\ channel = <<>> /\ \A g \in Handlers : hpc[g] # "send"
    BY <1>29 DEF OrphanMark, ItemInv
  <2> QED  BY <2>1, <2>2 DEF ItemInv
<1>30. ASSUME OrphanFinish PROVE ItemInv'
  <2>1. UNCHANGED <<channel, hpc, hrun, wrun, up>>
    BY <1>30 DEF OrphanFinish
  <2>2. ~up /\ channel = <<>> /\ \A g \in Handlers : hpc[g] # "send"
    BY <1>30 DEF OrphanFinish, ItemInv
  <2> QED  BY <2>1, <2>2 DEF ItemInv
<1>31. ASSUME Serve PROVE ItemInv'
  BY <1>31 DEF Serve, ItemInv, Waiting
<1>32. ASSUME CrashRestart PROVE ItemInv'
  BY <1>32 DEF CrashRestart, NotReconciling, ItemInv, Waiting
<1>33. CASE UNCHANGED vars
  BY <1>1, <1>33 DEF vars
<1> QED
  BY <1>2, <1>3, <1>4, <1>5, <1>6, <1>7, <1>8, <1>9, <1>10, <1>11, <1>12, <1>13, <1>14,
     <1>15, <1>16, <1>17, <1>18, <1>19, <1>20, <1>21, <1>22, <1>23, <1>24, <1>25, <1>26,
     <1>27, <1>28, <1>29, <1>30, <1>31, <1>32, <1>33
     DEF Next, Request, HandlerStep, WorkerStep, Reconcile, RecordCompletion

\* A row moves with its worker, or ends.
LEMMA StageStep ==
    ASSUME IInv, IInv', ItemInv, StageInv, TokenInv, [Next]_vars
    PROVE  StageInv'
<1> USE DEF IInv, TypeOK, WorkerInv, HandlerInv, BootInv, RowInv
<1>1. ASSUME UNCHANGED <<state, wpc, wrun>> PROVE StageInv'
  BY <1>1 DEF StageInv, Waiting
<1>2. ASSUME NEW h \in Handlers, NEW r \in Runs,
             EnqueueAcquire(h, r) \/ BreakGlassMark(h, r) \/ StopCancel(h, r)
      PROVE  StageInv'
  BY <1>1, <1>2 DEF EnqueueAcquire, BreakGlassMark, StopCancel
<1>3. ASSUME NEW h \in Handlers, NEW r \in Runs, NEW u \in Users, ApproveRead(h, r, u)
      PROVE  StageInv'
  BY <1>1, <1>3 DEF ApproveRead
<1>4. ASSUME NEW h \in Handlers, 
                \/ SendItem(h)
                \/ ApproveDecide(h)
                \/ BreakGlassDraft(h)
                \/ DispatchRead(h)
                \/ HandlerDropped(h)
      PROVE  StageInv'
  BY <1>1, <1>4 DEF SendItem, ApproveDecide, BreakGlassDraft, DispatchRead, HandlerDropped
<1>5. ASSUME NEW r \in Runs, Lapse(r) PROVE StageInv'
  BY <1>1, <1>5 DEF Lapse
<1>6. ASSUME NEW w \in Workers, InjectFault(w) PROVE StageInv'
  BY <1>1, <1>6 DEF InjectFault
<1>7. ASSUME OrphanRollback \/ Serve PROVE StageInv'
  BY <1>1, <1>7 DEF OrphanRollback, Serve
<1>8. ASSUME NEW h \in Handlers, EnqueueInsert(h) PROVE StageInv'
  BY <1>8 DEF EnqueueInsert, HandlerGoes, HandlerReturns, ReleasePermit, StageInv, Waiting,
     ItemInv, TERMINAL, ACTIVE, Executing
<1>9. ASSUME NEW h \in Handlers, ApproveExpire(h) PROVE StageInv'
  <2>1. UNCHANGED <<wpc, wrun>> /\ hrun[h] \in Runs
    BY <1>9 DEF ApproveExpire
  <2>2. \A r \in Runs :
          \/ state'[r] = state[r]
          \/ state'[r] \in TERMINAL
          \/ state[r] \in {"running", "stopping"} /\ state'[r] = "stopping"
    BY <1>9, <2>1 DEF ApproveExpire, finish_run, TERMINAL
  <2>3. \A w \in Workers : wpc[w] # "idle" => wrun[w] \in Runs
    BY DEF WorkerPC
  <2> QED  BY <2>1, <2>2, <2>3 DEF StageInv, Waiting, TERMINAL
<1>10. ASSUME NEW h \in Handlers, DispatchRequeue(h) PROVE StageInv'
  BY <1>10 DEF DispatchRequeue, HandlerGoes, HandlerReturns, ReleasePermit, StageInv,
     Waiting, ItemInv, TERMINAL, ACTIVE, Executing
<1>11. ASSUME NEW h \in Handlers, StopWrite(h) PROVE StageInv'
  <2>1. UNCHANGED <<wpc, wrun>> /\ hrun[h] \in Runs
    BY <1>11 DEF StopWrite
  <2>2. \A r \in Runs :
          \/ state'[r] = state[r]
          \/ state'[r] \in TERMINAL
          \/ state[r] \in {"running", "stopping"} /\ state'[r] = "stopping"
    <3>1. CASE UNCHANGED state
      BY <3>1
    <3>2. CASE state[hrun[h]] \in Stoppable /\ request_run_stop(hrun[h])
      <4>1. started[hrun[h]] => state[hrun[h]] \in {"running", "stopping"}
        BY <2>1, <3>2 DEF Stoppable
      <4> QED  BY <2>1, <3>2, <4>1 DEF request_run_stop, TERMINAL
    <3> QED  BY <1>11, <3>1, <3>2 DEF StopWrite
  <2>3. \A w \in Workers : wpc[w] # "idle" => wrun[w] \in Runs
    BY DEF WorkerPC
  <2> QED  BY <2>1, <2>2, <2>3 DEF StageInv, Waiting, TERMINAL
<1>12. ASSUME NEW r \in Runs, RequestGated(r) PROVE StageInv'
  BY <1>12 DEF RequestGated, StageInv, Waiting, ItemInv, TERMINAL, ACTIVE, Executing
<1>13. ASSUME NEW r \in Runs, Sweep(r) PROVE StageInv'
  BY <1>13 DEF Sweep, finish_run, StageInv, Waiting, ItemInv, TERMINAL, ACTIVE, Executing
<1>14. ASSUME NEW r \in Runs, NEW u \in Users, Reject(r, u) PROVE StageInv'
  BY <1>14 DEF Reject, finish_run, StageInv, Waiting, ItemInv, TERMINAL, ACTIVE, Executing
<1>15. ASSUME NEW w \in Workers, Dequeue(w) PROVE StageInv'
  <2>1. UNCHANGED state /\ channel # <<>> /\ Head(channel) = channel[1]
        /\ 1 \in DOMAIN channel
    BY <1>15 DEF Dequeue
  <2>2. \/ UNCHANGED <<wpc, wrun>>
        \/ /\ wpc' = [wpc EXCEPT ![w] = "verify"]
           /\ wrun' = [wrun EXCEPT ![w] = channel[1]]
    BY <1>15, <2>1 DEF Dequeue
  <2>3. Waiting(channel[1])
    BY <2>1 DEF ItemInv
  <2>4. ASSUME NEW v \in Workers
        PROVE  \/ wpc'[v] = wpc[v] /\ wrun'[v] = wrun[v]
               \/ wpc'[v] = "verify" /\ wrun'[v] = channel[1]
    BY <2>2
  <2> QED  BY <2>1, <2>3, <2>4 DEF StageInv, Waiting
<1>16. ASSUME NEW w \in Workers, VerifyApproval(w) PROVE StageInv'
  <2>1. UNCHANGED state /\ wpc[w] = "verify" /\ Waiting(wrun[w])
    BY <1>16 DEF VerifyApproval, StageInv
  <2>2. \/ WorkerLeaves(w)
        \/ wpc' \in {[wpc EXCEPT ![w] = "claim"], [wpc EXCEPT ![w] = "refuse"]}
           /\ UNCHANGED wrun
    BY <1>16 DEF VerifyApproval, WorkerGoes
  <2>3. ASSUME NEW v \in Workers
        PROVE  \/ wpc'[v] = wpc[v] /\ wrun'[v] = wrun[v]
               \/ wpc'[v] = "idle"
               \/ wpc'[v] \in {"claim", "refuse"} /\ wrun'[v] = wrun[w]
    BY <2>2 DEF WorkerLeaves
  <2>4. \A r \in Runs \cup {None} : Waiting(r) => Waiting(r)'
    BY <2>1 DEF Waiting
  <2>5. \A v \in Workers : wrun[v] \in Runs \cup {None}
    OBVIOUS
  <2> QED
    BY <2>1, <2>3, <2>4, <2>5 DEF StageInv
<1>17. ASSUME NEW w \in Workers, RecordFailure(w) PROVE StageInv'
  BY <1>17 DEF RecordFailure, WorkerLeaves, fail_run, StageInv, Waiting
<1>18. ASSUME NEW w \in Workers, ClaimRun(w) PROVE StageInv'
  BY <1>18 DEF ClaimRun, WorkerGoes, WorkerLeaves, StageInv, Waiting
<1>19. ASSUME NEW w \in Workers, ValidateDispatch(w) PROVE StageInv'
  BY <1>19 DEF ValidateDispatch, WorkerGoes, WorkerLeaves, StageInv, Waiting
<1>20. ASSUME NEW w \in Workers, BeginRunExecution(w) PROVE StageInv'
  BY <1>20 DEF BeginRunExecution, WorkerGoes, StageInv, Waiting
<1>21. ASSUME NEW w \in Workers, RunnerStopsEarly(w) PROVE StageInv'
  BY <1>21 DEF RunnerStopsEarly, StageInv, Waiting
<1>22. ASSUME NEW w \in Workers, RunnerJudges(w) PROVE StageInv'
  BY <1>22 DEF RunnerJudges, StageInv, Waiting
<1>23. ASSUME NEW w \in Workers, RunnerReturns(w) PROVE StageInv'
  BY <1>23 DEF RunnerReturns, StageInv, Waiting
<1>24. ASSUME NEW w \in Workers, RunnerDies(w) PROVE StageInv'
  BY <1>24 DEF RunnerDies, WorkerGoes, StageInv, Waiting, ItemInv, TERMINAL, ACTIVE,
     Executing
<1>25. ASSUME NEW w \in Workers, RecordCompletion(w) PROVE StageInv'
  BY <1>25 DEF RecordCompletion, RecordCheck, RecordIngest, RecordFinish, WorkerGoes,
     WorkerLeaves, finish_run, CompletionFails,
     CompletionState, terminal_state, StageInv, Waiting
<1>26. ASSUME NEW w \in Workers, LateStopCleanup(w) PROVE StageInv'
  <2>1. UNCHANGED state /\ state[wrun[w]] \in {"running", "stopping"}
    BY <1>26 DEF LateStopCleanup, Executing
  <2>2. \/ WorkerLeaves(w)
        \/ wpc' \in {[wpc EXCEPT ![w] = "record"], [wpc EXCEPT ![w] = "fail"]} /\ UNCHANGED wrun
    BY <1>26 DEF LateStopCleanup, WorkerGoes
  <2> QED  BY <2>1, <2>2 DEF WorkerLeaves, StageInv, Waiting
<1>27. ASSUME NEW r \in Runs, OrphanMark(r) PROVE StageInv'
  BY <1>27 DEF OrphanMark, StageInv, Waiting
<1>28. ASSUME OrphanFinish PROVE StageInv'
  BY <1>28 DEF OrphanFinish, finish_run, NotReconciling, StageInv, Waiting
<1>29. ASSUME CrashRestart PROVE StageInv'
  BY <1>29 DEF CrashRestart, NotReconciling, StageInv, Waiting
<1>30. CASE UNCHANGED vars
  BY <1>1, <1>30 DEF vars
<1> QED
  BY <1>2, <1>3, <1>4, <1>5, <1>6, <1>7, <1>8, <1>9, <1>10, <1>11, <1>12, <1>13, <1>14,
     <1>15, <1>16, <1>17, <1>18, <1>19, <1>20, <1>21, <1>22, <1>23, <1>24, <1>25, <1>26,
     <1>27, <1>28, <1>29, <1>30
     DEF Next, Request, HandlerStep, WorkerStep, Reconcile, RecordCompletion

\* A token comes and goes with its worker.
LEMMA TokenStep ==
    ASSUME IInv, IInv', ItemInv, StageInv, TokenInv, [Next]_vars
    PROVE  TokenInv'
<1> USE DEF IInv, TypeOK, WorkerInv, HandlerInv, BootInv, RowInv
<1>1. ASSUME UNCHANGED <<token, wrun>> PROVE TokenInv'
  BY <1>1 DEF TokenInv
<1>2. ASSUME NEW h \in Handlers, NEW r \in Runs, EnqueueAcquire(h, r) \/ BreakGlassMark(h, r)
      PROVE  TokenInv'
  BY <1>1, <1>2 DEF EnqueueAcquire, BreakGlassMark
<1>3. ASSUME NEW h \in Handlers, NEW r \in Runs, NEW u \in Users, ApproveRead(h, r, u)
      PROVE  TokenInv'
  BY <1>1, <1>3 DEF ApproveRead
<1>4. ASSUME NEW h \in Handlers, 
                \/ EnqueueInsert(h)
                \/ SendItem(h)
                \/ ApproveExpire(h)
                \/ ApproveDecide(h)
                \/ BreakGlassDraft(h)
                \/ DispatchRead(h)
                \/ DispatchRequeue(h)
                \/ StopWrite(h)
                \/ HandlerDropped(h)
      PROVE  TokenInv'
  BY <1>1, <1>4 DEF EnqueueInsert, SendItem, ApproveExpire, ApproveDecide, BreakGlassDraft,
     DispatchRead, DispatchRequeue, StopWrite, HandlerDropped
<1>5. ASSUME NEW r \in Runs, RequestGated(r) \/ Lapse(r) \/ Sweep(r) \/ OrphanMark(r)
      PROVE  TokenInv'
  BY <1>1, <1>5 DEF RequestGated, Lapse, Sweep, OrphanMark
<1>6. ASSUME NEW r \in Runs, NEW u \in Users, Reject(r, u) PROVE TokenInv'
  BY <1>1, <1>6 DEF Reject
<1>7. ASSUME NEW w \in Workers, 
                \/ BeginRunExecution(w)
                \/ InjectFault(w)
                \/ RunnerStopsEarly(w)
                \/ RunnerJudges(w)
                \/ RunnerReturns(w)
                \/ RunnerDies(w)
      PROVE  TokenInv'
  BY <1>1, <1>7 DEF BeginRunExecution, InjectFault, RunnerStopsEarly, RunnerJudges,
     RunnerReturns, RunnerDies, WorkerGoes
<1>8. ASSUME OrphanRollback \/ OrphanFinish \/ Serve PROVE TokenInv'
  BY <1>1, <1>8 DEF OrphanRollback, OrphanFinish, Serve
<1>9. ASSUME NEW h \in Handlers, NEW r \in Runs, StopCancel(h, r) PROVE TokenInv'
  BY <1>9 DEF StopCancel, HandlerStarts, TokenInv
<1>10. ASSUME NEW w \in Workers, Dequeue(w) PROVE TokenInv'
  BY <1>10 DEF Dequeue, TokenInv
<1>11. ASSUME NEW w \in Workers, VerifyApproval(w) PROVE TokenInv'
  <2>1. WorkerLeaves(w) \/ UNCHANGED <<wrun, token>>
    BY <1>11 DEF VerifyApproval, WorkerGoes
  <2> QED  BY <2>1 DEF WorkerLeaves, TokenInv
<1>12. ASSUME NEW w \in Workers, RecordFailure(w) PROVE TokenInv'
  BY <1>12 DEF RecordFailure, WorkerLeaves, fail_run, TokenInv
<1>13. ASSUME NEW w \in Workers, ClaimRun(w) PROVE TokenInv'
  BY <1>13 DEF ClaimRun, WorkerGoes, WorkerLeaves, TokenInv
<1>14. ASSUME NEW w \in Workers, ValidateDispatch(w) PROVE TokenInv'
  BY <1>14 DEF ValidateDispatch, WorkerGoes, WorkerLeaves, TokenInv
<1>15. ASSUME NEW w \in Workers, RecordCompletion(w) PROVE TokenInv'
  BY <1>15 DEF RecordCompletion, RecordCheck, RecordIngest, RecordFinish, WorkerGoes,
     WorkerLeaves, finish_run, CompletionFails,
     CompletionState, terminal_state, TokenInv
<1>16. ASSUME NEW w \in Workers, LateStopCleanup(w) PROVE TokenInv'
  <2>1. WorkerLeaves(w) \/ UNCHANGED <<wrun, token>>
    BY <1>16 DEF LateStopCleanup, WorkerGoes
  <2> QED  BY <2>1 DEF WorkerLeaves, TokenInv
<1>17. ASSUME CrashRestart PROVE TokenInv'
  BY <1>17 DEF CrashRestart, NotReconciling, TokenInv
<1>18. CASE UNCHANGED vars
  BY <1>1, <1>18 DEF vars
<1> QED
  BY <1>2, <1>3, <1>4, <1>5, <1>6, <1>7, <1>8, <1>9, <1>10, <1>11, <1>12, <1>13, <1>14,
     <1>15, <1>16, <1>17, <1>18
     DEF Next, Request, HandlerStep, WorkerStep, Reconcile, RecordCompletion

-----------------------------------------------------------------------------
(* One item *)

\* What the invariant says, as a number.
LEMMA ItemsAreOne ==
    ASSUME IInv, ItemInv
    PROVE  OneItemPerRun
<1> SUFFICES ASSUME NEW r \in Runs PROVE Cardinality(ItemsOf(r)) <= 1
  BY DEF OneItemPerRun
<1>1. ASSUME NEW x \in ItemsOf(r), NEW y \in ItemsOf(r) PROVE x = y
  <2>1. \A v, w \in Workers : wrun[v] = r /\ wrun[w] = r => v = w
    BY DEF IInv, WorkerInv
  <2>2. \A z \in ItemsOf(r) :
          \/ \E i \in DOMAIN channel : channel[i] = r /\ z = <<"channel", i>>
          \/ \E h \in Handlers : hpc[h] = "send" /\ hrun[h] = r /\ z = <<"handler", h>>
          \/ \E w \in Workers : wrun[w] = r /\ z = <<"worker", w>>
    BY DEF ItemsOf
  <2> QED  BY <2>1, <2>2 DEF ItemInv
<1>2. CASE ItemsOf(r) = {}
  BY <1>2, FS_EmptySet
<1>3. CASE ItemsOf(r) # {}
  <2>1. PICK x \in ItemsOf(r) : TRUE
    BY <1>3
  <2>2. ItemsOf(r) = {x}
    BY <1>1, <2>1
  <2> QED  BY <2>2, FS_Singleton
<1> QED  BY <1>2, <1>3

-----------------------------------------------------------------------------
(* Owners *)

\* An owner that is left alone keeps its row.
LEMMA OwnedStays ==
    ASSUME NEW q \in Runs, Owned(q), state'[q] = state[q],
           UNCHANGED <<todo, recon, channel, wrun>>,
           \A g \in Handlers : hpc[g] \in {"send", "stop"} => hpc'[g] = hpc[g] /\ hrun'[g] = hrun[g]
    PROVE  Owned(q)'
  BY DEF Owned

\* A worker that leaves with the row ended, or the row of another.
LEMMA OwnedLeft ==
    ASSUME NEW q \in Runs, Owned(q), NEW w \in Workers,
           UNCHANGED <<todo, recon, channel, hpc, hrun>>,
           \A v \in Workers : v # w => wrun'[v] = wrun[v],
           \/ wrun[w] # q /\ state'[q] = state[q]
           \/ state'[q] \in TERMINAL \cup {"rollback_pending"}
    PROVE  Owned(q)'
  BY DEF Owned

\* A step that cancels nothing, starts no wait and leaves the stops alone.
LEMMA StopsStay ==
    ASSUME StopInv,
           \A r \in Runs : token'[r] = "cancelled" /\ state'[r] \in {"queued", "validating"} =>
             token[r] = "cancelled" /\ state[r] \in {"queued", "validating"},
           \A g \in Handlers : hpc[g] = "stop" => hpc'[g] = "stop" /\ hrun'[g] = hrun[g]
    PROVE  StopInv'
  BY DEF StopInv

\* No step leaves a row to nobody.
LEMMA OwnStep ==
    ASSUME ~StoreMayFail, ~Disconnects,
           IInv, IInv', ItemInv, StageInv, TokenInv, OwnerInv, [Next]_vars
    PROVE  RowsOwned'
<1> USE DEF IInv, TypeOK, WorkerInv, HandlerInv, BootInv, RowInv, OwnerInv
<1>1. ASSUME UNCHANGED <<state, todo, recon, wrun, channel, hpc, hrun>> PROVE RowsOwned'
  BY <1>1 DEF RowsOwned, Owned
<1>2. ASSUME NEW r \in Runs, Lapse(r) PROVE RowsOwned'
  BY <1>1, <1>2 DEF Lapse
<1>3. ASSUME NEW w \in Workers, 
                \/ InjectFault(w)
                \/ RunnerStopsEarly(w)
                \/ RunnerJudges(w)
                \/ RunnerReturns(w)
                \/ RunnerDies(w)
      PROVE  RowsOwned'
  BY <1>1, <1>3 DEF InjectFault, RunnerStopsEarly, RunnerJudges, RunnerReturns, RunnerDies,
     WorkerGoes
<1>4. ASSUME Serve PROVE RowsOwned'
  BY <1>1, <1>4 DEF Serve
<1>5. ASSUME NEW h \in Handlers, NEW r \in Runs, EnqueueAcquire(h, r) PROVE RowsOwned'
  BY <1>5 DEF EnqueueAcquire, HandlerStarts, AcquirePermit, RowsOwned, Owned
<1>6. ASSUME NEW h \in Handlers, NEW r \in Runs, NEW u \in Users, ApproveRead(h, r, u)
      PROVE  RowsOwned'
  BY <1>6 DEF ApproveRead, HandlerStarts, RowsOwned, Owned
<1>7. ASSUME NEW h \in Handlers, NEW r \in Runs, BreakGlassMark(h, r) PROVE RowsOwned'
  BY <1>7 DEF BreakGlassMark, HandlerStarts, RowsOwned, Owned
<1>8. ASSUME NEW h \in Handlers, NEW r \in Runs, StopCancel(h, r) PROVE RowsOwned'
  BY <1>8 DEF StopCancel, HandlerStarts, RowsOwned, Owned
<1>9. ASSUME NEW h \in Handlers, EnqueueInsert(h) PROVE RowsOwned'
  <2> SUFFICES ASSUME NEW q \in Runs PROVE Owned(q)'
    BY DEF RowsOwned
  <2>0. Owned(q)
    BY DEF RowsOwned
  <2>1. UNCHANGED <<todo, recon, channel, wrun>> /\ hpc[h] \notin {"idle", "send", "stop"}
    BY <1>9 DEF EnqueueInsert, ReleasePermit
  <2>2. CASE HandlerReturns(h) /\ UNCHANGED state
    BY <2>0, <2>1, <2>2, OwnedStays DEF HandlerReturns
  <2>3. CASE state' = [state EXCEPT ![hrun[h]] = "queued"] /\ HandlerGoes(h, "send")
    <3>1. CASE q = hrun[h]
      <4>1. state'[q] = "queued" /\ hpc'[h] = "send" /\ hrun'[h] = q
        BY <2>3, <3>1 DEF HandlerGoes
      <4> QED  BY <4>1 DEF Owned
    <3>2. CASE q # hrun[h]
      <4>1. state'[q] = state[q]
        BY <2>3, <3>2
      <4> QED  BY <2>0, <2>1, <2>3, <4>1, OwnedStays DEF HandlerGoes
    <3> QED  BY <3>1, <3>2
  <2> QED  BY <1>9, <2>2, <2>3 DEF EnqueueInsert
<1>10. ASSUME NEW h \in Handlers, SendItem(h) PROVE RowsOwned'
  <2> SUFFICES ASSUME NEW q \in Runs PROVE Owned(q)'
    BY DEF RowsOwned
  <2>0. Owned(q)
    BY DEF RowsOwned
  <2>1. hrun[h] \in Runs /\ hpc[h] = "send" /\ channel' = Append(channel, hrun[h])
    BY <1>10 DEF SendItem
  <2>2. UNCHANGED <<state, todo, recon, wrun>> /\ HandlerReturns(h)
    BY <1>10 DEF SendItem
  <2>3. channel'[Len(channel) + 1] = hrun[h] /\ Len(channel) + 1 \in DOMAIN channel'
    BY <2>1
  <2>4. \A i \in DOMAIN channel : i \in DOMAIN channel' /\ channel'[i] = channel[i]
    BY <2>1
  <2>5. CASE q = hrun[h]
    <3>1. state'[q] \in {"queued"} \cup TERMINAL
      BY <2>1, <2>2, <2>5 DEF ItemInv, Waiting
    <3> QED  BY <2>3, <2>5, <3>1 DEF Owned
  <2>6. CASE q # hrun[h]
    <3>1. \A g \in Handlers : hpc[g] \in {"send", "stop"} /\ hrun[g] = q =>
            hpc'[g] = hpc[g] /\ hrun'[g] = hrun[g]
      BY <2>2, <2>6 DEF HandlerReturns
    <3> QED  BY <2>0, <2>2, <2>4, <3>1 DEF Owned
  <2> QED  BY <2>5, <2>6
<1>11. ASSUME NEW h \in Handlers, ApproveExpire(h) PROVE RowsOwned'
  <2> SUFFICES ASSUME NEW q \in Runs PROVE Owned(q)'
    BY DEF RowsOwned
  <2>0. Owned(q)
    BY DEF RowsOwned
  <2>1. CASE UNCHANGED rowVars
    BY <1>11, <2>0, <2>1, OwnedStays DEF ApproveExpire, HandlerReturns
  <2>2. CASE finish_run(hrun[h], "expired", "not_needed")
    <3>1. CASE q = hrun[h]
      BY <2>2, <3>1 DEF finish_run, Owned, TERMINAL
    <3>2. CASE q # hrun[h]
      <4>1. state'[q] = state[q]
        BY <2>2, <3>2 DEF finish_run
      <4> QED  BY <1>11, <2>0, <4>1, OwnedStays DEF ApproveExpire, HandlerReturns
    <3> QED  BY <3>1, <3>2
  <2> QED  BY <1>11, <2>1, <2>2 DEF ApproveExpire
<1>12. ASSUME NEW h \in Handlers, ApproveDecide(h) PROVE RowsOwned'
  <2> SUFFICES ASSUME NEW q \in Runs PROVE Owned(q)'
    BY DEF RowsOwned
  <2>1. /\ Owned(q) /\ state'[q] = state[q] /\ UNCHANGED <<todo, recon, channel, wrun>>
        /\ \A g \in Handlers : hpc[g] \in {"send", "stop"} => hpc'[g] = hpc[g] /\ hrun'[g] = hrun[g]
    BY <1>12 DEF RowsOwned, ApproveDecide, HandlerGoes, HandlerReturns
  <2> QED  BY <2>1, OwnedStays
<1>13. ASSUME NEW h \in Handlers, BreakGlassDraft(h) PROVE RowsOwned'
  BY <1>13 DEF BreakGlassDraft, HandlerGoes, HandlerReturns, RowsOwned, Owned
<1>14. ASSUME NEW h \in Handlers, DispatchRead(h) PROVE RowsOwned'
  <2> SUFFICES ASSUME NEW q \in Runs PROVE Owned(q)'
    BY DEF RowsOwned
  <2>1. /\ Owned(q) /\ state'[q] = state[q] /\ UNCHANGED <<todo, recon, channel, wrun>>
        /\ \A g \in Handlers : hpc[g] \in {"send", "stop"} => hpc'[g] = hpc[g] /\ hrun'[g] = hrun[g]
    BY <1>14 DEF RowsOwned, DispatchRead, HandlerGoes, HandlerReturns, AcquirePermit
  <2> QED  BY <2>1, OwnedStays
<1>15. ASSUME NEW h \in Handlers, DispatchRequeue(h) PROVE RowsOwned'
  <2> SUFFICES ASSUME NEW q \in Runs PROVE Owned(q)'
    BY DEF RowsOwned
  <2>0. Owned(q)
    BY DEF RowsOwned
  <2>1. UNCHANGED <<todo, recon, channel, wrun>> /\ hpc[h] \notin {"idle", "send", "stop"}
    BY <1>15 DEF DispatchRequeue, ReleasePermit
  <2>2. CASE HandlerReturns(h) /\ UNCHANGED state
    BY <2>0, <2>1, <2>2, OwnedStays DEF HandlerReturns
  <2>3. CASE state' = [state EXCEPT ![hrun[h]] = "queued"] /\ HandlerGoes(h, "send")
    <3>1. CASE q = hrun[h]
      <4>1. state'[q] = "queued" /\ hpc'[h] = "send" /\ hrun'[h] = q
        BY <2>3, <3>1 DEF HandlerGoes
      <4> QED  BY <4>1 DEF Owned
    <3>2. CASE q # hrun[h]
      <4>1. state'[q] = state[q]
        BY <2>3, <3>2
      <4> QED  BY <2>0, <2>1, <2>3, <4>1, OwnedStays DEF HandlerGoes
    <3> QED  BY <3>1, <3>2
  <2> QED  BY <1>15, <2>2, <2>3 DEF DispatchRequeue
<1>16. ASSUME NEW h \in Handlers, StopWrite(h) PROVE RowsOwned'
  <2> SUFFICES ASSUME NEW q \in Runs PROVE Owned(q)'
    BY DEF RowsOwned
  <2>0. Owned(q)
    BY DEF RowsOwned
  <2>1. /\ UNCHANGED <<todo, recon, channel, wrun>> /\ hpc[h] = "stop" /\ HandlerReturns(h)
        /\ hrun[h] \in Runs
    BY <1>16 DEF StopWrite
  <2>2. CASE q # hrun[h]
    <3>1. state'[q] = state[q]
      BY <1>16, <2>2 DEF StopWrite, request_run_stop
    <3>2. \A g \in Handlers : hpc[g] \in {"send", "stop"} /\ hrun[g] = q =>
            hpc'[g] = hpc[g] /\ hrun'[g] = hrun[g]
      BY <2>1, <2>2 DEF HandlerReturns
    <3> QED  BY <2>0, <2>1, <3>1, <3>2 DEF Owned
  <2>3. CASE q = hrun[h] /\ state[q] \in Stoppable
    <3>1. state' = [state EXCEPT ![q] = IF started[q] THEN "stopping" ELSE "aborted"]
      BY <1>16, <2>3 DEF StopWrite, request_run_stop, NoEffect
    <3>2. CASE started[q]
      <4>1. state[q] \in {"running", "stopping"}
        BY <2>3, <3>2 DEF Stoppable
      <4> QED  BY <2>0, <2>1, <4>1 DEF Owned, TERMINAL
    <3>3. CASE ~started[q]
      BY <3>1, <3>3 DEF Owned, TERMINAL
    <3> QED  BY <3>2, <3>3
  <2>4. CASE q = hrun[h] /\ state[q] \notin Stoppable
    <3>1. UNCHANGED state /\ state[q] \notin {"queued", "validating"}
      BY <1>16, <2>4 DEF StopWrite, Stoppable
    <3> QED  BY <2>0, <2>1, <3>1 DEF Owned
  <2> QED  BY <2>2, <2>3, <2>4
<1>17. ASSUME NEW h \in Handlers, HandlerDropped(h) PROVE RowsOwned'
  BY <1>17 DEF HandlerDropped, HandlerReturns, ReleasePermit, RowsOwned, Owned
<1>18. ASSUME NEW r \in Runs, RequestGated(r) PROVE RowsOwned'
  BY <1>18 DEF RequestGated, RowsOwned, Owned
<1>19. ASSUME NEW r \in Runs, Sweep(r) PROVE RowsOwned'
  BY <1>19 DEF Sweep, finish_run, RowsOwned, Owned, Waiting, TERMINAL, ACTIVE, Executing,
     NoEffect, StageInv, ItemInv, StopInv, RetryInv, CompletionRefused
<1>20. ASSUME NEW r \in Runs, NEW u \in Users, Reject(r, u) PROVE RowsOwned'
  <2> SUFFICES ASSUME NEW q \in Runs PROVE Owned(q)'
    BY DEF RowsOwned
  <2>1. state'[q] = state[q] \/ state'[q] = "rejected"
    BY <1>20 DEF Reject, finish_run
  <2> QED  BY <1>20, <2>1, OwnedStays DEF Reject, RowsOwned, Owned, TERMINAL
<1>21. ASSUME NEW w \in Workers, Dequeue(w) PROVE RowsOwned'
  <2> SUFFICES ASSUME NEW q \in Runs PROVE Owned(q)'
    BY DEF RowsOwned
  <2>0. Owned(q)
    BY DEF RowsOwned
  <2>1. channel # <<>> /\ Head(channel) = channel[1] /\ 1 \in DOMAIN channel
    BY <1>21 DEF Dequeue
  <2>2. token[Head(channel)] = "none"
    BY <2>1 DEF ItemInv, TokenInv
  <2>3. /\ wrun' = [wrun EXCEPT ![w] = Head(channel)] /\ channel' = Tail(channel)
        /\ UNCHANGED <<state, todo, recon, hpc, hrun>> /\ wrun[w] = None
    BY <1>21, <2>2 DEF Dequeue
  <2>4. CASE q = Head(channel)
    <3>1. wrun'[w] = q
      BY <2>3, <2>4
    <3> QED  BY <3>1 DEF Owned
  <2>5. CASE q # Head(channel)
    <3>1. ASSUME NEW i \in DOMAIN channel, channel[i] = q
          PROVE  \E j \in DOMAIN channel' : channel'[j] = q
      <4>1. i # 1 /\ i - 1 \in DOMAIN channel' /\ channel'[i - 1] = channel[i]
        BY <2>1, <2>3, <2>5, <3>1
      <4> QED  BY <3>1, <4>1
    <3>2. \A v \in Workers : wrun[v] = q => wrun'[v] = q
      BY <2>3
    <3> QED  BY <2>0, <2>3, <3>1, <3>2 DEF Owned
  <2> QED  BY <2>4, <2>5
<1>22. ASSUME NEW w \in Workers, VerifyApproval(w) PROVE RowsOwned'
  BY <1>22 DEF VerifyApproval, WorkerGoes, WorkerLeaves, RowsOwned, Owned, Waiting,
     TERMINAL, ACTIVE, Executing, NoEffect, StageInv, ItemInv, StopInv, RetryInv,
     CompletionRefused
<1>23. ASSUME NEW w \in Workers, RecordFailure(w) PROVE RowsOwned'
  <2> SUFFICES ASSUME NEW q \in Runs PROVE Owned(q)'
    BY DEF RowsOwned
  <2>0. Owned(q)
    BY DEF RowsOwned
  <2>1. /\ UNCHANGED <<todo, recon, channel, hpc, hrun>>
        /\ \A v \in Workers : v # w => wrun'[v] = wrun[v]
    BY <1>23 DEF RecordFailure, WorkerLeaves
  <2>2. fail_run(wrun[w]) /\ wrun[w] \in Runs /\ wpc[w] \in {"refuse", "fail"}
    BY <1>23 DEF RecordFailure
  <2>3. state[wrun[w]] \in {"queued", "validating", "running", "stopping"} \cup TERMINAL
    BY <2>2 DEF StageInv, Waiting
  <2>4. \/ wrun[w] # q /\ state'[q] = state[q]
        \/ state'[q] \in TERMINAL \cup {"rollback_pending"}
    BY <2>2, <2>3 DEF fail_run, TERMINAL
  <2> QED  BY <2>0, <2>1, <2>4, OwnedLeft
<1>24. ASSUME NEW w \in Workers, ClaimRun(w) PROVE RowsOwned'
  BY <1>24 DEF ClaimRun, WorkerGoes, WorkerLeaves, RowsOwned, Owned, Waiting, TERMINAL,
     ACTIVE, Executing, NoEffect, StageInv, ItemInv, StopInv, RetryInv, CompletionRefused
<1>25. ASSUME NEW w \in Workers, ValidateDispatch(w) PROVE RowsOwned'
  BY <1>25 DEF ValidateDispatch, WorkerGoes, WorkerLeaves, RowsOwned, Owned, Waiting,
     TERMINAL, ACTIVE, Executing, NoEffect, StageInv, ItemInv, StopInv, RetryInv,
     CompletionRefused
<1>26. ASSUME NEW w \in Workers, BeginRunExecution(w) PROVE RowsOwned'
  BY <1>26 DEF BeginRunExecution, WorkerGoes, RowsOwned, Owned
<1>27. ASSUME NEW w \in Workers, RecordCompletion(w) PROVE RowsOwned'
  <2> SUFFICES ASSUME NEW q \in Runs PROVE Owned(q)'
    BY DEF RowsOwned
  <2>0. Owned(q)
    BY DEF RowsOwned
  <2>1. UNCHANGED <<todo, recon, channel, hpc, hrun>> /\ wrun[w] \in Runs
    BY <1>27 DEF RecordCompletion, RecordCheck, RecordIngest, RecordFinish
  <2>2. CASE /\ finish_run(wrun[w], CompletionState(w), CompletionRollback(w))
             /\ WorkerLeaves(w)
    <3>1. CompletionState(w) \in TERMINAL \cup {"rollback_pending"}
      BY DEF CompletionState, terminal_state, TERMINAL
    <3>2. \/ wrun[w] # q /\ state'[q] = state[q]
          \/ state'[q] \in TERMINAL \cup {"rollback_pending"}
      BY <2>1, <2>2, <3>1 DEF finish_run
    <3>3. \A v \in Workers : v # w => wrun'[v] = wrun[v]
      BY <2>2 DEF WorkerLeaves
    <3> QED  BY <2>0, <2>1, <3>2, <3>3, OwnedLeft
  <2>3. CASE UNCHANGED <<state, wrun>>
    BY <2>0, <2>1, <2>3, OwnedStays
  <2> QED
    BY <1>27, <2>2, <2>3 DEF RecordCompletion, RecordCheck, RecordIngest, RecordFinish,
       CompletionFails, WorkerGoes
<1>28. ASSUME NEW w \in Workers, LateStopCleanup(w) PROVE RowsOwned'
  <2> SUFFICES ASSUME NEW q \in Runs PROVE Owned(q)'
    BY DEF RowsOwned
  <2>0. Owned(q)
    BY DEF RowsOwned
  <2>1. CompletionRefused(w)
    BY <1>28 DEF LateStopCleanup, RetryInv
  <2>2. UNCHANGED <<todo, recon, channel, hpc, hrun, state>>
    BY <1>28 DEF LateStopCleanup
  <2>3. UNCHANGED wrun
    BY <1>28, <2>1 DEF LateStopCleanup, WorkerGoes
  <2> QED  BY <2>0, <2>2, <2>3, OwnedStays
<1>29. ASSUME NEW r \in Runs, OrphanMark(r) PROVE RowsOwned'
  <2> SUFFICES ASSUME NEW q \in Runs PROVE Owned(q)'
    BY DEF RowsOwned
  <2>0. Owned(q)
    BY DEF RowsOwned
  <2>1. recon'.run = r /\ todo' = todo \ {r} /\ UNCHANGED <<channel, wrun, hpc, hrun>>
    BY <1>29 DEF OrphanMark
  <2>3. q # r => state'[q] = state[q]
    BY <1>29 DEF OrphanMark
  <2>4. CASE q = r
    BY <2>1, <2>4 DEF Owned
  <2>5. CASE q # r /\ recon.run # q
    BY <2>0, <2>1, <2>3, <2>5 DEF Owned
  <2>6. recon.run # q
    BY <1>29 DEF OrphanMark, ReconInv
  <2> QED  BY <2>4, <2>5, <2>6
<1>30. ASSUME OrphanRollback PROVE RowsOwned'
  <2> SUFFICES ASSUME NEW q \in Runs PROVE Owned(q)'
    BY DEF RowsOwned
  <2>0. Owned(q)
    BY DEF RowsOwned
  <2>1. recon'.run = recon.run /\ UNCHANGED <<todo, state, channel, wrun, hpc, hrun>>
    <3>1. CASE recon' = [recon EXCEPT !.pc = "finish", !.outcome = "RolledBack"]
      BY <1>30, <3>1 DEF OrphanRollback
    <3>2. CASE recon' = [recon EXCEPT !.pc = "finish", !.outcome = "RollbackFailed"]
      BY <1>30, <3>2 DEF OrphanRollback
    <3> QED  BY <1>30, <3>1, <3>2 DEF OrphanRollback
  <2> QED  BY <2>0, <2>1 DEF Owned
<1>31. ASSUME OrphanFinish PROVE RowsOwned'
  <2> SUFFICES ASSUME NEW q \in Runs PROVE Owned(q)'
    BY DEF RowsOwned
  <2>0. Owned(q)
    BY DEF RowsOwned
  <2>1. UNCHANGED <<todo, channel, wrun, hpc, hrun>> /\ recon.run \in Runs
    BY <1>31 DEF OrphanFinish
  <2>2. CASE q = recon.run
    <3>1. state'[q] \in {"aborted", "rollback_pending"}
      BY <1>31, <2>1, <2>2 DEF OrphanFinish, finish_run
    <3> QED  BY <3>1 DEF Owned, TERMINAL
  <2>3. CASE q # recon.run
    <3>1. state'[q] = state[q]
      BY <1>31, <2>1, <2>3 DEF OrphanFinish, finish_run
    <3> QED  BY <2>0, <2>1, <2>3, <3>1 DEF Owned
  <2> QED  BY <2>2, <2>3
<1>32. ASSUME CrashRestart PROVE RowsOwned'
  <2> SUFFICES ASSUME NEW q \in Runs PROVE Owned(q)'
    BY DEF RowsOwned
  <2>1. state'[q] = state[q] /\ todo' = {r \in Runs : state[r] \in ACTIVE}
    BY <1>32 DEF CrashRestart
  <2>2. state[q] \in ACTIVE \cup TERMINAL \cup {"absent", "pending_approval"}
    BY DEF RunState
  <2> QED  BY <2>1, <2>2 DEF Owned
<1>33. CASE UNCHANGED vars
  BY <1>1, <1>33 DEF vars
<1> QED
  BY <1>2, <1>3, <1>4, <1>5, <1>6, <1>7, <1>8, <1>9, <1>10, <1>11, <1>12, <1>13, <1>14,
     <1>15, <1>16, <1>17, <1>18, <1>19, <1>20, <1>21, <1>22, <1>23, <1>24, <1>25, <1>26,
     <1>27, <1>28, <1>29, <1>30, <1>31, <1>32, <1>33
     DEF Next, Request, HandlerStep, WorkerStep, Reconcile, RecordCompletion

\* A cancelled run stops waiting only when the stop has been written.
LEMMA StopStep ==
    ASSUME ~StoreMayFail, ~Disconnects,
           IInv, IInv', ItemInv, StageInv, TokenInv, OwnerInv, [Next]_vars
    PROVE  StopInv'
<1> USE DEF IInv, TypeOK, WorkerInv, HandlerInv, BootInv, RowInv, OwnerInv
<1>1. ASSUME UNCHANGED <<token, state, hpc, hrun>> PROVE StopInv'
  BY <1>1 DEF StopInv
<1>2. ASSUME NEW r \in Runs, Lapse(r) PROVE StopInv'
  BY <1>1, <1>2 DEF Lapse
<1>3. ASSUME NEW w \in Workers, 
                \/ InjectFault(w)
                \/ RunnerStopsEarly(w)
                \/ RunnerJudges(w)
                \/ RunnerReturns(w)
                \/ RunnerDies(w)
      PROVE  StopInv'
  BY <1>1, <1>3 DEF InjectFault, RunnerStopsEarly, RunnerJudges, RunnerReturns, RunnerDies,
     WorkerGoes
<1>4. ASSUME OrphanRollback \/ Serve PROVE StopInv'
  BY <1>1, <1>4 DEF OrphanRollback, Serve
<1>5. ASSUME NEW h \in Handlers, NEW r \in Runs, EnqueueAcquire(h, r) PROVE StopInv'
  BY <1>5 DEF EnqueueAcquire, HandlerStarts, AcquirePermit, StopInv
<1>6. ASSUME NEW h \in Handlers, NEW r \in Runs, NEW u \in Users, ApproveRead(h, r, u)
      PROVE  StopInv'
  BY <1>6 DEF ApproveRead, HandlerStarts, StopInv
<1>7. ASSUME NEW h \in Handlers, NEW r \in Runs, BreakGlassMark(h, r) PROVE StopInv'
  BY <1>7 DEF BreakGlassMark, HandlerStarts, StopInv
<1>8. ASSUME NEW h \in Handlers, NEW r \in Runs, StopCancel(h, r) PROVE StopInv'
  BY <1>8 DEF StopCancel, HandlerStarts, StopInv
<1>9. ASSUME NEW h \in Handlers, EnqueueInsert(h) PROVE StopInv'
  <2>1. UNCHANGED token /\ hpc[h] # "stop" /\ hrun[h] \in Runs
    BY <1>9 DEF EnqueueInsert
  <2>2. CASE HandlerReturns(h) /\ UNCHANGED state
    BY <2>1, <2>2, StopsStay DEF HandlerReturns
  <2>3. CASE /\ state[hrun[h]] \in {"absent", "pending_approval"}
             /\ state' = [state EXCEPT ![hrun[h]] = "queued"] /\ HandlerGoes(h, "send")
    <3>1. token[hrun[h]] = "none"
      BY <2>1, <2>3, NobodyYet DEF TokenInv
    <3>2. \A r \in Runs : token'[r] = "cancelled" => state'[r] = state[r]
      BY <2>1, <2>3, <3>1
    <3> QED  BY <2>1, <2>3, <3>2, StopsStay DEF HandlerGoes
  <2> QED  BY <1>9, <2>2, <2>3 DEF EnqueueInsert
<1>10. ASSUME NEW h \in Handlers, SendItem(h) PROVE StopInv'
  BY <1>10 DEF SendItem, HandlerReturns, StopInv
<1>11. ASSUME NEW h \in Handlers, ApproveExpire(h) PROVE StopInv'
  BY <1>11 DEF ApproveExpire, HandlerReturns, finish_run, StopInv
<1>12. ASSUME NEW h \in Handlers, ApproveDecide(h) PROVE StopInv'
  BY <1>12 DEF ApproveDecide, HandlerGoes, HandlerReturns, StopInv
<1>13. ASSUME NEW h \in Handlers, BreakGlassDraft(h) PROVE StopInv'
  BY <1>13 DEF BreakGlassDraft, HandlerGoes, HandlerReturns, StopInv
<1>14. ASSUME NEW h \in Handlers, DispatchRead(h) PROVE StopInv'
  BY <1>14 DEF DispatchRead, HandlerGoes, HandlerReturns, AcquirePermit, StopInv
<1>15. ASSUME NEW h \in Handlers, DispatchRequeue(h) PROVE StopInv'
  <2>1. UNCHANGED token /\ hpc[h] # "stop" /\ hrun[h] \in Runs
    BY <1>15 DEF DispatchRequeue
  <2>2. CASE HandlerReturns(h) /\ UNCHANGED state
    BY <2>1, <2>2, StopsStay DEF HandlerReturns
  <2>3. CASE /\ state[hrun[h]] \in {"absent", "pending_approval"}
             /\ state' = [state EXCEPT ![hrun[h]] = "queued"] /\ HandlerGoes(h, "send")
    <3>1. token[hrun[h]] = "none"
      BY <2>1, <2>3, NobodyYet DEF TokenInv
    <3>2. \A r \in Runs : token'[r] = "cancelled" => state'[r] = state[r]
      BY <2>1, <2>3, <3>1
    <3> QED  BY <2>1, <2>3, <3>2, StopsStay DEF HandlerGoes
  <2> QED  BY <1>15, <2>2, <2>3 DEF DispatchRequeue
<1>16. ASSUME NEW h \in Handlers, StopWrite(h) PROVE StopInv'
  BY <1>16 DEF StopWrite, HandlerReturns, request_run_stop, StopInv, TokenInv, ItemInv,
     StageInv, Waiting, TERMINAL, ACTIVE, Stoppable, NoEffect, Executing
<1>17. ASSUME NEW h \in Handlers, HandlerDropped(h) PROVE StopInv'
  BY <1>17 DEF HandlerDropped, HandlerReturns, ReleasePermit, StopInv
<1>18. ASSUME NEW r \in Runs, RequestGated(r) PROVE StopInv'
  BY <1>18 DEF RequestGated, StopInv
<1>19. ASSUME NEW r \in Runs, Sweep(r) PROVE StopInv'
  BY <1>19 DEF Sweep, finish_run, StopInv
<1>20. ASSUME NEW r \in Runs, NEW u \in Users, Reject(r, u) PROVE StopInv'
  <2>1. UNCHANGED <<token, hpc, hrun>>
    BY <1>20 DEF Reject
  <2>2. \A q \in Runs : state'[q] \in {"queued", "validating"} => state'[q] = state[q]
    BY <1>20 DEF Reject, finish_run
  <2> QED  BY <2>1, <2>2, StopsStay
<1>21. ASSUME NEW w \in Workers, Dequeue(w) PROVE StopInv'
  <2>1. channel # <<>> /\ Head(channel) = channel[1] /\ 1 \in DOMAIN channel
    BY <1>21 DEF Dequeue
  <2>2. token[Head(channel)] = "none"
    BY <2>1 DEF ItemInv, TokenInv
  <2>3. UNCHANGED <<state, hpc, hrun>> /\ token' = [token EXCEPT ![Head(channel)] = "live"]
    BY <1>21, <2>2 DEF Dequeue
  <2> QED  BY <2>3, StopsStay
<1>22. ASSUME NEW w \in Workers, VerifyApproval(w) PROVE StopInv'
  <2>1. UNCHANGED <<hpc, hrun>>
    BY <1>22 DEF VerifyApproval
  <2>2. \A r \in Runs : token'[r] = "cancelled" => token[r] = "cancelled"
    BY <1>22 DEF VerifyApproval, WorkerLeaves, WorkerGoes
  <2>3. \A r \in Runs :
            state'[r] \in {"queued", "validating"} => state[r] \in {"queued", "validating"}
    BY <1>22 DEF VerifyApproval, WorkerLeaves, WorkerGoes
  <2> QED  BY <2>1, <2>2, <2>3, StopsStay
<1>23. ASSUME NEW w \in Workers, RecordFailure(w) PROVE StopInv'
  BY <1>23 DEF RecordFailure, WorkerLeaves, fail_run, StopInv
<1>24. ASSUME NEW w \in Workers, ClaimRun(w) PROVE StopInv'
  <2>1. UNCHANGED <<hpc, hrun>>
    BY <1>24 DEF ClaimRun
  <2>2. \A r \in Runs : token'[r] = "cancelled" => token[r] = "cancelled"
    BY <1>24 DEF ClaimRun, WorkerLeaves, WorkerGoes
  <2>3. \A r \in Runs :
            state'[r] \in {"queued", "validating"} => state[r] \in {"queued", "validating"}
    BY <1>24 DEF ClaimRun, WorkerLeaves, WorkerGoes
  <2> QED  BY <2>1, <2>2, <2>3, StopsStay
<1>25. ASSUME NEW w \in Workers, ValidateDispatch(w) PROVE StopInv'
  BY <1>25 DEF ValidateDispatch, WorkerGoes, WorkerLeaves, StopInv
<1>26. ASSUME NEW w \in Workers, BeginRunExecution(w) PROVE StopInv'
  <2>1. UNCHANGED <<hpc, hrun>>
    BY <1>26 DEF BeginRunExecution
  <2>2. \A r \in Runs : token'[r] = "cancelled" => token[r] = "cancelled"
    BY <1>26 DEF BeginRunExecution, WorkerGoes
  <2>3. \A r \in Runs :
            state'[r] \in {"queued", "validating"} => state[r] \in {"queued", "validating"}
    BY <1>26 DEF BeginRunExecution, WorkerGoes
  <2> QED  BY <2>1, <2>2, <2>3, StopsStay
<1>27. ASSUME NEW w \in Workers, RecordCompletion(w) PROVE StopInv'
  <2>1. UNCHANGED <<hpc, hrun>> /\ wrun[w] \in Runs
    BY <1>27 DEF RecordCompletion, RecordCheck, RecordIngest, RecordFinish
  <2>2. WorkerLeaves(w) \/ UNCHANGED token
    BY <1>27 DEF RecordCompletion, RecordCheck, RecordIngest, RecordFinish, CompletionFails
  <2>3. \A r \in Runs : token'[r] = "cancelled" => token[r] = "cancelled"
    BY <2>2 DEF WorkerLeaves
  <2>4. UNCHANGED state \/ state' = [state EXCEPT ![wrun[w]] = CompletionState(w)]
    BY <1>27 DEF RecordCompletion, RecordCheck, RecordIngest, RecordFinish,
       CompletionFails, finish_run
  <2>5. CompletionState(w) \notin {"queued", "validating"}
    BY DEF CompletionState, terminal_state
  <2>6. \A r \in Runs : state'[r] \in {"queued", "validating"} => state[r] = state'[r]
    BY <2>1, <2>4, <2>5
  <2> QED  BY <2>1, <2>3, <2>6, StopsStay
<1>28. ASSUME NEW w \in Workers, LateStopCleanup(w) PROVE StopInv'
  <2>1. UNCHANGED <<state, hpc, hrun>>
    BY <1>28 DEF LateStopCleanup
  <2>2. WorkerLeaves(w) \/ UNCHANGED token
    BY <1>28 DEF LateStopCleanup
  <2>3. \A r \in Runs : token'[r] = "cancelled" => token[r] = "cancelled"
    BY <2>2 DEF WorkerLeaves
  <2> QED  BY <2>1, <2>3, StopsStay
<1>29. ASSUME NEW r \in Runs, OrphanMark(r) PROVE StopInv'
  BY <1>29 DEF OrphanMark, StopInv
<1>30. ASSUME OrphanFinish PROVE StopInv'
  <2>1. UNCHANGED <<token, hpc, hrun>>
    BY <1>30 DEF OrphanFinish
  <2>2. \A r \in Runs : state'[r] \in {"queued", "validating"} => state[r] = state'[r]
    BY <1>30 DEF OrphanFinish, finish_run
  <2> QED  BY <2>1, <2>2, StopsStay
<1>31. ASSUME CrashRestart PROVE StopInv'
  BY <1>31 DEF CrashRestart, NotReconciling, StopInv
<1>32. CASE UNCHANGED vars
  BY <1>1, <1>32 DEF vars
<1> QED
  BY <1>2, <1>3, <1>4, <1>5, <1>6, <1>7, <1>8, <1>9, <1>10, <1>11, <1>12, <1>13, <1>14,
     <1>15, <1>16, <1>17, <1>18, <1>19, <1>20, <1>21, <1>22, <1>23, <1>24, <1>25, <1>26,
     <1>27, <1>28, <1>29, <1>30, <1>31, <1>32
     DEF Next, Request, HandlerStep, WorkerStep, Reconcile, RecordCompletion

\* A completion is refused once at most.
LEMMA RetryStep ==
    ASSUME ~StoreMayFail, ~Disconnects,
           IInv, IInv', ItemInv, StageInv, TokenInv, OwnerInv, [Next]_vars
    PROVE  RetryInv'
<1> USE DEF IInv, TypeOK, WorkerInv, HandlerInv, BootInv, RowInv, OwnerInv
<1>1. ASSUME UNCHANGED <<wpc, wrun, wstatus, token>> PROVE RetryInv'
  BY <1>1 DEF RetryInv, CompletionRefused
<1>2. ASSUME NEW h \in Handlers, NEW r \in Runs, EnqueueAcquire(h, r) \/ BreakGlassMark(h, r)
      PROVE  RetryInv'
  BY <1>1, <1>2 DEF EnqueueAcquire, BreakGlassMark
<1>3. ASSUME NEW h \in Handlers, NEW r \in Runs, NEW u \in Users, ApproveRead(h, r, u)
      PROVE  RetryInv'
  BY <1>1, <1>3 DEF ApproveRead
<1>4. ASSUME NEW h \in Handlers, 
                \/ EnqueueInsert(h)
                \/ SendItem(h)
                \/ ApproveExpire(h)
                \/ ApproveDecide(h)
                \/ BreakGlassDraft(h)
                \/ DispatchRead(h)
                \/ DispatchRequeue(h)
                \/ StopWrite(h)
                \/ HandlerDropped(h)
      PROVE  RetryInv'
  BY <1>1, <1>4 DEF EnqueueInsert, SendItem, ApproveExpire, ApproveDecide, BreakGlassDraft,
     DispatchRead, DispatchRequeue, StopWrite, HandlerDropped
<1>5. ASSUME NEW r \in Runs, RequestGated(r) \/ Lapse(r) \/ Sweep(r) \/ OrphanMark(r)
      PROVE  RetryInv'
  BY <1>1, <1>5 DEF RequestGated, Lapse, Sweep, OrphanMark
<1>6. ASSUME NEW r \in Runs, NEW u \in Users, Reject(r, u) PROVE RetryInv'
  BY <1>1, <1>6 DEF Reject
<1>7. ASSUME NEW w \in Workers, InjectFault(w) PROVE RetryInv'
  BY <1>1, <1>7 DEF InjectFault
<1>8. ASSUME OrphanRollback \/ OrphanFinish \/ Serve PROVE RetryInv'
  BY <1>1, <1>8 DEF OrphanRollback, OrphanFinish, Serve
<1>9. ASSUME NEW h \in Handlers, NEW r \in Runs, StopCancel(h, r) PROVE RetryInv'
  BY <1>9 DEF StopCancel, HandlerStarts, RetryInv, CompletionRefused
<1>10. ASSUME NEW w \in Workers, Dequeue(w) PROVE RetryInv'
  <2>1. \/ UNCHANGED <<token, wpc, wrun, wstatus>>
        \/ /\ token[Head(channel)] = "none" /\ UNCHANGED wstatus
           /\ token' = [token EXCEPT ![Head(channel)] = "live"]
           /\ wpc' = [wpc EXCEPT ![w] = "verify"]
           /\ wrun' = [wrun EXCEPT ![w] = Head(channel)]
    BY <1>10 DEF Dequeue
  <2>2. ASSUME NEW v \in Workers, wpc'[v] = "unrecorded"
        PROVE  CompletionRefused(v) => CompletionRefused(v)'
    <3>1. /\ wpc[v] = "unrecorded" /\ wrun'[v] = wrun[v] /\ wstatus'[v] = wstatus[v]
          /\ wrun[v] \in Runs
      BY <2>1, <2>2
    <3>2. token[wrun[v]] = "cancelled" => token'[wrun[v]] = "cancelled"
      BY <2>1, <3>1
    <3> QED  BY <3>1, <3>2 DEF CompletionRefused
  <2>3. ASSUME NEW v \in Workers, wpc'[v] = "unrecorded" PROVE wpc[v] = "unrecorded"
    BY <2>1, <2>3
  <2> QED  BY <2>2, <2>3 DEF RetryInv
<1>11. ASSUME NEW w \in Workers, VerifyApproval(w) PROVE RetryInv'
  <2>1. UNCHANGED wstatus \/ WorkerLeaves(w)
    BY <1>11 DEF VerifyApproval, WorkerGoes
  <2>2. \A v \in Workers :
            v # w => wpc'[v] = wpc[v] /\ wrun'[v] = wrun[v] /\ wstatus'[v] = wstatus[v]
    BY <1>11 DEF VerifyApproval, WorkerGoes, WorkerLeaves
  <2>3. wpc'[w] # "unrecorded"
    BY <1>11 DEF VerifyApproval, WorkerGoes, WorkerLeaves
  <2>4. \A v \in Workers : v # w /\ wrun[v] # None => token'[wrun[v]] = token[wrun[v]]
    BY <1>11 DEF VerifyApproval, WorkerLeaves
  <2>5. ASSUME NEW v \in Workers, wpc'[v] = "unrecorded"
        PROVE  wpc'[v] = wpc[v] /\ wstatus'[v] = wstatus[v]
               /\ (CompletionRefused(v) => CompletionRefused(v)')
    <3>1. v # w
      BY <2>3, <2>5
    <3>2. wpc'[v] = wpc[v] /\ wrun'[v] = wrun[v] /\ wstatus'[v] = wstatus[v] /\ wrun[v] # None
      BY <2>2, <2>5, <3>1
    <3> QED  BY <2>4, <3>1, <3>2 DEF CompletionRefused
  <2> QED  BY <2>5 DEF RetryInv
<1>12. ASSUME NEW w \in Workers, RecordFailure(w) PROVE RetryInv'
  BY <1>12 DEF RecordFailure, WorkerLeaves, fail_run, RetryInv, CompletionRefused
<1>13. ASSUME NEW w \in Workers, ClaimRun(w) PROVE RetryInv'
  BY <1>13 DEF ClaimRun, WorkerGoes, WorkerLeaves, RetryInv, CompletionRefused
<1>14. ASSUME NEW w \in Workers, ValidateDispatch(w) PROVE RetryInv'
  BY <1>14 DEF ValidateDispatch, WorkerGoes, WorkerLeaves, RetryInv, CompletionRefused
<1>15. ASSUME NEW w \in Workers, BeginRunExecution(w) PROVE RetryInv'
  BY <1>15 DEF BeginRunExecution, WorkerGoes, RetryInv, CompletionRefused
<1>16. ASSUME NEW w \in Workers, RunnerStopsEarly(w) PROVE RetryInv'
  BY <1>16 DEF RunnerStopsEarly, RetryInv, CompletionRefused
<1>17. ASSUME NEW w \in Workers, RunnerJudges(w) PROVE RetryInv'
  BY <1>17 DEF RunnerJudges, RetryInv, CompletionRefused
<1>18. ASSUME NEW w \in Workers, RunnerReturns(w) PROVE RetryInv'
  BY <1>18 DEF RunnerReturns, RetryInv, CompletionRefused
<1>19. ASSUME NEW w \in Workers, RunnerDies(w) PROVE RetryInv'
  BY <1>19 DEF RunnerDies, WorkerGoes, RetryInv, CompletionRefused
<1>20. ASSUME NEW w \in Workers, RecordCompletion(w) PROVE RetryInv'
  <2>1. \/ WorkerLeaves(w)
        \/ WorkerGoes(w, "ingest") /\ UNCHANGED token
        \/ WorkerGoes(w, "finish") /\ UNCHANGED token
        \/ CompletionRefused(w) /\ WorkerGoes(w, "unrecorded") /\ UNCHANGED token
    BY <1>20 DEF RecordCompletion, RecordCheck, RecordIngest, RecordFinish, CompletionFails,
       NoEffect
  <2>2. CASE WorkerLeaves(w)
    BY <1>20, <2>2 DEF WorkerLeaves, RecordCompletion, RecordCheck, RecordIngest,
       RecordFinish, RetryInv, CompletionRefused
  <2>3. CASE ~WorkerLeaves(w)
    BY <2>1, <2>3 DEF WorkerGoes, RetryInv, CompletionRefused
  <2> QED  BY <2>2, <2>3
<1>21. ASSUME NEW w \in Workers, LateStopCleanup(w) PROVE RetryInv'
  <2>1. CompletionRefused(w)
    BY <1>21 DEF LateStopCleanup, RetryInv
  <2>2. UNCHANGED <<wrun, token>>
    BY <1>21, <2>1 DEF LateStopCleanup, WorkerGoes
  <2>3. CASE /\ wstatus' = [wstatus EXCEPT ![w] = "Interrupted"]
             /\ wpc' = [wpc EXCEPT ![w] = "record"]
    BY <2>2, <2>3 DEF RetryInv, CompletionRefused
  <2>4. CASE WorkerGoes(w, "fail")
    BY <2>2, <2>4 DEF RetryInv, CompletionRefused, WorkerGoes
  <2> QED  BY <1>21, <2>1, <2>3, <2>4 DEF LateStopCleanup
<1>22. ASSUME CrashRestart PROVE RetryInv'
  BY <1>22 DEF CrashRestart, NotReconciling, RetryInv, CompletionRefused
<1>23. CASE UNCHANGED vars
  BY <1>1, <1>23 DEF vars
<1> QED
  BY <1>2, <1>3, <1>4, <1>5, <1>6, <1>7, <1>8, <1>9, <1>10, <1>11, <1>12, <1>13, <1>14,
     <1>15, <1>16, <1>17, <1>18, <1>19, <1>20, <1>21, <1>22, <1>23
     DEF Next, Request, HandlerStep, WorkerStep, Reconcile, RecordCompletion

\* A reconciliation between two orphans holds none.
LEMMA ReconStep ==
    ASSUME ~StoreMayFail, ~Disconnects,
           IInv, IInv', ItemInv, StageInv, TokenInv, OwnerInv, [Next]_vars
    PROVE  ReconInv'
<1> USE DEF IInv, TypeOK, WorkerInv, HandlerInv, BootInv, RowInv, OwnerInv
<1>1. ASSUME UNCHANGED <<recon>> PROVE ReconInv'
  BY <1>1 DEF ReconInv
<1>2. ASSUME NEW h \in Handlers, NEW r \in Runs,
             EnqueueAcquire(h, r) \/ BreakGlassMark(h, r) \/ StopCancel(h, r)
      PROVE  ReconInv'
  BY <1>1, <1>2 DEF EnqueueAcquire, BreakGlassMark, StopCancel
<1>3. ASSUME NEW h \in Handlers, NEW r \in Runs, NEW u \in Users, ApproveRead(h, r, u)
      PROVE  ReconInv'
  BY <1>1, <1>3 DEF ApproveRead
<1>4. ASSUME NEW h \in Handlers, 
                \/ EnqueueInsert(h)
                \/ SendItem(h)
                \/ ApproveExpire(h)
                \/ ApproveDecide(h)
                \/ BreakGlassDraft(h)
                \/ DispatchRead(h)
                \/ DispatchRequeue(h)
                \/ StopWrite(h)
                \/ HandlerDropped(h)
      PROVE  ReconInv'
  BY <1>1, <1>4 DEF EnqueueInsert, SendItem, ApproveExpire, ApproveDecide, BreakGlassDraft,
     DispatchRead, DispatchRequeue, StopWrite, HandlerDropped
<1>5. ASSUME NEW r \in Runs, RequestGated(r) \/ Lapse(r) \/ Sweep(r) PROVE ReconInv'
  BY <1>1, <1>5 DEF RequestGated, Lapse, Sweep
<1>6. ASSUME NEW r \in Runs, NEW u \in Users, Reject(r, u) PROVE ReconInv'
  BY <1>1, <1>6 DEF Reject
<1>7. ASSUME NEW w \in Workers, 
                \/ Dequeue(w)
                \/ VerifyApproval(w)
                \/ RecordFailure(w)
                \/ ClaimRun(w)
                \/ ValidateDispatch(w)
                \/ BeginRunExecution(w)
                \/ InjectFault(w)
                \/ RunnerStopsEarly(w)
                \/ RunnerJudges(w)
                \/ RunnerReturns(w)
                \/ RunnerDies(w)
                \/ RecordCompletion(w)
                \/ LateStopCleanup(w)
      PROVE  ReconInv'
  BY <1>1, <1>7 DEF Dequeue, VerifyApproval, RecordFailure, ClaimRun, ValidateDispatch,
     BeginRunExecution, InjectFault, RunnerStopsEarly, RunnerJudges, RunnerReturns,
     RunnerDies, RecordCompletion, RecordCheck, RecordIngest, RecordFinish,
     CompletionFails, LateStopCleanup, WorkerGoes
<1>8. ASSUME Serve PROVE ReconInv'
  BY <1>1, <1>8 DEF Serve
<1>9. ASSUME NEW r \in Runs, OrphanMark(r) PROVE ReconInv'
  BY <1>9 DEF OrphanMark, ReconInv
<1>10. ASSUME OrphanRollback PROVE ReconInv'
  <2>1. CASE recon' = [recon EXCEPT !.pc = "finish", !.outcome = "RolledBack"]
    BY <2>1 DEF ReconInv
  <2>2. CASE recon' = [recon EXCEPT !.pc = "finish", !.outcome = "RollbackFailed"]
    BY <2>2 DEF ReconInv
  <2> QED  BY <1>10, <2>1, <2>2 DEF OrphanRollback
<1>11. ASSUME OrphanFinish PROVE ReconInv'
  BY <1>11 DEF OrphanFinish, finish_run, NotReconciling, ReconInv
<1>12. ASSUME CrashRestart PROVE ReconInv'
  BY <1>12 DEF CrashRestart, NotReconciling, ReconInv
<1>13. CASE UNCHANGED vars
  BY <1>1, <1>13 DEF vars
<1> QED
  BY <1>2, <1>3, <1>4, <1>5, <1>6, <1>7, <1>8, <1>9, <1>10, <1>11, <1>12, <1>13
     DEF Next, Request, HandlerStep, WorkerStep, Reconcile, RecordCompletion

-----------------------------------------------------------------------------
(* Theorems *)

\* Every permit of the waiting semaphore is free, in an item or with a handler,
\* whichever writes fail, clients leave and crashes come.
THEOREM PermitsConservedAlways == Spec => []PermitsConserved
<1>1. Init => PermitInv
  <2> SUFFICES ASSUME Init PROVE PermitInv
    OBVIOUS
  <2>1. Holders = {} /\ permits = QueueDepth /\ Len(channel) = 0
    BY DEF Init, Holders, HoldsPermit
  <2>2. IsFiniteSet(Holders) /\ Cardinality(Holders) = 0
    BY <2>1, FS_EmptySet
  <2>3. permits + Len(channel) + Cardinality(Holders) = QueueDepth
    BY <2>1, <2>2
  <2> QED  BY <2>2, <2>3 DEF PermitInv, PermitsConserved, Holders
<1>2. IInv /\ PermitInv /\ [Next]_vars => PermitInv'
  BY PermitStep
<1>3. PermitInv => PermitsConserved
  BY DEF PermitInv
<1> QED  BY <1>1, <1>2, <1>3, Invariance, PTL DEF Spec

\* What is known of items, rows and tokens in every reachable state.
THEOREM ItemsAlways == Spec => [](ItemInv /\ StageInv /\ TokenInv)
<1>1. Init => ItemInv /\ StageInv /\ TokenInv
  BY DEF Init, ItemInv, StageInv, TokenInv
<1>2. IInv /\ IInv' /\ (ItemInv /\ StageInv /\ TokenInv) /\ [Next]_vars
        => (ItemInv /\ StageInv /\ TokenInv)'
  BY ItemStep, StageStep, TokenStep
<1> QED  BY <1>1, <1>2, Invariance, PTL DEF Spec

\* However many approvals and overrides race through dispatch_approved, a run
\* never has two work items.
THEOREM OneItemAlways == Spec => []OneItemPerRun
<1>1. IInv /\ ItemInv => OneItemPerRun
  BY ItemsAreOne
<1> QED  BY <1>1, Invariance, ItemsAlways, PTL

\* Where the store accepts writes and no client disconnects, every row in
\* flight has somebody who will move it, whatever the order of stops, approvals,
\* completions and crashes.
THEOREM RowsOwnedAlways ==
    ASSUME ~StoreMayFail, ~Disconnects
    PROVE  Spec => []RowsHaveOwners
<1>1. Init => OwnerInv
  BY DEF Init, NotReconciling, OwnerInv, RowsOwned, Owned, StopInv, RetryInv, ReconInv
<1>2. IInv /\ IInv' /\ (ItemInv /\ StageInv /\ TokenInv) /\ OwnerInv /\ [Next]_vars
        => OwnerInv'
  BY OwnStep, StopStep, RetryStep, ReconStep DEF OwnerInv
<1>3. OwnerInv => RowsHaveOwners
  <2>1. ASSUME NEW r \in Runs, NEW i \in DOMAIN channel, channel[i] = r
        PROVE  <<"channel", i>> \in ItemsOf(r)
    BY <2>1 DEF ItemsOf
  <2>2. ASSUME NEW r \in Runs, NEW h \in Handlers, hpc[h] = "send", hrun[h] = r
        PROVE  <<"handler", h>> \in ItemsOf(r)
    BY <2>2 DEF ItemsOf
  <2>3. ASSUME NEW r \in Runs, NEW x \in ItemsOf(r) PROVE ItemsOf(r) # {}
    BY <2>3
  <2> QED  BY <2>1, <2>2, <2>3 DEF OwnerInv, RowsOwned, Owned, RowsHaveOwners
<1> QED  BY <1>1, <1>2, <1>3, Invariance, ItemsAlways, PTL DEF Spec
=============================================================================
