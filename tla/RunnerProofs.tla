---------------------------- MODULE RunnerProofs ----------------------------
(***************************************************************************)
(* Proofs about Runner: IInv is inductive, so the fault gate keeps its     *)
(* cap, the peak in the journal covers every provider that ran, rollbacks  *)
(* run when the experiment is quiet, a halt is earned, and the runner      *)
(* keeps the contract that the daemon's worker relies on.                  *)
(***************************************************************************)
EXTENDS Runner, FiniteSetTheorems, SequenceTheorems, TLAPS

\* The background activities past the gate.
InGate == {b \in Background : at[b] \in Holding}

\* Sets of background activities are finite.
LEMMA BackgroundFinite ==
    ASSUME NEW S \in SUBSET Background
    PROVE  IsFiniteSet(S) /\ Cardinality(S) \in Nat
  BY BackgroundAssumption, FS_Subset, FS_CardinalityType

\* An activity is foreground or background, never both.
LEMMA Kinds ==
    ASSUME NEW a \in Activities
    PROVE  /\ a \in Background <=> a \notin Foreground
           /\ Background \subseteq Activities
           /\ Foreground \subseteq Activities
  BY BackgroundAssumption DEF Activities

\* The foreground activities and the guards are numbered.
LEMMA Numbered ==
    Foreground \subseteq Nat /\ Guards \subseteq Nat \ {0}
  BY CountsAssumption DEF Foreground, Guards

-----------------------------------------------------------------------------
(* The gate *)

\* A step that leaves everyone where they stand at the gate keeps GateInv.
LEMMA GateStays ==
    ASSUME GateInv, InGate' = InGate, UNCHANGED <<active, peak, most>>
    PROVE  GateInv'
  BY DEF GateInv, FaultsCapped, PeakCovers, InGate

\* One more background activity behind the gate counts one more.
LEMMA GateEnter ==
    ASSUME NEW b \in Background, b \notin InGate, InGate' = InGate \cup {b}
    PROVE  Cardinality(InGate') = Cardinality(InGate) + 1
<1>1. IsFiniteSet(InGate)
  BY BackgroundFinite DEF InGate
<1> QED
  BY <1>1, FS_AddElement

\* An activity that leaves the gate frees the slot it holds.
LEMMA GateLeave ==
    ASSUME TypeOK, GateInv, NEW a \in Activities, at[a] \in Holding,
           InGate' = InGate \ {a}, release(a), UNCHANGED <<peak, most>>
    PROVE  GateInv' /\ active' \in Nat
<1>1. IsFiniteSet(InGate) /\ Cardinality(InGate) = active
  BY BackgroundFinite DEF InGate, GateInv, FaultsCapped
<1>2. active \in Nat /\ peak \in Nat /\ Cap \in Nat
  BY CapAssumption DEF TypeOK
<1>3. CASE a \in Background
  <2>1. a \in InGate
    BY <1>3 DEF InGate
  <2>2. Cardinality(InGate') = active - 1
    BY <1>1, <2>1, FS_RemoveElement
  <2>3. Cardinality(InGate') \in Nat
    <3>1. InGate' \in SUBSET Background
      BY DEF InGate
    <3> QED
      BY <3>1, BackgroundFinite
  <2>4. active' = active - 1
    BY <1>2, <1>3, <2>2, <2>3 DEF release
  <2> QED
    BY <1>2, <2>2, <2>3, <2>4 DEF GateInv, FaultsCapped, PeakCovers, InGate
<1>4. CASE a \notin Background
  <2>1. InGate' = InGate /\ active' = active
    BY <1>4 DEF InGate, release
  <2> QED
    BY <1>2, <2>1, GateStays
<1> QED
  BY <1>3, <1>4

\* The providers that run are behind the gate, so the peak has seen them.
LEMMA RunningCovered ==
    ASSUME (active = Cardinality({b \in Background : at[b] \in Holding}))'
    PROVE  Cardinality(RunningNow') \in Nat /\ Cardinality(RunningNow') <= active'
<1>1. RunningNow' \subseteq InGate' /\ InGate' \in SUBSET Background
  BY DEF RunningNow, InGate, Holding
<1>2. IsFiniteSet(InGate') /\ IsFiniteSet(RunningNow')
  BY <1>1, BackgroundFinite
<1>3. Cardinality(RunningNow') <= Cardinality(InGate')
  BY <1>1, <1>2, FS_Subset
<1> QED
  BY <1>2, <1>3, FS_CardinalityType DEF InGate

-----------------------------------------------------------------------------
(* The runner thread *)

\* What only the runner thread writes leaves the gate and the counts alone.
LEMMA RunnerFrame ==
    ASSUME IInv, UNCHANGED threadVars
    PROVE  GateInv'
<1>1. GateInv /\ InGate' = InGate /\ UNCHANGED <<active, peak, most>>
  BY DEF IInv, InGate, threadVars
<1> QED
  BY <1>1, GateStays

\* The counts of the guards depend on the monitor's own variables only.
LEMMA CountsStay ==
    ASSUME IInv, UNCHANGED <<mon, consecutive, recent>>
    PROVE  \A g \in Guards : CountInv(g)'
  BY DEF IInv, MonitorInv, CountInv

\* The caller may cancel at any time.
LEMMA CancelStep ==
    ASSUME IInv, Cancel
    PROVE  IInv'
<1> USE DEF Cancel, tokenVars, threadVars, guardVars, journalVars
<1>1. TypeOK'
  BY DEF IInv, TypeOK, RunnerPC, Status, RollbackResults
<1>2. ActivityInv'
  BY DEF IInv, ActivityInv
<1>3. GateInv'
  BY RunnerFrame
<1>4. MonitorInv'
  BY CountsStay DEF IInv, MonitorInv
<1>5. JournalInv'
  BY DEF IInv, TypeOK, MonitorInv, JournalInv, MethodCancelled, CancelledHasNoVerdict
<1>6. FaultsCleaned'
  BY DEF IInv, FaultsCleaned, JournalInv
<1> QED
  BY <1>1, <1>2, <1>3, <1>4, <1>5, <1>6 DEF IInv

\* Nothing has happened yet when the first look at the token ends the run.
LEMMA StartStep ==
    ASSUME IInv, Start
    PROVE  IInv'
<1> USE DEF Start, ReturnInterrupted, RunnerGoes, tokenVars, threadVars,
        guardVars, journalVars
<1>1. TypeOK'
  BY DEF IInv, TypeOK, RunnerPC, Status, RollbackResults
<1>2. ActivityInv'
  BY DEF IInv, ActivityInv
<1>3. GateInv'
  BY RunnerFrame
<1>4. MonitorInv'
  BY CountsStay DEF IInv, MonitorInv
<1>5. JournalInv'
  BY DEF IInv, TypeOK, MonitorInv, JournalInv, MethodCancelled, CancelledHasNoVerdict
<1>6. FaultsCleaned'
  BY DEF IInv, FaultsCleaned, JournalInv
<1> QED
  BY <1>1, <1>2, <1>3, <1>4, <1>5, <1>6 DEF IInv

\* An unmet hypothesis aborts a run that injected nothing.
LEMMA HypothesisBeforeStep ==
    ASSUME IInv, HypothesisBefore
    PROVE  IInv'
<1> USE DEF HypothesisBefore, RunnerGoes, tokenVars, threadVars, guardVars,
        journalVars, run_rollbacks, should_rollback
<1>1. TypeOK'
  BY DEF IInv, TypeOK, RunnerPC, Status, RollbackResults
<1>2. ActivityInv'
  BY DEF IInv, ActivityInv
<1>3. GateInv'
  BY RunnerFrame
<1>4. MonitorInv'
  BY CountsStay DEF IInv, MonitorInv
<1>5. JournalInv'
  BY DEF IInv, TypeOK, MonitorInv, JournalInv, MethodCancelled, CancelledHasNoVerdict
<1>6. FaultsCleaned'
  BY StrategyAssumption DEF IInv, FaultsCleaned, JournalInv
<1> QED
  BY <1>1, <1>2, <1>3, <1>4, <1>5, <1>6 DEF IInv

\* The method starts with its load and its monitor.
LEMMA BeginMethodStep ==
    ASSUME IInv, BeginMethod
    PROVE  IInv'
<1> USE DEF BeginMethod, ReturnInterrupted, RunnerGoes, tokenVars, threadVars,
        guardVars, journalVars
<1>1. TypeOK'
  BY SwitchAssumption DEF IInv, TypeOK, RunnerPC, Status, RollbackResults, MonitorPC
<1>2. ActivityInv'
  BY DEF IInv, ActivityInv
<1>3. GateInv'
  BY RunnerFrame
<1>4. MonitorInv'
  <2>1. \A g \in Guards : CountInv(g)'
    BY Numbered, BreachesAssumption DEF IInv, MonitorInv, CountInv
  <2> QED
    BY <2>1 DEF IInv, MonitorInv
<1>5. JournalInv'
  BY DEF IInv, TypeOK, MonitorInv, JournalInv, MethodCancelled, CancelledHasNoVerdict
<1>6. FaultsCleaned'
  BY DEF IInv, FaultsCleaned, JournalInv
<1> QED
  BY <1>1, <1>2, <1>3, <1>4, <1>5, <1>6 DEF IInv

\* The scope joins every background thread, and a foreground loop that
\* has ended left nobody in flight.
LEMMA MethodEndsStep ==
    ASSUME IInv, MethodEnds
    PROVE  IInv'
<1> USE DEF MethodEnds, RunnerGoes, tokenVars, threadVars, guardVars, journalVars
<1>1. TypeOK'
  BY DEF IInv, TypeOK, RunnerPC, Status, RollbackResults
<1>2. ActivityInv'
  <2>1. \A b \in Background : at[b] \notin Holding
    BY DEF Holding
  <2>2. \A i \in Foreground : at[i] \notin Holding
    <3>1. CASE \A i \in Foreground : at[i] = "done"
      BY <3>1 DEF Holding
    <3>2. CASE \E j \in Foreground : at[j] = "dropped"
      <4>1. PICK j \in Foreground : at[j] = "dropped"
        BY <3>2
      <4>2. \A i \in Foreground : i = j \/ i < j \/ j < i
        BY <4>1, Numbered
      <4> QED
        BY <4>1, <4>2 DEF IInv, ActivityInv, Holding
    <3> QED
      BY <3>1, <3>2 DEF ForegroundEnded
  <2> QED
    BY <2>1, <2>2 DEF IInv, ActivityInv, Activities
<1>3. GateInv'
  BY RunnerFrame
<1>4. MonitorInv'
  BY CountsStay DEF IInv, MonitorInv
<1>5. JournalInv'
  BY DEF IInv, TypeOK, MonitorInv, JournalInv, MethodCancelled, CancelledHasNoVerdict
<1>6. FaultsCleaned'
  BY DEF IInv, FaultsCleaned, JournalInv
<1> QED
  BY <1>1, <1>2, <1>3, <1>4, <1>5, <1>6 DEF IInv

\* The monitor is told to stop.
LEMMA StopMonitorStep ==
    ASSUME IInv, StopMonitor
    PROVE  IInv'
<1> USE DEF StopMonitor, RunnerGoes, tokenVars, threadVars, guardVars, journalVars
<1>1. TypeOK'
  BY DEF IInv, TypeOK, RunnerPC, Status, RollbackResults
<1>2. ActivityInv'
  BY DEF IInv, ActivityInv
<1>3. GateInv'
  BY RunnerFrame
<1>4. MonitorInv'
  BY CountsStay DEF IInv, MonitorInv
<1>5. JournalInv'
  BY DEF IInv, TypeOK, MonitorInv, JournalInv, MethodCancelled, CancelledHasNoVerdict
<1>6. FaultsCleaned'
  BY DEF IInv, FaultsCleaned, JournalInv
<1> QED
  BY <1>1, <1>2, <1>3, <1>4, <1>5, <1>6 DEF IInv

\* Both early ends roll back; past them nobody has cancelled the method.
LEMMA MonitorJoinedStep ==
    ASSUME IInv, MonitorJoined
    PROVE  IInv'
<1> USE DEF MonitorJoined, StopLoad, RunnerGoes, tokenVars, threadVars,
        guardVars, journalVars, run_rollbacks, should_rollback
<1>1. TypeOK'
  BY DEF IInv, TypeOK, RunnerPC, Status, RollbackResults
<1>2. ActivityInv'
  BY DEF IInv, ActivityInv
<1>3. GateInv'
  BY RunnerFrame
<1>4. MonitorInv'
  BY CountsStay DEF IInv, MonitorInv
<1>5. JournalInv'
  BY DEF IInv, TypeOK, MonitorInv, JournalInv, MethodCancelled, CancelledHasNoVerdict
<1>6. FaultsCleaned'
  BY StrategyAssumption DEF IInv, FaultsCleaned, JournalInv
<1> QED
  BY <1>1, <1>2, <1>3, <1>4, <1>5, <1>6 DEF IInv

\* The post phase touches nothing that is shared.
LEMMA PostPhaseStep ==
    ASSUME IInv, PostPhase
    PROVE  IInv'
<1> USE DEF PostPhase, RunnerGoes, tokenVars, threadVars, guardVars, journalVars
<1>1. TypeOK'
  BY DEF IInv, TypeOK, RunnerPC, Status, RollbackResults
<1>2. ActivityInv'
  BY DEF IInv, ActivityInv
<1>3. GateInv'
  BY RunnerFrame
<1>4. MonitorInv'
  BY CountsStay DEF IInv, MonitorInv
<1>5. JournalInv'
  BY DEF IInv, TypeOK, MonitorInv, JournalInv, MethodCancelled, CancelledHasNoVerdict
<1>6. FaultsCleaned'
  BY DEF IInv, FaultsCleaned, JournalInv
<1> QED
  BY <1>1, <1>2, <1>3, <1>4, <1>5, <1>6 DEF IInv

\* The load test has ended before the status is decided.
LEMMA CollectLoadStep ==
    ASSUME IInv, CollectLoad
    PROVE  IInv'
<1> USE DEF CollectLoad, StopLoad, RunnerGoes, tokenVars, threadVars,
        guardVars, journalVars
<1>1. TypeOK'
  BY DEF IInv, TypeOK, RunnerPC, Status, RollbackResults
<1>2. ActivityInv'
  BY DEF IInv, ActivityInv
<1>3. GateInv'
  BY RunnerFrame
<1>4. MonitorInv'
  BY CountsStay DEF IInv, MonitorInv
<1>5. JournalInv'
  BY DEF IInv, TypeOK, MonitorInv, JournalInv, MethodCancelled, CancelledHasNoVerdict
<1>6. FaultsCleaned'
  BY DEF IInv, FaultsCleaned, JournalInv
<1> QED
  BY <1>1, <1>2, <1>3, <1>4, <1>5, <1>6 DEF IInv

\* A provider that was called left a result, so a status that is not
\* Completed comes with rollbacks.
LEMMA JudgeStep ==
    ASSUME IInv, Judge
    PROVE  IInv'
<1> USE DEF Judge, RunnerGoes, tokenVars, threadVars, guardVars, journalVars,
        run_rollbacks, should_rollback
<1>1. TypeOK'
  BY DEF IInv, TypeOK, RunnerPC, Status, RollbackResults, determine_status
<1>2. ActivityInv'
  BY DEF IInv, ActivityInv
<1>3. GateInv'
  BY RunnerFrame
<1>4. MonitorInv'
  BY CountsStay DEF IInv, MonitorInv
<1>5. JournalInv'
  BY DEF IInv, TypeOK, MonitorInv, JournalInv, MethodCancelled, CancelledHasNoVerdict, determine_status
<1>6. FaultsCleaned'
  <2>1. injected # {} => fault_started
    <3>1. SUFFICES ASSUME NEW a \in injected PROVE res[a] # "none"
      BY DEF fault_started, IInv, TypeOK
    <3>2. a \in Actions /\ at[a] \notin Holding
      BY ActionsAssumption DEF IInv, TypeOK, ActivityInv
    <3> QED
      BY <3>2 DEF IInv, ActivityInv, Holding
  <2> QED
    BY <2>1, StrategyAssumption DEF IInv, FaultsCleaned, determine_status
<1> QED
  BY <1>1, <1>2, <1>3, <1>4, <1>5, <1>6 DEF IInv

\* The token's last word is never Halted.
LEMMA LastLookStep ==
    ASSUME IInv, LastLook
    PROVE  IInv'
<1> USE DEF LastLook, RunnerGoes, tokenVars, threadVars, guardVars, journalVars
<1>1. TypeOK'
  BY DEF IInv, TypeOK, RunnerPC, Status, RollbackResults
<1>2. ActivityInv'
  BY DEF IInv, ActivityInv
<1>3. GateInv'
  BY RunnerFrame
<1>4. MonitorInv'
  BY CountsStay DEF IInv, MonitorInv
<1>5. JournalInv'
  BY DEF IInv, TypeOK, MonitorInv, JournalInv, MethodCancelled, CancelledHasNoVerdict
<1>6. FaultsCleaned'
  BY DEF IInv, FaultsCleaned, JournalInv
<1> QED
  BY <1>1, <1>2, <1>3, <1>4, <1>5, <1>6 DEF IInv

\* The journal keeps the status that was decided.
LEMMA ReturnJournalStep ==
    ASSUME IInv, ReturnJournal
    PROVE  IInv'
<1> USE DEF ReturnJournal, RunnerGoes, tokenVars, threadVars, guardVars, journalVars
<1>1. TypeOK'
  BY DEF IInv, TypeOK, RunnerPC, Status, RollbackResults
<1>2. ActivityInv'
  BY DEF IInv, ActivityInv
<1>3. GateInv'
  BY RunnerFrame
<1>4. MonitorInv'
  BY CountsStay DEF IInv, MonitorInv
<1>5. JournalInv'
  BY DEF IInv, TypeOK, MonitorInv, JournalInv, MethodCancelled, CancelledHasNoVerdict
<1>6. FaultsCleaned'
  BY DEF IInv, FaultsCleaned, JournalInv
<1> QED
  BY <1>1, <1>2, <1>3, <1>4, <1>5, <1>6 DEF IInv

\* The early ends keep their status.
LEMMA ReturnEarlyStep ==
    ASSUME IInv, ReturnEarly
    PROVE  IInv'
<1> USE DEF ReturnEarly, RunnerGoes, tokenVars, threadVars, guardVars, journalVars
<1>1. TypeOK'
  BY DEF IInv, TypeOK, RunnerPC, Status, RollbackResults
<1>2. ActivityInv'
  BY DEF IInv, ActivityInv
<1>3. GateInv'
  BY RunnerFrame
<1>4. MonitorInv'
  BY CountsStay DEF IInv, MonitorInv
<1>5. JournalInv'
  BY DEF IInv, TypeOK, MonitorInv, JournalInv, MethodCancelled, CancelledHasNoVerdict
<1>6. FaultsCleaned'
  BY DEF IInv, FaultsCleaned, JournalInv
<1> QED
  BY <1>1, <1>2, <1>3, <1>4, <1>5, <1>6 DEF IInv

\* A panic leaves no journal.
LEMMA ProbePanicsStep ==
    ASSUME IInv, ProbePanics
    PROVE  IInv'
<1> USE DEF ProbePanics, RunnerGoes, tokenVars, threadVars, guardVars, journalVars
<1>1. TypeOK'
  BY DEF IInv, TypeOK, RunnerPC, Status, RollbackResults
<1>2. ActivityInv'
  BY DEF IInv, ActivityInv
<1>3. GateInv'
  BY RunnerFrame
<1>4. MonitorInv'
  BY CountsStay DEF IInv, MonitorInv
<1>5. JournalInv'
  BY DEF IInv, TypeOK, MonitorInv, JournalInv, MethodCancelled, CancelledHasNoVerdict
<1>6. FaultsCleaned'
  BY DEF IInv, FaultsCleaned, JournalInv
<1> QED
  BY <1>1, <1>2, <1>3, <1>4, <1>5, <1>6 DEF IInv

-----------------------------------------------------------------------------
(* The activities *)

\* What an activity does to itself leaves the guards' counts alone.
LEMMA ActivityFrame ==
    ASSUME IInv, UNCHANGED <<rpc, guardVars>>
    PROVE  MonitorInv'
<1>1. UNCHANGED <<mon, consecutive, recent, plug, rpc>>
  BY DEF guardVars
<1>2. \A g \in Guards : CountInv(g)'
  BY <1>1, CountsStay
<1> QED
  BY <1>1, <1>2 DEF IInv, MonitorInv

\* A slot is taken only below the cap, and the peak sees it.
LEMMA GateAcquireStep ==
    ASSUME IInv, NEW b \in Background, GateAcquire(b)
    PROVE  IInv'
<1> USE DEF GateAcquire, ActivityGoes, tokenVars, guardVars, journalVars
<1>1. TypeOK'
  <2>1. active' \in Nat /\ peak' \in Nat
    BY DEF IInv, TypeOK
  <2>2. at' \in [Activities -> ActivityPC]
    BY Kinds DEF IInv, TypeOK, ActivityPC
  <2> QED
    BY <2>1, <2>2 DEF IInv, TypeOK
<1>2. ActivityInv'
  BY Kinds, ActionsAssumption DEF IInv, TypeOK, ActivityInv, Holding, Activities
<1>3. GateInv'
  <2>1. b \notin InGate
    BY DEF InGate, Holding
  <2>2. CASE at' = [at EXCEPT ![b] = "dropped"] /\ UNCHANGED <<active, peak>>
    <3>1. InGate' = InGate
      BY <2>1, <2>2 DEF IInv, TypeOK, InGate, Holding, Activities
    <3> QED
      BY <2>2, <3>1, GateStays DEF IInv
  <2>3. CASE /\ at' = [at EXCEPT ![b] = "pause"] /\ active < Cap
             /\ active' = active + 1
             /\ peak' = IF active' > peak THEN active' ELSE peak
    <3>1. InGate' = InGate \cup {b}
      BY <2>1, <2>3 DEF IInv, TypeOK, InGate, Holding, Activities
    <3>2. Cardinality(InGate') = Cardinality(InGate) + 1
      BY <2>1, <3>1, GateEnter
    <3>3. active \in Nat /\ peak \in Nat /\ most \in Nat /\ Cap \in Nat
      BY CapAssumption DEF IInv, TypeOK
    <3> QED
      BY <2>3, <3>2, <3>3 DEF IInv, GateInv, FaultsCapped, PeakCovers, InGate
  <2> QED
    BY <2>2, <2>3
<1>4. MonitorInv'
  BY ActivityFrame
<1>5. JournalInv'
  BY DEF IInv, TypeOK, JournalInv, MethodCancelled, CancelledHasNoVerdict
<1>6. FaultsCleaned'
  BY DEF IInv, ActivityInv, FaultsCleaned, Holding
<1> QED
  BY <1>1, <1>2, <1>3, <1>4, <1>5, <1>6 DEF IInv

\* The foreground loop is in order.
LEMMA TakeTurnStep ==
    ASSUME IInv, NEW i \in Foreground, TakeTurn(i)
    PROVE  IInv'
<1> USE DEF TakeTurn, ActivityGoes, tokenVars, guardVars, journalVars
<1>1. TypeOK'
  BY DEF IInv, TypeOK, ActivityPC, Activities
<1>2. ActivityInv'
  BY Numbered, ActionsAssumption DEF IInv, TypeOK, ActivityInv, Holding, Activities
<1>3. GateInv'
  <2>1. InGate' = InGate
    BY BackgroundAssumption DEF IInv, TypeOK, InGate, Holding, Activities
  <2> QED
    BY <2>1, GateStays DEF IInv
<1>4. MonitorInv'
  BY ActivityFrame
<1>5. JournalInv'
  BY DEF IInv, TypeOK, JournalInv, MethodCancelled, CancelledHasNoVerdict
<1>6. FaultsCleaned'
  BY DEF IInv, ActivityInv, FaultsCleaned, Holding
<1> QED
  BY <1>1, <1>2, <1>3, <1>4, <1>5, <1>6 DEF IInv

\* A cancelled pause gives the slot back.
LEMMA PauseBeforeStep ==
    ASSUME IInv, NEW a \in Activities, PauseBefore(a)
    PROVE  IInv'
<1> USE DEF PauseBefore, ActivityGoes, tokenVars, guardVars, journalVars
<1>1. TypeOK'
  <2>1. active' \in Nat
    BY DEF IInv, TypeOK, release
  <2> QED
    BY <2>1 DEF IInv, TypeOK, ActivityPC
<1>2. ActivityInv'
  BY Numbered, ActionsAssumption DEF IInv, TypeOK, ActivityInv, Holding, Activities
<1>3. GateInv'
  <2>1. CASE at' = [at EXCEPT ![a] = "dropped"] /\ release(a)
    <3>1. InGate' = InGate \ {a}
      BY <2>1 DEF IInv, TypeOK, InGate, Holding
    <3>2. at[a] \in Holding
      BY DEF Holding
    <3> QED
      BY <2>1, <3>1, <3>2, GateLeave DEF IInv
  <2>2. CASE at' = [at EXCEPT ![a] = "ready"] /\ UNCHANGED active
    <3>1. InGate' = InGate
      BY <2>2 DEF IInv, TypeOK, InGate, Holding
    <3> QED
      BY <2>2, <3>1, GateStays DEF IInv
  <2> QED
    BY <2>1, <2>2
<1>4. MonitorInv'
  BY ActivityFrame
<1>5. JournalInv'
  BY DEF IInv, TypeOK, JournalInv, MethodCancelled, CancelledHasNoVerdict
<1>6. FaultsCleaned'
  BY DEF IInv, ActivityInv, FaultsCleaned, Holding
<1> QED
  BY <1>1, <1>2, <1>3, <1>4, <1>5, <1>6 DEF IInv

\* At the provider's door: skipped and cancelled, or called, counted and
\* seen by the peak.
LEMMA DispatchStep ==
    ASSUME IInv, NEW a \in Activities, Dispatch(a)
    PROVE  IInv'
<1> USE DEF Dispatch, ActivityGoes, tokenVars, guardVars, journalVars
<1>1. InGate' = InGate
  <2>1. PICK pc \in {"after", "running"} : at' = [at EXCEPT ![a] = pc]
    OBVIOUS
  <2> QED
    BY <2>1 DEF IInv, TypeOK, InGate, Holding
<1>2. Cardinality(RunningNow') \in Nat /\ Cardinality(RunningNow') <= active
  BY <1>1, RunningCovered DEF IInv, GateInv, FaultsCapped, InGate
<1>3. TypeOK'
  BY <1>2 DEF IInv, TypeOK, ActivityPC, ActivityStatus
<1>4. ActivityInv'
  BY Numbered, ActionsAssumption DEF IInv, TypeOK, ActivityInv, Holding, Activities
<1>5. GateInv'
  <2>1. active' = active /\ peak' = peak /\ most' \in Nat
    BY <1>3 DEF TypeOK
  <2>2. most' <= peak
    BY <1>2 DEF IInv, TypeOK, GateInv, PeakCovers
  <2> QED
    BY <1>1, <2>1, <2>2 DEF IInv, GateInv, FaultsCapped, PeakCovers, InGate
<1>6. MonitorInv'
  BY ActivityFrame
<1>7. JournalInv'
  <2>1. rpc = "method"
    BY DEF IInv, ActivityInv, Holding
  <2>2. \A c \in Activities : res'[c] = "Skipped" => MethodCancelled
    BY DEF IInv, TypeOK, JournalInv
  <2> QED
    BY <2>1, <2>2 DEF IInv, JournalInv, MethodCancelled, CancelledHasNoVerdict
<1>8. FaultsCleaned'
  BY DEF IInv, ActivityInv, FaultsCleaned, Holding
<1> QED
  BY <1>3, <1>4, <1>5, <1>6, <1>7, <1>8 DEF IInv

\* The provider's result tells that it was called.
LEMMA ProviderReturnsStep ==
    ASSUME IInv, NEW a \in Activities, ProviderReturns(a)
    PROVE  IInv'
<1> USE DEF ProviderReturns, ActivityGoes, tokenVars, guardVars, journalVars
<1>1. TypeOK'
  BY DEF IInv, TypeOK, ActivityPC, ActivityStatus
<1>2. ActivityInv'
  BY Numbered, ActionsAssumption DEF IInv, TypeOK, ActivityInv, Holding, Activities
<1>3. GateInv'
  <2>1. InGate' = InGate
    BY DEF IInv, TypeOK, InGate, Holding
  <2> QED
    BY <2>1, GateStays DEF IInv
<1>4. MonitorInv'
  BY ActivityFrame
<1>5. JournalInv'
  BY DEF IInv, TypeOK, JournalInv, MethodCancelled, CancelledHasNoVerdict
<1>6. FaultsCleaned'
  BY DEF IInv, ActivityInv, FaultsCleaned, Holding
<1> QED
  BY <1>1, <1>2, <1>3, <1>4, <1>5, <1>6 DEF IInv

\* The slot is given back after the second pause.
LEMMA PauseAfterStep ==
    ASSUME IInv, NEW a \in Activities, PauseAfter(a)
    PROVE  IInv'
<1> USE DEF PauseAfter, ActivityGoes, tokenVars, guardVars, journalVars
<1>1. TypeOK'
  <2>1. active' \in Nat
    BY DEF IInv, TypeOK, release
  <2> QED
    BY <2>1 DEF IInv, TypeOK, ActivityPC
<1>2. ActivityInv'
  BY Numbered, ActionsAssumption DEF IInv, TypeOK, ActivityInv, Holding, Activities
<1>3. GateInv'
  <2>1. CASE at' = [at EXCEPT ![a] = "done"] /\ release(a)
    <3>1. InGate' = InGate \ {a}
      BY <2>1 DEF IInv, TypeOK, InGate, Holding
    <3>2. at[a] \in Holding
      BY DEF Holding
    <3> QED
      BY <2>1, <3>1, <3>2, GateLeave DEF IInv
  <2> QED
    BY <2>1
<1>4. MonitorInv'
  BY ActivityFrame
<1>5. JournalInv'
  BY DEF IInv, TypeOK, JournalInv, MethodCancelled, CancelledHasNoVerdict
<1>6. FaultsCleaned'
  BY DEF IInv, ActivityInv, FaultsCleaned, Holding
<1> QED
  BY <1>1, <1>2, <1>3, <1>4, <1>5, <1>6 DEF IInv

-----------------------------------------------------------------------------
(* The guard monitor *)

\* The window of observations moves by one, or grows by one.
LEMMA ObservedWindow ==
    ASSUME TypeOK, NEW g \in Guards, NEW safe \in BOOLEAN,
           Len(recent[g]) <= MinBreaches[g]
    PROVE  LET s == recent[g]
               t == Observed(g, safe)
           IN  /\ t \in Seq(BOOLEAN)
               /\ Len(t) = IF Len(s) < MinBreaches[g] THEN Len(s) + 1 ELSE Len(s)
               /\ t[Len(t)] = safe
               /\ \A k \in 1 .. Len(t) - 1 : t[k] = s[k + (Len(s) + 1 - Len(t))]
<1> DEFINE s == recent[g]
           m == MinBreaches[g]
           all == Append(s, safe)
<1>1. s \in Seq(BOOLEAN) /\ Len(s) \in Nat /\ m \in Nat \ {0} /\ Len(s) <= m
  BY BreachesAssumption DEF TypeOK
<1>2. /\ all \in Seq(BOOLEAN) /\ Len(all) = Len(s) + 1
      /\ all[Len(s) + 1] = safe /\ \A k \in 1 .. Len(s) : all[k] = s[k]
  BY <1>1
<1>3. CASE Len(s) < m
  <2>1. Observed(g, safe) = all
    BY <1>1, <1>2, <1>3 DEF Observed
  <2> QED
    BY <1>1, <1>2, <1>3, <2>1
<1>4. CASE Len(s) = m
  <2>1. Observed(g, safe) = Tail(all)
    BY <1>1, <1>2, <1>4 DEF Observed
  <2>2. /\ Tail(all) \in Seq(BOOLEAN) /\ Len(Tail(all)) = Len(s)
        /\ \A k \in 1 .. Len(s) : Tail(all)[k] = all[k + 1]
    <3> HIDE DEF all
    <3>1. all # << >>
      BY <1>1, <1>2
    <3> QED
      BY <1>1, <1>2, <3>1, HeadTailProperties
  <2>3. \A k \in 1 .. Len(s) - 1 : Tail(all)[k] = s[k + (Len(s) + 1 - Len(s))]
    BY <1>1, <1>2, <2>2
  <2>4. Tail(all)[Len(s)] = safe
    BY <1>1, <1>2, <1>4, <2>2
  <2> DEFINE t == Observed(g, safe)
  <2>5. /\ t \in Seq(BOOLEAN) /\ Len(t) = Len(s) /\ t[Len(s)] = safe
        /\ \A k \in 1 .. Len(s) - 1 : t[k] = s[k + (Len(s) + 1 - Len(s))]
    BY <2>1, <2>2, <2>3, <2>4
  <2>6. ~(Len(s) < m)
    BY <1>1, <1>4
  <2> HIDE DEF t, s, m
  <2> QED
    BY <2>5, <2>6 DEF t, s, m
<1> QED
  BY <1>1, <1>3, <1>4

\* Where an observation of the window moves to.
LEMMA Shift ==
    ASSUME NEW n \in Nat, NEW l \in Nat, NEW c \in Nat, l <= n + 1
    PROVE  /\ \A k \in 1 .. l - 1 :
                /\ k + (n + 1 - l) \in 1 .. n
                /\ k > l - (c + 1) => k + (n + 1 - l) > n - c
           /\ l - (c + 1) + (n + 1 - l) = n - c
           /\ c + 1 < l => c < n /\ l - (c + 1) \in 1 .. l - 1
  OBVIOUS

\* A run of c breaches that ends the window s of n observations becomes one of
\* c + 1 in the window t of l.
LEMMA BreachCounts ==
    ASSUME NEW s, NEW t, NEW n \in Nat, NEW l \in Nat, NEW m \in Nat \ {0},
           NEW c \in Nat, c < m, c <= n, n <= m,
           \A k \in 1 .. n : k > n - c => ~s[k],
           c < n => s[n - c],
           l = IF n < m THEN n + 1 ELSE n,
           t[l] = FALSE,
           \A k \in 1 .. l - 1 : t[k] = s[k + (n + 1 - l)]
    PROVE  /\ c + 1 <= l /\ l <= m
           /\ \A k \in 1 .. l : k > l - (c + 1) => ~t[k]
           /\ c + 1 < l => t[l - (c + 1)]
<1>1. c + 1 <= l /\ l <= m /\ l <= n + 1
  OBVIOUS
<1>2. \A k \in 1 .. l : k > l - (c + 1) => ~t[k]
  <2>1. SUFFICES ASSUME NEW k \in 1 .. l, k > l - (c + 1), k # l
                 PROVE  ~t[k]
    OBVIOUS
  <2>2. k \in 1 .. l - 1
    BY <2>1
  <2> DEFINE j == k + (n + 1 - l)
  <2>3. j \in 1 .. n /\ j > n - c
    BY <1>1, <2>1, <2>2, Shift
  <2>4. t[k] = s[j]
    BY <2>2
  <2> QED
    BY <2>3, <2>4
<1>3. ASSUME c + 1 < l PROVE t[l - (c + 1)]
  <2> DEFINE i == l - (c + 1)
  <2>1. i \in 1 .. l - 1 /\ c < n
    BY <1>1, <1>3, Shift
  <2>2. i + (n + 1 - l) = n - c
    OBVIOUS
  <2>3. t[i] = s[i + (n + 1 - l)]
    BY <2>1
  <2> QED
    BY <2>1, <2>2, <2>3
<1> QED
  BY <1>1, <1>2, <1>3

\* The count keeps step with the window: a breach lengthens the run of
\* breaches by one, a safe observation ends it.
LEMMA CountKeepsStep ==
    ASSUME TypeOK, NEW g \in Guards, NEW safe \in BOOLEAN,
           CountInv(g), consecutive[g] < MinBreaches[g],
           recent'[g] = Observed(g, safe),
           consecutive'[g] = IF safe THEN 0 ELSE consecutive[g] + 1
    PROVE  LET n == Len(recent'[g])
               c == consecutive'[g]
           IN  /\ c <= n /\ n <= MinBreaches[g]
               /\ \A k \in 1 .. n : k > n - c => ~recent'[g][k]
               /\ c < n => recent'[g][n - c]
<1> DEFINE s == recent[g]
           t == recent'[g]
           m == MinBreaches[g]
           c == consecutive[g]
<1>1. /\ s \in Seq(BOOLEAN) /\ Len(s) \in Nat /\ m \in Nat \ {0}
      /\ Len(s) <= m /\ c \in Nat /\ c <= Len(s)
  BY BreachesAssumption DEF TypeOK, CountInv
<1>2. /\ t \in Seq(BOOLEAN)
      /\ Len(t) = IF Len(s) < m THEN Len(s) + 1 ELSE Len(s)
      /\ t[Len(t)] = safe
      /\ \A k \in 1 .. Len(t) - 1 : t[k] = s[k + (Len(s) + 1 - Len(t))]
  BY <1>1, ObservedWindow
<1>3. Len(t) \in Nat \ {0} /\ Len(t) <= m
  BY <1>1, <1>2
<1>4. CASE safe
  <2>1. consecutive'[g] = 0
    BY <1>4
  <2> HIDE DEF t, m
  <2>2. Len(t) - 0 = Len(t) /\ t[Len(t)]
    BY <1>2, <1>3, <1>4
  <2>3. \A k \in 1 .. Len(t) : ~(k > Len(t) - 0)
    BY <1>3
  <2> QED
    BY <1>3, <2>1, <2>2, <2>3 DEF t, m
<1>5. CASE ~safe
  <2>1. /\ \A k \in 1 .. Len(s) : k > Len(s) - c => ~s[k]
        /\ c < Len(s) => s[Len(s) - c]
    BY DEF CountInv
  <2>2. /\ c + 1 <= Len(t) /\ Len(t) <= m
        /\ \A k \in 1 .. Len(t) : k > Len(t) - (c + 1) => ~t[k]
        /\ c + 1 < Len(t) => t[Len(t) - (c + 1)]
    <3> DEFINE n == Len(s)
               l == Len(t)
    <3>1. c < m /\ t[l] = FALSE /\ n \in Nat /\ l \in Nat
      BY <1>1, <1>2, <1>3, <1>5
    <3>2. /\ l = IF n < m THEN n + 1 ELSE n
          /\ \A k \in 1 .. l - 1 : t[k] = s[k + (n + 1 - l)]
          /\ \A k \in 1 .. n : k > n - c => ~s[k]
          /\ c < n => s[n - c]
      BY <1>2, <2>1
    <3>3. m \in Nat \ {0} /\ c \in Nat /\ c <= n /\ n <= m
      BY <1>1
    <3> HIDE DEF n, l, s, t, m, c
    <3>4. /\ c + 1 <= l /\ l <= m
          /\ \A k \in 1 .. l : k > l - (c + 1) => ~t[k]
          /\ c + 1 < l => t[l - (c + 1)]
      BY <3>1, <3>2, <3>3, BreachCounts
    <3> QED
      BY <3>4 DEF n, l
  <2> QED
    BY <1>5, <2>2
<1> QED
  BY <1>4, <1>5

\* The monitor works while the runner is in the method or joining: whatever it
\* does, the method's activities and the journal are as they were.
LEMMA MonitorFrame ==
    ASSUME IInv, UNCHANGED <<rpc, tokenVars, threadVars, load, journalVars>>,
           plug => plug', rpc \in {"method", "sampled", "joining"}
    PROVE  ActivityInv' /\ GateInv' /\ JournalInv' /\ FaultsCleaned'
<1> USE DEF tokenVars, threadVars, journalVars
<1>1. ActivityInv'
  BY DEF IInv, ActivityInv
<1>2. GateInv'
  BY RunnerFrame
<1>3. JournalInv'
  BY DEF IInv, JournalInv, MethodCancelled, CancelledHasNoVerdict
<1>4. FaultsCleaned'
  BY DEF IInv, FaultsCleaned
<1> QED
  BY <1>1, <1>2, <1>3, <1>4

\* One observation: the count is short of min_breaches, or the plug is out.
LEMMA GuardEvaluateStep ==
    ASSUME IInv, GuardEvaluate
    PROVE  IInv'
<1> USE DEF GuardEvaluate, GuardGoes
<1>1. PICK safe \in BOOLEAN :
        /\ recent' = [recent EXCEPT ![idx] = Observed(idx, safe)]
        /\ consecutive' = [consecutive EXCEPT ![idx] = IF safe THEN 0 ELSE @ + 1]
        /\ \/ /\ ~safe /\ consecutive'[idx] >= MinBreaches[idx]
              /\ plug' = TRUE /\ mon' = "breached" /\ idx' = idx
           \/ /\ safe \/ consecutive'[idx] < MinBreaches[idx]
              /\ UNCHANGED plug /\ mon' = "eval" /\ idx' = idx + 1
  OBVIOUS
<1>2. /\ TypeOK /\ idx \in Guards /\ CountInv(idx) /\ mon = "eval" /\ ~plug
      /\ rpc \in {"method", "sampled", "joining"}
  BY DEF IInv, MonitorInv
<1>3. /\ MinBreaches[idx] \in Nat \ {0} /\ consecutive[idx] \in Nat
      /\ Len(recent[idx]) <= MinBreaches[idx]
      /\ consecutive[idx] <= MinBreaches[idx]
      /\ consecutive[idx] < MinBreaches[idx]
  BY <1>2, BreachesAssumption DEF TypeOK, CountInv
<1>4. recent'[idx] = Observed(idx, safe) /\ Observed(idx, safe) \in Seq(BOOLEAN)
  BY <1>1, <1>2, <1>3, ObservedWindow DEF TypeOK
<1>5. consecutive'[idx] = IF safe THEN 0 ELSE consecutive[idx] + 1
  BY <1>1, <1>2 DEF TypeOK
<1>6. TypeOK'
  <2>1. recent' \in [Guards -> Seq(BOOLEAN)]
    BY <1>1, <1>2, <1>4 DEF TypeOK
  <2>2. consecutive' \in [Guards -> Nat]
    BY <1>1, <1>2 DEF TypeOK
  <2>3. plug' \in BOOLEAN /\ mon' \in MonitorPC /\ idx' \in Nat \ {0}
    <3>1. mon' \in MonitorPC /\ idx' \in Nat \ {0}
      BY <1>1, <1>2 DEF TypeOK, MonitorPC
    <3>2. plug' \in BOOLEAN
      BY <1>1, <1>2, Zenon DEF TypeOK
    <3> QED
      BY <3>1, <3>2
  <2> QED
    BY <1>2, <2>1, <2>2, <2>3 DEF TypeOK, tokenVars, threadVars, journalVars
<1>7. ActivityInv' /\ GateInv' /\ JournalInv' /\ FaultsCleaned'
  BY <1>1, <1>2, MonitorFrame
<1>8. MonitorInv'
  <2>1. ASSUME NEW g \in Guards, g # idx PROVE CountInv(g)' /\ consecutive[g] # MinBreaches[g]
    <3>1. recent'[g] = recent[g] /\ consecutive'[g] = consecutive[g]
      BY <1>1, <1>2, <2>1 DEF TypeOK
    <3>2. CountInv(g)
      BY <2>1 DEF IInv, MonitorInv
    <3> QED
      BY <1>2, <3>1, <3>2 DEF CountInv
  <2>2. consecutive'[idx] = MinBreaches[idx] <=> mon' = "breached"
    BY <1>1, <1>3, <1>5
  <2>3. \A g \in Guards : CountInv(g)'
    <3>1. SUFFICES ASSUME NEW g \in Guards, g = idx PROVE CountInv(g)'
      BY <2>1
    <3>2. LET n == Len(recent'[g])
              c == consecutive'[g]
          IN  /\ c <= n /\ n <= MinBreaches[g]
              /\ \A k \in 1 .. n : k > n - c => ~recent'[g][k]
              /\ c < n => recent'[g][n - c]
      BY <1>2, <1>3, <1>4, <1>5, <3>1, CountKeepsStep
    <3> QED
      BY <2>2, <3>1, <3>2 DEF CountInv
  <2> QED
    BY <1>1, <1>2, <2>2, <2>3 DEF MonitorInv
<1> QED
  BY <1>6, <1>7, <1>8 DEF IInv

\* A round that ended without a breach.
LEMMA GuardRoundEndsStep ==
    ASSUME IInv, GuardRoundEnds
    PROVE  IInv'
<1> USE DEF GuardRoundEnds, GuardGoes
<1>1. TypeOK'
  BY DEF IInv, TypeOK, MonitorPC, tokenVars, threadVars, journalVars
<1>2. ActivityInv' /\ GateInv' /\ JournalInv' /\ FaultsCleaned'
  BY MonitorFrame DEF IInv, MonitorInv
<1>3. MonitorInv'
  BY DEF IInv, MonitorInv, CountInv
<1> QED
  BY <1>1, <1>2, <1>3 DEF IInv

\* The wait ends in another round, or in the stop.
LEMMA GuardWaitsStep ==
    ASSUME IInv, GuardWaits
    PROVE  IInv'
<1> USE DEF GuardWaits, GuardGoes
<1>1. TypeOK'
  BY DEF IInv, TypeOK, MonitorPC, tokenVars, threadVars, journalVars
<1>2. ActivityInv' /\ GateInv' /\ JournalInv' /\ FaultsCleaned'
  BY MonitorFrame DEF IInv, MonitorInv
<1>3. MonitorInv'
  BY DEF IInv, MonitorInv, CountInv
<1> QED
  BY <1>1, <1>2, <1>3 DEF IInv

\* A panicking probe ends the monitor without a breach.
LEMMA GuardPanicsStep ==
    ASSUME IInv, GuardPanics
    PROVE  IInv'
<1> USE DEF GuardPanics, GuardGoes
<1>1. TypeOK'
  BY DEF IInv, TypeOK, MonitorPC, tokenVars, threadVars, journalVars
<1>2. ActivityInv' /\ GateInv' /\ JournalInv' /\ FaultsCleaned'
  BY MonitorFrame DEF IInv, MonitorInv
<1>3. MonitorInv'
  BY DEF IInv, MonitorInv, CountInv
<1> QED
  BY <1>1, <1>2, <1>3 DEF IInv

-----------------------------------------------------------------------------

\* An experiment that has not started satisfies the invariant.
LEMMA InitIInv == Init => IInv
<1> SUFFICES ASSUME Init PROVE IInv
  OBVIOUS
<1> USE DEF Init
<1>1. TypeOK
  <2>1. recent \in [Guards -> Seq(BOOLEAN)] /\ consecutive \in [Guards -> Nat]
    OBVIOUS
  <2>2. /\ at \in [Activities -> ActivityPC]
        /\ res \in [Activities -> ActivityStatus]
    BY DEF ActivityPC, ActivityStatus
  <2>3. rpc \in RunnerPC /\ mon \in MonitorPC /\ status \in Status /\ rb \in RollbackResults
    BY DEF RunnerPC, MonitorPC, Status, RollbackResults
  <2>4. token \in BOOLEAN /\ late \in BOOLEAN /\ plug \in BOOLEAN /\ injected \subseteq Actions
    OBVIOUS
  <2>5. active \in Nat /\ peak \in Nat /\ idx \in Nat \ {0} /\ most \in Nat
    OBVIOUS
  <2> HIDE DEF Init
  <2> QED
    BY <2>1, <2>2, <2>3, <2>4, <2>5 DEF TypeOK, Init
<1>2. ActivityInv
  <2>1. \A a \in Activities : at[a] = "waiting" /\ res[a] = "none"
    OBVIOUS
  <2>2. Foreground \subseteq Activities /\ Actions \subseteq Activities
    BY ActionsAssumption DEF Activities
  <2> QED
    BY <2>1, <2>2 DEF ActivityInv, Holding
<1>3. GateInv
  <2>1. InGate = {}
    BY DEF InGate, Holding, Activities
  <2>2. Cardinality(InGate) = 0
    BY <2>1, FS_EmptySet
  <2> QED
    BY <2>2, CapAssumption DEF GateInv, FaultsCapped, PeakCovers, InGate
<1>4. MonitorInv
  BY BreachesAssumption DEF MonitorInv, CountInv
<1>5. JournalInv /\ FaultsCleaned
  BY DEF JournalInv, FaultsCleaned, CancelledHasNoVerdict
<1> QED
  BY <1>1, <1>2, <1>3, <1>4, <1>5 DEF IInv

\* Every step of runner, activities, monitor and caller keeps it.
LEMMA NextIInv == IInv /\ [Next]_vars => IInv'
<1> SUFFICES ASSUME IInv, [Next]_vars PROVE IInv'
  OBVIOUS
<1>1. CASE RunnerThread
  BY <1>1, StartStep, HypothesisBeforeStep, BeginMethodStep, MethodEndsStep,
     StopMonitorStep, MonitorJoinedStep, PostPhaseStep, CollectLoadStep,
     JudgeStep, LastLookStep, ReturnJournalStep, ReturnEarlyStep,
     ProbePanicsStep
     DEF RunnerThread
<1>2. CASE \E a \in Activities : ActivityStep(a)
  BY <1>2, GateAcquireStep, TakeTurnStep, PauseBeforeStep, DispatchStep,
     ProviderReturnsStep, PauseAfterStep DEF ActivityStep
<1>3. CASE Monitor
  BY <1>3, GuardEvaluateStep, GuardRoundEndsStep, GuardWaitsStep,
     GuardPanicsStep DEF Monitor
<1>4. CASE Cancel
  BY <1>4, CancelStep
<1>5. CASE Ended \/ UNCHANGED vars
  <2> USE <1>5 DEF Ended, vars, tokenVars, threadVars, guardVars, journalVars
  <2>1. TypeOK' /\ ActivityInv' /\ JournalInv' /\ FaultsCleaned'
    BY DEF IInv, TypeOK, ActivityInv, JournalInv, FaultsCleaned, MethodCancelled,
       CancelledHasNoVerdict
  <2>2. GateInv'
    BY RunnerFrame
  <2>3. MonitorInv'
    BY CountsStay DEF IInv, MonitorInv
  <2> QED
    BY <2>1, <2>2, <2>3 DEF IInv
<1> QED
  BY <1>1, <1>2, <1>3, <1>4, <1>5 DEF Next

\* IInv holds in every reachable state.
THEOREM Invariance == Spec => []IInv
  BY InitIInv, NextIInv, PTL DEF Spec

\* The fault gate enforces max_concurrent_faults, whatever is paused, fails or
\* is cancelled: a slot is neither leaked nor minted.
THEOREM FaultsCappedAlways == Spec => []FaultsCapped
<1>1. IInv => FaultsCapped
  BY DEF IInv, GateInv
<1> QED
  BY <1>1, Invariance, PTL

\* The journal's peak is never below the number of background providers that
\* ran at once, and never above the cap.
THEOREM PeakCoversAlways == Spec => []PeakCovers
<1>1. IInv => PeakCovers
  BY DEF IInv, GateInv
<1> QED
  BY <1>1, Invariance, PTL

\* Rollbacks run, and journals are returned, only when no activity, no guard
\* and no load of the experiment is at work any more.
THEOREM QuietBeforeRollbackAlways == Spec => []QuietBeforeRollback
<1>1. IInv => QuietBeforeRollback
  BY DEF IInv, ActivityInv, MonitorInv, JournalInv, QuietBeforeRollback
<1> QED
  BY <1>1, Invariance, PTL

\* A run is Halted exactly when the last min_breaches observations of some
\* guard all broke its safe condition, with a cancellation or without.
THEOREM HaltIsEarnedAlways == Spec => []HaltIsEarned
<1>1. ASSUME IInv, NEW g \in Guards
      PROVE  consecutive[g] = MinBreaches[g] <=>
               /\ Len(recent[g]) = MinBreaches[g]
               /\ \A k \in DOMAIN recent[g] : ~recent[g][k]
  <2> DEFINE n == Len(recent[g])
             c == consecutive[g]
             m == MinBreaches[g]
  <2>1. /\ recent[g] \in Seq(BOOLEAN) /\ n \in Nat /\ c \in Nat
        /\ m \in Nat \ {0} /\ DOMAIN recent[g] = 1 .. n
    BY <1>1, BreachesAssumption DEF IInv, TypeOK
  <2>2. /\ c <= n /\ n <= m
        /\ \A k \in 1 .. n : k > n - c => ~recent[g][k]
        /\ c < n => recent[g][n - c]
    BY <1>1 DEF IInv, MonitorInv, CountInv
  <2>3. c = m => n = m /\ \A k \in 1 .. n : ~recent[g][k]
    BY <2>1, <2>2
  <2>4. c # m /\ n = m => n - c \in 1 .. n /\ recent[g][n - c]
    BY <2>1, <2>2
  <2> QED
    BY <2>1, <2>3, <2>4
<1>2. IInv => HaltIsEarned
  <2> SUFFICES ASSUME IInv, rpc \in {"rollback", "judged", "closing", "done"}
               PROVE  status = "Halted" <=>
                        \E g \in Guards : /\ Len(recent[g]) = MinBreaches[g]
                                          /\ \A k \in DOMAIN recent[g] : ~recent[g][k]
    BY DEF HaltIsEarned
  <2>1. status = "Halted" <=> mon = "breached"
    BY DEF IInv, JournalInv
  <2>2. mon = "breached" <=> \E g \in Guards : consecutive[g] = MinBreaches[g]
    BY DEF IInv, MonitorInv, CountInv
  <2> QED
    BY <1>1, <2>1, <2>2
<1> QED
  BY <1>2, Invariance, PTL

\* An experiment that called an action's provider and is not Completed rolls
\* back, unless its strategy is Never.
THEOREM FaultsCleanedAlways == Spec => []FaultsCleaned
<1>1. IInv => FaultsCleaned
  BY DEF IInv
<1> QED
  BY <1>1, Invariance, PTL

\* The cap and the reported peak together, for any number of activities.
THEOREM BlastRadiusBoundedAlways == Spec => []BlastRadiusBounded
<1>1. FaultsCapped /\ PeakCovers => BlastRadiusBounded
  BY DEF BlastRadiusBounded
<1> QED
  BY <1>1, FaultsCappedAlways, PeakCoversAlways, PTL

\* Quiet before the rollbacks, and rollbacks whenever a fault is left.
THEOREM CleanupSoundAlways == Spec => []CleanupSound
<1>1. QuietBeforeRollback /\ FaultsCleaned => CleanupSound
  BY DEF CleanupSound
<1> QED
  BY <1>1, QuietBeforeRollbackAlways, FaultsCleanedAlways, PTL

\* A run cancelled before the runner's last look at the token never gets a
\* verdict.
THEOREM CancelledHasNoVerdictAlways == Spec => []CancelledHasNoVerdict
<1>1. IInv => CancelledHasNoVerdict
  BY DEF IInv, JournalInv
<1> QED
  BY <1>1, Invariance, PTL

-----------------------------------------------------------------------------
(***************************************************************************)
(* The runner keeps RunnerContract.                                        *)
(***************************************************************************)

\* A step of the contract, or a stutter.
ContractStep == [Contract!Next]_(Contract!vars)

\* What the worker does not see is a stutter.
LEMMA Stutter ==
    ASSUME ContractPhase' = ContractPhase, LiveFault' = LiveFault,
           UNCHANGED <<status, rb, token>>
    PROVE  ContractStep
  BY DEF ContractStep, Contract!vars

\* Before the method no provider was called.
LEMMA NothingInjected ==
    ASSUME IInv, rpc \in {"start", "before", "check"}
    PROVE  injected = {}
  BY ActionsAssumption DEF IInv, TypeOK, ActivityInv

\* The abstract rollbacks are the concrete ones, seen through LiveFault.
LEMMA Rollbacks ==
    ASSUME NEW s, NEW needed \in BOOLEAN, run_rollbacks(s, needed),
           UNCHANGED injected, rb = "none"
    PROVE  status' = s /\ Contract!Rollback(needed)
  BY StrategyAssumption DEF run_rollbacks, should_rollback, RollbackResults,
     Contract!Rollback, LiveFault

\* The ends before and right after the method.
LEMMA EarlyEnds ==
    ASSUME IInv, Start \/ HypothesisBefore \/ BeginMethod \/ MonitorJoined
    PROVE  ContractStep
<1> USE DEF RunnerGoes, ReturnInterrupted, tokenVars, threadVars, guardVars, journalVars
<1>1. ContractPhase = "run" /\ rb = "none" /\ status = "none" /\ injected' = injected
  BY DEF ContractPhase, Start, HypothesisBefore, BeginMethod, MonitorJoined,
     IInv, JournalInv
<1>2. CASE Start \/ BeginMethod
  <2>1. injected = {} /\ LiveFault = FALSE /\ LiveFault' = FALSE
    BY <1>1, <1>2, NothingInjected DEF Start, BeginMethod, LiveFault
  <2>2. CASE ContractPhase' = "record"
    <3>1. token /\ status' = "Interrupted" /\ UNCHANGED <<rb, token>>
      BY <1>2, <2>2 DEF Start, BeginMethod, ContractPhase
    <3>2. Contract!StopEarly
      BY <1>1, <2>1, <2>2, <3>1 DEF Contract!StopEarly
    <3> QED
      BY <3>2 DEF ContractStep, Contract!Next
  <2>3. CASE ContractPhase' = "fail"
    <3>1. Contract!Die
      BY <1>1, <1>2, <2>1, <2>3 DEF Start, BeginMethod, ContractPhase, Contract!Die
    <3> QED
      BY <3>1 DEF ContractStep, Contract!Next
  <2>4. CASE ContractPhase' = "run"
    BY <1>1, <1>2, <2>1, <2>4, Stutter DEF Start, BeginMethod, ContractPhase
  <2> QED
    BY <1>2, <2>2, <2>3, <2>4 DEF Start, BeginMethod, ContractPhase
<1>3. CASE HypothesisBefore
  <2>1. CASE rpc' = "check"
    BY <1>1, <1>3, <2>1, Stutter DEF HypothesisBefore, ContractPhase, LiveFault
  <2>2. CASE rpc' = "rollback"
    <3>1. run_rollbacks("Aborted", TRUE) /\ token' = token
      BY <1>3, <2>2 DEF HypothesisBefore
    <3>2. ~LiveFault
      BY <1>3, NothingInjected DEF HypothesisBefore, LiveFault
    <3>3. Contract!StopEarly
      BY <1>1, <2>2, <3>1, <3>2, Rollbacks DEF Contract!StopEarly, ContractPhase
    <3> QED
      BY <3>3 DEF ContractStep, Contract!Next
  <2> QED
    BY <1>3, <2>1, <2>2 DEF HypothesisBefore
<1>4. CASE MonitorJoined
  <2>1. CASE rpc' = "post"
    BY <1>1, <1>4, <2>1, Stutter DEF MonitorJoined, ContractPhase, LiveFault
  <2>2. CASE rpc' = "rollback"
    <3>1. /\ token' = token
          /\ \/ run_rollbacks("Halted", TRUE)
             \/ token /\ run_rollbacks("Interrupted", TRUE)
      BY <1>4, <2>2 DEF MonitorJoined, MethodCancelled, IInv, MonitorInv
    <3>2. Contract!StopEarly
      BY <1>1, <2>2, <3>1, Rollbacks DEF Contract!StopEarly, ContractPhase
    <3> QED
      BY <3>2 DEF ContractStep, Contract!Next
  <2> QED
    BY <1>4, <2>1, <2>2 DEF MonitorJoined
<1> QED
  BY <1>2, <1>3, <1>4

\* The verdict: the worker's fault is live exactly when fault_started.
LEMMA JudgeKeeps ==
    ASSUME IInv, Judge
    PROVE  ContractStep
<1> USE DEF RunnerGoes, tokenVars, threadVars, guardVars
<1>1. PICK afterMet \in BOOLEAN :
        LET s == IF token THEN "Interrupted" ELSE determine_status(afterMet)
        IN  run_rollbacks(s, \/ s = "Deviated"
                             \/ s \in {"Failed", "Interrupted"} /\ fault_started)
  BY DEF Judge
<1> DEFINE s == IF token THEN "Interrupted" ELSE determine_status(afterMet)
<1>2. /\ rpc = "judge" /\ rpc' = "judged" /\ rb = "none"
      /\ UNCHANGED <<token, injected>>
  BY DEF Judge, IInv, JournalInv
<1>3. fault_started <=> LiveFault
  <2>1. \A a \in Actions : a \in injected <=> res[a] # "none"
    BY <1>2, ActionsAssumption DEF IInv, TypeOK, ActivityInv, JournalInv,
       ActivityStatus, Holding
  <2> QED
    BY <1>2, <2>1 DEF fault_started, LiveFault, IInv, TypeOK
<1>4. s \in {"Completed", "Deviated", "Failed", "Interrupted"}
  BY DEF determine_status
<1>5. s = "Interrupted" <=> token
  BY DEF determine_status
<1> HIDE DEF s
<1>6. LiveFault \in BOOLEAN /\ fault_started \in BOOLEAN
  BY DEF LiveFault, fault_started
<1>7. /\ status' = s
      /\ Contract!Rollback(s = "Deviated" \/ (s \in {"Failed", "Interrupted"} /\ LiveFault))
  <2>1. run_rollbacks(s, s = "Deviated" \/ (s \in {"Failed", "Interrupted"} /\ LiveFault))
    BY <1>1, <1>3 DEF s
  <2> QED
    BY <1>2, <1>6, <2>1, Rollbacks
<1>8. Contract!Judge
  BY <1>2, <1>4, <1>5, <1>7 DEF Contract!Judge, ContractPhase
<1> QED
  BY <1>8 DEF ContractStep, Contract!Next

\* The activities: only a provider's call shows, and only before the token.
LEMMA ActivityKeeps ==
    ASSUME IInv, NEW a \in Activities, ActivityStep(a)
    PROVE  ContractStep
<1> USE DEF ActivityGoes, tokenVars, journalVars
<1>1. CASE Dispatch(a)
  <2>1. rpc = "method" /\ rb = "none" /\ UNCHANGED <<rpc, token, status, rb>>
    BY <1>1 DEF Dispatch, IInv, ActivityInv, JournalInv, Holding
  <2>2. CASE injected' = injected
    BY <2>1, <2>2, Stutter DEF ContractPhase, LiveFault
  <2>3. CASE injected' # injected
    <3>1. ~token /\ a \in injected'
      BY <1>1, <2>3 DEF Dispatch, MethodCancelled
    <3>2. Contract!Inject
      BY <2>1, <3>1 DEF Contract!Inject, ContractPhase, LiveFault
    <3> QED
      BY <3>2 DEF ContractStep, Contract!Next
  <2> QED
    BY <2>2, <2>3
<1>2. CASE ~Dispatch(a)
  <2>1. UNCHANGED <<rpc, token, status, rb, injected>>
    BY <1>2 DEF ActivityStep, GateAcquire, TakeTurn, PauseBefore,
       ProviderReturns, PauseAfter
  <2> QED
    BY <2>1, Stutter DEF ContractPhase, LiveFault
<1> QED
  BY <1>1, <1>2

\* Every step of the runner is a step of the contract, or none.
LEMMA NextKeeps == IInv /\ [Next]_vars => ContractStep
<1> SUFFICES ASSUME IInv, [Next]_vars PROVE ContractStep
  OBVIOUS
<1> USE DEF tokenVars, threadVars, guardVars, journalVars
<1>1. CASE Start \/ HypothesisBefore \/ BeginMethod \/ MonitorJoined
  BY <1>1, EarlyEnds
<1>2. CASE \/ MethodEnds \/ StopMonitor \/ PostPhase \/ CollectLoad
          \/ ReturnJournal \/ ReturnEarly
  BY <1>2, Stutter DEF MethodEnds, StopMonitor, PostPhase, CollectLoad,
     ReturnJournal, ReturnEarly, RunnerGoes, ContractPhase, LiveFault
<1>3. CASE Judge
  BY <1>3, JudgeKeeps
<1>4. CASE LastLook
  <2>1. Contract!Return
    BY <1>4 DEF LastLook, RunnerGoes, Contract!Return, ContractPhase, LiveFault
  <2> QED
    BY <2>1 DEF ContractStep, Contract!Next
<1>5. CASE ProbePanics
  <2>1. Contract!Die
    BY <1>5 DEF ProbePanics, RunnerGoes, Contract!Die, ContractPhase, LiveFault
  <2> QED
    BY <2>1 DEF ContractStep, Contract!Next
<1>6. CASE \E a \in Activities : ActivityStep(a)
  BY <1>6, ActivityKeeps
<1>7. CASE Cancel
  <2>1. Contract!Cancel
    BY <1>7 DEF Cancel, Contract!Cancel, ContractPhase, LiveFault
  <2> QED
    BY <2>1 DEF ContractStep, Contract!Next
<1>8. CASE Monitor \/ Ended \/ UNCHANGED vars
  <2>1. UNCHANGED <<rpc, token, status, rb, injected>>
    BY <1>8 DEF Monitor, GuardEvaluate, GuardRoundEnds, GuardWaits, GuardPanics,
       GuardGoes, Ended, vars
  <2> QED
    BY <2>1, Stutter DEF ContractPhase, LiveFault
<1> QED
  BY <1>1, <1>2, <1>3, <1>4, <1>5, <1>6, <1>7, <1>8 DEF Next, RunnerThread

\* The runner's threads, gate, guards and load keep the contract that the
\* daemon's worker relies on: no provider is called once cancelled, and a
\* fault that was injected is rolled back as the status demands.
THEOREM ContractKept == Spec => KeepsContract
<1>1. Init => Contract!Init
  BY DEF Init, Contract!Init, ContractPhase, LiveFault
<1>2. IInv /\ [Next]_vars => [Contract!Next]_(Contract!vars)
  BY NextKeeps DEF ContractStep
<1> QED
  BY <1>1, <1>2, Invariance, PTL DEF Spec, KeepsContract, Contract!Spec
=============================================================================
