--------------------------- MODULE ServicesProofs ---------------------------
(* Theorems about the daemon's services: schedules keep their pace, no       *)
(* webhook event is lost unaccounted, a clean stop answers for every batch,  *)
(* and the telemetry receivers tell exporters the truth about their rows.    *)
EXTENDS MCServices, WellFoundedInduction, FiniteSetTheorems, SequenceTheorems, TLAPS

(***************************************************************************)
(* Schedules.                                                              *)
(***************************************************************************)
(* What the tick knows of the rows in its hands: it read them due at its own
   clock, and nobody else moves their next fire. *)
SchedTickInv ==
    /\ schedPc = "idle" => schedTodo = {}
    /\ schedPc \in {"idle", "fire"} => schedCur = {}
    /\ schedRan => schedPc = "advance"
    /\ schedTickNow <= schedClock
    /\ schedTodo \cap schedCur = {}
    /\ \A s \in schedTodo \cup schedCur : schedRow[s] # "none" /\ schedNext[s] <= schedTickNow

Fired(s) == schedBorn[s] + Interval[s] * schedFires[s]
Debt(s) == Interval[s] * schedLost[s]

(* The intervals that the fires of a row have used up end before its next
   fire, less those whose advance was lost: a whole interval before it, but for
   a row that has just fired or will never fire again. *)
SchedPaceInv ==
    \A s \in Schedules :
        /\ schedBorn[s] <= schedClock
        /\ schedRow[s] = "none" => schedFires[s] = 0 /\ schedLost[s] = 0
        /\ Fired(s) <= schedClock + Debt(s)
        /\ schedRow[s] # "none" =>
             /\ Fired(s) <= schedNext[s] + Debt(s)
             /\ \/ Fired(s) + Interval[s] <= schedNext[s] + Debt(s)
                \/ s \in schedCur /\ schedRan
                \/ schedRow[s] = "deleted" /\ s \notin schedTodo

(* A fire is late only if the row was paused after the tick had read it. *)
SchedLateInv ==
    \A s \in Schedules :
        /\ schedLate[s] <= 1
        /\ schedRow[s] \in {"none", "enabled"} \/ s \in schedTodo => schedLate[s] = 0

SchedIInv == SchedTypeOK /\ SchedTickInv /\ SchedPaceInv /\ SchedLateInv
-----------------------------------------------------------------------------
(* A product that grows by one factor, for the intervals used up.           *)
LEMMA OneMore ==
    ASSUME NEW i \in Nat, NEW n \in Nat
    PROVE  i * n \in Nat /\ i * (n + 1) = i * n + i
OBVIOUS

(* What is used up in whole intervals is at most the quotient.              *)
LEMMA Quotient ==
    ASSUME NEW i \in Nat \ {0}, NEW t \in Nat, NEW f \in Nat, NEW l \in Nat, i * f <= t + i * l
    PROVE  f <= (t \div i) + l
<1> DEFINE q == t \div i
<1>1. q \in Nat /\ t < i * (q + 1)
  BY Z3
<1>2. i * (q + 1) + i * l = i * (q + 1 + l)
  BY <1>1
<1>3. i * f < i * (q + 1 + l)
  BY <1>1, <1>2
<1>4. f < q + 1 + l
  <2>1. SUFFICES ASSUME q + 1 + l <= f PROVE FALSE
    BY <1>1
  <2>2. i * (q + 1 + l) <= i * f
    BY <2>1, <1>1
  <2> QED  BY <2>2, <1>3, <1>1
<1> QED  BY <1>4, <1>1

(* Every step keeps the types of the variables. *)
LEMMA SchedTypeStep ==
    ASSUME SchedTypeOK, [SchedNextStep]_schedVars
    PROVE  SchedTypeOK'
<1> USE SchedAssumption DEF SchedTypeOK
<1>1. ASSUME NEW s \in Schedules, SchedCreate(s) PROVE SchedTypeOK'
  BY <1>1 DEF SchedCreate, schedVars, schedTick, schedHistory
<1>2. ASSUME NEW s \in Schedules, SchedDelete(s) PROVE SchedTypeOK'
  BY <1>2 DEF SchedDelete, schedVars, schedTick, schedHistory
<1>3. ASSUME NEW s \in Schedules, DefinitionChanges(s) PROVE SchedTypeOK'
  BY <1>3 DEF DefinitionChanges, schedVars, schedTick, schedHistory
<1>4. ASSUME NEW s \in Schedules, NEW flag \in {"enabled", "disabled"}, SchedSetEnabled(s, flag) PROVE SchedTypeOK'
  BY <1>4 DEF SchedSetEnabled, schedVars, schedTick, schedHistory
<1>5. CASE SchedTickBegin
  BY <1>5 DEF SchedTickBegin, DueSchedules, schedVars, schedTick, schedHistory
<1>6. CASE ScheduleBroken
  <2>1. schedPc' \in {"fire", "advance"} /\ schedCur' \subseteq Schedules
    BY <1>6 DEF ScheduleBroken
  <2> QED  BY <1>6, <2>1 DEF ScheduleBroken, schedVars, schedTick, schedHistory
<1>7. CASE ScheduleFired
  <2>1. \A s \in Schedules :
          (IF s \in schedCur /\ schedRow[s] # "deleted" THEN schedTickNow + Interval[s] ELSE schedNext[s]) \in Nat
    OBVIOUS
  <2>2. schedNext' \in [Schedules -> Nat]
    BY <1>7, <2>1, Zenon DEF ScheduleFired
  <2> QED  BY <1>7, <2>2 DEF ScheduleFired, schedVars, schedTick, schedHistory
<1>8. CASE SchedTickEnd
  BY <1>8 DEF SchedTickEnd, schedVars, schedTick, schedHistory
<1>9. ASSUME NEW s \in Schedules, FireOne(s) PROVE SchedTypeOK'
  BY <1>9 DEF FireOne, schedVars, schedTick, schedHistory
<1>10. ASSUME NEW s \in Schedules, FireRefused(s) PROVE SchedTypeOK'
  BY <1>10 DEF FireRefused, schedVars, schedTick, schedHistory
<1>11. CASE SchedTickLost
  <2>1. schedLost' \in [Schedules -> Nat]
    <3>1. \A s \in Schedules : schedLost[s] + (IF s \in schedCur /\ schedRan THEN 1 ELSE 0) \in Nat
      OBVIOUS
    <3> QED  BY <1>11, <3>1, Zenon DEF SchedTickLost
  <2>2. /\ schedFaults' = schedFaults + 1 /\ schedPc' = "idle" /\ schedTodo' = {} /\ schedCur' = {}
        /\ schedRan' = FALSE
        /\ UNCHANGED <<schedClock, schedRow, schedNext, schedBroken, schedTickNow,
                       schedBorn, schedFires, schedLate>>
    BY <1>11, Zenon DEF SchedTickLost
  <2>3. schedTodo' \subseteq Schedules /\ schedCur' \subseteq Schedules /\ schedRan' \in BOOLEAN
    BY <2>2, Zenon
  <2>4. schedFaults' \in Nat /\ schedPc' \in {"idle", "fire", "check", "advance"}
    BY <2>2
  <2> QED  BY <2>1, <2>2, <2>3, <2>4, Zenon
<1>12. CASE SchedTimePasses
  BY <1>12 DEF SchedTimePasses, schedVars, schedTick, schedHistory
<1>13. CASE UNCHANGED schedVars
  BY <1>13 DEF schedVars, schedTick, schedHistory
<1> QED  BY <1>1, <1>2, <1>3, <1>4, <1>5, <1>6, <1>7, <1>8, <1>9, <1>10, <1>11, <1>12, <1>13
             DEF SchedNextStep, SchedStep

(* What the tick has in its hands was due at its clock. *)
LEMMA SchedTickStep ==
    ASSUME SchedTypeOK, SchedTickInv, [SchedNextStep]_schedVars
    PROVE  SchedTickInv'
<1> USE SchedAssumption DEF SchedTypeOK, SchedTickInv
<1>1. ASSUME NEW s \in Schedules, SchedCreate(s) PROVE SchedTickInv'
  BY <1>1 DEF SchedCreate, DueSchedules, Oldest, schedVars, schedTick, schedHistory
<1>2. ASSUME NEW s \in Schedules, SchedDelete(s) PROVE SchedTickInv'
  BY <1>2 DEF SchedDelete, DueSchedules, Oldest, schedVars, schedTick, schedHistory
<1>3. ASSUME NEW s \in Schedules, DefinitionChanges(s) PROVE SchedTickInv'
  BY <1>3 DEF DefinitionChanges, DueSchedules, Oldest, schedVars, schedTick, schedHistory
<1>4. ASSUME NEW s \in Schedules, NEW flag \in {"enabled", "disabled"}, SchedSetEnabled(s, flag) PROVE SchedTickInv'
  BY <1>4 DEF SchedSetEnabled, DueSchedules, Oldest, schedVars, schedTick, schedHistory
<1>5. CASE SchedTickBegin
  BY <1>5 DEF SchedTickBegin, DueSchedules, Oldest, schedVars, schedTick, schedHistory
<1>6. CASE ScheduleBroken
  BY <1>6 DEF ScheduleBroken, DueSchedules, Oldest, schedVars, schedTick, schedHistory
<1>7. CASE ScheduleFired
  BY <1>7 DEF ScheduleFired, DueSchedules, Oldest, schedVars, schedTick, schedHistory
<1>8. CASE SchedTickEnd
  BY <1>8 DEF SchedTickEnd, DueSchedules, Oldest, schedVars, schedTick, schedHistory
<1>9. ASSUME NEW s \in Schedules, FireOne(s) PROVE SchedTickInv'
  BY <1>9 DEF FireOne, DueSchedules, Oldest, schedVars, schedTick, schedHistory
<1>10. ASSUME NEW s \in Schedules, FireRefused(s) PROVE SchedTickInv'
  BY <1>10 DEF FireRefused, DueSchedules, Oldest, schedVars, schedTick, schedHistory
<1>11. CASE SchedTickLost
  BY <1>11 DEF SchedTickLost, DueSchedules, Oldest, schedVars, schedTick, schedHistory
<1>12. CASE SchedTimePasses
  BY <1>12 DEF SchedTimePasses, DueSchedules, Oldest, schedVars, schedTick, schedHistory
<1>13. CASE UNCHANGED schedVars
  BY <1>13 DEF DueSchedules, Oldest, schedVars, schedTick, schedHistory
<1> QED  BY <1>1, <1>2, <1>3, <1>4, <1>5, <1>6, <1>7, <1>8, <1>9, <1>10, <1>11, <1>12, <1>13
             DEF SchedNextStep, SchedStep

(* No step lets a row use up more than the intervals of its life. *)
LEMMA SchedPaceStep ==
    ASSUME SchedTypeOK, SchedTickInv, SchedPaceInv, [SchedNextStep]_schedVars
    PROVE  SchedPaceInv'
<1> USE SchedAssumption DEF SchedTypeOK
<1> SUFFICES ASSUME NEW s \in Schedules
             PROVE  SchedPaceInv!(s)'
  BY DEF SchedPaceInv
<1> DEFINE i == Interval[s]
<1>a. SchedPaceInv!(s)
  BY DEF SchedPaceInv
<1>b. /\ i \in Nat \ {0} /\ schedFires[s] \in Nat /\ schedLost[s] \in Nat
      /\ schedBorn[s] \in Nat /\ schedNext[s] \in Nat
      /\ i * schedFires[s] \in Nat /\ i * (schedFires[s] + 1) = i * schedFires[s] + i
      /\ i * schedLost[s] \in Nat /\ i * (schedLost[s] + 1) = i * schedLost[s] + i
      /\ i * 0 = 0
  BY OneMore
<1>1. ASSUME NEW t \in Schedules, SchedCreate(t) PROVE SchedPaceInv!(s)'
  <2>1. CASE s = t
    <3>1. schedFires[s] = 0 /\ schedLost[s] = 0 /\ s \notin schedTodo \cup schedCur
      BY <1>1, <1>a, <2>1 DEF SchedCreate, SchedTickInv
    <3>2. /\ schedBorn'[s] = schedClock /\ schedNext'[s] = schedClock + i /\ schedRow'[s] = "enabled"
          /\ schedFires'[s] = 0 /\ schedLost'[s] = 0 /\ schedClock' = schedClock
      BY <1>1, <2>1, <3>1 DEF SchedCreate, schedHistory
    <3>3. Fired(s)' = schedClock /\ Debt(s)' = 0
      BY <3>2, <1>b DEF Fired, Debt
    <3> QED  BY <3>2, <3>3, <1>b
  <2>2. CASE s # t
    <3>1. /\ schedBorn'[s] = schedBorn[s] /\ schedNext'[s] = schedNext[s] /\ schedRow'[s] = schedRow[s]
          /\ UNCHANGED <<schedClock, schedFires, schedLost, schedTodo, schedCur, schedRan>>
      BY <1>1, <2>2 DEF SchedCreate, schedTick
    <3> QED  BY <3>1, <1>a DEF Fired, Debt
  <2> QED  BY <2>1, <2>2
<1>2. ASSUME NEW t \in Schedules, SchedDelete(t) PROVE SchedPaceInv!(s)'
  BY <1>2, <1>a, <1>b DEF SchedDelete, Fired, Debt, SchedTickInv, schedVars, schedTick, schedHistory
<1>3. ASSUME NEW t \in Schedules, DefinitionChanges(t) PROVE SchedPaceInv!(s)'
  BY <1>3, <1>a, <1>b
      DEF DefinitionChanges, Fired, Debt, SchedTickInv, schedVars, schedTick, schedHistory
<1>4. ASSUME NEW t \in Schedules, NEW flag \in {"enabled", "disabled"}, SchedSetEnabled(t, flag) PROVE SchedPaceInv!(s)'
  BY <1>4, <1>a, <1>b
      DEF SchedSetEnabled, Fired, Debt, SchedTickInv, schedVars, schedTick, schedHistory
<1>5. CASE SchedTickBegin
  BY <1>5, <1>a, <1>b
      DEF SchedTickBegin, Fired, Debt, SchedTickInv, DueSchedules, schedVars, schedTick, schedHistory
<1>6. CASE ScheduleBroken
  BY <1>6, <1>a, <1>b
      DEF ScheduleBroken, Fired, Debt, SchedTickInv, schedVars, schedTick, schedHistory
<1>7. CASE ScheduleFired
  BY <1>7, <1>a, <1>b
      DEF ScheduleFired, Fired, Debt, SchedTickInv, schedVars, schedTick, schedHistory
<1>8. CASE SchedTickEnd
  BY <1>8, <1>a, <1>b DEF SchedTickEnd, Fired, Debt, SchedTickInv, schedVars, schedTick, schedHistory
<1>9. ASSUME NEW t \in Schedules, FireOne(t) PROVE SchedPaceInv!(s)'
  <2>0. UNCHANGED <<schedClock, schedRow, schedNext, schedBorn, schedLost>>
    BY <1>9 DEF FireOne
  <2>1. CASE s = t
    <3>1. /\ s \in schedTodo /\ schedFires'[s] = schedFires[s] + 1
          /\ schedRan' /\ s \in schedCur'
      BY <1>9, <2>1 DEF FireOne, Oldest
    <3>2. schedNext[s] <= schedTickNow /\ schedTickNow <= schedClock /\ s \notin schedCur /\ schedRow[s] # "none"
      BY <3>1 DEF SchedTickInv
    <3>3. Fired(s)' = Fired(s) + i /\ Debt(s)' = Debt(s)
      BY <2>0, <3>1, <1>b DEF Fired, Debt
    <3>4. Fired(s) + i <= schedNext[s] + Debt(s)
      BY <1>a, <3>1, <3>2
    <3>5. Fired(s) \in Nat /\ Debt(s) \in Nat
      BY <1>b DEF Fired, Debt
    <3> QED  BY <1>a, <2>0, <3>1, <3>2, <3>3, <3>4, <3>5, <1>b
  <2>2. CASE s # t
    <3>1. schedFires'[s] = schedFires[s] /\ schedTodo' \subseteq schedTodo
      BY <1>9, <2>2 DEF FireOne
    <3>2. ~schedRan
      BY <1>9 DEF FireOne, SchedTickInv
    <3> QED  BY <1>a, <2>0, <3>1, <3>2 DEF Fired, Debt
  <2> QED  BY <2>1, <2>2
<1>10. ASSUME NEW t \in Schedules, FireRefused(t) PROVE SchedPaceInv!(s)'
  BY <1>10, <1>a, <1>b
      DEF FireRefused, Fired, Debt, SchedTickInv, Oldest, schedVars, schedTick, schedHistory
<1>11. CASE SchedTickLost
  BY <1>11, <1>a, <1>b
      DEF SchedTickLost, Fired, Debt, SchedTickInv, schedVars, schedTick, schedHistory
<1>12. CASE SchedTimePasses
  <2>1. /\ schedClock' = schedClock + 1
        /\ UNCHANGED <<schedRow, schedNext, schedBorn, schedFires, schedLost, schedTodo, schedCur, schedRan>>
    BY <1>12 DEF SchedTimePasses, schedTick, schedHistory
  <2>2. Fired(s) \in Nat /\ Debt(s) \in Nat /\ Fired(s)' = Fired(s) /\ Debt(s)' = Debt(s)
    BY <1>b, <2>1 DEF Fired, Debt
  <2>3. schedClock \in Nat
    OBVIOUS
  <2>4. schedBorn'[s] <= schedClock' /\ Fired(s)' <= schedClock' + Debt(s)'
    <3>1. schedBorn[s] <= schedClock /\ Fired(s) <= schedClock + Debt(s)
      BY <1>a
    <3>2. schedBorn[s] <= schedClock + 1 /\ Fired(s) <= schedClock + 1 + Debt(s)
      BY <3>1, <1>b, <2>2, <2>3
    <3> QED  BY <3>2, <2>1, <2>2
  <2> QED  BY <1>a, <2>1, <2>2, <2>4
<1>13. CASE UNCHANGED schedVars
  BY <1>13, <1>a, <1>b DEF Fired, Debt, SchedTickInv, schedVars, schedTick, schedHistory
<1> QED  BY <1>1, <1>2, <1>3, <1>4, <1>5, <1>6, <1>7, <1>8, <1>9, <1>10, <1>11, <1>12, <1>13
             DEF SchedNextStep, SchedStep

(* No step fires a row a second time after its pause. *)
LEMMA SchedLateStep ==
    ASSUME SchedTypeOK, SchedTickInv, SchedPaceInv, SchedLateInv, [SchedNextStep]_schedVars
    PROVE  SchedLateInv'
<1> USE SchedAssumption DEF SchedTypeOK, SchedLateInv
<1>1. ASSUME NEW t \in Schedules, SchedCreate(t) PROVE SchedLateInv'
  BY <1>1 DEF SchedCreate, SchedTickInv, schedVars, schedTick, schedHistory
<1>2. ASSUME NEW t \in Schedules, SchedDelete(t) PROVE SchedLateInv'
  BY <1>2 DEF SchedDelete, SchedTickInv, schedVars, schedTick, schedHistory
<1>3. ASSUME NEW t \in Schedules, DefinitionChanges(t) PROVE SchedLateInv'
  BY <1>3 DEF DefinitionChanges, SchedTickInv, schedVars, schedTick, schedHistory
<1>4. ASSUME NEW t \in Schedules, NEW flag \in {"enabled", "disabled"}, SchedSetEnabled(t, flag) PROVE SchedLateInv'
  BY <1>4 DEF SchedSetEnabled, SchedTickInv, schedVars, schedTick, schedHistory
<1>5. CASE SchedTickBegin
  BY <1>5 DEF SchedTickBegin, DueSchedules, SchedTickInv, schedVars, schedTick, schedHistory
<1>6. CASE ScheduleBroken
  BY <1>6 DEF ScheduleBroken, SchedTickInv, schedVars, schedTick, schedHistory
<1>7. CASE ScheduleFired
  BY <1>7 DEF ScheduleFired, SchedTickInv, schedVars, schedTick, schedHistory
<1>8. CASE SchedTickEnd
  BY <1>8 DEF SchedTickEnd, SchedTickInv, schedVars, schedTick, schedHistory
<1>9. ASSUME NEW t \in Schedules, FireOne(t) PROVE SchedLateInv'
  BY <1>9 DEF FireOne, Oldest, SchedTickInv, schedVars, schedTick, schedHistory
<1>10. ASSUME NEW t \in Schedules, FireRefused(t) PROVE SchedLateInv'
  BY <1>10 DEF FireRefused, Oldest, SchedTickInv, schedVars, schedTick, schedHistory
<1>11. CASE SchedTickLost
  BY <1>11 DEF SchedTickLost, SchedTickInv, schedVars, schedTick, schedHistory
<1>12. CASE SchedTimePasses
  BY <1>12 DEF SchedTimePasses, SchedTickInv, schedVars, schedTick, schedHistory
<1>13. CASE UNCHANGED schedVars
  BY <1>13 DEF SchedTickInv, schedVars, schedTick, schedHistory
<1> QED  BY <1>1, <1>2, <1>3, <1>4, <1>5, <1>6, <1>7, <1>8, <1>9, <1>10, <1>11, <1>12, <1>13
             DEF SchedNextStep, SchedStep

(* The tick's, the rows' and the pauses' invariant together. *)
LEMMA SchedInvariance == SchedSpec => []SchedIInv
<1>1. SchedInit => SchedIInv
  <2> SUFFICES ASSUME SchedInit PROVE SchedIInv
    OBVIOUS
  <2>1. SchedTypeOK
    BY DEF SchedInit, SchedTypeOK
  <2>2. SchedTickInv
    BY DEF SchedInit, SchedTickInv
  <2>3. SchedLateInv
    <3>1. \A s \in Schedules : schedLate[s] = 0
      BY DEF SchedInit
    <3>2. ASSUME NEW s \in Schedules
          PROVE  schedLate[s] <= 1 /\ schedLate[s] = 0
      BY <3>1
    <3> QED  BY <3>1, <3>2, Zenon DEF SchedLateInv
  <2>4. ASSUME NEW s \in Schedules
        PROVE  /\ schedBorn[s] = 0 /\ schedClock = 0 /\ schedRow[s] = "none"
               /\ schedFires[s] = 0 /\ schedLost[s] = 0
               /\ Fired(s) = 0 /\ Debt(s) = 0
    <3>1. Interval[s] * 0 = 0
      BY SchedAssumption, OneMore
    <3>2. /\ schedBorn[s] = 0 /\ schedClock = 0 /\ schedRow[s] = "none"
          /\ schedFires[s] = 0 /\ schedLost[s] = 0
      BY DEF SchedInit
    <3> QED  BY <3>1, <3>2 DEF Fired, Debt
  <2>5. SchedPaceInv
    <3>1. ASSUME NEW s \in Schedules
          PROVE  schedBorn[s] <= schedClock /\ Fired(s) <= schedClock + Debt(s)
      BY <2>4
    <3> QED  BY <2>4, <3>1, Zenon DEF SchedPaceInv
  <2> QED  BY <2>1, <2>2, <2>3, <2>5 DEF SchedIInv
<1>2. SchedIInv /\ [SchedNextStep]_schedVars => SchedIInv'
  BY SchedTypeStep, SchedTickStep, SchedPaceStep, SchedLateStep DEF SchedIInv
<1> QED  BY <1>1, <1>2, PTL DEF SchedSpec

(* The types of the scheduler's state (tumult-ingest/src/schedules.rs). *)
THEOREM SchedTypeCorrect == SchedSpec => []SchedTypeOK
<1>1. SchedIInv => SchedTypeOK
  BY DEF SchedIInv
<1> QED  BY <1>1, SchedInvariance, PTL

(* A schedule has fired at most once per interval of its life, plus once for
   every fire whose advance was lost (fire_due_schedules, schedule_fired), and
   at most once after its pause or deletion. *)
THEOREM PacedAlways == SchedSpec => []SchedPaced
<1>1. SchedIInv => SchedPaced
  <2> SUFFICES ASSUME SchedIInv, NEW s \in Schedules
               PROVE  /\ schedFires[s] <= ((schedClock - schedBorn[s]) \div Interval[s]) + schedLost[s]
                      /\ schedLate[s] <= 1
    BY DEF SchedPaced, SchedRate, SchedOneLateFire
  <2>1. /\ schedClock \in Nat /\ schedBorn[s] \in Nat /\ schedFires[s] \in Nat /\ schedLost[s] \in Nat
        /\ Interval[s] \in Nat \ {0}
    BY SchedAssumption DEF SchedIInv, SchedTypeOK
  <2>2. /\ schedBorn[s] <= schedClock
        /\ schedBorn[s] + Interval[s] * schedFires[s] <= schedClock + Interval[s] * schedLost[s]
    BY DEF SchedIInv, SchedPaceInv, Fired, Debt
  <2>3. Interval[s] * schedFires[s] \in Nat /\ Interval[s] * schedLost[s] \in Nat
    BY <2>1, OneMore
  <2>4. /\ schedClock - schedBorn[s] \in Nat
        /\ Interval[s] * schedFires[s] <= (schedClock - schedBorn[s]) + Interval[s] * schedLost[s]
    BY <2>1, <2>2, <2>3
  <2>5. schedFires[s] <= ((schedClock - schedBorn[s]) \div Interval[s]) + schedLost[s]
    BY <2>1, <2>4, Quotient
  <2> QED  BY <2>5 DEF SchedIInv, SchedLateInv
<1> QED  BY <1>1, SchedInvariance, PTL

(***************************************************************************)
(* Webhooks.                                                               *)
(***************************************************************************)
HookRecords == [at : 0 .. hookClock, kind : EventKinds]
HookTypeOK ==
    /\ hookClock \in Nat
    /\ hookAudit \in Seq(HookRecords)
    /\ hookRow \in [Hooks -> {"none", "enabled", "disabled", "deleted"}]
    /\ hookCursor \in [Hooks -> Nat]
    /\ hookLetters \in [Hooks -> SUBSET AuditRows]
    /\ hookPc \in [Hooks -> {"off", "read", "post", "write"}]
    /\ hookBatch \in [Hooks -> SUBSET AuditRows]
    /\ hookLeft \in [Hooks -> SUBSET AuditRows]
    /\ hookUpTo \in [Hooks -> Nat]
    /\ hookDelivered \in [Hooks -> SUBSET AuditRows]
    /\ hookStale \in [Hooks -> SUBSET AuditRows]

SharesTime(e) == \E f \in AuditRows \ {e} : At(f) = At(e)

(* What a task has in hand: a batch behind the cursor, of which the wanted
   events it has come to were accepted. *)
HookTaskInv(h) ==
    /\ hookLeft[h] \subseteq hookBatch[h]
    /\ hookRow[h] = "none" => hookPc[h] = "off"
    /\ hookPc[h] \in {"off", "read"} => hookBatch[h] = {}
    /\ \A e \in hookBatch[h] : At(e) > hookCursor[h]
    /\ \A e \in hookBatch[h] \ hookLeft[h] : Wanted(h, e) => e \in hookDelivered[h]

(* The batch has left nothing out but what shares its last time, or came in
   behind its back. *)
HookBatchInv(h) ==
    \A f \in AuditRows \ (hookBatch[h] \cup hookStale[h]) :
        At(f) > hookCursor[h] /\ (\E e \in hookBatch[h] : At(f) <= At(e)) => SharesTime(f)

(* The task goes through its batch in the order of time. *)
HookUpToInv(h) ==
    hookPc[h] \in {"post", "write"} =>
        /\ \/ hookUpTo[h] = hookCursor[h]
           \/ \E g \in hookBatch[h] \ hookLeft[h] : At(g) = hookUpTo[h]
        /\ \A e \in hookBatch[h] \ hookLeft[h] : At(e) <= hookUpTo[h]
        /\ \A e \in hookLeft[h] : hookUpTo[h] <= At(e)

HookLossOK(h) ==
    \A e \in Passed(h) \ (Accounted(h) \cup hookStale[h]) : SharesTime(e)

HookGood(h) == HookTaskInv(h) /\ HookBatchInv(h) /\ HookUpToInv(h) /\ HookLossOK(h)

HookIInv == HookTypeOK /\ \A h \in Hooks : HookGood(h)
-----------------------------------------------------------------------------
(* A bounded set of numbers that is not empty has a greatest member, and Max
   names it. *)
LEMMA Greatest ==
    ASSUME NEW n \in Nat, NEW S \in SUBSET (0 .. n), S # {}
    PROVE  Max(S) \in S /\ \A x \in S : x <= Max(S)
<1> DEFINE T == {n - x : x \in S}
<1>1. T \subseteq Nat /\ T # {}
  <2>1. \A x \in S : n - x \in Nat
    OBVIOUS
  <2>2. PICK x \in S : TRUE
    OBVIOUS
  <2>3. n - x \in T
    OBVIOUS
  <2> QED  BY <2>1, <2>3
<1>2. IsWellFoundedOn(OpToRel(<, Nat), Nat)
  BY NatLessThanWellFounded
<1>3. PICK y \in T : \A z \in T : <<z, y>> \notin OpToRel(<, Nat)
  <2> HIDE DEF T
  <2> QED  BY <1>1, <1>2, WFMin
<1>4. \A z \in T : ~(z < y)
  <2>1. ASSUME NEW z \in T, z < y PROVE <<z, y>> \in OpToRel(<, Nat)
    <3>1. <<z, y>> \in Nat \X Nat
      BY <1>1
    <3> QED  BY <3>1, <2>1 DEF OpToRel
  <2> QED  BY <2>1, <1>3
<1>5. PICK x \in S : y = n - x
  BY <1>3
<1>6. \A z \in S : x >= z
  <2> TAKE z \in S
  <2>1. n - z \in T
    OBVIOUS
  <2> HIDE DEF T
  <2>2. ~(n - z < n - x)
    BY <2>1, <1>4, <1>5
  <2>3. x \in 0 .. n /\ z \in 0 .. n
    OBVIOUS
  <2> QED  BY <2>2, <2>3
<1>7. Max(S) \in S /\ \A z \in S : Max(S) >= z
  BY <1>6 DEF Max
<1> QED  BY <1>7

(* Times are numbers the clock has shown. *)
LEMMA TimesAreNat ==
    ASSUME HookTypeOK
    PROVE  \A e \in AuditRows : At(e) \in Nat /\ At(e) \in 0 .. hookClock
<1>1. \A e \in AuditRows : hookAudit[e] \in HookRecords
  BY ElementOfSeq DEF HookTypeOK, AuditRows
<1> QED  BY <1>1 DEF At, HookTypeOK, HookRecords

(* The time that Latest names: no event of the set and no least is later, and
   one of them has it. *)
LEMMA LatestBounds ==
    ASSUME HookTypeOK, NEW S \in SUBSET AuditRows, NEW c \in Nat
    PROVE  /\ Latest(S, c) \in Nat /\ c <= Latest(S, c)
           /\ \A e \in S : At(e) <= Latest(S, c)
           /\ Latest(S, c) = c \/ \E e \in S : At(e) = Latest(S, c)
<1> DEFINE T == {At(e) : e \in S} \cup {c}
<1>1. \A e \in S : At(e) \in 0 .. hookClock
  BY TimesAreNat
<1>2. T \subseteq 0 .. (hookClock + c) /\ T # {} /\ hookClock + c \in Nat
  BY <1>1 DEF HookTypeOK
<1>3. Max(T) \in T /\ \A x \in T : x <= Max(T)
  <2> HIDE DEF T
  <2> QED  BY <1>2, Greatest
<1>4. Latest(S, c) = Max(T)
  BY DEF Latest
<1>5. Latest(S, c) \in 0 .. (hookClock + c)
  BY <1>2, <1>3, <1>4
<1>6. c <= Latest(S, c)
  BY <1>3, <1>4
<1>7. \A e \in S : At(e) <= Latest(S, c)
  <2> TAKE e \in S
  <2>1. At(e) \in T
    OBVIOUS
  <2> QED  BY <2>1, <1>3, <1>4
<1>8. Latest(S, c) = c \/ \E e \in S : At(e) = Latest(S, c)
  BY <1>3, <1>4
<1> QED  BY <1>2, <1>5, <1>6, <1>7, <1>8

(* What is said of events stays true while nobody writes to the log. *)
LEMMA SameLog ==
    ASSUME hookAudit' = hookAudit
    PROVE  /\ AuditRows' = AuditRows
           /\ \A e : At(e)' = At(e) /\ (SharesTime(e)' <=> SharesTime(e))
           /\ \A h, e : Wanted(h, e)' <=> Wanted(h, e)
BY Zenon DEF AuditRows, At, SharesTime, Wanted

(* An event is appended: the others keep their times, and what shared its time
   still does. *)
LEMMA LongerLog ==
    ASSUME HookTypeOK, NEW n, n = Len(hookAudit) + 1, NEW t \in 0 .. hookClock, NEW k \in EventKinds,
           hookAudit' = Append(hookAudit, [at |-> t, kind |-> k])
    PROVE  /\ n \notin AuditRows /\ AuditRows' = AuditRows \cup {n}
           /\ At(n)' = t
           /\ \A e \in AuditRows : At(e)' = At(e) /\ (SharesTime(e) => SharesTime(e)')
           /\ \A h \in Hooks, e \in AuditRows : Wanted(h, e)' <=> Wanted(h, e)
<1> USE DEF HookTypeOK
<1>1. Len(hookAudit) \in Nat /\ Len(hookAudit') = Len(hookAudit) + 1
  OBVIOUS
<1>2. n \notin AuditRows /\ AuditRows' = AuditRows \cup {n}
  BY <1>1 DEF AuditRows
<1>3. /\ \A e \in AuditRows : hookAudit'[e] = hookAudit[e]
      /\ hookAudit'[n] = [at |-> t, kind |-> k]
  <2>1. [at |-> t, kind |-> k] \in HookRecords
    BY DEF HookRecords
  <2> QED  BY <1>1, <2>1, AppendProperties DEF AuditRows
<1>4. At(n)' = t /\ \A e \in AuditRows : At(e)' = At(e)
  <2>1. hookAudit'[n].at = t
    BY <1>3
  <2> QED  BY <1>3, <2>1, Zenon DEF At
<1>5. \A e \in AuditRows : SharesTime(e) => SharesTime(e)'
  BY <1>2, <1>4 DEF SharesTime
<1>6. \A h \in Hooks, e \in AuditRows : Wanted(h, e)' <=> Wanted(h, e)
  BY <1>3 DEF Wanted
<1> QED  BY <1>2, <1>4, <1>5, <1>6

(* Nothing is read, passed or left at the start. *)
LEMMA HookInitInv == HookInit => HookIInv
<1> SUFFICES ASSUME HookInit PROVE HookIInv
  OBVIOUS
<1>1. AuditRows = {}
  BY DEF HookInit, AuditRows
<1>2. HookTypeOK
  BY <1>1 DEF HookInit, HookTypeOK
<1> QED  BY <1>1, <1>2 DEF HookInit, HookIInv, HookGood, HookTaskInv, HookBatchInv, HookUpToInv,
             HookLossOK, Passed

(* An event joins the log: it is later than what the hooks have read, or it is
   one of those inserted behind their backs. *)
LEMMA HookInsertStep ==
    ASSUME HookIInv, NEW kind \in EventKinds, NEW back \in 0 .. ClockSkew, NEW passes \in {0, 1},
           HookAuditInsert(kind, back, passes)
    PROVE  HookIInv'
<1> USE HookAssumption
<1>a. PICK t \in 0 .. hookClock : t = hookClock - back
  BY DEF HookAuditInsert, HookIInv, HookTypeOK
<1>b. PICK n \in Nat : n = Len(hookAudit) + 1
  BY DEF HookIInv, HookTypeOK
<1>1. /\ hookAudit' = Append(hookAudit, [at |-> t, kind |-> kind])
      /\ hookClock' \in Nat /\ hookClock <= hookClock' /\ hookClock \in Nat
  BY <1>a DEF HookAuditInsert, HookIInv, HookTypeOK
<1>2. UNCHANGED <<hookRow, hookCursor, hookLetters, hookPc, hookBatch, hookLeft, hookUpTo,
                  hookDelivered>>
  BY DEF HookAuditInsert, hookTask
<1>3. \A h \in Hooks :
        /\ hookStale'[h] = hookStale[h] \/ hookStale'[h] = hookStale[h] \cup {n}
        /\ n \notin hookStale'[h] => ~(t <= Latest(hookBatch[h], hookCursor[h]))
  BY <1>a, <1>b DEF HookAuditInsert
<1>4. /\ n \notin AuditRows /\ AuditRows' = AuditRows \cup {n} /\ At(n)' = t
      /\ \A e \in AuditRows : At(e)' = At(e) /\ (SharesTime(e) => SharesTime(e)')
      /\ \A h \in Hooks, e \in AuditRows : Wanted(h, e)' <=> Wanted(h, e)
  BY <1>1, <1>b, LongerLog DEF HookIInv
<1>5. \A h \in Hooks : hookBatch[h] \subseteq AuditRows /\ hookLeft[h] \subseteq AuditRows
  BY DEF HookIInv, HookTypeOK
<1>6. HookTypeOK'
  <2>1. hookAudit' \in Seq(HookRecords')
    <3>1. HookRecords \subseteq HookRecords' /\ [at |-> t, kind |-> kind] \in HookRecords
      BY <1>1 DEF HookRecords
    <3>2. hookAudit \in Seq(HookRecords')
      BY <3>1, SeqMonotonic DEF HookIInv, HookTypeOK
    <3> QED  BY <3>1, <3>2, <1>1
  <2>2. \A h \in Hooks : hookStale'[h] \subseteq AuditRows'
    BY <1>3, <1>4 DEF HookIInv, HookTypeOK
  <2>3. hookStale' \in [Hooks -> SUBSET AuditRows']
    BY <2>2 DEF HookAuditInsert
  <2>4. \A S : S \subseteq AuditRows => S \subseteq AuditRows'
    BY <1>4
  <2>5. \A f : f \in [Hooks -> SUBSET AuditRows] => f \in [Hooks -> SUBSET AuditRows']
    BY <2>4
  <2>6. /\ hookLetters \in [Hooks -> SUBSET AuditRows'] /\ hookBatch \in [Hooks -> SUBSET AuditRows']
        /\ hookLeft \in [Hooks -> SUBSET AuditRows'] /\ hookDelivered \in [Hooks -> SUBSET AuditRows']
    BY <2>5, Zenon DEF HookIInv, HookTypeOK
  <2>7. /\ hookClock \in Nat /\ hookRow \in [Hooks -> {"none", "enabled", "disabled", "deleted"}]
        /\ hookCursor \in [Hooks -> Nat] /\ hookUpTo \in [Hooks -> Nat]
        /\ hookPc \in [Hooks -> {"off", "read", "post", "write"}]
    BY Zenon DEF HookIInv, HookTypeOK
  <2> QED  BY <2>1, <2>3, <2>6, <2>7, <1>1, <1>2, Zenon DEF HookTypeOK
<1> SUFFICES ASSUME NEW h \in Hooks PROVE HookGood(h)'
  BY <1>6 DEF HookIInv
<1>7. HookGood(h)
  BY DEF HookIInv
<1>8. n \notin hookStale'[h] =>
         ~(t <= hookCursor[h]) /\ \A e \in hookBatch[h] : ~(t <= At(e))
  <2>1. HookTypeOK /\ hookCursor[h] \in Nat /\ hookBatch[h] \in SUBSET AuditRows
    BY DEF HookIInv, HookTypeOK
  <2>2. /\ Latest(hookBatch[h], hookCursor[h]) \in Nat
        /\ hookCursor[h] <= Latest(hookBatch[h], hookCursor[h])
        /\ \A e \in hookBatch[h] : At(e) <= Latest(hookBatch[h], hookCursor[h]) /\ At(e) \in Nat
    BY <2>1, LatestBounds, TimesAreNat
  <2> QED  BY <2>1, <2>2, <1>1, <1>3
<1>9. HookTaskInv(h)'
  BY <1>2, <1>4, <1>5, <1>7 DEF HookGood, HookTaskInv
<1>10. HookBatchInv(h)'
  <2> SUFFICES ASSUME NEW f \in AuditRows' \ (hookBatch'[h] \cup hookStale'[h]),
                      NEW e \in hookBatch'[h], At(f)' > hookCursor'[h], At(f)' <= At(e)'
               PROVE  SharesTime(f)'
    BY DEF HookBatchInv
  <2>1. f # n
    BY <1>2, <1>4, <1>5, <1>8
  <2>2. f \in AuditRows \ (hookBatch[h] \cup hookStale[h]) /\ At(f) > hookCursor[h] /\ At(f) <= At(e)
    BY <2>1, <1>2, <1>3, <1>4, <1>5
  <2>3. SharesTime(f)
    BY <2>2, <1>2, <1>7 DEF HookGood, HookBatchInv
  <2> QED  BY <2>2, <2>3, <1>4
<1>11. HookUpToInv(h)'
  BY <1>2, <1>4, <1>5, <1>7 DEF HookGood, HookUpToInv
<1>12. HookLossOK(h)'
  <2> SUFFICES ASSUME NEW e \in AuditRows', At(e)' <= hookCursor'[h], Wanted(h, e)',
                      e \notin Accounted(h)', e \notin hookStale'[h]
               PROVE  SharesTime(e)'
    BY DEF HookLossOK, Passed
  <2>1. e # n
    <3>1. hookCursor[h]' = hookCursor[h] /\ At(n)' = t
      BY <1>2, <1>4
    <3>2. ~(At(n)' <= hookCursor[h]') \/ n \in hookStale'[h]
      BY <3>1, <1>8
    <3> QED  BY <3>2
  <2>2. e \in AuditRows /\ At(e) <= hookCursor[h] /\ Wanted(h, e) /\ e \notin Accounted(h)
        /\ e \notin hookStale[h]
    BY <2>1, <1>2, <1>3, <1>4 DEF Accounted
  <2>3. SharesTime(e)
    BY <2>2, <1>7 DEF HookGood, HookLossOK, Passed
  <2> QED  BY <2>2, <2>3, <1>4
<1> QED  BY <1>9, <1>10, <1>11, <1>12 DEF HookGood

(* A hook whose row, cursor and task nobody touches. *)
LEMMA HookStays ==
    ASSUME NEW h \in Hooks, HookGood(h), hookAudit' = hookAudit,
           hookRow'[h] = hookRow[h], hookCursor'[h] = hookCursor[h], hookPc'[h] = hookPc[h],
           hookBatch'[h] = hookBatch[h], hookLeft'[h] = hookLeft[h], hookUpTo'[h] = hookUpTo[h],
           hookLetters'[h] = hookLetters[h], hookDelivered'[h] = hookDelivered[h],
           hookStale'[h] = hookStale[h]
    PROVE  HookGood(h)'
<1>1. HookTaskInv(h)'
  BY SameLog DEF HookGood, HookTaskInv
<1>2. HookBatchInv(h)'
  BY SameLog DEF HookGood, HookBatchInv
<1>3. HookUpToInv(h)'
  BY SameLog DEF HookGood, HookUpToInv
<1>4. HookLossOK(h)'
  BY SameLog DEF HookGood, HookLossOK, Passed, Accounted
<1> QED  BY <1>1, <1>2, <1>3, <1>4 DEF HookGood

(* A task that ends without moving the cursor, whatever letters it leaves. *)
LEMMA HookTaskGone ==
    ASSUME NEW h \in Hooks, HookGood(h), hookAudit' = hookAudit, hookCursor'[h] = hookCursor[h],
           hookPc'[h] \in {"off", "read"}, hookRow'[h] = "none" => hookPc'[h] = "off",
           hookBatch'[h] = {}, hookLeft'[h] = {},
           hookLetters[h] \subseteq hookLetters'[h], hookDelivered'[h] = hookDelivered[h],
           hookStale'[h] = hookStale[h]
    PROVE  HookGood(h)'
<1>1. HookTaskInv(h)' /\ HookBatchInv(h)' /\ HookUpToInv(h)'
  BY DEF HookTaskInv, HookBatchInv, HookUpToInv
<1>2. HookLossOK(h)'
  BY SameLog DEF HookGood, HookLossOK, Passed, Accounted
<1> QED  BY <1>1, <1>2 DEF HookGood

(* The numbers of one hook.                                                *)
LEMMA HookTypes ==
    ASSUME HookTypeOK, NEW h \in Hooks
    PROVE  /\ hookCursor[h] \in Nat /\ hookUpTo[h] \in Nat
           /\ hookBatch[h] \subseteq AuditRows /\ hookLeft[h] \subseteq AuditRows
           /\ \A e \in AuditRows : At(e) \in Nat
BY TimesAreNat DEF HookTypeOK

(* The closure of a task moves the cursor past what was delivered, past what
   becomes a dead letter, and past nothing else but events of one time. *)
LEMMA CursorMoves ==
    ASSUME HookTypeOK, NEW h \in Hooks, HookGood(h), hookPc[h] = "write", CursorWrite(h), TaskEnds(h),
           UNCHANGED <<hookDelivered, hookStale>>
    PROVE  HookGood(h)' /\ hookCursor' \in [Hooks -> Nat]
<1>1. /\ hookCursor[h] \in Nat /\ hookUpTo[h] \in Nat /\ hookBatch[h] \in SUBSET AuditRows
      /\ hookLeft[h] \subseteq AuditRows /\ \A e \in AuditRows : At(e) \in Nat
  BY HookTypes
<1>2. /\ Latest(hookBatch[h], hookCursor[h]) \in Nat
      /\ \/ Latest(hookBatch[h], hookCursor[h]) = hookCursor[h]
         \/ \E g \in hookBatch[h] : At(g) = Latest(hookBatch[h], hookCursor[h])
  BY <1>1, LatestBounds
<1>3. NewCursor(h) \in Nat /\ (NewCursor(h) = hookCursor[h]
                                 \/ \E g \in hookBatch[h] : At(g) = NewCursor(h))
  BY <1>1, <1>2 DEF NewCursor, HookGood, HookUpToInv
<1>4. /\ hookAudit' = hookAudit /\ hookCursor'[h] = NewCursor(h)
      /\ hookLetters'[h] = hookLetters[h] \cup DeadLetters(h)
      /\ hookPc'[h] = "off" /\ hookBatch'[h] = {} /\ hookLeft'[h] = {}
      /\ hookCursor' \in [Hooks -> Nat]
  BY <1>3 DEF CursorWrite, TaskEnds, HookTypeOK
<1>5. HookTaskInv(h)' /\ HookBatchInv(h)' /\ HookUpToInv(h)'
  BY <1>4 DEF HookTaskInv, HookBatchInv, HookUpToInv
<1>6. ASSUME NEW e \in AuditRows, At(e) <= NewCursor(h), Wanted(h, e),
             e \notin hookDelivered[h], e \notin hookLetters[h] \cup DeadLetters(h),
             e \notin hookStale[h], At(e) > hookCursor[h]
      PROVE  SharesTime(e)
  <2>1. PICK g \in hookBatch[h] : At(e) <= At(g)
    BY <1>1, <1>3, <1>6
  <2>2. CASE e \notin hookBatch[h]
    BY <1>6, <2>1, <2>2 DEF HookGood, HookBatchInv
  <2>3. CASE e \in hookBatch[h]
    <3>1. e \in hookLeft[h] /\ hookUpTo[h] <= At(e)
      BY <1>6, <2>3 DEF HookGood, HookTaskInv, HookUpToInv
    <3>2. At(e) = hookUpTo[h]
      BY <1>1, <1>6, <2>3, <3>1 DEF DeadLetters, NewCursor
    <3>3. PICK f \in hookBatch[h] \ hookLeft[h] : At(f) = hookUpTo[h]
      BY <1>1, <1>6, <3>2 DEF HookGood, HookUpToInv
    <3> QED  BY <1>1, <3>1, <3>2, <3>3 DEF SharesTime
  <2> QED  BY <2>2, <2>3
<1>7. HookLossOK(h)'
  <2> SUFFICES ASSUME NEW e \in AuditRows, At(e) <= NewCursor(h), Wanted(h, e),
                      e \notin hookDelivered[h], e \notin hookLetters[h] \cup DeadLetters(h),
                      e \notin hookStale[h]
               PROVE  SharesTime(e)
    BY <1>4, SameLog DEF HookLossOK, Passed, Accounted
  <2>1. CASE At(e) <= hookCursor[h]
    BY <2>1 DEF HookGood, HookLossOK, Passed, Accounted
  <2>2. CASE At(e) > hookCursor[h]
    BY <1>6, <2>2
  <2> QED  BY <2>1, <2>2, <1>1
<1> QED  BY <1>4, <1>5, <1>7 DEF HookGood

(* A task reads the oldest events behind its cursor.                       *)
LEMMA HookReadStep ==
    ASSUME HookTypeOK, NEW h \in Hooks, HookGood(h), hookPc[h] = "read",
           UNCHANGED <<hookAudit, hookRow, hookCursor, hookLetters, hookDelivered, hookStale>>,
           NEW batch \in SUBSET Pending(h), FirstOf(Pending(h), batch),
           hookBatch'[h] = batch, hookLeft'[h] = batch, hookUpTo'[h] = hookCursor[h],
           hookPc'[h] = "post"
    PROVE  HookGood(h)'
<1>1. /\ hookCursor[h] \in Nat /\ \A e \in AuditRows : At(e) \in Nat
      /\ \A e \in batch : e \in AuditRows /\ At(e) > hookCursor[h]
  BY HookTypes DEF Pending
<1>2. HookTaskInv(h)'
  BY <1>1, SameLog DEF HookGood, HookTaskInv
<1>3. HookBatchInv(h)'
  <2> SUFFICES ASSUME NEW f \in AuditRows, f \notin batch, At(f) > hookCursor[h],
                      NEW e \in batch, At(f) <= At(e)
               PROVE  SharesTime(f)
    BY SameLog DEF HookBatchInv
  <2>1. At(e) <= At(f)
    BY DEF FirstOf, Pending
  <2> QED  BY <1>1, <2>1 DEF SharesTime
<1>4. HookUpToInv(h)'
  BY <1>1, SameLog DEF HookUpToInv
<1>5. HookLossOK(h)'
  BY SameLog DEF HookGood, HookLossOK, Passed, Accounted
<1> QED  BY <1>2, <1>3, <1>4, <1>5 DEF HookGood

(* One event is accepted, passed over or refused.                          *)
LEMMA HookPostStep ==
    ASSUME HookTypeOK, NEW h \in Hooks, HookGood(h), NEW e \in hookLeft[h], NEW accepted \in BOOLEAN,
           PostSigned(h, e, accepted)
    PROVE  HookGood(h)' /\ hookUpTo' \in [Hooks -> Nat]
<1>1. /\ hookCursor[h] \in Nat /\ hookUpTo[h] \in Nat /\ \A x \in AuditRows : At(x) \in Nat
      /\ hookBatch[h] \subseteq AuditRows /\ hookLeft[h] \subseteq AuditRows
      /\ hookLeft[h] \subseteq hookBatch[h]
  BY HookTypes DEF HookGood, HookTaskInv
<1>2. /\ hookPc[h] = "post" /\ hookUpTo[h] <= At(e) /\ \A x \in hookLeft[h] : At(e) <= At(x)
      /\ \A x \in hookBatch[h] \ hookLeft[h] : At(x) <= hookUpTo[h]
  BY DEF PostSigned, HookGood, HookUpToInv
<1>3. Latest({e}, hookUpTo[h]) = At(e)
  <2>1. {e} \in SUBSET AuditRows
    BY <1>1
  <2>2. /\ At(e) <= Latest({e}, hookUpTo[h])
        /\ Latest({e}, hookUpTo[h]) = hookUpTo[h] \/ At(e) = Latest({e}, hookUpTo[h])
    BY <1>1, <2>1, LatestBounds
  <2> QED  BY <1>1, <1>2, <2>2
<1>4. /\ hookAudit' = hookAudit /\ UNCHANGED <<hookRow, hookCursor, hookLetters, hookBatch, hookStale>>
      /\ hookDelivered'[h] = IF accepted /\ Wanted(h, e) THEN hookDelivered[h] \cup {e}
                                                         ELSE hookDelivered[h]
  BY DEF PostSigned, hookStore, HookTypeOK
<1>5. CASE accepted \/ ~Wanted(h, e)
  <2>1. /\ hookLeft'[h] = hookLeft[h] \ {e} /\ hookUpTo'[h] = At(e)
        /\ hookPc'[h] \in {"post", "write"} /\ hookUpTo' \in [Hooks -> Nat]
    <3>1. /\ hookLeft' = [hookLeft EXCEPT ![h] = @ \ {e}]
          /\ hookUpTo' = [hookUpTo EXCEPT ![h] = Latest({e}, @)]
          /\ hookPc' = [hookPc EXCEPT ![h] = IF hookLeft[h] = {e} THEN "write" ELSE "post"]
      BY <1>5, Zenon DEF PostSigned
    <3>2. hookUpTo' = [hookUpTo EXCEPT ![h] = At(e)]
      BY <1>3, <3>1
    <3>3. At(e) \in Nat
      BY <1>1
    <3> QED  BY <3>1, <3>2, <3>3 DEF HookTypeOK
  <2>2. HookTaskInv(h)'
    BY <1>2, <1>4, <1>5, <2>1, SameLog DEF HookGood, HookTaskInv
  <2>3. HookUpToInv(h)'
    <3> SUFFICES /\ \E g \in hookBatch[h] \ (hookLeft[h] \ {e}) : At(g) = At(e)
                 /\ \A x \in hookBatch[h] \ (hookLeft[h] \ {e}) : At(x) <= At(e)
                 /\ \A x \in hookLeft[h] \ {e} : At(e) <= At(x)
      BY <1>4, <2>1, SameLog DEF HookUpToInv
    <3> QED  BY <1>1, <1>2
  <2>4. HookBatchInv(h)'
    BY <1>4, SameLog DEF HookGood, HookBatchInv
  <2>5. hookDelivered[h] \subseteq hookDelivered'[h]
    BY <1>4
  <2>6. HookLossOK(h)'
    BY <1>4, <2>5, SameLog DEF HookGood, HookLossOK, Passed, Accounted
  <2> QED  BY <2>1, <2>2, <2>3, <2>4, <2>6 DEF HookGood
<1>6. CASE ~accepted /\ Wanted(h, e)
  <2>1. /\ hookLeft' = hookLeft /\ hookUpTo' = hookUpTo /\ hookPc'[h] = "write"
        /\ hookDelivered'[h] = hookDelivered[h]
    BY <1>4, <1>6 DEF PostSigned, HookTypeOK
  <2> QED  BY <1>2, <1>4, <2>1, SameLog DEF HookGood, HookTaskInv, HookBatchInv, HookUpToInv, HookLossOK, Passed,
              Accounted, HookTypeOK
<1> QED  BY <1>5, <1>6

(* Types stay when the log does and the parts that change have theirs.     *)
LEMMA HookTypesStay ==
    ASSUME HookTypeOK, UNCHANGED <<hookClock, hookAudit>>,
           hookRow' \in [Hooks -> {"none", "enabled", "disabled", "deleted"}],
           hookCursor' \in [Hooks -> Nat], hookUpTo' \in [Hooks -> Nat],
           hookPc' \in [Hooks -> {"off", "read", "post", "write"}],
           hookLetters' \in [Hooks -> SUBSET AuditRows],
           hookBatch' \in [Hooks -> SUBSET AuditRows],
           hookLeft' \in [Hooks -> SUBSET AuditRows],
           hookDelivered' \in [Hooks -> SUBSET AuditRows],
           hookStale' \in [Hooks -> SUBSET AuditRows]
    PROVE  HookTypeOK'
<1>1. AuditRows' = AuditRows /\ HookRecords' = HookRecords
  BY DEF AuditRows, HookRecords
<1> QED  BY <1>1, Zenon DEF HookTypeOK

(* The handlers' writes to a row.                                          *)
LEMMA HookRowStep ==
    ASSUME HookIInv, NEW h \in Hooks,
           \/ HookCreate(h) \/ HookDelete(h)
           \/ \E flag \in {"enabled", "disabled"} : HookSetEnabled(h, flag)
    PROVE  HookIInv'
<1>1. /\ UNCHANGED <<hookClock, hookAudit, hookLetters, hookPc, hookBatch, hookLeft, hookUpTo,
                     hookDelivered>>
      /\ \A g \in Hooks : g # h =>
           hookRow'[g] = hookRow[g] /\ hookCursor'[g] = hookCursor[g] /\ hookStale'[g] = hookStale[g]
      /\ hookRow' \in [Hooks -> {"none", "enabled", "disabled", "deleted"}]
      /\ hookCursor' \in [Hooks -> Nat] /\ hookStale' \in [Hooks -> SUBSET AuditRows]
      /\ hookRow'[h] # "none"
  <2>1. {e \in AuditRows : At(e) <= hookClock} \in SUBSET AuditRows
    OBVIOUS
  <2> HIDE DEF At, AuditRows
  <2>2. CASE HookCreate(h)
    BY <2>1, <2>2 DEF HookCreate, HookIInv, HookTypeOK, hookTask
  <2>3. CASE HookDelete(h) \/ \E flag \in {"enabled", "disabled"} : HookSetEnabled(h, flag)
    <3>1. /\ UNCHANGED <<hookClock, hookAudit, hookLetters, hookPc, hookBatch, hookLeft, hookUpTo,
                         hookDelivered, hookCursor, hookStale>>
          /\ \E flag \in {"deleted", "enabled", "disabled"} : hookRow' = [hookRow EXCEPT ![h] = flag]
      BY <2>3 DEF HookDelete, HookSetEnabled, hookTask
    <3> QED  BY <3>1 DEF HookIInv, HookTypeOK
  <2> QED  BY <2>2, <2>3
<1>2. HookTypeOK'
  BY <1>1, HookTypesStay DEF HookIInv, HookTypeOK
<1>3. ASSUME NEW g \in Hooks, g # h PROVE HookGood(g)'
  BY <1>1, <1>3, HookStays DEF HookIInv
<1>4. CASE HookCreate(h)
  <2>1. /\ hookRow[h] = "none" /\ hookCursor'[h] = hookClock
        /\ hookStale'[h] = {e \in AuditRows : At(e) <= hookClock}
    BY <1>4 DEF HookCreate, HookIInv, HookTypeOK
  <2>2. hookPc[h] = "off" /\ hookBatch[h] = {} /\ hookLeft[h] = {}
    BY <2>1 DEF HookIInv, HookGood, HookTaskInv
  <2>3. HookTaskInv(h)' /\ HookBatchInv(h)' /\ HookUpToInv(h)'
    BY <1>1, <2>2 DEF HookTaskInv, HookBatchInv, HookUpToInv
  <2>4. HookLossOK(h)'
    BY <1>1, <2>1, SameLog DEF HookLossOK, Passed
  <2>5. HookGood(h)'
    BY <2>3, <2>4 DEF HookGood
  <2> QED  BY <1>2, <1>3, <2>5 DEF HookIInv
<1>5. CASE ~HookCreate(h)
  <2>1. UNCHANGED <<hookCursor, hookStale>> /\ hookRow[h] # "none"
    BY <1>5 DEF HookDelete, HookSetEnabled
  <2>2. HookTaskInv(h)' /\ HookBatchInv(h)' /\ HookUpToInv(h)' /\ HookLossOK(h)'
    BY <1>1, <2>1, SameLog DEF HookIInv, HookGood, HookTaskInv, HookBatchInv, HookUpToInv, HookLossOK, Passed,
       Accounted
  <2> QED  BY <1>2, <1>3, <2>2 DEF HookIInv, HookGood
<1> QED  BY <1>4, <1>5

(* A tick starts tasks, a crash ends them: no batch is in hand.            *)
LEMMA HookTickStep ==
    ASSUME HookIInv, DispatchPending \/ HookCrash
    PROVE  HookIInv'
<1>1. /\ UNCHANGED <<hookClock, hookAudit, hookRow, hookCursor, hookLetters, hookDelivered, hookStale>>
      /\ \A h \in Hooks : /\ hookPc'[h] \in {"off", "read"}
                          /\ hookRow[h] = "none" => hookPc'[h] = "off"
                          /\ hookBatch'[h] = {} /\ hookLeft'[h] = {}
      /\ hookPc' \in [Hooks -> {"off", "read", "post", "write"}]
      /\ hookBatch' \in [Hooks -> SUBSET AuditRows] /\ hookLeft' \in [Hooks -> SUBSET AuditRows]
      /\ hookUpTo' \in [Hooks -> Nat]
  <2>1. CASE DispatchPending
    <3>1. \A h \in Hooks : hookPc[h] = "off" /\ hookBatch[h] = {} /\ hookLeft[h] = {}
      BY <2>1 DEF DispatchPending, HookIInv, HookGood, HookTaskInv
    <3> QED  BY <2>1, <3>1 DEF DispatchPending, hookStore, HookIInv, HookTypeOK
  <2>2. CASE HookCrash
    BY <2>2 DEF HookCrash, HookIInv, HookTypeOK
  <2> QED  BY <2>1, <2>2
<1>2. HookTypeOK'
  BY <1>1, HookTypesStay DEF HookIInv, HookTypeOK
<1>3. ASSUME NEW h \in Hooks PROVE HookGood(h)'
  BY <1>1, HookTaskGone DEF HookIInv
<1> QED  BY <1>2, <1>3 DEF HookIInv

(* The steps of one hook's task.                                           *)
LEMMA HookTaskStep ==
    ASSUME HookIInv, NEW h \in Hooks,
           \/ DispatchRead(h) \/ DispatchWrite(h) \/ DispatchLost(h)
           \/ \E e \in hookLeft[h], accepted \in BOOLEAN : PostSigned(h, e, accepted)
    PROVE  HookIInv'
<1>1. HookTypeOK /\ HookGood(h)
  BY DEF HookIInv
<1>2. /\ UNCHANGED <<hookClock, hookAudit, hookRow, hookStale>>
      /\ \A g \in Hooks : g # h =>
           /\ hookCursor'[g] = hookCursor[g] /\ hookPc'[g] = hookPc[g] /\ hookBatch'[g] = hookBatch[g]
           /\ hookLeft'[g] = hookLeft[g] /\ hookUpTo'[g] = hookUpTo[g]
           /\ hookLetters'[g] = hookLetters[g] /\ hookDelivered'[g] = hookDelivered[g]
  <2> USE <1>1 DEF HookTypeOK
  <2>1. CASE DispatchRead(h)
    BY <2>1 DEF DispatchRead, TaskEnds, hookStore
  <2>2. CASE DispatchWrite(h)
    BY <2>2 DEF DispatchWrite, CursorWrite, TaskEnds
  <2>3. CASE DispatchLost(h)
    BY <2>3 DEF DispatchLost, CursorWrite, TaskEnds, hookStore
  <2>4. CASE \E e \in hookLeft[h], accepted \in BOOLEAN : PostSigned(h, e, accepted)
    BY <2>4 DEF PostSigned, hookStore
  <2> QED  BY <2>1, <2>2, <2>3, <2>4
<1>3. ASSUME NEW g \in Hooks, g # h PROVE HookGood(g)'
  BY <1>2, <1>3, HookStays DEF HookIInv
<1>4. ASSUME TaskEnds(h)
      PROVE  /\ hookPc'[h] = "off" /\ hookBatch'[h] = {} /\ hookLeft'[h] = {}
             /\ hookPc' \in [Hooks -> {"off", "read", "post", "write"}]
             /\ hookBatch' \in [Hooks -> SUBSET AuditRows] /\ hookLeft' \in [Hooks -> SUBSET AuditRows]
             /\ hookUpTo' \in [Hooks -> Nat]
  BY <1>1, <1>4 DEF TaskEnds, HookTypeOK
<1>5. DeadLetters(h) \in SUBSET AuditRows
  BY <1>1 DEF DeadLetters, HookTypeOK
<1>6. CASE DispatchRead(h)
  <2>1. hookPc[h] = "read" /\ UNCHANGED <<hookCursor, hookLetters, hookDelivered>>
    BY <1>6 DEF DispatchRead, hookStore
  <2>2. CASE TaskEnds(h)
    <3>1. HookGood(h)'
      BY <1>1, <1>2, <1>4, <2>1, <2>2, HookTaskGone
    <3>2. HookTypeOK'
      BY <1>1, <1>2, <1>4, <2>1, <2>2, HookTypesStay DEF HookTypeOK
    <3> QED  BY <1>3, <3>1, <3>2 DEF HookIInv
  <2>3. CASE ~TaskEnds(h)
    <3>1. PICK batch \in SUBSET Pending(h) :
            /\ FirstOf(Pending(h), batch)
            /\ hookBatch' = [hookBatch EXCEPT ![h] = batch]
            /\ hookLeft' = [hookLeft EXCEPT ![h] = batch]
      BY <1>6, <2>3 DEF DispatchRead
    <3>2. /\ hookUpTo' = [hookUpTo EXCEPT ![h] = hookCursor[h]]
          /\ hookPc' = [hookPc EXCEPT ![h] = "post"]
      BY <1>6, <2>3 DEF DispatchRead
    <3>3. batch \in SUBSET AuditRows
      BY DEF Pending
    <3>4. /\ hookBatch' \in [Hooks -> SUBSET AuditRows] /\ hookLeft' \in [Hooks -> SUBSET AuditRows]
          /\ hookUpTo' \in [Hooks -> Nat] /\ hookPc' \in [Hooks -> {"off", "read", "post", "write"}]
          /\ hookBatch'[h] = batch /\ hookLeft'[h] = batch /\ hookUpTo'[h] = hookCursor[h]
          /\ hookPc'[h] = "post"
      BY <1>1, <3>1, <3>2, <3>3 DEF HookTypeOK
    <3>5. HookGood(h)'
      BY <1>1, <1>2, <2>1, <3>1, <3>4, HookReadStep
    <3>6. HookTypeOK'
      BY <1>1, <1>2, <2>1, <3>4, HookTypesStay DEF HookTypeOK
    <3> QED  BY <1>3, <3>5, <3>6 DEF HookIInv
  <2> QED  BY <2>2, <2>3
<1>7. CASE hookPc[h] = "write" /\ CursorWrite(h) /\ TaskEnds(h) /\ UNCHANGED hookDelivered
  <2>1. HookGood(h)' /\ hookCursor' \in [Hooks -> Nat]
    BY <1>1, <1>2, <1>7, CursorMoves
  <2>2. hookLetters' \in [Hooks -> SUBSET AuditRows]
    BY <1>1, <1>5, <1>7 DEF CursorWrite, HookTypeOK
  <2>3. HookTypeOK'
    BY <1>1, <1>2, <1>4, <1>7, <2>1, <2>2, HookTypesStay DEF HookTypeOK
  <2> QED  BY <1>3, <2>1, <2>3 DEF HookIInv
<1>8. CASE DispatchLost(h) /\ ~(hookPc[h] = "write" /\ CursorWrite(h))
  <2>1. /\ TaskEnds(h) /\ UNCHANGED <<hookCursor, hookDelivered>>
        /\ \/ hookLetters' = hookLetters
           \/ hookLetters' = [hookLetters EXCEPT ![h] = @ \cup DeadLetters(h)]
    BY <1>8 DEF DispatchLost, hookStore
  <2>2. hookLetters' \in [Hooks -> SUBSET AuditRows] /\ hookLetters[h] \subseteq hookLetters'[h]
    <3>1. hookLetters \in [Hooks -> SUBSET AuditRows]
      BY <1>1 DEF HookTypeOK
    <3> QED  BY <1>1, <1>5, <2>1, <3>1
  <2>3. HookGood(h)'
    BY <1>1, <1>2, <1>4, <2>1, <2>2, HookTaskGone
  <2>4. HookTypeOK'
    BY <1>1, <1>2, <1>4, <2>1, <2>2, HookTypesStay DEF HookTypeOK
  <2> QED  BY <1>3, <2>3, <2>4 DEF HookIInv
<1>9. ASSUME NEW e \in hookLeft[h], NEW accepted \in BOOLEAN, PostSigned(h, e, accepted)
      PROVE  HookIInv'
  <2>1. HookGood(h)' /\ hookUpTo' \in [Hooks -> Nat]
    BY <1>1, <1>9, HookPostStep
  <2>2. /\ UNCHANGED <<hookCursor, hookLetters, hookBatch>>
        /\ hookLeft' \in [Hooks -> SUBSET AuditRows]
        /\ hookPc' \in [Hooks -> {"off", "read", "post", "write"}]
    <3>1. /\ UNCHANGED <<hookCursor, hookLetters, hookBatch>>
          /\ hookLeft' = hookLeft \/ hookLeft' = [hookLeft EXCEPT ![h] = @ \ {e}]
          /\ \E pc \in {"post", "write"} : hookPc' = [hookPc EXCEPT ![h] = pc]
      <4> DEFINE pc == IF accepted \/ ~Wanted(h, e)
                       THEN IF hookLeft[h] = {e} THEN "write" ELSE "post" ELSE "write"
      <4>1. hookPc' = [hookPc EXCEPT ![h] = pc]
        BY <1>9, Zenon DEF PostSigned
      <4>2. pc \in {"post", "write"}
        OBVIOUS
      <4>3. UNCHANGED <<hookCursor, hookLetters, hookBatch>>
        BY <1>9 DEF PostSigned, hookStore
      <4>4. hookLeft' = hookLeft \/ hookLeft' = [hookLeft EXCEPT ![h] = @ \ {e}]
        BY <1>9, Zenon DEF PostSigned
      <4> HIDE DEF pc
      <4> QED  BY <4>1, <4>2, <4>3, <4>4
    <3>2. hookLeft[h] \ {e} \in SUBSET AuditRows
      BY <1>1 DEF HookTypeOK
    <3>3. hookLeft \in [Hooks -> SUBSET AuditRows]
      BY <1>1 DEF HookTypeOK
    <3>4. hookPc \in [Hooks -> {"off", "read", "post", "write"}]
      BY <1>1 DEF HookTypeOK
    <3>5. hookLeft' \in [Hooks -> SUBSET AuditRows]
      BY <3>1, <3>2, <3>3
    <3>6. hookPc' \in [Hooks -> {"off", "read", "post", "write"}]
      BY <3>1, <3>4
    <3> QED  BY <3>1, <3>5, <3>6
  <2>3. hookDelivered' \in [Hooks -> SUBSET AuditRows]
    <3>1. e \in AuditRows
      BY <1>1 DEF HookTypeOK
    <3> QED  BY <1>1, <1>9, <3>1 DEF PostSigned, HookTypeOK
  <2>4. HookTypeOK'
    BY <1>1, <1>2, <2>1, <2>2, <2>3, HookTypesStay DEF HookTypeOK
  <2> QED  BY <1>3, <2>1, <2>4 DEF HookIInv
<1>10. DispatchWrite(h) => hookPc[h] = "write" /\ CursorWrite(h) /\ TaskEnds(h) /\ UNCHANGED hookDelivered
  BY DEF DispatchWrite
<1>11. DispatchLost(h) => TaskEnds(h) /\ UNCHANGED hookDelivered
  BY DEF DispatchLost
<1> QED  BY <1>6, <1>7, <1>8, <1>9, <1>10, <1>11

(* Every step keeps the invariant.                                         *)
LEMMA HookStep ==
    ASSUME HookIInv, [HookNext]_hookVars
    PROVE  HookIInv'
<1>1. CASE UNCHANGED hookVars
  <2>1. UNCHANGED <<hookClock, hookAudit, hookRow, hookCursor, hookLetters, hookPc, hookBatch,
                    hookLeft, hookUpTo, hookDelivered, hookStale>>
    BY <1>1 DEF hookVars, hookStore, hookTask
  <2>2. HookTypeOK'
    BY <2>1, HookTypesStay DEF HookIInv, HookTypeOK
  <2>3. ASSUME NEW h \in Hooks PROVE HookGood(h)'
    BY <2>1, HookStays DEF HookIInv
  <2> QED  BY <2>2, <2>3 DEF HookIInv
<1> QED  BY <1>1, HookInsertStep, HookRowStep, HookTickStep, HookTaskStep DEF HookNext, DispatcherStep

(* For any set of endpoints, any batch limit, any clock that is set back, any
   receivers, overruns and crashes: an event that the cursor of an endpoint has
   passed was delivered, is a dead letter, came in behind what was read, or
   shares its time with another.                                           *)
THEOREM LossAccountedAlways == HookSpec => []HookLossAccounted
<1>1. HookIInv => HookLossAccounted
  BY DEF HookIInv, HookGood, HookLossOK, HookLossAccounted, SharesTime
<1>2. HookIInv /\ [HookNext]_hookVars => HookIInv'
  BY HookStep
<1> QED  BY <1>1, <1>2, HookInitInv, PTL DEF HookSpec

(***************************************************************************)
(* The daemon's writer and its shutdown.                                   *)
(***************************************************************************)
(* The channel holds the queued envelopes, each once. *)
DaemonChannelInv ==
    /\ \A i, j \in 1 .. Len(dmChannel) : i # j => dmChannel[i] # dmChannel[j]
    /\ \A i \in 1 .. Len(dmChannel) : dmWrite[dmChannel[i]] = "queued"
    /\ \A e \in Envelopes : dmWrite[e] = "queued" => \E i \in 1 .. Len(dmChannel) : dmChannel[i] = e

(* What callers were told is true of their envelopes, and one that has not
   been answered for has a caller that was told nothing, or is gone. *)
DaemonCallerInv ==
    /\ \A e \in Envelopes :
         /\ dmCaller[e] = "ok" => dmWrite[e] = "applied"
         /\ dmWrite[e] \in {"new", "sending"} => dmCaller[e] = "none"
         /\ dmWrite[e] = "queued" => dmCaller[e] \in {"none", "gone"}
         /\ dmMain # "failed" => (dmWrite[e] = "dropped" => dmCaller[e] = "gone")

(* A task that waits for an answer holds its clone of the sender. *)
DaemonHeldInv ==
    dmMain # "failed" =>
         \A e \in Envelopes :
            dmWrite[e] \in {"sending", "queued"} /\ dmCaller[e] = "none" => dmTask[dmOwner[e]] = "run"

(* The process has stopped when nobody could send and the channel was empty. *)
DaemonEndInv == dmMain = "stopped" => dmChannel = <<>> /\ \A t \in Holders : dmTask[t] = "ended"

DaemonIInv == DaemonTypeOK /\ DaemonChannelInv /\ DaemonCallerInv /\ DaemonHeldInv /\ DaemonEndInv
-----------------------------------------------------------------------------
(* The first envelope of the channel leaves it. *)
LEMMA ChannelShrinks ==
    ASSUME DaemonTypeOK, dmChannel # <<>>, dmChannel' = Tail(dmChannel)
    PROVE  /\ Head(dmChannel) \in Envelopes /\ Head(dmChannel) = dmChannel[1]
           /\ Len(dmChannel) \in Nat \ {0}
           /\ dmChannel' \in Seq(Envelopes) /\ Len(dmChannel') = Len(dmChannel) - 1
           /\ \A i \in 1 .. Len(dmChannel') : dmChannel'[i] = dmChannel[i + 1]
BY HeadTailProperties DEF DaemonTypeOK

(* An envelope joins the channel. *)
LEMMA ChannelGrows ==
    ASSUME DaemonTypeOK, NEW e \in Envelopes, dmChannel' = Append(dmChannel, e)
    PROVE  /\ Len(dmChannel) \in Nat
           /\ dmChannel' \in Seq(Envelopes) /\ Len(dmChannel') = Len(dmChannel) + 1
           /\ dmChannel'[Len(dmChannel')] = e
           /\ \A i \in 1 .. Len(dmChannel) : dmChannel'[i] = dmChannel[i]
<1>1. dmChannel \in Seq(Envelopes) /\ Len(dmChannel) \in Nat
  BY DEF DaemonTypeOK
<1>2. /\ Append(dmChannel, e) \in Seq(Envelopes)
      /\ Len(Append(dmChannel, e)) = Len(dmChannel) + 1
      /\ \A i \in 1 .. Len(dmChannel) : Append(dmChannel, e)[i] = dmChannel[i]
      /\ Append(dmChannel, e)[Len(dmChannel) + 1] = e
  BY <1>1, AppendProperties
<1> QED  BY <1>1, <1>2, Zenon

(* Nothing is written at the start. *)
LEMMA DaemonInitInv == DaemonInit => DaemonIInv
<1> SUFFICES ASSUME DaemonInit PROVE DaemonIInv
  OBVIOUS
<1> USE DaemonAssumption
<1>1. DaemonTypeOK
  <2>1. dmChannel \in Seq(Envelopes)
    BY EmptySeq DEF DaemonInit
  <2>2. dmTask \in [Holders -> {"run", "ended", "failed"}]
    BY DEF DaemonInit
  <2>3. dmWrite \in [Envelopes -> {"new", "sending", "queued", "applied", "failed", "dropped"}]
    BY DEF DaemonInit
  <2>4. dmCaller \in [Envelopes -> {"none", "ok", "err", "gone"}]
    BY DEF DaemonInit
  <2>5. dmFatals \in 0 .. DaemonMaxFatal
    BY DEF DaemonInit
  <2> QED  BY <2>1, <2>2, <2>3, <2>4, <2>5 DEF DaemonInit, DaemonTypeOK
<1>2. Len(dmChannel) = 0 /\ \A e \in Envelopes : dmWrite[e] = "new" /\ dmCaller[e] = "none"
  BY DEF DaemonInit
<1>3. DaemonChannelInv
  BY <1>2 DEF DaemonChannelInv
<1>4. DaemonCallerInv /\ DaemonHeldInv /\ DaemonEndInv
  BY <1>2 DEF DaemonInit, DaemonCallerInv, DaemonHeldInv, DaemonEndInv
<1> QED  BY <1>1, <1>3, <1>4 DEF DaemonIInv

(* A caller's step changes what becomes of one envelope, and not the channel. *)
LEMMA DaemonBeginStep ==
    ASSUME DaemonIInv, NEW e \in Envelopes, BeginWrite(e) \/ ClientGone(e)
    PROVE  DaemonIInv'
<1> USE DEF DaemonIInv, Alive, dmLife
<1>1. UNCHANGED <<dmMain, dmSignalled, dmTask, dmOwner, dmChannel, dmConn, dmFatals>>
  BY DEF BeginWrite, ClientGone
<1>2. /\ \/ /\ dmWrite[e] = "new" /\ dmTask[dmOwner[e]] = "run"
            /\ dmWrite' = [dmWrite EXCEPT ![e] = "sending"] /\ dmCaller' = dmCaller
         \/ /\ dmWrite[e] = "sending" /\ dmWrite' = [dmWrite EXCEPT ![e] = "dropped"]
            /\ dmCaller' = [dmCaller EXCEPT ![e] = "gone"]
         \/ /\ dmWrite[e] = "queued" /\ dmWrite' = dmWrite
            /\ dmCaller' = [dmCaller EXCEPT ![e] = "gone"]
      /\ dmMain \notin {"stopped", "failed"}
  BY DEF BeginWrite, ClientGone, DaemonTypeOK
<1>3. DaemonTypeOK'
  BY <1>1, <1>2 DEF DaemonTypeOK
<1>4. DaemonChannelInv'
  BY <1>1, <1>2 DEF DaemonChannelInv, DaemonTypeOK
<1>5. DaemonCallerInv' /\ DaemonHeldInv' /\ DaemonEndInv'
  BY <1>1, <1>2 DEF DaemonCallerInv, DaemonHeldInv, DaemonEndInv, DaemonTypeOK
<1> QED  BY <1>3, <1>4, <1>5

(* A sender that found room has its envelope in the channel. *)
LEMMA DaemonSendStep ==
    ASSUME DaemonIInv, NEW e \in Envelopes, SendEnvelope(e)
    PROVE  DaemonIInv'
<1> USE DEF DaemonIInv, Alive, dmLife
<1>1. /\ UNCHANGED <<dmMain, dmSignalled, dmTask, dmOwner, dmCaller, dmConn, dmFatals>>
      /\ dmWrite[e] = "sending" /\ dmWrite' = [dmWrite EXCEPT ![e] = "queued"]
      /\ dmChannel' = Append(dmChannel, e) /\ dmMain \notin {"stopped", "failed"}
  BY DEF SendEnvelope
<1>2. /\ Len(dmChannel) \in Nat /\ dmChannel' \in Seq(Envelopes)
      /\ Len(dmChannel') = Len(dmChannel) + 1 /\ dmChannel'[Len(dmChannel')] = e
      /\ \A i \in 1 .. Len(dmChannel) : dmChannel'[i] = dmChannel[i] /\ dmChannel[i] \in Envelopes
  BY <1>1, ChannelGrows, ElementOfSeq DEF DaemonTypeOK
<1>3. DaemonTypeOK'
  BY <1>1, <1>2 DEF DaemonTypeOK
<1>4. DaemonChannelInv'
  <2>1. \A i \in 1 .. Len(dmChannel) : dmChannel[i] # e
    BY <1>1 DEF DaemonChannelInv
  <2>2. \A i \in 1 .. Len(dmChannel') : i \in 1 .. Len(dmChannel) \/ i = Len(dmChannel')
    BY <1>2
  <2>3. \A i, j \in 1 .. Len(dmChannel') : i # j => dmChannel'[i] # dmChannel'[j]
    BY <1>2, <2>1, <2>2 DEF DaemonChannelInv
  <2>4. \A i \in 1 .. Len(dmChannel') : dmWrite'[dmChannel'[i]] = "queued"
    BY <1>1, <1>2, <2>1, <2>2 DEF DaemonChannelInv, DaemonTypeOK
  <2>5. ASSUME NEW d \in Envelopes, dmWrite'[d] = "queued"
        PROVE  \E i \in 1 .. Len(dmChannel') : dmChannel'[i] = d
    <3>1. CASE d = e
      BY <1>2, <3>1
    <3>2. CASE d # e
      BY <1>1, <1>2, <2>5, <3>2 DEF DaemonChannelInv, DaemonTypeOK
    <3> QED  BY <3>1, <3>2
  <2> QED  BY <2>3, <2>4, <2>5 DEF DaemonChannelInv
<1>5. DaemonCallerInv' /\ DaemonHeldInv' /\ DaemonEndInv'
  BY <1>1 DEF DaemonCallerInv, DaemonHeldInv, DaemonEndInv, DaemonTypeOK
<1> QED  BY <1>3, <1>4, <1>5

(* The writer answers for the first envelope. *)
LEMMA DaemonAnswerStep ==
    ASSUME DaemonIInv, NEW result \in {"ok", "err"}, Alive, dmChannel # <<>>,
           Answer(Head(dmChannel), result), dmConn' \in {"good", "fatal"},
           dmFatals' \in 0 .. DaemonMaxFatal
    PROVE  DaemonIInv'
<1> DEFINE e == Head(dmChannel)
<1> USE DEF DaemonIInv, Alive, dmLife
<1>1. /\ UNCHANGED <<dmMain, dmSignalled, dmTask, dmOwner>> /\ dmMain \notin {"stopped", "failed"}
      /\ dmWrite' = [dmWrite EXCEPT ![e] = IF result = "ok" THEN "applied" ELSE "failed"]
      /\ dmCaller' = [dmCaller EXCEPT ![e] = IF @ = "gone" THEN @ ELSE result]
      /\ dmChannel' = Tail(dmChannel)
  BY DEF Answer
<1>2. /\ e \in Envelopes /\ e = dmChannel[1] /\ Len(dmChannel) \in Nat \ {0}
      /\ dmChannel' \in Seq(Envelopes) /\ Len(dmChannel') = Len(dmChannel) - 1
      /\ \A i \in 1 .. Len(dmChannel') : dmChannel'[i] = dmChannel[i + 1]
      /\ \A i \in 1 .. Len(dmChannel) : dmChannel[i] \in Envelopes
  BY <1>1, ChannelShrinks, ElementOfSeq DEF DaemonTypeOK
<1> HIDE DEF e
<1>3. DaemonTypeOK'
  BY <1>1, <1>2 DEF DaemonTypeOK
<1>4. DaemonChannelInv'
  <2>1. \A i \in 1 .. Len(dmChannel') : i + 1 \in 1 .. Len(dmChannel) /\ i + 1 # 1
    BY <1>2
  <2>2. \A i \in 1 .. Len(dmChannel') : dmChannel'[i] # e
    BY <1>2, <2>1 DEF DaemonChannelInv
  <2>3. \A i, j \in 1 .. Len(dmChannel') : i # j => dmChannel'[i] # dmChannel'[j]
    BY <1>2, <2>1 DEF DaemonChannelInv
  <2>4. \A i \in 1 .. Len(dmChannel') : dmWrite'[dmChannel'[i]] = "queued"
    BY <1>1, <1>2, <2>1, <2>2 DEF DaemonChannelInv, DaemonTypeOK
  <2>5. ASSUME NEW d \in Envelopes, dmWrite'[d] = "queued"
        PROVE  \E i \in 1 .. Len(dmChannel') : dmChannel'[i] = d
    <3>1. d # e /\ dmWrite[d] = "queued"
      BY <1>1, <1>2, <2>5 DEF DaemonTypeOK
    <3>2. PICK i \in 1 .. Len(dmChannel) : dmChannel[i] = d
      BY <3>1 DEF DaemonChannelInv
    <3>3. i - 1 \in 1 .. Len(dmChannel') /\ dmChannel'[i - 1] = d
      BY <1>2, <3>1, <3>2
    <3> QED  BY <3>3
  <2> QED  BY <2>3, <2>4, <2>5 DEF DaemonChannelInv
<1>5. dmWrite[e] = "queued"
  BY <1>2 DEF DaemonChannelInv
<1>6. DaemonCallerInv' /\ DaemonHeldInv' /\ DaemonEndInv'
  BY <1>1, <1>2, <1>5 DEF DaemonCallerInv, DaemonHeldInv, DaemonEndInv, DaemonTypeOK
<1> QED  BY <1>3, <1>4, <1>6

(* The writer answers in the order of the channel, whatever becomes of its
   connection. *)
LEMMA WriterKeeps ==
    ASSUME DaemonIInv, WriterStep
    PROVE  DaemonIInv'
<1> USE DaemonAssumption
<1>1. CASE ApplyBatch
  <2>1. PICK result \in {"ok", "err"} : Answer(Head(dmChannel), result)
    BY <1>1 DEF ApplyBatch
  <2> QED  BY <1>1, <2>1, DaemonAnswerStep DEF ApplyBatch, DaemonIInv, DaemonTypeOK
<1>2. ASSUME NEW rebuilt \in BOOLEAN, ApplyFatal(rebuilt) PROVE DaemonIInv'
  <2>1. dmFatals' \in 0 .. DaemonMaxFatal /\ dmConn' \in {"good", "fatal"}
    BY <1>2 DEF ApplyFatal, DaemonIInv, DaemonTypeOK
  <2> QED  BY <1>2, <2>1, DaemonAnswerStep DEF ApplyFatal
<1> QED  BY <1>1, <1>2 DEF WriterStep

(* A task gives its clone up only with nothing in flight. *)
LEMMA DaemonTaskStopStep ==
    ASSUME DaemonIInv, NEW t \in Holders, NEW how \in {"ended", "failed"},
           dmTask' = [dmTask EXCEPT ![t] = how], InFlight(t) = {}, dmMain # "stopped",
           UNCHANGED <<dmMain, dmSignalled, dmWrite, dmOwner, dmCaller, dmChannel, dmConn, dmFatals>>
    PROVE  DaemonIInv'
<1> USE DEF DaemonIInv
<1>1. DaemonTypeOK'
  BY DEF DaemonTypeOK
<1>2. DaemonChannelInv' /\ DaemonCallerInv' /\ DaemonEndInv'
  BY DEF DaemonChannelInv, DaemonCallerInv, DaemonEndInv
<1>3. DaemonHeldInv'
  BY DEF DaemonHeldInv, InFlight, DaemonTypeOK
<1> QED  BY <1>1, <1>2, <1>3

(* The stages of serve(), but for its failure. *)
LEMMA DaemonStageStep ==
    ASSUME DaemonIInv, ServersJoined \/ SupervisorsJoined \/ WriterEnds \/ ShutdownSignal
    PROVE  DaemonIInv'
<1> USE DEF DaemonIInv
<1>1. /\ UNCHANGED <<dmTask, dmWrite, dmOwner, dmCaller, dmChannel, dmConn, dmFatals>>
      /\ dmMain # "failed" /\ dmMain \in {"serving", "supervisors", "drain"}
      /\ dmMain' \in {"serving", "supervisors", "drain", "stopped"} /\ dmSignalled' \in BOOLEAN
      /\ dmMain' = "stopped" => dmChannel = <<>> /\ \A t \in Holders : dmTask[t] = "ended"
  BY DEF ServersJoined, SupervisorsJoined, WriterEnds, ShutdownSignal, DaemonTypeOK
<1>2. DaemonTypeOK'
  BY <1>1 DEF DaemonTypeOK
<1>3. DaemonChannelInv' /\ DaemonCallerInv' /\ DaemonEndInv' /\ DaemonHeldInv'
  BY <1>1 DEF DaemonChannelInv, DaemonCallerInv, DaemonEndInv, DaemonHeldInv
<1> QED  BY <1>2, <1>3

(* serve() returns early: what was under way is dropped with the process. *)
LEMMA DaemonServeFailsStep ==
    ASSUME DaemonIInv, ServeFails
    PROVE  DaemonIInv'
<1> USE DEF DaemonIInv
<1>1. /\ UNCHANGED <<dmSignalled, dmOwner, dmCaller, dmConn, dmFatals>>
      /\ dmMain' = "failed" /\ dmChannel' = <<>> /\ dmTask' = [t \in Holders |-> "ended"]
      /\ dmWrite' = [e \in Envelopes |->
                       IF dmWrite[e] \in {"sending", "queued"} THEN "dropped" ELSE dmWrite[e]]
  BY DEF ServeFails
<1>2. \A e \in Envelopes : dmWrite'[e] = IF dmWrite[e] \in {"sending", "queued"} THEN "dropped"
                                         ELSE dmWrite[e]
  BY <1>1
<1>3. DaemonTypeOK'
  BY <1>1 DEF DaemonTypeOK
<1>4. DaemonChannelInv' /\ DaemonEndInv' /\ DaemonHeldInv'
  <2>1. Len(dmChannel') = 0
    BY <1>1
  <2> QED  BY <1>1, <1>2, <2>1 DEF DaemonChannelInv, DaemonEndInv, DaemonHeldInv
<1>5. DaemonCallerInv'
  BY <1>1, <1>2 DEF DaemonCallerInv, DaemonTypeOK
<1> QED  BY <1>3, <1>4, <1>5

(* Every step keeps the invariant. *)
LEMMA DaemonStep ==
    ASSUME DaemonIInv, [DaemonNext]_dmVars
    PROVE  DaemonIInv'
<1>1. ASSUME NEW t \in Holders,
             \/ t \in Servers /\ ServerStops(t)
             \/ t \in Supervisors /\ SupervisorStops(t)
             \/ t \in RunTasks /\ RunTaskStops(t)
             \/ t \in Servers /\ ServerFails(t)
      PROVE  DaemonIInv'
  <2>1. PICK how \in {"ended", "failed"} :
          /\ dmTask' = [dmTask EXCEPT ![t] = how] /\ InFlight(t) = {} /\ dmMain # "stopped"
          /\ UNCHANGED <<dmMain, dmSignalled, dmWrite, dmOwner, dmCaller, dmChannel, dmConn, dmFatals>>
    BY <1>1 DEF ServerStops, SupervisorStops, RunTaskStops, ServerFails, EndTask,
                SweeperSignalled, QueueClosed
  <2> QED  BY <2>1, DaemonTaskStopStep
<1>2. CASE UNCHANGED dmVars
  <2>1. UNCHANGED <<dmMain, dmSignalled, dmTask, dmWrite, dmOwner, dmCaller, dmChannel, dmConn,
                    dmFatals>>
    BY <1>2 DEF dmVars
  <2> QED  BY <2>1 DEF DaemonIInv, DaemonTypeOK, DaemonChannelInv, DaemonCallerInv,
                     DaemonHeldInv, DaemonEndInv
<1>3. \A s \in Servers : s \in Holders
  BY DEF Holders
<1> QED
  BY <1>1, <1>2, <1>3, DaemonBeginStep, DaemonSendStep, WriterKeeps, DaemonStageStep, DaemonServeFailsStep
     DEF DaemonNext, TaskStep, MainStep

(* What the invariant says of a daemon that has stopped. *)
LEMMA DaemonStopTrue == DaemonIInv => CleanStopLosesNothing
<1> SUFFICES ASSUME DaemonIInv PROVE CleanStopLosesNothing
  OBVIOUS
<1>1. ASSUME dmMain = "stopped", NEW e \in Envelopes
      PROVE  dmWrite[e] \notin {"sending", "queued"}
  <2>1. dmWrite[e] # "queued"
    BY <1>1 DEF DaemonIInv, DaemonEndInv, DaemonChannelInv
  <2>2. dmTask[dmOwner[e]] = "ended"
    BY <1>1 DEF DaemonIInv, DaemonEndInv, DaemonTypeOK
  <2> QED  BY <1>1, <2>1, <2>2 DEF DaemonIInv, DaemonHeldInv, DaemonCallerInv
<1> QED  BY <1>1 DEF CleanStopLosesNothing, DaemonIInv, DaemonCallerInv

(* For any servers, supervisors, workers and batches, any capacity of the
   channel and any fatal errors of the store: a daemon that stopped cleanly has
   answered for every batch that was begun, and nobody was told "ok" for one
   that was not applied. *)
THEOREM CleanStopAlways == DaemonSpec => []CleanStopLosesNothing
<1>1. DaemonIInv /\ [DaemonNext]_dmVars => DaemonIInv'
  BY DaemonStep
<1> QED  BY <1>1, DaemonInitInv, DaemonStopTrue, PTL DEF DaemonSpec

(***************************************************************************)
(* The telemetry receivers.                                                *)
(***************************************************************************)
(* The types of the receivers' state. *)
TmRetried == {"none", "unauthorized", "error", "lost"}
TmExportRows ==
    [kind : {"spans", "logs", "metrics"}, points : TmMetrics,
     pc : {"idle", "arrived", "decode", "queued", "acked"}, port : TmPorts, remote : BOOLEAN,
     bearer : BOOLEAN, try : Nat, admitted : Nat, told : TmRetried \cup {"bad", "ok", "partial"}]
TmBatches == [of : TmExporters, try : Nat]
TmTypes ==
    /\ tmServer \in {"down", "serving", "refused"} /\ tmToken \in BOOLEAN
    /\ tmLoopback \subseteq TmPorts
    /\ tmExport \in [TmExporters -> TmExportRows]
    /\ tmQueue \in Seq(TmBatches) /\ tmDone \in Nat
    /\ tmRows \in [TmExporters -> [TmTables -> Nat]] /\ tmFaults \in Nat

(* A batch in the queue is one try of its exporter, and the first one has a
   table left to write. *)
TmQueueInv ==
    /\ \A i \in DOMAIN tmQueue : LET e == tmExport[tmQueue[i].of] IN
         /\ tmQueue[i].try \in 1 .. e.try
         /\ tmQueue[i].try = e.try => e.pc \notin {"arrived", "decode"}
    /\ \A i, j \in DOMAIN tmQueue :
         tmQueue[i].of = tmQueue[j].of /\ tmQueue[i].try = tmQueue[j].try => i = j
    /\ tmQueue = <<>> => tmDone = 0
    /\ tmQueue # <<>> => tmDone < Len(Tables(tmExport[Head(tmQueue).of].kind))

(* The tries of an export that may still add rows to a table: with the rows
   that are there they never are more than the tries that were admitted. *)
TmWritten(x, t) == \E k \in 1 .. tmDone : Tables(tmExport[x].kind)[k] = t
TmLeft(x, t) ==
    {n \in 1 .. tmExport[x].try : \E i \in DOMAIN tmQueue :
       tmQueue[i].of = x /\ tmQueue[i].try = n /\ (i = 1 => ~TmWritten(x, t))}
TmDecodes(x) == IF tmExport[x].pc = "decode" THEN 1 ELSE 0
TmRowsInv ==
    \A x \in TmExporters, t \in TmTables :
      /\ RowsFor(x, t) = 0 => tmRows[x][t] = 0
      /\ tmRows[x][t] + Cardinality(TmLeft(x, t)) + TmDecodes(x) <= tmExport[x].admitted

(* What an answer was drawn from. *)
TmStored(x, k) ==
    LET t == Tables(tmExport[x].kind)[k] IN tmRows[x][t] >= RowsFor(x, t)
TmOk(e) == e.told \in {"ok", "partial"}
TmToldInv ==
    \A x \in TmExporters : LET e == tmExport[x] IN
      /\ e.admitted <= e.try /\ (e.pc = "arrived" => e.admitted < e.try)
      /\ e.pc # "idle" => e.told \in TmRetried
      /\ e.pc = "acked" \/ TmOk(e) => \A k \in DOMAIN Tables(e.kind) : TmStored(x, k)
      /\ tmQueue # <<>> /\ Head(tmQueue).of = x => \A k \in 1 .. tmDone : TmStored(x, k)
      /\ TmOk(e) => (e.told = "partial" <=> Rejected(x) > 0)
      /\ e.remote /\ ~tmToken => e.try = 0
TmServes == tmServer = "serving" => ensure_ingest_auth

TmIInv == TmTypes /\ TmServes /\ TmQueueInv /\ TmRowsInv /\ TmToldInv
-----------------------------------------------------------------------------
(* How many tries there are in a set of them. *)
LEMMA TmCounted ==
    ASSUME NEW m \in Nat, NEW n \in Nat, NEW S \in SUBSET (1 .. m), NEW T \in SUBSET (1 .. n)
    PROVE  /\ Cardinality(S) \in Nat /\ Cardinality(T) \in Nat
           /\ T \subseteq S => Cardinality(T) <= Cardinality(S)
           /\ \A e : T \subseteq S \cup {e} => Cardinality(T) <= Cardinality(S) + 1
           /\ \A e \in S : T \subseteq S \ {e} => Cardinality(T) + 1 <= Cardinality(S)
<1>1. IsFiniteSet(S) /\ IsFiniteSet(T)
  <2>1. IsFiniteSet(1 .. m) /\ IsFiniteSet(1 .. n)
    BY FS_Interval
  <2> QED  BY <2>1, FS_Subset
<1>2. Cardinality(S) \in Nat /\ Cardinality(T) \in Nat
  BY <1>1, FS_CardinalityType
<1>3. T \subseteq S => Cardinality(T) <= Cardinality(S)
  BY <1>1, FS_Subset
<1>4. ASSUME NEW e, T \subseteq S \cup {e} PROVE Cardinality(T) <= Cardinality(S) + 1
  <2>1. /\ IsFiniteSet(S \cup {e})
        /\ Cardinality(S \cup {e}) = IF e \in S THEN Cardinality(S) ELSE Cardinality(S) + 1
    BY <1>1, FS_AddElement
  <2>2. Cardinality(T) <= Cardinality(S \cup {e})
    BY <1>4, <2>1, FS_Subset
  <2> QED  BY <1>2, <2>1, <2>2
<1>5. ASSUME NEW e \in S, T \subseteq S \ {e} PROVE Cardinality(T) + 1 <= Cardinality(S)
  <2>1. IsFiniteSet(S \ {e}) /\ Cardinality(S \ {e}) = Cardinality(S) - 1
    BY <1>1, FS_RemoveElement
  <2>2. Cardinality(T) <= Cardinality(S \ {e})
    BY <1>5, <2>1, FS_Subset
  <2> QED  BY <1>2, <2>1, <2>2
<1> QED  BY <1>2, <1>3, <1>4, <1>5

(* The tables of a batch: at most three, each of them once. *)
LEMMA TmTablesOf ==
    ASSUME NEW kind \in {"spans", "logs", "metrics"}
    PROVE  /\ Len(Tables(kind)) \in 1 .. 3 /\ DOMAIN Tables(kind) = 1 .. Len(Tables(kind))
           /\ \A k \in DOMAIN Tables(kind) : Tables(kind)[k] \in TmTables
           /\ \A j, k \in DOMAIN Tables(kind) : Tables(kind)[j] = Tables(kind)[k] => j = k
<1>1. CASE kind = "metrics"
  <2>1. Tables(kind) = <<"sums", "gauges", "histograms">>
    BY <1>1 DEF Tables
  <2> QED  BY <2>1 DEF TmTables, Stored
<1>2. CASE kind # "metrics"
  <2>1. Tables(kind) = <<kind>> /\ kind \in {"spans", "logs"}
    BY <1>2 DEF Tables
  <2> QED  BY <2>1 DEF TmTables
<1> QED  BY <1>1, <1>2

(* An export has one row for a table or none. *)
LEMMA TmRowsFor ==
    ASSUME TmTypes, NEW x \in TmExporters, NEW t \in TmTables
    PROVE  RowsFor(x, t) \in {0, 1}
<1>1. CASE t \in {"spans", "logs"}
  BY <1>1 DEF RowsFor
<1>2. CASE t \notin {"spans", "logs"}
  <2>1. t \in Stored
    BY <1>2 DEF TmTables
  <2>2. RowsFor(x, t) = tmExport[x].points[t]
    BY <1>2, <2>1 DEF RowsFor, metrics_request_to_rows
  <2>3. tmExport[x].points \in TmMetrics
    BY DEF TmTypes, TmExportRows
  <2>4. PICK c : tmExport[x].points = TmPoints(c)
    BY <2>3 DEF TmMetrics
  <2>5. TmPoints(c)[t] \in {0, 1}
    BY <2>1 DEF TmPoints, Stored
  <2> QED  BY <2>2, <2>4, <2>5
<1> QED  BY <1>1, <1>2

(* The batches in the queue, the first and the others. *)
LEMMA TmQueued ==
    ASSUME TmTypes
    PROVE  /\ DOMAIN tmQueue = 1 .. Len(tmQueue) /\ Len(tmQueue) \in Nat
           /\ \A i \in DOMAIN tmQueue : tmQueue[i] \in TmBatches
                /\ tmQueue[i].of \in TmExporters /\ tmQueue[i].try \in Nat
           /\ tmQueue # <<>> =>
                /\ 1 \in DOMAIN tmQueue /\ Head(tmQueue) = tmQueue[1]
                /\ Head(tmQueue).of \in TmExporters
                /\ Tail(tmQueue) \in Seq(TmBatches)
                /\ Tail(tmQueue) # <<>> => 2 \in DOMAIN tmQueue /\ Head(Tail(tmQueue)) = tmQueue[2]
                /\ DOMAIN Tail(tmQueue) = 1 .. Len(tmQueue) - 1
                /\ \A i \in DOMAIN Tail(tmQueue) :
                     i + 1 \in DOMAIN tmQueue /\ Tail(tmQueue)[i] = tmQueue[i + 1]
<1>1. PICK q \in Seq(TmBatches) : q = tmQueue
  BY DEF TmTypes
<1>2. \A b \in TmBatches : b.of \in TmExporters /\ b.try \in Nat
  BY DEF TmBatches
<1>3. DOMAIN q = 1 .. Len(q) /\ Len(q) \in Nat /\ \A i \in DOMAIN q : q[i] \in TmBatches
  OBVIOUS
<1>4. ASSUME q # <<>>
      PROVE  /\ 1 \in DOMAIN q /\ Head(q) = q[1] /\ Tail(q) \in Seq(TmBatches)
             /\ Len(Tail(q)) = Len(q) - 1 /\ \A i \in 1 .. Len(Tail(q)) : Tail(q)[i] = q[i + 1]
  BY <1>3, <1>4, EmptySeq, HeadTailProperties
<1>5. ASSUME q # <<>>
      PROVE  /\ DOMAIN Tail(q) = 1 .. Len(q) - 1
             /\ \A i \in DOMAIN Tail(q) : i + 1 \in DOMAIN q /\ Tail(q)[i] = q[i + 1]
             /\ Tail(q) # <<>> => 2 \in DOMAIN q /\ Head(Tail(q)) = q[2]
  <2>1. DOMAIN Tail(q) = 1 .. Len(Tail(q)) /\ Len(Tail(q)) = Len(q) - 1
    BY <1>4, <1>5
  <2>2. \A i \in DOMAIN Tail(q) : i + 1 \in DOMAIN q /\ Tail(q)[i] = q[i + 1]
    BY <1>3, <1>4, <1>5, <2>1
  <2>3. ASSUME Tail(q) # <<>> PROVE 2 \in DOMAIN q /\ Head(Tail(q)) = q[2]
    <3>1. 1 \in DOMAIN Tail(q) /\ Head(Tail(q)) = Tail(q)[1]
      BY <1>4, <1>5, <2>1, <2>3, EmptySeq
    <3> QED  BY <2>2, <3>1
  <2> QED  BY <2>1, <2>2, <2>3
<1> QED  BY <1>1, <1>2, <1>3, <1>4, <1>5

(* A request moves in the hands of its exporter or its handler: the queue and
   the rows stay. *)
TmMoves(x, y) ==
    /\ tmExport' = [tmExport EXCEPT ![x] = y]
    /\ y.kind = tmExport[x].kind /\ y.points = tmExport[x].points
    /\ y.remote = tmExport[x].remote
    /\ y.try >= tmExport[x].try
    /\ y.try = tmExport[x].try /\ y.pc \in {"arrived", "decode"} =>
         tmExport[x].pc \in {"arrived", "decode"}
    /\ y.admitted <= y.try /\ (y.pc = "arrived" => y.admitted < y.try)
    /\ y.admitted >= tmExport[x].admitted
    /\ y.pc = "decode" /\ tmExport[x].pc # "decode" => y.admitted > tmExport[x].admitted
    /\ y.pc # "idle" => y.told \in TmRetried
    /\ y.pc = "acked" \/ TmOk(y) => tmExport[x].pc = "acked" \/ TmOk(tmExport[x])
    /\ TmOk(y) => (y.told = "partial" <=> Rejected(x) > 0)
    /\ y.remote /\ ~tmToken => y.try = 0

(* Such a move keeps the invariant. *)
LEMMA TmMovesStep ==
    ASSUME TmIInv, NEW x \in TmExporters, NEW y \in TmExportRows, TmMoves(x, y),
           UNCHANGED <<tmConfig, tmQueue, tmDone, tmRows, tmFaults>>
    PROVE  TmIInv'
<1> USE DEF tmConfig
<1>1. /\ tmExport'[x] = y /\ \A e \in TmExporters \ {x} : tmExport'[e] = tmExport[e]
      /\ tmExport' \in [TmExporters -> TmExportRows]
  BY DEF TmMoves, TmIInv, TmTypes
<1>2. \A e \in TmExporters : /\ tmExport'[e].kind = tmExport[e].kind
                             /\ tmExport'[e].points = tmExport[e].points
                             /\ tmExport'[e].remote = tmExport[e].remote
  BY <1>1 DEF TmMoves
<1>3. TmTypes' /\ TmServes'
  BY <1>1 DEF TmIInv, TmTypes, TmServes, ensure_ingest_auth
<1>4. \A i \in DOMAIN tmQueue : tmQueue[i].of \in TmExporters /\ tmQueue[i].try \in Nat
  BY TmQueued DEF TmIInv
<1>5. \A e \in TmExporters : tmExport[e].try \in Nat /\ tmExport[e].admitted \in Nat
  BY DEF TmIInv, TmTypes, TmExportRows
<1>6. y.try \in Nat /\ y.admitted \in Nat
  BY DEF TmExportRows
<1>7. TmQueueInv'
  <2>1. ASSUME NEW i \in DOMAIN tmQueue
        PROVE  /\ tmQueue[i].try \in 1 .. tmExport'[tmQueue[i].of].try
               /\ tmQueue[i].try = tmExport'[tmQueue[i].of].try =>
                    tmExport'[tmQueue[i].of].pc \notin {"arrived", "decode"}
    <3>1. CASE tmQueue[i].of = x
      BY <1>1, <1>4, <1>5, <1>6, <3>1 DEF TmIInv, TmQueueInv, TmMoves
    <3>2. CASE tmQueue[i].of # x
      BY <1>1, <1>4, <3>2 DEF TmIInv, TmQueueInv
    <3> QED  BY <3>1, <3>2
  <2>2. tmQueue # <<>> => Head(tmQueue).of \in TmExporters
    BY TmQueued DEF TmIInv
  <2> QED  BY <1>2, <2>1, <2>2 DEF TmIInv, TmQueueInv
<1>8. TmRowsInv'
  <2> SUFFICES ASSUME NEW e \in TmExporters, NEW t \in TmTables
               PROVE  /\ RowsFor(e, t)' = 0 => tmRows[e][t] = 0
                      /\ tmRows[e][t] + Cardinality(TmLeft(e, t)') + TmDecodes(e)'
                           <= tmExport'[e].admitted
    BY DEF TmRowsInv
  <2>1. RowsFor(e, t)' = RowsFor(e, t)
    BY <1>2 DEF RowsFor
  <2>2. TmLeft(e, t)' \subseteq TmLeft(e, t)
    <3>1. TmWritten(e, t)' <=> TmWritten(e, t)
      BY <1>2 DEF TmWritten
    <3>2. \A i \in DOMAIN tmQueue : tmQueue[i].of = e => tmQueue[i].try \in 1 .. tmExport[e].try
      BY DEF TmIInv, TmQueueInv
    <3> QED  BY <3>1, <3>2 DEF TmLeft
  <2>3. tmExport'[e].try \in Nat
    BY <1>1, <1>5, <1>6
  <2>4. /\ Cardinality(TmLeft(e, t)') <= Cardinality(TmLeft(e, t))
        /\ Cardinality(TmLeft(e, t)') \in Nat /\ Cardinality(TmLeft(e, t)) \in Nat
    <3>1. /\ TmLeft(e, t) \in SUBSET (1 .. tmExport[e].try)
          /\ TmLeft(e, t)' \in SUBSET (1 .. tmExport'[e].try)
      BY DEF TmLeft
    <3> QED  BY <1>5, <2>2, <2>3, <3>1, TmCounted
  <2>5. TmDecodes(e)' - tmExport'[e].admitted <= TmDecodes(e) - tmExport[e].admitted
    <3>1. CASE e = x
      BY <1>1, <1>5, <1>6, <3>1 DEF TmDecodes, TmMoves
    <3>2. CASE e # x
      BY <1>1, <1>5, <3>2 DEF TmDecodes
    <3> QED  BY <3>1, <3>2
  <2>6. tmRows[e][t] \in Nat /\ TmDecodes(e) \in Nat /\ TmDecodes(e)' \in Nat /\ tmExport'[e].admitted \in Nat
    BY <1>1, <1>5, <1>6 DEF TmIInv, TmTypes, TmDecodes
  <2>7. /\ RowsFor(e, t) = 0 => tmRows[e][t] = 0
        /\ tmRows[e][t] + Cardinality(TmLeft(e, t)) + TmDecodes(e) <= tmExport[e].admitted
    BY DEF TmIInv, TmRowsInv
  <2> QED  BY <1>5, <2>1, <2>4, <2>5, <2>6, <2>7
<1>9. TmToldInv'
  <2>1. \A e \in TmExporters, k \in Nat : TmStored(e, k)' <=> TmStored(e, k)
    BY <1>2 DEF TmStored, RowsFor
  <2>2. \A e \in TmExporters : Rejected(e)' = Rejected(e)
    BY <1>2 DEF Rejected
  <2>3. ASSUME NEW e \in TmExporters PROVE DOMAIN Tables(tmExport[e].kind) \subseteq Nat
    <3>1. tmExport[e].kind \in {"spans", "logs", "metrics"}
      BY DEF TmIInv, TmTypes, TmExportRows
    <3> QED  BY <3>1, TmTablesOf
  <2>4. \A k \in 1 .. tmDone : k \in Nat
    BY DEF TmIInv, TmTypes
  <2> SUFFICES ASSUME NEW e \in TmExporters
               PROVE  TmToldInv!(e)'
    BY DEF TmToldInv
  <2>5. CASE e = x
    BY <1>1, <1>2, <2>1, <2>2, <2>3, <2>4, <2>5 DEF TmToldInv, TmIInv, TmMoves, TmOk
  <2>6. CASE e # x
    BY <1>1, <1>2, <2>1, <2>2, <2>3, <2>4, <2>6 DEF TmToldInv, TmIInv, TmOk
  <2> QED  BY <2>5, <2>6
<1> QED  BY <1>3, <1>7, <1>8, <1>9 DEF TmIInv

(* What the writer leaves of an export: all but the state of a request that
   waited for it. *)
TmKeeps ==
    \A e \in TmExporters :
      /\ tmExport'[e].kind = tmExport[e].kind /\ tmExport'[e].points = tmExport[e].points
      /\ tmExport'[e].remote = tmExport[e].remote /\ tmExport'[e].try = tmExport[e].try
      /\ tmExport'[e].admitted = tmExport[e].admitted
      /\ tmExport'[e] = tmExport[e] \/ tmExport'[e].pc \in {"idle", "acked"}

(* What is left of the queue without its first batch. *)
LEMMA TmPopped ==
    ASSUME TmTypes, TmQueueInv, TmKeeps, tmQueue # <<>>, tmQueue' = Tail(tmQueue), tmDone' = 0
    PROVE  /\ TmQueueInv'
           /\ \A e \in TmExporters, t \in TmTables : TmLeft(e, t)' \subseteq TmLeft(e, t)
           /\ \A e \in TmExporters, t \in TmTables :
                e = Head(tmQueue).of => Head(tmQueue).try \notin TmLeft(e, t)'
<1>1. \A i \in DOMAIN tmQueue : tmQueue[i].of \in TmExporters /\ tmQueue[i].try \in Nat
  BY TmQueued
<1>2. /\ 1 \in DOMAIN tmQueue /\ Head(tmQueue) = tmQueue[1]
      /\ tmQueue' # <<>> => 2 \in DOMAIN tmQueue /\ Head(tmQueue') = tmQueue[2]
      /\ \A i \in DOMAIN tmQueue' : i + 1 \in DOMAIN tmQueue /\ tmQueue'[i] = tmQueue[i + 1]
  BY TmQueued
<1>3. \A i \in DOMAIN tmQueue' : i \in Nat \ {0}
  BY TmQueued
<1>4. TmQueueInv'
  <2>1. ASSUME NEW i \in DOMAIN tmQueue'
        PROVE  /\ tmQueue'[i].try \in 1 .. tmExport'[tmQueue'[i].of].try
               /\ tmQueue'[i].try = tmExport'[tmQueue'[i].of].try =>
                    tmExport'[tmQueue'[i].of].pc \notin {"arrived", "decode"}
    <3>1. PICK e \in TmExporters : e = tmQueue'[i].of /\ e = tmQueue[i + 1].of
      BY <1>1, <1>2
    <3>2. /\ tmQueue[i + 1].try \in 1 .. tmExport[e].try
          /\ tmQueue[i + 1].try = tmExport[e].try => tmExport[e].pc \notin {"arrived", "decode"}
      BY <1>2, <3>1 DEF TmQueueInv
    <3>3. tmExport'[e].try = tmExport[e].try
      BY DEF TmKeeps
    <3>4. tmExport'[e] = tmExport[e] \/ tmExport'[e].pc \in {"idle", "acked"}
      BY DEF TmKeeps
    <3> QED  BY <1>2, <3>1, <3>2, <3>3, <3>4
  <2>2. ASSUME NEW i \in DOMAIN tmQueue', NEW j \in DOMAIN tmQueue',
               tmQueue'[i].of = tmQueue'[j].of, tmQueue'[i].try = tmQueue'[j].try
        PROVE  i = j
    <3>1. i + 1 = j + 1
      BY <1>2, <2>2 DEF TmQueueInv
    <3> QED  BY <1>3, <3>1
  <2>3. ASSUME tmQueue' # <<>> PROVE tmDone' < Len(Tables(tmExport'[Head(tmQueue').of].kind))
    <3>1. Head(tmQueue').of \in TmExporters
      BY <1>1, <1>2, <2>3
    <3>2. /\ tmExport[Head(tmQueue').of].kind \in {"spans", "logs", "metrics"}
          /\ tmExport'[Head(tmQueue').of].kind = tmExport[Head(tmQueue').of].kind
      BY <3>1 DEF TmTypes, TmExportRows, TmKeeps
    <3>3. PICK l \in 1 .. 3 : l = Len(Tables(tmExport'[Head(tmQueue').of].kind))
      BY <3>2, TmTablesOf
    <3>4. tmDone' < l
      OBVIOUS
    <3> QED  BY <3>3, <3>4, Zenon
  <2>4. tmQueue' = <<>> => tmDone' = 0
    OBVIOUS
  <2> QED  BY <2>1, <2>2, <2>3, <2>4, Zenon DEF TmQueueInv
<1>5. ASSUME NEW e \in TmExporters, NEW t \in TmTables, NEW n \in TmLeft(e, t)'
      PROVE  n \in TmLeft(e, t) /\ (e = Head(tmQueue).of => n # Head(tmQueue).try)
  <2>1. PICK i \in DOMAIN tmQueue' : tmQueue'[i].of = e /\ tmQueue'[i].try = n
    BY <1>5 DEF TmLeft
  <2>2. /\ i + 1 \in DOMAIN tmQueue /\ tmQueue[i + 1].of = e /\ tmQueue[i + 1].try = n
        /\ i + 1 # 1
    BY <1>2, <1>3, <2>1
  <2>3. n \in 1 .. tmExport[e].try
    BY <2>2 DEF TmQueueInv
  <2>4. e = Head(tmQueue).of => n # Head(tmQueue).try
    BY <1>2, <2>2 DEF TmQueueInv
  <2> QED  BY <2>2, <2>3, <2>4 DEF TmLeft
<1> QED  BY <1>4, <1>5

(* decode hands a batch to the writer. *)
LEMMA TmHanded ==
    ASSUME TmIInv, NEW x \in TmExporters, NEW ok \in BOOLEAN, ok, decode(x, ok)
    PROVE  TmIInv'
<1> USE DEF tmConfig
<1> DEFINE b == [of |-> x, try |-> tmExport[x].try]
           y == [tmExport[x] EXCEPT !.pc = "queued"]
<1>1. /\ tmExport[x].pc = "decode" /\ tmExport' = [tmExport EXCEPT ![x] = y]
      /\ tmQueue' = Append(tmQueue, b) /\ UNCHANGED <<tmConfig, tmDone, tmRows, tmFaults>>
  BY DEF decode
<1>2. tmExport[x] \in TmExportRows
  BY DEF TmIInv, TmTypes
<1>3. /\ y \in TmExportRows /\ y.pc = "queued" /\ y.kind = tmExport[x].kind
      /\ y.points = tmExport[x].points /\ y.remote = tmExport[x].remote /\ y.told = tmExport[x].told
      /\ y.try = tmExport[x].try /\ y.admitted = tmExport[x].admitted /\ y.try \in Nat /\ y.admitted \in Nat
      /\ b \in TmBatches /\ b.of = x /\ b.try = tmExport[x].try
  BY <1>2 DEF TmExportRows, TmBatches
<1> HIDE DEF b, y
<1>4. /\ tmExport'[x] = y /\ \A e \in TmExporters \ {x} : tmExport'[e] = tmExport[e]
      /\ tmExport' \in [TmExporters -> TmExportRows]
  BY <1>1, <1>3 DEF TmIInv, TmTypes
<1>5. PICK n \in Nat : n = Len(tmQueue) + 1 /\ DOMAIN tmQueue = 1 .. n - 1
  BY TmQueued DEF TmIInv
<1>6. /\ tmQueue' \in Seq(TmBatches) /\ tmQueue' # <<>> /\ DOMAIN tmQueue' = 1 .. n
      /\ tmQueue'[n] = b /\ \A i \in DOMAIN tmQueue : tmQueue'[i] = tmQueue[i]
      /\ n \in Nat \ {0}
  <2>1. PICK q \in Seq(TmBatches) : q = tmQueue
    BY DEF TmIInv, TmTypes
  <2>2. /\ Append(q, b) \in Seq(TmBatches) /\ Append(q, b) # <<>> /\ Len(Append(q, b)) = Len(q) + 1
        /\ \A i \in 1 .. Len(q) : Append(q, b)[i] = q[i] /\ Append(q, b)[Len(q) + 1] = b
    BY <1>3, <2>1, AppendProperties
  <2> QED  BY <1>1, <1>5, <2>1, <2>2
<1>a. tmQueue'[n].of = x /\ tmQueue'[n].try = tmExport[x].try
  BY <1>3, <1>6
<1>7. \A e \in TmExporters : /\ tmExport'[e].kind = tmExport[e].kind
                             /\ tmExport'[e].points = tmExport[e].points
                             /\ tmExport'[e].remote = tmExport[e].remote
                             /\ tmExport'[e].try = tmExport[e].try
                             /\ tmExport'[e].admitted = tmExport[e].admitted
                             /\ tmExport'[e].told = tmExport[e].told
                             /\ tmExport'[e].pc \in {tmExport[e].pc, "queued"}
  BY <1>3, <1>4
<1>8. /\ \A i \in DOMAIN tmQueue : tmQueue[i].of \in TmExporters /\ tmQueue[i].try \in Nat
      /\ tmQueue # <<>> => 1 \in DOMAIN tmQueue /\ Head(tmQueue) = tmQueue[1]
  BY TmQueued DEF TmIInv
<1>9. TmTypes' /\ TmServes'
  BY <1>1, <1>4, <1>6 DEF TmIInv, TmTypes, TmServes, ensure_ingest_auth
<1>10. TmQueueInv'
  <2>1. ASSUME NEW i \in DOMAIN tmQueue'
        PROVE  /\ tmQueue'[i].of \in TmExporters
               /\ tmQueue'[i].try \in 1 .. tmExport'[tmQueue'[i].of].try
               /\ tmQueue'[i].try = tmExport'[tmQueue'[i].of].try =>
                    tmExport'[tmQueue'[i].of].pc \notin {"arrived", "decode"}
    <3>1. CASE i = n
      <4>1. tmExport[x].try \in Nat \ {0}
        <5>1. tmExport[x].admitted \in Nat /\ tmExport[x].try \in Nat
          BY <1>3
        <5>2. tmExport[x].admitted <= tmExport[x].try
          BY DEF TmIInv, TmToldInv
        <5>3. PICK t : t \in TmTables
          BY DEF TmTables
        <5>4. tmRows[x][t] + Cardinality(TmLeft(x, t)) + TmDecodes(x) <= tmExport[x].admitted
          BY <5>3 DEF TmIInv, TmRowsInv
        <5>5. Cardinality(TmLeft(x, t)) \in Nat
          <6>1. TmLeft(x, t) \in SUBSET (1 .. tmExport[x].try)
            BY DEF TmLeft
          <6> QED  BY <5>1, <6>1, TmCounted
        <5>6. tmRows[x][t] \in Nat /\ TmDecodes(x) = 1
          BY <1>1, <5>3 DEF TmIInv, TmTypes, TmDecodes
        <5> QED  BY <5>1, <5>2, <5>4, <5>5, <5>6
      <4> QED  BY <1>3, <1>4, <1>6, <3>1, <4>1
    <3>2. CASE i # n
      <4>1. i \in DOMAIN tmQueue /\ tmQueue'[i] = tmQueue[i]
        BY <1>5, <1>6, <3>2
      <4> QED  BY <1>7, <1>8, <4>1 DEF TmIInv, TmQueueInv
    <3> QED  BY <3>1, <3>2
  <2>2. ASSUME NEW i \in DOMAIN tmQueue', NEW j \in DOMAIN tmQueue',
               tmQueue'[i].of = tmQueue'[j].of, tmQueue'[i].try = tmQueue'[j].try
        PROVE  i = j
    <3>1. ASSUME NEW k \in DOMAIN tmQueue PROVE ~(tmQueue[k].of = x /\ tmQueue[k].try = tmExport[x].try)
      BY <1>1 DEF TmIInv, TmQueueInv
    <3>2. \A k \in DOMAIN tmQueue' : k # n => k \in DOMAIN tmQueue /\ tmQueue'[k] = tmQueue[k]
      BY <1>5, <1>6
    <3>3. CASE i = n
      BY <1>3, <1>6, <2>2, <3>1, <3>2, <3>3
    <3>4. CASE j = n
      BY <1>3, <1>6, <2>2, <3>1, <3>2, <3>4
    <3>5. CASE i # n /\ j # n
      BY <2>2, <3>2, <3>5 DEF TmIInv, TmQueueInv
    <3> QED  BY <3>3, <3>4, <3>5
  <2>3. tmDone' < Len(Tables(tmExport'[Head(tmQueue').of].kind))
    <3>1. CASE tmQueue = <<>>
      <4>1. PICK l \in 1 .. 3 : l = Len(Tables(tmExport'[Head(tmQueue').of].kind))
        <5>1. Head(tmQueue') = b
          BY <1>1, <1>6, <3>1
        <5>2. tmExport'[x].kind \in {"spans", "logs", "metrics"}
          BY <1>9 DEF TmTypes, TmExportRows
        <5> QED  BY <1>3, <5>1, <5>2, TmTablesOf
      <4>2. tmDone' = 0
        BY <1>1, <3>1 DEF TmIInv, TmQueueInv
      <4>3. tmDone' < l
        BY <4>2
      <4> QED  BY <4>1, <4>3, Zenon
    <3>2. CASE tmQueue # <<>>
      <4>1. Head(tmQueue') = Head(tmQueue) /\ Head(tmQueue).of \in TmExporters
        <5>1. Head(tmQueue') = tmQueue'[1]
          BY <1>6
        <5> QED  BY <1>6, <1>8, <3>2, <5>1
      <4> QED  BY <1>1, <1>7, <3>2, <4>1 DEF TmIInv, TmQueueInv
    <3> QED  BY <3>1, <3>2
  <2> QED  BY <1>6, <2>1, <2>2, <2>3, Zenon DEF TmQueueInv
<1>11. TmRowsInv'
  <2> SUFFICES ASSUME NEW e \in TmExporters, NEW t \in TmTables
               PROVE  /\ RowsFor(e, t)' = 0 => tmRows[e][t] = 0
                      /\ tmRows[e][t] + Cardinality(TmLeft(e, t)') + TmDecodes(e)'
                           <= tmExport[e].admitted
    BY <1>1, <1>7 DEF TmRowsInv
  <2>1. RowsFor(e, t)' = RowsFor(e, t)
    BY <1>7 DEF RowsFor
  <2>2. /\ tmExport[e].try \in Nat /\ tmExport[e].admitted \in Nat /\ tmRows[e][t] \in Nat
        /\ tmExport'[e].try \in Nat
    BY <1>7 DEF TmIInv, TmTypes, TmExportRows
  <2>3. \A i \in DOMAIN tmQueue : tmQueue[i].of = e => tmQueue[i].try \in 1 .. tmExport[e].try
    BY DEF TmIInv, TmQueueInv
  <2>4. ASSUME NEW k \in TmLeft(e, t)'
        PROVE  k \in TmLeft(e, t) \/ (e = x /\ k = tmExport[x].try)
    <3>1. PICK i \in DOMAIN tmQueue' : /\ tmQueue'[i].of = e /\ tmQueue'[i].try = k
                                       /\ i = 1 => ~TmWritten(e, t)'
      BY <2>4 DEF TmLeft
    <3>2. CASE i = n
      BY <1>a, <3>1, <3>2, Zenon
    <3>3. CASE i # n
      <4>1. i \in DOMAIN tmQueue /\ tmQueue'[i] = tmQueue[i]
        BY <1>5, <1>6, <3>3
      <4>2. i = 1 => ~TmWritten(e, t)
        BY <1>1, <1>7, <3>1 DEF TmWritten
      <4>3. tmQueue[i].of = e /\ tmQueue[i].try = k
        BY <3>1, <4>1, Zenon
      <4> QED  BY <2>3, <4>1, <4>2, <4>3, Zenon DEF TmLeft
    <3> QED  BY <3>2, <3>3
  <2>5. /\ TmLeft(e, t) \in SUBSET (1 .. tmExport[e].try)
        /\ TmLeft(e, t)' \in SUBSET (1 .. tmExport'[e].try)
    BY DEF TmLeft
  <2>6. /\ Cardinality(TmLeft(e, t)) \in Nat /\ Cardinality(TmLeft(e, t)') \in Nat
        /\ Cardinality(TmLeft(e, t)') <= Cardinality(TmLeft(e, t)) + (IF e = x THEN 1 ELSE 0)
    <3>1. CASE e = x
      <4>1. TmLeft(e, t)' \subseteq TmLeft(e, t) \cup {tmExport[x].try}
        BY <2>4
      <4> QED  BY <2>2, <2>5, <3>1, <4>1, TmCounted
    <3>2. CASE e # x
      <4>1. TmLeft(e, t)' \subseteq TmLeft(e, t)
        BY <2>4, <3>2
      <4>2. Cardinality(TmLeft(e, t)') <= Cardinality(TmLeft(e, t))
        BY <2>2, <2>5, <4>1, TmCounted
      <4>3. Cardinality(TmLeft(e, t)) \in Nat /\ Cardinality(TmLeft(e, t)') \in Nat
        BY <2>2, <2>5, TmCounted
      <4> QED  BY <3>2, <4>2, <4>3
    <3> QED  BY <3>1, <3>2
  <2>7. TmDecodes(e) \in {0, 1} /\ TmDecodes(e)' = TmDecodes(e) - (IF e = x THEN 1 ELSE 0)
    BY <1>1, <1>3, <1>4 DEF TmDecodes
  <2>8. /\ RowsFor(e, t) = 0 => tmRows[e][t] = 0
        /\ tmRows[e][t] + Cardinality(TmLeft(e, t)) + TmDecodes(e) <= tmExport[e].admitted
    BY DEF TmIInv, TmRowsInv
  <2> QED  BY <2>1, <2>2, <2>6, <2>7, <2>8
<1>12. TmToldInv'
  <2> SUFFICES ASSUME NEW e \in TmExporters PROVE TmToldInv!(e)'
    BY DEF TmToldInv
  <2>1. \A k \in Nat : TmStored(e, k)' <=> TmStored(e, k)
    BY <1>1, <1>7 DEF TmStored, RowsFor
  <2>2. Rejected(e)' = Rejected(e)
    BY <1>7 DEF Rejected
  <2>3. DOMAIN Tables(tmExport[e].kind) \subseteq Nat
    <3>1. tmExport[e].kind \in {"spans", "logs", "metrics"}
      BY DEF TmIInv, TmTypes, TmExportRows
    <3> QED  BY <3>1, TmTablesOf
  <2>4. \A k \in 1 .. tmDone : k \in Nat
    BY DEF TmIInv, TmTypes
  <2>5. ASSUME Head(tmQueue').of = e, NEW k \in 1 .. tmDone PROVE TmStored(e, k)
    <3>1. tmQueue # <<>>
      BY <2>5 DEF TmIInv, TmQueueInv
    <3>2. Head(tmQueue') = Head(tmQueue)
      <4>1. Head(tmQueue') = tmQueue'[1]
        BY <1>6
      <4> QED  BY <1>6, <1>8, <3>1, <4>1
    <3> QED  BY <2>5, <3>1, <3>2 DEF TmIInv, TmToldInv
  <2>6. TmOk(tmExport[e])' <=> TmOk(tmExport[e])
    BY <1>7 DEF TmOk
  <2>7. /\ tmExport[e].admitted <= tmExport[e].try
        /\ tmExport[e].pc = "arrived" => tmExport[e].admitted < tmExport[e].try
        /\ tmExport[e].pc # "idle" => tmExport[e].told \in TmRetried
        /\ tmExport[e].pc = "acked" \/ TmOk(tmExport[e]) =>
             \A k \in DOMAIN Tables(tmExport[e].kind) : TmStored(e, k)
        /\ TmOk(tmExport[e]) => (tmExport[e].told = "partial" <=> Rejected(e) > 0)
        /\ tmExport[e].remote /\ ~tmToken => tmExport[e].try = 0
    BY DEF TmIInv, TmToldInv
  <2>8. tmExport'[e] = tmExport[e] \/ (tmExport'[e].pc = "queued" /\ tmExport[e].pc = "decode")
    BY <1>1, <1>3, <1>4
  <2> QED  BY <1>1, <1>7, <2>1, <2>2, <2>3, <2>4, <2>5, <2>6, <2>7, <2>8
<1> QED  BY <1>9, <1>10, <1>11, <1>12 DEF TmIInv

(* Rows are only added, and what an answer was drawn from stays. *)
LEMMA TmGrows ==
    ASSUME TmTypes, TmTypes', TmToldInv, TmKeeps,
           \A e \in TmExporters, u \in TmTables : tmRows'[e][u] >= tmRows[e][u],
           tmToken' = tmToken,
           \A e \in TmExporters :
             \/ tmExport'[e] = tmExport[e]
             \/ tmExport'[e].told = "error" /\ tmExport'[e].pc = "idle"
             \/ tmExport'[e].told = tmExport[e].told /\ tmExport[e].pc # "idle"
                /\ \A k \in DOMAIN Tables(tmExport[e].kind) : TmStored(e, k)',
           \A e \in TmExporters :
             tmQueue' # <<>> /\ Head(tmQueue').of = e => \A k \in 1 .. tmDone' : TmStored(e, k)'
    PROVE  TmToldInv'
<1> SUFFICES ASSUME NEW e \in TmExporters PROVE TmToldInv!(e)'
  BY DEF TmToldInv
<1>1. /\ tmExport'[e].kind = tmExport[e].kind /\ tmExport'[e].points = tmExport[e].points
      /\ tmExport'[e].remote = tmExport[e].remote /\ tmExport'[e].try = tmExport[e].try
      /\ tmExport'[e].admitted = tmExport[e].admitted
      /\ tmExport'[e] = tmExport[e] \/ tmExport'[e].pc \in {"idle", "acked"}
  BY DEF TmKeeps
<1>2. tmExport[e].kind \in {"spans", "logs", "metrics"}
  BY DEF TmTypes, TmExportRows
<1>3. ASSUME NEW k \in DOMAIN Tables(tmExport[e].kind), TmStored(e, k) PROVE TmStored(e, k)'
  <2>1. PICK u \in TmTables : u = Tables(tmExport[e].kind)[k]
    BY <1>2, TmTablesOf
  <2>2. tmRows'[e][u] >= tmRows[e][u] /\ tmRows'[e][u] \in Nat /\ tmRows[e][u] \in Nat
    BY DEF TmTypes
  <2>3. RowsFor(e, u) \in {0, 1} /\ RowsFor(e, u)' = RowsFor(e, u)
    BY <1>1, TmRowsFor DEF RowsFor
  <2> QED  BY <1>1, <1>3, <2>1, <2>2, <2>3 DEF TmStored
<1>4. Rejected(e)' = Rejected(e)
  BY <1>1 DEF Rejected
<1>5. /\ tmExport[e].admitted <= tmExport[e].try
      /\ tmExport[e].pc = "arrived" => tmExport[e].admitted < tmExport[e].try
      /\ tmExport[e].pc # "idle" => tmExport[e].told \in TmRetried
      /\ tmExport[e].pc = "acked" \/ TmOk(tmExport[e]) =>
           \A k \in DOMAIN Tables(tmExport[e].kind) : TmStored(e, k)
      /\ TmOk(tmExport[e]) => (tmExport[e].told = "partial" <=> Rejected(e) > 0)
      /\ tmExport[e].remote /\ ~tmToken => tmExport[e].try = 0
  BY DEF TmToldInv
<1>6. tmQueue' # <<>> /\ Head(tmQueue').of = e => \A k \in 1 .. tmDone' : TmStored(e, k)'
  OBVIOUS
<1>7. CASE tmExport'[e] = tmExport[e]
  BY <1>1, <1>3, <1>4, <1>5, <1>6, <1>7 DEF TmOk
<1>8. CASE tmExport'[e].told = "error" /\ tmExport'[e].pc = "idle"
  BY <1>1, <1>5, <1>6, <1>8 DEF TmOk
<1>9. CASE /\ tmExport'[e].told = tmExport[e].told /\ tmExport[e].pc # "idle"
           /\ tmExport'[e] # tmExport[e]
           /\ \A k \in DOMAIN Tables(tmExport[e].kind) : TmStored(e, k)'
  <2>1. tmExport'[e].told \in TmRetried /\ ~TmOk(tmExport[e]) /\ tmExport'[e].pc # "arrived"
    BY <1>1, <1>5, <1>9 DEF TmOk, TmRetried
  <2>2. ~TmOk(tmExport[e])'
    BY <1>9, <2>1 DEF TmOk
  <2> QED  BY <1>1, <1>5, <1>6, <1>9, <2>1, <2>2
<1> QED  BY <1>7, <1>8, <1>9

(* A row is added for a try that then has none left to add. *)
LEMMA TmFewer ==
    ASSUME TmTypes, TmTypes', TmRowsInv, TmKeeps,
           \A e \in TmExporters, u \in TmTables :
             /\ TmLeft(e, u)' \subseteq TmLeft(e, u)
             /\ \/ tmRows'[e][u] = tmRows[e][u]
                \/ /\ tmRows'[e][u] = tmRows[e][u] + RowsFor(e, u)
                   /\ \E n \in TmLeft(e, u) : n \notin TmLeft(e, u)'
    PROVE  TmRowsInv'
<1> SUFFICES ASSUME NEW e \in TmExporters, NEW u \in TmTables
             PROVE  /\ RowsFor(e, u)' = 0 => tmRows'[e][u] = 0
                    /\ tmRows'[e][u] + Cardinality(TmLeft(e, u)') + TmDecodes(e)'
                         <= tmExport'[e].admitted
  BY DEF TmRowsInv
<1>1. /\ tmExport'[e].kind = tmExport[e].kind /\ tmExport'[e].points = tmExport[e].points
      /\ tmExport'[e].try = tmExport[e].try /\ tmExport'[e].admitted = tmExport[e].admitted
      /\ tmExport'[e] = tmExport[e] \/ tmExport'[e].pc \in {"idle", "acked"}
  BY DEF TmKeeps
<1>2. RowsFor(e, u) \in {0, 1} /\ RowsFor(e, u)' = RowsFor(e, u)
  BY <1>1, TmRowsFor DEF RowsFor
<1>3. /\ tmExport[e].try \in Nat /\ tmExport'[e].try \in Nat /\ tmExport[e].admitted \in Nat
      /\ tmRows[e][u] \in Nat /\ tmRows'[e][u] \in Nat
  BY <1>1 DEF TmTypes, TmExportRows
<1>4. TmDecodes(e) \in {0, 1} /\ TmDecodes(e)' \in {0, 1} /\ TmDecodes(e)' <= TmDecodes(e)
  BY <1>1 DEF TmDecodes
<1>5. /\ TmLeft(e, u) \in SUBSET (1 .. tmExport[e].try)
      /\ TmLeft(e, u)' \in SUBSET (1 .. tmExport'[e].try)
      /\ TmLeft(e, u)' \subseteq TmLeft(e, u)
  BY DEF TmLeft
<1>6. /\ Cardinality(TmLeft(e, u)) \in Nat /\ Cardinality(TmLeft(e, u)') \in Nat
      /\ Cardinality(TmLeft(e, u)') <= Cardinality(TmLeft(e, u))
  BY <1>3, <1>5, TmCounted
<1>7. /\ RowsFor(e, u) = 0 => tmRows[e][u] = 0
      /\ tmRows[e][u] + Cardinality(TmLeft(e, u)) + TmDecodes(e) <= tmExport[e].admitted
  BY DEF TmRowsInv
<1>8. CASE tmRows'[e][u] = tmRows[e][u]
  BY <1>1, <1>2, <1>3, <1>4, <1>6, <1>7, <1>8
<1>9. CASE tmRows'[e][u] # tmRows[e][u]
  <2>1. PICK n \in TmLeft(e, u) : n \notin TmLeft(e, u)'
    BY <1>9
  <2>2. tmRows'[e][u] = tmRows[e][u] + RowsFor(e, u)
    BY <1>9
  <2>3. TmLeft(e, u)' \subseteq TmLeft(e, u) \ {n}
    BY <1>5, <2>1
  <2>4. Cardinality(TmLeft(e, u)') + 1 <= Cardinality(TmLeft(e, u))
    BY <1>3, <1>5, <2>3, TmCounted
  <2> QED  BY <1>1, <1>2, <1>3, <1>4, <1>6, <1>7, <2>2, <2>4
<1> QED  BY <1>8, <1>9

(* apply writes a table, and the last one is acknowledged. *)
LEMMA TmApplied ==
    ASSUME TmIInv, apply
    PROVE  TmIInv'
<1> USE DEF tmConfig
<1>1. /\ tmQueue # <<>> /\ UNCHANGED <<tmServer, tmToken, tmLoopback, tmFaults>>
      /\ TmTypes /\ TmQueueInv /\ TmRowsInv /\ TmToldInv /\ TmServes
  BY DEF apply, TmIInv
<1>2. PICK x \in TmExporters : x = Head(tmQueue).of
  BY <1>1, TmQueued
<1>3. PICK n \in Nat : n = Head(tmQueue).try
  BY <1>1, TmQueued
<1>4. PICK tables : tables = Tables(tmExport[x].kind)
  OBVIOUS
<1>5. /\ Len(tables) \in 1 .. 3 /\ DOMAIN tables = 1 .. Len(tables)
      /\ \A k \in DOMAIN tables : tables[k] \in TmTables
      /\ \A j, k \in DOMAIN tables : tables[j] = tables[k] => j = k
  <2>1. tmExport[x].kind \in {"spans", "logs", "metrics"}
    BY <1>1 DEF TmTypes, TmExportRows
  <2> QED  BY <1>4, <2>1, TmTablesOf
<1>a. PICK l \in 1 .. 3 : l = Len(tables) /\ DOMAIN tables = 1 .. l
  BY <1>5
<1>6. tmDone \in Nat /\ tmDone < l /\ tmDone + 1 \in DOMAIN tables
  <2>1. tmDone \in Nat /\ tmDone < l
    BY <1>1, <1>2, <1>4, <1>a DEF TmQueueInv, TmTypes
  <2> QED  BY <1>a, <2>1
<1>7. PICK t \in TmTables : t = tables[tmDone + 1]
  BY <1>5, <1>6
<1>8. tmRows' = [tmRows EXCEPT ![x][t] = tmRows[x][t] + RowsFor(x, t)]
  BY <1>2, <1>4, <1>7 DEF apply
<1>9. PICK whole \in BOOLEAN : whole <=> tmDone + 1 = Len(tables)
  OBVIOUS
<1>10. /\ whole => /\ tmQueue' = Tail(tmQueue) /\ tmDone' = 0
                   /\ \/ tmExport' = tmExport
                      \/ /\ tmExport' = [tmExport EXCEPT ![x].pc = "acked"]
                         /\ tmExport[x].pc = "queued"
       /\ ~whole => tmDone' = tmDone + 1 /\ tmQueue' = tmQueue /\ tmExport' = tmExport
  BY <1>2, <1>4, <1>9 DEF apply, Complete, Waits
<1>11. /\ \A e \in TmExporters, u \in TmTables : tmRows'[e][u] =
              IF e = x /\ u = t THEN tmRows[e][u] + RowsFor(x, t) ELSE tmRows[e][u]
       /\ tmRows' \in [TmExporters -> [TmTables -> Nat]]
       /\ RowsFor(x, t) \in {0, 1}
  <2>1. RowsFor(x, t) \in {0, 1}
    BY <1>1, TmRowsFor
  <2> QED  BY <1>1, <1>8, <2>1 DEF TmTypes
<1>12. /\ tmExport' \in [TmExporters -> TmExportRows] /\ TmKeeps
       /\ \A e \in TmExporters :
            \/ tmExport'[e] = tmExport[e]
            \/ /\ e = x /\ whole /\ tmExport'[e].told = tmExport[e].told
               /\ tmExport[e].pc = "queued"
  <2>1. CASE tmExport' = tmExport
    BY <1>1, <2>1 DEF TmKeeps, TmTypes
  <2>2. CASE /\ whole /\ tmExport' = [tmExport EXCEPT ![x].pc = "acked"]
             /\ tmExport[x].pc = "queued"
    <3>1. PICK y \in TmExportRows : y = [tmExport[x] EXCEPT !.pc = "acked"]
      BY <1>1 DEF TmTypes, TmExportRows
    <3>2. /\ y.kind = tmExport[x].kind /\ y.points = tmExport[x].points
          /\ y.remote = tmExport[x].remote /\ y.try = tmExport[x].try
          /\ y.admitted = tmExport[x].admitted /\ y.told = tmExport[x].told /\ y.pc = "acked"
      BY <1>1, <3>1 DEF TmTypes, TmExportRows
    <3>3. tmExport' = [tmExport EXCEPT ![x] = y]
      BY <2>2, <3>1
    <3>4. tmExport'[x] = y /\ \A e \in TmExporters \ {x} : tmExport'[e] = tmExport[e]
      BY <1>1, <3>3 DEF TmTypes
    <3>5. tmExport' \in [TmExporters -> TmExportRows]
      BY <1>1, <3>3 DEF TmTypes
    <3>6. TmKeeps
      BY <3>2, <3>4 DEF TmKeeps
    <3> QED  BY <2>2, <3>2, <3>4, <3>5, <3>6
  <2> QED  BY <1>10, <2>1, <2>2
<1>13. /\ tmQueue' \in Seq(TmBatches) /\ tmDone' \in Nat
  <2>1. Tail(tmQueue) \in Seq(TmBatches) /\ tmQueue \in Seq(TmBatches)
    BY <1>1, TmQueued DEF TmTypes
  <2>2. CASE whole
    <3>1. tmQueue' = Tail(tmQueue) /\ tmDone' = 0 /\ 0 \in Nat
      BY <1>10, <2>2
    <3> QED  BY <2>1, <3>1, Zenon
  <2>3. CASE ~whole
    <3>1. tmQueue' = tmQueue /\ tmDone' = tmDone + 1 /\ tmDone + 1 \in Nat
      BY <1>6, <1>10, <2>3
    <3> QED  BY <2>1, <3>1, Zenon
  <2> QED  BY <2>2, <2>3
<1>14. TmTypes' /\ TmServes'
  BY <1>1, <1>11, <1>12, <1>13 DEF TmTypes, TmServes, ensure_ingest_auth
<1>15. /\ n \in TmLeft(x, t) /\ ~TmWritten(x, t)
       /\ 1 \in DOMAIN tmQueue /\ tmQueue[1].of = x /\ tmQueue[1].try = n
  <2>1. 1 \in DOMAIN tmQueue /\ tmQueue[1].of = x /\ tmQueue[1].try = n
    BY <1>1, <1>2, <1>3, TmQueued
  <2>2. n \in 1 .. tmExport[x].try
    BY <1>1, <2>1 DEF TmQueueInv
  <2>3. ~TmWritten(x, t)
    <3>1. ASSUME NEW k \in 1 .. tmDone PROVE tables[k] # t
      <4>1. k \in DOMAIN tables /\ k # tmDone + 1
        BY <1>5, <1>6
      <4> QED  BY <1>5, <1>6, <1>7, <4>1
    <3> QED  BY <1>4, <3>1 DEF TmWritten
  <2> QED  BY <2>1, <2>2, <2>3 DEF TmLeft
<1>16. /\ TmQueueInv'
       /\ \A e \in TmExporters, u \in TmTables : TmLeft(e, u)' \subseteq TmLeft(e, u)
       /\ n \notin TmLeft(x, t)'
  <2>1. CASE whole
    BY <1>1, <1>2, <1>3, <1>10, <1>12, <2>1, TmPopped
  <2>2. CASE ~whole
    <3>1. tmDone' = tmDone + 1 /\ tmQueue' = tmQueue /\ tmExport' = tmExport
      BY <1>10, <2>2
    <3>2. TmQueueInv'
      <4>1. tmDone' < Len(tables)
        <5>1. tmDone + 1 # l
          BY <1>9, <1>a, <2>2
        <5> QED  BY <1>6, <1>a, <3>1, <5>1
      <4>2. tmDone' < Len(Tables(tmExport'[Head(tmQueue').of].kind))
        BY <1>2, <1>4, <3>1, <4>1
      <4> QED  BY <1>1, <3>1, <4>2 DEF TmQueueInv
    <3>3. ASSUME NEW e \in TmExporters, NEW u \in TmTables PROVE TmLeft(e, u)' \subseteq TmLeft(e, u)
      <4>1. TmWritten(e, u) => TmWritten(e, u)'
        BY <1>6, <3>1 DEF TmWritten
      <4> QED  BY <3>1, <4>1 DEF TmLeft
    <3>4. n \notin TmLeft(x, t)'
      <4>1. TmWritten(x, t)'
        <5>1. tmDone + 1 \in 1 .. tmDone' /\ Tables(tmExport'[x].kind)[tmDone + 1] = t
          BY <1>4, <1>6, <1>7, <3>1
        <5> QED  BY <5>1 DEF TmWritten
      <4>2. \A i \in DOMAIN tmQueue : tmQueue[i].of = x /\ tmQueue[i].try = n => i = 1
        BY <1>1, <1>15 DEF TmQueueInv
      <4> QED  BY <3>1, <4>1, <4>2 DEF TmLeft
    <3> QED  BY <3>2, <3>3, <3>4
  <2> QED  BY <2>1, <2>2
<1>17. TmRowsInv'
  <2>1. ASSUME NEW e \in TmExporters, NEW u \in TmTables
        PROVE  /\ TmLeft(e, u)' \subseteq TmLeft(e, u)
               /\ \/ tmRows'[e][u] = tmRows[e][u]
                  \/ /\ tmRows'[e][u] = tmRows[e][u] + RowsFor(e, u)
                     /\ \E i \in TmLeft(e, u) : i \notin TmLeft(e, u)'
    <3>1. CASE e = x /\ u = t
      BY <1>11, <1>15, <1>16, <3>1
    <3>2. CASE ~(e = x /\ u = t)
      BY <1>11, <1>16, <3>2
    <3> QED  BY <3>1, <3>2
  <2> QED  BY <1>1, <1>12, <1>14, <2>1, TmFewer
<1>18. /\ \A e \in TmExporters, u \in TmTables : tmRows'[e][u] >= tmRows[e][u]
       /\ \A k \in 1 .. tmDone + 1 : TmStored(x, k)'
  <2>1. ASSUME NEW e \in TmExporters, NEW u \in TmTables
        PROVE  tmRows'[e][u] >= tmRows[e][u] /\ tmRows[e][u] \in Nat
    <3>1. tmRows[e][u] \in Nat
      BY <1>1 DEF TmTypes
    <3>2. e = x /\ u = t => RowsFor(x, t) \in {0, 1}
      BY <1>11
    <3> QED  BY <1>11, <3>1, <3>2
  <2>2. tmExport'[x].kind = tmExport[x].kind /\ tmExport'[x].points = tmExport[x].points
    BY <1>12 DEF TmKeeps
  <2>3. \A u \in TmTables : RowsFor(x, u)' = RowsFor(x, u) /\ RowsFor(x, u) \in {0, 1}
    BY <1>1, <2>2, TmRowsFor DEF RowsFor
  <2>4. ASSUME NEW k \in 1 .. tmDone PROVE TmStored(x, k)'
    <3>1. TmStored(x, k)
      BY <1>1, <1>2 DEF TmToldInv
    <3>2. PICK u \in TmTables : u = tables[k]
      BY <1>5, <1>6
    <3>3. tmRows[x][u] >= RowsFor(x, u)
      BY <1>4, <3>1, <3>2 DEF TmStored
    <3>4. tmRows'[x][u] >= RowsFor(x, u)'
      BY <1>11, <2>1, <2>3, <3>3
    <3> QED  BY <1>4, <2>2, <3>2, <3>4 DEF TmStored
  <2>5. ASSUME NEW k, k = tmDone + 1 PROVE TmStored(x, k)'
    <3>1. tmRows'[x][t] >= RowsFor(x, t)'
      BY <1>11, <2>1, <2>3
    <3>2. Tables(tmExport'[x].kind)[k] = t
      BY <1>4, <1>7, <2>2, <2>5
    <3> QED  BY <3>1, <3>2 DEF TmStored
  <2>6. \A k \in 1 .. tmDone + 1 : k \in 1 .. tmDone \/ k = tmDone + 1
    BY <1>6
  <2> QED  BY <2>1, <2>4, <2>5, <2>6
<1>19. TmToldInv'
  <2>1. whole => \A k \in DOMAIN Tables(tmExport[x].kind) : TmStored(x, k)'
    BY <1>4, <1>5, <1>9, <1>18
  <2>2. ASSUME NEW e \in TmExporters
        PROVE  \/ tmExport'[e] = tmExport[e]
               \/ tmExport'[e].told = "error" /\ tmExport'[e].pc = "idle"
               \/ tmExport'[e].told = tmExport[e].told /\ tmExport[e].pc # "idle"
                  /\ \A k \in DOMAIN Tables(tmExport[e].kind) : TmStored(e, k)'
    BY <1>12, <2>1
  <2>3. ASSUME NEW e \in TmExporters, tmQueue' # <<>>, Head(tmQueue').of = e, NEW k \in 1 .. tmDone'
        PROVE  TmStored(e, k)'
    BY <1>2, <1>9, <1>10, <1>18, <2>3
  <2> QED  BY <1>1, <1>12, <1>14, <1>18, <2>2, <2>3, TmGrows
<1> QED  BY <1>14, <1>16, <1>17, <1>19 DEF TmIInv

(* apply_fails drops the batch and tells the caller that waits. *)
LEMMA TmFailed ==
    ASSUME TmIInv, apply_fails
    PROVE  TmIInv'
<1> USE DEF tmConfig
<1>1. /\ tmQueue # <<>> /\ tmQueue' = Tail(tmQueue) /\ tmDone' = 0 /\ tmFaults' = tmFaults + 1
      /\ UNCHANGED <<tmServer, tmToken, tmLoopback, tmRows>>
      /\ TmTypes /\ TmQueueInv /\ TmRowsInv /\ TmToldInv /\ TmServes
  BY DEF apply_fails, TmIInv
<1>2. PICK x \in TmExporters : x = Head(tmQueue).of
  BY <1>1, TmQueued
<1>3. /\ tmExport' \in [TmExporters -> TmExportRows] /\ TmKeeps
      /\ \A e \in TmExporters :
           \/ tmExport'[e] = tmExport[e]
           \/ tmExport'[e].told = "error" /\ tmExport'[e].pc = "idle"
  <2>1. CASE tmExport' = tmExport
    BY <1>1, <2>1 DEF TmKeeps, TmTypes
  <2>2. CASE tmExport' = [tmExport EXCEPT ![x].pc = "idle", ![x].told = "error"]
    <3>0. tmExport[x] \in TmExportRows
      BY <1>1 DEF TmTypes
    <3>1. PICK y \in TmExportRows : y = [tmExport[x] EXCEPT !.pc = "idle", !.told = "error"]
      BY <3>0 DEF TmExportRows, TmRetried
    <3>2. /\ y.kind = tmExport[x].kind /\ y.points = tmExport[x].points
          /\ y.remote = tmExport[x].remote /\ y.try = tmExport[x].try
          /\ y.admitted = tmExport[x].admitted /\ y.told = "error" /\ y.pc = "idle"
      BY <1>1, <3>1 DEF TmTypes, TmExportRows
    <3>3. tmExport' = [tmExport EXCEPT ![x] = y]
      BY <1>1, <2>2, <3>1 DEF TmTypes
    <3>4. tmExport'[x] = y /\ \A e \in TmExporters \ {x} : tmExport'[e] = tmExport[e]
      BY <1>1, <3>3 DEF TmTypes
    <3>5. tmExport' \in [TmExporters -> TmExportRows]
      BY <1>1, <3>3 DEF TmTypes
    <3>6. TmKeeps
      BY <3>2, <3>4 DEF TmKeeps
    <3> QED  BY <3>2, <3>4, <3>5, <3>6
  <2> QED  BY <1>2, <2>1, <2>2 DEF apply_fails, TmTell
<1>4. tmQueue' \in Seq(TmBatches) /\ tmFaults' \in Nat
  <2>1. Tail(tmQueue) \in Seq(TmBatches)
    BY <1>1, TmQueued
  <2>2. tmFaults' \in Nat
    BY <1>1 DEF TmTypes
  <2> QED  BY <1>1, <2>1, <2>2, Zenon
<1>5. TmTypes' /\ TmServes'
  BY <1>1, <1>3, <1>4 DEF TmTypes, TmServes, ensure_ingest_auth
<1>6. TmQueueInv' /\ \A e \in TmExporters, u \in TmTables : TmLeft(e, u)' \subseteq TmLeft(e, u)
  BY <1>1, <1>3, TmPopped
<1>7. TmRowsInv'
  BY <1>1, <1>3, <1>5, <1>6, TmFewer
<1>8. TmToldInv'
  <2>1. \A e \in TmExporters, u \in TmTables : tmRows'[e][u] >= tmRows[e][u]
    <3>1. ASSUME NEW e \in TmExporters, NEW u \in TmTables PROVE tmRows[e][u] \in Nat
      BY <1>1 DEF TmTypes
    <3> QED  BY <1>1, <3>1
  <2>2. ASSUME NEW e \in TmExporters, NEW k \in 1 .. tmDone' PROVE FALSE
    BY <1>1, <2>2
  <2> QED  BY <1>1, <1>3, <1>5, <2>1, <2>2, TmGrows
<1> QED  BY <1>5, <1>6, <1>7, <1>8 DEF TmIInv

(* A crash forgets the queue, and a request that was on its way is lost. *)
LEMMA TmCrashed ==
    ASSUME TmIInv, TmCrash
    PROVE  TmIInv'
<1> USE DEF tmConfig
<1>1. /\ tmQueue' = <<>> /\ tmDone' = 0 /\ tmFaults' = tmFaults + 1
      /\ UNCHANGED <<tmServer, tmToken, tmLoopback, tmRows>>
      /\ TmTypes /\ TmQueueInv /\ TmRowsInv /\ TmToldInv /\ TmServes
  BY DEF TmCrash, TmIInv
<1>2. /\ DOMAIN tmExport' = TmExporters
      /\ \A e \in TmExporters :
           /\ tmExport'[e] \in TmExportRows
           /\ tmExport'[e].kind = tmExport[e].kind /\ tmExport'[e].points = tmExport[e].points
           /\ tmExport'[e].remote = tmExport[e].remote /\ tmExport'[e].try = tmExport[e].try
           /\ tmExport'[e].admitted = tmExport[e].admitted
           /\ \/ tmExport'[e] = tmExport[e] /\ tmExport[e].pc = "idle"
              \/ tmExport'[e].pc = "idle" /\ tmExport'[e].told = "lost"
  <2>1. tmExport' = [e \in TmExporters |->
          IF tmExport[e].pc = "idle" THEN tmExport[e]
          ELSE [tmExport[e] EXCEPT !.pc = "idle", !.told = "lost"]]
    BY DEF TmCrash
  <2> SUFFICES ASSUME NEW e \in TmExporters
               PROVE  /\ tmExport'[e] \in TmExportRows
                      /\ tmExport'[e].kind = tmExport[e].kind
                      /\ tmExport'[e].points = tmExport[e].points
                      /\ tmExport'[e].remote = tmExport[e].remote
                      /\ tmExport'[e].try = tmExport[e].try
                      /\ tmExport'[e].admitted = tmExport[e].admitted
                      /\ \/ tmExport'[e] = tmExport[e] /\ tmExport[e].pc = "idle"
                         \/ tmExport'[e].pc = "idle" /\ tmExport'[e].told = "lost"
    BY <2>1
  <2>2. tmExport[e] \in TmExportRows
    BY <1>1 DEF TmTypes
  <2>3. CASE tmExport[e].pc = "idle"
    BY <2>1, <2>2, <2>3
  <2>4. CASE tmExport[e].pc # "idle"
    <3>1. tmExport'[e] = [tmExport[e] EXCEPT !.pc = "idle", !.told = "lost"]
      BY <2>1, <2>4
    <3> QED  BY <2>2, <3>1 DEF TmExportRows, TmRetried
  <2> QED  BY <2>3, <2>4
<1>3. TmTypes' /\ TmServes' /\ TmQueueInv'
  <2>1. tmExport' \in [TmExporters -> TmExportRows]
    <3>1. tmExport' = [e \in TmExporters |-> tmExport'[e]]
      BY DEF TmCrash
    <3> QED  BY <1>2, <3>1
  <2>2. tmFaults' \in Nat
    BY <1>1 DEF TmTypes
  <2>3. tmQueue' \in Seq(TmBatches) /\ DOMAIN tmQueue' = {}
    BY <1>1
  <2> QED  BY <1>1, <2>1, <2>2, <2>3 DEF TmTypes, TmServes, TmQueueInv, ensure_ingest_auth
<1>4. TmKeeps
  BY <1>2 DEF TmKeeps
<1>5. TmRowsInv'
  <2>1. ASSUME NEW e \in TmExporters, NEW u \in TmTables PROVE TmLeft(e, u)' = {}
    <3>1. DOMAIN tmQueue' = {}
      BY <1>1
    <3> QED  BY <3>1 DEF TmLeft
  <2> QED  BY <1>1, <1>3, <1>4, <2>1, TmFewer
<1>6. TmToldInv'
  <2> SUFFICES ASSUME NEW e \in TmExporters PROVE TmToldInv!(e)'
    BY DEF TmToldInv
  <2>1. \A k : TmStored(e, k)' <=> TmStored(e, k)
    BY <1>1, <1>2 DEF TmStored, RowsFor
  <2>2. Rejected(e)' = Rejected(e)
    BY <1>2 DEF Rejected
  <2>3. CASE tmExport'[e] = tmExport[e] /\ tmExport[e].pc = "idle"
    BY <1>1, <2>1, <2>2, <2>3 DEF TmToldInv, TmOk
  <2>4. CASE tmExport'[e].pc = "idle" /\ tmExport'[e].told = "lost"
    BY <1>1, <1>2, <2>4 DEF TmToldInv, TmOk
  <2> QED  BY <1>2, <2>3, <2>4
<1> QED  BY <1>3, <1>5, <1>6 DEF TmIInv

(* The steps of an exporter and of its handler, but the one that hands over a
   batch. *)
LEMMA TmRequests ==
    ASSUME TmIInv, NEW x \in TmExporters, NEW ok \in BOOLEAN,
           \/ TmPost(x, ok) \/ require_bearer(x) \/ TmAnswer(x) \/ TmTimeout(x)
           \/ decode(x, ok) /\ ~ok
    PROVE  TmIInv'
<1> USE DEF tmConfig
<1>1. PICK e \in TmExportRows : e = tmExport[x]
  BY DEF TmIInv, TmTypes
<1>a. e.try \in Nat /\ e.admitted \in Nat
  BY DEF TmExportRows
<1>2. /\ e.admitted <= e.try /\ (e.pc = "arrived" => e.admitted < e.try)
      /\ e.pc # "idle" => e.told \in TmRetried
      /\ TmOk(e) => (e.told = "partial" <=> Rejected(x) > 0)
      /\ e.remote /\ ~tmToken => e.try = 0
  BY <1>1 DEF TmIInv, TmToldInv
<1>3. ASSUME NEW y \in TmExportRows, TmMoves(x, y),
             UNCHANGED <<tmConfig, tmQueue, tmDone, tmRows, tmFaults>>
      PROVE  TmIInv'
  BY <1>3, TmMovesStep
<1>4. CASE TmPost(x, ok)
  <2>a. PICK next \in Nat : next = e.try + 1
    BY <1>a
  <2>1. PICK y \in TmExportRows : y = [e EXCEPT !.pc = "arrived", !.try = next, !.bearer = ok]
    BY DEF TmExportRows
  <2>2. /\ y.pc = "arrived" /\ y.try = e.try + 1 /\ y.kind = e.kind /\ y.points = e.points
        /\ y.remote = e.remote /\ y.admitted = e.admitted /\ y.told = e.told
        /\ e.try \in Nat /\ e.admitted \in Nat
    BY <2>a, <2>1 DEF TmExportRows
  <2>3. /\ tmExport' = [tmExport EXCEPT ![x] = y]
        /\ UNCHANGED <<tmConfig, tmQueue, tmDone, tmRows, tmFaults>>
    BY <1>1, <1>4, <2>a, <2>1 DEF TmPost, TmIInv, TmTypes
  <2>4. /\ e.pc = "idle" /\ e.told \in TmRetried /\ ~(e.remote /\ ~tmToken)
    <3>1. e.pc = "idle" /\ e.told \in TmRetried /\ tmServer = "serving"
      BY <1>1, <1>4 DEF TmPost, TmRetried
    <3>2. e.remote => e.port \notin tmLoopback
      BY <1>1, <1>4 DEF TmPost
    <3>3. tmToken \/ TmPorts \subseteq tmLoopback
      BY <3>1 DEF TmIInv, TmServes, ensure_ingest_auth
    <3>4. e.port \in TmPorts
      BY DEF TmExportRows
    <3> QED  BY <3>1, <3>2, <3>3, <3>4
  <2>5. TmMoves(x, y)
    BY <1>1, <1>2, <2>2, <2>3, <2>4 DEF TmMoves, TmOk, TmRetried
  <2> QED  BY <1>3, <2>3, <2>5
<1>5. CASE require_bearer(x) /\ Authorized(x)
  <2>a. PICK next \in Nat : next = e.admitted + 1
    BY <1>a
  <2>1. PICK y \in TmExportRows : y = [e EXCEPT !.pc = "decode", !.admitted = next]
    BY DEF TmExportRows
  <2>2. /\ y.pc = "decode" /\ y.try = e.try /\ y.kind = e.kind /\ y.points = e.points
        /\ y.remote = e.remote /\ y.admitted = e.admitted + 1 /\ y.told = e.told
        /\ e.try \in Nat /\ e.admitted \in Nat
    BY <2>a, <2>1 DEF TmExportRows
  <2>3. /\ tmExport' = [tmExport EXCEPT ![x] = y] /\ e.pc = "arrived"
        /\ UNCHANGED <<tmConfig, tmQueue, tmDone, tmRows, tmFaults>>
    BY <1>1, <1>5, <2>a, <2>1 DEF require_bearer, TmIInv, TmTypes
  <2>4. TmMoves(x, y)
    BY <1>1, <1>2, <2>2, <2>3 DEF TmMoves, TmOk, TmRetried
  <2> QED  BY <1>3, <2>3, <2>4
<1>6. ASSUME NEW told \in TmRetried \cup {"bad", "ok", "partial"}, TmTell(x, told), e.pc # "idle",
             told \in {"ok", "partial"} => e.pc = "acked" /\ (told = "partial" <=> Rejected(x) > 0),
             UNCHANGED <<tmConfig, tmQueue, tmDone, tmRows, tmFaults>>
      PROVE  TmIInv'
  <2>1. PICK y \in TmExportRows : y = [e EXCEPT !.pc = "idle", !.told = told]
    BY DEF TmExportRows
  <2>2. /\ y.pc = "idle" /\ y.try = e.try /\ y.kind = e.kind /\ y.points = e.points
        /\ y.remote = e.remote /\ y.admitted = e.admitted /\ y.told = told
        /\ e.try \in Nat /\ e.admitted \in Nat
    BY <2>1 DEF TmExportRows
  <2>3. tmExport' = [tmExport EXCEPT ![x] = y]
    BY <1>1, <1>6, <2>1 DEF TmTell, TmIInv, TmTypes
  <2>4. TmMoves(x, y)
    BY <1>1, <1>2, <1>6, <2>2, <2>3 DEF TmMoves, TmOk, TmRetried
  <2> QED  BY <1>3, <1>6, <2>4
<1>7. CASE require_bearer(x) /\ ~Authorized(x)
  <2>1. TmTell(x, "unauthorized") /\ e.pc = "arrived"
    BY <1>1, <1>7 DEF require_bearer
  <2> QED  BY <1>6, <1>7, <2>1 DEF require_bearer, TmRetried
<1>8. CASE TmAnswer(x)
  <2>1. PICK told \in {"ok", "partial"} :
          /\ TmTell(x, told) /\ (told = "partial" <=> Rejected(x) > 0)
    <3>1. CASE tmExport[x].kind = "metrics"
      BY <1>8, <3>1 DEF TmAnswer, metrics_response
    <3>2. CASE tmExport[x].kind # "metrics"
      <4>1. TmTell(x, "ok") /\ Rejected(x) = 0
        BY <1>8, <3>2 DEF TmAnswer, Rejected
      <4> QED  BY <4>1
    <3> QED  BY <3>1, <3>2
  <2> QED  BY <1>1, <1>6, <1>8, <2>1 DEF TmAnswer
<1>9. CASE TmTimeout(x)
  BY <1>1, <1>6, <1>9 DEF TmTimeout, TmRetried
<1>10. CASE decode(x, ok) /\ ~ok
  BY <1>1, <1>6, <1>10 DEF decode, TmRetried
<1> QED  BY <1>4, <1>5, <1>7, <1>8, <1>9, <1>10

(* Every step keeps the invariant. *)
LEMMA TmStep ==
    ASSUME TmIInv, [TmNext]_tmVars
    PROVE  TmIInv'
<1>1. CASE UNCHANGED tmVars
  <2>1. /\ tmExport' = tmExport /\ tmQueue' = tmQueue /\ tmDone' = tmDone /\ tmRows' = tmRows
        /\ tmServer' = tmServer /\ tmToken' = tmToken /\ tmLoopback' = tmLoopback
        /\ tmFaults' = tmFaults
    BY <1>1 DEF tmVars
  <2>2. /\ \A e \in TmExporters : \A k : TmStored(e, k)' <=> TmStored(e, k)
        /\ \A e \in TmExporters : Rejected(e)' = Rejected(e) /\ TmDecodes(e)' = TmDecodes(e)
        /\ \A e \in TmExporters, t \in TmTables :
             TmLeft(e, t)' = TmLeft(e, t) /\ RowsFor(e, t)' = RowsFor(e, t)
    BY <2>1 DEF TmStored, RowsFor, Rejected, TmDecodes, TmLeft, TmWritten
  <2> QED  BY <2>1, <2>2 DEF TmIInv, TmTypes, TmServes, ensure_ingest_auth, TmQueueInv, TmRowsInv, TmToldInv
<1>2. CASE TmServe
  <2>1. /\ tmExport' = tmExport /\ tmQueue' = tmQueue /\ tmDone' = tmDone /\ tmRows' = tmRows
        /\ tmToken' = tmToken /\ tmLoopback' = tmLoopback /\ tmFaults' = tmFaults
        /\ tmServer' = (IF ensure_ingest_auth THEN "serving" ELSE "refused")
    BY <1>2 DEF TmServe
  <2>2. /\ \A e \in TmExporters : \A k : TmStored(e, k)' <=> TmStored(e, k)
        /\ \A e \in TmExporters : Rejected(e)' = Rejected(e) /\ TmDecodes(e)' = TmDecodes(e)
        /\ \A e \in TmExporters, t \in TmTables :
             TmLeft(e, t)' = TmLeft(e, t) /\ RowsFor(e, t)' = RowsFor(e, t)
    BY <2>1 DEF TmStored, RowsFor, Rejected, TmDecodes, TmLeft, TmWritten
  <2> QED  BY <2>1, <2>2 DEF TmIInv, TmTypes, TmServes, ensure_ingest_auth, TmQueueInv, TmRowsInv, TmToldInv
<1>3. ASSUME NEW x \in TmExporters, NEW ok \in BOOLEAN, decode(x, ok) PROVE TmIInv'
  <2>1. CASE ok
    BY <1>3, <2>1, TmHanded
  <2>2. CASE ~ok
    BY <1>3, <2>2, TmRequests
  <2> QED  BY <2>1, <2>2
<1>4. ASSUME NEW x \in TmExporters, TmAnswer(x) \/ TmTimeout(x) \/ require_bearer(x) PROVE TmIInv'
  <2>1. PICK ok \in BOOLEAN : ok
    OBVIOUS
  <2> QED  BY <1>4, <2>1, TmRequests
<1>5. ASSUME NEW x \in TmExporters, NEW ok \in BOOLEAN, TmPost(x, ok) PROVE TmIInv'
  BY <1>5, TmRequests
<1> QED  BY <1>1, <1>2, <1>3, <1>4, <1>5, TmApplied, TmFailed, TmCrashed DEF TmNext

(* At the start nothing was sent. *)
LEMMA TmStart == TmInit => TmIInv
<1> SUFFICES ASSUME TmInit PROVE TmIInv
  OBVIOUS
<1>1. \A x \in TmExporters :
        /\ tmExport[x] \in TmExportRows
        /\ tmExport[x].pc = "idle" /\ tmExport[x].try = 0 /\ tmExport[x].admitted = 0
        /\ tmExport[x].told = "none"
  <2> SUFFICES ASSUME NEW x \in TmExporters
               PROVE  /\ tmExport[x] \in TmExportRows
                      /\ tmExport[x].pc = "idle" /\ tmExport[x].try = 0
                      /\ tmExport[x].admitted = 0 /\ tmExport[x].told = "none"
    OBVIOUS
  <2>1. PICK kind \in {"spans", "logs", "metrics"}, points \in TmMetrics, port \in TmPorts,
             remote \in BOOLEAN :
          tmExport[x] = [kind |-> kind, points |-> points, pc |-> "idle", port |-> port,
                         remote |-> remote, bearer |-> FALSE, try |-> 0, admitted |-> 0,
                         told |-> "none"]
    BY DEF TmInit
  <2> QED  BY <2>1 DEF TmExportRows, TmRetried
<1>2. /\ tmQueue = <<>> /\ tmDone = 0 /\ tmFaults = 0 /\ tmServer = "down"
      /\ tmToken \in BOOLEAN /\ tmLoopback \in SUBSET TmPorts
      /\ tmRows = [x \in TmExporters |-> [t \in TmTables |-> 0]]
  BY DEF TmInit
<1>3. TmTypes
  <2>1. tmExport \in [TmExporters -> TmExportRows]
    <3>1. tmExport = [x \in TmExporters |-> tmExport[x]]
      BY DEF TmInit
    <3> QED  BY <1>1, <3>1
  <2>2. tmQueue \in Seq(TmBatches)
    BY <1>2, EmptySeq
  <2> QED  BY <1>2, <2>1, <2>2 DEF TmTypes
<1>4. TmQueueInv
  BY <1>2 DEF TmQueueInv
<1>5. TmRowsInv
  <2> SUFFICES ASSUME NEW x \in TmExporters, NEW t \in TmTables
               PROVE  /\ tmRows[x][t] = 0
                      /\ tmRows[x][t] + Cardinality(TmLeft(x, t)) + TmDecodes(x) <= tmExport[x].admitted
    BY DEF TmRowsInv
  <2>1. tmRows[x][t] = 0 /\ TmDecodes(x) = 0
    BY <1>1, <1>2 DEF TmDecodes
  <2>2. TmLeft(x, t) = {}
    <3>1. DOMAIN tmQueue = {}
      BY <1>2
    <3> QED  BY <3>1 DEF TmLeft
  <2>3. Cardinality(TmLeft(x, t)) = 0
    BY <2>2, FS_EmptySet
  <2> QED  BY <1>1, <2>1, <2>3
<1>6. TmToldInv
  BY <1>1, <1>2 DEF TmToldInv, TmRetried, TmOk
<1> QED  BY <1>2, <1>3, <1>4, <1>5, <1>6 DEF TmIInv, TmServes

(* What the answers mean. *)
LEMMA TmAnswers == TmIInv => AnswersHold
<1> SUFFICES ASSUME TmIInv, NEW x \in TmExporters PROVE AnswersHold!(x)
  BY DEF AnswersHold
<1>1. PICK e \in TmExportRows : e = tmExport[x]
  BY DEF TmIInv, TmTypes
<1>2. /\ e.admitted <= e.try /\ e.admitted \in Nat /\ e.try \in Nat
      /\ TmOk(e) => \A k \in DOMAIN Tables(e.kind) : TmStored(x, k)
      /\ TmOk(e) => (e.told = "partial" <=> Rejected(x) > 0)
      /\ e.remote /\ ~tmToken => e.try = 0
  BY <1>1 DEF TmIInv, TmToldInv, TmExportRows
<1>3. ASSUME NEW t \in TmTables
      PROVE  /\ tmRows[x][t] \in Nat /\ RowsFor(x, t) \in {0, 1}
             /\ tmRows[x][t] <= e.admitted * RowsFor(x, t)
  <2>1. tmRows[x][t] \in Nat /\ RowsFor(x, t) \in {0, 1}
    BY TmRowsFor DEF TmIInv, TmTypes
  <2>2. Cardinality(TmLeft(x, t)) \in Nat
    <3>1. TmLeft(x, t) \in SUBSET (1 .. tmExport[x].try)
      BY DEF TmLeft
    <3> QED  BY <1>1, <1>2, <3>1, TmCounted
  <2>3. TmDecodes(x) \in Nat
    BY DEF TmDecodes
  <2>4. /\ RowsFor(x, t) = 0 => tmRows[x][t] = 0
        /\ tmRows[x][t] + Cardinality(TmLeft(x, t)) + TmDecodes(x) <= e.admitted
    BY <1>1 DEF TmIInv, TmRowsInv
  <2>5. CASE RowsFor(x, t) = 0
    BY <1>2, <2>4, <2>5
  <2>6. CASE RowsFor(x, t) = 1
    BY <1>2, <2>1, <2>2, <2>3, <2>4, <2>6
  <2> QED  BY <2>1, <2>5, <2>6
<1>4. ASSUME e.told \in {"ok", "partial"}, NEW i \in DOMAIN Tables(e.kind)
      PROVE  /\ tmRows[x][Tables(e.kind)[i]] >= RowsFor(x, Tables(e.kind)[i])
             /\ e.try = 1 => tmRows[x][Tables(e.kind)[i]] = RowsFor(x, Tables(e.kind)[i])
  <2>1. e.kind \in {"spans", "logs", "metrics"}
    BY DEF TmExportRows
  <2>2. PICK t \in TmTables : t = Tables(e.kind)[i]
    BY <2>1, TmTablesOf
  <2>3. tmRows[x][t] >= RowsFor(x, t)
    BY <1>1, <1>2, <1>4, <2>2 DEF TmStored, TmOk
  <2>4. e.try = 1 => tmRows[x][t] = RowsFor(x, t)
    <3>1. e.try = 1 => e.admitted \in {0, 1}
      BY <1>2
    <3> QED  BY <1>3, <2>3, <3>1
  <2> QED  BY <2>2, <2>3, <2>4
<1> QED  BY <1>1, <1>2, <1>3, <1>4 DEF TmOk
-----------------------------------------------------------------------------
(* The texts of an attribute: none, the one it has, or an empty one for a
   string that was only a reference. *)
LEMMA TmTexts ==
    /\ Absent # Interned /\ Absent # Truth /\ Truth # Interned /\ Absent # <<"">>
    /\ \A o, k : /\ <<o, k>> # Absent /\ <<o, k>> # Interned /\ <<o, k>> # <<"">>
    /\ \A j, k : <<"span", j>> # <<"resource", k>> /\ <<"bool", j>> # <<"resource", k>>
<1>1. Absent # Interned
  BY DEF Absent, Interned
<1>2. Absent # Truth /\ Truth # Interned
  BY DEF Absent, Interned, Truth
<1>3. ASSUME NEW o, NEW k PROVE <<o, k>> # Absent /\ <<o, k>> # Interned /\ <<o, k>> # <<"">>
  BY DEF Absent, Interned
<1>4. ASSUME NEW j, NEW k
      PROVE  <<"span", j>> # <<"resource", k>> /\ <<"bool", j>> # <<"resource", k>>
  OBVIOUS
<1>5. Absent # <<"">>
  BY DEF Absent
<1> QED  BY <1>1, <1>2, <1>3, <1>4, <1>5

(* What a column holds of an attribute. *)
LEMMA TmColumns ==
    /\ \A a, k : /\ attr_string(a, k) = any_value_to_string(a[k])
                 /\ attr_string(a, k) \in {a[k], <<"">>}
                 /\ attr_string(a, k) = Absent <=> a[k] = Absent
                 /\ a[k] # Interned => attr_string(a, k) = a[k]
    /\ \A a, b : or_else(a, b) = IF a = Absent THEN b ELSE a
    /\ \A a, k : attr_bool(a, k) = IF a[k] = Truth THEN Truth ELSE Absent
<1>1. any_value_to_string(Absent) = Absent
  BY TmTexts DEF any_value_to_string
<1>2. ASSUME NEW a, NEW k
      PROVE  /\ attr_string(a, k) = any_value_to_string(a[k])
             /\ attr_string(a, k) \in {a[k], <<"">>}
             /\ attr_string(a, k) = Absent <=> a[k] = Absent
             /\ a[k] # Interned => attr_string(a, k) = a[k]
  BY <1>1, TmTexts DEF attr_string, any_value_to_string
<1> QED  BY <1>2 DEF or_else, attr_bool

(* The attributes of a span and of a resource. *)
LEMMA TmSpanOf ==
    ASSUME NEW s \in TmSpans
    PROVE  /\ DOMAIN s = {"id", "name", "title", "status", "met", "recovery", "plugin", "alias", "other"}
           /\ s["id"] \in {Absent, <<"span", "id">>}
           /\ s["name"] \in {Absent, <<"span", "name">>, Interned}
           /\ s["title"] \in {Absent, <<"span", "title">>}
           /\ s["status"] \in {Absent, <<"span", "status">>}
           /\ s["met"] \in {Absent, <<"span", "met">>, Truth}
           /\ s["recovery"] \in {Absent, <<"span", "recovery">>, Seconds}
           /\ s["plugin"] \in {Absent, <<"span", "plugin">>}
           /\ s["alias"] \in {Absent, <<"span", "alias">>}
           /\ s["other"] \in {Absent, <<"span", "other">>, Interned}
<1>1. PICK id \in From("span", "id"), name \in From("span", "name") \cup {Interned},
           title \in From("span", "title"), status \in From("span", "status"),
           met \in From("span", "met") \cup {Truth}, recovery \in From("span", "recovery") \cup {Seconds},
           plugin \in From("span", "plugin"), alias \in From("span", "alias"), other \in From("span", "other") \cup {Interned} :
        s = [id |-> id, name |-> name, title |-> title, status |-> status, met |-> met,
             recovery |-> recovery, plugin |-> plugin, alias |-> alias, other |-> other]
  BY DEF TmSpans
<1> QED  BY <1>1 DEF From

(* A resource has its own values or none. *)
LEMMA TmResourceOf ==
    ASSUME NEW r \in TmResources
    PROVE  /\ DOMAIN r = {"service", "id", "name", "title", "other"}
           /\ r["id"] \in {Absent, <<"resource", "id">>}
           /\ \A k \in DOMAIN r : r[k] \in {Absent, <<"resource", k>>}
<1>1. PICK service \in From("resource", "service"), id \in From("resource", "id"),
           name \in From("resource", "name"), title \in From("resource", "title"),
           other \in From("resource", "other") :
        r = [service |-> service, id |-> id, name |-> name, title |-> title, other |-> other]
  BY DEF TmResources
<1> QED  BY <1>1 DEF From

(* The row of a span, column by column. *)
LEMMA TmRowOf ==
    ASSUME NEW s \in TmSpans, NEW r \in TmResources, NEW row,
           row = span_to_row(s, from_resource(r))
    PROVE  /\ row.id = or_else(attr_string(s, "id"), attr_string(r, "id"))
           /\ row.name = or_else(or_else(attr_string(s, "name"), attr_string(s, "title")),
                                 or_else(attr_string(r, "name"), attr_string(r, "title")))
           /\ row.status = attr_string(s, "status") /\ row.met = attr_bool(s, "met")
           /\ row.recovery = attr_double(s, "recovery")
           /\ row.plugin = or_else(attr_string(s, "plugin"), attr_string(s, "alias"))
           /\ row.service = attr_string(r, "service")
           /\ row.span_attrs = unpromoted_attrs(s, PROMOTED_SPAN_KEYS)
           /\ row.resource_attrs = unpromoted_attrs(r, {"service", "id", "name", "title"})
BY DEF span_to_row, from_resource

(* What is left over for the map of attributes. *)
LEMMA TmOthers ==
    ASSUME NEW a, NEW promoted
    PROVE  /\ Values(unpromoted_attrs(a, promoted)) \subseteq Values(a) \cup {<<"">>}
           /\ \A k \in DOMAIN a \ promoted :
                a[k] # Absent => any_value_to_string(a[k]) \in Values(unpromoted_attrs(a, promoted))
<1> DEFINE f == unpromoted_attrs(a, promoted)
<1>1. /\ DOMAIN f = {k \in DOMAIN a \ promoted : a[k] # Absent}
      /\ \A k \in DOMAIN f : f[k] = any_value_to_string(a[k])
  BY DEF unpromoted_attrs
<1>2. \A v : any_value_to_string(v) \in {v, <<"">>}
  BY DEF any_value_to_string
<1> HIDE DEF f
<1>3. Values(f) \subseteq Values(a) \cup {<<"">>}
  BY <1>1, <1>2 DEF Values
<1>4. \A k \in DOMAIN a \ promoted : a[k] # Absent => any_value_to_string(a[k]) \in Values(f)
  BY <1>1 DEF Values
<1> QED  BY <1>3, <1>4 DEF f

(* A row has nothing its span and resource do not have, and drops what it may. *)
LEMMA TmRowHolds ==
    ASSUME NEW s \in TmSpans, NEW r \in TmResources
    PROVE  RowHolds(s, r)
<1>1. PICK row : row = span_to_row(s, from_resource(r))
  OBVIOUS
<1>a. /\ row.id = or_else(attr_string(s, "id"), attr_string(r, "id"))
      /\ row.name = or_else(or_else(attr_string(s, "name"), attr_string(s, "title")),
                            or_else(attr_string(r, "name"), attr_string(r, "title")))
      /\ row.status = attr_string(s, "status") /\ row.met = attr_bool(s, "met")
      /\ row.recovery = attr_double(s, "recovery")
      /\ row.plugin = or_else(attr_string(s, "plugin"), attr_string(s, "alias"))
      /\ row.service = attr_string(r, "service")
      /\ row.span_attrs = unpromoted_attrs(s, PROMOTED_SPAN_KEYS)
      /\ row.resource_attrs = unpromoted_attrs(r, {"service", "id", "name", "title"})
  BY <1>1, TmRowOf
<1>b. /\ \A a, k : attr_string(a, k) = Absent <=> a[k] = Absent
      /\ \A a, c : or_else(a, c) = IF a = Absent THEN c ELSE a
  BY TmColumns
<1>c. \A k : s[k] # Interned => attr_string(s, k) = s[k]
  BY TmColumns
<1>d. \A k : attr_string(s, k) \in {s[k], <<"">>}
  BY TmColumns
<1> DEFINE columns == {row.id, row.name, row.status, row.met, row.recovery, row.plugin, row.service}
           kept == columns \cup Values(row.span_attrs) \cup Values(row.resource_attrs)
<1>2. /\ \A k \in DOMAIN s : s[k] \in Values(s)
      /\ \A k \in DOMAIN r : r[k] \in Values(r)
  BY DEF Values
<1>3. kept \ {<<"">>} \subseteq Values(s) \cup Values(r) \cup {Absent}
  <2> DEFINE Known == Values(s) \cup Values(r) \cup {Absent, <<"">>}
  <2>1. \A k \in DOMAIN s : attr_string(s, k) \in Known
    BY <1>2, TmColumns
  <2>2. \A k \in DOMAIN r : attr_string(r, k) \in Known
    BY <1>2, TmColumns
  <2>3. \A k \in DOMAIN s : attr_bool(s, k) \in Known /\ attr_double(s, k) \in Known
    BY <1>2, TmColumns DEF attr_double
  <2>4. \A a, b \in Known : or_else(a, b) \in Known
    BY TmColumns
  <2>5. /\ \A k \in {"id", "name", "title", "status", "met", "recovery", "plugin", "alias"} : k \in DOMAIN s
        /\ \A k \in {"service", "id", "name", "title"} : k \in DOMAIN r
    BY TmSpanOf, TmResourceOf
  <2> HIDE DEF Known
  <2>6. columns \subseteq Known
    BY <1>a, <2>1, <2>2, <2>3, <2>4, <2>5
  <2>7. Values(row.span_attrs) \subseteq Known /\ Values(row.resource_attrs) \subseteq Known
    <3>1. /\ Values(row.span_attrs) \subseteq Values(s) \cup {<<"">>}
          /\ Values(row.resource_attrs) \subseteq Values(r) \cup {<<"">>}
      BY <1>a, TmOthers
    <3> QED  BY <3>1 DEF Known
  <2> QED  BY <2>6, <2>7 DEF Known
<1>4. ASSUME NEW k \in DOMAIN s
      PROVE  \/ any_value_to_string(s[k]) \in kept \cup {Absent}
             \/ k = "title" /\ s["name"] # Absent
             \/ k = "alias" /\ s["plugin"] # Absent
             \/ k = "met" /\ s[k] # Truth
             \/ k = "recovery" /\ s[k] # Seconds
  <2>1. any_value_to_string(s[k]) = attr_string(s, k)
    BY TmColumns
  <2>2. CASE k = "id"
    BY <1>a, <2>1, <2>2, TmColumns
  <2>3. CASE k = "name"
    BY <1>a, <2>1, <2>3, TmColumns
  <2>4. CASE k = "title"
    BY <1>a, <1>b, <2>1, <2>4
  <2>5. CASE k = "status"
    BY <1>a, <2>1, <2>5
  <2>6. CASE k = "met"
    <3>1. s["met"] = Truth => any_value_to_string(s["met"]) = Truth
      BY TmTexts DEF any_value_to_string
    <3>2. s["met"] = Truth => row.met = Truth
      BY <1>a DEF attr_bool
    <3> QED  BY <2>6, <3>1, <3>2
  <2>10. CASE k = "recovery"
    <3>1. s["recovery"] = Seconds => any_value_to_string(s["recovery"]) = Seconds
      BY TmTexts DEF any_value_to_string, Seconds
    <3>2. s["recovery"] = Seconds => row.recovery = Seconds
      BY <1>a DEF attr_double
    <3> QED  BY <2>10, <3>1, <3>2
  <2>7. CASE k = "plugin"
    BY <1>a, <2>1, <2>7, TmColumns
  <2>8. CASE k = "alias"
    BY <1>a, <1>b, <2>1, <2>8
  <2>9. CASE k = "other"
    <3>1. k \in DOMAIN s \ PROMOTED_SPAN_KEYS
      BY <2>9 DEF PROMOTED_SPAN_KEYS
    <3>2. s[k] # Absent => any_value_to_string(s[k]) \in Values(row.span_attrs)
      BY <1>a, <3>1, TmOthers
    <3> QED  BY <2>1, <3>2, TmColumns
  <2> QED  BY <2>2, <2>3, <2>4, <2>5, <2>6, <2>7, <2>8, <2>9, <2>10, TmSpanOf
<1>5. \A v \in Values(r) \ {Absent} : \E k : v = <<"resource", k>>
  BY TmResourceOf DEF Values
<1>6. row.id \in Values(r) \ {Absent} => s["id"] = Absent
  <2>1. s["id"] # Absent => row.id = <<"span", "id">>
    <3>1. s["id"] # Absent => s["id"] = <<"span", "id">> /\ s["id"] # Interned
      BY TmSpanOf, TmTexts
    <3> QED  BY <1>a, <1>b, <1>c, <3>1
  <2> QED  BY <1>5, <2>1, TmTexts
<1>7. row.name \in Values(r) \ {Absent} => s["name"] = Absent /\ s["title"] = Absent
  <2>1. s["name"] # Absent \/ s["title"] # Absent =>
          row.name \in {<<"span", "name">>, <<"span", "title">>, <<"">>}
    <3>1. /\ s["name"] # Absent => attr_string(s, "name") \in {<<"span", "name">>, <<"">>}
          /\ s["title"] # Absent => attr_string(s, "title") \in {<<"span", "title">>, <<"">>}
      <4>1. /\ s["name"] # Absent => s["name"] = Interned \/ s["name"] = <<"span", "name">>
            /\ s["title"] # Absent => s["title"] = <<"span", "title">>
        BY TmSpanOf
      <4>2. attr_string(s, "name") = <<"">> \/ s["name"] # Interned
        BY TmColumns DEF any_value_to_string
      <4> QED  BY <1>c, <1>d, <4>1, <4>2
    <3> QED  BY <1>a, <1>b, <3>1
  <2>2. \A k : <<"resource", k>> # <<"">>
    BY TmTexts
  <2> QED  BY <1>5, <2>1, <2>2, TmTexts
<1>8. row.id = Absent => r["id"] = Absent
  BY <1>a, <1>b
<1> HIDE DEF kept
<1>9. RowHolds(s, r)
  BY <1>1, <1>3, <1>4, <1>6, <1>7, <1>8 DEF RowHolds, kept, columns
<1> QED  BY <1>9

(* Rows are right and times are in range. *)
LEMMA TmConversions == ConversionsHold
<1> USE TmAssumption
<1>1. ASSUME NEW a \in 0 .. TmMaxInt + 2, NEW b \in 0 .. TmMaxInt + 2
      PROVE  /\ span_times(a, b).ts \in 0 .. TmMaxInt /\ span_times(a, b).duration \in 0 .. TmMaxInt
             /\ a <= TmMaxInt => span_times(a, b).ts = a
             /\ \A received \in 1 .. TmMaxInt : log_ts(a, b, received) \in 1 .. TmMaxInt
  BY <1>1 DEF span_times, log_ts, saturated
<1> QED  BY <1>1, TmRowHolds DEF ConversionsHold
-----------------------------------------------------------------------------
(* For any exporters, ports, requests and retries, any capacity of the queue,
   crashes and failing writes: an exporter that was told its rows are stored
   has them, a retry adds no more rows than its tries, a remote exporter without
   a token stores nothing, and every span and log keeps what its request said. *)
THEOREM TelemetrySoundAlways == TmSpec => []TelemetrySound
<1>1. TmIInv => TelemetrySound
  BY TmAnswers, TmConversions DEF TelemetrySound
<1>2. TmIInv /\ [TmNext]_tmVars => TmIInv'
  BY TmStep
<1> QED  BY <1>1, <1>2, TmStart, PTL DEF TmSpec

(* In the composed services, whichever runs: what a caller of the ingest writer
   or an exporter was told of its rows is true.                              *)
THEOREM IntakeSoundAlways == Spec => []IntakeSound
<1>1. Init => DaemonIInv /\ TmIInv
  BY DaemonInitInv, TmStart DEF Init, DaemonRests, TmRests
<1>2. DaemonIInv /\ TmIInv /\ [Next]_vars => DaemonIInv' /\ TmIInv'
  <2> SUFFICES ASSUME DaemonIInv, TmIInv, [Next]_vars PROVE DaemonIInv' /\ TmIInv'
    OBVIOUS
  <2>1. [DaemonNext]_dmVars /\ [TmNext]_tmVars
    BY DEF Next, vars
  <2> QED  BY <2>1, DaemonStep, TmStep
<1>3. DaemonIInv /\ TmIInv => IntakeSound
  BY DaemonStopTrue, TmAnswers, TmConversions DEF IntakeSound, TelemetrySound
<1> QED  BY <1>1, <1>2, <1>3, PTL DEF Spec
=============================================================================
