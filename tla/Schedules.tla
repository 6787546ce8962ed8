----------------------------- MODULE Schedules -----------------------------
(***************************************************************************)
(* Interval schedules: the rows (tumult-lake/src/schedules.rs), the        *)
(* handlers that create, pause and delete them (tumult-api/src/            *)
(* schedules.rs) and the scheduler that fires them (tumult-ingest/src/     *)
(* schedules.rs).  A fire and the advance of its row are two steps, and    *)
(* the tick works from the rows and the clock it read at its start.        *)
(***************************************************************************)
EXTENDS Naturals

CONSTANTS
    Schedules,      \* ids a create handler may draw
    Interval,       \* interval_s of each schedule, in units of the clock
    SchedMaxTime,   \* bound: the clock stops here
    SchedMaxLost    \* bound: crashes and refused writes

ASSUME SchedAssumption ==
    /\ Interval \in [Schedules -> Nat \ {0}]
    /\ SchedMaxTime \in Nat /\ SchedMaxLost \in Nat

VARIABLES
    schedClock,     \* now_ns()
    schedRow,       \* the row: absent, "enabled", "disabled" or "deleted"
    schedNext,      \* next_run_at_ns
    schedBroken,    \* the definition does not resolve (registry, owner apart)
    schedPc,        \* the tick: "idle", "fire", "check", "advance"
    schedTickNow,   \* the clock the tick read
    schedTodo,      \* the due rows the tick read and has not finished
    schedCur,       \* the schedule in hand, {} or a singleton
    schedRan,       \* fire_one returned a run id for it
    schedFaults,    \* ticks lost so far, for the bound
    schedBorn,      \* history: when the row was created
    schedFires,     \* history: runs enqueued for the schedule
    schedLost,      \* history: fires whose advance was lost
    schedLate       \* history: fires since the row was paused or deleted

schedVars == <<schedClock, schedRow, schedNext, schedBroken, schedPc,
               schedTickNow, schedTodo, schedCur, schedRan,
               schedFaults, schedBorn, schedFires, schedLost, schedLate>>

schedTick == <<schedPc, schedTickNow, schedTodo, schedCur, schedRan, schedFaults>>
schedHistory == <<schedBorn, schedFires, schedLost, schedLate>>

SchedTypeOK ==
    /\ schedClock \in Nat
    /\ schedRow \in [Schedules -> {"none", "enabled", "disabled", "deleted"}]
    /\ schedNext \in [Schedules -> Nat]
    /\ schedBroken \in [Schedules -> BOOLEAN]
    /\ schedPc \in {"idle", "fire", "check", "advance"}
    /\ schedTickNow \in Nat
    /\ schedTodo \subseteq Schedules
    /\ schedCur \subseteq Schedules /\ schedRan \in BOOLEAN
    /\ schedFaults \in Nat
    /\ schedBorn \in [Schedules -> Nat]
    /\ schedFires \in [Schedules -> Nat]
    /\ schedLost \in [Schedules -> Nat]
    /\ schedLate \in [Schedules -> Nat]

SchedInit ==
    /\ schedClock = 0
    /\ schedRow = [s \in Schedules |-> "none"]
    /\ schedNext = [s \in Schedules |-> 0]
    /\ schedBroken = [s \in Schedules |-> FALSE]
    /\ schedPc = "idle" /\ schedTickNow = 0
    /\ schedTodo = {} /\ schedCur = {} /\ schedRan = FALSE /\ schedFaults = 0
    /\ schedBorn = [s \in Schedules |-> 0]
    /\ schedFires = [s \in Schedules |-> 0]
    /\ schedLost = [s \in Schedules |-> 0]
    /\ schedLate = [s \in Schedules |-> 0]

-----------------------------------------------------------------------------
(* The handlers, each one closure on the writer.                           *)

\* Mutant: the first fire is due at once.
SchedCreate_AtOnce(s) ==
    /\ schedRow[s] = "none" /\ ~schedBroken[s]
    /\ schedRow' = [schedRow EXCEPT ![s] = "enabled"]
    /\ schedNext' = [schedNext EXCEPT ![s] = schedClock]
    /\ schedBorn' = [schedBorn EXCEPT ![s] = schedClock]
    /\ UNCHANGED <<schedClock, schedBroken, schedTick, schedFires, schedLost,
                   schedLate>>

\* POST /api/schedules: enabled, the first fire one interval from now; a
\* definition that does not resolve is refused.
SchedCreate(s) ==
    /\ schedRow[s] = "none" /\ ~schedBroken[s]
    /\ schedRow' = [schedRow EXCEPT ![s] = "enabled"]
    /\ schedNext' = [schedNext EXCEPT ![s] = schedClock + Interval[s]]
    /\ schedBorn' = [schedBorn EXCEPT ![s] = schedClock]
    /\ UNCHANGED <<schedClock, schedBroken, schedTick, schedFires, schedLost,
                   schedLate>>

\* POST /api/schedules/{id}/enable: only the flag; next_run_at_ns stays.
SchedSetEnabled(s, flag) ==
    /\ schedRow[s] \in {"enabled", "disabled"}
    /\ schedRow' = [schedRow EXCEPT ![s] = flag]
    /\ schedLate' = [schedLate EXCEPT ![s] = IF flag = "enabled" THEN 0 ELSE @]
    /\ UNCHANGED <<schedClock, schedNext, schedBroken, schedTick, schedBorn,
                   schedFires, schedLost>>

\* POST /api/schedules/{id}/delete.
SchedDelete(s) ==
    /\ schedRow[s] \in {"enabled", "disabled"}
    /\ schedRow' = [schedRow EXCEPT ![s] = "deleted"]
    /\ UNCHANGED <<schedClock, schedNext, schedBroken, schedTick, schedHistory>>

-----------------------------------------------------------------------------
(* The scheduler's tick.                                                   *)

DueSchedules(now) ==
    {s \in Schedules : schedRow[s] = "enabled" /\ schedNext[s] <= now}

\* fire_due_schedules reads the clock once, then the due rows.
SchedTickBegin ==
    /\ schedPc = "idle" /\ DueSchedules(schedClock) # {}
    /\ schedPc' = "fire"
    /\ schedTickNow' = schedClock
    /\ schedTodo' = DueSchedules(schedClock)
    /\ UNCHANGED <<schedFaults, schedClock, schedRow, schedNext, schedBroken, schedCur,
                   schedRan, schedHistory>>

Oldest(s) == s \in schedTodo /\ \A o \in schedTodo : schedNext[s] <= schedNext[o]

\* fire_one enqueues a run (or parks it for approval) ...
FireOne(s) ==
    /\ schedPc = "fire" /\ Oldest(s) /\ ~schedBroken[s]
    /\ schedPc' = "advance" /\ schedRan' = TRUE
    /\ schedTodo' = schedTodo \ {s} /\ schedCur' = {s}
    /\ schedFires' = [schedFires EXCEPT ![s] = @ + 1]
    /\ schedLate' = [schedLate EXCEPT ![s] =
                        IF schedRow[s] = "enabled" THEN 0 ELSE @ + 1]
    /\ UNCHANGED <<schedFaults, schedClock, schedRow, schedNext, schedBroken, schedTickNow,
                   schedBorn, schedLost>>

\* ... or returns None: the definition is broken, its owner or binding is
\* rejected, the queue is full, the store fails.
FireRefused(s) ==
    /\ schedPc = "fire" /\ Oldest(s)
    /\ schedPc' = "check" /\ schedRan' = FALSE
    /\ schedTodo' = schedTodo \ {s} /\ schedCur' = {s}
    /\ UNCHANGED <<schedFaults, schedClock, schedRow, schedNext, schedBroken, schedTickNow,
                   schedHistory>>

\* Mutant: a broken schedule is retried like any other.
ScheduleBroken_Retried ==
    /\ schedPc = "check" /\ schedPc' = "fire" /\ schedCur' = {}
    /\ UNCHANGED <<schedFaults, schedClock, schedRow, schedNext, schedBroken, schedTickNow,
                   schedTodo, schedRan, schedHistory>>

\* schedule_broken reads the definition a second time: a schedule that is not
\* broken keeps its next_run_at_ns and is retried on the next tick.
ScheduleBroken ==
    /\ schedPc = "check"
    /\ \E s \in schedCur :
         \/ schedBroken[s] /\ schedPc' = "advance" /\ schedCur' = schedCur
         \/ ~schedBroken[s] /\ schedPc' = "fire" /\ schedCur' = {}
    /\ UNCHANGED <<schedFaults, schedClock, schedRow, schedNext, schedBroken, schedTickNow,
                   schedTodo, schedRan, schedHistory>>

\* schedule_fired: an UPDATE by id, which a deleted row does not notice.  The
\* next fire is one interval after the clock the tick read.
ScheduleFired ==
    /\ schedPc = "advance"
    /\ schedNext' = [s \in Schedules |->
                       IF s \in schedCur /\ schedRow[s] # "deleted"
                         THEN schedTickNow + Interval[s] ELSE schedNext[s]]
    /\ schedPc' = "fire" /\ schedCur' = {} /\ schedRan' = FALSE
    /\ UNCHANGED <<schedFaults, schedClock, schedRow, schedBroken, schedTickNow, schedTodo,
                   schedHistory>>

SchedTickEnd ==
    /\ schedPc = "fire" /\ schedTodo = {}
    /\ schedPc' = "idle"
    /\ UNCHANGED <<schedFaults, schedClock, schedRow, schedNext, schedBroken, schedTickNow,
                   schedTodo, schedCur, schedRan, schedHistory>>

\* The advance is refused (the error ends the tick), or the daemon dies: the
\* rest of the tick is gone, and so is the advance of what was fired.
SchedTickLost ==
    /\ schedPc # "idle" /\ schedFaults < SchedMaxLost
    /\ schedFaults' = schedFaults + 1
    /\ schedPc' = "idle" /\ schedTodo' = {} /\ schedCur' = {} /\ schedRan' = FALSE
    /\ schedLost' = [s \in Schedules |->
                       schedLost[s] + IF s \in schedCur /\ schedRan THEN 1 ELSE 0]
    /\ UNCHANGED <<schedClock, schedRow, schedNext, schedBroken, schedTickNow,
                   schedBorn, schedFires, schedLate>>

-----------------------------------------------------------------------------
(* What happens around it: time, and edits of the registered definition.   *)

SchedTimePasses ==
    /\ schedClock < SchedMaxTime
    /\ schedClock' = schedClock + 1
    /\ UNCHANGED <<schedRow, schedNext, schedBroken, schedTick, schedHistory>>

DefinitionChanges(s) ==
    /\ schedBroken' = [schedBroken EXCEPT ![s] = ~@]
    /\ UNCHANGED <<schedClock, schedRow, schedNext, schedTick, schedHistory>>

SchedStep ==
    \/ SchedTickBegin \/ ScheduleBroken \/ ScheduleFired \/ SchedTickEnd
    \/ \E s \in Schedules : FireOne(s) \/ FireRefused(s)

SchedNextStep ==
    \/ \E s \in Schedules :
         \/ SchedCreate(s) \/ SchedDelete(s) \/ DefinitionChanges(s)
         \/ \E flag \in {"enabled", "disabled"} : SchedSetEnabled(s, flag)
    \/ SchedStep \/ SchedTickLost \/ SchedTimePasses

\* The ticker is a periodic loop; a queue that is full at one tick and free at
\* the next is met free by a schedule that every tick tries again.
SchedFairness ==
    /\ WF_schedVars(SchedStep)
    /\ \A s \in Schedules : SF_schedVars(FireOne(s))

SchedSpec == SchedInit /\ [][SchedNextStep]_schedVars /\ SchedFairness

-----------------------------------------------------------------------------
SchedRate ==
    \A s \in Schedules :
        schedFires[s] <= ((schedClock - schedBorn[s]) \div Interval[s])
                           + schedLost[s]

SchedOneLateFire == \A s \in Schedules : schedLate[s] <= 1

(* Firing is at-least-once, and no more than that: a schedule has fired at
   most once per interval of its life, plus once for every fire whose advance
   a crash or a refused write lost.  Fires that were missed while the daemon
   was down, or the row paused, are not made up for.  And a pause or a delete
   holds: the tick that read the row before it may still fire it once, and no
   later tick does. *)
SchedPaced == SchedRate /\ SchedOneLateFire

(* A due schedule does not starve behind full queues, broken neighbours and
   aborted ticks: one that stays due, whether its definition resolves or not,
   is advanced (a schedule whose definition keeps changing in between reads is
   not promised anything). *)
SchedDueServed ==
    \A s \in Schedules, broken \in BOOLEAN :
        []<>~(s \in DueSchedules(schedClock) /\ schedBroken[s] = broken)

=============================================================================
