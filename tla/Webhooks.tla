------------------------------ MODULE Webhooks ------------------------------
(***************************************************************************)
(* Outbound notifications: the rows (tumult-lake/src/webhooks.rs), their   *)
(* handlers (tumult-api/src/webhooks.rs) and the dispatcher (tumult-       *)
(* ingest/src/webhooks/dispatcher.rs).  Each tick starts one task per      *)
(* endpoint; a task reads its cursor and a batch of audit events, posts    *)
(* them one by one, and moves the cursor in one closure at the end.        *)
(* Backoff lives in memory only.                                           *)
(***************************************************************************)
EXTENDS Naturals, FiniteSets, FiniteSetsExt, Sequences

CONSTANTS
    Hooks,          \* webhook ids
    EventKinds,     \* names of audit events
    HookEvents,     \* hook.events: the names it wants, {} for all
    BatchLimit,     \* LIMIT of the batch query
    MaxAttempts,    \* TUMULTD_WEBHOOK_MAX_ATTEMPTS
    ClockSkew,      \* how far the clock may be set back for an event
    HookMaxEvents,  \* bound: audit events written
    HookMaxFaults   \* bound: budget overruns, refused writes and crashes

ASSUME HookAssumption ==
    /\ HookEvents \in [Hooks -> SUBSET EventKinds]
    /\ BatchLimit \in Nat \ {0} /\ MaxAttempts \in Nat \ {0}
    /\ ClockSkew \in Nat /\ HookMaxEvents \in Nat /\ HookMaxFaults \in Nat

VARIABLES
    hookClock,      \* now_ns()
    hookAudit,      \* run_audit, in the order of its inserts
    hookRow,        \* the row: "none", "enabled", "disabled", "deleted"
    hookCursor,     \* webhook_cursors.last_at_ns
    hookLetters,    \* webhook_dead_letters, as indices of hookAudit
    hookFailures,   \* EndpointBackoff.failures, as far as it is compared
    hookWait,       \* ticks the endpoint still skips
    hookAllowed,    \* validate_webhook_url accepts its URL in this environment
    hookPc,         \* the endpoint's task: "off", "read", "post", "write"
    hookBatch,      \* the events it read
    hookLeft,       \* those it has not come to
    hookUpTo,       \* delivered_up_to
    hookFailed,     \* outcome.failed
    hookFaults,     \* faults so far, for the bound
    hookDelivered,  \* history: the events its receiver has accepted
    hookStale       \* history: events written behind what the hook had read

hookTask == <<hookPc, hookBatch, hookLeft, hookUpTo, hookFailed>>
hookBackoff == <<hookFailures, hookWait>>
hookStore == <<hookAudit, hookRow, hookCursor, hookLetters, hookAllowed>>
hookVars == <<hookClock, hookStore, hookBackoff, hookTask, hookFaults,
              hookDelivered, hookStale>>

HookInit ==
    /\ hookClock = 1 /\ hookAudit = <<>>
    /\ hookRow = [h \in Hooks |-> "none"]
    /\ hookCursor = [h \in Hooks |-> 0]
    /\ hookLetters = [h \in Hooks |-> {}]
    /\ hookAllowed = [h \in Hooks |-> TRUE]
    /\ hookFailures = [h \in Hooks |-> 0] /\ hookWait = [h \in Hooks |-> 0]
    /\ hookPc = [h \in Hooks |-> "off"]
    /\ hookBatch = [h \in Hooks |-> {}] /\ hookLeft = [h \in Hooks |-> {}]
    /\ hookUpTo = [h \in Hooks |-> 0] /\ hookFailed = [h \in Hooks |-> FALSE]
    /\ hookFaults = 0
    /\ hookDelivered = [h \in Hooks |-> {}] /\ hookStale = [h \in Hooks |-> {}]

At(e) == hookAudit[e].at
AuditRows == 1 .. Len(hookAudit)
Wanted(h, e) == HookEvents[h] = {} \/ hookAudit[e].kind \in HookEvents[h]
Latest(S, least) == Max({At(e) : e \in S} \cup {least})

-----------------------------------------------------------------------------
(* The audit log and the handlers.                                         *)

\* insert_run_audit reads the clock inside its closure.  Two events may fall
\* into one tick of the clock, and a clock that was set back writes a time
\* that is older than one already there.
HookAuditInsert(kind, back, passes) ==
    /\ Len(hookAudit) < HookMaxEvents /\ back < hookClock
    /\ hookAudit' = Append(hookAudit, [at |-> hookClock - back, kind |-> kind])
    /\ hookClock' = hookClock + passes
    /\ hookStale' = [h \in Hooks |->
         IF hookClock - back <= Latest(hookBatch[h], hookCursor[h])
           THEN hookStale[h] \cup {Len(hookAudit) + 1} ELSE hookStale[h]]
    /\ UNCHANGED <<hookRow, hookCursor, hookLetters, hookAllowed, hookBackoff, hookTask,
                   hookFaults, hookDelivered>>

\* POST /api/webhooks: the row, and a cursor at the clock of its creation.
HookCreate(h) ==
    /\ hookRow[h] = "none"
    /\ hookRow' = [hookRow EXCEPT ![h] = "enabled"]
    /\ hookCursor' = [hookCursor EXCEPT ![h] = hookClock]
    /\ hookStale' = [hookStale EXCEPT ![h] = {e \in AuditRows : At(e) <= hookClock}]
    /\ UNCHANGED <<hookClock, hookAudit, hookLetters, hookAllowed, hookBackoff, hookTask,
                   hookFaults, hookDelivered>>

HookSetEnabled(h, flag) ==
    /\ hookRow[h] \in {"enabled", "disabled"} \ {flag}
    /\ hookRow' = [hookRow EXCEPT ![h] = flag]
    /\ UNCHANGED <<hookClock, hookAudit, hookCursor, hookLetters, hookAllowed, hookBackoff,
                   hookTask, hookFaults, hookDelivered, hookStale>>

\* delete_webhook takes the cursor with it; ids are not drawn again.
HookDelete(h) ==
    /\ hookRow[h] \in {"enabled", "disabled"}
    /\ hookRow' = [hookRow EXCEPT ![h] = "deleted"]
    /\ UNCHANGED <<hookClock, hookAudit, hookCursor, hookLetters, hookAllowed, hookBackoff,
                   hookTask, hookFaults, hookDelivered, hookStale>>

-----------------------------------------------------------------------------
(* The dispatcher.                                                         *)

\* dispatch_pending starts when every task of the last tick is joined, and
\* spawns a task for each enabled hook whose backoff is over.
DispatchPending ==
    /\ \A h \in Hooks : hookPc[h] = "off"
    /\ \E h \in Hooks : hookRow[h] = "enabled"
    /\ hookPc' = [h \in Hooks |-> IF hookRow[h] = "enabled" /\ hookWait[h] = 0
                                    THEN "read" ELSE "off"]
    /\ hookWait' = [h \in Hooks |-> IF hookWait[h] > 0 THEN hookWait[h] - 1 ELSE 0]
    /\ UNCHANGED <<hookClock, hookStore, hookFailures, hookBatch, hookLeft,
                   hookUpTo, hookFailed, hookFaults, hookDelivered, hookStale>>

\* record_failure: 1, 2, 4, 8 ticks; failures is capped where nothing that
\* compares it tells more apart.
RecordFailure(h) ==
    LET failures == hookFailures[h] + 1 IN
    /\ hookFailures' = [hookFailures EXCEPT ![h] =
                          Min({failures, Max({MaxAttempts, 4})})]
    /\ hookWait' = [hookWait EXCEPT ![h] = 2 ^ Min({failures - 1, 3}) - 1]

RecordSuccess(h) ==
    /\ hookFailures' = [hookFailures EXCEPT ![h] = 0]
    /\ hookWait' = [hookWait EXCEPT ![h] = 0]

TaskEnds(h) ==
    /\ hookPc' = [hookPc EXCEPT ![h] = "off"]
    /\ hookBatch' = [hookBatch EXCEPT ![h] = {}]
    /\ hookLeft' = [hookLeft EXCEPT ![h] = {}]
    /\ hookUpTo' = [hookUpTo EXCEPT ![h] = 0]
    /\ hookFailed' = [hookFailed EXCEPT ![h] = FALSE]

Pending(h) == {e \in AuditRows : At(e) > hookCursor[h]}

\* at_ns > cursor ORDER BY at_ns LIMIT 100; equal times in any order.
FirstOf(S, batch) ==
    /\ batch \subseteq S /\ Cardinality(batch) = Min({Cardinality(S), BatchLimit})
    /\ \A e \in batch, f \in S \ batch : At(e) <= At(f)

\* dispatch_one reads cursor and batch; with no events, or with a URL that the
\* policy refuses, the tick is clean.
DispatchRead(h) ==
    /\ hookPc[h] = "read"
    /\ \/ /\ Pending(h) = {} \/ ~hookAllowed[h]
          /\ RecordSuccess(h) /\ TaskEnds(h)
       \/ /\ Pending(h) # {} /\ hookAllowed[h]
          /\ \E batch \in SUBSET Pending(h) :
               /\ FirstOf(Pending(h), batch)
               /\ hookBatch' = [hookBatch EXCEPT ![h] = batch]
               /\ hookLeft' = [hookLeft EXCEPT ![h] = batch]
          /\ hookUpTo' = [hookUpTo EXCEPT ![h] = hookCursor[h]]
          /\ hookPc' = [hookPc EXCEPT ![h] = "post"]
          /\ UNCHANGED <<hookFailed, hookBackoff>>
    /\ UNCHANGED <<hookClock, hookStore, hookFaults, hookDelivered, hookStale>>

\* One event of the batch: passed over, accepted, or refused, which ends the
\* loop.
PostSigned(h, e, accepted) ==
    /\ hookPc[h] = "post" /\ e \in hookLeft[h]
    /\ \A f \in hookLeft[h] : At(e) <= At(f)
    /\ IF accepted \/ ~Wanted(h, e)
         THEN /\ hookLeft' = [hookLeft EXCEPT ![h] = @ \ {e}]
              /\ hookUpTo' = [hookUpTo EXCEPT ![h] = Latest({e}, @)]
              /\ hookPc' = [hookPc EXCEPT ![h] =
                              IF hookLeft[h] = {e} THEN "write" ELSE "post"]
              /\ UNCHANGED hookFailed
         ELSE /\ hookFailed' = [hookFailed EXCEPT ![h] = TRUE]
              /\ hookPc' = [hookPc EXCEPT ![h] = "write"]
              /\ UNCHANGED <<hookLeft, hookUpTo>>
    /\ hookDelivered' = [hookDelivered EXCEPT ![h] =
                           IF accepted /\ Wanted(h, e) THEN @ \cup {e} ELSE @]
    /\ UNCHANGED <<hookClock, hookStore, hookBackoff, hookBatch, hookFaults,
                   hookStale>>

\* Mutant: the batch is retried for ever.
DeadLetter_Never(h) == FALSE

DeadLetter(h) == hookFailed[h] /\ hookFailures[h] + 1 >= MaxAttempts

DeadLetters(h) ==
    IF DeadLetter(h)
      THEN {e \in hookBatch[h] : At(e) > hookUpTo[h] /\ Wanted(h, e)} ELSE {}

\* Mutant: the cursor passes the whole batch, whatever was refused.
NewCursor_WholeBatch(h) == Latest(hookBatch[h], hookCursor[h])

NewCursor(h) ==
    IF DeadLetter(h) THEN Latest(hookBatch[h], hookCursor[h]) ELSE hookUpTo[h]

\* The closure: the dead letters, then the cursor.
CursorWrite(h) ==
    /\ hookLetters' = [hookLetters EXCEPT ![h] = @ \cup DeadLetters(h)]
    /\ hookCursor' = [hookCursor EXCEPT ![h] = NewCursor(h)]
    /\ UNCHANGED <<hookAudit, hookRow, hookAllowed>>

\* dispatch_one returns: record_outcome resets the backoff after a clean tick
\* and after dead letters, and lengthens it after any other failure.
DispatchWrite(h) ==
    /\ hookPc[h] = "write" /\ CursorWrite(h) /\ TaskEnds(h)
    /\ IF hookFailed[h] /\ DeadLetters(h) = {}
         THEN RecordFailure(h) ELSE RecordSuccess(h)
    /\ UNCHANGED <<hookClock, hookFaults, hookDelivered, hookStale>>

\* The budget runs out, or the store refuses: the task is dropped where it
\* stands.  A closure already sent is applied all the same; one that fails
\* half-way leaves its dead letters.
DispatchLost(h) ==
    /\ hookPc[h] # "off" /\ hookFaults < HookMaxFaults
    /\ hookFaults' = hookFaults + 1
    /\ TaskEnds(h) /\ RecordFailure(h)
    /\ \/ UNCHANGED hookStore
       \/ hookPc[h] = "write" /\ CursorWrite(h)
       \/ /\ hookPc[h] = "write"
          /\ hookLetters' = [hookLetters EXCEPT ![h] = @ \cup DeadLetters(h)]
          /\ UNCHANGED <<hookAudit, hookRow, hookCursor, hookAllowed>>
    /\ UNCHANGED <<hookClock, hookDelivered, hookStale>>

\* validate_webhook_url: scheme, host and the two flags of the environment
\* decide, so an accepted URL may be refused under the next start's flags.
PolicyVerdicts == [Hooks -> BOOLEAN]

\* The daemon dies: tasks and backoff are gone, and the flags that loosen the
\* URL policy may be others when it comes back.
HookCrash ==
    /\ hookFaults < HookMaxFaults /\ hookFaults' = hookFaults + 1
    /\ hookPc' = [h \in Hooks |-> "off"]
    /\ hookBatch' = [h \in Hooks |-> {}] /\ hookLeft' = [h \in Hooks |-> {}]
    /\ hookUpTo' = [h \in Hooks |-> 0] /\ hookFailed' = [h \in Hooks |-> FALSE]
    /\ hookFailures' = [h \in Hooks |-> 0] /\ hookWait' = [h \in Hooks |-> 0]
    /\ hookAllowed' \in PolicyVerdicts
    /\ UNCHANGED <<hookClock, hookAudit, hookRow, hookCursor, hookLetters,
                   hookDelivered, hookStale>>

DispatcherStep ==
    \/ DispatchPending
    \/ \E h \in Hooks :
         \/ DispatchRead(h) \/ DispatchWrite(h)
         \/ \E e \in hookLeft[h], accepted \in BOOLEAN : PostSigned(h, e, accepted)

HookNext ==
    \/ \E kind \in EventKinds, back \in 0 .. ClockSkew, passes \in {0, 1} :
         HookAuditInsert(kind, back, passes)
    \/ \E h \in Hooks : HookCreate(h) \/ HookDelete(h) \/ DispatchLost(h)
    \/ \E h \in Hooks, flag \in {"enabled", "disabled"} : HookSetEnabled(h, flag)
    \/ DispatcherStep \/ HookCrash

\* The dispatcher is a periodic loop, and a POST ends with the client's
\* timeout; no receiver has to accept anything.
HookFairness ==
    /\ WF_hookVars(DispatchPending)
    /\ \A h \in Hooks :
         WF_hookVars((DispatchRead(h) \/ DispatchWrite(h)
              \/ \E e \in hookLeft[h], ok \in BOOLEAN : PostSigned(h, e, ok)))

HookSpec == HookInit /\ [][HookNext]_hookVars /\ HookFairness

-----------------------------------------------------------------------------
Passed(h) == {e \in AuditRows : At(e) <= hookCursor[h] /\ Wanted(h, e)}
Accounted(h) == hookDelivered[h] \cup hookLetters[h]

(* What the cursor has passed is accounted for: a wanted event at or before
   it was accepted by the receiver or is a dead letter, whatever crashed, ran
   out of time or was refused on the way.  Two events escape that, because the
   cursor is a time and not a position: one that was inserted behind what the
   hook had already read, and one that shares its time with another. *)
HookLossAccounted ==
    \A h \in Hooks : \A e \in Passed(h) \ (Accounted(h) \cup hookStale[h]) :
        \E f \in AuditRows \ {e} : At(f) = At(e)

(* webhooks.rs, "loss is never silent": every wanted event that the cursor has
   passed, and that was written after the hook was created, was delivered or
   is a dead letter. *)
LossNeverSilent ==
    \A h \in Hooks : Passed(h) \subseteq Accounted(h) \cup hookStale[h]

(* A dead or slow receiver cannot hold the cursor for ever: while a hook stays
   enabled and its URL allowed, every event it has not passed is passed in the end, delivered or
   given up, although its backoff grows and a restart forgets it. *)
HookProgress ==
    \A h \in Hooks : []<>(hookRow[h] # "enabled" \/ ~hookAllowed[h] \/ Pending(h) = {})

=============================================================================
