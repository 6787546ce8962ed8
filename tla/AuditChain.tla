----------------------------- MODULE AuditChain -----------------------------
(***************************************************************************)
(* The hash chain of one run's run_audit rows: insert_run_audit in         *)
(* tumult-lake/src/runs.rs links each event to the latest one, and         *)
(* verify_run_audit_chain in tumult-lake/src/approvals.rs recomputes the   *)
(* links.  Both order the rows by their time, and the time is the wall     *)
(* clock of the writer.  A hash is the pair of what it covers.             *)
(***************************************************************************)
EXTENDS Naturals, Sequences, FiniteSets

CONSTANTS
    ChainMaxRows,   \* bound: events of the run
    ChainMaxTime    \* bound: the clock

ASSUME ChainAssumption == ChainMaxRows \in Nat /\ ChainMaxTime \in Nat

VARIABLES
    chClock,        \* now_ns() of the writer
    chRows,         \* the rows by rowid; a deleted row leaves its place empty
    chStepped,      \* history: the clock was set back
    chTampered      \* history: "no", "rewritten", "removed", "truncated"

chVars == <<chClock, chRows, chStepped, chTampered>>

Null == <<>>
Gone == [at |-> 0]

ChInit ==
    /\ chClock = 1 /\ chStepped = FALSE /\ chTampered = "no"
    /\ chRows \in {<<>>, <<[at |-> 1, text |-> "legacy", prev |-> Null, hash |-> Null]>>}

RowIds == {i \in 1 .. Len(chRows) : chRows[i] # Gone}

\* ORDER BY at_ns, rowid
Earlier(i, j) ==
    \/ chRows[i].at < chRows[j].at
    \/ chRows[i].at = chRows[j].at /\ i < j

\* Mutant: the detail is not part of what is hashed.
AuditChainHash_NoDetail(at, text, prev) == <<at, prev>>

AuditChainHash(at, text, prev) == <<at, text, prev>>

\* SELECT new_hash ... ORDER BY at_ns DESC, rowid DESC LIMIT 1
LatestHash ==
    IF RowIds = {} THEN Null
    ELSE chRows[CHOOSE i \in RowIds : \A j \in RowIds \ {i} : Earlier(j, i)].hash

\* insert_run_audit; "passes" says whether the clock moved since.
InsertRunAudit(text, passes) ==
    /\ Len(chRows) < ChainMaxRows /\ chClock + passes <= ChainMaxTime
    /\ chRows' = Append(chRows,
         [at |-> chClock, text |-> text, prev |-> LatestHash,
          hash |-> AuditChainHash(chClock, text, LatestHash)])
    /\ chClock' = chClock + passes
    /\ UNCHANGED <<chStepped, chTampered>>

\* The system's clock is set back, as far as before an event.
ClockStepsBack ==
    /\ chClock > 1 /\ chClock' = chClock - 1 /\ chStepped' = TRUE
    /\ UNCHANGED <<chRows, chTampered>>

\* Somebody edits the table behind the daemon's back: another text, or a row
\* less.
RewriteRow(i) ==
    /\ chTampered = "no" /\ i \in RowIds /\ chRows[i].hash # Null
    /\ chRows' = [chRows EXCEPT ![i].text = "forged"]
    /\ chTampered' = "rewritten"
    /\ UNCHANGED <<chClock, chStepped>>

RemoveRow(i) ==
    /\ chTampered = "no" /\ i \in RowIds /\ chRows[i].hash # Null
    /\ chRows' = [chRows EXCEPT ![i] = Gone]
    /\ chTampered' = IF \E j \in RowIds : Earlier(i, j) THEN "removed" ELSE "truncated"
    /\ UNCHANGED <<chClock, chStepped>>

ChNext ==
    \/ \E text \in {"a", "b"}, passes \in {0, 1} : InsertRunAudit(text, passes)
    \/ ClockStepsBack
    \/ \E i \in RowIds : RewriteRow(i) \/ RemoveRow(i)

ChSpec == ChInit /\ [][ChNext]_chVars

-----------------------------------------------------------------------------
Chained == {i \in RowIds : chRows[i].hash # Null}
First(i) == \A j \in Chained \ {i} : Earlier(i, j)
Follows(i, j) == Earlier(i, j) /\ ~\E k \in Chained : Earlier(i, k) /\ Earlier(k, j)

\* verify_run_audit_chain: rows without a hash are skipped; each link must
\* name the hash of the one before it and recompute.
VerifyRunAuditChain ==
    /\ \A i \in Chained :
         chRows[i].hash = AuditChainHash(chRows[i].at, chRows[i].text, chRows[i].prev)
    /\ \A i \in Chained : First(i) => chRows[i].prev = Null
    /\ \A i, j \in Chained : Follows(i, j) => chRows[j].prev = chRows[i].hash

(* The verdict on a trail is right while the clock of the writer is not set
   back: a trail that nobody touched verifies, events in the same tick of the
   clock and rows from before the chain included, and a row rewritten or
   removed from the middle is noticed however many events follow.  A trail
   whose end was cut off verifies. *)
ChainVerdictRight ==
    ~chStepped => (VerifyRunAuditChain <=> chTampered \in {"no", "truncated"})

(* approvals.rs, verify_run_audit_chain: "Returns `false` if ... i.e. the trail
   was tampered with".  An untouched trail verifies, whatever the clock did. *)
UntouchedVerifies == chTampered = "no" => VerifyRunAuditChain

=============================================================================
