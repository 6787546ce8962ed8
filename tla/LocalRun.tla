------------------------------ MODULE LocalRun ------------------------------
(***************************************************************************)
(* `tumult run`: the checks before a run, its journal file, and the        *)
(* ingestion of the journal (tumult-cli/src/commands/run.rs, tumult-core/  *)
(* src/journal.rs).  Runs of several shells share a journal path and a     *)
(* store.  A daemon, when there is one, holds the store's lock and imports *)
(* on request (tumult-api/src/import.rs); without one the CLI opens the    *)
(* store itself, and with ClickHouse it inserts table by table.            *)
(***************************************************************************)
EXTENDS Naturals

CONSTANTS
    LocalRuns,      \* runs, all with the same --journal-path
    Forced,         \* those started with --force
    LocalMaxFaults  \* bound: faults of the store, the daemon and the disk

ASSUME LocalAssumption == Forced \subseteq LocalRuns /\ LocalMaxFaults \in Nat

VARIABLES
    lrBackend,   \* "duckdb" or "clickhouse"
    lrPc,        \* where each run is
    lrFile,      \* whose journal is at the path, {} before the first
    lrDaemon,    \* "up" or "down"
    lrPending,   \* imports the daemon received and has not applied
    lrLock,      \* the run that has the store open, {} for none
    lrRows,      \* rows of each run in experiments
    lrWhole,     \* runs whose activity rows are there
    lrFaults,    \* faults so far, for the bound
    lrDestroyed  \* history: runs whose journal an unforced run has replaced

lrVars == <<lrBackend, lrPc, lrFile, lrDaemon, lrPending, lrLock, lrRows, lrWhole,
            lrFaults, lrDestroyed>>
lrStore == <<lrRows, lrWhole>>
lrHost == <<lrBackend, lrDaemon, lrPending, lrLock>>

LocalInit ==
    /\ lrBackend \in {"duckdb", "clickhouse"}
    /\ lrPc = [r \in LocalRuns |-> "start"]
    /\ lrFile = {} /\ lrDaemon \in {"up", "down"} /\ lrPending = {} /\ lrLock = {}
    /\ lrRows = [r \in LocalRuns |-> 0] /\ lrWhole = {}
    /\ lrFaults = 0 /\ lrDestroyed = {}

LocalGo(r, pc) == lrPc' = [lrPc EXCEPT ![r] = pc]
LocalFault == lrFaults < LocalMaxFaults /\ lrFaults' = lrFaults + 1

-----------------------------------------------------------------------------
(* cmd_run.                                                                *)

\* The file's size, the journal path, the configuration and the secrets, the
\* template, the validation: the first that fails ends the command, as a dry
\* run does.
CheckRun(r) ==
    /\ lrPc[r] = "start"
    /\ \/ LocalGo(r, "refused")
       \/ (lrFile = {} \/ r \in Forced) /\ LocalGo(r, "checked")
    /\ UNCHANGED <<lrHost, lrFile, lrStore, lrFaults, lrDestroyed>>

\* JournalOutput::prepare: a temporary file next to the destination.
PrepareJournal(r) ==
    /\ lrPc[r] = "checked" /\ LocalGo(r, "prepared")
    /\ UNCHANGED <<lrHost, lrFile, lrStore, lrFaults, lrDestroyed>>

\* run_experiment; an error of its own leaves no journal.
RunExperiment(r) ==
    /\ lrPc[r] = "prepared"
    /\ \/ LocalGo(r, "ran") /\ UNCHANGED lrFaults
       \/ LocalFault /\ LocalGo(r, "failed")
    /\ UNCHANGED <<lrHost, lrFile, lrStore, lrDestroyed>>

\* JournalOutput::write: written aside, synced, and renamed over the path.
WriteJournal(r) ==
    /\ lrPc[r] = "ran"
    /\ \/ /\ lrFile' = {r}
          /\ lrDestroyed' = IF r \in Forced THEN lrDestroyed ELSE lrDestroyed \cup lrFile
          /\ LocalGo(r, "ingest") /\ UNCHANGED lrFaults
       \/ LocalFault /\ LocalGo(r, "failed") /\ UNCHANGED <<lrFile, lrDestroyed>>
    /\ UNCHANGED <<lrHost, lrStore>>

-----------------------------------------------------------------------------
(* auto_ingest_journal.                                                    *)

\* Mutant: the run is not looked for.
IngestJournal_Always(r) ==
    /\ lrRows' = [lrRows EXCEPT ![r] = @ + 1]
    /\ lrWhole' = lrWhole \cup {r}

\* One transaction: the run is there, with all its rows, or it is added.
IngestJournal(r) ==
    /\ lrRows' = [lrRows EXCEPT ![r] = IF @ = 0 THEN 1 ELSE @]
    /\ lrWhole' = IF lrRows[r] = 0 THEN lrWhole \cup {r} ELSE lrWhole

\* The daemon is asked first.  Its answer ends the command: an import, or an
\* error, behind which the daemon may yet apply the journal.  A request that
\* is not answered in three seconds may be applied as well, and the command
\* goes on to the store, as it does when nobody listens.
PostJournal(r, answer) ==
    /\ lrPc[r] = "ingest" /\ lrBackend = "duckdb"
    /\ \/ /\ answer = "ingested" /\ lrDaemon = "up"
          /\ IngestJournal(r) /\ LocalGo(r, "done") /\ UNCHANGED lrPending
       \/ /\ answer = "rejected" /\ lrDaemon = "up"
          /\ lrPending' \in {lrPending, lrPending \cup {r}}
          /\ LocalGo(r, "done") /\ UNCHANGED lrStore
       \/ /\ answer = "silent"
          /\ lrPending' = IF lrDaemon = "up" THEN lrPending \cup {r} ELSE lrPending
          /\ LocalGo(r, "open") /\ UNCHANGED lrStore
    /\ UNCHANGED <<lrBackend, lrDaemon, lrLock, lrFile, lrFaults, lrDestroyed>>

\* import_journal in the daemon, after the client has given up.
ImportJournal(r) ==
    /\ lrDaemon = "up" /\ r \in lrPending
    /\ IngestJournal(r) /\ lrPending' = lrPending \ {r}
    /\ UNCHANGED <<lrBackend, lrDaemon, lrLock, lrPc, lrFile, lrFaults, lrDestroyed>>

\* The store has one writer: whoever finds it open elsewhere gives up.
OpenStore(r) ==
    /\ lrPc[r] = "open"
    /\ IF lrDaemon = "up" \/ lrLock # {}
         THEN LocalGo(r, "done") /\ UNCHANGED lrLock
         ELSE LocalGo(r, "direct") /\ lrLock' = {r}
    /\ UNCHANGED <<lrBackend, lrDaemon, lrPending, lrFile, lrStore, lrFaults, lrDestroyed>>

DirectIngest(r) ==
    /\ lrPc[r] = "direct"
    /\ \/ IngestJournal(r) /\ UNCHANGED lrFaults
       \/ LocalFault /\ UNCHANGED lrStore
    /\ lrLock' = {} /\ LocalGo(r, "done")
    /\ UNCHANGED <<lrBackend, lrDaemon, lrPending, lrFile, lrDestroyed>>

\* ClickHouse: a count, the experiment row, then the activity rows, and an
\* error between them ends the ingestion where it is.
ClickHouseCount(r) ==
    /\ lrPc[r] = "ingest" /\ lrBackend = "clickhouse"
    /\ LocalGo(r, IF lrRows[r] > 0 THEN "done" ELSE "row")
    /\ UNCHANGED <<lrHost, lrFile, lrStore, lrFaults, lrDestroyed>>

ClickHouseRow(r) ==
    /\ lrPc[r] = "row"
    /\ \/ /\ lrRows' = [lrRows EXCEPT ![r] = @ + 1]
          /\ LocalGo(r, "activities") /\ UNCHANGED lrFaults
       \/ LocalFault /\ LocalGo(r, "done") /\ UNCHANGED lrRows
    /\ UNCHANGED <<lrHost, lrFile, lrWhole, lrDestroyed>>

ClickHouseActivities(r) ==
    /\ lrPc[r] = "activities"
    /\ \/ lrWhole' = lrWhole \cup {r} /\ UNCHANGED lrFaults
       \/ LocalFault /\ UNCHANGED lrWhole
    /\ LocalGo(r, "done")
    /\ UNCHANGED <<lrHost, lrFile, lrRows, lrDestroyed>>

\* The journal is ingested once more, by hand, from its file.
Reingest(r) ==
    /\ lrPc[r] = "done" /\ lrFile = {r} /\ LocalFault
    /\ LocalGo(r, "ingest")
    /\ UNCHANGED <<lrHost, lrFile, lrStore, lrDestroyed>>

\* A daemon starts when nobody has the store open, and may stop.
DaemonChanges ==
    /\ LocalFault /\ lrLock = {}
    /\ lrDaemon' = IF lrDaemon = "up" THEN "down" ELSE "up"
    /\ lrPending' = {}
    /\ UNCHANGED <<lrBackend, lrLock, lrPc, lrFile, lrStore, lrDestroyed>>

LocalNext ==
    \/ \E r \in LocalRuns :
         \/ CheckRun(r) \/ PrepareJournal(r) \/ RunExperiment(r) \/ WriteJournal(r)
         \/ \E answer \in {"ingested", "rejected", "silent"} : PostJournal(r, answer)
         \/ ImportJournal(r) \/ OpenStore(r) \/ DirectIngest(r)
         \/ ClickHouseCount(r) \/ ClickHouseRow(r) \/ ClickHouseActivities(r)
         \/ Reingest(r)
    \/ DaemonChanges

LocalSpec == LocalInit /\ [][LocalNext]_lrVars

-----------------------------------------------------------------------------
(* A run is in the store at most once, however often its journal is offered:
   to a daemon that answers too late, to the store behind it, by hand.  In
   DuckDB it is there with all its rows or not at all; in ClickHouse the rows
   are missing only while the ingestion runs, or where a fault ended it, and
   no further attempt puts them there. *)
LocalIngestOnce ==
    \A r \in LocalRuns :
        /\ lrRows[r] <= 1
        /\ lrRows[r] = 1 =>
             \/ r \in lrWhole
             \/ lrBackend = "clickhouse" /\ (lrPc[r] = "activities" \/ lrFaults > 0)
        /\ lrRows[r] = 0 => r \notin lrWhole

(* run.rs, "A journal holds the evidence of exactly one run: silently
   overwriting it destroys the previous run's record.  Refuse unless --force
   was given". *)
JournalNotOverwritten == lrDestroyed = {}

=============================================================================
