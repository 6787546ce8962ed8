-------------------------------- MODULE Store --------------------------------
(***************************************************************************)
(* The store file (tumult-lake): processes that open it read-write or       *)
(* read-only with a bounded retry, the migration every writer runs, and the *)
(* operations on the analytics tables that take more than one statement.    *)
(* A crash ends a process between any two statements; a transaction is one  *)
(* step.  The file lock is DuckDB's.                                        *)
(***************************************************************************)
EXTENDS Naturals, FiniteSets

CONSTANTS
    StProcesses,    \* processes that open the file
    StIds,          \* experiments
    StOld,          \* those that started before the retention's cutoff
    StSource,       \* experiments of a store from before the unification
    StAttempts,     \* OPEN_ATTEMPTS
    StMaxCrashes    \* bound

StCurrent == 15
StVersions == {0, 3, 4, 7, StCurrent}   \* stored versions; 0: a new file

ASSUME StAssumption ==
    /\ StOld \subseteq StIds /\ StSource \subseteq StIds
    /\ StAttempts \in Nat \ {0} /\ StMaxCrashes \in Nat

VARIABLES
    stPc,       \* what each process is at
    stTry,      \* its attempts at opening the file
    stFirst,    \* the version the file had at first
    stVersion,  \* schema_meta
    stIndexed,  \* tables that still have the indexes a crash can break
    stLegacy,   \* users with the name 'legacy'
    stStored,   \* the version the running migration has read
    stExp, stAct, stParquet,  \* experiments, activity_results, an export of both
    stAcked,    \* history: experiments whose ingest was acknowledged
    stCrashes

stRows == <<stExp, stAct, stParquet, stAcked>>
stSchema == <<stFirst, stVersion, stIndexed, stLegacy, stStored>>
stVars == <<stPc, stTry, stSchema, stRows, stCrashes>>

StMigrating == {"v5", "v8", "legacy", "version"}
StWriting == {"create", "open", "purge", "merge"} \cup StMigrating
StWriters == {p \in StProcesses : stPc[p] \in StWriting}
StReaders == {p \in StProcesses : stPc[p] = "read"}

StInit ==
    /\ stPc = [p \in StProcesses |-> "closed"] /\ stTry = [p \in StProcesses |-> 0]
    /\ stFirst \in StVersions /\ stVersion = stFirst /\ stStored = 0 /\ stLegacy = 0
    /\ stIndexed = (IF stFirst = 4 THEN {"runs"} ELSE {})
                   \cup (IF stFirst \in 2 .. 7 THEN {"manual"} ELSE {})
    /\ stExp = {} /\ stAct = {} /\ stParquet = [exp |-> {}, act |-> {}] /\ stAcked = {}
    /\ stCrashes = 0

StGo(p, pc) == stPc' = [stPc EXCEPT ![p] = pc]

-----------------------------------------------------------------------------
(* Opening the file.                                                       *)

\* A writer excludes everyone, readers exclude writers.  A lock conflict is
\* tried again, and after the last attempt reported as StoreLocked.
OpenWithRetry(p, pc, free) ==
    /\ stPc[p] = "closed"
    /\ IF free THEN StGo(p, pc) /\ stTry' = [stTry EXCEPT ![p] = 0]
               ELSE stTry[p] < StAttempts /\ stTry' = [stTry EXCEPT ![p] = @ + 1] /\ UNCHANGED stPc
    /\ UNCHANGED <<stSchema, stRows, stCrashes>>

OpenWriter(p) == OpenWithRetry(p, "create", StWriters = {} /\ StReaders = {})

\* A reader neither creates nor migrates.
OpenReadOnly(p) == stVersion # 0 /\ OpenWithRetry(p, "read", StWriters = {})

StoreLocked(p) ==
    /\ stPc[p] = "closed" /\ stTry[p] = StAttempts /\ stTry' = [stTry EXCEPT ![p] = 0]
    /\ UNCHANGED <<stPc, stSchema, stRows, stCrashes>>

StClose(p) ==
    /\ stPc[p] \in {"open", "read"} /\ StGo(p, "closed")
    /\ UNCHANGED <<stTry, stSchema, stRows, stCrashes>>

-----------------------------------------------------------------------------
(* migrate(): every open for writing runs it, outside any transaction but   *)
(* those of the two rebuilds.  The version is read once, before them.       *)

CreateTables(p) ==
    /\ stPc[p] = "create" /\ stStored' = stVersion /\ StGo(p, "v5")
    /\ UNCHANGED <<stTry, stFirst, stVersion, stIndexed, stLegacy, stRows, stCrashes>>

MigrateV5(p) ==
    /\ stPc[p] = "v5" /\ StGo(p, "v8")
    /\ stIndexed' = IF stStored = 4 THEN stIndexed \ {"runs"} ELSE stIndexed
    /\ UNCHANGED <<stTry, stFirst, stVersion, stStored, stLegacy, stRows, stCrashes>>

MigrateV8(p) ==
    /\ stPc[p] = "v8" /\ StGo(p, "legacy")
    /\ stIndexed' = IF stStored \in 2 .. 7 THEN stIndexed \ {"manual"} ELSE stIndexed
    /\ UNCHANGED <<stTry, stFirst, stVersion, stStored, stLegacy, stRows, stCrashes>>

\* A plain INSERT into a table without a key.
SeedLegacyUser(p) ==
    /\ stPc[p] = "legacy" /\ StGo(p, "version")
    /\ stLegacy' = IF stStored \in 1 .. 5 THEN stLegacy + 1 ELSE stLegacy
    /\ UNCHANGED <<stTry, stFirst, stVersion, stStored, stIndexed, stRows, stCrashes>>

\* Graph tables, views and articles are upserts; then the version advances.
WriteVersion(p) ==
    /\ stPc[p] = "version" /\ StGo(p, "open")
    /\ stVersion' = IF stVersion < StCurrent THEN StCurrent ELSE stVersion
    /\ UNCHANGED <<stTry, stFirst, stStored, stIndexed, stLegacy, stRows, stCrashes>>

-----------------------------------------------------------------------------
(* Operations of a writer.                                                 *)

\* One transaction, skipped for an experiment that is known.
StIngestJournal(p, i) ==
    /\ stPc[p] = "open"
    /\ stExp' = stExp \cup {i} /\ stAct' = IF i \in stExp THEN stAct ELSE stAct \cup {i}
    /\ stAcked' = stAcked \cup {i}
    /\ UNCHANGED <<stPc, stTry, stSchema, stParquet, stCrashes>>

\* Mutant: the experiments go first.
PurgeActivities_ExperimentsFirst(p) ==
    /\ stPc[p] = "open" /\ StGo(p, "purge")
    /\ stExp' = stExp \ StOld
    /\ UNCHANGED <<stTry, stSchema, stAct, stParquet, stAcked, stCrashes>>

\* purge_older_than_days: two statements, each its own transaction.
PurgeActivities(p) ==
    /\ stPc[p] = "open" /\ StGo(p, "purge")
    /\ stAct' = {i \in stAct : i \notin stExp \cap StOld}
    /\ UNCHANGED <<stTry, stSchema, stExp, stParquet, stAcked, stCrashes>>

PurgeExperiments(p) ==
    /\ stPc[p] = "purge" /\ StGo(p, "open") /\ stExp' = stExp \ StOld
    /\ UNCHANGED <<stTry, stSchema, stAct, stParquet, stAcked, stCrashes>>

ExportTables(p) ==
    /\ stPc[p] = "open" /\ stParquet' = [exp |-> stExp, act |-> stAct]
    /\ UNCHANGED <<stPc, stTry, stSchema, stExp, stAct, stAcked, stCrashes>>

\* One transaction; the unique index on the experiments refuses all of it.
ImportTables(p) ==
    /\ stPc[p] = "open" /\ stParquet.exp \cap stExp = {}
    /\ stExp' = stExp \cup stParquet.exp /\ stAct' = stAct \cup stParquet.act
    /\ UNCHANGED <<stPc, stTry, stSchema, stParquet, stAcked, stCrashes>>

\* import_legacy: an INSERT of the missing rows per table, in the order of the
\* tables, experiments before their activities.
MergeExperiments(p) ==
    /\ stPc[p] = "open" /\ StGo(p, "merge") /\ stExp' = stExp \cup StSource
    /\ UNCHANGED <<stTry, stSchema, stAct, stParquet, stAcked, stCrashes>>

MergeActivities(p) ==
    /\ stPc[p] = "merge" /\ StGo(p, "open") /\ stAct' = stAct \cup StSource
    /\ UNCHANGED <<stTry, stSchema, stExp, stParquet, stAcked, stCrashes>>

StCrash(p) ==
    /\ stPc[p] # "closed" /\ stCrashes < StMaxCrashes /\ stCrashes' = stCrashes + 1
    /\ StGo(p, "closed") /\ UNCHANGED <<stTry, stSchema, stRows>>

StNext == \E p \in StProcesses :
    \/ OpenWriter(p) \/ OpenReadOnly(p) \/ StoreLocked(p) \/ StClose(p)
    \/ CreateTables(p) \/ MigrateV5(p) \/ MigrateV8(p) \/ SeedLegacyUser(p) \/ WriteVersion(p)
    \/ \E i \in StIds : StIngestJournal(p, i)
    \/ PurgeActivities(p) \/ PurgeExperiments(p) \/ ExportTables(p) \/ ImportTables(p)
    \/ MergeExperiments(p) \/ MergeActivities(p) \/ StCrash(p)

StSpec == StInit /\ [][StNext]_stVars

-----------------------------------------------------------------------------
(* Crashes leave the file usable.  No activity is without its experiment and
   no experiment that the retention keeps is without its activities, however
   purges and merges were cut short (an import from before the unification may
   be, and is completed by running it again); a young experiment that was
   acknowledged stays; and a file at the current version has no table left
   that a crash could break, and the owner of its old records. *)
StoreSound ==
    /\ stAct \subseteq stExp
    /\ stExp \ stAct \subseteq StOld \cup StSource
    /\ stAcked \ StOld \subseteq stExp
    /\ stVersion = StCurrent => stIndexed = {} /\ (stFirst \in 1 .. 5 => stLegacy > 0)

(* The comment of migrate() calls the seeding of the owner of old records
   idempotent by version. *)
LegacyUserOnce == stLegacy <= 1
=============================================================================
