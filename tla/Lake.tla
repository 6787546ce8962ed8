-------------------------------- MODULE Lake --------------------------------
(***************************************************************************)
(* The portable snapshots (lake.rs) and the installation backups            *)
(* (backup.rs).  Exporters of several processes share a directory: they     *)
(* take a lock, copy every table inside one read transaction to a file      *)
(* named by its fingerprint, and publish a manifest last.  Writers go on,   *)
(* files get damaged, and a crash may come between any two steps.           *)
(***************************************************************************)
EXTENDS Naturals, FiniteSets

CONSTANTS
    LkExporters,    \* the scheduler's job and the POST of the API
    LkTables,       \* TABLES
    LkMaxFaults     \* bound: crashes and damages

ASSUME LakeAssumption == LkMaxFaults \in Nat

VARIABLES
    lkDb,       \* the content of each table, 0 or 1; its fingerprint is the content
    lkPast,     \* history: states the database was in
    lkPc,       \* each exporter: "idle", "copy" or "publish"
    lkSnap,     \* the state its transaction reads
    lkMeta,     \* the manifest it builds: fingerprint and digest per table
    lkLock,     \* holder of .export.lock
    lkManifest, \* _meta.json
    lkFiles,    \* the files: table, name (fingerprint), what they hold, digest
    lkBackup,   \* a backup directory: what its database holds, and the manifest
    lkRestored, \* what a restore published
    lkFaults

lkVars == <<lkDb, lkPast, lkPc, lkSnap, lkMeta, lkLock, lkManifest, lkFiles,
            lkBackup, lkRestored, lkFaults>>

LkNothing == [t \in {} |-> 0]
LkNoBackup == [db |-> LkNothing, digest |-> 0, damaged |-> FALSE, manifest |-> FALSE]

LakeInit ==
    /\ lkDb = [t \in LkTables |-> 0] /\ lkPast = {lkDb}
    /\ lkPc = [e \in LkExporters |-> "idle"] /\ lkSnap = [e \in LkExporters |-> LkNothing]
    /\ lkMeta = [e \in LkExporters |-> LkNothing]
    /\ lkLock = {} /\ lkManifest = LkNothing /\ lkFiles = LkNothing
    /\ lkBackup = LkNoBackup /\ lkRestored = LkNothing /\ lkFaults = 0

lkExport == <<lkPc, lkSnap, lkMeta, lkLock>>
lkArchive == <<lkManifest, lkFiles>>
lkCopies == <<lkBackup, lkRestored>>

\* A committed write of the daemon, to one table or to several at once, which
\* may bring back what a table held before.
LkWrite(ts) ==
    /\ ts # {}
    /\ lkDb' = [t \in LkTables |-> IF t \in ts THEN 1 - lkDb[t] ELSE lkDb[t]]
    /\ lkPast' = lkPast \cup {lkDb'}
    /\ UNCHANGED <<lkExport, lkArchive, lkCopies, lkFaults>>

-----------------------------------------------------------------------------
(* export().                                                               *)

ExportLock(e) ==
    /\ lkPc[e] = "idle" /\ lkLock = {} /\ lkLock' = {e}
    /\ lkPc' = [lkPc EXCEPT ![e] = "copy"]
    /\ lkSnap' = [lkSnap EXCEPT ![e] = lkDb]
    /\ lkMeta' = [lkMeta EXCEPT ![e] = LkNothing]
    /\ UNCHANGED <<lkDb, lkPast, lkArchive, lkCopies, lkFaults>>

\* Mutant: without the transaction every table is read as it is by now.
ReadTable_Current(e, t) == lkDb[t]

\* BEGIN TRANSACTION: every table as it was when the export began.
ReadTable(e, t) == lkSnap[e][t]

HasFile(t, fp) == <<t, fp>> \in DOMAIN lkFiles

\* A file is kept when the manifest names it and its digest is the one there.
Unchanged(t, fp) ==
    /\ t \in DOMAIN lkManifest /\ lkManifest[t].fp = fp
    /\ HasFile(t, fp) /\ lkFiles[<<t, fp>>].digest = lkManifest[t].digest

\* COPY to a temporary file, synced, renamed over the old one.  Rows come in
\* any order, so a second copy may have another digest.
CopyTable(e, t, digest) ==
    /\ lkPc[e] = "copy" /\ t \notin DOMAIN lkMeta[e]
    /\ LET fp == ReadTable(e, t)
           file == IF Unchanged(t, fp) THEN lkFiles[<<t, fp>>]
                   ELSE [holds |-> fp, digest |-> digest]
       IN  /\ lkFiles' = [k \in DOMAIN lkFiles \cup {<<t, fp>>} |->
                            IF k = <<t, fp>> THEN file ELSE lkFiles[k]]
           /\ lkMeta' = [lkMeta EXCEPT ![e] = [u \in DOMAIN lkMeta[e] \cup {t} |->
                  IF u = t THEN [fp |-> fp, digest |-> file.digest] ELSE lkMeta[e][u]]]
    /\ lkPc' = [lkPc EXCEPT ![e] = IF DOMAIN lkMeta[e] \cup {t} = LkTables THEN "publish" ELSE "copy"]
    /\ UNCHANGED <<lkDb, lkPast, lkSnap, lkLock, lkManifest, lkCopies, lkFaults>>

\* What an exporter has at hand is gone when it is done, failed or crashed; the
\* system releases its lock.
LkForget(e) ==
    /\ lkLock' = {} /\ lkPc' = [lkPc EXCEPT ![e] = "idle"]
    /\ lkSnap' = [lkSnap EXCEPT ![e] = LkNothing]
    /\ lkMeta' = [lkMeta EXCEPT ![e] = LkNothing]

\* write_meta: a temporary file renamed over the manifest.
WriteMeta(e) ==
    /\ lkPc[e] = "publish" /\ LkForget(e) /\ lkManifest' = lkMeta[e]
    /\ UNCHANGED <<lkDb, lkPast, lkFiles, lkCopies, lkFaults>>

\* An error rolls back and leaves the manifest; so does a crash.
ExportFails(e) ==
    /\ lkPc[e] \in {"copy", "publish"} /\ LkForget(e)
    /\ lkFaults < LkMaxFaults /\ lkFaults' = lkFaults + 1
    /\ UNCHANGED <<lkDb, lkPast, lkArchive, lkCopies>>

Damage(k) ==
    /\ lkFaults < LkMaxFaults /\ lkFaults' = lkFaults + 1
    /\ lkFiles' = [lkFiles EXCEPT ![k] = [holds |-> 2, digest |-> 2]]
    /\ UNCHANGED <<lkDb, lkPast, lkExport, lkManifest, lkCopies>>

\* Mutant: the file the manifest names is taken as it is.
CommittedFile_Unverified(t) == t \in DOMAIN lkManifest /\ HasFile(t, lkManifest[t].fp)

\* committed_file: what a reader is given, or an error.
CommittedFile(t) ==
    /\ t \in DOMAIN lkManifest /\ HasFile(t, lkManifest[t].fp)
    /\ lkFiles[<<t, lkManifest[t].fp>>].digest = lkManifest[t].digest

-----------------------------------------------------------------------------
(* backup.rs: a copy in a new directory, its manifest last; and a restore   *)
(* to a new path.                                                          *)

\* COPY FROM DATABASE under a read lock.
BackupCopy ==
    /\ lkBackup.db = LkNothing
    /\ lkBackup' = [lkBackup EXCEPT !.db = lkDb]
    /\ UNCHANGED <<lkDb, lkPast, lkExport, lkArchive, lkRestored, lkFaults>>

BackupManifest ==
    /\ lkBackup.db # LkNothing /\ ~lkBackup.manifest
    /\ lkBackup' = [lkBackup EXCEPT !.manifest = TRUE,
                      !.digest = IF lkBackup.damaged THEN 1 ELSE 0]
    /\ UNCHANGED <<lkDb, lkPast, lkExport, lkArchive, lkRestored, lkFaults>>

BackupDamaged ==
    /\ lkBackup.db # LkNothing /\ lkBackup.manifest /\ ~lkBackup.damaged
    /\ lkFaults < LkMaxFaults /\ lkFaults' = lkFaults + 1
    /\ lkBackup' = [lkBackup EXCEPT !.damaged = TRUE]
    /\ UNCHANGED <<lkDb, lkPast, lkExport, lkArchive, lkRestored>>

\* The bytes are checked at the source and again in the copy, which a hard
\* link publishes.
Restore ==
    /\ lkBackup.manifest /\ lkRestored = LkNothing
    /\ (IF lkBackup.damaged THEN 1 ELSE 0) = lkBackup.digest
    /\ lkRestored' = lkBackup.db
    /\ UNCHANGED <<lkDb, lkPast, lkExport, lkArchive, lkBackup, lkFaults>>

LakeNext ==
    \/ \E ts \in SUBSET LkTables : LkWrite(ts)
    \/ \E e \in LkExporters :
         \/ ExportLock(e) \/ WriteMeta(e) \/ ExportFails(e)
         \/ \E t \in LkTables, digest \in 0 .. 1 : CopyTable(e, t, digest)
    \/ \E k \in DOMAIN lkFiles : lkFiles[k].holds < 2 /\ Damage(k)

BackupNext ==
    \/ \E ts \in SUBSET LkTables : LkWrite(ts)
    \/ BackupCopy \/ BackupManifest \/ BackupDamaged \/ Restore

LakeSpec == LakeInit /\ [][LakeNext \/ BackupNext]_lkVars

-----------------------------------------------------------------------------
(* A snapshot is one state of the database, or an error.  The tables of the
   manifest belong to one state that the database was in, although writes go
   on while they are copied and another exporter may crash half-way over the
   same files; a file that a reader is given holds what its manifest says, and
   an archive that nothing disturbed can be read in full; and what a restore
   publishes is a state that the database was in. *)
SnapshotIsOneState ==
    /\ lkManifest # LkNothing =>
         /\ DOMAIN lkManifest = LkTables
         /\ [t \in LkTables |-> lkManifest[t].fp] \in lkPast
         /\ lkFaults = 0 => \A t \in LkTables : CommittedFile(t) \/ lkLock # {}
    /\ \A t \in LkTables : CommittedFile(t) =>
         lkFiles[<<t, lkManifest[t].fp>>].holds = lkManifest[t].fp
    /\ lkRestored # LkNothing => lkRestored \in lkPast
=============================================================================
