----------------------------- MODULE DataProofs -----------------------------
(* The properties of the store, the lake, the tool server, the read handlers, *)
(* the drivers, the controls, the authoring of experiments and the definition *)
(* engine, for any number of processes, tables, calls, rows, reports, nodes,  *)
(* pods, services, handlers, plugins, documents and definitions.              *)
EXTENDS MCData, FiniteSetTheorems, WellFoundedInduction, TLAPS

-----------------------------------------------------------------------------
(* The store: migrations, purges and merges between crashes.                 *)
(* What each process may be at, and the file as its first version left it. *)
StTypes ==
    /\ stPc \in [StProcesses -> {"closed", "read"} \cup StWriting]
    /\ stFirst \in StVersions /\ stVersion \in {stFirst, StCurrent}
    /\ stIndexed \subseteq {"runs", "manual"} /\ stLegacy \in Nat

(* A process that writes has the file to itself. *)
StAlone ==
    \A p, q \in StProcesses : stPc[p] \in StWriting /\ stPc[q] # "closed" => p = q

(* What a migration has done by the time it advances the version. *)
StMigration ==
    /\ "runs" \in stIndexed => stFirst = 4 /\ stVersion = 4
    /\ "manual" \in stIndexed => stFirst \in 2 .. 7 /\ stVersion = stFirst
    /\ stFirst \in 1 .. 5 /\ stVersion = StCurrent => stLegacy > 0
    /\ \A p \in StProcesses :
         /\ stPc[p] \in StMigrating => stStored = stVersion
         /\ stPc[p] \in {"v8", "legacy", "version"} => "runs" \notin stIndexed
         /\ stPc[p] \in {"legacy", "version"} => "manual" \notin stIndexed
         /\ stPc[p] = "version" /\ stFirst \in 1 .. 5 => stLegacy > 0
         /\ stPc[p] \in {"open", "purge", "merge"} => stVersion = StCurrent

(* Between the two statements of a purge or of a merge. *)
StBetween ==
    \A p \in StProcesses :
        /\ stPc[p] = "purge" => stAct \cap StOld = {}
        /\ stPc[p] = "merge" => StSource \subseteq stExp

(* What an export holds was sound when it was made. *)
StContent ==
    /\ stAct \subseteq stExp /\ stExp \ stAct \subseteq StOld \cup StSource
    /\ stAcked \ StOld \subseteq stExp
    /\ stParquet.act \subseteq stParquet.exp
    /\ stParquet.exp \ stParquet.act \subseteq StOld \cup StSource

StIInv == StTypes /\ StAlone /\ StMigration /\ StBetween /\ StContent

(* The stages of a writer are not those of a reader or of a closed file. *)
LEMMA StStages ==
    /\ "closed" \notin StWriting /\ "read" \notin StWriting /\ StMigrating \subseteq StWriting
    /\ {"create", "open", "purge", "merge"} \subseteq StWriting
BY DEF StWriting, StMigrating

(* A new file has nothing in it. *)
LEMMA StStart == StInit => StIInv
<1> SUFFICES ASSUME StInit PROVE StIInv
  OBVIOUS
<1>1. /\ stFirst \in {0, 3, 4, 7, 15} /\ stVersion = stFirst /\ stLegacy = 0
      /\ stIndexed = (IF stFirst = 4 THEN {"runs"} ELSE {})
                     \cup (IF stFirst \in 2 .. 7 THEN {"manual"} ELSE {})
      /\ stPc = [p \in StProcesses |-> "closed"]
      /\ stExp = {} /\ stAct = {} /\ stParquet.exp = {} /\ stParquet.act = {} /\ stAcked = {}
  BY DEF StInit, StVersions, StCurrent
<1>2. StTypes
  BY <1>1 DEF StTypes, StVersions, StCurrent
<1>3. StAlone
  BY <1>1, StStages DEF StAlone
<1>4. StMigration
  BY <1>1, StStages DEF StMigration, StCurrent, StMigrating
<1>5. StBetween /\ StContent
  BY <1>1 DEF StBetween, StContent
<1> QED  BY <1>2, <1>3, <1>4, <1>5 DEF StIInv

(* A process that goes on within the stages of a writer, or closes the file. *)
LEMMA StAloneStays ==
    ASSUME StTypes, StAlone, NEW p \in StProcesses, NEW pc \in {"closed", "read"} \cup StWriting,
           StGo(p, pc), pc # "closed" => stPc[p] \in StWriting
    PROVE  StAlone'
<1>1. \A q \in StProcesses : stPc'[q] = IF q = p THEN pc ELSE stPc[q]
  BY DEF StTypes, StGo
<1>2. CASE pc = "closed"
  BY <1>1, <1>2, StStages DEF StAlone
<1>3. CASE pc # "closed"
  BY <1>1, <1>3, StStages DEF StAlone
<1> QED  BY <1>2, <1>3

(* Opening for writing needs a file that nobody has open. *)
LEMMA StOpenStep ==
    ASSUME StIInv, NEW p \in StProcesses, OpenWriter(p) \/ OpenReadOnly(p) \/ StoreLocked(p)
    PROVE  StIInv'
<1> USE DEF StIInv, stSchema, stRows
<1>1. UNCHANGED <<stFirst, stVersion, stIndexed, stLegacy, stStored, stExp, stAct, stParquet, stAcked>>
  BY DEF OpenWriter, OpenReadOnly, OpenWithRetry, StoreLocked
<1>2. CASE stPc' = stPc
  BY <1>1, <1>2 DEF StTypes, StAlone, StMigration, StBetween, StContent
<1>3. CASE stPc' # stPc
  <2>1. PICK pc \in {"create", "read"} :
          /\ stPc' = [stPc EXCEPT ![p] = pc]
          /\ \A q \in StProcesses : stPc[q] \notin StWriting
          /\ pc = "create" => \A q \in StProcesses : stPc[q] # "read"
    BY <1>3 DEF OpenWriter, OpenReadOnly, OpenWithRetry, StoreLocked, StGo, StWriters, StReaders
  <2>2. \A q \in StProcesses : stPc'[q] = IF q = p THEN pc ELSE stPc[q]
    BY <2>1 DEF StTypes
  <2>3. StTypes'
    BY <1>1, <2>1, StStages DEF StTypes
  <2>4. StAlone'
    BY <2>1, <2>2, StStages DEF StAlone, StTypes
  <2>5. StMigration' /\ StBetween' /\ StContent'
    BY <1>1, <2>1, <2>2 DEF StMigration, StBetween, StContent, StMigrating
  <2> QED  BY <2>3, <2>4, <2>5
<1> QED  BY <1>2, <1>3

(* A process that closes the file, or dies, leaves it as it is. *)
LEMMA StCloseStep ==
    ASSUME StIInv, NEW p \in StProcesses, StClose(p) \/ StCrash(p)
    PROVE  StIInv'
<1> USE DEF StIInv, stSchema, stRows
<1>1. /\ UNCHANGED <<stFirst, stVersion, stIndexed, stLegacy, stStored, stExp, stAct, stParquet, stAcked>>
      /\ StGo(p, "closed")
  BY DEF StClose, StCrash
<1>2. \A q \in StProcesses : stPc'[q] = IF q = p THEN "closed" ELSE stPc[q]
  BY <1>1 DEF StTypes, StGo
<1>3. StTypes' /\ StAlone'
  BY <1>1, StAloneStays DEF StTypes, StGo
<1>4. StMigration' /\ StBetween' /\ StContent'
  BY <1>1, <1>2 DEF StMigration, StBetween, StContent, StMigrating
<1> QED  BY <1>3, <1>4

(* A step of migrate() finds the version it has read. *)
LEMMA StMigrateStep ==
    ASSUME StIInv, NEW p \in StProcesses,
           \/ CreateTables(p) \/ MigrateV5(p) \/ MigrateV8(p) \/ SeedLegacyUser(p) \/ WriteVersion(p)
    PROVE  StIInv'
<1> USE DEF StIInv, stSchema, stRows
<1>1. UNCHANGED <<stFirst, stExp, stAct, stParquet, stAcked>>
  BY DEF CreateTables, MigrateV5, MigrateV8, SeedLegacyUser, WriteVersion
<1>2. PICK pc \in {"v5", "v8", "legacy", "version", "open"} :
        StGo(p, pc) /\ stPc[p] \in {"create", "v5", "v8", "legacy", "version"}
  BY DEF CreateTables, MigrateV5, MigrateV8, SeedLegacyUser, WriteVersion
<1>3. stPc[p] \in StWriting /\ pc \in StWriting
  BY <1>2 DEF StWriting, StMigrating
<1>4. /\ \A q \in StProcesses : stPc'[q] = IF q = p THEN pc ELSE stPc[q]
      /\ \A q \in StProcesses \ {p} : stPc[q] = "closed"
  BY <1>2, <1>3 DEF StTypes, StGo, StAlone
<1>5. StAlone' /\ StBetween' /\ StContent'
  <2>1. StAlone'
    BY <1>2, <1>3, StAloneStays
  <2> QED  BY <1>1, <1>2, <1>4, <2>1 DEF StBetween, StContent
<1>6. StTypes' /\ StMigration'
  <2>1. stPc' \in [StProcesses -> {"closed", "read"} \cup StWriting]
    BY <1>2, <1>3 DEF StTypes, StGo
  <2>2. stFirst \in {0, 3, 4, 7, 15} /\ stVersion \in {stFirst, 15} /\ StCurrent = 15 /\ stLegacy \in Nat
    BY DEF StTypes, StVersions, StCurrent
  <2>3. CASE CreateTables(p)
    BY <1>1, <1>4, <2>1, <2>2, <2>3 DEF CreateTables, StGo, StTypes, StMigration, StMigrating
  <2>4. CASE MigrateV5(p)
    BY <1>1, <1>4, <2>1, <2>2, <2>4 DEF MigrateV5, StGo, StTypes, StMigration, StMigrating
  <2>5. CASE MigrateV8(p)
    BY <1>1, <1>4, <2>1, <2>2, <2>5 DEF MigrateV8, StGo, StTypes, StMigration, StMigrating
  <2>6. CASE SeedLegacyUser(p)
    BY <1>1, <1>4, <2>1, <2>2, <2>6 DEF SeedLegacyUser, StGo, StTypes, StMigration, StMigrating
  <2>7. CASE WriteVersion(p)
    BY <1>1, <1>4, <2>1, <2>2, <2>7 DEF WriteVersion, StGo, StTypes, StMigration, StMigrating
  <2> QED  BY <2>3, <2>4, <2>5, <2>6, <2>7
<1> QED  BY <1>5, <1>6

(* The operations of a writer keep what the tables hold together. *)
LEMMA StRowsStep ==
    ASSUME StIInv, NEW p \in StProcesses,
           \/ \E i \in StIds : StIngestJournal(p, i)
           \/ PurgeActivities(p) \/ PurgeExperiments(p) \/ ExportTables(p) \/ ImportTables(p)
           \/ MergeExperiments(p) \/ MergeActivities(p)
    PROVE  StIInv'
<1> USE DEF StIInv, stSchema, stRows
<1>1. /\ UNCHANGED <<stFirst, stVersion, stIndexed, stLegacy, stStored>>
      /\ stPc[p] \in {"open", "purge", "merge"}
      /\ stPc' = stPc \/ \E pc \in {"open", "purge", "merge"} : StGo(p, pc)
  BY DEF StIngestJournal, PurgeActivities, PurgeExperiments, ExportTables, ImportTables,
         MergeExperiments, MergeActivities
<1>2. PICK pc \in {"open", "purge", "merge"} :
        /\ stPc' = [stPc EXCEPT ![p] = pc]
        /\ stPc[p] \in StWriting /\ pc \in StWriting
  BY <1>1, StStages DEF StTypes, StGo
<1>3. /\ \A q \in StProcesses : stPc'[q] = IF q = p THEN pc ELSE stPc[q]
      /\ \A q \in StProcesses \ {p} : stPc[q] = "closed"
  BY <1>2 DEF StTypes, StAlone
<1>4. StTypes' /\ StAlone'
  BY <1>1, <1>2, StAloneStays DEF StTypes, StGo
<1>5. StMigration'
  BY <1>1, <1>2, <1>3 DEF StMigration, StMigrating
<1>6. StBetween' /\ StContent'
  <2>1. CASE \E i \in StIds : StIngestJournal(p, i)
    BY <1>3, <2>1 DEF StIngestJournal, StBetween, StContent
  <2>2. CASE PurgeActivities(p)
    BY <1>2, <1>3, <2>2 DEF PurgeActivities, StGo, StBetween, StContent
  <2>3. CASE PurgeExperiments(p)
    BY <1>2, <1>3, <2>3 DEF PurgeExperiments, StGo, StBetween, StContent
  <2>4. CASE ExportTables(p)
    BY <1>3, <2>4 DEF ExportTables, StBetween, StContent
  <2>5. CASE ImportTables(p)
    BY <1>3, <2>5 DEF ImportTables, StBetween, StContent
  <2>6. CASE MergeExperiments(p)
    BY <1>2, <1>3, <2>6 DEF MergeExperiments, StGo, StBetween, StContent
  <2>7. CASE MergeActivities(p)
    BY <1>2, <1>3, <2>7 DEF MergeActivities, StGo, StBetween, StContent
  <2> QED  BY <2>1, <2>2, <2>3, <2>4, <2>5, <2>6, <2>7
<1> QED  BY <1>4, <1>5, <1>6

(* Every step keeps the store usable. *)
LEMMA StStep == StIInv /\ [StNext]_stVars => StIInv'
<1> SUFFICES ASSUME StIInv, [StNext]_stVars PROVE StIInv'
  OBVIOUS
<1>1. CASE UNCHANGED stVars
  BY <1>1 DEF stVars, stRows, stSchema, StIInv, StTypes, StAlone, StMigration, StBetween, StContent
<1>2. CASE StNext
  BY <1>2, StOpenStep, StCloseStep, StMigrateStep, StRowsStep DEF StNext
<1> QED  BY <1>1, <1>2

(* What the invariant says of the file. *)
LEMMA StHolds == StIInv => StoreSound
BY DEF StIInv, StTypes, StMigration, StContent, StoreSound, StCurrent, StVersions

-----------------------------------------------------------------------------
(* The lake: exports over one another, backups and restores.                 *)
LkStates == [LkTables -> 0 .. 1]
LkFileOf == [holds : 0 .. 2, digest : 0 .. 2]
LkEntries == [fp : 0 .. 1, digest : 0 .. 2]
(* A manifest, or one that is being built: an entry for each of its tables. *)
LkPartial(m) == m = [t \in DOMAIN m |-> m[t]] /\ DOMAIN m \subseteq LkTables /\ \A t \in DOMAIN m : m[t] \in LkEntries

LkTypes ==
    /\ lkDb \in LkStates /\ lkPast \subseteq LkStates /\ lkDb \in lkPast
    /\ lkPc \in [LkExporters -> {"idle", "copy", "publish"}]
    /\ lkFaults \in Nat
    /\ DOMAIN lkFiles \subseteq LkTables \X (0 .. 1)
    /\ \A k \in DOMAIN lkFiles : lkFiles[k] \in LkFileOf
    /\ LkPartial(lkManifest) /\ DOMAIN lkManifest \in {{}, LkTables}
    /\ DOMAIN lkSnap = LkExporters /\ DOMAIN lkMeta = LkExporters
    /\ \A e \in LkExporters : LkPartial(lkMeta[e])

(* A file that is not damaged holds what it is named for, and a damaged one has
   a digest that no manifest names. *)
LkFilesInv ==
    \A k \in DOMAIN lkFiles :
        \/ lkFiles[k].holds = k[2] /\ lkFiles[k].digest < 2
        \/ lkFiles[k].digest = 2 /\ lkFaults > 0

(* An exporter at work holds the lock; what it has copied is of its snapshot. *)
LkWorkInv ==
    \A e \in LkExporters :
        IF lkPc[e] = "idle" THEN e \notin lkLock
        ELSE /\ lkLock = {e} /\ lkSnap[e] \in lkPast
             /\ \A t \in DOMAIN lkMeta[e] :
                  /\ lkMeta[e][t].fp = lkSnap[e][t] /\ lkMeta[e][t].digest < 2
                  /\ HasFile(t, lkMeta[e][t].fp)
                  /\ lkFaults = 0 => lkFiles[<<t, lkMeta[e][t].fp>>].digest = lkMeta[e][t].digest
             /\ lkPc[e] = "publish" => DOMAIN lkMeta[e] = LkTables
LkLockInv == lkLock = {} \/ \E e \in LkExporters : lkLock = {e} /\ lkPc[e] # "idle"

(* The manifest names a past state. *)
LkManifestInv ==
    DOMAIN lkManifest # {} =>
        /\ [t \in LkTables |-> lkManifest[t].fp] \in lkPast
        /\ \A t \in LkTables : lkManifest[t].digest < 2
        /\ lkFaults = 0 /\ lkLock = {} => \A t \in LkTables : CommittedFile(t)

LkCopiesInv ==
    /\ DOMAIN lkBackup = {"db", "digest", "damaged", "manifest"}
    /\ lkBackup.db # LkNothing => lkBackup.db \in lkPast
    /\ lkRestored # LkNothing => lkRestored \in lkPast
LkIInv == LkTypes /\ LkFilesInv /\ LkWorkInv /\ LkLockInv /\ LkManifestInv /\ LkCopiesInv

(* An empty database has been in one state. *)
LEMMA LkStart == LakeInit => LkIInv
<1> SUFFICES ASSUME LakeInit PROVE LkIInv
  OBVIOUS
<1>1. DOMAIN LkNothing = {}
  BY DEF LkNothing
<1>2. /\ lkDb \in LkStates /\ lkPast = {lkDb} /\ lkPc = [e \in LkExporters |-> "idle"]
      /\ lkMeta = [e \in LkExporters |-> LkNothing] /\ lkSnap = [e \in LkExporters |-> LkNothing]
      /\ lkLock = {} /\ lkManifest = LkNothing /\ lkFiles = LkNothing
      /\ lkBackup.db = LkNothing /\ lkRestored = LkNothing /\ lkFaults = 0
  BY DEF LakeInit, LkStates, LkNoBackup
<1>3. LkTypes
  BY <1>1, <1>2 DEF LkTypes, LkPartial, LkNothing
<1>4. LkFilesInv /\ LkWorkInv /\ LkLockInv /\ LkManifestInv /\ LkCopiesInv
  BY <1>1, <1>2 DEF LakeInit, LkNoBackup, LkFilesInv, LkWorkInv, LkLockInv, LkManifestInv, LkCopiesInv
<1> QED  BY <1>3, <1>4 DEF LkIInv

(* A committed write adds a state to those the database was in. *)
LEMMA LkWriteStep ==
    ASSUME LkIInv, NEW ts \in SUBSET LkTables, LkWrite(ts)
    PROVE  LkIInv'
<1> USE DEF LkIInv, lkExport, lkArchive, lkCopies
<1>1. /\ UNCHANGED <<lkPc, lkSnap, lkMeta, lkLock, lkManifest, lkFiles, lkBackup, lkRestored, lkFaults>>
      /\ lkDb' = [t \in LkTables |-> IF t \in ts THEN 1 - lkDb[t] ELSE lkDb[t]]
      /\ lkPast' = lkPast \cup {lkDb'}
  BY DEF LkWrite
<1>2. lkDb' \in LkStates
  BY <1>1 DEF LkTypes, LkStates
<1>3. LkTypes'
  BY <1>1, <1>2 DEF LkTypes
<1>4. LkFilesInv' /\ LkWorkInv' /\ LkLockInv' /\ LkCopiesInv'
  BY <1>1 DEF LkFilesInv, LkWorkInv, HasFile, LkLockInv, LkCopiesInv
<1>5. LkManifestInv'
  BY <1>1 DEF LkManifestInv, CommittedFile, HasFile
<1> QED  BY <1>3, <1>4, <1>5

(* The lock is free for one exporter, who has nothing copied yet. *)
LEMMA LkLockStep ==
    ASSUME LkIInv, NEW e \in LkExporters, ExportLock(e)
    PROVE  LkIInv'
<1> USE DEF LkIInv, lkExport, lkArchive, lkCopies
<1>1. /\ UNCHANGED <<lkDb, lkPast, lkManifest, lkFiles, lkBackup, lkRestored, lkFaults>>
      /\ lkLock = {} /\ lkLock' = {e} /\ lkPc' = [lkPc EXCEPT ![e] = "copy"]
      /\ lkSnap' = [lkSnap EXCEPT ![e] = lkDb] /\ lkMeta' = [lkMeta EXCEPT ![e] = LkNothing]
  BY DEF ExportLock
<1>2. DOMAIN LkNothing = {}
  BY DEF LkNothing
<1>3. \A d \in LkExporters : lkPc[d] = "idle"
  BY <1>1 DEF LkWorkInv
<1>4. /\ lkPc'[e] = "copy" /\ lkSnap'[e] = lkDb /\ DOMAIN lkMeta'[e] = {}
      /\ \A d \in LkExporters \ {e} : lkPc'[d] = "idle"
      /\ \A d \in LkExporters : LkPartial(lkMeta[d])'
  <2>1. \A d \in LkExporters : lkMeta'[d] = lkMeta[d] \/ lkMeta'[d] = LkNothing
    BY <1>1 DEF LkTypes
  <2>2. LkPartial(LkNothing) /\ \A d \in LkExporters : LkPartial(lkMeta[d])
    BY <1>2 DEF LkPartial, LkTypes, LkNothing
  <2> QED  BY <1>1, <1>2, <1>3, <2>1, <2>2 DEF LkTypes, LkPartial
<1>5. LkTypes'
  BY <1>1, <1>4 DEF LkTypes
<1>6. LkWorkInv'
  <2> SUFFICES ASSUME NEW d \in LkExporters PROVE LkWorkInv!(d)'
    BY DEF LkWorkInv
  <2>1. CASE d = e
    BY <1>1, <1>4, <2>1 DEF LkTypes
  <2>2. CASE d # e
    BY <1>1, <1>4, <2>2
  <2> QED  BY <2>1, <2>2
<1>7. LkFilesInv' /\ LkLockInv' /\ LkManifestInv' /\ LkCopiesInv'
  BY <1>1, <1>4 DEF LkFilesInv, LkLockInv, LkManifestInv, CommittedFile, HasFile, LkCopiesInv
<1> QED  BY <1>5, <1>6, <1>7

(* What an exporter has at hand goes with its lock. *)
LEMMA LkForgotten ==
    ASSUME LkTypes, LkWorkInv, NEW e \in LkExporters, LkForget(e), lkPc[e] # "idle"
    PROVE  /\ lkLock' = {} /\ \A d \in LkExporters : lkPc'[d] = "idle"
           /\ lkPc' \in [LkExporters -> {"idle", "copy", "publish"}]
           /\ DOMAIN lkSnap' = LkExporters /\ DOMAIN lkMeta' = LkExporters
           /\ \A d \in LkExporters : LkPartial(lkMeta'[d])
<1>1. \A d \in LkExporters \ {e} : lkPc[d] = "idle"
  BY DEF LkWorkInv
<1>2. LkPartial(LkNothing) /\ \A d \in LkExporters : LkPartial(lkMeta[d])
  BY DEF LkPartial, LkTypes, LkNothing
<1>3. \A d \in LkExporters : lkMeta'[d] = lkMeta[d] \/ lkMeta'[d] = LkNothing
  BY DEF LkForget, LkTypes
<1>4. \A d \in LkExporters : LkPartial(lkMeta'[d])
  BY <1>2, <1>3
<1> QED  BY <1>1, <1>4 DEF LkForget, LkTypes

(* The manifest replaces the old one when every table is there. *)
LEMMA LkPublishStep ==
    ASSUME LkIInv, NEW e \in LkExporters, WriteMeta(e)
    PROVE  LkIInv'
<1> USE DEF LkIInv, lkExport, lkArchive, lkCopies
<1>1. /\ UNCHANGED <<lkDb, lkPast, lkFiles, lkBackup, lkRestored, lkFaults>>
      /\ lkPc[e] = "publish" /\ lkManifest' = lkMeta[e] /\ LkForget(e)
  BY DEF WriteMeta
<1>2. /\ lkLock' = {} /\ \A d \in LkExporters : lkPc'[d] = "idle"
      /\ lkPc' \in [LkExporters -> {"idle", "copy", "publish"}]
      /\ DOMAIN lkSnap' = LkExporters /\ DOMAIN lkMeta' = LkExporters
      /\ \A d \in LkExporters : LkPartial(lkMeta'[d])
  BY <1>1, LkForgotten
<1>3. /\ LkPartial(lkMeta[e]) /\ DOMAIN lkMeta[e] = LkTables /\ lkSnap[e] \in lkPast
      /\ \A t \in LkTables :
           /\ lkMeta[e][t].fp = lkSnap[e][t] /\ lkMeta[e][t].digest < 2
           /\ HasFile(t, lkMeta[e][t].fp)
           /\ lkFaults = 0 => lkFiles[<<t, lkMeta[e][t].fp>>].digest = lkMeta[e][t].digest
  BY <1>1 DEF LkWorkInv, LkTypes
<1>4. LkTypes'
  BY <1>1, <1>2, <1>3 DEF LkTypes, LkPartial
<1>5. LkWorkInv' /\ LkLockInv' /\ LkFilesInv' /\ LkCopiesInv'
  BY <1>1, <1>2 DEF LkWorkInv, LkLockInv, LkFilesInv, LkCopiesInv
<1>6. LkManifestInv'
  <2>1. [t \in LkTables |-> lkManifest'[t].fp] = lkSnap[e]
    <3>1. lkSnap[e] \in LkStates
      BY <1>3 DEF LkTypes
    <3> QED  BY <1>1, <1>3, <3>1 DEF LkStates
  <2> QED  BY <1>1, <1>3, <2>1 DEF LkManifestInv, CommittedFile, HasFile
<1> QED  BY <1>4, <1>5, <1>6

(* An export that fails leaves the manifest as it is. *)
LEMMA LkFailStep ==
    ASSUME LkIInv, NEW e \in LkExporters, ExportFails(e)
    PROVE  LkIInv'
<1> USE DEF LkIInv, lkExport, lkArchive, lkCopies
<1>1. /\ UNCHANGED <<lkDb, lkPast, lkManifest, lkFiles, lkBackup, lkRestored>>
      /\ lkPc[e] # "idle" /\ LkForget(e) /\ lkFaults' = lkFaults + 1 /\ lkFaults' > 0
  BY DEF ExportFails, LkTypes
<1>2. /\ lkLock' = {} /\ \A d \in LkExporters : lkPc'[d] = "idle"
      /\ lkPc' \in [LkExporters -> {"idle", "copy", "publish"}]
      /\ DOMAIN lkSnap' = LkExporters /\ DOMAIN lkMeta' = LkExporters
      /\ \A d \in LkExporters : LkPartial(lkMeta'[d])
  BY <1>1, LkForgotten
<1>3. LkTypes'
  BY <1>1, <1>2 DEF LkTypes, LkPartial
<1>4. LkWorkInv' /\ LkLockInv' /\ LkFilesInv' /\ LkCopiesInv' /\ LkManifestInv'
  BY <1>1, <1>2 DEF LkWorkInv, LkLockInv, LkFilesInv, LkCopiesInv, LkManifestInv
<1> QED  BY <1>3, <1>4

(* A damaged file has a digest that no manifest names. *)
LEMMA LkDamageStep ==
    ASSUME LkIInv, NEW k \in DOMAIN lkFiles, Damage(k)
    PROVE  LkIInv'
<1> USE DEF LkIInv, lkExport, lkArchive, lkCopies
<1>1. /\ UNCHANGED <<lkDb, lkPast, lkPc, lkSnap, lkMeta, lkLock, lkManifest, lkBackup, lkRestored>>
      /\ lkFaults' \in Nat /\ lkFaults' > 0
      /\ DOMAIN lkFiles' = DOMAIN lkFiles
      /\ \A j \in DOMAIN lkFiles : lkFiles'[j] = IF j = k THEN [holds |-> 2, digest |-> 2] ELSE lkFiles[j]
  BY DEF Damage, LkTypes
<1>2. LkTypes' /\ LkFilesInv'
  BY <1>1 DEF LkTypes, LkFilesInv, LkFileOf
<1>3. LkWorkInv' /\ LkLockInv' /\ LkCopiesInv' /\ LkManifestInv'
  BY <1>1 DEF LkWorkInv, HasFile, LkLockInv, LkCopiesInv, LkManifestInv
<1> QED  BY <1>2, <1>3

(* A backup holds what the database held, and a restore what the backup does. *)
LEMMA LkBackupStep ==
    ASSUME LkIInv, BackupCopy \/ BackupManifest \/ BackupDamaged \/ Restore
    PROVE  LkIInv'
<1> USE DEF LkIInv, lkExport, lkArchive, lkCopies
<1>1. /\ UNCHANGED <<lkDb, lkPast, lkPc, lkSnap, lkMeta, lkLock, lkManifest, lkFiles>>
      /\ lkFaults' \in Nat
      /\ lkFaults' = 0 => lkFaults = 0
      /\ lkFaults > 0 => lkFaults' > 0
  BY DEF BackupCopy, BackupManifest, BackupDamaged, Restore, LkTypes
<1>2. LkCopiesInv'
  BY DEF BackupCopy, BackupManifest, BackupDamaged, Restore, LkCopiesInv, LkTypes
<1>3. LkTypes' /\ LkFilesInv'
  BY <1>1 DEF LkTypes, LkFilesInv, LkPartial
<1>4. LkWorkInv' /\ LkLockInv' /\ LkManifestInv'
  BY <1>1 DEF LkWorkInv, HasFile, LkLockInv, LkManifestInv, CommittedFile
<1> QED  BY <1>2, <1>3, <1>4

(* A file is taken over only with the digest of its manifest, so a damaged one
   is copied anew. *)
LEMMA LkCopyStep ==
    ASSUME LkIInv, NEW e \in LkExporters, NEW t \in LkTables, NEW digest \in 0 .. 1,
           CopyTable(e, t, digest)
    PROVE  LkIInv'
<1> USE DEF LkIInv, lkExport, lkArchive, lkCopies
<1> DEFINE fp == lkSnap[e][t]
           file == IF Unchanged(t, fp) THEN lkFiles[<<t, fp>>]
                   ELSE [holds |-> fp, digest |-> digest]
<1>1. /\ UNCHANGED <<lkDb, lkPast, lkSnap, lkLock, lkManifest, lkBackup, lkRestored, lkFaults>>
      /\ lkPc[e] = "copy" /\ t \notin DOMAIN lkMeta[e]
      /\ lkFiles' = [k \in DOMAIN lkFiles \cup {<<t, fp>>} |->
                        IF k = <<t, fp>> THEN file ELSE lkFiles[k]]
      /\ lkMeta' = [lkMeta EXCEPT ![e] = [u \in DOMAIN lkMeta[e] \cup {t} |->
              IF u = t THEN [fp |-> fp, digest |-> file.digest] ELSE lkMeta[e][u]]]
      /\ lkPc' = [lkPc EXCEPT ![e] =
                    IF DOMAIN lkMeta[e] \cup {t} = LkTables THEN "publish" ELSE "copy"]
  BY DEF CopyTable, ReadTable
<1>2. fp \in 0 .. 1 /\ lkSnap[e] \in lkPast
  <2>1. lkSnap[e] \in lkPast /\ lkSnap[e] \in LkStates
    BY <1>1 DEF LkWorkInv, LkTypes
  <2> QED  BY <2>1 DEF LkStates
<1>3. file \in LkFileOf /\ file.holds = fp /\ file.digest < 2
  <2>1. CASE Unchanged(t, fp)
    <3>1. /\ file = lkFiles[<<t, fp>>] /\ <<t, fp>> \in DOMAIN lkFiles
          /\ t \in DOMAIN lkManifest /\ file.digest = lkManifest[t].digest
      BY <2>1 DEF Unchanged, HasFile
    <3>2. file.digest < 2
      BY <3>1 DEF LkManifestInv, LkTypes
    <3>3. file \in LkFileOf /\ (file.holds = <<t, fp>>[2] \/ file.digest = 2)
      BY <3>1 DEF LkTypes, LkFilesInv
    <3> QED  BY <3>2, <3>3
  <2>2. CASE ~Unchanged(t, fp)
    <3>1. file = [holds |-> fp, digest |-> digest]
      BY <2>2
    <3> HIDE DEF file
    <3> QED  BY <1>2, <3>1 DEF LkFileOf
  <2> QED  BY <2>1, <2>2
<1> HIDE DEF file, fp
<1>4. /\ DOMAIN lkFiles' = DOMAIN lkFiles \cup {<<t, fp>>} /\ lkFiles'[<<t, fp>>] = file
      /\ \A k \in DOMAIN lkFiles : k # <<t, fp>> => lkFiles'[k] = lkFiles[k]
  BY <1>1
<1>5. /\ DOMAIN lkMeta'[e] = DOMAIN lkMeta[e] \cup {t}
      /\ lkMeta'[e][t] = [fp |-> fp, digest |-> file.digest]
      /\ \A u \in DOMAIN lkMeta[e] : lkMeta'[e][u] = lkMeta[e][u]
      /\ \A d \in LkExporters \ {e} : lkMeta'[d] = lkMeta[d] /\ lkPc'[d] = lkPc[d]
      /\ lkPc'[e] = IF DOMAIN lkMeta'[e] = LkTables THEN "publish" ELSE "copy"
  BY <1>1 DEF LkTypes
<1>6. /\ lkLock = {e} /\ \A d \in LkExporters \ {e} : lkPc[d] = "idle"
      /\ \A u \in DOMAIN lkMeta[e] :
           /\ lkMeta[e][u].fp = lkSnap[e][u] /\ lkMeta[e][u].digest < 2
           /\ HasFile(u, lkMeta[e][u].fp)
           /\ lkFaults = 0 => lkFiles[<<u, lkMeta[e][u].fp>>].digest = lkMeta[e][u].digest
  BY <1>1 DEF LkWorkInv
<1>7. LkTypes'
  <2>1. \A k \in DOMAIN lkFiles' : lkFiles'[k] \in LkFileOf
    BY <1>3, <1>4 DEF LkTypes
  <2>2. LkPartial(lkMeta'[e])
    <3>1. file.digest \in 0 .. 2
      BY <1>3 DEF LkFileOf
    <3>2. [fp |-> fp, digest |-> file.digest] \in LkEntries
      BY <1>2, <3>1 DEF LkEntries
    <3>3. DOMAIN lkMeta[e] \subseteq LkTables /\ \A u \in DOMAIN lkMeta[e] : lkMeta[e][u] \in LkEntries
      BY DEF LkTypes, LkPartial
    <3>4. lkMeta'[e] = [u \in DOMAIN lkMeta'[e] |-> lkMeta'[e][u]]
      BY <1>1 DEF LkTypes
    <3> QED  BY <1>5, <3>2, <3>3, <3>4 DEF LkPartial
  <2>3. \A d \in LkExporters : LkPartial(lkMeta'[d])
    BY <1>5, <2>2 DEF LkTypes
  <2>4. DOMAIN lkFiles' \subseteq LkTables \X (0 .. 1)
    BY <1>2, <1>4 DEF LkTypes
  <2>5. /\ DOMAIN lkMeta' = LkExporters
        /\ lkPc' \in [LkExporters -> {"idle", "copy", "publish"}]
    BY <1>1 DEF LkTypes
  <2>6. LkPartial(lkManifest') /\ DOMAIN lkManifest' \in {{}, LkTables} /\ DOMAIN lkSnap' = LkExporters
    BY <1>1 DEF LkTypes
  <2>7. lkDb' \in LkStates /\ lkPast' \subseteq LkStates /\ lkDb' \in lkPast' /\ lkFaults' \in Nat
    BY <1>1 DEF LkTypes
  <2> QED  BY <2>1, <2>3, <2>4, <2>5, <2>6, <2>7 DEF LkTypes
<1>8. LkFilesInv'
  BY <1>1, <1>3, <1>4 DEF LkFilesInv
<1>9. LkWorkInv'
  <2> SUFFICES ASSUME NEW d \in LkExporters PROVE LkWorkInv!(d)'
    BY DEF LkWorkInv
  <2>1. CASE d = e
    <3>1. ASSUME NEW u \in DOMAIN lkMeta'[e]
          PROVE  /\ lkMeta'[e][u].fp = lkSnap[e][u] /\ lkMeta'[e][u].digest < 2
                 /\ <<u, lkMeta'[e][u].fp>> \in DOMAIN lkFiles'
                 /\ lkFaults = 0 =>
                      lkFiles'[<<u, lkMeta'[e][u].fp>>].digest = lkMeta'[e][u].digest
      <4>1. CASE u = t
        BY <1>3, <1>4, <1>5, <4>1 DEF fp
      <4>2. CASE u # t
        BY <1>4, <1>5, <1>6, <4>2 DEF HasFile
      <4> QED  BY <4>1, <4>2
    <3>2. lkPc'[e] # "idle" /\ (lkPc'[e] = "publish" => DOMAIN lkMeta'[e] = LkTables)
      BY <1>5
    <3>3. lkLock' = {e} /\ lkSnap'[e] \in lkPast' /\ lkSnap' = lkSnap /\ lkFaults' = lkFaults
      BY <1>1, <1>2, <1>6
    <3> QED  BY <2>1, <3>1, <3>2, <3>3 DEF HasFile
  <2>2. CASE d # e
    BY <1>1, <1>5, <1>6, <2>2
  <2> QED  BY <2>1, <2>2
<1>10. LkLockInv' /\ LkManifestInv' /\ LkCopiesInv'
  BY <1>1, <1>5, <1>6 DEF LkLockInv, LkManifestInv, LkCopiesInv
<1> QED  BY <1>7, <1>8, <1>9, <1>10

(* Every step keeps the snapshots whole. *)
LEMMA LkStep == LkIInv /\ [LakeNext \/ BackupNext]_lkVars => LkIInv'
<1> SUFFICES ASSUME LkIInv, [LakeNext \/ BackupNext]_lkVars PROVE LkIInv'
  OBVIOUS
<1>1. CASE UNCHANGED lkVars
  BY <1>1 DEF lkVars, LkIInv, LkTypes, LkPartial, LkFilesInv, LkWorkInv, HasFile, LkLockInv,
              LkManifestInv, CommittedFile, LkCopiesInv
<1>2. CASE LakeNext \/ BackupNext
  BY <1>2, LkWriteStep, LkLockStep, LkPublishStep, LkFailStep, LkCopyStep, LkDamageStep,
     LkBackupStep DEF LakeNext, BackupNext
<1> QED  BY <1>1, <1>2

(* What the invariant says of a snapshot. *)
LEMMA LkHolds == LkIInv => SnapshotIsOneState
<1> SUFFICES ASSUME LkIInv PROVE SnapshotIsOneState
  OBVIOUS
<1>1. lkManifest # LkNothing => DOMAIN lkManifest = LkTables /\ DOMAIN lkManifest # {}
  BY DEF LkIInv, LkTypes, LkPartial, LkNothing
<1>2. ASSUME NEW t \in LkTables, CommittedFile(t)
      PROVE  lkFiles[<<t, lkManifest[t].fp>>].holds = lkManifest[t].fp
  <2>1. /\ t \in DOMAIN lkManifest /\ <<t, lkManifest[t].fp>> \in DOMAIN lkFiles
        /\ lkFiles[<<t, lkManifest[t].fp>>].digest = lkManifest[t].digest
    BY <1>2 DEF CommittedFile, HasFile
  <2>2. lkManifest[t].digest < 2
    BY <2>1 DEF LkIInv, LkManifestInv
  <2>3. \/ lkFiles[<<t, lkManifest[t].fp>>].holds = <<t, lkManifest[t].fp>>[2]
        \/ lkFiles[<<t, lkManifest[t].fp>>].digest = 2
    BY <2>1 DEF LkIInv, LkFilesInv
  <2> QED  BY <2>1, <2>2, <2>3
<1> QED  BY <1>1, <1>2 DEF LkIInv, LkManifestInv, LkCopiesInv, SnapshotIsOneState

-----------------------------------------------------------------------------
(* The tool server: permits, roles and pages.                                *)
McKinds == {"experiment", "gameday", "journal"}
McTypes ==
    /\ mcMode \in {"open", "tokens"} /\ mcFree \in Nat
    /\ mcHeader \in McTokens \cup {"none"}
    /\ mcReq \in [McRequests ->
         [pc : {"idle", "auth", "permit", "work", "write", "running", "finish"}, tool : McTools,
          file : McFiles \cup {1}, meta : McTokens \cup {"none"},
          role : McTokens \cup {"none", "open"}]]
    /\ \A r \in McRequests : mcReq[r].pc # "idle" => mcReq[r].file \in McFiles
    /\ mcFile \in [McFiles -> McKinds \cup {"none"}]
    /\ mcWalk \in [at : Nat \cup {-1}, seen : SUBSET McFiles, there : SUBSET McFiles,
                   moved : BOOLEAN, missed : BOOLEAN]

(* Every permit is free or held by a call at work. *)
McPermitsInv == IsFiniteSet(McWorking) /\ mcFree + Cardinality(McWorking) = McPermits

(* A call that waits for a permit has passed the gate already. *)
McAdmittedInv ==
    \A r \in McRequests : mcReq[r].pc \notin {"idle", "auth"} =>
        /\ mcReq[r].role = "open" <=> mcMode = "open"
        /\ mcReq[r].role # "unknown"
        /\ mcReq[r].role = "viewer" => mcReq[r].tool \in McReading

(* A walk has seen what was there and is ranked before its cursor, unless a
   file changed its kind. *)
McWalkInv ==
    /\ ~mcWalk.missed
    /\ mcWalk.at < 0 => ~mcWalk.moved
    /\ mcWalk.at >= 0 /\ ~mcWalk.moved =>
         /\ mcWalk.there \subseteq Resources
         /\ \A f \in mcWalk.there : IndexOf(f) < mcWalk.at => f \in mcWalk.seen
McIInv == McTypes /\ McPermitsInv /\ McAdmittedInv /\ McWalkInv

(* Where a call may be. *)
McPlaces == {"idle", "auth", "permit", "work", "write", "running", "finish"}
McAtWork == {"work", "write", "running", "finish"}
McCalls == [pc : McPlaces, tool : McTools, file : McFiles \cup {1},
            meta : McTokens \cup {"none"}, role : McTokens \cup {"none", "open"}]

(* A server starts with every permit free and nobody at work. *)
LEMMA McStart == McInit => McIInv
<1> SUFFICES ASSUME McInit PROVE McIInv
  OBVIOUS
<1>1. mcReq = [r \in McRequests |-> McIdle] /\ McIdle \in McCalls /\ McIdle.pc = "idle"
  BY DEF McInit, McIdle, McCalls, McPlaces, McTools, McReading, McTokens
<1>2. McTypes
  <2>1. mcFile \in [McFiles -> McKinds \cup {"none"}]
    BY DEF McInit, McKinds
  <2>2. McNoWalk \in [at : Nat \cup {-1}, seen : SUBSET McFiles, there : SUBSET McFiles,
                      moved : BOOLEAN, missed : BOOLEAN]
    BY DEF McNoWalk
  <2> QED  BY <1>1, <2>1, <2>2, McAssumption DEF McInit, McTypes, McCalls, McPlaces
<1>3. McWorking = {}
  BY <1>1 DEF McWorking
<1>4. McPermitsInv
  BY <1>3, FS_EmptySet, McAssumption DEF McPermitsInv, McInit
<1>5. McAdmittedInv
  BY <1>1 DEF McAdmittedInv
<1>6. McWalkInv
  BY DEF McInit, McNoWalk, McWalkInv
<1> QED  BY <1>2, <1>4, <1>5, <1>6 DEF McIInv

(* A call takes its place: what it needs to have there, and what it leaves. *)
LEMMA McCallMoves ==
    ASSUME McIInv, NEW r \in McRequests, NEW call \in McCalls,
           mcReq' = [mcReq EXCEPT ![r] = call], mcMode' = mcMode,
           call.pc # "idle" => call.file \in McFiles,
           call.pc \notin {"idle", "auth"} =>
             /\ call.role = "open" <=> mcMode = "open"
             /\ call.role # "unknown"
             /\ call.role = "viewer" => call.tool \in McReading,
           mcFree' = IF mcReq[r].pc \in McAtWork
                       THEN IF call.pc \in McAtWork THEN mcFree ELSE mcFree + 1
                       ELSE IF call.pc \in McAtWork THEN mcFree - 1 ELSE mcFree,
           mcFree' \in Nat
    PROVE  /\ McPermitsInv' /\ McAdmittedInv'
           /\ mcReq' \in [McRequests -> McCalls]
           /\ \A q \in McRequests : mcReq'[q].pc # "idle" => mcReq'[q].file \in McFiles
<1>1. mcReq \in [McRequests -> McCalls] /\ mcFree \in Nat
  BY DEF McIInv, McTypes, McCalls, McPlaces
<1>2. mcReq'[r] = call /\ \A q \in McRequests \ {r} : mcReq'[q] = mcReq[q]
  BY <1>1
<1>3. McAdmittedInv'
  BY <1>2 DEF McIInv, McAdmittedInv
<1>4. mcReq' \in [McRequests -> McCalls]
  BY <1>1
<1>5. \A q \in McRequests : mcReq'[q].pc # "idle" => mcReq'[q].file \in McFiles
  BY <1>2 DEF McIInv, McTypes
<1>6. McPermitsInv'
  <2>1. /\ McWorking = {q \in McRequests : mcReq[q].pc \in McAtWork}
        /\ McWorking' = {q \in McRequests : mcReq'[q].pc \in McAtWork}
        /\ IsFiniteSet(McWorking) /\ mcFree + Cardinality(McWorking) = McPermits
    BY DEF McIInv, McPermitsInv, McWorking, McAtWork
  <2>2. Cardinality(McWorking) \in Nat
    BY <2>1, FS_CardinalityType
  <2>3. CASE mcReq[r].pc \in McAtWork /\ call.pc \notin McAtWork
    <3>1. McWorking' = McWorking \ {r} /\ r \in McWorking
      BY <1>2, <2>1, <2>3
    <3>2. IsFiniteSet(McWorking') /\ Cardinality(McWorking') = Cardinality(McWorking) - 1
      BY <2>1, <3>1, FS_RemoveElement
    <3> QED  BY <1>1, <2>1, <2>2, <2>3, <3>2 DEF McPermitsInv
  <2>4. CASE mcReq[r].pc \notin McAtWork /\ call.pc \in McAtWork
    <3>1. McWorking' = McWorking \cup {r} /\ r \notin McWorking
      BY <1>2, <2>1, <2>4
    <3>2. IsFiniteSet(McWorking \cup {r})
          /\ Cardinality(McWorking \cup {r}) = Cardinality(McWorking) + 1
      BY <2>1, <3>1, FS_AddElement
    <3>3. Cardinality(McWorking') = Cardinality(McWorking) + 1 /\ IsFiniteSet(McWorking')
      BY <3>1, <3>2
    <3>4. mcFree' = mcFree - 1
      BY <2>4
    <3>5. mcFree' + Cardinality(McWorking') = mcFree + Cardinality(McWorking)
      BY <1>1, <2>2, <3>3, <3>4
    <3> QED  BY <2>1, <3>3, <3>5 DEF McPermitsInv
  <2>5. CASE mcReq[r].pc \in McAtWork <=> call.pc \in McAtWork
    <3>1. McWorking' = McWorking /\ mcFree' = mcFree
      BY <1>2, <2>1, <2>5
    <3> QED  BY <2>1, <3>1 DEF McPermitsInv
  <2> QED  BY <2>3, <2>4, <2>5
<1> QED  BY <1>3, <1>4, <1>5, <1>6

(* A call that only goes on, or away. *)
LEMMA McCallGoes ==
    ASSUME McIInv, NEW r \in McRequests, mcMode' = mcMode,
           \/ McRefuse(r)
           \/ \E pc \in McPlaces : /\ McGo(r, pc) /\ pc # "auth"
                                   /\ mcReq[r].pc \notin {"idle", "auth"},
           mcFree' = IF mcReq[r].pc \in McAtWork
                       THEN IF mcReq'[r].pc \in McAtWork THEN mcFree ELSE mcFree + 1
                       ELSE IF mcReq'[r].pc \in McAtWork THEN mcFree - 1 ELSE mcFree,
           mcFree' \in Nat
    PROVE  /\ McPermitsInv' /\ McAdmittedInv'
           /\ mcReq' \in [McRequests -> McCalls]
           /\ \A q \in McRequests : mcReq'[q].pc # "idle" => mcReq'[q].file \in McFiles
<1>1. mcReq \in [McRequests -> McCalls]
  BY DEF McIInv, McTypes, McCalls, McPlaces
<1>2. CASE McRefuse(r)
  <2>1. McIdle \in McCalls /\ McIdle.pc = "idle" /\ mcReq'[r] = McIdle
    BY <1>1, <1>2 DEF McRefuse, McIdle, McCalls, McPlaces, McTools, McReading, McTokens
  <2> QED  BY <1>2, <2>1, McCallMoves DEF McRefuse
<1>3. ASSUME NEW pc \in McPlaces, McGo(r, pc), pc # "auth", mcReq[r].pc \notin {"idle", "auth"}
      PROVE  /\ McPermitsInv' /\ McAdmittedInv'
             /\ mcReq' \in [McRequests -> McCalls]
             /\ \A q \in McRequests : mcReq'[q].pc # "idle" => mcReq'[q].file \in McFiles
  <2> DEFINE call == [mcReq[r] EXCEPT !.pc = pc]
  <2>1. /\ call \in McCalls /\ call.pc = pc /\ call.file = mcReq[r].file
        /\ call.role = mcReq[r].role /\ call.tool = mcReq[r].tool
    BY <1>1 DEF McCalls
  <2>2. mcReq' = [mcReq EXCEPT ![r] = call] /\ mcReq'[r] = call
    BY <1>1, <1>3 DEF McGo
  <2> HIDE DEF call
  <2>3. /\ call.file \in McFiles
        /\ call.role = "open" <=> mcMode = "open"
        /\ call.role # "unknown" /\ (call.role = "viewer" => call.tool \in McReading)
    BY <1>3, <2>1 DEF McIInv, McTypes, McAdmittedInv
  <2> QED  BY <2>1, <2>2, <2>3, McCallMoves
<1> QED  BY <1>2, <1>3

(* What the ranks of the resources say of the end of a listing. *)
LEMMA McRanks ==
    ASSUME McTypes
    PROVE  /\ IsFiniteSet(Resources) /\ Cardinality(Resources) \in Nat
           /\ \A f \in Resources : IndexOf(f) \in Nat /\ IndexOf(f) < Cardinality(Resources)
<1>1. IsFiniteSet(McFiles) /\ Resources \subseteq McFiles
  BY McAssumption DEF Resources
<1>2. IsFiniteSet(Resources) /\ Cardinality(Resources) \in Nat
  BY <1>1, FS_Subset, FS_CardinalityType
<1>3. ASSUME NEW f \in Resources PROVE IndexOf(f) \in Nat /\ IndexOf(f) < Cardinality(Resources)
  <2> DEFINE earlier == {g \in Resources : Before(g, f)}
  <2>1. f \notin earlier
    <3>1. mcFile[f] \in McKinds
      BY DEF Resources, McTypes
    <3>2. Rank[mcFile[f]] \in Nat
      BY <3>1 DEF Rank, McKinds
    <3>3. f \in Nat
      BY <1>1, McAssumption, FS_CardinalityType
    <3> QED  BY <3>2, <3>3 DEF Before
  <2>2. earlier \subseteq Resources /\ earlier # Resources
    BY <2>1
  <2>3. /\ IsFiniteSet(earlier) /\ Cardinality(earlier) \in Nat
        /\ Cardinality(earlier) < Cardinality(Resources)
    BY <1>2, <2>2, FS_Subset, FS_CardinalityType
  <2> QED  BY <2>3 DEF IndexOf
<1> QED  BY <1>2, <1>3

(* A file that is written is a resource from then on, and one that keeps its
   kind keeps those before it. *)
LEMMA McWritten ==
    ASSUME McIInv, NEW f \in McFiles, NEW content \in McKinds, WriteFile(f, content)
    PROVE  /\ McWalkInv'
           /\ mcFile' \in [McFiles -> McKinds \cup {"none"}]
           /\ mcWalk' \in [at : Nat \cup {-1}, seen : SUBSET McFiles, there : SUBSET McFiles,
                           moved : BOOLEAN, missed : BOOLEAN]
<1> DEFINE kind == Classify(f, content)
<1>1. kind \in McKinds
  BY DEF Classify, McKinds
<1> HIDE DEF kind
<1>2. /\ mcFile' = [mcFile EXCEPT ![f] = kind]
      /\ mcWalk' = [mcWalk EXCEPT !.moved = @ \/ (mcWalk.at >= 0 /\ mcFile[f] \notin {"none", kind})]
  BY DEF WriteFile, kind
<1>3. McTypes
  BY DEF McIInv
<1>4. /\ mcFile' \in [McFiles -> McKinds \cup {"none"}] /\ mcFile'[f] = kind
      /\ \A g \in McFiles \ {f} : mcFile'[g] = mcFile[g]
  BY <1>1, <1>2, <1>3 DEF McTypes
<1>5. /\ mcWalk'.at = mcWalk.at /\ mcWalk'.seen = mcWalk.seen /\ mcWalk'.there = mcWalk.there
      /\ mcWalk'.missed = mcWalk.missed
      /\ mcWalk'.moved <=> mcWalk.moved \/ (mcWalk.at >= 0 /\ mcFile[f] \notin {"none", kind})
      /\ mcWalk' \in [at : Nat \cup {-1}, seen : SUBSET McFiles, there : SUBSET McFiles,
                      moved : BOOLEAN, missed : BOOLEAN]
  BY <1>2, <1>3 DEF McTypes
<1>6. ASSUME mcFile[f] \in {"none", kind}, NEW g \in Resources
      PROVE  g \in Resources' /\ IndexOf(g) <= IndexOf(g)'
  <2>1. \A h \in Resources : h \in McFiles /\ mcFile'[h] = mcFile[h] /\ mcFile[h] # "none"
    BY <1>4, <1>6 DEF Resources
  <2>2. Resources \subseteq Resources'
    BY <2>1 DEF Resources
  <2>3. {h \in Resources : Before(h, g)} \subseteq {h \in Resources : Before(h, g)}'
    BY <2>1, <2>2 DEF Before
  <2>4. IsFiniteSet({h \in Resources : Before(h, g)}')
    <3>1. IsFiniteSet(Resources')
      BY McAssumption, FS_Subset DEF Resources
    <3> QED  BY <3>1, FS_Subset
  <2>5. Cardinality({h \in Resources : Before(h, g)})
          <= Cardinality({h \in Resources : Before(h, g)}')
    BY <2>3, <2>4, FS_Subset
  <2> QED  BY <2>2, <2>5 DEF IndexOf
<1>7. McWalkInv'
  <2> SUFFICES ASSUME mcWalk.at >= 0, ~mcWalk.moved, mcFile[f] \in {"none", kind}
               PROVE  /\ mcWalk.there \subseteq Resources'
                      /\ \A g \in mcWalk.there : IndexOf(g)' < mcWalk.at => g \in mcWalk.seen
    BY <1>3, <1>5 DEF McIInv, McWalkInv, McTypes
  <2>1. /\ mcWalk.there \subseteq Resources
        /\ \A g \in mcWalk.there : IndexOf(g) < mcWalk.at => g \in mcWalk.seen
    BY DEF McIInv, McWalkInv
  <2>2. mcWalk.there \subseteq Resources'
    BY <1>6, <2>1
  <2>3. ASSUME NEW g \in mcWalk.there, IndexOf(g)' < mcWalk.at PROVE g \in mcWalk.seen
    <3>1. g \in Resources /\ IndexOf(g) <= IndexOf(g)'
      BY <1>6, <2>1
    <3>2. IndexOf(g) \in Nat
      BY <1>3, <3>1, McRanks
    <3>3. IndexOf(g)' \in Nat
      <4>1. IsFiniteSet({h \in Resources : Before(h, g)}')
        BY McAssumption, FS_Subset DEF Resources
      <4> QED  BY <4>1, FS_CardinalityType DEF IndexOf
    <3>4. mcWalk.at \in Int
      BY <1>3 DEF McTypes
    <3> QED  BY <2>1, <2>3, <3>1, <3>2, <3>3, <3>4
  <2> QED  BY <2>2, <2>3
<1> QED  BY <1>4, <1>5, <1>7

(* A page adds what is ranked in it, and the last one leaves nothing out. *)
LEMMA McPageStep ==
    ASSUME McIInv, ListResourcesPage
    PROVE  McIInv'
<1> USE DEF McIInv
<1> DEFINE first == mcWalk.at < 0
           at == IF first THEN 0 ELSE mcWalk.at
           seen == mcWalk.seen \cup {f \in Resources : IndexOf(f) \in at .. at + McPageSize - 1}
           there == IF first THEN Resources ELSE mcWalk.there
<1>1. /\ UNCHANGED <<mcServer, mcMode, mcHeader, mcFree, mcSlot, mcReq, mcFile>>
      /\ mcWalk' = IF PageEnd(at) < Cardinality(Resources)
                     THEN [mcWalk EXCEPT !.at = PageEnd(at), !.seen = seen, !.there = there]
                     ELSE [McNoWalk EXCEPT !.missed = ~mcWalk.moved /\ ~(there \subseteq seen)]
  BY DEF ListResourcesPage
<1>2. /\ mcWalk.at \in Nat \cup {-1} /\ mcWalk.seen \subseteq McFiles /\ mcWalk.there \subseteq McFiles
      /\ mcWalk.moved \in BOOLEAN /\ ~mcWalk.missed /\ Resources \subseteq McFiles
      /\ McPageSize \in Nat \ {0}
  BY McAssumption DEF McTypes, McWalkInv, Resources
<1>3. at \in Nat /\ seen \subseteq McFiles /\ there \subseteq McFiles
  BY <1>2
<1>4. Cardinality(Resources) \in Nat
      /\ \A f \in Resources : IndexOf(f) \in Nat /\ IndexOf(f) < Cardinality(Resources)
  BY McRanks
<1>5. ASSUME ~mcWalk.moved
      PROVE  /\ there \subseteq Resources
             /\ \A f \in there : IndexOf(f) < at + McPageSize => f \in seen
  <2>1. there \subseteq Resources /\ \A f \in there : IndexOf(f) < at => f \in mcWalk.seen
    BY <1>2, <1>4, <1>5 DEF McWalkInv
  <2> QED  BY <1>2, <1>3, <1>4, <2>1
<1> HIDE DEF at, seen, there
<1>6. CASE PageEnd(at) < Cardinality(Resources)
  <2>1. /\ mcWalk'.at = at + McPageSize /\ mcWalk'.seen = seen /\ mcWalk'.there = there
        /\ mcWalk'.moved = mcWalk.moved /\ mcWalk'.missed = mcWalk.missed
        /\ mcWalk' \in [at : Nat \cup {-1}, seen : SUBSET McFiles, there : SUBSET McFiles,
                        moved : BOOLEAN, missed : BOOLEAN]
    <3>1. mcWalk' = [mcWalk EXCEPT !.at = PageEnd(at), !.seen = seen, !.there = there]
      BY <1>1, <1>6
    <3>2. PageEnd(at) = at + McPageSize /\ PageEnd(at) \in Nat
      BY <1>2, <1>3 DEF PageEnd
    <3>3. mcWalk = [at |-> mcWalk.at, seen |-> mcWalk.seen, there |-> mcWalk.there,
                    moved |-> mcWalk.moved, missed |-> mcWalk.missed]
      BY DEF McTypes
    <3>4. mcWalk' = [at |-> PageEnd(at), seen |-> seen, there |-> there,
                     moved |-> mcWalk.moved, missed |-> mcWalk.missed]
      BY <3>1, <3>3
    <3>5. seen \in SUBSET McFiles /\ there \in SUBSET McFiles /\ mcWalk.missed \in BOOLEAN
      BY <1>2, <1>3 DEF McTypes
    <3>6. PageEnd(at) \in Nat \cup {-1} /\ mcWalk.moved \in BOOLEAN
      BY <1>2, <3>2
    <3> HIDE DEF McIInv
    <3> QED  BY <3>2, <3>4, <3>5, <3>6
  <2>2. McWalkInv'
    <3>1. at + McPageSize \in Nat /\ Resources' = Resources /\ \A f : IndexOf(f)' = IndexOf(f)
      BY <1>1, <1>2, <1>3 DEF Resources, IndexOf, Before
    <3>2. ~(mcWalk'.at < 0) /\ mcWalk'.at = at + McPageSize
      BY <1>2, <1>3, <2>1
    <3>3. ~mcWalk.moved => /\ mcWalk'.there \subseteq Resources'
                           /\ \A f \in mcWalk'.there : IndexOf(f)' < mcWalk'.at => f \in mcWalk'.seen
      BY <1>5, <2>1, <3>1
    <3> QED  BY <1>2, <2>1, <3>2, <3>3 DEF McWalkInv
  <2> QED  BY <1>1, <2>1, <2>2 DEF McTypes, McPermitsInv, McWorking, McAdmittedInv
<1>7. CASE ~(PageEnd(at) < Cardinality(Resources))
  <2>1. Cardinality(Resources) <= at + McPageSize
    BY <1>2, <1>3, <1>4, <1>7 DEF PageEnd
  <2>2. ~mcWalk.moved => there \subseteq seen
    BY <1>2, <1>3, <1>4, <1>5, <2>1
  <2>3. /\ ~mcWalk'.missed /\ mcWalk'.at = -1 /\ ~mcWalk'.moved
        /\ mcWalk' \in [at : Nat \cup {-1}, seen : SUBSET McFiles, there : SUBSET McFiles,
                        moved : BOOLEAN, missed : BOOLEAN]
    BY <1>1, <1>7, <2>2 DEF McNoWalk
  <2> QED  BY <1>1, <2>3 DEF McTypes, McPermitsInv, McWorking, McAdmittedInv, McWalkInv
<1> QED  BY <1>6, <1>7

(* The calls on their way to a tool. *)
LEMMA McGateStep ==
    ASSUME McIInv, NEW r \in McRequests, Admit(r) \/ AcquirePermit(r) \/ WaiterGone(r)
    PROVE  McIInv'
<1> USE DEF McIInv, mcGate, mcDisk
<1>1. mcReq \in [McRequests -> McCalls] /\ mcFree \in Nat
  BY DEF McTypes, McCalls, McPlaces
<1>2. UNCHANGED <<mcServer, mcMode, mcHeader, mcFile, mcWalk>>
  BY DEF Admit, AcquirePermit, WaiterGone
<1>3. /\ McPermitsInv' /\ McAdmittedInv' /\ mcFree' \in Nat
      /\ mcReq' \in [McRequests -> McCalls]
      /\ \A q \in McRequests : mcReq'[q].pc # "idle" => mcReq'[q].file \in McFiles
  <2>1. CASE Admit(r)
    <3> DEFINE role == IF mcMode = "open" THEN "open" ELSE ResolveAuthorization(r)
               call == [mcReq[r] EXCEPT !.pc = "permit", !.role = role, !.meta = "none"]
    <3>1. /\ mcReq[r].pc = "auth" /\ mcFree' = mcFree
          /\ \/ /\ RoleMeets(role, mcReq[r].tool)
                /\ mcReq' = [mcReq EXCEPT ![r].pc = "permit", ![r].role = role, ![r].meta = "none"]
             \/ McRefuse(r)
      BY <2>1 DEF Admit
    <3>2. role \in McTokens \cup {"none", "open"} /\ (role = "open" <=> mcMode = "open")
      BY <1>1 DEF ResolveAuthorization, McTypes, McCalls, McTokens
    <3> HIDE DEF role
    <3>3. /\ call \in McCalls /\ call.pc = "permit" /\ call.role = role
          /\ call.file = mcReq[r].file /\ call.tool = mcReq[r].tool
      <4>1. mcReq[r] \in McCalls
        BY <1>1
      <4> DEFINE waits == [mcReq[r] EXCEPT !.pc = "permit"]
                 known == [waits EXCEPT !.role = role]
      <4>2. /\ waits \in McCalls /\ waits.pc = "permit"
            /\ waits.file = mcReq[r].file /\ waits.tool = mcReq[r].tool
        BY <4>1 DEF McCalls, McPlaces
      <4> HIDE DEF waits
      <4>3. /\ known \in McCalls /\ known.pc = "permit" /\ known.role = role
            /\ known.file = mcReq[r].file /\ known.tool = mcReq[r].tool
        BY <3>2, <4>2 DEF McCalls
      <4>4. call = [known EXCEPT !.meta = "none"]
        BY DEF waits
      <4> HIDE DEF known, call
      <4> QED  BY <4>3, <4>4 DEF McCalls
    <3>4. mcReq[r].tool \in McTools /\ mcReq[r].file \in McFiles
      BY <1>1, <3>1 DEF McCalls, McTypes
    <3>5. CASE RoleMeets(role, mcReq[r].tool)
               /\ mcReq' = [mcReq EXCEPT ![r].pc = "permit", ![r].role = role, ![r].meta = "none"]
      <4>1. mcReq' = [mcReq EXCEPT ![r] = call]
        BY <1>1, <3>5
      <4>2. /\ role # "unknown"
            /\ role = "viewer" => mcReq[r].tool \in McReading
        BY <3>5 DEF RoleMeets, RequiredRole
      <4> HIDE DEF call
      <4> QED  BY <1>1, <1>2, <3>1, <3>2, <3>3, <3>4, <4>1, <4>2, McCallMoves DEF McAtWork
    <3>6. CASE McRefuse(r)
      <4>1. mcReq'[r].pc = "idle"
        BY <1>1, <3>6 DEF McRefuse, McIdle
      <4> QED  BY <1>1, <1>2, <3>1, <3>6, <4>1, McCallGoes DEF McAtWork
    <3> QED  BY <3>1, <3>5, <3>6
  <2>2. CASE AcquirePermit(r)
    <3>1. /\ mcReq[r].pc = "permit" /\ mcFree' = mcFree - 1 /\ mcFree' \in Nat
          /\ McGo(r, "work") /\ mcReq'[r].pc = "work"
      BY <1>1, <2>2 DEF AcquirePermit, McGo, McCalls
    <3> QED  BY <1>2, <3>1, McCallGoes DEF McAtWork, McPlaces
  <2>3. CASE WaiterGone(r)
    <3>1. mcReq[r].pc = "permit" /\ mcFree' = mcFree /\ McRefuse(r) /\ mcReq'[r].pc = "idle"
      BY <1>1, <2>3 DEF WaiterGone, McRefuse, McIdle
    <3> QED  BY <1>1, <1>2, <3>1, McCallGoes DEF McAtWork
  <2> QED  BY <2>1, <2>2, <2>3
<1> QED  BY <1>2, <1>3 DEF McTypes, McCalls, McPlaces, McWalkInv, Resources, IndexOf, Before

(* The calls at work: a tool that finishes gives its permit back. *)
LEMMA McToolStep ==
    ASSUME McIInv, NEW r \in McRequests,
           \/ ToolRead(r) \/ CreateCheck(r) \/ CreateWrite(r) \/ ReportWrite(r) \/ RunTakesSlot(r)
           \/ FinishToolCall(r) \/ \E ok \in BOOLEAN : RunPublishes(r, ok)
    PROVE  McIInv'
<1> USE DEF McIInv, mcGate, mcDisk
<1>1. mcReq \in [McRequests -> McCalls] /\ mcFree \in Nat
  BY DEF McTypes, McCalls, McPlaces
<1>2. UNCHANGED <<mcServer, mcMode, mcHeader>> /\ mcReq[r].pc \in McAtWork
  BY DEF ToolRead, CreateCheck, CreateWrite, ReportWrite, RunTakesSlot, FinishToolCall,
         RunPublishes, McAtWork
<1>3. mcReq[r].file \in McFiles
  BY <1>2 DEF McTypes, McAtWork
<1> DEFINE Moved ==
      /\ McPermitsInv' /\ McAdmittedInv' /\ mcFree' \in Nat
      /\ mcReq' \in [McRequests -> McCalls]
      /\ \A q \in McRequests : mcReq'[q].pc # "idle" => mcReq'[q].file \in McFiles
<1>4. Moved
  <2>1. CASE FinishToolCall(r)
    <3>1. mcFree' = mcFree + 1 /\ McRefuse(r) /\ mcReq'[r].pc = "idle"
      BY <1>1, <2>1 DEF FinishToolCall, McRefuse, McIdle
    <3> QED  BY <1>1, <1>2, <3>1, McCallGoes DEF McAtWork
  <2>2. ASSUME NEW pc \in {"write", "running", "finish"}, McGo(r, pc), mcFree' = mcFree
        PROVE  Moved
    <3>1. mcReq'[r].pc = pc
      BY <1>1, <2>2 DEF McGo, McCalls
    <3> QED  BY <1>1, <1>2, <2>2, <3>1, McCallGoes DEF McAtWork, McPlaces
  <2>3. CASE ~FinishToolCall(r)
    <3>1. mcFree' = mcFree /\ \E pc \in {"write", "running", "finish"} : McGo(r, pc)
      BY <2>3 DEF ToolRead, CreateCheck, CreateWrite, ReportWrite, RunTakesSlot, RunPublishes
    <3> QED  BY <2>2, <3>1
  <2> QED  BY <2>1, <2>3
<1>5. \/ UNCHANGED <<mcFile, mcWalk>>
      \/ \E content \in McKinds : WriteFile(mcReq[r].file, content)
  BY DEF ToolRead, CreateCheck, CreateWrite, ReportWrite, RunTakesSlot, FinishToolCall,
         RunPublishes, McKinds
<1>6. CASE UNCHANGED <<mcFile, mcWalk>>
  BY <1>2, <1>4, <1>6 DEF McTypes, McCalls, McPlaces, McWalkInv, Resources, IndexOf, Before
<1>7. CASE \E content \in McKinds : WriteFile(mcReq[r].file, content)
  <2>1. /\ McWalkInv'
        /\ mcFile' \in [McFiles -> McKinds \cup {"none"}]
        /\ mcWalk' \in [at : Nat \cup {-1}, seen : SUBSET McFiles, there : SUBSET McFiles,
                        moved : BOOLEAN, missed : BOOLEAN]
    BY <1>3, <1>7, McWritten
  <2> QED  BY <1>2, <1>4, <2>1 DEF McTypes, McCalls, McPlaces
<1> QED  BY <1>5, <1>6, <1>7

(* A request arrives, with its header on the session. *)
LEMMA McArriveStep ==
    ASSUME McIInv, NEW r \in McRequests, NEW token \in McTokens, NEW meta \in {"none", "viewer"},
           NEW tool \in McTools, NEW f \in McFiles, VerifyToken(r, token, meta, tool, f)
    PROVE  McIInv'
<1> USE DEF McIInv, mcGate, mcDisk
<1> DEFINE call == [pc |-> "auth", tool |-> tool, file |-> f, meta |-> meta, role |-> "none"]
<1>1. /\ mcReq' = [mcReq EXCEPT ![r] = call] /\ mcReq[r].pc = "idle"
      /\ UNCHANGED <<mcMode, mcFree, mcFile, mcWalk>> /\ mcFree \in Nat
      /\ mcHeader' \in McTokens \cup {"none"}
  BY DEF VerifyToken, McTypes
<1>2. call \in McCalls /\ call.pc = "auth" /\ call.file \in McFiles
  BY DEF McCalls, McPlaces, McTokens
<1> HIDE DEF call
<1>3. /\ McPermitsInv' /\ McAdmittedInv'
      /\ mcReq' \in [McRequests -> McCalls]
      /\ \A q \in McRequests : mcReq'[q].pc # "idle" => mcReq'[q].file \in McFiles
  BY <1>1, <1>2, McCallMoves DEF McAtWork
<1> QED  BY <1>1, <1>3 DEF McTypes, McCalls, McPlaces, McWalkInv, Resources, IndexOf, Before

(* Every step of the server keeps its calls admitted and its walks complete. *)
LEMMA McStep == McIInv /\ [McNext]_mcVars => McIInv'
<1> SUFFICES ASSUME McIInv, [McNext]_mcVars PROVE McIInv'
  OBVIOUS
<1> DEFINE Rest == UNCHANGED <<mcMode, mcHeader, mcFree, mcReq, mcFile, mcWalk>>
<1>1. CASE Rest
  BY <1>1 DEF McIInv, McTypes, McPermitsInv, McWorking, McAdmittedInv, McWalkInv, Resources,
              IndexOf, Before
<1>2. CASE ~Rest
  <2>1. \/ \E r \in McRequests, token \in McTokens, meta \in {"none", "viewer"}, tool \in McTools,
              f \in McFiles : VerifyToken(r, token, meta, tool, f)
        \/ \E r \in McRequests :
             \/ Admit(r) \/ AcquirePermit(r) \/ WaiterGone(r)
             \/ ToolRead(r) \/ CreateCheck(r) \/ CreateWrite(r) \/ ReportWrite(r)
             \/ RunTakesSlot(r) \/ FinishToolCall(r) \/ \E ok \in BOOLEAN : RunPublishes(r, ok)
        \/ ListResourcesPage
    BY <1>2 DEF McNext, mcVars, Serve, McRefill, mcDisk
  <2> QED  BY <2>1, McArriveStep, McGateStep, McToolStep, McPageStep
<1> QED  BY <1>1, <1>2

(* What the invariant says of calls and listings. *)
LEMMA McHolds == McIInv => McSound
BY DEF McIInv, McPermitsInv, McAdmittedInv, McWalkInv, McSound, McCallsAdmitted, McPagesComplete,
       McWorking

-----------------------------------------------------------------------------
(* The read handlers: rows that arrive, and reports that are written.        *)
RaShelves == RaNames \cup RaGenerations
RaBodies == {<<>>} \cup {<<b>> : b \in SUBSET RaRows}
RaCovers == {<<>>} \cup {<<c>> : c \in SUBSET RaEnvs}
RaTypes ==
    /\ raRows \subseteq RaRows
    /\ raRun \in [RaRuns -> [asked : RaEnvs \cup {RaNull}, approval : RaEnvs \cup {RaNull},
                             context : RaEnvs \cup {RaNull}, gameday : RaEnvs \cup {RaNull},
                             exp : {r.exp : r \in RaRows} \cup {RaNull}, known : BOOLEAN]]
    /\ raGen \in [RaGenerations ->
                    [pc : 0 .. 4 \cup {RaDead}, kind : {"v1", "v2"}, scopes : SUBSET RaEnvs,
                     name : RaShelves \cup {RaNull}, body : SUBSET RaRows]]
    /\ raArt \in [RaShelves -> [meta : RaCovers, html : RaBodies, pdf : RaBodies]]
    /\ raTaken \in [RaShelves -> Nat]

(* What a run was requested for is in its request context, and nothing else. *)
RaRunInv ==
    \A u \in RaRuns : raRun[u].asked # RaNull =>
        /\ raRun[u].context = raRun[u].asked
        /\ raRun[u].approval \in {RaNull, raRun[u].asked}
        /\ raRun[u].gameday \in {RaNull, raRun[u].asked}

(* A generation has a name, which it took, and what it writes is linked to its
   scopes. *)
RaGenInv ==
    \A g \in RaGenerations : raGen[g].pc # 0 =>
        /\ raGen[g].name \in IF raGen[g].kind = "v1" THEN RaNames ELSE {g}
        /\ raTaken[raGen[g].name] > 0
        /\ raGen[g].scopes # {} => raGen[g].body \subseteq LinkedTo(raGen[g].scopes)

RaNamed(g, n) == raGen[g].pc # 0 /\ raGen[g].name = n
RaWritten(g, n) ==
    /\ raArt[n].meta \in {<<>>, <<raGen[g].scopes>>}
    /\ raArt[n].html \in {<<>>, <<raGen[g].body>>}
    /\ raArt[n].pdf \in {<<>>, <<raGen[g].body>>}
(* What is on the shelf under a name is of the one generation that took it, or
   a digest without a sidecar. *)
RaShelfInv ==
    \A n \in RaShelves :
        /\ raTaken[n] = 0 => raArt[n] = NoArt
        /\ raTaken[n] = 1 =>
             /\ \A g, h \in RaGenerations : RaNamed(g, n) /\ RaNamed(h, n) => g = h
             /\ \A g \in RaGenerations : RaNamed(g, n) => RaWritten(g, n)
             /\ (\A g \in RaGenerations : ~RaNamed(g, n)) => raArt[n].meta = <<>>

(* The files of a report come in their order, the metadata last. *)
RaOrderInv ==
    \A g \in RaGenerations :
        /\ raArt[g].meta # <<>> => raArt[g].html # <<>> /\ raArt[g].pdf # <<>>
        /\ raGen[g].kind = "v2" =>
             /\ raGen[g].pc \in 2 .. 4 => raArt[g].pdf # <<>>
             /\ raGen[g].pc \in 3 .. 4 => raArt[g].html # <<>>
RaIInv == RaTypes /\ RaRunInv /\ RaGenInv /\ RaShelfInv /\ RaOrderInv

(* A row with an environment in scope, or one that shares a trace or an
   experiment with a span that has, is linked to the scopes. *)
LEMMA RaLinks ==
    ASSUME NEW S, NEW r \in raRows
    PROVE  /\ r.env \in S => r \in LinkedTo(S)
           /\ \A s \in Spans : s.env \in S /\ (Same(s.trace, r.trace) \/ Same(s.exp, r.exp))
                                 => r \in LinkedTo(S)
           /\ \A s \in Spans : s.env \in S /\ r.kind = "point" /\ Same(s.name, r.name)
                                 => r \in LinkedTo(S)
BY DEF LinkedTo

(* What two columns have in common they have in either order. *)
LEMMA RaSame == \A a, b, c : /\ Same(a, b) <=> Same(b, a)
                             /\ Same(a, b) /\ Same(b, c) => Same(a, c)
BY DEF Same

(* Spans, logs and points are rows that have arrived. *)
LEMMA RaKinds == /\ Spans \subseteq raRows /\ Logs \subseteq raRows /\ Points \subseteq raRows
                 /\ Table("manual") \subseteq raRows
                 /\ \A p \in Points : p.kind = "point"
                 /\ \A s \in Spans : s.kind = "span"
                 /\ \A s \in raRows : s.kind = "span" => s \in Spans
BY DEF Spans, Logs, Points, Table

(* The correlated predicates under scopes: each names a span in scope. *)
LEMMA RaPredicates ==
    ASSUME NEW S, S # {}, NEW r \in raRows
    PROVE  /\ env_scope_where(r.env, S) => r \in LinkedTo(S)
           /\ env_trace_exists(r, S) => r \in LinkedTo(S)
           /\ log_wheres(r, S) => r \in LinkedTo(S)
           /\ r \in Points /\ env_metric_exists(r, S) => r \in LinkedTo(S)
BY RaLinks, RaKinds DEF env_scope_where, env_trace_exists, log_wheres, env_metric_exists

(* A root in scope brings along what shares its experiment or its trace. *)
LEMMA RaRooted ==
    ASSUME NEW S, S # {}, NEW s \in Roots(S)
    PROVE  /\ s \in Spans /\ s.env \in S /\ s \in LinkedTo(S) /\ Joined(s) \subseteq LinkedTo(S)
           /\ \A r \in raRows : Same(r.exp, s.exp) \/ Same(r.trace, s.trace) => r \in LinkedTo(S)
<1>1. s \in Spans /\ s.env \in S
  BY DEF Roots, env_scope_where
<1>2. \A r \in raRows : Same(r.exp, s.exp) \/ Same(r.trace, s.trace) => r \in LinkedTo(S)
  BY <1>1, RaLinks, RaSame
<1>3. s \in LinkedTo(S)
  BY <1>1, RaLinks, RaKinds
<1>4. Joined(s) \subseteq LinkedTo(S)
  BY <1>2, RaKinds DEF Joined
<1> QED  BY <1>1, <1>2, <1>3, <1>4

(* A detail shows what its experiment is linked to: an experiment in scope has
   a root in scope, and all its spans are of one trace. *)
LEMMA RaDetail ==
    ASSUME NEW S, S # {}, raRows \subseteq RaRows, NEW x
    PROVE  /\ experiment_detail(S, x) \subseteq LinkedTo(S)
           /\ experiment_detail(S, x) # {} <=> \E s \in Roots(S) : Same(s.exp, x)
<1> DEFINE info == {s \in Roots(S) : Same(s.exp, x)}
           spans == {s \in Spans : \/ Same(s.exp, x)
                                   \/ \E o \in Spans : Same(o.exp, x) /\ Same(o.trace, s.trace)}
           texts == {l \in Logs : Same(l.exp, x) \/ \E s \in spans : Same(s.trace, l.trace)}
           metrics == {p \in Points : \E s \in info : Same(s.name, p.name)}
<1>1. experiment_detail(S, x) = IF info = {} THEN {} ELSE spans \cup texts \cup metrics
  BY DEF experiment_detail
<1>2. ASSUME NEW i \in info
      PROVE  /\ i \in spans /\ spans \subseteq LinkedTo(S) /\ texts \subseteq LinkedTo(S)
             /\ metrics \subseteq LinkedTo(S)
  <2>1. i \in Roots(S) /\ Same(i.exp, x) /\ i \in Spans /\ i.env \in S
    BY RaRooted
  <2>2. \A o \in Spans : Same(o.exp, x) => o.trace = i.trace
    <3>1. ASSUME NEW o \in Spans, Same(o.exp, x) PROVE o.trace = i.trace
      <4>1. Same(o.exp, i.exp)
        BY <2>1, <3>1 DEF Same
      <4>2. o \in RaRows /\ i \in RaRows /\ o.kind = "span" /\ i.kind = "span"
        BY <2>1, RaKinds
      <4> QED  BY <4>1, <4>2, RaAssumption
    <3> QED  BY <3>1
  <2>3. \A s \in spans : s \in raRows /\ (Same(s.exp, i.exp) \/ Same(s.trace, i.trace))
    BY <2>1, <2>2, RaKinds DEF Same
  <2>4. spans \subseteq LinkedTo(S)
    BY <2>1, <2>3, RaRooted
  <2>5. \A l \in texts : l \in raRows /\ (Same(l.exp, i.exp) \/ Same(l.trace, i.trace))
    <3>1. ASSUME NEW l \in texts PROVE Same(l.exp, i.exp) \/ Same(l.trace, i.trace)
      <4>1. CASE Same(l.exp, x)
        BY <2>1, <4>1 DEF Same
      <4>2. ASSUME NEW s \in spans, Same(s.trace, l.trace) PROVE Same(l.trace, i.trace)
        <5>1. s.trace = i.trace
          BY <2>2, <4>2 DEF Same
        <5> QED  BY <4>2, <5>1 DEF Same
      <4> QED  BY <4>1, <4>2
    <3> QED  BY <3>1, RaKinds
  <2>6. texts \subseteq LinkedTo(S)
    BY <2>1, <2>5, RaRooted
  <2>7. metrics \subseteq LinkedTo(S)
    <3>1. ASSUME NEW p \in metrics PROVE p \in LinkedTo(S)
      <4>1. PICK s \in info : Same(s.name, p.name)
        OBVIOUS
      <4>2. s \in Spans /\ s.env \in S
        BY RaRooted
      <4>3. p \in raRows /\ p.kind = "point"
        BY RaKinds
      <4> QED  BY <4>1, <4>2, <4>3, RaLinks
    <3> QED  BY <3>1
  <2>8. i \in spans
    BY <2>1
  <2> QED  BY <2>4, <2>6, <2>7, <2>8
<1> HIDE DEF spans, texts, metrics
<1>3. CASE info = {}
  BY <1>1, <1>3
<1>4. CASE info # {}
  BY <1>1, <1>2, <1>4
<1> QED  BY <1>3, <1>4

(* A trace is shown when one of its spans is in scope, and all of it then. *)
LEMMA RaTrace ==
    ASSUME NEW S, S # {}, NEW t
    PROVE  /\ trace_detail(S, t) \subseteq LinkedTo(S)
           /\ trace_detail(S, t) # {} <=> t \in traces(S, raRows)
<1> DEFINE spans == {s \in Spans : Same(s.trace, t) /\ env_trace_exists(s, S)}
           texts == {l \in Logs : Same(l.trace, t)}
<1>1. trace_detail(S, t) = IF spans = {} THEN {} ELSE spans \cup texts
  BY DEF trace_detail
<1>2. spans # {} <=> t \in traces(S, raRows)
  BY RaKinds DEF traces, Same
<1>3. spans \subseteq LinkedTo(S)
  BY RaKinds, RaPredicates
<1>4. ASSUME NEW s \in spans, NEW l \in texts PROVE l \in LinkedTo(S)
  <2>1. PICK n \in Spans : Same(n.trace, s.trace) /\ n.env \in S
    BY DEF env_trace_exists
  <2>2. Same(n.trace, l.trace) /\ l \in raRows
    BY <2>1, RaKinds DEF Same
  <2> QED  BY <2>1, <2>2, RaLinks
<1> HIDE DEF spans, texts
<1> QED  BY <1>1, <1>2, <1>3, <1>4

(* Whatever is shown is linked to the scopes. *)
LEMMA RaShown ==
    ASSUME NEW S, S # {}, raRows \subseteq RaRows
    PROVE  Shown(S) \subseteq LinkedTo(S)
<1>1. experiments(S, raRows, {"automated", "manual"}) \subseteq LinkedTo(S)
  BY RaRooted, RaKinds, RaPredicates DEF experiments
<1>2. experiment_windows(S) \subseteq LinkedTo(S)
  BY RaKinds, RaLinks DEF experiment_windows
<1>3. dimensions(S) \subseteq LinkedTo(S)
  BY RaKinds, RaLinks, RaPredicates DEF dimensions
<1>4. logs(S, raRows) \subseteq LinkedTo(S) /\ load_catalog(S) \subseteq LinkedTo(S)
  BY RaKinds, RaPredicates DEF logs, load_catalog
<1>5. trace_durations(S) \subseteq LinkedTo(S)
  BY RaKinds, RaPredicates DEF trace_durations
<1>6. overview(S) \subseteq LinkedTo(S)
  BY RaRooted, RaKinds, RaPredicates DEF overview, kpi_rows
<1>7. timeseries(S, "span") \subseteq LinkedTo(S) /\ timeseries(S, "point") \subseteq LinkedTo(S)
  BY RaKinds, RaPredicates DEF timeseries, env_table_predicate, Table, Points, Spans
<1>8. \A r \in raRows : /\ experiment_detail(S, r.exp) \subseteq LinkedTo(S)
                        /\ trace_detail(S, r.trace) \subseteq LinkedTo(S)
                        /\ metrics_query(S, r.name) \subseteq LinkedTo(S)
  BY <1>4, RaDetail, RaTrace DEF metrics_query
<1>9. \A tables : ask(S, tables) \subseteq LinkedTo(S)
  BY RaPredicates DEF ask, Table
<1>10. UNION {experiment_detail(S, r.exp) \cup trace_detail(S, r.trace)
                \cup metrics_query(S, r.name) : r \in raRows} \subseteq LinkedTo(S)
  BY <1>8
<1>11. UNION {ask(S, tables) : tables \in SUBSET {"span", "log", "point", "users"}}
         \subseteq LinkedTo(S)
  BY <1>9
<1> DEFINE lists == experiments(S, raRows, {"automated", "manual"}) \cup experiment_windows(S)
                    \cup dimensions(S) \cup logs(S, raRows) \cup load_catalog(S) \cup trace_durations(S)
                    \cup overview(S) \cup timeseries(S, "span") \cup timeseries(S, "point")
           details == UNION {experiment_detail(S, r.exp) \cup trace_detail(S, r.trace)
                               \cup metrics_query(S, r.name) : r \in raRows}
           answers == UNION {ask(S, tables) : tables \in SUBSET {"span", "log", "point", "users"}}
<1>12. lists \subseteq LinkedTo(S)
  BY <1>1, <1>2, <1>3, <1>4, <1>5, <1>6, <1>7
<1>13. Shown(S) = lists \cup details \cup answers
  BY DEF Shown
<1> HIDE DEF lists, details, answers
<1> QED  BY <1>10, <1>11, <1>12, <1>13 DEF details, answers

(* The nodes of the topology are services of spans in scope. *)
LEMMA RaTopology ==
    ASSUME NEW S, S # {}, NEW e \in topology_edges(S)
    PROVE  \E r \in LinkedTo(S) : r.svc = e[1]
<1>1. e[1] \in topology_nodes(S)
  BY DEF topology_edges
<1>2. PICK s \in Spans : env_trace_exists(s, S) /\ s.svc = e[1]
  BY <1>1 DEF topology_nodes
<1> QED  BY <1>2, RaKinds, RaPredicates

(* A run is shown by what was recorded with its request. *)
LEMMA RaRunScope ==
    ASSUME RaRunInv, NEW S, S # {}, NEW u \in RaRuns, run_scope_sql(u, S), raRun[u].asked # RaNull
    PROVE  raRun[u].asked \in S
BY DEF RaRunInv, run_scope_sql

(* What the invariant says of what is read. *)
LEMMA RaReadsHold == RaIInv => ReadsScoped
<1> SUFFICES ASSUME RaIInv, NEW S \in (SUBSET RaEnvs) \ {{}}
             PROVE  ReadsScoped!(S)
  BY DEF ReadsScoped
<1>1. S # {} /\ raRows \subseteq RaRows /\ RaRunInv
  <2>1. S # {}
    OBVIOUS
  <2>2. RaTypes /\ RaRunInv
    BY DEF RaIInv
  <2> QED  BY <2>1, <2>2 DEF RaTypes
<1>2. \A u \in list_runs(S) \cup list_events(S)
             \cup {v \in RaRuns : authorize_run(S, v) \/ detail(S, v) # NoRun} :
        u \in RaRuns /\ run_scope_sql(u, S)
  BY <1>1 DEF list_runs, list_events, authorize_run, detail
<1>3. Shown(S) \subseteq LinkedTo(S)
  BY <1>1, RaShown
<1>4. \A e \in topology_edges(S) : \E r \in LinkedTo(S) : r.svc = e[1]
  BY <1>1, RaTopology
<1>5. \A r \in raRows :
        /\ (experiment_detail(S, r.exp) # {}) <=> \E s \in Roots(S) : Same(s.exp, r.exp)
        /\ (trace_detail(S, r.trace) # {}) <=> r.trace \in traces(S, raRows)
  BY <1>1, RaDetail, RaTrace
<1> QED  BY <1>1, <1>2, <1>3, <1>4, <1>5, RaRunScope

RaRunRows == [asked : RaEnvs \cup {RaNull}, approval : RaEnvs \cup {RaNull},
              context : RaEnvs \cup {RaNull}, gameday : RaEnvs \cup {RaNull},
              exp : {r.exp : r \in RaRows} \cup {RaNull}, known : BOOLEAN]
RaCalls == [pc : 0 .. 4 \cup {RaDead}, kind : {"v1", "v2"}, scopes : SUBSET RaEnvs,
            name : RaShelves \cup {RaNull}, body : SUBSET RaRows]
RaArtifacts == [meta : RaCovers, html : RaBodies, pdf : RaBodies]

(* The first state, with any of the rows there. *)
LEMMA RaStart == \A rows \in SUBSET RaRows : RaInitWith(rows) => RaIInv
<1> SUFFICES ASSUME NEW rows \in SUBSET RaRows, RaInitWith(rows) PROVE RaIInv
  OBVIOUS
<1>1. /\ raRows = rows /\ raRun = [u \in RaRuns |-> NoRun]
      /\ raGen = [g \in RaGenerations |-> NoGen]
      /\ raArt = [n \in RaShelves |-> NoArt] /\ raTaken = [n \in RaShelves |-> 0]
  BY DEF RaInitWith, RaShelves
<1>2. NoRun \in RaRunRows /\ NoRun.asked = RaNull
  BY DEF NoRun, RaRunRows
<1>3. NoGen \in RaCalls /\ NoGen.pc = 0
  BY DEF NoGen, RaCalls
<1>4. NoArt \in RaArtifacts /\ NoArt.meta = <<>>
  BY DEF NoArt, RaArtifacts, RaCovers, RaBodies
<1>5. RaTypes
  BY <1>1, <1>2, <1>3, <1>4 DEF RaTypes, RaRunRows, RaCalls, RaArtifacts
<1>6. RaRunInv /\ RaGenInv
  BY <1>1, <1>2, <1>3 DEF RaRunInv, RaGenInv
<1>7. RaShelfInv
  BY <1>1 DEF RaShelfInv
<1>8. RaOrderInv
  BY <1>1, <1>3, <1>4 DEF RaOrderInv, RaShelves
<1> QED  BY <1>5, <1>6, <1>7, <1>8 DEF RaIInv

(* More rows link no less, and more scopes reach no less. *)
LEMMA RaLinkedGrows ==
    /\ raRows \subseteq raRows' => \A S : LinkedTo(S) \subseteq LinkedTo(S)'
    /\ \A S, T : S \subseteq T => LinkedTo(S) \subseteq LinkedTo(T)
<1>1. ASSUME raRows \subseteq raRows', NEW S PROVE LinkedTo(S) \subseteq LinkedTo(S)'
  <2>1. Spans \subseteq Spans'
    BY <1>1 DEF Spans, Table
  <2> QED  BY <1>1, <2>1 DEF LinkedTo
<1>2. ASSUME NEW S, NEW T, S \subseteq T PROVE LinkedTo(S) \subseteq LinkedTo(T)
  BY <1>2 DEF LinkedTo
<1> QED  BY <1>1, <1>2

(* Rows and runs arrive beside the shelves. *)
LEMMA RaReadStep == RaIInv /\ ReadNext => RaIInv'
<1> SUFFICES ASSUME RaIInv, ReadNext PROVE RaIInv'
  OBVIOUS
<1> USE DEF RaIInv
<1>1. UNCHANGED <<raGen, raArt, raTaken>> /\ raRows \subseteq raRows' /\ raRows' \subseteq RaRows
  BY DEF ReadNext, Arrive, EnqueueRun, LinkExperiment, RaTypes
<1>2. raRun \in [RaRuns -> RaRunRows]
  BY DEF RaTypes, RaRunRows
<1>3. raRun' \in [RaRuns -> RaRunRows] /\ RaRunInv'
  <2>1. CASE UNCHANGED raRun
    BY <1>2, <2>1 DEF RaRunInv
  <2>2. ASSUME NEW u \in RaRuns, NEW row \in RaRunRows, raRun' = [raRun EXCEPT ![u] = row],
               row.asked # RaNull => /\ row.context = row.asked
                                     /\ row.approval \in {RaNull, row.asked}
                                     /\ row.gameday \in {RaNull, row.asked}
        PROVE  raRun' \in [RaRuns -> RaRunRows] /\ RaRunInv'
    <3>1. raRun'[u] = row /\ \A v \in RaRuns \ {u} : raRun'[v] = raRun[v]
      BY <1>2, <2>2
    <3> QED  BY <1>2, <2>2, <3>1 DEF RaRunInv
  <2>3. ASSUME NEW u \in RaRuns, NEW env \in RaEnvs \cup {RaNull},
               NEW kind \in {"plain", "gated", "gameday", "legacy"},
               kind = "legacy" => env = RaNull, EnqueueRun(u, env, kind)
        PROVE  raRun' \in [RaRuns -> RaRunRows] /\ RaRunInv'
    <3> DEFINE row == [NoRun EXCEPT !.known = TRUE, !.asked = env,
                                    !.approval = IF kind = "gated" THEN env ELSE RaNull,
                                    !.context = IF kind # "legacy" THEN env ELSE RaNull,
                                    !.gameday = IF kind = "gameday" THEN env ELSE RaNull]
    <3>1. raRun' = [raRun EXCEPT ![u] = row]
      BY <2>3 DEF EnqueueRun
    <3>2. /\ row \in RaRunRows /\ row.asked = env
          /\ row.approval = IF kind = "gated" THEN env ELSE RaNull
          /\ row.context = IF kind # "legacy" THEN env ELSE RaNull
          /\ row.gameday = IF kind = "gameday" THEN env ELSE RaNull
      BY DEF NoRun, RaRunRows
    <3> HIDE DEF row
    <3> QED  BY <2>2, <2>3, <3>1, <3>2
  <2>4. ASSUME NEW u \in RaRuns, NEW r \in RaRows, LinkExperiment(u, r.exp)
        PROVE  raRun' \in [RaRuns -> RaRunRows] /\ RaRunInv'
    <3> DEFINE row == [raRun[u] EXCEPT !.exp = r.exp]
    <3>1. raRun' = [raRun EXCEPT ![u] = row]
      BY <1>2, <2>4 DEF LinkExperiment
    <3>2. /\ row \in RaRunRows /\ row.asked = raRun[u].asked /\ row.context = raRun[u].context
          /\ row.approval = raRun[u].approval /\ row.gameday = raRun[u].gameday
      BY <1>2 DEF RaRunRows
    <3> HIDE DEF row
    <3> QED  BY <2>2, <3>1, <3>2 DEF RaRunInv
  <2>5. \/ UNCHANGED raRun
        \/ \E u \in RaRuns, env \in RaEnvs, kind \in {"plain", "gated", "gameday"} :
             EnqueueRun(u, env, kind)
        \/ \E u \in RaRuns : EnqueueRun(u, RaNull, "legacy")
        \/ \E u \in RaRuns, r \in RaRows : LinkExperiment(u, r.exp)
    BY DEF ReadNext, Arrive
  <2> QED  BY <2>1, <2>3, <2>4, <2>5
<1>4. RaGenInv'
  <2> SUFFICES ASSUME NEW g \in RaGenerations, raGen[g].pc # 0, raGen[g].scopes # {}
               PROVE  raGen[g].body \subseteq LinkedTo(raGen[g].scopes)'
    BY <1>1 DEF RaGenInv
  <2>1. raGen[g].body \subseteq LinkedTo(raGen[g].scopes)
    BY DEF RaGenInv
  <2>2. LinkedTo(raGen[g].scopes) \subseteq LinkedTo(raGen[g].scopes)'
    <3>1. Spans \subseteq Spans'
      BY <1>1 DEF Spans, Table
    <3> QED  BY <1>1, <3>1 DEF LinkedTo
  <2> QED  BY <2>1, <2>2
<1>5. RaShelfInv' /\ RaOrderInv'
  BY <1>1 DEF RaShelfInv, RaNamed, RaWritten, RaOrderInv
<1>6. RaTypes'
  BY <1>1, <1>3 DEF RaTypes, RaRunRows
<1> QED  BY <1>3, <1>4, <1>5, <1>6

(* A generation takes a name, and reads the store under its scopes. *)
LEMMA RaGenerateStep ==
    ASSUME RaIInv, NEW g \in RaGenerations, NEW n \in RaShelves, NEW S \in SUBSET RaEnvs,
           NEW kind \in {"v1", "v2"}, NEW body \in SUBSET RaRows,
           n \in IF kind = "v1" THEN RaNames ELSE {g},
           S # {} => body \subseteq LinkedTo(S),
           raGen[g].pc = 0,
           raGen' = [raGen EXCEPT ![g] = [pc |-> 1, kind |-> kind, scopes |-> S, name |-> n,
                                          body |-> body]],
           raTaken' = [raTaken EXCEPT ![n] = raTaken[n] + 1],
           UNCHANGED <<raRows, raRun, raArt>>
    PROVE  RaIInv'
<1> USE DEF RaIInv
<1> DEFINE call == [pc |-> 1, kind |-> kind, scopes |-> S, name |-> n, body |-> body]
<1>1. raGen \in [RaGenerations -> RaCalls] /\ raTaken \in [RaShelves -> Nat]
  BY DEF RaTypes, RaCalls
<1>2. /\ call \in RaCalls /\ call.pc = 1 /\ call.kind = kind /\ call.scopes = S
      /\ call.name = n /\ call.body = body
  BY DEF RaCalls
<1> HIDE DEF call
<1>3. /\ raGen'[g] = call /\ \A h \in RaGenerations \ {g} : raGen'[h] = raGen[h]
      /\ raTaken'[n] = raTaken[n] + 1 /\ \A m \in RaShelves \ {n} : raTaken'[m] = raTaken[m]
      /\ raGen' \in [RaGenerations -> RaCalls] /\ raTaken' \in [RaShelves -> Nat]
  BY <1>1, <1>2 DEF call
<1>4. \A T : LinkedTo(T)' = LinkedTo(T)
  BY DEF LinkedTo, Spans, Table
<1>5. RaTypes' /\ RaRunInv'
  BY <1>3 DEF RaTypes, RaCalls, RaRunInv
<1>6. RaGenInv'
  <2> SUFFICES ASSUME NEW h \in RaGenerations, raGen'[h].pc # 0
               PROVE  /\ raGen'[h].name \in IF raGen'[h].kind = "v1" THEN RaNames ELSE {h}
                      /\ raTaken'[raGen'[h].name] > 0
                      /\ raGen'[h].scopes # {} => raGen'[h].body \subseteq LinkedTo(raGen'[h].scopes)
    BY <1>4 DEF RaGenInv
  <2>1. CASE h = g
    BY <1>1, <1>2, <1>3, <2>1
  <2>2. CASE h # g
    <3>1. /\ raGen'[h] = raGen[h] /\ raGen[h].pc # 0 /\ raGen[h].name \in RaShelves
          /\ raGen[h].name \in IF raGen[h].kind = "v1" THEN RaNames ELSE {h}
          /\ raTaken[raGen[h].name] > 0
          /\ raGen[h].scopes # {} => raGen[h].body \subseteq LinkedTo(raGen[h].scopes)
      BY <1>3, <2>2 DEF RaGenInv, RaShelves
    <3>2. raTaken'[raGen[h].name] > 0
      BY <1>1, <1>3, <3>1
    <3> QED  BY <3>1, <3>2
  <2> QED  BY <2>1, <2>2
<1>7. RaShelfInv'
  <2> SUFFICES ASSUME NEW m \in RaShelves PROVE RaShelfInv!(m)'
    BY DEF RaShelfInv
  <2>1. \A h \in RaGenerations \ {g} : /\ RaNamed(h, m)' <=> RaNamed(h, m)
                                       /\ RaWritten(h, m)' <=> RaWritten(h, m)
    BY <1>3 DEF RaNamed, RaWritten
  <2>2. (RaNamed(g, m)' <=> m = n) /\ ~RaNamed(g, m)
    BY <1>2, <1>3 DEF RaNamed
  <2>3. CASE m = n
    <3>1. raTaken'[n] > 0
      BY <1>1, <1>3
    <3>2. CASE raTaken'[n] = 1
      <4>1. raTaken[n] = 0
        BY <1>1, <1>3, <3>2
      <4>2. raArt[n] = NoArt /\ \A h \in RaGenerations : ~RaNamed(h, n)
        <5>1. raArt[n] = NoArt
          BY <4>1 DEF RaShelfInv
        <5>2. ASSUME NEW h \in RaGenerations, RaNamed(h, n) PROVE FALSE
          <6>1. raTaken[n] > 0
            BY <5>2 DEF RaNamed, RaGenInv
          <6> QED  BY <4>1, <6>1
        <5> QED  BY <5>1, <5>2
      <4>3. RaWritten(g, n)'
        BY <4>2 DEF RaWritten, NoArt
      <4> QED  BY <2>1, <2>2, <2>3, <3>1, <4>2, <4>3
    <3>3. CASE raTaken'[n] # 1
      BY <2>3, <3>1, <3>3
    <3> QED  BY <3>2, <3>3
  <2>4. CASE m # n
    BY <1>3, <2>1, <2>2, <2>4 DEF RaShelfInv
  <2> QED  BY <2>3, <2>4
<1>8. RaOrderInv'
  BY <1>2, <1>3 DEF RaOrderInv
<1> QED  BY <1>5, <1>6, <1>7, <1>8

(* A file that a generation writes holds what it read, in the order of files. *)
LEMMA RaWriteStep ==
    ASSUME RaIInv, NEW g \in RaGenerations, WriteArtifact(g)
    PROVE  RaIInv'
<1> USE DEF RaIInv
<1> PICK n : n = raGen[g].name
  OBVIOUS
<1> DEFINE file == Files(raGen[g].kind)[raGen[g].pc]
           content == IF file = "meta" THEN raGen[g].scopes ELSE raGen[g].body
<1>1. /\ raGen[g].pc \in DOMAIN Files(raGen[g].kind)
      /\ raArt' = [raArt EXCEPT ![n][file] = <<content>>]
      /\ raGen' = [raGen EXCEPT ![g].pc = raGen[g].pc + 1]
      /\ UNCHANGED <<raRows, raRun, raTaken>>
  BY DEF WriteArtifact
<1>2. raGen \in [RaGenerations -> RaCalls] /\ raArt \in [RaShelves -> RaArtifacts]
  BY DEF RaTypes, RaCalls, RaArtifacts
<1>3. \/ raGen[g].kind = "v1" /\ raGen[g].pc = 1 /\ file = "meta"
      \/ raGen[g].kind = "v1" /\ raGen[g].pc = 2 /\ file = "html"
      \/ raGen[g].kind = "v2" /\ raGen[g].pc = 1 /\ file = "pdf"
      \/ raGen[g].kind = "v2" /\ raGen[g].pc = 2 /\ file = "html"
      \/ raGen[g].kind = "v2" /\ raGen[g].pc = 3 /\ file = "meta"
  <2>1. raGen[g].kind = "v1" \/ raGen[g].kind = "v2"
    BY <1>2 DEF RaCalls
  <2> QED  BY <1>1, <2>1 DEF Files
<1>4. /\ n \in RaShelves /\ raGen[g].pc # 0 /\ raGen[g].pc \in 1 .. 3
      /\ n \in IF raGen[g].kind = "v1" THEN RaNames ELSE {g}
  <2>1. raGen[g].pc # 0 /\ raGen[g].pc \in 1 .. 3
    BY <1>3
  <2>2. n \in IF raGen[g].kind = "v1" THEN RaNames ELSE {g}
    BY <2>1 DEF RaGenInv
  <2> QED  BY <2>1, <2>2 DEF RaShelves
<1>5. /\ file \in {"meta", "html", "pdf"}
      /\ file = "meta" => content = raGen[g].scopes
      /\ file # "meta" => content = raGen[g].body
  BY <1>3
<1> HIDE DEF file, content
<1> DEFINE call == [raGen[g] EXCEPT !.pc = raGen[g].pc + 1]
           art == [raArt[n] EXCEPT ![file] = <<content>>]
<1>6. /\ call \in RaCalls /\ call.pc = raGen[g].pc + 1 /\ call.kind = raGen[g].kind
      /\ call.scopes = raGen[g].scopes /\ call.name = raGen[g].name /\ call.body = raGen[g].body
  <2>1. raGen[g] \in RaCalls /\ raGen[g].pc + 1 \in 0 .. 4
    BY <1>2, <1>4
  <2> QED  BY <2>1 DEF RaCalls
<1>7. /\ raGen'[g] = call /\ \A h \in RaGenerations \ {g} : raGen'[h] = raGen[h]
      /\ raGen' \in [RaGenerations -> RaCalls]
  BY <1>1, <1>2, <1>6
<1>8. /\ art \in RaArtifacts
      /\ art.meta = IF file = "meta" THEN <<content>> ELSE raArt[n].meta
      /\ art.html = IF file = "html" THEN <<content>> ELSE raArt[n].html
      /\ art.pdf = IF file = "pdf" THEN <<content>> ELSE raArt[n].pdf
  <2>1. raArt[n] \in RaArtifacts
    BY <1>2, <1>4
  <2>2. raGen[g].scopes \in SUBSET RaEnvs /\ raGen[g].body \in SUBSET RaRows
    BY <1>2 DEF RaCalls
  <2>3. /\ file = "meta" => <<content>> \in RaCovers
        /\ file # "meta" => <<content>> \in RaBodies
    BY <1>5, <2>2 DEF RaCovers, RaBodies
  <2>4. CASE file = "meta"
    BY <2>1, <2>3, <2>4 DEF RaArtifacts
  <2>5. CASE file = "html"
    BY <2>1, <2>3, <2>5 DEF RaArtifacts
  <2>6. CASE file = "pdf"
    BY <2>1, <2>3, <2>6 DEF RaArtifacts
  <2> QED  BY <1>5, <2>4, <2>5, <2>6
<1>9. /\ raArt'[n] = art /\ \A m \in RaShelves \ {n} : raArt'[m] = raArt[m]
      /\ raArt' \in [RaShelves -> RaArtifacts]
  BY <1>1, <1>2, <1>4, <1>8
<1> HIDE DEF call, art
<1>10. \A T : LinkedTo(T)' = LinkedTo(T)
  BY <1>1 DEF LinkedTo, Spans, Table
<1>11. RaTypes' /\ RaRunInv'
  BY <1>1, <1>7, <1>9 DEF RaTypes, RaCalls, RaArtifacts, RaRunInv
<1>12. RaGenInv'
  <2> SUFFICES ASSUME NEW h \in RaGenerations, raGen'[h].pc # 0
               PROVE  /\ raGen'[h].name \in IF raGen'[h].kind = "v1" THEN RaNames ELSE {h}
                      /\ raTaken[raGen'[h].name] > 0
                      /\ raGen'[h].scopes # {} => raGen'[h].body \subseteq LinkedTo(raGen'[h].scopes)
    BY <1>1, <1>10 DEF RaGenInv
  <2> QED  BY <1>4, <1>6, <1>7 DEF RaGenInv
<1>13. \A h \in RaGenerations, m \in RaShelves : RaNamed(h, m)' <=> RaNamed(h, m)
  <2>1. call.pc # 0
    BY <1>4, <1>6
  <2> QED  BY <1>4, <1>6, <1>7, <2>1 DEF RaNamed
<1>14. RaShelfInv'
  <2> SUFFICES ASSUME NEW m \in RaShelves PROVE RaShelfInv!(m)'
    BY DEF RaShelfInv
  <2>1. CASE m = n
    <3>1. raTaken[n] # 0 /\ RaNamed(g, n) /\ raTaken' = raTaken
      <4>1. RaNamed(g, n)
        BY <1>4 DEF RaNamed
      <4>2. raTaken[n] > 0
        BY <1>4 DEF RaGenInv
      <4> QED  BY <1>1, <4>1, <4>2
    <3>2. ASSUME raTaken[n] = 1, NEW h \in RaGenerations, RaNamed(h, n)
          PROVE  RaWritten(h, n)'
      <4>1. h = g /\ RaWritten(g, n)
        BY <3>1, <3>2, <1>4 DEF RaShelfInv
      <4> QED  BY <1>5, <1>6, <1>7, <1>8, <1>9, <4>1 DEF RaWritten
    <3> QED  BY <1>4, <1>13, <2>1, <3>1, <3>2 DEF RaShelfInv
  <2>2. CASE m # n
    <3>1. raArt'[m] = raArt[m] /\ raTaken' = raTaken
      BY <1>1, <1>9, <2>2
    <3>2. \A h \in RaGenerations : RaWritten(h, m)' <=> RaWritten(h, m)
      BY <1>6, <1>7, <3>1 DEF RaWritten
    <3> QED  BY <1>13, <3>1, <3>2 DEF RaShelfInv
  <2> QED  BY <2>1, <2>2
<1>15. RaOrderInv'
  <2> SUFFICES ASSUME NEW h \in RaGenerations PROVE RaOrderInv!(h)'
    BY DEF RaOrderInv
  <2>1. h \in RaShelves
    BY DEF RaShelves
  <2>2. CASE h = g /\ raGen[g].kind = "v2"
    <3>1. n = g
      BY <1>4, <2>2
    <3>2. /\ raArt[g].meta # <<>> => raArt[g].html # <<>> /\ raArt[g].pdf # <<>>
          /\ raGen[g].pc \in 2 .. 4 => raArt[g].pdf # <<>>
          /\ raGen[g].pc \in 3 .. 4 => raArt[g].html # <<>>
      BY <2>2 DEF RaOrderInv
    <3>3. /\ raGen'[g].pc = raGen[g].pc + 1 /\ <<content>> # <<>>
          /\ raArt'[g].meta = IF file = "meta" THEN <<content>> ELSE raArt[g].meta
          /\ raArt'[g].html = IF file = "html" THEN <<content>> ELSE raArt[g].html
          /\ raArt'[g].pdf = IF file = "pdf" THEN <<content>> ELSE raArt[g].pdf
      BY <1>6, <1>7, <1>8, <1>9, <3>1
    <3> DEFINE Ordered(meta, html, pdf, pc) ==
                 /\ meta # <<>> => html # <<>> /\ pdf # <<>>
                 /\ pc \in 2 .. 4 => pdf # <<>>
                 /\ pc \in 3 .. 4 => html # <<>>
    <3> SUFFICES Ordered(raArt'[g].meta, raArt'[g].html, raArt'[g].pdf, raGen'[g].pc)
      BY <2>2
    <3>4. CASE raGen[g].pc = 1 /\ file = "pdf"
      BY <3>2, <3>3, <3>4
    <3>5. CASE raGen[g].pc = 2 /\ file = "html"
      BY <3>2, <3>3, <3>5
    <3>6. CASE raGen[g].pc = 3 /\ file = "meta"
      BY <3>2, <3>3, <3>6
    <3> QED  BY <1>3, <2>2, <3>4, <3>5, <3>6 DEF file
  <2>3. CASE h = g /\ raGen[g].kind # "v2"
    <3>1. n # g /\ raGen'[g].kind # "v2"
      BY <1>2, <1>4, <1>6, <1>7, <2>3, RaAssumption DEF RaCalls
    <3> QED  BY <1>9, <2>1, <2>3, <3>1 DEF RaOrderInv
  <2>4. CASE h # g
    <3>1. n # h
      BY <1>2, <1>4, <2>4, RaAssumption DEF RaCalls
    <3> QED  BY <1>7, <1>9, <2>1, <2>4, <3>1 DEF RaOrderInv
  <2> QED  BY <2>2, <2>3, <2>4
<1> QED  BY <1>11, <1>12, <1>14, <1>15

(* A digest takes a free name, and a generation that dies writes no more. *)
LEMMA RaDigestStep ==
    ASSUME RaIInv, NEW n \in RaNames, write_digest(n)
    PROVE  RaIInv'
<1> USE DEF RaIInv
<1> DEFINE art == [raArt[n] EXCEPT !.html = <<Spans \cup Points>>]
<1>1. /\ raTaken[n] = 0 /\ raTaken' = [raTaken EXCEPT ![n] = 1]
      /\ raArt' = [raArt EXCEPT ![n] = art]
      /\ UNCHANGED <<raRows, raRun, raGen>>
  BY DEF write_digest
<1>2. /\ raArt \in [RaShelves -> RaArtifacts] /\ raTaken \in [RaShelves -> Nat]
      /\ n \in RaShelves /\ n \notin RaGenerations
  BY RaAssumption DEF RaTypes, RaArtifacts, RaShelves
<1>3. art \in RaArtifacts /\ art.meta = raArt[n].meta
  <2>1. Spans \cup Points \in SUBSET RaRows
    BY RaKinds DEF RaTypes
  <2>2. <<Spans \cup Points>> \in RaBodies
    BY <2>1 DEF RaBodies
  <2> QED  BY <1>2, <2>2 DEF RaArtifacts
<1> HIDE DEF art
<1>4. /\ raArt'[n] = art /\ \A m \in RaShelves \ {n} : raArt'[m] = raArt[m] /\ raTaken'[m] = raTaken[m]
      /\ raTaken'[n] = 1
      /\ raArt' \in [RaShelves -> RaArtifacts] /\ raTaken' \in [RaShelves -> Nat]
  BY <1>1, <1>2, <1>3
<1>5. raArt[n] = NoArt /\ \A g \in RaGenerations : ~RaNamed(g, n)
  <2>1. raArt[n] = NoArt
    BY <1>1, <1>2 DEF RaShelfInv
  <2>2. ASSUME NEW g \in RaGenerations, RaNamed(g, n) PROVE FALSE
    <3>1. raTaken[n] > 0
      BY <2>2 DEF RaNamed, RaGenInv
    <3> QED  BY <1>1, <3>1
  <2> QED  BY <2>1, <2>2
<1>6. \A T : LinkedTo(T)' = LinkedTo(T)
  BY <1>1 DEF LinkedTo, Spans, Table
<1>7. RaTypes' /\ RaRunInv'
  BY <1>1, <1>4 DEF RaTypes, RaArtifacts, RaRunInv
<1>8. RaGenInv'
  <2> SUFFICES ASSUME NEW g \in RaGenerations, raGen[g].pc # 0
               PROVE  raTaken'[raGen[g].name] > 0
    BY <1>1, <1>6 DEF RaGenInv
  <2>1. raTaken[raGen[g].name] > 0 /\ raGen[g].name \in RaShelves
    BY DEF RaGenInv, RaShelves
  <2> QED  BY <1>4, <2>1
<1>9. RaShelfInv'
  <2> SUFFICES ASSUME NEW m \in RaShelves PROVE RaShelfInv!(m)'
    BY DEF RaShelfInv
  <2>1. \A h \in RaGenerations : RaNamed(h, m)' <=> RaNamed(h, m)
    BY <1>1 DEF RaNamed
  <2>2. CASE m = n
    BY <1>3, <1>4, <1>5, <2>1, <2>2 DEF NoArt
  <2>3. CASE m # n
    BY <1>1, <1>4, <2>1, <2>3 DEF RaShelfInv, RaWritten
  <2> QED  BY <2>2, <2>3
<1>10. RaOrderInv'
  BY <1>1, <1>2, <1>4 DEF RaOrderInv, RaShelves
<1> QED  BY <1>7, <1>8, <1>9, <1>10

(* A generation that dies between two writes leaves what it has written. *)
LEMMA RaDiesStep ==
    ASSUME RaIInv, NEW g \in RaGenerations, GenerationDies(g)
    PROVE  RaIInv'
<1> USE DEF RaIInv
<1> DEFINE call == [raGen[g] EXCEPT !.pc = RaDead]
<1>1. /\ raGen' = [raGen EXCEPT ![g] = call] /\ UNCHANGED <<raRows, raRun, raArt, raTaken>>
      /\ raGen[g].pc \in DOMAIN Files(raGen[g].kind)
  BY DEF GenerationDies
<1>2. raGen \in [RaGenerations -> RaCalls]
  BY DEF RaTypes, RaCalls
<1>3. raGen[g].pc # 0
  BY <1>1, <1>2 DEF Files, RaCalls
<1>4. /\ call \in RaCalls /\ call.pc = 9 /\ call.kind = raGen[g].kind
      /\ call.scopes = raGen[g].scopes /\ call.name = raGen[g].name /\ call.body = raGen[g].body
  BY <1>2 DEF RaCalls, RaDead
<1> HIDE DEF call
<1>5. /\ raGen'[g] = call /\ \A h \in RaGenerations \ {g} : raGen'[h] = raGen[h]
      /\ raGen' \in [RaGenerations -> RaCalls]
  BY <1>1, <1>2, <1>4
<1>6. \A T : LinkedTo(T)' = LinkedTo(T)
  BY <1>1 DEF LinkedTo, Spans, Table
<1>7. RaTypes' /\ RaRunInv'
  BY <1>1, <1>5 DEF RaTypes, RaCalls, RaRunInv
<1>8. RaGenInv'
  BY <1>1, <1>3, <1>4, <1>5, <1>6 DEF RaGenInv
<1>9. RaShelfInv'
  <2>1. \A h \in RaGenerations, m \in RaShelves :
          (RaNamed(h, m)' <=> RaNamed(h, m)) /\ (RaWritten(h, m)' <=> RaWritten(h, m))
    BY <1>1, <1>3, <1>4, <1>5 DEF RaNamed, RaWritten
  <2> QED  BY <1>1, <2>1 DEF RaShelfInv
<1>10. RaOrderInv'
  BY <1>1, <1>4, <1>5 DEF RaOrderInv
<1> QED  BY <1>7, <1>8, <1>9, <1>10

(* The steps on the shelves. *)
LEMMA RaReportStep == RaIInv /\ ReportNext => RaIInv'
<1> SUFFICES ASSUME RaIInv, ReportNext PROVE RaIInv'
  OBVIOUS
<1>1. raRows \subseteq RaRows
  BY DEF RaIInv, RaTypes
<1>2. ASSUME NEW g \in RaGenerations, NEW S \in SUBSET RaEnvs, NEW n \in RaNames,
             generate_report(g, S, n)
      PROVE  RaIInv'
  <2>1. build_report_scoped(S) \in SUBSET RaRows
    BY <1>1 DEF build_report_scoped, timeseries, Table
  <2>2. S # {} => build_report_scoped(S) \subseteq LinkedTo(S)
    BY RaKinds, RaPredicates DEF build_report_scoped, timeseries, env_table_predicate, Table,
       Points, Spans
  <2> QED  BY <1>2, <2>1, <2>2, RaGenerateStep DEF generate_report, RaShelves
<1>3. ASSUME NEW g \in RaGenerations, NEW S \in SUBSET RaEnvs, NEW x,
             generate_report_v2(g, S, x)
      PROVE  RaIInv'
  <2>1. experiment_detail(S, x) \in SUBSET RaRows
    BY <1>1, RaKinds DEF experiment_detail
  <2>2. S # {} => experiment_detail(S, x) \subseteq LinkedTo(S)
    BY <1>1, RaDetail
  <2> QED  BY <1>3, <2>1, <2>2, RaGenerateStep DEF generate_report_v2, RaShelves
<1> QED  BY <1>2, <1>3, RaWriteStep, RaDigestStep, RaDiesStep DEF ReportNext

(* Every step of the readers and of the generations keeps the invariant. *)
LEMMA RaStep == RaIInv /\ [ReadNext \/ ReportNext]_raVars => RaIInv'
<1> SUFFICES ASSUME RaIInv, UNCHANGED raVars PROVE RaIInv'
  BY RaReadStep, RaReportStep
<1> USE DEF raVars, RaIInv
<1>1. RaTypes' /\ RaRunInv'
  BY DEF RaTypes, RaRunInv
<1>2. RaGenInv'
  BY DEF RaGenInv, LinkedTo, Spans, Table
<1>3. RaShelfInv' /\ RaOrderInv'
  BY DEF RaShelfInv, RaNamed, RaWritten, RaOrderInv
<1> QED  BY <1>1, <1>2, <1>3

(* What the invariant says of who may open what. *)
LEMMA RaArtifactsHold == RaIInv => ArtifactsScoped
<1> SUFFICES ASSUME RaIInv, NEW S \in SUBSET RaEnvs PROVE ArtifactsScoped!(S)
  BY DEF ArtifactsScoped
<1> USE DEF RaIInv
<1>1. ASSUME NEW n \in RaShelves, S # {}, raTaken[n] <= 1, artifact_visible(S, raArt[n].meta)
      PROVE  /\ raArt[n].html = <<>> \/ raArt[n].html[1] \subseteq LinkedTo(S)
             /\ raArt[n].pdf = <<>> \/ raArt[n].pdf[1] \subseteq LinkedTo(S)
  <2>1. raArt[n].meta # <<>> /\ raArt[n].meta[1] # {} /\ raArt[n].meta[1] \subseteq S
    BY <1>1 DEF artifact_visible
  <2>2. raTaken[n] = 1
    <3>1. raTaken[n] # 0
      BY <2>1 DEF RaShelfInv, NoArt
    <3>2. raTaken[n] \in Nat
      BY DEF RaTypes
    <3> QED  BY <1>1, <3>1, <3>2
  <2>3. PICK g \in RaGenerations : RaNamed(g, n) /\ RaWritten(g, n)
    BY <2>1, <2>2 DEF RaShelfInv
  <2>4. raArt[n].meta[1] = raGen[g].scopes
    BY <2>1, <2>3 DEF RaWritten
  <2>5. raGen[g].body \subseteq LinkedTo(S)
    BY <2>1, <2>3, <2>4, RaLinkedGrows DEF RaGenInv, RaNamed
  <2> QED  BY <2>3, <2>5 DEF RaWritten
<1>2. \A n \in RaShelves : S # {} /\ raTaken[n] <= 1 =>
        /\ get_report(S, n) = <<>> \/ get_report(S, n)[1] \subseteq LinkedTo(S)
        /\ get_report_v2_pdf(S, n) = <<>> \/ get_report_v2_pdf(S, n)[1] \subseteq LinkedTo(S)
  BY <1>1 DEF get_report, get_report_v2_pdf
<1>3. \A n \in list_reports(S) : get_report(S, n) # <<>>
  BY DEF list_reports, get_report
<1>4. \A n \in list_reports_v2(S) : get_report(S, n) # <<>> /\ get_report_v2_pdf(S, n) # <<>>
  BY DEF list_reports_v2, get_report, get_report_v2_pdf, RaOrderInv
<1> QED  BY <1>2, <1>3, <1>4 DEF RaShelves

-----------------------------------------------------------------------------
(* The drivers: calls, drains, containers, rules and the proposal.           *)

(* Where a call is says what it has sent and what its result can be. *)
TgCallOK(k) ==
    /\ DOMAIN k = {"pc", "fn", "args", "result", "todo", "failed", "sent", "pod"}
    /\ k.pc \in {"idle", "send", "resolve", "inject", "cordon", "list", "evict", "done"}
    /\ k.pc \notin {"list", "evict", "done"} => k.sent = {}
    /\ k.pc # "done" => k.result = "none"
    /\ k.pc \in {"list", "evict"} => k.sent # {}
    /\ k.pc = "idle" => k.fn = TgNone
    /\ k.pc \in {"cordon", "list", "evict"} => k.fn = "drain_node"
    /\ k.pc \in {"resolve", "inject"} => k.fn \in Injects
    /\ k.pc = "evict" => \A p \in k.todo : ~TgPods[p].ds
    /\ k.result \in Refusals => k.sent = {}
    /\ k.result = "ok" => k.sent # {}
    /\ k.fn = "network_blackhole_rollback" /\ k.result = "ok" => k.todo = k.failed

TgCallsInv ==
    /\ tgCall = [c \in TgCalls |-> tgCall[c]]
    /\ \A c \in TgCalls : TgCallOK(tgCall[c])

(* A drain that nobody undid has its node cordoned, and once it has listed the
   node, every pod there is a DaemonSet's, on its way, still to be evicted, or refused. *)
TgDrainsInv ==
    /\ tgDrained \subseteq tgCordoned /\ tgCordoned \subseteq TgNodes
    /\ \A c \in TgCalls : tgCall[c].pc \in {"list", "evict"} /\ tgCall[c].pod # "undone" =>
         /\ Arg(c, "name") \in tgCordoned
         /\ tgCall[c].pc = "evict" =>
              \A p \in On(Arg(c, "name")) : TgPods[p].ds \/ p \in tgGoing \/ p \in tgCall[c].todo \/ p \in tgCall[c].failed

TgPodsInv ==
    /\ tgAt = [p \in Pods |-> tgAt[p]]
    /\ TgDrainsInv /\ DrainedIsEmpty /\ BudgetsKept

TgBoxesInv ==
    /\ \A b \in tgBoxes : DOMAIN b = {"pod", "name", "kind", "st"}
    /\ DelayEnds

TgRulesInv == \A r \in tgRules : r.name = rule_name(r.match)

TgIInv == TgCallsInv /\ TgPodsInv /\ TgBoxesInv /\ TgRulesInv /\ ProposalParses

LEMMA TgStart == TgInit => TgIInv
<1> SUFFICES ASSUME TgInit PROVE TgIInv
  OBVIOUS
<1>1. TgCallsInv
  BY DEF TgInit, TgCallsInv, TgCallOK, TgIdle, TgNone, Refusals
<1>2. TgPodsInv
  <2>1. \A c \in TgCalls : tgCall[c].pc = "idle"
    BY DEF TgInit, TgIdle
  <2>2. \A p \in Pods : tgAt[p] # TgNone
    BY TargetsAssumption DEF TgInit, Pods
  <2> QED  BY <2>1, <2>2 DEF TgInit, TgPodsInv, TgDrainsInv, DrainedIsEmpty, BudgetsKept
<1>3. TgBoxesInv /\ TgRulesInv /\ ProposalParses
  BY DEF TgInit, TgBoxesInv, DelayEnds, TgRulesInv, ProposalParses
<1> QED  BY <1>1, <1>2, <1>3 DEF TgIInv

(* What changes when one call moves and keeps what it was asked. *)
TgKept(c) == tgCall'[c].fn = tgCall[c].fn /\ tgCall'[c].args = tgCall[c].args
TgOne(c) ==
    /\ TgCallsInv' /\ TgKept(c)
    /\ \A d \in TgCalls : d # c => tgCall'[d] = tgCall[d]

LEMMA TgSet ==
    ASSUME TgCallsInv, NEW c \in TgCalls, NEW kind, Set(c, "done", kind),
           kind \in Refusals => tgCall[c].sent = {}, kind # "ok"
    PROVE  TgOne(c) /\ tgCall'[c].pc = "done" /\ tgCall'[c].pod = tgCall[c].pod
<1>1. tgCall'[c] = [tgCall[c] EXCEPT !.pc = "done", !.result = kind]
  BY DEF Set, TgCallsInv
<1>2. \A d \in TgCalls : d # c => tgCall'[d] = tgCall[d]
  BY DEF Set, TgCallsInv
<1>3. tgCall' = [d \in TgCalls |-> tgCall'[d]]
  BY DEF Set, TgCallsInv
<1>4. /\ tgCall'[c].pc = "done" /\ tgCall'[c].result = kind
      /\ \A f \in {"fn", "args", "todo", "failed", "sent", "pod"} : tgCall'[c][f] = tgCall[c][f]
      /\ DOMAIN tgCall'[c] = DOMAIN tgCall[c]
  BY <1>1 DEF TgCallsInv, TgCallOK
<1>5. TgCallOK(tgCall'[c])
  BY <1>4 DEF TgCallsInv, TgCallOK
<1> QED  BY <1>2, <1>3, <1>4, <1>5 DEF TgOne, TgKept, TgCallsInv

LEMMA TgSent ==
    ASSUME TgCallsInv, NEW c \in TgCalls, NEW what, Sent(c, what),
           tgCall[c].fn # "network_blackhole_rollback"
    PROVE  TgOne(c) /\ tgCall'[c].pc = "done" /\ tgCall'[c].pod = tgCall[c].pod
<1>1. tgCall'[c] = [tgCall[c] EXCEPT !.pc = "done", !.result = "ok", !.sent = @ \cup {what}]
  BY DEF Sent, TgCallsInv
<1>2. \A d \in TgCalls : d # c => tgCall'[d] = tgCall[d]
  BY DEF Sent, TgCallsInv
<1>3. tgCall' = [d \in TgCalls |-> tgCall'[d]]
  BY DEF Sent, TgCallsInv
<1>4. /\ tgCall'[c].pc = "done" /\ tgCall'[c].result = "ok" /\ what \in tgCall'[c].sent
      /\ \A f \in {"fn", "args", "todo", "failed", "pod"} : tgCall'[c][f] = tgCall[c][f]
      /\ DOMAIN tgCall'[c] = DOMAIN tgCall[c]
  BY <1>1 DEF TgCallsInv, TgCallOK
<1>5. TgCallOK(tgCall'[c])
  BY <1>4 DEF TgCallsInv, TgCallOK, Refusals
<1> QED  BY <1>2, <1>3, <1>4, <1>5 DEF TgOne, TgKept, TgCallsInv

(* What was asked does not change, and a step of one call that moves no pod
   disturbs no drain. *)
LEMMA TgArgs ==
    ASSUME \A d \in TgCalls : tgCall'[d].args = tgCall[d].args
    PROVE  \A d \in TgCalls : \A k : Arg(d, k)' = Arg(d, k)
BY DEF Arg, arg_str, Str

LEMMA TgPodsStay ==
    ASSUME TgPodsInv, NEW c \in TgCalls, TgOne(c), UNCHANGED <<tgAt, tgGoing, tgDrained>>,
           tgCordoned \subseteq tgCordoned', tgCordoned' \subseteq TgNodes,
           tgCall'[c].pc \notin {"list", "evict"}
    PROVE  TgPodsInv'
<1>1. \A d \in TgCalls : \A k : Arg(d, k)' = Arg(d, k)
  BY TgArgs DEF TgOne, TgKept
<1>2. \A d \in TgCalls : tgCall'[d].fn = tgCall[d].fn /\ (d # c => tgCall'[d] = tgCall[d])
  BY DEF TgOne, TgKept
<1>3. TgDrainsInv'
  <2>1. tgDrained' \subseteq tgCordoned' /\ tgCordoned' \subseteq TgNodes
    BY DEF TgPodsInv, TgDrainsInv
  <2>2. ASSUME NEW d \in TgCalls, (tgCall[d].pc \in {"list", "evict"} /\ tgCall[d].pod # "undone")'
        PROVE  (/\ Arg(d, "name") \in tgCordoned
                /\ tgCall[d].pc = "evict" =>
                     \A p \in On(Arg(d, "name")) :
                        TgPods[p].ds \/ p \in tgGoing \/ p \in tgCall[d].todo \/ p \in tgCall[d].failed)'
    <3>1. tgCall'[d] = tgCall[d]
      BY <1>2, <2>2
    <3> QED  BY <1>1, <2>2, <3>1 DEF TgPodsInv, TgDrainsInv, On
  <2> QED  BY <2>1, <2>2 DEF TgDrainsInv
<1>4. BudgetsKept'
  BY <1>1, <1>2 DEF TgPodsInv, BudgetsKept
<1> QED  BY <1>3, <1>4 DEF TgPodsInv, DrainedIsEmpty, On

(* A call that ends without a trace in the cluster or the firewall. *)
LEMMA TgQuiet ==
    ASSUME TgIInv, NEW c \in TgCalls, TgOne(c), tgCall'[c].pc \notin {"list", "evict"},
           tgCordoned \subseteq tgCordoned', tgCordoned' \subseteq TgNodes,
           UNCHANGED <<tgAt, tgGoing, tgBoxes, tgQdisc, tgDrained, tgProposal, tgRules>>
    PROVE  TgIInv'
<1>1. TgPodsInv'
  BY TgPodsStay DEF TgIInv
<1>2. TgCallsInv'
  BY DEF TgOne
<1>3. TgBoxesInv' /\ TgRulesInv' /\ ProposalParses'
  BY DEF TgIInv, TgBoxesInv, DelayEnds, TgRulesInv, ProposalParses
<1> QED  BY <1>1, <1>2, <1>3 DEF TgIInv

LEMMA TgDispatchStep ==
    ASSUME TgIInv, NEW c \in TgCalls, NEW r, dispatch(c, r)
    PROVE  TgIInv'
<1>1. PICK why \in {Refusal(r.plugin, r.fn, r.args)}
               \cup (IF r.plugin = "tumult-kubernetes" /\ r.fn \in TgPlugins[r.plugin] THEN {"client init"} ELSE {}) :
         /\ tgCall[c].pc = "idle"
         /\ tgCall' = [tgCall EXCEPT ![c].fn = r.fn, ![c].args = r.args,
                        ![c].pc = IF why # TgNone THEN "done" ELSE IF r.fn = "drain_node" THEN "cordon"
                                  ELSE IF r.fn \in Injects THEN "resolve" ELSE "send",
                        ![c].result = IF why = TgNone THEN @ ELSE why]
  BY Zenon DEF dispatch
<1>2. why \in Refusals \cup {TgNone}
  BY <1>1 DEF Refusal, Refusals
<1> DEFINE pc == IF why # TgNone THEN "done" ELSE IF r.fn = "drain_node" THEN "cordon"
                 ELSE IF r.fn \in Injects THEN "resolve" ELSE "send"
<1>3. TgCallOK(tgCall[c]) /\ c \in DOMAIN tgCall
  BY DEF TgIInv, TgCallsInv
<1>15. tgCall'[c] = [tgCall[c] EXCEPT !.fn = r.fn, !.args = r.args, !.pc = pc,
                        !.result = IF why = TgNone THEN tgCall[c].result ELSE why]
  BY <1>1, <1>3
<1> HIDE DEF pc
<1>4. /\ tgCall'[c].fn = r.fn /\ tgCall'[c].pc = pc
      /\ tgCall'[c].result = IF why = TgNone THEN tgCall[c].result ELSE why
      /\ \A f \in {"todo", "failed", "sent", "pod"} : tgCall'[c][f] = tgCall[c][f]
      /\ DOMAIN tgCall'[c] = DOMAIN tgCall[c]
  BY <1>3, <1>15 DEF TgCallOK
<1>5. \A d \in TgCalls : d # c => tgCall'[d] = tgCall[d]
  BY <1>1 DEF TgIInv, TgCallsInv
<1>6. tgCall' = [d \in TgCalls |-> tgCall'[d]]
  BY <1>1 DEF TgIInv, TgCallsInv
<1>7. TgCallOK(tgCall'[c])
  <2>1. tgCall[c].sent = {} /\ tgCall[c].result = "none"
    BY <1>1, <1>3 DEF TgCallOK
  <2>2. CASE why = TgNone
    <3>1. /\ pc \in {"cordon", "resolve", "send"} /\ (pc = "cordon" => r.fn = "drain_node")
          /\ (pc = "resolve" => r.fn \in Injects)
      BY <2>2 DEF pc
    <3> QED  BY <1>3, <1>4, <2>1, <2>2, <3>1 DEF TgCallOK, Refusals
  <2>3. CASE why # TgNone
    <3>1. pc = "done" /\ why \in Refusals /\ why # "ok"
      BY <1>2, <2>3 DEF pc, Refusals
    <3> QED  BY <1>3, <1>4, <2>1, <2>3, <3>1 DEF TgCallOK
  <2> QED  BY <2>2, <2>3
<1>8. TgCallsInv'
  BY <1>5, <1>6, <1>7 DEF TgIInv, TgCallsInv
<1>9. UNCHANGED <<tgAt, tgGoing, tgCordoned, tgBoxes, tgQdisc, tgDrained, tgProposal, tgRules>>
  BY DEF dispatch, clusterVars
<1>10. \A d \in TgCalls : \A k : d # c => Arg(d, k)' = Arg(d, k)
  BY <1>5 DEF Arg, arg_str, Str
<1>11. TgDrainsInv'
  <2>1. tgCall'[c].pc \notin {"list", "evict"}
    BY <1>4 DEF pc
  <2>2. ASSUME NEW d \in TgCalls, (tgCall[d].pc \in {"list", "evict"} /\ tgCall[d].pod # "undone")'
        PROVE  (/\ Arg(d, "name") \in tgCordoned
                /\ tgCall[d].pc = "evict" =>
                     \A p \in On(Arg(d, "name")) :
                        TgPods[p].ds \/ p \in tgGoing \/ p \in tgCall[d].todo \/ p \in tgCall[d].failed)'
    BY <1>5, <1>9, <1>10, <2>1, <2>2 DEF TgIInv, TgPodsInv, TgDrainsInv, On
  <2> QED  BY <1>9, <2>2 DEF TgIInv, TgPodsInv, TgDrainsInv
<1>12. BudgetsKept'
  <2>1. tgCall[c].fn # "delete_pod"
    BY <1>1, <1>3 DEF TgCallOK, TgNone
  <2> QED  BY <1>5, <1>9, <1>10, <2>1 DEF TgIInv, TgPodsInv, BudgetsKept
<1>13. TgPodsInv'
  BY <1>9, <1>11, <1>12 DEF TgIInv, TgPodsInv, DrainedIsEmpty, On
<1>14. TgBoxesInv' /\ TgRulesInv' /\ ProposalParses'
  BY <1>9 DEF TgIInv, TgBoxesInv, DelayEnds, TgRulesInv, ProposalParses
<1> QED  BY <1>8, <1>13, <1>14 DEF TgIInv

(* At least one thread is busy. *)
LEMMA TgWorkers == \A x \in Int : 1 \in 1 .. Min({MaxWorkers, Max({1, x})})
<1> TAKE x \in Int
<1> DEFINE m == Max({1, x})
<1>1. m \in Int /\ m >= 1
  <2>1. \E y \in {1, x} : \A z \in {1, x} : y >= z
    <3>1. CASE x >= 1
      BY <3>1
    <3>2. CASE ~(x >= 1)
      BY <3>2
    <3> QED  BY <3>1, <3>2
  <2> QED  BY <2>1 DEF Max
<1> HIDE DEF m
<1>2. Min({MaxWorkers, m}) \in Int /\ Min({MaxWorkers, m}) >= 1
  <2>1. \E y \in {8, m} : \A z \in {8, m} : y <= z
    <3>1. CASE m >= 8
      BY <1>1, <3>1
    <3>2. CASE ~(m >= 8)
      BY <1>1, <3>2
    <3> QED  BY <3>1, <3>2
  <2> QED  BY <1>1, <2>1 DEF Min, MaxWorkers
<1> QED  BY <1>2 DEF m

(* The calls that end with their request, whatever becomes of it. *)
LEMMA TgRequestStep ==
    ASSUME TgIInv, NEW c \in TgCalls,
           \/ RequestFails(c) \/ scale_deployment(c) \/ cordon_node(c) \/ apply_network_policy(c)
           \/ delete_network_policy(c) \/ Probe(c) \/ process_kill(c)
    PROVE  TgIInv'
<1> DEFINE Quiet == UNCHANGED <<tgAt, tgGoing, tgBoxes, tgQdisc, tgDrained, tgProposal, tgRules>>
<1>1. TgCallsInv /\ TgCallOK(tgCall[c]) /\ tgCordoned \subseteq TgNodes
  BY DEF TgIInv, TgCallsInv, TgPodsInv, TgDrainsInv
<1>2. CASE RequestFails(c)
  <2>1. PICK kind \in {"transport", "auth", "not found", "throttled", "api"} : Set(c, "done", kind)
    BY <1>2 DEF RequestFails
  <2>2. TgOne(c) /\ tgCall'[c].pc = "done"
    BY <1>1, <2>1, TgSet DEF Refusals
  <2> QED  BY <1>1, <1>2, <2>2, TgQuiet DEF RequestFails, clusterVars
<1>3. CASE \/ scale_deployment(c) \/ cordon_node(c) \/ apply_network_policy(c)
           \/ delete_network_policy(c) \/ process_kill(c)
  <2>1. /\ \E what : Sent(c, what)
        /\ tgCall[c].fn # "network_blackhole_rollback"
    BY <1>3 DEF scale_deployment, cordon_node, apply_network_policy, delete_network_policy, process_kill, Call
  <2>2. TgOne(c) /\ tgCall'[c].pc = "done"
    BY <1>1, <2>1, TgSent
  <2>3. Quiet /\ tgCordoned \subseteq tgCordoned' /\ tgCordoned' \subseteq TgNodes
    BY <1>1, <1>3 DEF scale_deployment, cordon_node, apply_network_policy, delete_network_policy,
                      process_kill, clusterVars
  <2> QED  BY <2>2, <2>3, TgQuiet
<1>4. CASE Probe(c)
  <2>1. Set(c, "done", "true") \/ Set(c, "done", "false")
    BY <1>4 DEF Probe
  <2>2. TgOne(c) /\ tgCall'[c].pc = "done"
    BY <1>1, <2>1, TgSet DEF Refusals
  <2> QED  BY <1>1, <1>4, <2>2, TgQuiet DEF Probe, clusterVars
<1> QED  BY <1>2, <1>3, <1>4

(* An instance or an experiment of a cloud, also when the answer is lost. *)
LEMMA TgCloudStep ==
    ASSUME TgIInv, NEW c \in TgCalls, NEW fn, NEW thing, NEW state, CloudStep(c, fn, thing, state),
           fn # "network_blackhole_rollback"
    PROVE  TgIInv'
<1>1. TgCallsInv /\ TgCallOK(tgCall[c]) /\ tgCordoned \subseteq TgNodes
  BY DEF TgIInv, TgCallsInv, TgPodsInv, TgDrainsInv
<1>2. UNCHANGED clusterVars /\ UNCHANGED tgRules /\ tgCall[c].fn # "network_blackhole_rollback"
  BY DEF CloudStep, Call
<1>3. TgOne(c) /\ tgCall'[c].pc = "done"
  <2>1. CASE Sent(c, fn)
    BY <1>1, <1>2, <2>1, TgSent
  <2>2. CASE tgCall' = [tgCall EXCEPT ![c].pc = "done", ![c].result = "transport", ![c].sent = @ \cup {fn}]
    <3>4. tgCall'[c] = [tgCall[c] EXCEPT !.pc = "done", !.result = "transport", !.sent = @ \cup {fn}]
      BY <1>1, <2>2 DEF TgCallsInv
    <3>1. /\ tgCall'[c].pc = "done" /\ tgCall'[c].result = "transport" /\ fn \in tgCall'[c].sent
          /\ \A f \in {"fn", "args", "todo", "failed", "pod"} : tgCall'[c][f] = tgCall[c][f]
          /\ DOMAIN tgCall'[c] = DOMAIN tgCall[c]
      BY <1>1, <3>4 DEF TgCallOK
    <3>2. /\ tgCall' = [d \in TgCalls |-> tgCall'[d]]
          /\ \A d \in TgCalls : d # c => tgCall'[d] = tgCall[d]
      BY <1>1, <2>2 DEF TgCallsInv
    <3>3. TgCallOK(tgCall'[c])
      BY <1>1, <3>1 DEF TgCallOK, Refusals
    <3> QED  BY <1>1, <3>1, <3>2, <3>3 DEF TgOne, TgKept, TgCallsInv
  <2> QED  BY <2>1, <2>2 DEF CloudStep
<1> QED  BY <1>1, <1>2, <1>3, TgQuiet DEF clusterVars

(* Threads that are kept busy, and a target that an injection chooses. *)
LEMMA TgBusyStep ==
    ASSUME TgIInv, NEW c \in TgCalls, cpu_stress(c)
    PROVE  TgIInv'
<1>1. TgCallsInv /\ TgCallOK(tgCall[c]) /\ tgCordoned \subseteq TgNodes
  BY DEF TgIInv, TgCallsInv, TgPodsInv, TgDrainsInv
<1> DEFINE threads == cpu_workers(tgCall[c].args)
<1>2. threads # {}
  <2>1. Num(tgCall[c].args, "workers", U32, 2) \in Int
    BY SMT DEF Num, arg_num
  <2> HIDE DEF threads
  <2>2. threads = 1..Min({MaxWorkers, Max({1, Num(tgCall[c].args, "workers", U32, 2)})})
    BY Zenon DEF threads, cpu_workers
  <2> QED  BY <2>1, <2>2, TgWorkers
<1>3. tgCall' = [tgCall EXCEPT ![c].pc = "done", ![c].result = "ok", ![c].sent = threads]
  BY DEF cpu_stress
<1> HIDE DEF threads
<1>8. tgCall'[c] = [tgCall[c] EXCEPT !.pc = "done", !.result = "ok", !.sent = threads]
  BY <1>1, <1>3 DEF TgCallsInv
<1>4. /\ tgCall'[c].pc = "done" /\ tgCall'[c].result = "ok" /\ tgCall'[c].sent = threads
      /\ \A f \in {"fn", "args", "todo", "failed", "pod"} : tgCall'[c][f] = tgCall[c][f]
      /\ DOMAIN tgCall'[c] = DOMAIN tgCall[c]
  BY <1>1, <1>8 DEF TgCallOK
<1>5. /\ tgCall' = [d \in TgCalls |-> tgCall'[d]]
      /\ \A d \in TgCalls : d # c => tgCall'[d] = tgCall[d]
  BY <1>1, <1>3 DEF TgCallsInv
<1>6. TgCallOK(tgCall'[c])
  <2>1. tgCall[c].fn = "cpu_stress"
    BY DEF cpu_stress, Call
  <2> QED  BY <1>1, <1>2, <1>4, <2>1 DEF TgCallOK, Refusals
<1>7. TgOne(c)
  BY <1>1, <1>4, <1>5, <1>6 DEF TgOne, TgKept, TgCallsInv
<1> QED  BY <1>1, <1>4, <1>7, TgQuiet DEF cpu_stress, clusterVars

LEMMA TgResolveStep ==
    ASSUME TgIInv, NEW c \in TgCalls, resolve_target_pod(c)
    PROVE  TgIInv'
<1>1. TgCallsInv /\ TgCallOK(tgCall[c]) /\ tgCordoned \subseteq TgNodes
  BY DEF TgIInv, TgCallsInv, TgPodsInv, TgDrainsInv
<1>2. TgOne(c) /\ tgCall'[c].pc \in {"done", "inject"}
  <2>1. CASE Set(c, "done", "execution")
    BY <1>1, <2>1, TgSet DEF Refusals
  <2>2. ASSUME NEW p, tgCall' = [tgCall EXCEPT ![c].pc = "inject", ![c].pod = p]
        PROVE  TgOne(c) /\ tgCall'[c].pc \in {"done", "inject"}
    <3>4. tgCall'[c] = [tgCall[c] EXCEPT !.pc = "inject", !.pod = p]
      BY <1>1, <2>2 DEF TgCallsInv
    <3>1. /\ tgCall'[c].pc = "inject"
          /\ \A f \in {"fn", "args", "result", "todo", "failed", "sent"} : tgCall'[c][f] = tgCall[c][f]
          /\ DOMAIN tgCall'[c] = DOMAIN tgCall[c]
      BY <1>1, <3>4 DEF TgCallOK
    <3>2. /\ tgCall' = [d \in TgCalls |-> tgCall'[d]]
          /\ \A d \in TgCalls : d # c => tgCall'[d] = tgCall[d]
      BY <1>1, <2>2 DEF TgCallsInv
    <3>3. TgCallOK(tgCall'[c])
      BY <1>1, <3>1 DEF TgCallOK, resolve_target_pod
    <3> QED  BY <1>1, <3>1, <3>2, <3>3 DEF TgOne, TgKept, TgCallsInv
  <2> QED  BY <2>1, <2>2 DEF resolve_target_pod
<1> QED  BY <1>1, <1>2, TgQuiet DEF resolve_target_pod, clusterVars

(* A pod that the API has accepted to end is on its node still. *)
LEMMA TgPodGoes ==
    ASSUME TgIInv, TgCallsInv', NEW p \in Pods, tgGoing' = tgGoing \cup {p},
           UNCHANGED <<tgAt, tgBoxes, tgQdisc, tgCordoned, tgDrained, tgProposal, tgRules>>,
           \A d \in TgCalls : /\ tgCall'[d].fn = tgCall[d].fn /\ tgCall'[d].args = tgCall[d].args
                              /\ tgCall'[d].pod = tgCall[d].pod,
           \A d \in TgCalls : tgCall'[d].pc \in {"list", "evict"} =>
               /\ tgCall'[d].pc = tgCall[d].pc
               /\ \A q \in Pods : q # p /\ q \in tgCall[d].todo \cup tgCall[d].failed =>
                     q \in tgCall'[d].todo \cup tgCall'[d].failed,
           \/ ~TgPods[p].ds /\ ~TgPods[p].guarded
           \/ p \in tgGoing
           \/ \E c \in TgCalls : tgCall[c].fn = "delete_pod" /\ Arg(c, "name") = p
    PROVE  TgIInv'
<1>1. \A d \in TgCalls : \A k : Arg(d, k)' = Arg(d, k)
  BY TgArgs
<1>3. \A n : On(n)' = On(n) /\ On(n) \subseteq Pods
  BY DEF On
<1>4. tgDrained \subseteq TgNodes /\ tgCordoned \subseteq TgNodes /\ tgDrained \subseteq tgCordoned
  BY DEF TgIInv, TgPodsInv, TgDrainsInv
<1>5. TgDrainsInv'
  <2>1. ASSUME NEW d \in TgCalls, (tgCall[d].pc \in {"list", "evict"} /\ tgCall[d].pod # "undone")'
        PROVE  (Arg(d, "name") \in tgCordoned)'
    BY <1>1, <2>1 DEF TgIInv, TgPodsInv, TgDrainsInv
  <2>2. ASSUME NEW d \in TgCalls, (tgCall[d].pc = "evict" /\ tgCall[d].pod # "undone")',
               NEW q \in On(Arg(d, "name"))'
        PROVE  (TgPods[q].ds \/ q \in tgGoing \/ q \in tgCall[d].todo \/ q \in tgCall[d].failed)'
    <3>2. q \in On(Arg(d, "name")) /\ q \in Pods
      BY <1>1, <1>3, <2>2
    <3>3. TgPods[q].ds \/ q \in tgGoing \/ q \in tgCall[d].todo \/ q \in tgCall[d].failed
      BY <2>2, <3>2 DEF TgIInv, TgPodsInv, TgDrainsInv
    <3> QED  BY <2>2, <3>2, <3>3
  <2> QED  BY <1>4, <2>1, <2>2 DEF TgDrainsInv
<1>6. DrainedIsEmpty'
  BY <1>3 DEF TgIInv, TgPodsInv, DrainedIsEmpty
<1>7. BudgetsKept'
  <2> SUFFICES ASSUME NEW q \in Pods, TgPods[q].ds \/ TgPods[q].guarded, tgAt'[q] = TgNone \/ q \in tgGoing'
               PROVE  \E c \in TgCalls : tgCall'[c].fn = "delete_pod" /\ Arg(c, "name")' = q
    BY DEF BudgetsKept
  <2>1. \E c \in TgCalls : tgCall[c].fn = "delete_pod" /\ Arg(c, "name") = q
    BY DEF TgIInv, TgPodsInv, BudgetsKept
  <2> QED  BY <1>1, <2>1
<1>8. TgBoxesInv' /\ TgRulesInv' /\ ProposalParses'
  BY DEF TgIInv, TgBoxesInv, DelayEnds, TgRulesInv, ProposalParses
<1>9. tgAt' = [q \in Pods |-> tgAt'[q]]
  BY DEF TgIInv, TgPodsInv
<1> QED  BY <1>5, <1>6, <1>7, <1>8, <1>9 DEF TgIInv, TgPodsInv

(* A pod that leaves its node takes its containers and its delay along. *)
LEMMA TgTerminatesStep ==
    ASSUME TgIInv, NEW p \in Pods, Terminates(p)
    PROVE  TgIInv'
<1>0. /\ tgAt' = [tgAt EXCEPT ![p] = TgNone] /\ tgQdisc' = tgQdisc \ {p}
      /\ tgBoxes' = {b \in tgBoxes : b.pod # p} /\ tgGoing' = tgGoing \ {p} /\ p \in tgGoing
      /\ UNCHANGED <<tgCall, tgCordoned, tgDrained, tgProposal, tgRules>>
  BY DEF Terminates
<1>1. \A d \in TgCalls : \A k : Arg(d, k)' = Arg(d, k)
  BY <1>0 DEF Arg, arg_str, Str
<1>2. tgAt' = [q \in Pods |-> tgAt'[q]] /\ tgAt'[p] = TgNone /\ \A q \in Pods : q # p => tgAt'[q] = tgAt[q]
  BY <1>0 DEF TgIInv, TgPodsInv
<1>3. \A n \in TgNodes : On(n)' = On(n) \ {p}
  BY <1>2, TargetsAssumption DEF On
<1>4. tgDrained \subseteq TgNodes /\ tgCordoned \subseteq TgNodes /\ tgDrained \subseteq tgCordoned
  BY DEF TgIInv, TgPodsInv, TgDrainsInv
<1>5. TgDrainsInv'
  <2>1. ASSUME NEW d \in TgCalls, (tgCall[d].pc \in {"list", "evict"} /\ tgCall[d].pod # "undone")'
        PROVE  (/\ Arg(d, "name") \in tgCordoned
                /\ tgCall[d].pc = "evict" =>
                     \A q \in On(Arg(d, "name")) :
                        TgPods[q].ds \/ q \in tgGoing \/ q \in tgCall[d].todo \/ q \in tgCall[d].failed)'
    <3>1. Arg(d, "name") \in tgCordoned /\ Arg(d, "name") \in TgNodes
      BY <1>0, <1>4, <2>1 DEF TgIInv, TgPodsInv, TgDrainsInv
    <3>2. On(Arg(d, "name"))' = On(Arg(d, "name")) \ {p}
      BY <1>1, <1>3, <3>1 DEF On
    <3> QED  BY <1>0, <1>1, <2>1, <3>1, <3>2 DEF TgIInv, TgPodsInv, TgDrainsInv
  <2> QED  BY <1>0, <1>4, <2>1 DEF TgDrainsInv
<1>6. DrainedIsEmpty'
  BY <1>0, <1>3, <1>4 DEF TgIInv, TgPodsInv, DrainedIsEmpty
<1>7. BudgetsKept'
  <2> SUFFICES ASSUME NEW q \in Pods, TgPods[q].ds \/ TgPods[q].guarded, tgAt'[q] = TgNone \/ q \in tgGoing'
               PROVE  \E c \in TgCalls : tgCall'[c].fn = "delete_pod" /\ Arg(c, "name")' = q
    BY DEF BudgetsKept
  <2>1. tgAt[q] = TgNone \/ q \in tgGoing
    BY <1>0, <1>2
  <2>2. \E c \in TgCalls : tgCall[c].fn = "delete_pod" /\ Arg(c, "name") = q
    BY <2>1 DEF TgIInv, TgPodsInv, BudgetsKept
  <2> QED  BY <1>0, <1>1, <2>2
<1>8. TgBoxesInv'
  BY <1>0 DEF TgIInv, TgBoxesInv, DelayEnds
<1>9. TgRulesInv' /\ ProposalParses'
  BY <1>0 DEF TgIInv, TgRulesInv, ProposalParses
<1>10. TgCallsInv'
  BY <1>0 DEF TgIInv, TgCallsInv, TgCallOK
<1> QED  BY <1>2, <1>5, <1>6, <1>7, <1>8, <1>9, <1>10 DEF TgIInv, TgPodsInv

(* A pod that is deleted. *)
LEMMA TgDeleteStep ==
    ASSUME TgIInv, NEW c \in TgCalls, delete_pod(c)
    PROVE  TgIInv'
<1> DEFINE p == Arg(c, "name")
<1>1. TgCallsInv
  BY DEF TgIInv
<1>2. tgCall[c].fn = "delete_pod" /\ Sent(c, "delete") /\ p \in Pods
  BY DEF delete_pod, Call
<1>3. TgOne(c) /\ tgCall'[c].pc = "done" /\ tgCall'[c].pod = tgCall[c].pod
  BY <1>1, <1>2, TgSent
<1>4. /\ tgGoing' = tgGoing \cup {p}
      /\ UNCHANGED <<tgAt, tgBoxes, tgQdisc, tgCordoned, tgDrained, tgProposal, tgRules>>
  BY DEF delete_pod
<1>5. \A d \in TgCalls : /\ tgCall'[d].fn = tgCall[d].fn /\ tgCall'[d].args = tgCall[d].args
                         /\ tgCall'[d].pod = tgCall[d].pod
  BY <1>3 DEF TgOne, TgKept
<1>6. \A d \in TgCalls : tgCall'[d].pc \in {"list", "evict"} => tgCall'[d] = tgCall[d]
  BY <1>3 DEF TgOne
<1> HIDE DEF p
<1>7. \E d \in TgCalls : tgCall[d].fn = "delete_pod" /\ Arg(d, "name") = p
  BY <1>2 DEF p
<1> QED  BY <1>2, <1>3, <1>4, <1>5, <1>6, <1>7, TgPodGoes DEF TgOne

(* One pod of a drain: its eviction is accepted, or refused by its budget. *)
LEMMA TgEvictStep ==
    ASSUME TgIInv, NEW c \in TgCalls, NEW p \in Pods, drain_evict(c, p)
    PROVE  TgIInv'
<1> DEFINE ok == Evictable(p)
<1>1. TgCallsInv /\ TgCallOK(tgCall[c])
  BY DEF TgIInv, TgCallsInv
<1>2. tgCall[c].pc = "evict" /\ p \in tgCall[c].todo
  BY DEF drain_evict
<1>3. tgCall' = [tgCall EXCEPT ![c].todo = @ \ {p},
                               ![c].failed = IF ok THEN @ ELSE @ \cup {p},
                               ![c].sent = IF ok THEN @ \cup {"evict"} ELSE @]
  BY DEF drain_evict
<1>4. /\ tgGoing' = IF ok THEN tgGoing \cup {p} ELSE tgGoing
      /\ UNCHANGED <<tgAt, tgBoxes, tgQdisc, tgCordoned, tgDrained, tgProposal, tgRules>>
  BY DEF drain_evict
<1>5. ok => ~TgPods[p].guarded \/ p \in tgGoing
  BY DEF Evictable
<1> HIDE DEF ok
<1>6. tgCall'[c] = [tgCall[c] EXCEPT !.todo = tgCall[c].todo \ {p},
                        !.failed = IF ok THEN tgCall[c].failed ELSE tgCall[c].failed \cup {p},
                        !.sent = IF ok THEN tgCall[c].sent \cup {"evict"} ELSE tgCall[c].sent]
  BY <1>1, <1>3 DEF TgCallsInv
<1>7. /\ tgCall'[c].todo = tgCall[c].todo \ {p}
      /\ tgCall'[c].failed = IF ok THEN tgCall[c].failed ELSE tgCall[c].failed \cup {p}
      /\ tgCall'[c].sent = IF ok THEN tgCall[c].sent \cup {"evict"} ELSE tgCall[c].sent
      /\ \A f \in {"pc", "fn", "args", "result", "pod"} : tgCall'[c][f] = tgCall[c][f]
      /\ DOMAIN tgCall'[c] = DOMAIN tgCall[c]
  BY <1>1, <1>6 DEF TgCallOK
<1>8. /\ tgCall' = [d \in TgCalls |-> tgCall'[d]]
      /\ \A d \in TgCalls : d # c => tgCall'[d] = tgCall[d]
  BY <1>1, <1>3 DEF TgCallsInv
<1>9. TgCallOK(tgCall'[c])
  <2>1. tgCall[c].fn = "drain_node" /\ tgCall[c].result = "none" /\ tgCall[c].sent # {}
    BY <1>1, <1>2 DEF TgCallOK
  <2>2. tgCall'[c].sent # {} /\ \A q \in tgCall'[c].todo : ~TgPods[q].ds
    BY <1>1, <1>2, <1>7, <2>1 DEF TgCallOK
  <2> QED  BY <1>1, <1>2, <1>7, <2>1, <2>2 DEF TgCallOK, Refusals
<1>10. TgCallsInv'
  BY <1>1, <1>8, <1>9 DEF TgCallsInv
<1>11. \A d \in TgCalls : /\ tgCall'[d].fn = tgCall[d].fn /\ tgCall'[d].args = tgCall[d].args
                          /\ tgCall'[d].pod = tgCall[d].pod /\ tgCall'[d].pc = tgCall[d].pc
  BY <1>7, <1>8
<1>12. \A d \in TgCalls : \A q \in Pods : (q # p \/ ~ok) /\ q \in tgCall[d].todo \cup tgCall[d].failed =>
                     q \in tgCall'[d].todo \cup tgCall'[d].failed
  BY <1>7, <1>8
<1>13. CASE ok
  <2>1. (~TgPods[p].ds /\ ~TgPods[p].guarded) \/ p \in tgGoing
    BY <1>1, <1>2, <1>5, <1>13 DEF TgCallOK
  <2> QED  BY <1>4, <1>10, <1>11, <1>12, <1>13, <2>1, TgPodGoes
<1>14. CASE ~ok
  <2>1. UNCHANGED <<tgAt, tgGoing, tgQdisc, tgBoxes, tgCordoned, tgDrained, tgProposal, tgRules>>
    BY <1>4, <1>14
  <2>2. \A d \in TgCalls : \A k : Arg(d, k)' = Arg(d, k)
    BY <1>11, TgArgs
  <2>3. TgDrainsInv'
    <3>1. ASSUME NEW d \in TgCalls, (tgCall[d].pc \in {"list", "evict"} /\ tgCall[d].pod # "undone")'
          PROVE  (/\ Arg(d, "name") \in tgCordoned
                  /\ tgCall[d].pc = "evict" =>
                       \A q \in On(Arg(d, "name")) :
                          TgPods[q].ds \/ q \in tgGoing \/ q \in tgCall[d].todo \/ q \in tgCall[d].failed)'
      <4>1. On(Arg(d, "name"))' = On(Arg(d, "name")) /\ On(Arg(d, "name")) \subseteq Pods
        BY <2>1, <2>2 DEF On
      <4>2. /\ Arg(d, "name") \in tgCordoned
            /\ tgCall[d].pc = "evict" =>
                 \A q \in On(Arg(d, "name")) :
                    TgPods[q].ds \/ q \in tgGoing \/ q \in tgCall[d].todo \/ q \in tgCall[d].failed
        BY <1>11, <3>1 DEF TgIInv, TgPodsInv, TgDrainsInv
      <4> QED  BY <1>11, <1>12, <1>14, <2>1, <2>2, <4>1, <4>2
    <3> QED  BY <2>1, <3>1 DEF TgIInv, TgPodsInv, TgDrainsInv
  <2>4. BudgetsKept'
    BY <1>11, <2>1, <2>2 DEF TgIInv, TgPodsInv, BudgetsKept
  <2>5. TgPodsInv'
    BY <2>1, <2>3, <2>4 DEF TgIInv, TgPodsInv, DrainedIsEmpty, On
  <2>6. TgBoxesInv' /\ TgRulesInv' /\ ProposalParses'
    BY <2>1 DEF TgIInv, TgBoxesInv, DelayEnds, TgRulesInv, ProposalParses
  <2> QED  BY <1>10, <2>5, <2>6 DEF TgIInv
<1> QED  BY <1>13, <1>14

(* A drain cordons its node and then lists what is on it. *)
LEMMA TgDrainStep ==
    ASSUME TgIInv, NEW c \in TgCalls, drain_cordon(c) \/ drain_list(c)
    PROVE  TgIInv'
<1>1. TgCallsInv /\ TgCallOK(tgCall[c])
  BY DEF TgIInv, TgCallsInv
<1> DEFINE n == Arg(c, "name")
           list == {p \in On(n) : ~TgPods[p].ds}
<1>2. \/ /\ tgCall[c].pc = "cordon" /\ n \in TgNodes /\ tgCordoned' = tgCordoned \cup {n}
         /\ tgCall' = [tgCall EXCEPT ![c].pc = "list", ![c].sent = @ \cup {"cordon"}]
      \/ /\ tgCall[c].pc = "list" /\ tgCordoned' = tgCordoned
         /\ tgCall' = [tgCall EXCEPT ![c].pc = "evict", ![c].todo = list]
  BY DEF drain_cordon, drain_list, clusterVars
<1>3. UNCHANGED <<tgAt, tgGoing, tgBoxes, tgQdisc, tgDrained, tgProposal, tgRules>>
  BY DEF drain_cordon, drain_list, clusterVars
<1>4. \A p \in list : ~TgPods[p].ds
  OBVIOUS
<1>5. \A p \in On(n) : TgPods[p].ds \/ p \in list
  OBVIOUS
<1> HIDE DEF list
<1>6. /\ tgCall' = [d \in TgCalls |-> tgCall'[d]]
      /\ \A d \in TgCalls : d # c => tgCall'[d] = tgCall[d]
  BY <1>1, <1>2 DEF TgCallsInv
<1>7. \/ /\ tgCall[c].pc = "cordon" /\ n \in TgNodes /\ tgCordoned' = tgCordoned \cup {n}
         /\ tgCall'[c] = [tgCall[c] EXCEPT !.pc = "list", !.sent = tgCall[c].sent \cup {"cordon"}]
      \/ /\ tgCall[c].pc = "list" /\ tgCordoned' = tgCordoned
         /\ tgCall'[c] = [tgCall[c] EXCEPT !.pc = "evict", !.todo = list]
  BY <1>1, <1>2 DEF TgCallsInv
<1> HIDE DEF n
<1>8. /\ \/ /\ tgCall[c].pc = "cordon" /\ n \in TgNodes /\ tgCordoned' = tgCordoned \cup {n}
            /\ tgCall'[c].pc = "list" /\ tgCall'[c].todo = tgCall[c].todo
            /\ tgCall'[c].sent = tgCall[c].sent \cup {"cordon"}
         \/ /\ tgCall[c].pc = "list" /\ tgCordoned' = tgCordoned
            /\ tgCall'[c].pc = "evict" /\ tgCall'[c].todo = list /\ tgCall'[c].sent = tgCall[c].sent
      /\ \A f \in {"fn", "args", "result", "failed", "pod"} : tgCall'[c][f] = tgCall[c][f]
      /\ DOMAIN tgCall'[c] = DOMAIN tgCall[c]
  <2>1. CASE tgCall'[c] = [tgCall[c] EXCEPT !.pc = "list", !.sent = tgCall[c].sent \cup {"cordon"}]
    BY <1>1, <1>7, <2>1 DEF TgCallOK
  <2>2. CASE tgCall'[c] = [tgCall[c] EXCEPT !.pc = "evict", !.todo = list]
    BY <1>1, <1>7, <2>2 DEF TgCallOK
  <2> QED  BY <1>7, <2>1, <2>2
<1>9. TgCallOK(tgCall'[c])
  <2>1. tgCall[c].fn = "drain_node" /\ tgCall[c].result = "none" /\ tgCall'[c].sent # {}
    BY <1>1, <1>8 DEF TgCallOK
  <2> QED  BY <1>1, <1>4, <1>8, <2>1 DEF TgCallOK, Refusals
<1>10. TgCallsInv'
  BY <1>1, <1>6, <1>9 DEF TgCallsInv
<1>11. \A d \in TgCalls : tgCall'[d].fn = tgCall[d].fn /\ tgCall'[d].args = tgCall[d].args
                          /\ tgCall'[d].pod = tgCall[d].pod
  BY <1>6, <1>8
<1>12. \A d \in TgCalls : \A k : Arg(d, k)' = Arg(d, k)
  BY <1>11, TgArgs
<1>13. tgCordoned \subseteq tgCordoned' /\ tgCordoned' \subseteq TgNodes
  BY <1>8 DEF TgIInv, TgPodsInv, TgDrainsInv
<1>14. TgDrainsInv'
  <2>1. ASSUME NEW d \in TgCalls, (tgCall[d].pc \in {"list", "evict"} /\ tgCall[d].pod # "undone")'
        PROVE  (Arg(d, "name") \in tgCordoned)'
    <3>1. CASE d = c
      <4>1. tgCall[c].pc = "list" => n \in tgCordoned
        BY <1>11, <2>1, <3>1 DEF TgIInv, TgPodsInv, TgDrainsInv, n
      <4> QED  BY <1>8, <1>12, <3>1, <4>1 DEF n
    <3>2. CASE d # c
      BY <1>6, <1>12, <1>13, <2>1, <3>2 DEF TgIInv, TgPodsInv, TgDrainsInv
    <3> QED  BY <3>1, <3>2
  <2>2. ASSUME NEW d \in TgCalls, (tgCall[d].pc = "evict" /\ tgCall[d].pod # "undone")',
               NEW q \in On(Arg(d, "name"))'
        PROVE  (TgPods[q].ds \/ q \in tgGoing \/ q \in tgCall[d].todo \/ q \in tgCall[d].failed)'
    <3>1. q \in On(Arg(d, "name"))
      BY <1>3, <1>12, <2>2 DEF On
    <3>2. CASE d = c
      BY <1>5, <1>8, <2>2, <3>1, <3>2 DEF n
    <3>3. CASE d # c
      BY <1>3, <1>6, <2>2, <3>1, <3>3 DEF TgIInv, TgPodsInv, TgDrainsInv
    <3> QED  BY <3>2, <3>3
  <2>3. tgDrained' \subseteq tgCordoned'
    BY <1>3, <1>13 DEF TgIInv, TgPodsInv, TgDrainsInv
  <2> QED  BY <1>13, <2>1, <2>2, <2>3 DEF TgDrainsInv
<1>15. BudgetsKept'
  BY <1>3, <1>11, <1>12 DEF TgIInv, TgPodsInv, BudgetsKept
<1>16. TgPodsInv'
  BY <1>3, <1>14, <1>15 DEF TgIInv, TgPodsInv, DrainedIsEmpty, On
<1>17. TgBoxesInv' /\ TgRulesInv' /\ ProposalParses'
  BY <1>3 DEF TgIInv, TgBoxesInv, DelayEnds, TgRulesInv, ProposalParses
<1> QED  BY <1>10, <1>16, <1>17 DEF TgIInv

(* A drain that ends without a failure and was not undone left its node empty. *)
LEMMA TgDrainEndStep ==
    ASSUME TgIInv, NEW c \in TgCalls, drain_ends(c)
    PROVE  TgIInv'
<1> DEFINE n == Arg(c, "name")
           clean == tgCall[c].failed = {} /\ tgCall[c].pod # "undone"
<1>1. TgCallsInv /\ TgCallOK(tgCall[c])
  BY DEF TgIInv, TgCallsInv
<1>2. /\ tgCall[c].pc = "evict" /\ tgCall[c].todo = {} /\ Set(c, "done", "ok")
      /\ tgDrained' = IF clean THEN tgDrained \cup {n} ELSE tgDrained
      /\ UNCHANGED <<tgCordoned, tgAt, tgGoing, tgBoxes, tgQdisc, tgProposal, tgRules>>
  BY DEF drain_ends
<1>3. clean => n \in tgCordoned /\ \A p \in On(n) : TgPods[p].ds \/ p \in tgGoing
  BY <1>2 DEF TgIInv, TgPodsInv, TgDrainsInv
<1> HIDE DEF n, clean
<1>4. tgCall'[c] = [tgCall[c] EXCEPT !.pc = "done", !.result = "ok"]
  BY <1>1, <1>2 DEF Set, TgCallsInv
<1>5. /\ tgCall' = [d \in TgCalls |-> tgCall'[d]]
      /\ \A d \in TgCalls : d # c => tgCall'[d] = tgCall[d]
  BY <1>1, <1>2 DEF Set, TgCallsInv
<1>6. /\ tgCall'[c].pc = "done" /\ tgCall'[c].result = "ok"
      /\ \A f \in {"fn", "args", "todo", "failed", "sent", "pod"} : tgCall'[c][f] = tgCall[c][f]
      /\ DOMAIN tgCall'[c] = DOMAIN tgCall[c]
  BY <1>1, <1>4 DEF TgCallOK
<1>7. TgCallOK(tgCall'[c])
  <2>1. tgCall[c].sent # {} /\ tgCall[c].fn = "drain_node"
    BY <1>1, <1>2 DEF TgCallOK
  <2> QED  BY <1>1, <1>6, <2>1 DEF TgCallOK, Refusals
<1>8. TgCallsInv'
  BY <1>1, <1>5, <1>7 DEF TgCallsInv
<1>9. \A d \in TgCalls : tgCall'[d].fn = tgCall[d].fn /\ tgCall'[d].args = tgCall[d].args
  BY <1>5, <1>6
<1>10. \A d \in TgCalls : \A k : Arg(d, k)' = Arg(d, k)
  BY <1>9, TgArgs
<1>11. TgDrainsInv'
  <2>1. tgDrained' \subseteq tgCordoned' /\ tgCordoned' \subseteq TgNodes
    BY <1>2, <1>3 DEF TgIInv, TgPodsInv, TgDrainsInv
  <2>2. ASSUME NEW d \in TgCalls, (tgCall[d].pc \in {"list", "evict"} /\ tgCall[d].pod # "undone")'
        PROVE  (/\ Arg(d, "name") \in tgCordoned
                /\ tgCall[d].pc = "evict" =>
                     \A p \in On(Arg(d, "name")) :
                        TgPods[p].ds \/ p \in tgGoing \/ p \in tgCall[d].todo \/ p \in tgCall[d].failed)'
    <3>1. tgCall'[d] = tgCall[d]
      BY <1>5, <1>6, <2>2
    <3> QED  BY <1>2, <1>10, <2>2, <3>1 DEF TgIInv, TgPodsInv, TgDrainsInv, On
  <2> QED  BY <2>1, <2>2 DEF TgDrainsInv
<1>12. BudgetsKept'
  BY <1>2, <1>9, <1>10 DEF TgIInv, TgPodsInv, BudgetsKept
<1>13. DrainedIsEmpty'
  BY <1>2, <1>3 DEF TgIInv, TgPodsInv, DrainedIsEmpty, On
<1>14. TgBoxesInv' /\ TgRulesInv' /\ ProposalParses'
  BY <1>2 DEF TgIInv, TgBoxesInv, DelayEnds, TgRulesInv, ProposalParses
<1> QED  BY <1>2, <1>8, <1>11, <1>12, <1>13, <1>14 DEF TgIInv, TgPodsInv

(* A node that may be scheduled to again is drained no longer, and the drains of
   it that are under way cannot say that it is. *)
LEMMA TgUncordonStep ==
    ASSUME TgIInv, NEW c \in TgCalls, uncordon_node(c)
    PROVE  TgIInv'
<1> DEFINE n == Arg(c, "name")
           drains(d) == tgCall[d].fn = "drain_node" /\ Arg(d, "name") = n
<1>1. TgCallsInv /\ \A d \in TgCalls : TgCallOK(tgCall[d])
  BY DEF TgIInv, TgCallsInv
<1>2. /\ tgCall[c].fn = "uncordon_node" /\ tgCall[c].pc = "send"
      /\ tgCordoned' = tgCordoned \ {n} /\ tgDrained' = tgDrained \ {n}
      /\ UNCHANGED <<tgAt, tgGoing, tgBoxes, tgQdisc, tgProposal, tgRules>>
  BY DEF uncordon_node, Call
<1>3. tgCall' = [d \in TgCalls |->
         IF d = c THEN [tgCall[c] EXCEPT !.pc = "done", !.result = "ok", !.sent = @ \cup {"uncordon"}]
         ELSE IF drains(d) THEN [tgCall[d] EXCEPT !.pod = "undone"] ELSE tgCall[d]]
  BY DEF uncordon_node
<1> HIDE DEF n, drains
<1>4. tgCall'[c] = [tgCall[c] EXCEPT !.pc = "done", !.result = "ok", !.sent = tgCall[c].sent \cup {"uncordon"}]
  BY <1>3
<1>5. /\ tgCall'[c].pc = "done" /\ tgCall'[c].result = "ok" /\ tgCall'[c].sent # {}
      /\ \A f \in {"fn", "args", "todo", "failed", "pod"} : tgCall'[c][f] = tgCall[c][f]
      /\ DOMAIN tgCall'[c] = DOMAIN tgCall[c]
  BY <1>1, <1>4 DEF TgCallOK
<1>6. ASSUME NEW d \in TgCalls, d # c
      PROVE  /\ drains(d) => tgCall'[d].pod = "undone"
             /\ ~drains(d) => tgCall'[d] = tgCall[d]
             /\ \A f \in {"pc", "fn", "args", "result", "todo", "failed", "sent"} : tgCall'[d][f] = tgCall[d][f]
             /\ DOMAIN tgCall'[d] = DOMAIN tgCall[d]
  <2>1. tgCall'[d] = IF drains(d) THEN [tgCall[d] EXCEPT !.pod = "undone"] ELSE tgCall[d]
    BY <1>3, <1>6
  <2> QED  BY <1>1, <2>1 DEF TgCallOK
<1>7. TgCallsInv'
  <2>1. TgCallOK(tgCall'[c])
    BY <1>1, <1>2, <1>5 DEF TgCallOK, Refusals
  <2>2. ASSUME NEW d \in TgCalls, d # c PROVE TgCallOK(tgCall'[d])
    BY <1>1, <1>6, <2>2 DEF TgCallOK
  <2>3. tgCall' = [d \in TgCalls |-> tgCall'[d]]
    BY <1>3
  <2> QED  BY <2>1, <2>2, <2>3 DEF TgCallsInv
<1>8. \A d \in TgCalls : tgCall'[d].fn = tgCall[d].fn /\ tgCall'[d].args = tgCall[d].args
  BY <1>5, <1>6
<1>9. \A d \in TgCalls : \A k : Arg(d, k)' = Arg(d, k)
  BY <1>8, TgArgs
<1>10. TgDrainsInv'
  <2>1. tgDrained' \subseteq tgCordoned' /\ tgCordoned' \subseteq TgNodes
    BY <1>2 DEF TgIInv, TgPodsInv, TgDrainsInv
  <2>2. ASSUME NEW d \in TgCalls, (tgCall[d].pc \in {"list", "evict"} /\ tgCall[d].pod # "undone")'
        PROVE  (/\ Arg(d, "name") \in tgCordoned
                /\ tgCall[d].pc = "evict" =>
                     \A p \in On(Arg(d, "name")) :
                        TgPods[p].ds \/ p \in tgGoing \/ p \in tgCall[d].todo \/ p \in tgCall[d].failed)'
    <3>1. d # c
      BY <1>5, <2>2
    <3>2. ~drains(d) /\ tgCall'[d] = tgCall[d]
      BY <1>6, <2>2, <3>1
    <3>3. Arg(d, "name") # n
      BY <1>1, <2>2, <3>2 DEF drains, TgCallOK
    <3> QED  BY <1>2, <1>9, <2>2, <3>2, <3>3 DEF TgIInv, TgPodsInv, TgDrainsInv, On
  <2> QED  BY <2>1, <2>2 DEF TgDrainsInv
<1>11. BudgetsKept'
  BY <1>2, <1>8, <1>9 DEF TgIInv, TgPodsInv, BudgetsKept
<1>12. TgPodsInv'
  BY <1>2, <1>10, <1>11 DEF TgIInv, TgPodsInv, DrainedIsEmpty, On
<1>13. TgBoxesInv' /\ TgRulesInv' /\ ProposalParses'
  BY <1>2 DEF TgIInv, TgBoxesInv, DelayEnds, TgRulesInv, ProposalParses
<1> QED  BY <1>7, <1>12, <1>13 DEF TgIInv

(* A container more in a pod that is there. *)
LEMMA TgInjectStep ==
    ASSUME TgIInv, NEW c \in TgCalls, inject(c)
    PROVE  TgIInv'
<1>1. TgCallsInv /\ TgCallOK(tgCall[c]) /\ tgCordoned \subseteq TgNodes
  BY DEF TgIInv, TgCallsInv, TgPodsInv, TgDrainsInv
<1>2. /\ tgCall[c].pc = "inject"
      /\ UNCHANGED <<tgCordoned, tgAt, tgGoing, tgQdisc, tgDrained, tgProposal, tgRules>>
  BY DEF inject
<1>3. tgCall[c].sent = {} /\ tgCall[c].fn # "network_blackhole_rollback"
  BY <1>1, <1>2 DEF TgCallOK, Injects
<1>4. \/ Set(c, "done", "invalid argument") /\ UNCHANGED tgBoxes
      \/ \E kind : append_ephemeral_container(c, kind)
  BY DEF inject
<1>5. \/ UNCHANGED tgBoxes /\ (Set(c, "done", "invalid argument") \/ Set(c, "done", "api"))
      \/ /\ \E p, name, kind : tgBoxes' = tgBoxes \cup {[pod |-> p, name |-> name, kind |-> kind, st |-> "starts"]}
         /\ Sent(c, "patch")
  BY <1>4 DEF append_ephemeral_container
<1>6. TgOne(c) /\ tgCall'[c].pc = "done"
  BY <1>1, <1>3, <1>5, TgSet, TgSent
<1>7. /\ tgBoxes \subseteq tgBoxes'
      /\ \A b \in tgBoxes' : b \in tgBoxes \/ DOMAIN b = {"pod", "name", "kind", "st"}
  <2>1. ASSUME NEW p, NEW name, NEW kind
        PROVE  DOMAIN [pod |-> p, name |-> name, kind |-> kind, st |-> "starts"] = {"pod", "name", "kind", "st"}
    OBVIOUS
  <2> QED  BY <1>5, <2>1
<1>8. TgBoxesInv'
  BY <1>2, <1>7 DEF TgIInv, TgBoxesInv, DelayEnds
<1>9. TgPodsInv'
  BY <1>1, <1>2, <1>6, TgPodsStay DEF TgIInv
<1>10. TgRulesInv' /\ ProposalParses'
  BY <1>2 DEF TgIInv, TgRulesInv, ProposalParses
<1> QED  BY <1>6, <1>8, <1>9, <1>10 DEF TgIInv, TgOne

(* A step that no call takes part in. *)
LEMMA TgNoCall ==
    ASSUME TgIInv, UNCHANGED <<tgCall, tgCordoned, tgAt, tgGoing, tgDrained>>
    PROVE  TgCallsInv' /\ TgPodsInv'
BY DEF TgIInv, TgCallsInv, TgCallOK, TgPodsInv, TgDrainsInv, DrainedIsEmpty, BudgetsKept, On, Arg, arg_str, Str

(* What a container does to the delay of its pod. *)
LEMMA TgBoxStep ==
    ASSUME TgIInv, NEW b \in tgBoxes, box_script(b) \/ stress_ends(b)
    PROVE  TgIInv'
<1>1. UNCHANGED <<tgCall, tgCordoned, tgAt, tgGoing, tgDrained, tgProposal, tgRules>>
  BY DEF box_script, stress_ends, BoxRest
<1>2. \/ b.st = "starts" /\ b.pod \in tgQdisc /\ BoxTo(b, "removes") /\ UNCHANGED tgQdisc
      \/ b.st = "starts" /\ BoxTo(b, "sleeps") /\ tgQdisc' = tgQdisc \cup {b.pod}
      \/ b.st = "sleeps" /\ BoxTo(b, "removes") /\ UNCHANGED tgQdisc
      \/ b.st = "removes" /\ BoxTo(b, "ended") /\ tgQdisc' = tgQdisc \ {b.pod}
      \/ b.st = "starts" /\ BoxTo(b, "ended") /\ UNCHANGED tgQdisc
  BY DEF box_script, stress_ends
<1>3. DOMAIN b = {"pod", "name", "kind", "st"}
  BY DEF TgIInv, TgBoxesInv
<1>4. PICK st : BoxTo(b, st) /\ tgQdisc' \subseteq tgQdisc \cup {b.pod}
              /\ (b.st = "starts" /\ st = "ended" => UNCHANGED tgQdisc)
              /\ (b.st # "starts" /\ st = "ended" => b.pod \notin tgQdisc')
              /\ st \in {"sleeps", "removes", "ended"}
  BY <1>2
<1> DEFINE after == [b EXCEPT !.st = st]
<1>5. after.st = st /\ after.pod = b.pod /\ DOMAIN after = {"pod", "name", "kind", "st"}
  BY <1>3
<1>6. tgBoxes' = (tgBoxes \ {b}) \cup {after}
  BY <1>4 DEF BoxTo
<1> HIDE DEF after
<1>7. ASSUME NEW p \in tgQdisc' PROVE \E e \in tgBoxes' : e.pod = p /\ e.st \in {"sleeps", "removes"}
  <2>1. CASE p = b.pod /\ st # "ended"
    BY <1>4, <1>5, <1>6, <2>1
  <2>2. CASE p = b.pod /\ st = "ended"
    <3>1. b.st = "starts" /\ p \in tgQdisc
      BY <1>4, <1>7, <2>2
    <3>2. PICK e \in tgBoxes : e.pod = p /\ e.st \in {"sleeps", "removes"}
      BY <3>1 DEF TgIInv, TgBoxesInv, DelayEnds
    <3> QED  BY <1>6, <3>1, <3>2
  <2>3. CASE p # b.pod
    <3>1. PICK e \in tgBoxes : e.pod = p /\ e.st \in {"sleeps", "removes"}
      BY <1>4, <1>7, <2>3 DEF TgIInv, TgBoxesInv, DelayEnds
    <3> QED  BY <1>6, <2>3, <3>1
  <2> QED  BY <2>1, <2>2, <2>3
<1>8. TgBoxesInv'
  BY <1>5, <1>6, <1>7 DEF TgIInv, TgBoxesInv, DelayEnds
<1>9. TgRulesInv' /\ ProposalParses'
  BY <1>1 DEF TgIInv, TgRulesInv, ProposalParses
<1> QED  BY <1>1, <1>8, <1>9, TgNoCall DEF TgIInv

(* A rule of the firewall is named after what it blocks. *)
LEMMA TgBlockStep ==
    ASSUME TgIInv, NEW c \in TgCalls, network_blackhole(c)
    PROVE  TgIInv'
<1>1. TgCallsInv /\ TgCallOK(tgCall[c]) /\ tgCordoned \subseteq TgNodes
  BY DEF TgIInv, TgCallsInv, TgPodsInv, TgDrainsInv
<1>2. PICK target : tgRules' = tgRules \cup {[name |-> rule_name(target), match |-> target, by |-> c]}
  BY DEF network_blackhole
<1>3. /\ UNCHANGED <<tgCordoned, tgAt, tgGoing, tgBoxes, tgQdisc, tgDrained, tgProposal>>
      /\ Sent(c, "add") /\ tgCall[c].fn = "network_blackhole"
  BY DEF network_blackhole, clusterVars, Call
<1>4. TgOne(c) /\ tgCall'[c].pc = "done"
  BY <1>1, <1>3, TgSent
<1>5. TgPodsInv'
  BY <1>1, <1>3, <1>4, TgPodsStay DEF TgIInv
<1>6. TgRulesInv'
  BY <1>2 DEF TgIInv, TgRulesInv
<1>7. TgBoxesInv' /\ ProposalParses'
  BY <1>3 DEF TgIInv, TgBoxesInv, DelayEnds, ProposalParses
<1> QED  BY <1>4, <1>5, <1>6, <1>7 DEF TgIInv, TgOne

(* A rollback finds the rules of its target and no others. *)
LEMMA TgUnblockStep ==
    ASSUME TgIInv, NEW c \in TgCalls, NEW target, network_blackhole_rollback(c, target)
    PROVE  TgIInv'
<1> DEFINE found == {r \in tgRules : r.name = rule_name(target)}
           lifted == {r.match : r \in found}
<1>1. TgCallsInv /\ TgCallOK(tgCall[c]) /\ tgCordoned \subseteq TgNodes
  BY DEF TgIInv, TgCallsInv, TgPodsInv, TgDrainsInv
<1>2. /\ found # {} /\ tgRules' = tgRules \ found /\ tgCall[c].pc = "send"
      /\ UNCHANGED <<tgCordoned, tgAt, tgGoing, tgBoxes, tgQdisc, tgDrained, tgProposal>>
      /\ tgCall' = [tgCall EXCEPT ![c].pc = "done", ![c].result = "ok", ![c].sent = {"delete"},
                                  ![c].todo = lifted, ![c].failed = {target}]
  BY DEF network_blackhole_rollback, clusterVars, Call
<1>3. lifted = {target}
  <2>1. \A r \in found : r.match = target
    BY DEF TgIInv, TgRulesInv, rule_name
  <2> QED  BY <1>2, <2>1
<1> HIDE DEF found, lifted
<1>4. tgCall'[c] = [tgCall[c] EXCEPT !.pc = "done", !.result = "ok", !.sent = {"delete"},
                        !.todo = lifted, !.failed = {target}]
  BY <1>1, <1>2 DEF TgCallsInv
<1>5. /\ tgCall'[c].pc = "done" /\ tgCall'[c].result = "ok" /\ tgCall'[c].sent = {"delete"}
      /\ tgCall'[c].todo = lifted /\ tgCall'[c].failed = {target}
      /\ \A f \in {"fn", "args", "pod"} : tgCall'[c][f] = tgCall[c][f]
      /\ DOMAIN tgCall'[c] = DOMAIN tgCall[c]
  BY <1>1, <1>4 DEF TgCallOK
<1>6. /\ tgCall' = [d \in TgCalls |-> tgCall'[d]]
      /\ \A d \in TgCalls : d # c => tgCall'[d] = tgCall[d]
  BY <1>1, <1>2 DEF TgCallsInv
<1>7. TgCallOK(tgCall'[c])
  BY <1>1, <1>3, <1>5 DEF TgCallOK, Refusals
<1>8. TgOne(c)
  BY <1>1, <1>5, <1>6, <1>7 DEF TgOne, TgKept, TgCallsInv
<1>9. TgPodsInv'
  BY <1>1, <1>2, <1>5, <1>8, TgPodsStay DEF TgIInv
<1>10. TgRulesInv' /\ TgBoxesInv' /\ ProposalParses'
  BY <1>2 DEF TgIInv, TgRulesInv, TgBoxesInv, DelayEnds, ProposalParses
<1> QED  BY <1>8, <1>9, <1>10 DEF TgIInv, TgOne

(* Nothing but a DaemonSet's pod is scheduled to a cordoned node, so neither to a
   drained one. *)
LEMMA TgScheduleStep ==
    ASSUME TgIInv, NEW p \in Pods, BecomesReady(p) \/ \E n \in TgNodes : Schedule(p, n)
    PROVE  TgIInv'
<1>1. CASE BecomesReady(p)
  <2>1. UNCHANGED <<tgCall, tgCordoned, tgAt, tgGoing, tgBoxes, tgQdisc, tgDrained, tgProposal, tgRules>>
    BY <1>1 DEF BecomesReady
  <2>2. TgBoxesInv' /\ TgRulesInv' /\ ProposalParses'
    BY <2>1 DEF TgIInv, TgBoxesInv, DelayEnds, TgRulesInv, ProposalParses
  <2> QED  BY <2>1, <2>2, TgNoCall DEF TgIInv
<1>2. ASSUME NEW n \in TgNodes, Schedule(p, n) PROVE TgIInv'
  <2>1. /\ TgPods[p].ds \/ n \notin tgCordoned
        /\ tgAt' = [tgAt EXCEPT ![p] = n]
        /\ UNCHANGED <<tgCall, tgCordoned, tgGoing, tgBoxes, tgQdisc, tgDrained, tgProposal, tgRules>>
    BY <1>2 DEF Schedule
  <2>2. tgAt' = [q \in Pods |-> tgAt'[q]] /\ tgAt'[p] = n /\ \A q \in Pods : q # p => tgAt'[q] = tgAt[q]
    BY <2>1 DEF TgIInv, TgPodsInv
  <2>3. \A k \in tgCordoned : \A q \in On(k)' : q \in On(k) \/ TgPods[q].ds
    BY <2>1, <2>2 DEF On
  <2>4. \A d \in TgCalls : \A k : Arg(d, k)' = Arg(d, k)
    BY <2>1 DEF Arg, arg_str, Str
  <2>5. TgDrainsInv'
    BY <2>1, <2>3, <2>4 DEF TgIInv, TgPodsInv, TgDrainsInv
  <2>6. DrainedIsEmpty'
    BY <2>1, <2>3 DEF TgIInv, TgPodsInv, TgDrainsInv, DrainedIsEmpty
  <2>7. BudgetsKept'
    BY <2>1, <2>2, <2>4, TargetsAssumption DEF TgIInv, TgPodsInv, BudgetsKept
  <2>8. TgCallsInv'
    BY <2>1 DEF TgIInv, TgCallsInv, TgCallOK
  <2>9. TgBoxesInv' /\ TgRulesInv' /\ ProposalParses'
    BY <2>1 DEF TgIInv, TgBoxesInv, DelayEnds, TgRulesInv, ProposalParses
  <2> QED  BY <2>2, <2>5, <2>6, <2>7, <2>8, <2>9 DEF TgIInv, TgPodsInv
<1> QED  BY <1>1, <1>2

(* Of the services of a name that come first, one comes before the others. *)
LEMMA TgFirst ==
    ASSUME NEW T, T \subseteq Nat, T # {}
    PROVE  \E x \in T : \A y \in T : x <= y
<1>1. \E x \in T : \A y \in T : ~(<<y, x>> \in OpToRel(<, Nat))
  BY NatLessThanWellFounded, WFMin
<1>2. OpToRel(<, Nat) = {ss \in Nat \X Nat : ss[1] < ss[2]}
  BY DEF OpToRel
<1>3. \A x, y \in Nat : <<y, x>> \in OpToRel(<, Nat) <=> y < x
  BY <1>2
<1>4. PICK x \in T : \A y \in T : ~(<<y, x>> \in OpToRel(<, Nat))
  BY <1>1
<1>5. \A y \in T : x \in Nat /\ y \in Nat /\ ~(y < x)
  BY Zenon, <1>3, <1>4
<1> QED  BY <1>5

LEMMA TgProposed ==
    ASSUME NEW found, NEW n \in Nat, DOMAIN found = 1..n, tgProposal' = proposed_topology_toml(found)
    PROVE  ProposalParses'
<1>1. /\ DOMAIN tgProposal' = 1..n
      /\ \A i \in 1..n : /\ tgProposal'[i].name = found[i].name
                         /\ tgProposal'[i].active <=> \A j \in 1..(i - 1) : found[j].name # found[i].name
  BY DEF proposed_topology_toml
<1> SUFFICES ASSUME NEW i \in 1..n, NEW j \in 1..n
             PROVE  /\ tgProposal'[i].active /\ tgProposal'[j].active
                          /\ tgProposal'[i].name = tgProposal'[j].name => i = j
                    /\ i < j => tgProposal'[i].active \/ \E k \in 1..i :
                          tgProposal'[k].active /\ tgProposal'[k].name = tgProposal'[i].name
  BY <1>1 DEF ProposalParses
<1>2. ASSUME tgProposal'[i].active, tgProposal'[j].active, tgProposal'[i].name = tgProposal'[j].name
      PROVE  i = j
  <2>1. ~(j \in 1..(i - 1)) /\ ~(i \in 1..(j - 1))
    BY <1>1, <1>2
  <2> QED  BY <2>1
<1>3. \E k \in 1..i : tgProposal'[k].active /\ tgProposal'[k].name = tgProposal'[i].name
  <2> DEFINE T == {k \in 1..i : found[k].name = found[i].name}
  <2>1. T \subseteq Nat /\ i \in T
    OBVIOUS
  <2>2. PICK k \in T : \A y \in T : k <= y
    BY <2>1, TgFirst
  <2>3. \A l \in 1..(k - 1) : found[l].name # found[k].name
    BY <2>2
  <2>4. k \in 1..i /\ k \in 1..n /\ found[k].name = found[i].name
    BY <2>2
  <2>5. tgProposal'[k].active
    BY <1>1, <2>3, <2>4
  <2>6. tgProposal'[k].name = tgProposal'[i].name
    BY <1>1, <2>4
  <2> QED  BY <2>4, <2>5, <2>6
<1> QED  BY <1>2, <1>3

(* Every service is found once, in one order, so the proposal can be read. *)
LEMMA TgDiscoverStep ==
    ASSUME TgIInv, NEW namespaces, Discover(namespaces)
    PROVE  TgIInv'
<1>1. UNCHANGED <<tgCall, tgCordoned, tgAt, tgGoing, tgBoxes, tgQdisc, tgDrained, tgRules>>
  BY DEF Discover
<1>2. \E n \in Nat : DOMAIN discover_services(namespaces) = 1..n
  <2> DEFINE listed == {s \in Range(TgServices) : IF namespaces = <<>> THEN s.ns # "kube-system"
                                                                 ELSE s.ns \in Range(namespaces)}
             kept == {s \in listed : ~(s.ns = "default" /\ s.name = "kubernetes")}
  <2>1. IsFiniteSet(Range(TgServices))
    <3>1. Len(TgServices) \in Nat /\ DOMAIN TgServices = 1..Len(TgServices)
      BY TargetsAssumption
    <3>2. IsFiniteSet(DOMAIN TgServices)
      BY <3>1, FS_Interval
    <3>3. TgServices \in Surjection(DOMAIN TgServices, Range(TgServices))
      BY TargetsAssumption DEF Surjection, Range
    <3> QED  BY <3>2, <3>3, FS_Surjection
  <2>2. kept \subseteq Range(TgServices)
    OBVIOUS
  <2>3. Cardinality(kept) \in Nat
    <3> HIDE DEF kept
    <3> QED  BY <2>1, <2>2, FS_Subset, FS_CardinalityType
  <2>4. DOMAIN discover_services(namespaces) = 1..Cardinality(kept)
    BY DEF discover_services
  <2> QED  BY <2>3, <2>4
<1>3. ProposalParses'
  BY <1>2, TgProposed DEF Discover
<1>4. TgBoxesInv' /\ TgRulesInv'
  BY <1>1 DEF TgIInv, TgBoxesInv, DelayEnds, TgRulesInv
<1> QED  BY <1>1, <1>3, <1>4, TgNoCall DEF TgIInv

(* Every step of the drivers and of what they act on. *)
LEMMA TgStep ==
    ASSUME TgIInv, NEW requests, NEW lists, [TargetsNext(requests, lists)]_tgVars
    PROVE  TgIInv'
<1>1. CASE \E c \in TgCalls : \E r \in requests[c] :
              (\A d \in TgCalls : d < c => tgCall[d].pc # "idle") /\ dispatch(c, r)
  BY <1>1, TgDispatchStep
<1>2. ASSUME NEW c \in TgCalls,
          \/ RequestFails(c) \/ delete_pod(c) \/ scale_deployment(c) \/ cordon_node(c) \/ uncordon_node(c)
          \/ drain_node(c) \/ apply_network_policy(c) \/ delete_network_policy(c)
          \/ resolve_target_pod(c) \/ inject(c) \/ Probe(c)
          \/ FisClient(c) \/ Ec2Client(c) \/ ChaosClient(c) \/ ComputeClient(c)
          \/ network_blackhole(c) \/ cpu_stress(c) \/ process_kill(c)
          \/ \E t \in {r.match : r \in tgRules} : network_blackhole_rollback(c, t)
      PROVE  TgIInv'
  <2>1. CASE \/ RequestFails(c) \/ scale_deployment(c) \/ cordon_node(c) \/ apply_network_policy(c)
             \/ delete_network_policy(c) \/ Probe(c) \/ process_kill(c)
    BY <2>1, TgRequestStep
  <2>2. CASE delete_pod(c)
    BY <2>2, TgDeleteStep
  <2>3. CASE uncordon_node(c)
    BY <2>3, TgUncordonStep
  <2>4. CASE drain_node(c)
    BY <2>4, TgDrainStep, TgDrainEndStep, TgEvictStep DEF drain_node
  <2>5. CASE resolve_target_pod(c)
    BY <2>5, TgResolveStep
  <2>6. CASE inject(c)
    BY <2>6, TgInjectStep
  <2>7. CASE FisClient(c) \/ Ec2Client(c) \/ ChaosClient(c) \/ ComputeClient(c)
    <3>1. \E fn, thing, state : CloudStep(c, fn, thing, state) /\ fn # "network_blackhole_rollback"
      <4>1. CASE FisClient(c)
        BY <4>1 DEF FisClient
      <4>2. CASE Ec2Client(c)
        BY <4>2 DEF Ec2Client
      <4>3. CASE ChaosClient(c)
        BY <4>3 DEF ChaosClient
      <4>4. CASE ComputeClient(c)
        BY <4>4 DEF ComputeClient
      <4> QED  BY <2>7, <4>1, <4>2, <4>3, <4>4
    <3> QED  BY <3>1, TgCloudStep
  <2>8. CASE network_blackhole(c)
    BY <2>8, TgBlockStep
  <2>9. CASE cpu_stress(c)
    BY <2>9, TgBusyStep
  <2>10. CASE \E t \in {r.match : r \in tgRules} : network_blackhole_rollback(c, t)
    BY <2>10, TgUnblockStep
  <2> QED  BY <1>2, <2>1, <2>2, <2>3, <2>4, <2>5, <2>6, <2>7, <2>8, <2>9, <2>10
<1>3. ASSUME NEW b \in tgBoxes, box_script(b) \/ stress_ends(b) PROVE TgIInv'
  BY <1>3, TgBoxStep
<1>4. ASSUME NEW ns \in lists, Discover(ns) PROVE TgIInv'
  BY <1>4, TgDiscoverStep
<1>5. ASSUME NEW p \in Pods, BecomesReady(p) \/ Terminates(p) \/ \E n \in TgNodes : Schedule(p, n) PROVE TgIInv'
  BY <1>5, TgScheduleStep, TgTerminatesStep
<1>6. CASE UNCHANGED tgVars
  <2>1. UNCHANGED <<tgCall, tgCordoned, tgAt, tgGoing, tgBoxes, tgQdisc, tgDrained, tgProposal, tgRules>>
    BY <1>6 DEF tgVars
  <2>2. TgBoxesInv' /\ TgRulesInv' /\ ProposalParses'
    BY <2>1 DEF TgIInv, TgBoxesInv, DelayEnds, TgRulesInv, ProposalParses
  <2> QED  BY <2>1, <2>2, TgNoCall DEF TgIInv
<1> QED  BY <1>1, <1>2, <1>3, <1>4, <1>5, <1>6 DEF TargetsNext

LEMMA TgHolds == TgIInv => TargetsSound
BY DEF TgIInv, TgCallsInv, TgCallOK, TgPodsInv, TgBoxesInv, TargetsSound, ResultsTrue, RollbackExact

-----------------------------------------------------------------------------
(* Controls: every handler is told everything, and what was begun is ended.  *)

CtTypes ==
    /\ ctSent \in Seq(Range(ctSent))
    /\ DOMAIN ctSeen = Handlers /\ \A h \in Handlers : ctSeen[h] = ctSent
    /\ DOMAIN ctRuns = DOMAIN SpActivities

(* Outside of the method no activity is under way. *)
CtPhases ==
    /\ ctPc # "method" => \A k \in DOMAIN SpActivities : ctRuns[k] # "began"
    /\ ctPc = "returned" => ctSent # <<>> /\ ctSent[Len(ctSent)][1] = "after_experiment"

(* An activity that was announced is under way or its end was announced, and
   after the method the end of the method came later still. *)
CtEnded(i) ==
    \E j \in DOMAIN ctSent :
        /\ i < j /\ ctSent[j] = Event("after_activity", ctSent[i][2])
        /\ ctPc = "method" \/ \E l \in DOMAIN ctSent : j < l /\ ctSent[l][1] = "after_method"
CtActivities ==
    \A i \in DOMAIN ctSent : ctSent[i][1] = "before_activity" =>
        \/ ctPc = "method" /\ ctSent[i][2] \in DOMAIN SpActivities /\ ctRuns[ctSent[i][2]] = "began"
        \/ CtEnded(i)

CtIInv == CtTypes /\ CtPhases /\ CtActivities

LEMMA CtStart == ControlInit => CtIInv
<1> SUFFICES ASSUME ControlInit PROVE CtIInv  OBVIOUS
<1>1. ctPc = "start" /\ ctSent = <<>> /\ ctRuns = [i \in DOMAIN SpActivities |-> "no"]
      /\ ctSeen = [h \in Handlers |-> <<>>]
  BY DEF ControlInit
<1>2. CtTypes
  BY <1>1 DEF CtTypes, Range
<1>3. CtPhases /\ CtActivities
  BY <1>1 DEF CtPhases, CtActivities
<1> QED  BY <1>2, <1>3 DEF CtIInv

(* What one more event does to the list of them. *)
LEMMA CtAppended ==
    ASSUME NEW s, s \in Seq(Range(s)), NEW e, NEW t, t = Append(s, e)
    PROVE  /\ t \in Seq(Range(t)) /\ Len(t) = Len(s) + 1 /\ Len(s) \in Nat
           /\ DOMAIN t = 1 .. Len(t) /\ DOMAIN s = 1 .. Len(s)
           /\ t[Len(t)] = e /\ \A i \in DOMAIN s : i \in DOMAIN t /\ t[i] = s[i]
<1>1. /\ Len(t) = Len(s) + 1 /\ Len(s) \in Nat /\ DOMAIN t = 1 .. Len(t) /\ DOMAIN s = 1 .. Len(s)
      /\ t[Len(t)] = e /\ \A i \in DOMAIN s : t[i] = s[i]
  OBVIOUS
<1>2. t \in Seq(Range(s) \cup {e})
  OBVIOUS
<1>3. Range(s) \cup {e} = Range(t)
  BY <1>1 DEF Range
<1> QED  BY <1>1, <1>2, <1>3

(* Every handler is given the event, whichever of them dies. *)
LEMMA CtEmit ==
    ASSUME CtTypes, NEW event, NEW dies, emit(event, dies), DOMAIN ctRuns' = DOMAIN ctRuns
    PROVE  CtTypes'
<1>1. ctSent' = Append(ctSent, event) /\ ctSeen' = [h \in Handlers |-> Append(ctSeen[h], event)]
  BY DEF emit
<1>2. ctSent' \in Seq(Range(ctSent'))
  BY <1>1, CtAppended DEF CtTypes
<1> QED  BY <1>1, <1>2 DEF CtTypes

(* One more event leaves what earlier ones were followed by. *)
LEMMA CtLater ==
    ASSUME CtTypes, NEW event, ctSent' = Append(ctSent, event), NEW i \in DOMAIN ctSent, CtEnded(i),
           ctPc = "method" => ctPc' = "method" \/ event[1] = "after_method"
    PROVE  CtEnded(i)'
<1>1. ctSent \in Seq(Range(ctSent))
  BY DEF CtTypes
<1>2. /\ Len(ctSent') = Len(ctSent) + 1 /\ Len(ctSent) \in Nat
      /\ DOMAIN ctSent' = 1 .. Len(ctSent') /\ DOMAIN ctSent = 1 .. Len(ctSent)
      /\ ctSent'[Len(ctSent')] = event /\ \A k \in DOMAIN ctSent : k \in DOMAIN ctSent' /\ ctSent'[k] = ctSent[k]
  BY <1>1, CtAppended
<1>3. PICK j \in DOMAIN ctSent :
         /\ i < j /\ ctSent[j] = Event("after_activity", ctSent[i][2])
         /\ ctPc = "method" \/ \E l \in DOMAIN ctSent : j < l /\ ctSent[l][1] = "after_method"
  BY DEF CtEnded
<1>4. j \in DOMAIN ctSent' /\ i < j /\ ctSent'[j] = Event("after_activity", ctSent'[i][2])
  BY <1>2, <1>3
<1>5. ctPc' = "method" \/ \E l \in DOMAIN ctSent' : j < l /\ ctSent'[l][1] = "after_method"
  <2>1. CASE ctPc = "method"
    <3>1. CASE event[1] = "after_method"
      <4>1. Len(ctSent') \in DOMAIN ctSent' /\ j < Len(ctSent')
        BY <1>2
      <4> QED  BY <3>1, <4>1, <1>2
    <3> QED  BY <2>1, <3>1
  <2>2. ASSUME NEW l \in DOMAIN ctSent, j < l, ctSent[l][1] = "after_method"
        PROVE  \E m \in DOMAIN ctSent' : j < m /\ ctSent'[m][1] = "after_method"
    BY <2>2, <1>2
  <2> QED  BY <1>3, <2>1, <2>2
<1> QED  BY <1>4, <1>5 DEF CtEnded

(* A pair of events brackets a phase; the method ends when nothing runs. *)
LEMMA CtBracketStep ==
    ASSUME CtIInv, NEW from, NEW name, NEW to, Bracket(from, name, to),
           name # "before_activity", from # "returned",
           to = "returned" => name = "after_experiment",
           from = "method" => name = "after_method" /\ "began" \notin Range(ctRuns)
    PROVE  CtIInv'
<1>1. PICK dies : emit(Event(name, 0), dies)
  BY DEF Bracket
<1>2. ctPc = from /\ ctPc' = to /\ ctRuns' = ctRuns /\ ctSent' = Append(ctSent, Event(name, 0))
  BY <1>1 DEF Bracket, emit
<1>3. CtTypes'
  BY <1>1, <1>2, CtEmit DEF CtIInv
<1>4. ctSent \in Seq(Range(ctSent)) /\ DOMAIN ctRuns = DOMAIN SpActivities
  BY DEF CtIInv, CtTypes
<1>5. /\ Len(ctSent') = Len(ctSent) + 1 /\ Len(ctSent) \in Nat
      /\ DOMAIN ctSent' = 1 .. Len(ctSent') /\ DOMAIN ctSent = 1 .. Len(ctSent)
      /\ ctSent'[Len(ctSent')] = Event(name, 0) /\ \A k \in DOMAIN ctSent : k \in DOMAIN ctSent' /\ ctSent'[k] = ctSent[k]
  BY <1>2, <1>4, CtAppended
<1>6. \A k \in DOMAIN SpActivities : ctRuns[k] # "began"
  BY <1>2, <1>4 DEF CtIInv, CtPhases, Range
<1>7. Event(name, 0)[1] = name
  BY DEF Event
<1>8. CtPhases'
  <2>1. ctSent' # <<>>
    BY <1>5
  <2> QED  BY <1>2, <1>5, <1>6, <1>7, <2>1 DEF CtPhases
<1>9. CtActivities'
  <2> SUFFICES ASSUME NEW i \in DOMAIN ctSent', ctSent'[i][1] = "before_activity" PROVE CtEnded(i)'
    BY DEF CtActivities
  <2>1. i # Len(ctSent')
    BY <1>5, <1>7
  <2>2. i \in DOMAIN ctSent /\ ctSent[i][1] = "before_activity"
    BY <2>1, <1>5
  <2>3. CtEnded(i)
    BY <2>2, <1>6 DEF CtIInv, CtActivities
  <2> QED  BY <2>2, <2>3, <1>2, <1>7, CtLater DEF CtIInv
<1> QED  BY <1>3, <1>8, <1>9 DEF CtIInv

(* An activity is announced as it begins. *)
LEMMA CtBeginStep == CtIInv /\ activity_begins => CtIInv'
<1> SUFFICES ASSUME CtIInv, activity_begins PROVE CtIInv'  OBVIOUS
<1>1. PICK dies : emit(Event("before_activity", ctNext), dies)
  BY DEF activity_begins
<1>2. /\ ctPc = "method" /\ ctPc' = ctPc /\ ctNext \in DOMAIN SpActivities
      /\ ctRuns' = [ctRuns EXCEPT ![ctNext] = "began"]
      /\ ctSent' = Append(ctSent, Event("before_activity", ctNext))
  BY <1>1 DEF activity_begins, emit
<1>3. DOMAIN ctRuns = DOMAIN SpActivities /\ ctSent \in Seq(Range(ctSent)) /\ DOMAIN ctRuns' = DOMAIN ctRuns
  BY <1>2 DEF CtIInv, CtTypes
<1>4. CtTypes'
  BY <1>1, <1>3, CtEmit DEF CtIInv
<1>5. CtPhases'
  BY <1>2 DEF CtPhases
<1>6. /\ Len(ctSent') = Len(ctSent) + 1 /\ Len(ctSent) \in Nat
      /\ DOMAIN ctSent' = 1 .. Len(ctSent') /\ DOMAIN ctSent = 1 .. Len(ctSent)
      /\ ctSent'[Len(ctSent')] = Event("before_activity", ctNext)
      /\ \A k \in DOMAIN ctSent : k \in DOMAIN ctSent' /\ ctSent'[k] = ctSent[k]
  BY <1>2, <1>3, CtAppended
<1>7. CtActivities'
  <2> SUFFICES ASSUME NEW i \in DOMAIN ctSent', ctSent'[i][1] = "before_activity"
               PROVE  \/ ctSent'[i][2] \in DOMAIN SpActivities /\ ctRuns'[ctSent'[i][2]] = "began"
                      \/ CtEnded(i)'
    BY <1>2 DEF CtActivities
  <2>1. CASE i = Len(ctSent')
    <3>1. ctSent'[i][2] = ctNext
      BY <2>1, <1>6 DEF Event
    <3> QED  BY <3>1, <1>2, <1>3
  <2>2. CASE i # Len(ctSent')
    <3>1. i \in DOMAIN ctSent /\ ctSent'[i] = ctSent[i]
      BY <2>2, <1>6
    <3>2. CASE ctSent[i][2] \in DOMAIN SpActivities /\ ctRuns[ctSent[i][2]] = "began"
      BY <3>1, <3>2, <1>2, <1>3
    <3>3. CASE CtEnded(i)
      BY <3>1, <3>3, <1>2, CtLater DEF CtIInv
    <3> QED  BY <3>1, <3>2, <3>3 DEF CtIInv, CtActivities
  <2> QED  BY <2>1, <2>2
<1> QED  BY <1>4, <1>5, <1>7 DEF CtIInv

(* It is announced as it ends, inside of its method. *)
LEMMA CtEndStep ==
    ASSUME CtIInv, NEW a \in DOMAIN SpActivities, activity_ends(a) PROVE CtIInv'
<1>1. PICK dies : emit(Event("after_activity", a), dies)
  BY DEF activity_ends
<1>2. /\ ctRuns[a] = "began" /\ ctPc' = ctPc /\ ctRuns' = [ctRuns EXCEPT ![a] = "over"]
      /\ ctSent' = Append(ctSent, Event("after_activity", a))
  BY <1>1 DEF activity_ends, emit
<1>3. ctPc = "method"
  BY <1>2 DEF CtIInv, CtPhases
<1>4. DOMAIN ctRuns = DOMAIN SpActivities /\ ctSent \in Seq(Range(ctSent)) /\ DOMAIN ctRuns' = DOMAIN ctRuns
  BY <1>2 DEF CtIInv, CtTypes
<1>5. CtTypes'
  BY <1>1, <1>4, CtEmit DEF CtIInv
<1>6. CtPhases'
  BY <1>2, <1>3 DEF CtPhases
<1>7. /\ Len(ctSent') = Len(ctSent) + 1 /\ Len(ctSent) \in Nat
      /\ DOMAIN ctSent' = 1 .. Len(ctSent') /\ DOMAIN ctSent = 1 .. Len(ctSent)
      /\ ctSent'[Len(ctSent')] = Event("after_activity", a)
      /\ \A k \in DOMAIN ctSent : k \in DOMAIN ctSent' /\ ctSent'[k] = ctSent[k]
  BY <1>2, <1>4, CtAppended
<1>8. CtActivities'
  <2> SUFFICES ASSUME NEW i \in DOMAIN ctSent', ctSent'[i][1] = "before_activity"
               PROVE  \/ ctSent'[i][2] \in DOMAIN SpActivities /\ ctRuns'[ctSent'[i][2]] = "began"
                      \/ CtEnded(i)'
    BY <1>2, <1>3 DEF CtActivities
  <2>1. i # Len(ctSent')
    BY <1>7 DEF Event
  <2>2. i \in DOMAIN ctSent /\ ctSent'[i] = ctSent[i]
    BY <2>1, <1>7
  <2>3. CASE ctSent[i][2] \in DOMAIN SpActivities /\ ctRuns[ctSent[i][2]] = "began"
    <3>1. CASE ctSent[i][2] = a
      <4>1. Len(ctSent') \in DOMAIN ctSent' /\ i < Len(ctSent')
        BY <1>7, <2>2
      <4>2. ctSent'[Len(ctSent')] = Event("after_activity", ctSent'[i][2])
        BY <1>7, <2>2, <3>1
      <4> QED  BY <4>1, <4>2, <1>2, <1>3 DEF CtEnded
    <3>2. CASE ctSent[i][2] # a
      BY <2>2, <2>3, <3>2, <1>2, <1>4
    <3> QED  BY <3>1, <3>2
  <2>4. CASE CtEnded(i)
    BY <2>2, <2>4, <1>2, CtLater DEF CtIInv
  <2> QED  BY <2>2, <2>3, <2>4 DEF CtIInv, CtActivities
<1> QED  BY <1>5, <1>6, <1>8 DEF CtIInv

(* Every step of the runner that the controls are told of. *)
LEMMA CtStep == CtIInv /\ [ControlNext]_ctVars => CtIInv'
<1> SUFFICES ASSUME CtIInv, [ControlNext]_ctVars PROVE CtIInv'  OBVIOUS
<1>1. CASE HypothesisControls
  BY <1>1, CtBracketStep DEF HypothesisControls
<1>2. CASE activity_begins
  BY <1>2, CtBeginStep
<1>3. ASSUME NEW a \in DOMAIN SpActivities, activity_ends(a) PROVE CtIInv'
  BY <1>3, CtEndStep
<1>4. CASE "began" \notin Range(ctRuns) /\ Bracket("method", "after_method", "measured")
  BY <1>4, CtBracketStep
<1>5. CASE CleanupControls
  BY <1>5, CtBracketStep DEF CleanupControls
<1>6. CASE UNCHANGED ctVars
  <2>1. ctPc' = ctPc /\ ctRuns' = ctRuns /\ ctSeen' = ctSeen /\ ctSent' = ctSent
    BY <1>6 DEF ctVars
  <2> QED  BY <2>1 DEF CtIInv, CtTypes, CtPhases, CtActivities, CtEnded
<1> QED  BY <1>1, <1>2, <1>3, <1>4, <1>5, <1>6 DEF ControlNext, MethodControls

LEMMA CtHolds == CtIInv => ControlsToldAll
<1> SUFFICES ASSUME CtIInv PROVE ControlsToldAll  OBVIOUS
<1>1. \A h \in Handlers : ctSeen[h] = ctSent
  BY DEF CtIInv, CtTypes
<1>2. Len(ctSent) \in Nat /\ DOMAIN ctSent = 1 .. Len(ctSent)
  <2>1. ctSent \in Seq(Range(ctSent))
    BY DEF CtIInv, CtTypes
  <2> QED  BY <2>1
<1>3. ASSUME ctPc = "returned", NEW i \in DOMAIN ctSent
      PROVE  /\ ctSent[i][1] \in Opening => \E j \in (i + 1) .. Len(ctSent) :
                   ctSent[j][1] \in {"after_experiment", "after_hypothesis", "after_method", "after_rollback"}
             /\ ctSent[i][1] = "before_activity" => \E j \in (i + 1) .. Len(ctSent) :
                   /\ ctSent[j] = Event("after_activity", ctSent[i][2])
                   /\ \E k \in (j + 1) .. Len(ctSent) : ctSent[k][1] = "after_method"
  <2>1. ctSent[Len(ctSent)][1] = "after_experiment"
    BY <1>3 DEF CtIInv, CtPhases
  <2>2. ASSUME ctSent[i][1] \in Opening PROVE Len(ctSent) \in (i + 1) .. Len(ctSent)
    <3>1. i # Len(ctSent)
      BY <2>1, <2>2 DEF Opening
    <3> QED  BY <3>1, <1>2
  <2>3. ASSUME ctSent[i][1] = "before_activity"
        PROVE  \E j \in (i + 1) .. Len(ctSent) :
                   /\ ctSent[j] = Event("after_activity", ctSent[i][2])
                   /\ \E k \in (j + 1) .. Len(ctSent) : ctSent[k][1] = "after_method"
    <3>1. CtEnded(i)
      BY <1>3, <2>3 DEF CtIInv, CtActivities
    <3>2. PICK j \in DOMAIN ctSent : /\ i < j /\ ctSent[j] = Event("after_activity", ctSent[i][2])
                                     /\ \E l \in DOMAIN ctSent : j < l /\ ctSent[l][1] = "after_method"
      BY <1>3, <3>1 DEF CtEnded
    <3>3. PICK l \in DOMAIN ctSent : j < l /\ ctSent[l][1] = "after_method"
      BY <3>2
    <3>4. j \in (i + 1) .. Len(ctSent) /\ l \in (j + 1) .. Len(ctSent)
      BY <1>2, <3>2, <3>3
    <3> QED  BY <3>2, <3>3, <3>4
  <2> QED  BY <2>1, <2>2, <2>3
<1> QED  BY <1>1, <1>3 DEF ControlsToldAll

-----------------------------------------------------------------------------
(* Authoring: the catalog, the documents made from it, and their runs.       *)

AuTypes ==
    /\ DOMAIN auDirs = AuPaths /\ \A i \in AuPaths : auDirs[i] \in Seq(Range(auDirs[i]))
    /\ auVersion \in Nat

(* Some root of a plugin precedes every other one of that name. *)
LEMMA AuLeast ==
    ASSUME AuTypes, NEW of, of \subseteq Found, of # {}
    PROVE  \E r \in of : \A s \in of \ {r} : FoundBefore(r, s)
<1>1. \A r \in of : /\ r[1] \in Nat /\ r[2] \in Nat /\ r = <<r[1], r[2]>>
  <2> SUFFICES ASSUME NEW r \in of PROVE r[1] \in Nat /\ r[2] \in Nat /\ r = <<r[1], r[2]>>
    OBVIOUS
  <2>1. r \in PluginRoots
    BY DEF Found, discover_plugins_in_dir
  <2>2. PICK i \in AuPaths : \E j \in DOMAIN auDirs[i] : r = <<i, j>>
    BY <2>1 DEF PluginRoots
  <2>3. PICK j \in DOMAIN auDirs[i] : r = <<i, j>>
    BY <2>2
  <2>4. i \in Nat
    BY AuAssumption
  <2>5. auDirs[i] \in Seq(Range(auDirs[i]))
    BY DEF AuTypes
  <2>6. j \in Nat
    BY <2>5
  <2> QED  BY <2>3, <2>4, <2>6
<1> DEFINE paths == {r[1] : r \in of}
<1>2. paths \subseteq Nat /\ paths # {}
  BY <1>1
<1>3. PICK p \in paths : \A q \in paths : p <= q
  <2> HIDE DEF paths
  <2> QED  BY <1>2, TgFirst
<1> DEFINE entries == {r[2] : r \in {x \in of : x[1] = p}}
<1>4. entries \subseteq Nat /\ entries # {}
  BY <1>1, <1>3
<1>5. PICK e \in entries : \A q \in entries : e <= q
  <2> HIDE DEF entries
  <2> QED  BY <1>4, TgFirst
<1>6. PICK r \in of : r[1] = p /\ r[2] = e
  BY <1>5
<1>7. ASSUME NEW s \in of \ {r} PROVE FoundBefore(r, s)
  <2>1. p <= s[1] /\ (s[1] = p => e <= s[2])
    BY <1>3, <1>5
  <2>2. s[1] # p \/ s[2] # e
    BY <1>1, <1>6
  <2> QED  BY <2>1, <2>2, <1>1, <1>6 DEF FoundBefore
<1> QED  BY <1>6, <1>7

(* Discovery finds a plugin exactly when there is one of that name. *)
LEMMA AuDiscovered ==
    ASSUME AuTypes, NEW name
    PROVE  /\ name \in PluginNames <=> discover_report_with_config(name) # NoRoot
           /\ name \in PluginNames => discover_report_with_config(name) \in Found
<1> DEFINE of == {r \in Found : Entry(r).name = name}
<1>1. name \in PluginNames <=> of # {}
  BY DEF PluginNames
<1>2. of # {} => \E r \in of : \A s \in of \ {r} : FoundBefore(r, s)
  <2>1. of \subseteq Found
    OBVIOUS
  <2> HIDE DEF of
  <2> QED  BY <2>1, AuLeast
<1>3. discover_report_with_config(name) =
          IF of = {} THEN NoRoot ELSE CHOOSE r \in of : \A s \in of \ {r} : FoundBefore(r, s)
  BY DEF discover_report_with_config
<1>4. of # {} => discover_report_with_config(name) \in of
  <2> HIDE DEF of
  <2> QED  BY <1>2, <1>3
<1>5. \A r \in Found : r # NoRoot
  <2> SUFFICES ASSUME NEW r \in Found PROVE r # NoRoot  OBVIOUS
  <2>1. PICK i \in AuPaths : \E j \in DOMAIN auDirs[i] : r = <<i, j>>
    BY DEF Found, discover_plugins_in_dir, PluginRoots
  <2>2. i # 0
    BY AuAssumption
  <2> QED  BY <2>1, <2>2 DEF NoRoot
<1> QED  BY <1>1, <1>3, <1>4, <1>5

(* The fields of an outcome. *)
LEMMA AuOutcome ==
    \A a, why, root, kind, env, o : o = Outcome(a, why, root, kind, env) =>
        /\ o.act = a /\ o.version = auVersion /\ o.why = why
        /\ o.root = root /\ o.kind = kind /\ o.env = env
BY DEF Outcome

(* What is listed is what is executed. *)
LEMMA AuListed == AuTypes => DiscoveryAgrees
<1> SUFFICES ASSUME AuTypes, NEW n, NEW f
             PROVE  <<n, f>> \in render_discover <=>
                      \/ execute_script_provider(Activity("method", "script", n, f, {})).kind = "action"
                      \/ execute_native(Activity("method", "native", n, f, {})).why = "-"
  BY DEF DiscoveryAgrees
<1>1. <<n, f>> \in render_discover <=>
          \/ n \in PluginNames /\ f \in Manifest(n).actions
          \/ n \in DOMAIN AuNative /\ f \in AuNative[n]
  BY DEF render_discover, list_all_actions
<1>2. execute_native(Activity("method", "native", n, f, {})).why = "-" <=> n \in DOMAIN AuNative /\ f \in AuNative[n]
  BY DEF execute_native, Activity, Outcome
<1>3. execute_script_provider(Activity("method", "script", n, f, {})).kind = "action"
          <=> n \in PluginNames /\ f \in Manifest(n).actions
  <2> DEFINE a == Activity("method", "script", n, f, {})
             root == discover_report_with_config(n)
  <2>1. a.plugin = n /\ a.fn = f
    BY DEF Activity
  <2>2. n \in PluginNames <=> root # NoRoot
    BY AuDiscovered
  <2>3. Manifest(n) = Entry(root)
    BY DEF Manifest
  <2> SUFFICES execute_script_provider(a).kind = "action" <=> n \in PluginNames /\ f \in Manifest(n).actions
    OBVIOUS
  <2> HIDE DEF a, root
  <2>4. discover_report_with_config(a.plugin) = root
    BY <2>1 DEF root
  <2>5. CASE root = NoRoot
    <3>0. PICK why : why = "unknown plugin"  OBVIOUS
    <3>1. execute_script_provider(a) = Outcome(a, why, root, "-", NoEnv)
      BY <2>4, <2>5, <3>0 DEF execute_script_provider
    <3> HIDE DEF root
    <3>2. execute_script_provider(a).kind = "-"
      BY <3>1, AuOutcome
    <3> QED  BY <3>2, <2>2, <2>5, Zenon
  <2>6. CASE root # NoRoot /\ f \in Entry(root).actions
    <3>1. execute_script_provider(a) =
              Outcome(a, "-", root, "action", build_env_vars(merged_script_arguments(a.args)))
      BY <2>1, <2>4, <2>6 DEF execute_script_provider
    <3> HIDE DEF root
    <3>2. execute_script_provider(a).kind = "action"
      BY <3>1, AuOutcome
    <3> QED  BY <3>2, <2>2, <2>3, <2>6, Zenon
  <2>7. CASE root # NoRoot /\ f \notin Entry(root).actions
    <3>1. execute_script_provider(a).kind # "action"
      <4>1. CASE f \in Entry(root).probes
        <5>1. execute_script_provider(a) =
                  Outcome(a, "-", root, "probe", build_env_vars(merged_script_arguments(a.args)))
          BY <2>1, <2>4, <2>7, <4>1 DEF execute_script_provider
        <5> QED  BY <5>1, AuOutcome
      <4>2. CASE f \notin Entry(root).probes
        <5>0. PICK why : why = "unknown action"  OBVIOUS
        <5>1. execute_script_provider(a) = Outcome(a, why, root, "-", NoEnv)
          BY <2>1, <2>4, <2>7, <4>2, <5>0 DEF execute_script_provider
        <5> QED  BY <5>1, AuOutcome
      <4> QED  BY <4>1, <4>2
    <3> QED  BY <3>1, <2>3, <2>7, Zenon
  <2> QED  BY <2>5, <2>6, <2>7, Zenon
<1> QED  BY <1>1, <1>2, <1>3

(* Arguments that no two of them share a name of reach the script. *)
LEMMA AuArguments ==
    ASSUME NEW args, IsFiniteSet(args), NEW env, env = build_env_vars(merged_script_arguments(args)), env.ok
    PROVE  /\ \A a \in args : env.env[a.base] = "declared"
           /\ AuInjected \subseteq DOMAIN env.env
           /\ Cardinality(DOMAIN env.env) = Cardinality(args \cup {[base |-> b, upper |-> FALSE] : b \in AuInjected})
<1> DEFINE low == {[base |-> b, upper |-> FALSE] : b \in AuInjected}
           all == args \cup low
           merged == merged_script_arguments(args)
<1>1. merged = [a \in all |-> IF a \in args THEN "declared" ELSE "injected"]
  BY DEF merged_script_arguments
<1>2. DOMAIN merged = all
  BY <1>1
<1>3. /\ \A a, b \in all : a.base = b.base => a = b
      /\ env.env = [b \in {a.base : a \in all} |-> merged[CHOOSE a \in all : a.base = b]]
  <2> HIDE DEF merged, all
  <2>1. CASE \E a, b \in all : a # b /\ a.base = b.base
    BY <2>1, <1>2 DEF build_env_vars, merged
  <2>2. CASE ~\E a, b \in all : a # b /\ a.base = b.base
    BY <2>2, <1>2 DEF build_env_vars, merged
  <2> QED  BY <2>1, <2>2
<1>4. IsFiniteSet(all)
  <2>1. IsFiniteSet(low)
    <3> DEFINE F == [b \in AuInjected |-> [base |-> b, upper |-> FALSE]]
    <3>1. F \in Surjection(AuInjected, low)
      BY DEF Surjection
    <3> HIDE DEF low, F
    <3> QED  BY <3>1, FS_Surjection, AuAssumption
  <2> QED  BY <2>1, FS_Union
<1>5. Cardinality({a.base : a \in all}) = Cardinality(all)
  <2> DEFINE bases == {a.base : a \in all}
             F == [a \in all |-> a.base]
  <2>1. F \in Bijection(all, bases)
    <3> HIDE DEF all
    <3>1. F \in Surjection(all, bases)
      BY DEF Surjection
    <3>2. F \in Injection(all, bases)
      BY <1>3 DEF Injection, IsInjective
    <3> QED  BY <3>1, <3>2 DEF Bijection
  <2> HIDE DEF bases, F, all
  <2>2. ExistsBijection(all, bases)
    BY <2>1 DEF ExistsBijection
  <2>3. Cardinality(all) = Cardinality(bases)
    BY <2>2, <1>4, FS_Bijection
  <2> QED  BY <2>3 DEF bases
<1>6. ASSUME NEW a \in args PROVE env.env[a.base] = "declared"
  <2>1. a \in all
    OBVIOUS
  <2>2. (CHOOSE x \in all : x.base = a.base) = a
    <3> HIDE DEF all
    <3> QED  BY <2>1, <1>3
  <2>3. env.env[a.base] = merged[a]
    <3> HIDE DEF all, merged
    <3> QED  BY <2>1, <2>2, <1>3
  <2> QED  BY <2>1, <2>3, <1>1
<1>7. AuInjected \subseteq DOMAIN env.env
  <2> SUFFICES ASSUME NEW b \in AuInjected PROVE b \in DOMAIN env.env  OBVIOUS
  <2>1. [base |-> b, upper |-> FALSE] \in all
    OBVIOUS
  <2>2. [base |-> b, upper |-> FALSE].base = b
    OBVIOUS
  <2> HIDE DEF all, merged
  <2> QED  BY <2>1, <2>2, <1>3
<1>8. DOMAIN env.env = {a.base : a \in all}
  <2> HIDE DEF all, merged
  <2> QED  BY <1>3
<1> QED  BY <1>5, <1>6, <1>7, <1>8

(* What becomes of one activity. *)
AuScriptGets(o) ==
    o.kind \in {"action", "probe"} /\ o.env.ok =>
        /\ \A a \in o.act.args : o.env.env[a.base] = "declared"
        /\ AuInjected \subseteq DOMAIN o.env.env
        /\ Cardinality(DOMAIN o.env.env) = Cardinality(o.act.args \cup {[base |-> b, upper |-> FALSE] : b \in AuInjected})

LEMMA AuExecuted ==
    ASSUME AuTypes, NEW a, IsFiniteSet(a.args), NEW o, o = execute(a)
    PROVE  /\ o.act = a /\ o.version = auVersion
           /\ warn_on_unknown_plugin_refs(a) <=> o.why # "-"
           /\ a.kind = "script" /\ a.plugin \in PluginNames /\ a.fn \in Manifest(a.plugin).actions =>
                 o.why = "-" /\ o.kind = "action" /\ o.root = discover_report_with_config(a.plugin)
           /\ AuScriptGets(o)
<1>1. CASE a.kind = "script"
  <2> DEFINE root == discover_report_with_config(a.plugin)
             env == build_env_vars(merged_script_arguments(a.args))
  <2>1. a.plugin \in PluginNames <=> root # NoRoot
    BY AuDiscovered
  <2>2. Manifest(a.plugin) = Entry(root)
    BY DEF Manifest
  <2>3. o = execute_script_provider(a)
    BY <1>1 DEF execute
  <2>4. warn_on_unknown_plugin_refs(a) <=>
            a.plugin \notin PluginNames \/ a.fn \notin Entry(root).actions \cup Entry(root).probes
    BY <1>1, <2>2 DEF warn_on_unknown_plugin_refs
  <2>5. env.ok => /\ \A x \in a.args : env.env[x.base] = "declared"
                  /\ AuInjected \subseteq DOMAIN env.env
                  /\ Cardinality(DOMAIN env.env) = Cardinality(a.args \cup {[base |-> b, upper |-> FALSE] : b \in AuInjected})
    <3> HIDE DEF env
    <3>1. env = build_env_vars(merged_script_arguments(a.args))
      BY DEF env
    <3> QED  BY <3>1, AuArguments
  <2>6. CASE root = NoRoot
    <3>0. PICK why : why = "unknown plugin"  OBVIOUS
    <3>1. o = Outcome(a, why, root, "-", NoEnv)
      BY <2>3, <2>6, <3>0 DEF execute_script_provider
    <3> HIDE DEF root
    <3>2. /\ o.act = a /\ o.version = auVersion /\ o.why = why /\ o.kind = "-"
      BY <3>1, AuOutcome
    <3>3. AuScriptGets(o)
      BY <3>2, Zenon DEF AuScriptGets
    <3>4. a.plugin \notin PluginNames /\ o.why # "-" /\ warn_on_unknown_plugin_refs(a)
      BY <3>0, <3>2, <2>1, <2>4, <2>6, Zenon
    <3> QED  BY <3>2, <3>3, <3>4, Zenon
  <2>7. CASE root # NoRoot /\ a.fn \in Entry(root).actions
    <3>1. o = Outcome(a, "-", root, "action", env)
      BY <2>3, <2>7 DEF execute_script_provider
    <3> HIDE DEF env, root
    <3>2. /\ o.act = a /\ o.version = auVersion /\ o.why = "-" /\ o.root = root /\ o.kind = "action" /\ o.env = env
      BY <3>1 DEF Outcome
    <3> QED  BY <3>2, <2>1, <2>2, <2>4, <2>5, <2>7 DEF AuScriptGets, root
  <2>8. CASE root # NoRoot /\ a.fn \in Entry(root).probes \ Entry(root).actions
    <3>1. o = Outcome(a, "-", root, "probe", env)
      BY <2>3, <2>8 DEF execute_script_provider
    <3> HIDE DEF env, root
    <3>2. /\ o.act = a /\ o.version = auVersion /\ o.why = "-" /\ o.root = root /\ o.kind = "probe" /\ o.env = env
      BY <3>1 DEF Outcome
    <3> QED  BY <3>2, <2>1, <2>2, <2>4, <2>5, <2>8 DEF AuScriptGets, root
  <2>9. CASE root # NoRoot /\ a.fn \notin Entry(root).actions \cup Entry(root).probes
    <3>0. PICK why : why = "unknown action"  OBVIOUS
    <3>1. o = Outcome(a, why, root, "-", NoEnv)
      BY <2>3, <2>9, <3>0 DEF execute_script_provider
    <3> HIDE DEF root
    <3>2. /\ o.act = a /\ o.version = auVersion /\ o.why = why /\ o.kind = "-"
      BY <3>1, AuOutcome
    <3>3. AuScriptGets(o)
      BY <3>2, Zenon DEF AuScriptGets
    <3>4. a.fn \notin Manifest(a.plugin).actions
      BY <2>2, <2>9
    <3>5. o.why # "-" /\ warn_on_unknown_plugin_refs(a)
      BY <3>0, <3>2, <2>4, <2>9, Zenon
    <3> QED  BY <3>2, <3>3, <3>4, <3>5, Zenon
  <2> QED  BY <2>6, <2>7, <2>8, <2>9
<1>2. CASE a.kind = "native"
  <2>1. o = execute_native(a)
    BY <1>2 DEF execute
  <2>0. PICK why : why = (IF a.plugin \notin DOMAIN AuNative THEN "unknown plugin"
                          ELSE IF a.fn \notin AuNative[a.plugin] THEN "unknown action" ELSE "-")
    OBVIOUS
  <2>2. o = Outcome(a, why, NoRoot, "native", NoEnv)
    BY <2>0, <2>1 DEF execute_native
  <2>3. warn_on_unknown_plugin_refs(a) <=> a.plugin \notin DOMAIN AuNative \/ a.fn \notin AuNative[a.plugin]
    BY <1>2 DEF warn_on_unknown_plugin_refs
  <2>4. /\ o.act = a /\ o.version = auVersion /\ o.kind = "native" /\ o.why = why
    BY <2>2, AuOutcome
  <2>5. AuScriptGets(o)
    BY <2>4, Zenon DEF AuScriptGets
  <2>6. warn_on_unknown_plugin_refs(a) <=> o.why # "-"
    BY <2>0, <2>3, <2>4, Zenon
  <2> QED  BY <1>2, <2>4, <2>5, <2>6, Zenon
<1>3. CASE a.kind \notin {"script", "native"}
  <2>1. o = Outcome(a, "-", NoRoot, "process", NoEnv)
    BY <1>3 DEF execute
  <2>2. ~warn_on_unknown_plugin_refs(a)
    BY <1>3 DEF warn_on_unknown_plugin_refs
  <2> QED  BY <1>3, <2>1, <2>2 DEF Outcome, AuScriptGets
<1> QED  BY <1>1, <1>2, <1>3

(* An activity that the catalog offers now is resolved to the root it names. *)
AuOffered(a, root) ==
    a.role = "method" /\ a.plugin \notin NATIVE_PLUGINS =>
        /\ a.kind = "script" /\ a.plugin \in PluginNames /\ a.fn \in Manifest(a.plugin).actions
        /\ discover_report_with_config(a.plugin) = root

(* A document offers what the catalog had when it was made. *)
AuDoc(d) ==
    /\ d.version \in Int /\ d.version <= auVersion
    /\ \A i \in DOMAIN d.acts : IsFiniteSet(d.acts[i].args)
    /\ d.version = auVersion => \A i \in DOMAIN d.acts : AuOffered(d.acts[i], d.root)

(* A document that `tumult new` goes on to write. *)
AuGood(d) ==
    /\ d.valid
    /\ d.template # "-" =>
         /\ all_templates[d.template].uses \subseteq DOMAIN d.vars
         /\ \A k \in DOMAIN d.vars :
                LET sets == d.vars[k][2]
                IN  \A i \in DOMAIN sets :
                        sets[i].key = k /\ (\A j \in DOMAIN sets : sets[j].key = k => j <= i) =>
                            d.vars[k][1] = sets[i].value

AuDocs == \A d \in {auFile, auNew.doc, auRun.doc} : AuDoc(d)
AuNewInv ==
    /\ auNew = [pc |-> auNew.pc, doc |-> auNew.doc]
    /\ auNew.pc \in {"built", "write", "written"} => AuGood(auNew.doc)
AuWarnedInv ==
    /\ auWarned.version \in Int /\ auWarned.version <= auVersion
    /\ auWarned.version = auVersion =>
         \A i : i \in auWarned.acts <=>
             i \in DOMAIN auWarned.doc.acts /\ warn_on_unknown_plugin_refs(auWarned.doc.acts[i])
AuRunInv ==
    /\ auRun = [next |-> auRun.next, doc |-> auRun.doc, results |-> auRun.results]
    /\ auRun.next \in Nat /\ auRun.results \in Seq(Range(auRun.results))
    /\ auRun.next = 0 => auRun.results = <<>> /\ auRun.doc = NoDocument
    /\ auRun.next > 0 => Len(auRun.results) = auRun.next - 1
    /\ AuthoredRuns /\ ValidationForesees /\ ArgumentsArrive
AuPInv == AuTypes /\ AuDocs /\ AuNewInv /\ AuWarnedInv /\ AuRunInv

LEMMA AuNoDoc == NoDocument.acts = <<>> /\ NoDocument.version = -1 /\ ~NoDocument.valid
BY DEF NoDocument

LEMMA AuPStart == AuInit => AuPInv
<1> SUFFICES ASSUME AuInit PROVE AuPInv  OBVIOUS
<1>1. /\ auDirs \in AuInstalled /\ auVersion = 0 /\ auNew = [pc |-> "idle", doc |-> NoDocument]
      /\ auFile = NoDocument /\ auWarned = [version |-> -1, doc |-> NoDocument, acts |-> {}]
      /\ auRun = [next |-> 0, doc |-> NoDocument, results |-> <<>>]
  BY DEF AuInit
<1>2. AuTypes
  BY <1>1, AuAssumption DEF AuTypes
<1>3. AuDocs
  <2>1. \A d \in {auFile, auNew.doc, auRun.doc} : d = NoDocument
    BY <1>1
  <2>2. AuDoc(NoDocument)
    BY <1>1, AuNoDoc DEF AuDoc
  <2> QED  BY <2>1, <2>2 DEF AuDocs, AuDoc
<1>4. AuNewInv
  BY <1>1 DEF AuNewInv
<1>5. AuWarnedInv
  BY <1>1 DEF AuWarnedInv
<1>6. AuRunInv
  BY <1>1 DEF AuRunInv, AuthoredRuns, ValidationForesees, ArgumentsArrive, Range
<1> QED  BY <1>2, <1>3, <1>4, <1>5, <1>6 DEF AuPInv

(* What discovery finds depends on the directories alone. *)
LEMMA AuSameDirs ==
    ASSUME auDirs' = auDirs, auVersion' = auVersion
    PROVE  /\ \A a : warn_on_unknown_plugin_refs(a)' <=> warn_on_unknown_plugin_refs(a)
           /\ \A a, root : AuOffered(a, root)' <=> AuOffered(a, root)
           /\ \A d : AuDoc(d) => AuDoc(d)'
<1>1. PluginRoots' = PluginRoots /\ \A r : Entry(r)' = Entry(r)
  BY DEF PluginRoots, Entry
<1>2. Found' = Found
  BY <1>1 DEF Found, discover_plugins_in_dir
<1>3. PluginNames' = PluginNames
  BY <1>1, <1>2 DEF PluginNames
<1>4. ASSUME NEW name PROVE discover_report_with_config(name)' = discover_report_with_config(name)
  <2> DEFINE now == {r \in Found' : Entry(r)'.name = name}
             then == {r \in Found : Entry(r).name = name}
  <2>1. now = then
    BY <1>1, <1>2
  <2>2. discover_report_with_config(name)' =
            IF now = {} THEN NoRoot ELSE CHOOSE r \in now : \A s \in now \ {r} : FoundBefore(r, s)
    BY DEF discover_report_with_config, NoRoot, FoundBefore
  <2>3. discover_report_with_config(name) =
            IF then = {} THEN NoRoot ELSE CHOOSE r \in then : \A s \in then \ {r} : FoundBefore(r, s)
    BY DEF discover_report_with_config
  <2> HIDE DEF now, then
  <2> QED  BY <2>1, <2>2, <2>3
<1>5. \A name : Manifest(name)' = Manifest(name)
  BY <1>1, <1>4 DEF Manifest, Entry
<1>6. \A a : warn_on_unknown_plugin_refs(a)' <=> warn_on_unknown_plugin_refs(a)
  BY <1>3, <1>5 DEF warn_on_unknown_plugin_refs
<1>7. \A a, root : AuOffered(a, root)' <=> AuOffered(a, root)
  BY <1>3, <1>4, <1>5 DEF AuOffered, NATIVE_PLUGINS
<1>8. \A d : AuDoc(d) => AuDoc(d)'
  BY <1>7 DEF AuDoc
<1> QED  BY <1>6, <1>7, <1>8

LEMMA AuSeq == ASSUME NEW X, NEW s \in Seq(X) PROVE s \in Seq(Range(s))
<1>1. Len(s) \in Nat /\ s \in [1 .. Len(s) -> X]
  OBVIOUS
<1>2. s \in [1 .. Len(s) -> Range(s)]
  BY <1>1 DEF Range
<1> QED  BY <1>1, <1>2

(* Directories that come and go leave documents of an earlier catalog. *)
LEMMA AuEditStep ==
    ASSUME AuPInv, NEW i \in AuPaths, Uninstall(i) \/ \E e \in AuEntries : Install(i, e)
    PROVE  AuPInv'
<1>1. PICK s : auDirs' = [auDirs EXCEPT ![i] = s] /\ s \in Seq(Range(s))
  <2>1. auDirs[i] \in Seq(Range(auDirs[i]))
    BY DEF AuPInv, AuTypes
  <2>2. CASE Uninstall(i)
    <3>1. PICK old : old = auDirs[i]  OBVIOUS
    <3>2. old \in Seq(Range(old)) /\ old # <<>>
      BY <2>1, <2>2, <3>1 DEF Uninstall
    <3>3. Tail(old) \in Seq(Range(old))
      BY <3>2
    <3>4. Tail(old) \in Seq(Range(Tail(old)))
      BY <3>3, AuSeq
    <3> QED  BY <2>2, <3>1, <3>4 DEF Uninstall
  <2>3. ASSUME NEW e \in AuEntries, Install(i, e)
        PROVE  \E s : auDirs' = [auDirs EXCEPT ![i] = s] /\ s \in Seq(Range(s))
    <3>1. PICK old : old = auDirs[i]  OBVIOUS
    <3>2. Append(old, e) \in Seq(Range(Append(old, e)))
      BY <2>1, <3>1, CtAppended
    <3> QED  BY <2>3, <3>1, <3>2 DEF Install
  <2> QED  BY <2>2, <2>3
<1>2. /\ auVersion' = auVersion + 1 /\ auNew' = auNew /\ auFile' = auFile /\ auWarned' = auWarned /\ auRun' = auRun
  BY DEF Install, Uninstall
<1>3. AuTypes /\ AuDocs /\ AuNewInv /\ AuWarnedInv /\ AuRunInv
  BY DEF AuPInv
<1>4. AuTypes'
  BY <1>1, <1>2, <1>3 DEF AuTypes
<1>5. AuDocs'
  <2> SUFFICES ASSUME NEW d, AuDoc(d) PROVE AuDoc(d)'
    BY <1>2, <1>3 DEF AuDocs
  <2> QED  BY <1>2, <1>3 DEF AuDoc, AuTypes
<1>6. AuNewInv' /\ AuRunInv'
  BY <1>2, <1>3 DEF AuNewInv, AuRunInv, AuGood, AuthoredRuns, ValidationForesees, ArgumentsArrive
<1>7. AuWarnedInv'
  BY <1>2, <1>3 DEF AuWarnedInv, AuTypes
<1> QED  BY <1>4, <1>5, <1>6, <1>7 DEF AuPInv

(* A step that leaves the directories, the run and the validation. *)
LEMMA AuDocStep ==
    ASSUME AuPInv, auDirs' = auDirs, auVersion' = auVersion, auWarned' = auWarned, auRun' = auRun,
           AuNewInv', \A d \in {auFile', auNew'.doc} : d \in {auFile, auNew.doc} \/ AuDoc(d)
    PROVE  AuPInv'
<1>1. AuTypes /\ AuDocs /\ AuWarnedInv /\ AuRunInv
  BY DEF AuPInv
<1>2. AuTypes'
  BY <1>1 DEF AuTypes
<1>3. AuDocs'
  <2> SUFFICES ASSUME NEW d \in {auFile', auNew'.doc, auRun'.doc} PROVE AuDoc(d)'
    BY DEF AuDocs
  <2>1. AuDoc(d)
    BY <1>1 DEF AuDocs
  <2> QED  BY <2>1, AuSameDirs
<1>4. AuWarnedInv'
  BY <1>1, AuSameDirs DEF AuWarnedInv
<1>5. AuRunInv'
  BY <1>1 DEF AuRunInv, AuthoredRuns, ValidationForesees, ArgumentsArrive
<1> QED  BY <1>2, <1>3, <1>4, <1>5 DEF AuPInv

(* A scaffold offers its fault, from the root that the catalog has it from. *)
LEMMA AuBuilt ==
    ASSUME AuTypes, NEW in \in AuInputs, scaffold_from_catalog(in), NEW d, d = build_experiment_unvalidated(in)
    PROVE  AuDoc(d) /\ d.template = "-"
<1> DEFINE undo == rollback_action(in.plugin, in.action)
           target == [base |-> "target", upper |-> FALSE]
           probe == Activity("probe", "process", "-", "-", {})
           fault == Activity("method", provider_for(in.plugin), in.plugin, in.action, in.args \cup {target})
           back == Activity("rollback", provider_for(in.plugin), in.plugin, undo, {target})
<1>1. /\ d.version = auVersion /\ d.root = discover_report_with_config(in.plugin) /\ d.template = "-"
      /\ d.acts = IF undo = "-" THEN <<probe, fault>> ELSE Append(<<probe, fault>>, back)
  <2> HIDE DEF undo, target, probe, fault, back
  <2>1. PICK root : root = discover_report_with_config(in.plugin)  OBVIOUS
  <2>2. d = [NoDocument EXCEPT !.acts = IF undo = "-" THEN <<probe, fault>> ELSE Append(<<probe, fault>>, back),
                      !.valid = in.expect # "[", !.version = auVersion, !.root = root]
    BY <2>1 DEF build_experiment_unvalidated, undo, target, probe, fault, back
  <2> QED  BY <2>1, <2>2 DEF NoDocument
<1>2. \A i \in DOMAIN d.acts : d.acts[i] \in {probe, fault, back}
  <2> HIDE DEF undo, target, probe, fault, back
  <2> QED  BY <1>1
<1>3. /\ probe.role # "method" /\ back.role # "method" /\ probe.args = {} /\ back.args = {target}
      /\ fault.plugin = in.plugin /\ fault.fn = in.action /\ fault.args = in.args \cup {target}
      /\ fault.kind = provider_for(in.plugin)
  BY DEF Activity
<1>4. \A i \in DOMAIN d.acts : IsFiniteSet(d.acts[i].args)
  <2>1. IsFiniteSet({}) /\ IsFiniteSet({target}) /\ IsFiniteSet(in.args)
    BY FS_EmptySet, FS_Singleton, AuAssumption
  <2>2. IsFiniteSet(in.args \cup {target})
    <3> HIDE DEF target
    <3> QED  BY <2>1, FS_Union
  <2> HIDE DEF target, probe, fault, back
  <2> QED  BY <1>2, <1>3, <2>1, <2>2
<1>5. AuOffered(fault, discover_report_with_config(in.plugin))
  <2>1. in.plugin \notin NATIVE_PLUGINS => provider_for(in.plugin) = "script"
    BY DEF provider_for
  <2>2. in.plugin \in PluginNames
    BY DEF scaffold_from_catalog, catalog_from_manifests
  <2>3. in.action \in Manifest(in.plugin).actions
    BY DEF scaffold_from_catalog, find_kind
  <2> HIDE DEF fault
  <2> QED  BY <1>3, <2>1, <2>2, <2>3 DEF AuOffered
<1>6. \A i \in DOMAIN d.acts : AuOffered(d.acts[i], d.root)
  <2> HIDE DEF probe, fault, back
  <2>1. PICK root : root = discover_report_with_config(in.plugin)  OBVIOUS
  <2>2. AuOffered(fault, root) /\ d.root = root
    BY <1>1, <1>5, <2>1 DEF AuOffered
  <2>3. AuOffered(probe, root) /\ AuOffered(back, root)
    BY <1>3 DEF AuOffered
  <2>4. \A a \in {probe, fault, back} : AuOffered(a, root)
    BY <2>2, <2>3 DEF AuOffered
  <2> QED  BY <1>2, <2>2, <2>4
<1>7. AuDoc(d)
  <2> HIDE DEF probe, fault, back
  <2> QED  BY <1>1, <1>4, <1>6 DEF AuDoc, AuTypes
<1> QED  BY <1>1, <1>7

(* A document whose activities are none of the catalog's. *)
LEMMA AuPlain ==
    ASSUME AuTypes, NEW d, d.version = auVersion,
           \A i \in DOMAIN d.acts : d.acts[i].role # "method" /\ d.acts[i].args = {}
    PROVE  AuDoc(d)
<1>1. \A i \in DOMAIN d.acts : IsFiniteSet(d.acts[i].args)
  BY FS_EmptySet
<1>2. \A i \in DOMAIN d.acts : AuOffered(d.acts[i], d.root)
  BY DEF AuOffered
<1>3. d.version \in Int /\ d.version <= auVersion
  BY DEF AuTypes
<1> QED  BY <1>1, <1>2, <1>3 DEF AuDoc

(* A template is filled in with the last of the values given for a key. *)
LEMMA AuTemplateStep ==
    ASSUME AuPInv, NEW t, NEW sets \in AuSets, cmd_new_from_template(t, sets) PROVE AuPInv'
<1> DEFINE overrides == parse_overrides(sets)
           filled == instantiate(t, overrides)
           doc == [NoDocument EXCEPT !.valid = TRUE, !.version = auVersion,
                     !.vars = [k \in DOMAIN filled |-> <<filled[k], sets>>], !.template = t]
<1>1. /\ auDirs' = auDirs /\ auVersion' = auVersion /\ auFile' = auFile /\ auWarned' = auWarned /\ auRun' = auRun
      /\ \/ auNew' = [pc |-> "failed", doc |-> NoDocument]
         \/ auNew' = [pc |-> "built", doc |-> doc] /\ all_templates[t].uses \subseteq DOMAIN filled
  <2> HIDE DEF filled, doc
  <2>1. auNew' = IF (\/ \E i \in DOMAIN sets : ~sets[i].formed
                     \/ ~(DOMAIN parse_overrides(sets) \subseteq all_templates[t].params))
                    \/ ~(all_templates[t].uses \subseteq DOMAIN filled)
                 THEN [pc |-> "failed", doc |-> NoDocument] ELSE [pc |-> "built", doc |-> doc]
    BY DEF cmd_new_from_template, filled, doc
  <2> QED  BY <2>1 DEF cmd_new_from_template
<1>2. AuTypes /\ AuDocs
  BY DEF AuPInv
<1>3. /\ doc.valid /\ doc.template = t /\ doc.version = auVersion /\ doc.acts = <<>>
      /\ doc.vars = [k \in DOMAIN filled |-> <<filled[k], sets>>]
  <2> HIDE DEF filled
  <2> QED  BY DEF NoDocument
<1>4. AuDoc(doc)
  <2> HIDE DEF doc
  <2> QED  BY <1>2, <1>3, AuPlain
<1>5. AuDoc(NoDocument)
  BY <1>2, AuNoDoc DEF AuDoc, AuTypes
<1>6. ASSUME NEW k \in DOMAIN filled, NEW i \in DOMAIN sets, sets[i].key = k,
             \A j \in DOMAIN sets : sets[j].key = k => j <= i
      PROVE  filled[k] = sets[i].value
  <2>1. k \in {sets[j].key : j \in DOMAIN sets}
    BY <1>6
  <2>2. filled[k] = overrides[k]
    BY <2>1 DEF instantiate, parse_overrides
  <2> DEFINE given == {j \in DOMAIN sets : sets[j].key = k}
  <2>3. Max(given) = i
    <3>1. i \in given /\ given \subseteq Nat /\ \A j \in given : j <= i
      <4>1. sets \in Seq(Range(sets))
        BY AuAssumption
      <4>2. DOMAIN sets \subseteq Nat
        BY <4>1
      <4> QED  BY <1>6, <4>2
    <3> HIDE DEF given
    <3>2. \A x \in given : (\A y \in given : x >= y) => x = i
      BY <3>1
    <3>3. i \in given /\ \A y \in given : i >= y
      BY <3>1
    <3> QED  BY <3>2, <3>3 DEF Max
  <2>4. overrides[k] = sets[Max(given)].value
    BY <2>1 DEF parse_overrides
  <2> QED  BY <2>2, <2>3, <2>4
<1>7. AuGood(doc) \/ ~(all_templates[t].uses \subseteq DOMAIN filled)
  <2>1. \A k \in DOMAIN doc.vars : k \in DOMAIN filled /\ doc.vars[k][1] = filled[k] /\ doc.vars[k][2] = sets
    <3> HIDE DEF filled, doc
    <3> QED  BY <1>3
  <2>2. DOMAIN doc.vars = DOMAIN filled
    <3> HIDE DEF filled, doc
    <3> QED  BY <1>3
  <2> HIDE DEF filled, doc
  <2> QED  BY <1>3, <1>6, <2>1, <2>2 DEF AuGood
<1>8. AuNewInv'
  <2> HIDE DEF filled, doc
  <2>1. CASE auNew' = [pc |-> "failed", doc |-> NoDocument]
    BY <2>1 DEF AuNewInv
  <2>2. CASE auNew' = [pc |-> "built", doc |-> doc] /\ all_templates[t].uses \subseteq DOMAIN filled
    <3>1. PICK b : b = doc  OBVIOUS
    <3>2. AuGood(b)
      BY <1>7, <2>2, <3>1 DEF AuGood
    <3>3. auNew'.doc = b /\ auNew' = [pc |-> auNew'.pc, doc |-> auNew'.doc]
      BY <2>2, <3>1
    <3> QED  BY <3>2, <3>3 DEF AuNewInv, AuGood
  <2> QED  BY <1>1, <2>1, <2>2
<1>9. \A d \in {auFile', auNew'.doc} : d \in {auFile, auNew.doc} \/ AuDoc(d)
  <2> HIDE DEF filled, doc
  <2>1. auNew'.doc \in {doc, NoDocument}
    BY <1>1
  <2>2. ASSUME NEW d \in {doc, NoDocument} PROVE AuDoc(d)
    <3>1. CASE d = doc
      BY <3>1, <1>4 DEF AuDoc
    <3>2. CASE d = NoDocument
      BY <3>2, <1>5 DEF AuDoc
    <3> QED  BY <3>1, <3>2
  <2> QED  BY <1>1, <2>1, <2>2
<1> QED  BY <1>1, <1>8, <1>9, AuDocStep

(* The other ways to a document, and to the file. *)
LEMMA AuScaffoldStep ==
    ASSUME AuPInv, NEW in \in AuInputs, scaffold(in) \/ cmd_new_interactive(in) PROVE AuPInv'
<1>1. PICK d : d = build_experiment_unvalidated(in)
  OBVIOUS
<1>2. AuDoc(d) /\ d.template = "-"
  BY <1>1, AuBuilt DEF scaffold, cmd_new_interactive, AuPInv
<1>3. /\ auDirs' = auDirs /\ auVersion' = auVersion /\ auWarned' = auWarned /\ auRun' = auRun
      /\ \/ auFile' = d /\ auNew' = auNew
         \/ auFile' = auFile /\ auNew' = [pc |-> IF d.valid THEN "built" ELSE "failed", doc |-> d]
  BY <1>1 DEF scaffold, cmd_new_interactive
<1>4. AuNewInv'
  <2>1. CASE auNew' = auNew
    BY <2>1 DEF AuPInv, AuNewInv, AuGood
  <2>2. CASE auNew' = [pc |-> IF d.valid THEN "built" ELSE "failed", doc |-> d]
    <3>1. auNew'.doc = d /\ auNew' = [pc |-> auNew'.pc, doc |-> auNew'.doc]
          /\ (auNew'.pc \in {"built", "write", "written"} => d.valid)
      BY <2>2
    <3>2. d.valid => AuGood(d)'
      BY <1>2 DEF AuGood
    <3> QED  BY <3>1, <3>2 DEF AuNewInv, AuGood
  <2> QED  BY <1>3, <2>1, <2>2
<1>5. \A x \in {auFile', auNew'.doc} : x \in {auFile, auNew.doc} \/ AuDoc(x)
  <2>1. \A x \in {auFile', auNew'.doc} : x \in {auFile, auNew.doc} \/ x = d
    BY <1>3
  <2> QED  BY <2>1, <1>2
<1> QED  BY <1>3, <1>4, <1>5, AuDocStep

LEMMA AuWriteStep ==
    ASSUME AuPInv, write_check \/ write_experiment \/ init_at PROVE AuPInv'
<1>1. /\ auDirs' = auDirs /\ auVersion' = auVersion /\ auWarned' = auWarned /\ auRun' = auRun
  BY DEF write_check, write_experiment, init_at
<1>2. AuNewInv /\ AuTypes
  BY DEF AuPInv
<1>3. CASE write_check \/ write_experiment
  <2>1. PICK doc : doc = auNew.doc  OBVIOUS
  <2>2. /\ auNew.pc \in {"built", "write"} /\ auNew'.doc = doc /\ auNew' = [pc |-> auNew'.pc, doc |-> auNew'.doc]
        /\ auFile' \in {auFile, doc}
    BY <1>2, <1>3, <2>1 DEF write_check, write_experiment, AuNewInv
  <2>3. AuGood(doc)
    BY <1>2, <2>1, <2>2 DEF AuNewInv, AuGood
  <2>4. AuNewInv'
    BY <2>2, <2>3 DEF AuNewInv, AuGood
  <2>5. \A x \in {auFile', auNew'.doc} : x \in {auFile, auNew.doc} \/ AuDoc(x)
    BY <2>1, <2>2
  <2> QED  BY <1>1, <2>4, <2>5, AuDocStep
<1>4. CASE init_at
  <2> DEFINE doc == [NoDocument EXCEPT !.acts = <<Activity("probe", "process", "-", "-", {})>>, !.valid = TRUE,
                                       !.version = auVersion]
  <2>1. auFile' = doc /\ auNew' = auNew
    BY <1>4 DEF init_at
  <2>2. doc.version = auVersion /\ doc.acts = <<Activity("probe", "process", "-", "-", {})>>
    BY DEF NoDocument
  <2>3. \A i \in DOMAIN doc.acts : doc.acts[i].role # "method" /\ doc.acts[i].args = {}
    <3>1. PICK a : a = Activity("probe", "process", "-", "-", {})  OBVIOUS
    <3>2. a.role # "method" /\ a.args = {}
      BY <3>1 DEF Activity
    <3> HIDE DEF doc
    <3>3. doc.acts = <<a>>
      BY <2>2, <3>1
    <3> QED  BY <3>2, <3>3
  <2>4. AuDoc(doc)
    <3> HIDE DEF doc
    <3> QED  BY <1>2, <2>2, <2>3, AuPlain
  <2> HIDE DEF doc
  <2>5. AuNewInv'
    BY <1>2, <2>1 DEF AuNewInv, AuGood
  <2>6. \A x \in {auFile', auNew'.doc} : x \in {auFile, auNew.doc} \/ AuDoc(x)
    <3>1. PICK d : d = doc  OBVIOUS
    <3>2. AuDoc(d)
      BY <3>1, <2>4 DEF AuDoc
    <3> QED  BY <2>1, <3>1, <3>2
  <2> QED  BY <1>1, <2>5, <2>6, AuDocStep
<1> QED  BY <1>3, <1>4

(* A validation warns of what execution will not resolve. *)
LEMMA AuValidateStep == AuPInv /\ cmd_validate => AuPInv'
<1> SUFFICES ASSUME AuPInv, cmd_validate PROVE AuPInv'  OBVIOUS
<1>1. /\ auDirs' = auDirs /\ auVersion' = auVersion /\ auNew' = auNew /\ auFile' = auFile /\ auRun' = auRun
      /\ auRun.next = 0
      /\ auWarned' = [version |-> auVersion, doc |-> auFile,
                      acts |-> {i \in DOMAIN auFile.acts : warn_on_unknown_plugin_refs(auFile.acts[i])}]
  BY DEF cmd_validate
<1>2. AuTypes /\ AuDocs /\ AuNewInv /\ AuRunInv
  BY DEF AuPInv
<1>3. AuTypes' /\ AuNewInv'
  BY <1>1, <1>2 DEF AuTypes, AuNewInv, AuGood
<1>4. AuDocs'
  <2> SUFFICES ASSUME NEW d, AuDoc(d) PROVE AuDoc(d)'
    BY <1>1, <1>2 DEF AuDocs
  <2> QED  BY <1>1, AuSameDirs
<1>5. AuWarnedInv'
  <2>1. PICK file : file = auFile  OBVIOUS
  <2>2. auWarned'.version = auVersion' /\ auWarned'.doc = file
        /\ \A i : i \in auWarned'.acts <=> i \in DOMAIN file.acts /\ warn_on_unknown_plugin_refs(file.acts[i])
    <3>1. PICK acts : acts = {i \in DOMAIN auFile.acts : warn_on_unknown_plugin_refs(auFile.acts[i])}  OBVIOUS
    <3>2. auWarned' = [version |-> auVersion, doc |-> file, acts |-> acts]
      BY <1>1, <2>1, <3>1
    <3>3. auWarned'.version = auVersion /\ auWarned'.doc = file /\ auWarned'.acts = acts
      BY <3>2
    <3> QED  BY <1>1, <2>1, <3>1, <3>3
  <2>3. \A i : i \in auWarned'.acts <=> i \in DOMAIN file.acts /\ warn_on_unknown_plugin_refs(file.acts[i])'
    BY <1>1, <2>2, AuSameDirs
  <2>4. \A i : i \in auWarned'.acts <=> i \in DOMAIN auWarned'.doc.acts /\ warn_on_unknown_plugin_refs(auWarned.doc.acts[i])'
    BY <2>2, <2>3 DEF warn_on_unknown_plugin_refs
  <2> QED  BY <1>1, <1>2, <2>2, <2>4 DEF AuWarnedInv, AuTypes
<1>6. AuRunInv'
  <2>1. auRun.results = <<>>
    BY <1>1, <1>2 DEF AuRunInv
  <2> QED  BY <1>1, <1>2, <2>1 DEF AuRunInv, AuthoredRuns, ValidationForesees, ArgumentsArrive
<1> QED  BY <1>3, <1>4, <1>5, <1>6 DEF AuPInv

LEMMA AuStartRunStep == AuPInv /\ StartRun => AuPInv'
<1> SUFFICES ASSUME AuPInv, StartRun PROVE AuPInv'  OBVIOUS
<1>1. /\ auDirs' = auDirs /\ auVersion' = auVersion /\ auNew' = auNew /\ auFile' = auFile /\ auWarned' = auWarned
      /\ auRun' = [next |-> 1, doc |-> auFile, results |-> <<>>]
  BY DEF StartRun
<1>2. AuTypes /\ AuDocs /\ AuNewInv /\ AuWarnedInv
  BY DEF AuPInv
<1>3. AuTypes' /\ AuNewInv'
  BY <1>1, <1>2 DEF AuTypes, AuNewInv, AuGood
<1>4. AuDocs'
  <2> SUFFICES ASSUME NEW d, AuDoc(d) PROVE AuDoc(d)'
    BY <1>1, <1>2 DEF AuDocs
  <2> QED  BY <1>1, AuSameDirs
<1>5. AuWarnedInv'
  BY <1>1, <1>2, AuSameDirs DEF AuWarnedInv
<1>6. AuRunInv'
  <2>1. /\ auRun'.next = 1 /\ auRun'.doc = auFile /\ auRun'.results = <<>>
        /\ auRun' = [next |-> auRun'.next, doc |-> auRun'.doc, results |-> auRun'.results]
    BY <1>1
  <2>2. <<>> \in Seq(Range(<<>>)) /\ Len(<<>>) = 1 - 1 /\ DOMAIN <<>> = {}
    BY DEF Range
  <2> QED  BY <2>1, <2>2 DEF AuRunInv, AuthoredRuns, ValidationForesees, ArgumentsArrive
<1> QED  BY <1>3, <1>4, <1>5, <1>6 DEF AuPInv

(* The next activity is resolved as the catalog of its document had it. *)
LEMMA AuRunStep == AuPInv /\ RunActivity => AuPInv'
<1> SUFFICES ASSUME AuPInv, RunActivity PROVE AuPInv'  OBVIOUS
<1> DEFINE n == auRun.next
<1>1. AuTypes /\ AuDocs /\ AuNewInv /\ AuWarnedInv /\ AuRunInv
  BY DEF AuPInv
<1>2. PICK run, a, o : run = auRun /\ a = run.doc.acts[run.next] /\ o = execute(a)
  OBVIOUS
<1>3. /\ auDirs' = auDirs /\ auVersion' = auVersion /\ auNew' = auNew /\ auFile' = auFile /\ auWarned' = auWarned
      /\ run.next \in DOMAIN run.doc.acts
      /\ auRun' = [run EXCEPT !.next = @ + 1, !.results = Append(@, o)]
  <2>1. PICK e : e = execute(auRun.doc.acts[auRun.next])  OBVIOUS
  <2>2. e = o
    BY <1>2, <2>1
  <2>3. auRun' = [auRun EXCEPT !.next = @ + 1, !.results = Append(@, e)]
    BY <2>1 DEF RunActivity
  <2> QED  BY <1>2, <2>2, <2>3 DEF RunActivity
<1>4. /\ run = [next |-> run.next, doc |-> run.doc, results |-> run.results]
      /\ run.next \in Nat /\ run.results \in Seq(Range(run.results))
      /\ run.next > 0 /\ Len(run.results) = run.next - 1
  <2>1. /\ run = [next |-> run.next, doc |-> run.doc, results |-> run.results]
        /\ run.next \in Nat /\ run.results \in Seq(Range(run.results))
        /\ (run.next = 0 => run.doc = NoDocument) /\ (run.next > 0 => Len(run.results) = run.next - 1)
    BY <1>1, <1>2 DEF AuRunInv
  <2>2. run.next # 0
    BY <1>3, <2>1, AuNoDoc
  <2> QED  BY <2>1, <2>2
<1>5. PICK rs : rs = Append(run.results, o)
  OBVIOUS
<1>6. /\ rs \in Seq(Range(rs)) /\ Len(rs) = run.next /\ DOMAIN rs = 1 .. run.next
      /\ DOMAIN run.results = 1 .. (run.next - 1)
      /\ rs[run.next] = o /\ \A i \in DOMAIN run.results : i \in DOMAIN rs /\ rs[i] = run.results[i]
  <2>1. /\ rs \in Seq(Range(rs)) /\ Len(rs) = Len(run.results) + 1 /\ Len(run.results) \in Nat
        /\ DOMAIN rs = 1 .. Len(rs) /\ DOMAIN run.results = 1 .. Len(run.results)
        /\ rs[Len(rs)] = o /\ \A i \in DOMAIN run.results : i \in DOMAIN rs /\ rs[i] = run.results[i]
    <3>1. PICK old : old = run.results  OBVIOUS
    <3>2. old \in Seq(Range(old)) /\ rs = Append(old, o)
      BY <1>4, <1>5, <3>1
    <3>3. /\ rs \in Seq(Range(rs)) /\ Len(rs) = Len(old) + 1 /\ Len(old) \in Nat
          /\ DOMAIN rs = 1 .. Len(rs) /\ DOMAIN old = 1 .. Len(old)
          /\ rs[Len(rs)] = o /\ \A i \in DOMAIN old : i \in DOMAIN rs /\ rs[i] = old[i]
      <4>1. rs \in Seq(Range(rs))
        BY <3>2, CtAppended
      <4> QED  BY <3>2, <4>1
    <3> QED  BY <3>1, <3>3
  <2>2. Len(rs) = run.next
    BY <2>1, <1>4
  <2> QED  BY <2>1, <2>2, <1>4
<1>7. /\ auRun' = [next |-> run.next + 1, doc |-> run.doc, results |-> rs]
      /\ auRun'.next = run.next + 1 /\ auRun'.doc = run.doc /\ auRun'.results = rs
      /\ auRun' = [next |-> auRun'.next, doc |-> auRun'.doc, results |-> auRun'.results]
  BY <1>3, <1>4, <1>5
<1>8. AuDoc(run.doc)
  <2>1. PICK d : d = auRun.doc  OBVIOUS
  <2>2. AuDoc(d) /\ d = run.doc
    BY <1>1, <1>2, <2>1 DEF AuDocs
  <2> QED  BY <2>2
<1>9. IsFiniteSet(a.args) /\ (run.doc.version = auVersion => AuOffered(a, run.doc.root))
  BY <1>2, <1>3, <1>8 DEF AuDoc
<1>10. /\ o.act = a /\ o.version = auVersion
       /\ warn_on_unknown_plugin_refs(a) <=> o.why # "-"
       /\ a.kind = "script" /\ a.plugin \in PluginNames /\ a.fn \in Manifest(a.plugin).actions =>
             o.why = "-" /\ o.kind = "action" /\ o.root = discover_report_with_config(a.plugin)
       /\ AuScriptGets(o)
  BY <1>1, <1>2, <1>9, AuExecuted
<1>11. AuTypes' /\ AuNewInv' /\ AuDocs' /\ AuWarnedInv'
  <2>1. AuTypes' /\ AuNewInv'
    BY <1>1, <1>3 DEF AuTypes, AuNewInv, AuGood
  <2>2. AuDocs'
    <3> SUFFICES ASSUME NEW d, AuDoc(d) PROVE AuDoc(d)'
      BY <1>1, <1>2, <1>3, <1>7 DEF AuDocs
    <3> QED  BY <1>3, AuSameDirs
  <2>3. AuWarnedInv'
    BY <1>1, <1>3, AuSameDirs DEF AuWarnedInv
  <2> QED  BY <2>1, <2>2, <2>3
<1>12. \A i \in DOMAIN rs : i \in DOMAIN run.results \/ i = run.next
  BY <1>4, <1>6
<1>13. AuthoredRuns'
  <2>1. ASSUME NEW i \in DOMAIN rs, rs[i].act.role = "method", rs[i].version = run.doc.version,
               rs[i].act.plugin \notin NATIVE_PLUGINS
        PROVE  rs[i].why = "-" /\ rs[i].kind = "action" /\ rs[i].root = run.doc.root
    <3>1. CASE i \in DOMAIN run.results
      BY <1>1, <1>2, <1>6, <2>1, <3>1 DEF AuRunInv, AuthoredRuns
    <3>2. CASE i = run.next
      <4>1. AuOffered(a, run.doc.root)
        BY <1>6, <1>9, <1>10, <2>1, <3>2
      <4>2. /\ a.kind = "script" /\ a.plugin \in PluginNames /\ a.fn \in Manifest(a.plugin).actions
            /\ discover_report_with_config(a.plugin) = run.doc.root
        BY <1>6, <1>10, <2>1, <3>2, <4>1 DEF AuOffered
      <4> QED  BY <1>6, <1>10, <3>2, <4>2
    <3> QED  BY <1>12, <3>1, <3>2
  <2> QED  BY <1>7, <2>1 DEF AuthoredRuns
<1>14. ValidationForesees'
  <2>1. PICK warned : warned = auWarned  OBVIOUS
  <2>2. ASSUME NEW i \in DOMAIN rs, rs[i].version = warned.version, run.doc = warned.doc
        PROVE  i \in warned.acts <=> rs[i].why # "-"
    <3>1. CASE i \in DOMAIN run.results
      BY <1>1, <1>2, <1>6, <2>1, <2>2, <3>1 DEF AuRunInv, ValidationForesees
    <3>2. CASE i = run.next
      <4>1. warned.version = auVersion
        BY <1>6, <1>10, <2>2, <3>2
      <4>2. i \in warned.acts <=> i \in DOMAIN warned.doc.acts /\ warn_on_unknown_plugin_refs(auWarned.doc.acts[i])
        BY <1>1, <2>1, <4>1 DEF AuWarnedInv
      <4>3. warn_on_unknown_plugin_refs(auWarned.doc.acts[i]) <=> warn_on_unknown_plugin_refs(a)
        <5>1. auWarned.doc.acts[i] = a
          BY <1>2, <2>1, <2>2, <3>2
        <5> QED  BY <5>1 DEF warn_on_unknown_plugin_refs
      <4> QED  BY <1>3, <1>6, <1>10, <2>2, <3>2, <4>2, <4>3
    <3> QED  BY <1>12, <3>1, <3>2
  <2> QED  BY <1>3, <1>7, <2>1, <2>2 DEF ValidationForesees
<1>15. ArgumentsArrive'
  <2>1. ASSUME NEW i \in DOMAIN rs PROVE AuScriptGets(rs[i])
    <3>1. CASE i \in DOMAIN run.results
      <4>1. AuScriptGets(run.results[i])
        BY <1>1, <1>2, <3>1 DEF AuRunInv, ArgumentsArrive, AuScriptGets
      <4> QED  BY <1>6, <3>1, <4>1 DEF AuScriptGets
    <3>2. CASE i = run.next
      BY <1>6, <1>10, <3>2 DEF AuScriptGets
    <3> QED  BY <1>12, <3>1, <3>2
  <2> QED  BY <1>7, <2>1 DEF ArgumentsArrive, AuScriptGets
<1>16. AuRunInv'
  BY <1>4, <1>6, <1>7, <1>13, <1>14, <1>15 DEF AuRunInv
<1> QED  BY <1>11, <1>16 DEF AuPInv

LEMMA AuPStep == AuPInv /\ [PluginsNext \/ TemplatesNext]_auPluginVars => AuPInv'
<1> SUFFICES ASSUME AuPInv, [PluginsNext \/ TemplatesNext]_auPluginVars PROVE AuPInv'  OBVIOUS
<1>1. ASSUME NEW i \in AuPaths, Uninstall(i) \/ \E e \in AuEntries : Install(i, e) PROVE AuPInv'
  BY <1>1, AuEditStep
<1>2. ASSUME NEW in \in AuInputs, scaffold(in) \/ cmd_new_interactive(in) PROVE AuPInv'
  BY <1>2, AuScaffoldStep
<1>3. CASE write_check \/ write_experiment \/ init_at
  BY <1>3, AuWriteStep
<1>4. CASE cmd_validate
  BY <1>4, AuValidateStep
<1>5. CASE StartRun
  BY <1>5, AuStartRunStep
<1>6. CASE RunActivity
  BY <1>6, AuRunStep
<1>7. ASSUME NEW t, NEW sets \in AuSets, cmd_new_from_template(t, sets) PROVE AuPInv'
  BY <1>7, AuTemplateStep
<1>8. CASE UNCHANGED auPluginVars
  <2>1. auDirs' = auDirs /\ auVersion' = auVersion /\ auNew' = auNew /\ auFile' = auFile /\ auWarned' = auWarned
        /\ auRun' = auRun
    BY <1>8 DEF auPluginVars
  <2>2. AuNewInv'
    BY <2>1 DEF AuPInv, AuNewInv, AuGood
  <2> QED  BY <2>1, <2>2, AuDocStep
<1> QED  BY <1>1, <1>2, <1>3, <1>4, <1>5, <1>6, <1>7, <1>8 DEF PluginsNext, TemplatesNext

(* The registry: what a request saw when it looked its text up. *)
RgInv ==
    /\ auRegistry \in Seq(Range(auRegistry)) /\ DOMAIN auReq = AuRequests
    /\ \A r \in AuRequests :
         /\ auReq[r] = [pc |-> auReq[r].pc, text |-> auReq[r].text, seen |-> auReq[r].seen,
                        registered |-> auReq[r].registered]
         /\ auReq[r].pc = "done" => \E i \in DOMAIN auRegistry : auRegistry[i].text = auReq[r].text
         /\ auReq[r].pc = "insert" =>
              /\ auReq[r].seen \in Nat /\ auReq[r].seen <= Len(auRegistry)
              /\ \A i \in DOMAIN auRegistry : auRegistry[i].text = auReq[r].text => auReq[r].seen < i
    /\ \A i, j \in DOMAIN auRegistry : i < j /\ auRegistry[i].text = auRegistry[j].text => auRegistry[j].seen < i

LEMMA RgStart == AuInit => RgInv
<1> SUFFICES ASSUME AuInit PROVE RgInv  OBVIOUS
<1>1. auRegistry = <<>> /\ auReq = [r \in AuRequests |-> NoReq]
  BY DEF AuInit
<1>2. <<>> \in Seq(Range(<<>>)) /\ DOMAIN <<>> = {}
  BY DEF Range
<1>3. \A r \in AuRequests : auReq[r] = [pc |-> "idle", text |-> "-", seen |-> 0, registered |-> FALSE]
  BY <1>1 DEF NoReq
<1> QED  BY <1>1, <1>2, <1>3 DEF RgInv

LEMMA RgFields ==
    ASSUME NEW req, req = [pc |-> req.pc, text |-> req.text, seen |-> req.seen, registered |-> req.registered],
           NEW pc, NEW text, NEW seen
    PROVE  /\ [req EXCEPT !.pc = pc, !.text = text] =
                  [pc |-> pc, text |-> text, seen |-> req.seen, registered |-> req.registered]
           /\ [req EXCEPT !.pc = pc, !.seen = seen] =
                  [pc |-> pc, text |-> req.text, seen |-> seen, registered |-> req.registered]
<1>1. [req EXCEPT !.pc = pc] = [pc |-> pc, text |-> req.text, seen |-> req.seen, registered |-> req.registered]
  OBVIOUS
<1>2. PICK one : one = [req EXCEPT !.pc = pc]  OBVIOUS
<1>3. /\ one = [pc |-> one.pc, text |-> one.text, seen |-> one.seen, registered |-> one.registered]
      /\ one.pc = pc /\ one.text = req.text /\ one.seen = req.seen /\ one.registered = req.registered
  BY <1>1, <1>2
<1>4. /\ [one EXCEPT !.text = text] = [pc |-> one.pc, text |-> text, seen |-> one.seen, registered |-> one.registered]
      /\ [one EXCEPT !.seen = seen] = [pc |-> one.pc, text |-> one.text, seen |-> seen, registered |-> one.registered]
  BY <1>3
<1>5. /\ [req EXCEPT !.pc = pc, !.text = text] = [one EXCEPT !.text = text]
      /\ [req EXCEPT !.pc = pc, !.seen = seen] = [one EXCEPT !.seen = seen]
  BY <1>2
<1> QED  BY <1>3, <1>4, <1>5

(* One request moves, and the registry stays. *)
LEMMA RgMoves ==
    ASSUME RgInv, NEW r \in AuRequests, NEW pc, NEW text, NEW seen, NEW registered,
           auReq' = [auReq EXCEPT ![r] = [pc |-> pc, text |-> text, seen |-> seen, registered |-> registered]],
           auRegistry' = auRegistry,
           pc = "done" => \E i \in DOMAIN auRegistry : auRegistry[i].text = text,
           pc = "insert" => seen = Len(auRegistry) /\ \A i \in DOMAIN auRegistry : auRegistry[i].text # text
    PROVE  RgInv'
<1>1. /\ auRegistry \in Seq(Range(auRegistry)) /\ DOMAIN auReq = AuRequests
  BY DEF RgInv
<1>2. Len(auRegistry) \in Nat
  BY <1>1
<1>3. \A q \in AuRequests : auReq'[q] = IF q = r THEN [pc |-> pc, text |-> text, seen |-> seen, registered |-> registered]
                                   ELSE auReq[q]
  BY <1>1
<1>4. ASSUME NEW q \in AuRequests
      PROVE  /\ auReq'[q] = [pc |-> auReq'[q].pc, text |-> auReq'[q].text, seen |-> auReq'[q].seen,
                             registered |-> auReq'[q].registered]
             /\ auReq'[q].pc = "done" => \E i \in DOMAIN auRegistry : auRegistry[i].text = auReq'[q].text
             /\ auReq'[q].pc = "insert" =>
                  /\ auReq'[q].seen \in Nat /\ auReq'[q].seen <= Len(auRegistry)
                  /\ \A i \in DOMAIN auRegistry : auRegistry[i].text = auReq'[q].text => auReq'[q].seen < i
  <2>1. CASE q = r
    <3>1. auReq'[q] = [pc |-> pc, text |-> text, seen |-> seen, registered |-> registered]
      BY <1>3, <2>1
    <3>2. auReq'[q].pc = pc /\ auReq'[q].text = text /\ auReq'[q].seen = seen /\ auReq'[q].registered = registered
      BY <3>1
    <3> QED  BY <1>2, <3>1, <3>2
  <2>2. CASE q # r
    BY <1>3, <2>2 DEF RgInv
  <2> QED  BY <2>1, <2>2
<1>5. DOMAIN auReq' = AuRequests
  BY <1>1
<1>6. \A i, j \in DOMAIN auRegistry : i < j /\ auRegistry[i].text = auRegistry[j].text => auRegistry[j].seen < i
  BY DEF RgInv
<1> QED  BY <1>1, <1>4, <1>5, <1>6 DEF RgInv

(* An insertion comes after all the rows that the lookup saw. *)
LEMMA RgInsertStep ==
    ASSUME RgInv, NEW r \in AuRequests, register_definition(r) PROVE RgInv'
<1>1. PICK reg, req : reg = auRegistry /\ req = auReq[r]  OBVIOUS
<1>2. /\ reg \in Seq(Range(reg)) /\ DOMAIN auReq = AuRequests
      /\ req = [pc |-> req.pc, text |-> req.text, seen |-> req.seen, registered |-> req.registered]
  BY <1>1 DEF RgInv
<1>3. PICK row : row = [text |-> req.text, seen |-> req.seen]  OBVIOUS
<1>4. /\ req.pc = "insert" /\ auRegistry' = Append(reg, row)
      /\ auReq' = [auReq EXCEPT ![r].pc = "done", ![r].registered = TRUE]
  BY <1>1, <1>3 DEF register_definition
<1>5. /\ req.seen \in Nat /\ req.seen <= Len(reg)
      /\ \A i \in DOMAIN reg : reg[i].text = req.text => req.seen < i
  BY <1>1, <1>4 DEF RgInv
<1>6. PICK new : new = Append(reg, row)  OBVIOUS
<1>7. /\ new \in Seq(Range(new)) /\ Len(new) = Len(reg) + 1 /\ Len(reg) \in Nat
      /\ DOMAIN new = 1 .. Len(new) /\ DOMAIN reg = 1 .. Len(reg)
      /\ new[Len(new)] = row /\ \A i \in DOMAIN reg : i \in DOMAIN new /\ new[i] = reg[i]
  <2>1. new \in Seq(Range(new))
    BY <1>2, <1>6, CtAppended
  <2>2. reg \in Seq(Range(reg))
    BY <1>2
  <2> QED  BY <1>6, <2>1, <2>2
<1>8. row.text = req.text /\ row.seen = req.seen
  BY <1>3
<1>9. \A q \in AuRequests : auReq'[q] = IF q = r THEN [pc |-> "done", text |-> req.text, seen |-> req.seen, registered |-> TRUE]
                                   ELSE auReq[q]
  <2>1. auReq'[r] = [req EXCEPT !.pc = "done", !.registered = TRUE]
    BY <1>1, <1>2, <1>4
  <2>2. auReq'[r] = [pc |-> "done", text |-> req.text, seen |-> req.seen, registered |-> TRUE]
    BY <1>2, <2>1
  <2> QED  BY <1>2, <1>4, <2>2
<1>10. ASSUME NEW q \in AuRequests
      PROVE  /\ auReq'[q] = [pc |-> auReq'[q].pc, text |-> auReq'[q].text, seen |-> auReq'[q].seen,
                             registered |-> auReq'[q].registered]
             /\ auReq'[q].pc = "done" => \E i \in DOMAIN new : new[i].text = auReq'[q].text
             /\ auReq'[q].pc = "insert" =>
                  /\ auReq'[q].seen \in Nat /\ auReq'[q].seen <= Len(new)
                  /\ \A i \in DOMAIN new : new[i].text = auReq'[q].text => auReq'[q].seen < i
  <2>1. CASE q = r
    <3>1. auReq'[q] = [pc |-> "done", text |-> req.text, seen |-> req.seen, registered |-> TRUE]
      BY <1>9, <2>1
    <3>2. auReq'[q].pc = "done" /\ auReq'[q].text = req.text /\ auReq'[q].seen = req.seen /\ auReq'[q].registered = TRUE
      BY <3>1
    <3>3. Len(new) \in DOMAIN new /\ new[Len(new)].text = req.text
      BY <1>7, <1>8
    <3> QED  BY <3>1, <3>2, <3>3
  <2>2. CASE q # r
    <3>1. PICK b : b = auReq[q]  OBVIOUS
    <3>2. /\ b = [pc |-> b.pc, text |-> b.text, seen |-> b.seen, registered |-> b.registered]
          /\ b.pc = "done" => \E i \in DOMAIN reg : reg[i].text = b.text
          /\ b.pc = "insert" =>
               /\ b.seen \in Nat /\ b.seen <= Len(reg)
               /\ \A i \in DOMAIN reg : reg[i].text = b.text => b.seen < i
      BY <1>1, <3>1 DEF RgInv
    <3>3. auReq'[q] = b
      BY <1>9, <2>2, <3>1
    <3>4. b.pc = "done" => \E i \in DOMAIN new : new[i].text = b.text
      BY <1>7, <3>2
    <3>5. b.pc = "insert" => /\ b.seen \in Nat /\ b.seen <= Len(new)
                             /\ \A i \in DOMAIN new : new[i].text = b.text => b.seen < i
      <4> SUFFICES ASSUME b.pc = "insert", NEW i \in DOMAIN new, new[i].text = b.text PROVE b.seen < i
        BY <1>7, <3>2
      <4>1. CASE i \in DOMAIN reg
        BY <1>7, <3>2, <4>1
      <4>2. CASE i = Len(new)
        BY <1>7, <3>2, <4>2
      <4> QED  BY <1>7, <4>1, <4>2
    <3> QED  BY <3>2, <3>3, <3>4, <3>5
  <2> QED  BY <2>1, <2>2
<1>11. \A i, j \in DOMAIN new : i < j /\ new[i].text = new[j].text => new[j].seen < i
  <2> SUFFICES ASSUME NEW i \in DOMAIN new, NEW j \in DOMAIN new, i < j, new[i].text = new[j].text
               PROVE  new[j].seen < i
    OBVIOUS
  <2>1. i \in DOMAIN reg
    BY <1>7
  <2>2. CASE j \in DOMAIN reg
    <3>1. \A x, y \in DOMAIN reg : x < y /\ reg[x].text = reg[y].text => reg[y].seen < x
      BY <1>1 DEF RgInv
    <3> QED  BY <1>7, <2>1, <2>2, <3>1
  <2>3. CASE j = Len(new)
    <3>1. reg[i].text = req.text
      BY <1>7, <1>8, <2>1, <2>3
    <3>2. req.seen < i
      BY <1>5, <2>1, <3>1
    <3> QED  BY <1>7, <1>8, <2>3, <3>2
  <2> QED  BY <1>7, <2>2, <2>3
<1>12. DOMAIN auReq' = AuRequests
  BY <1>2, <1>4
<1>13. auRegistry' = new
  BY <1>4, <1>6
<1>14. new \in Seq(Range(new))
  BY <1>7
<1> QED  BY <1>10, <1>11, <1>12, <1>13, <1>14 DEF RgInv

LEMMA RgStep == RgInv /\ [RegistryNext]_<<auRegistry, auReq>> => RgInv'
<1> SUFFICES ASSUME RgInv, [RegistryNext]_<<auRegistry, auReq>> PROVE RgInv'  OBVIOUS
<1>1. ASSUME NEW r \in AuRequests,
             (\E text \in AuTexts : validate(r, text)) \/ register_lookup(r) \/ RegisterFails(r)
      PROVE  RgInv'
  <2>1. PICK req : req = auReq[r]  OBVIOUS
  <2>2. req = [pc |-> req.pc, text |-> req.text, seen |-> req.seen, registered |-> req.registered]
        /\ DOMAIN auReq = AuRequests
    BY <2>1 DEF RgInv
  <2>3. auRegistry' = auRegistry
    BY <1>1 DEF validate, register_lookup, RegisterFails
  <2>4. ASSUME NEW text \in AuTexts, validate(r, text) PROVE RgInv'
    <3>1. auReq' = [auReq EXCEPT ![r] = [req EXCEPT !.pc = "lookup", !.text = text]]
      BY <2>1, <2>2, <2>4 DEF validate
    <3>2. [req EXCEPT !.pc = "lookup", !.text = text] =
              [pc |-> "lookup", text |-> text, seen |-> req.seen, registered |-> req.registered]
      BY <2>2, RgFields
    <3>3. PICK pc, seen, registered :
             pc = "lookup" /\ seen = req.seen /\ registered = req.registered
      OBVIOUS
    <3>4. auReq' = [auReq EXCEPT ![r] = [pc |-> pc, text |-> text, seen |-> seen, registered |-> registered]]
      BY <3>1, <3>2, <3>3
    <3>5. pc # "done" /\ pc # "insert"
      BY <3>3
    <3> QED  BY <2>3, <3>4, <3>5, RgMoves
  <2>5. ASSUME NEW pc, NEW seen, RequestTo(r, pc, seen)
        PROVE  auReq' = [auReq EXCEPT ![r] = [pc |-> pc, text |-> req.text, seen |-> seen, registered |-> req.registered]]
    <3>1. auReq' = [auReq EXCEPT ![r].pc = pc, ![r].seen = seen]
      BY <2>5 DEF RequestTo
    <3>2. auReq' = [auReq EXCEPT ![r] = [req EXCEPT !.pc = pc, !.seen = seen]]
      BY <2>1, <2>2, <3>1
    <3>3. [req EXCEPT !.pc = pc, !.seen = seen] =
              [pc |-> pc, text |-> req.text, seen |-> seen, registered |-> req.registered]
      BY <2>2, RgFields
    <3> QED  BY <3>2, <3>3
  <2>6. CASE register_lookup(r)
    <3>1. PICK pc, seen : /\ pc = IF \E i \in DOMAIN auRegistry : auRegistry[i].text = auReq[r].text THEN "done" ELSE "insert"
                          /\ seen = Len(auRegistry)
      OBVIOUS
    <3>2. RequestTo(r, pc, seen)
      BY <2>6, <3>1 DEF register_lookup
    <3>3. auReq' = [auReq EXCEPT ![r] = [pc |-> pc, text |-> req.text, seen |-> seen, registered |-> req.registered]]
      BY <2>5, <3>2
    <3>4. /\ pc = "done" => \E i \in DOMAIN auRegistry : auRegistry[i].text = req.text
          /\ pc = "insert" => seen = Len(auRegistry) /\ \A i \in DOMAIN auRegistry : auRegistry[i].text # req.text
      BY <2>1, <3>1
    <3> QED  BY <2>3, <3>3, <3>4, RgMoves
  <2>7. CASE RegisterFails(r)
    <3>1. PICK pc, text, seen, registered :
             pc = "failed" /\ text = req.text /\ seen = req.seen /\ registered = req.registered
      OBVIOUS
    <3>2. RequestTo(r, pc, seen)
      BY <2>1, <2>7, <3>1 DEF RegisterFails
    <3>3. auReq' = [auReq EXCEPT ![r] = [pc |-> pc, text |-> text, seen |-> seen, registered |-> registered]]
      BY <2>5, <3>1, <3>2
    <3>4. pc # "done" /\ pc # "insert"
      BY <3>1
    <3> QED  BY <2>3, <3>3, <3>4, RgMoves
  <2> QED  BY <1>1, <2>4, <2>6, <2>7
<1>2. ASSUME NEW r \in AuRequests, register_definition(r) PROVE RgInv'
  BY <1>2, RgInsertStep
<1>3. CASE UNCHANGED <<auRegistry, auReq>>
  BY <1>3 DEF RgInv
<1> QED  BY <1>1, <1>2, <1>3 DEF RegistryNext

AuIInv == AuPInv /\ RgInv

LEMMA AuStart == AuInit => AuIInv
BY AuPStart, RgStart DEF AuIInv

(* A step at the plugins leaves the registry, and the other way round. *)
LEMMA AuStep == AuIInv /\ [PluginsNext \/ TemplatesNext \/ RegistryNext]_auVars => AuIInv'
<1> SUFFICES ASSUME AuIInv, [PluginsNext \/ TemplatesNext \/ RegistryNext]_auVars PROVE AuIInv'  OBVIOUS
<1>1. CASE PluginsNext \/ TemplatesNext
  <2>1. UNCHANGED <<auRegistry, auReq>>
    BY <1>1 DEF PluginsNext, TemplatesNext, Install, Uninstall, scaffold, cmd_new_interactive, write_check,
                write_experiment, init_at, cmd_validate, StartRun, RunActivity, cmd_new_from_template
  <2> QED  BY <1>1, <2>1, AuPStep, RgStep DEF AuIInv
<1>2. CASE RegistryNext
  <2>1. UNCHANGED auPluginVars
    BY <1>2 DEF RegistryNext, validate, register_lookup, register_definition, RegisterFails
  <2> QED  BY <1>2, <2>1, AuPStep, RgStep DEF AuIInv
<1>3. CASE UNCHANGED auVars
  <2>1. UNCHANGED auPluginVars /\ UNCHANGED <<auRegistry, auReq>>
    BY <1>3 DEF auVars, auPluginVars
  <2> QED  BY <2>1, AuPStep, RgStep DEF AuIInv
<1> QED  BY <1>1, <1>2, <1>3

LEMMA AuHolds == AuIInv => AuthoringSound
<1> SUFFICES ASSUME AuIInv PROVE AuthoringSound  OBVIOUS
<1>1. AuthoredRuns /\ ValidationForesees /\ ArgumentsArrive
  BY DEF AuIInv, AuPInv, AuRunInv
<1>2. DiscoveryAgrees
  BY AuListed DEF AuIInv, AuPInv
<1>3. WrittenIsValid
  BY DEF AuIInv, AuPInv, AuNewInv, AuGood, WrittenIsValid
<1>4. RegistrySound
  BY DEF AuIInv, RgInv, RegistrySound
<1> QED  BY <1>1, <1>2, <1>3, <1>4 DEF AuthoringSound

-----------------------------------------------------------------------------
(* Definitions: what runs is what was approved, wherever the host moves.      *)

(* The activities of an experiment after the substitution of their texts. *)
DfEach(acts, given, config, secrets) ==
    [i \in DOMAIN acts |->
        [acts[i] EXCEPT !.owner = substitute_vars(@, given, config, secrets),
                        !.args = substitute_vars(@, given, config, secrets)]]

(* An experiment comes of a definition: its own texts when there is nothing to
   substitute, the substituted ones otherwise, whatever the secrets are. *)
DfMade(exp, doc, given, config) ==
    \E secrets :
        /\ secrets = [k \in DOMAIN doc.secrets |-> secrets[k]]
        /\ IF given = <<>> /\ config = <<>> /\ secrets = <<>> THEN exp = doc
           ELSE /\ exp.method = DfEach(doc.method, given, config, secrets)
                /\ exp.rollbacks = DfEach(doc.rollbacks, given, config, secrets)

(* Every activity of an experiment may run with the injected variables. *)
DfRunnable(exp, injected) ==
    \A act \in Range(exp.method) \cup Range(exp.rollbacks) :
        /\ act.kind = "script" => validate_script_name(act.owner)
        /\ injected # {} => \A text \in Texts(act) : \A tok \in Range(text) : tok.t # "var"

LEMMA DfLookup ==
    ASSUME NEW ns, NEW key, NEW given, NEW config, NEW s0, NEW s1
    PROVE  /\ ns # "secrets" => lookup_var(ns, key, given, config, s0) = lookup_var(ns, key, given, config, s1)
           /\ lookup_var(ns, key, given, config, s0)
                 \in Range(given) \cup {config[k] : k \in DOMAIN config}
                     \cup {s0[k] : k \in DOMAIN s0} \cup {DfNone}
<1>1. ns # "secrets" => lookup_var(ns, key, given, config, s0) = lookup_var(ns, key, given, config, s1)
  <2>1. CASE <<ns, key>> \in DOMAIN given BY <2>1 DEF lookup_var
  <2>2. CASE <<ns, key>> \notin DOMAIN given /\ ns = "config" /\ key \in DOMAIN config
    BY <2>2 DEF lookup_var
  <2>3. CASE <<ns, key>> \notin DOMAIN given /\ ~(ns = "config" /\ key \in DOMAIN config)
    BY <2>3 DEF lookup_var
  <2> QED BY <2>1, <2>2, <2>3
<1>2. CASE <<ns, key>> \in DOMAIN given
  BY <1>1, <1>2 DEF lookup_var, Range
<1>3. CASE <<ns, key>> \notin DOMAIN given /\ ns = "config" /\ key \in DOMAIN config
  BY <1>1, <1>3 DEF lookup_var
<1>4. CASE <<ns, key>> \notin DOMAIN given /\ ns = "secrets" /\ key \in DOMAIN s0
  BY <1>1, <1>4 DEF lookup_var
<1>5. CASE /\ <<ns, key>> \notin DOMAIN given /\ ~(ns = "config" /\ key \in DOMAIN config)
           /\ ~(ns = "secrets" /\ key \in DOMAIN s0)
  BY <1>1, <1>5 DEF lookup_var
<1> QED BY <1>1, <1>2, <1>3, <1>4, <1>5

(* A substituted text holds no placeholder, says what was said or looked up,
   and does not depend on the secrets elsewhere than in their places. *)
LEMMA DfSubstituted ==
    ASSUME NEW text, DfText(text), NEW given, NEW config, NEW s0, NEW s1,
           NEW new, new = substitute_vars(text, given, config, s0),
           NEW i \in DOMAIN text
    PROVE  /\ DOMAIN new = DOMAIN text /\ new[i].t # "var"
           /\ \/ new[i].v = text[i].v
              \/ new[i].v = lookup_var(text[i].ns, text[i].v, given, config, s0)
           /\ i \notin SecretPlaces(text) => new[i] = substitute_vars(text, given, config, s1)[i]
<1> DEFINE tok == text[i]
<1>1. DfWithFields(tok, {"t", "ns", "v"}) BY DEF DfText
<1>2. {"t", "ns", "v"} \subseteq DOMAIN tok BY <1>1 DEF DfWithFields
<1>3. DOMAIN new = DOMAIN text
      /\ new[i] = CASE tok.t = "lit" -> tok
                    [] tok.t = "esc" -> [tok EXCEPT !.t = "raw"]
                    [] tok.t = "var" -> Lit(lookup_var(tok.ns, tok.v, given, config, s0))
                    [] OTHER -> tok
  BY Zenon DEF substitute_vars
<1>4. substitute_vars(text, given, config, s1)[i]
         = CASE tok.t = "lit" -> tok
             [] tok.t = "esc" -> [tok EXCEPT !.t = "raw"]
             [] tok.t = "var" -> Lit(lookup_var(tok.ns, tok.v, given, config, s1))
             [] OTHER -> tok
  BY Zenon DEF substitute_vars
<1>5. i \notin SecretPlaces(text) => tok.t # "var" \/ tok.ns # "secrets" BY DEF SecretPlaces
<1>6. tok.ns # "secrets" => lookup_var(tok.ns, tok.v, given, config, s0)
                              = lookup_var(tok.ns, tok.v, given, config, s1)
  BY DfLookup
<1> HIDE DEF tok
<1>7. CASE tok.t = "lit" BY <1>2, <1>3, <1>4, <1>7 DEF tok
<1>8. CASE tok.t = "esc"
  <2>1. new[i] = [tok EXCEPT !.t = "raw"] BY <1>3, <1>8
  <2>2. new[i].t = "raw" /\ new[i].v = tok.v BY <1>2, <2>1
  <2>3. substitute_vars(text, given, config, s1)[i] = [tok EXCEPT !.t = "raw"] BY <1>4, <1>8
  <2> QED BY <1>3, <2>1, <2>2, <2>3 DEF tok
<1>9. CASE tok.t = "var"
  <2>1. new[i] = Lit(lookup_var(tok.ns, tok.v, given, config, s0)) BY <1>3, <1>9
  <2>2. new[i].t = "lit" /\ new[i].v = lookup_var(tok.ns, tok.v, given, config, s0) BY <2>1 DEF Lit
  <2>3. substitute_vars(text, given, config, s1)[i] = Lit(lookup_var(tok.ns, tok.v, given, config, s1))
    BY <1>4, <1>9
  <2>4. i \notin SecretPlaces(text) => new[i] = substitute_vars(text, given, config, s1)[i]
    BY <1>5, <1>6, <1>9, <2>1, <2>3
  <2> QED BY <1>3, <2>2, <2>4 DEF tok
<1>10. CASE tok.t # "lit" /\ tok.t # "esc" /\ tok.t # "var"
  <2>1. new[i] = tok BY <1>3, <1>10
  <2>2. substitute_vars(text, given, config, s1)[i] = tok BY <1>4, <1>10
  <2> QED BY <1>3, <1>10, <2>1, <2>2 DEF tok
<1> QED BY <1>7, <1>8, <1>9, <1>10

(* The fields of a substituted activity. *)
LEMMA DfEachFields ==
    ASSUME NEW acts, DfActs(acts), NEW given, NEW config, NEW secrets,
           NEW new, new = DfEach(acts, given, config, secrets), NEW i \in DOMAIN acts
    PROVE  /\ DOMAIN new = DOMAIN acts
           /\ new[i].name = acts[i].name /\ new[i].kind = acts[i].kind
           /\ new[i].owner = substitute_vars(acts[i].owner, given, config, secrets)
           /\ new[i].args = substitute_vars(acts[i].args, given, config, secrets)
           /\ DfText(acts[i].owner) /\ DfText(acts[i].args)
<1> DEFINE act == acts[i]
           own == [act EXCEPT !.owner = substitute_vars(act.owner, given, config, secrets)]
<1>1. {"name", "kind", "owner", "args"} \subseteq DOMAIN act /\ DfText(act.owner) /\ DfText(act.args)
  BY DEF DfActs, DfWithFields
<1>2. /\ own.name = act.name /\ own.kind = act.kind /\ own.args = act.args
      /\ own.owner = substitute_vars(act.owner, given, config, secrets) /\ DOMAIN own = DOMAIN act
  BY <1>1
<1>3. DOMAIN new = DOMAIN acts
      /\ new[i] = [own EXCEPT !.args = substitute_vars(own.args, given, config, secrets)]
  BY Zenon DEF DfEach
<1> HIDE DEF own
<1> QED BY <1>1, <1>2, <1>3

LEMMA DfEachSeq ==
    ASSUME NEW acts, acts \in Seq(Range(acts)), NEW given, NEW config, NEW secrets,
           NEW new, new = DfEach(acts, given, config, secrets)
    PROVE  new \in Seq(Range(new))
<1>1. DOMAIN acts = 1 .. Len(acts) /\ Len(acts) \in Nat OBVIOUS
<1>2. \A i \in DOMAIN acts : new[i] \in Range(new) BY DEF DfEach, Range
<1>3. new \in [1 .. Len(acts) -> Range(new)] BY <1>1, <1>2 DEF DfEach
<1> QED BY <1>1, <1>3

(* The elements of three lists, one after the other. *)
LEMMA DfJoined ==
    ASSUME NEW T, NEW s \in Seq(T), NEW t \in Seq(T)
    PROVE  s \o t \in Seq(T) /\ Range(s \o t) = Range(s) \cup Range(t)
<1>1. s \o t \in Seq(T) /\ Len(s \o t) = Len(s) + Len(t) /\ Len(s) \in Nat /\ Len(t) \in Nat
      /\ DOMAIN s = 1 .. Len(s) /\ DOMAIN t = 1 .. Len(t) /\ DOMAIN (s \o t) = 1 .. Len(s) + Len(t)
  OBVIOUS
<1>2. \A n \in 1 .. Len(s) + Len(t) : (s \o t)[n] = IF n <= Len(s) THEN s[n] ELSE t[n - Len(s)]
  OBVIOUS
<1> DEFINE r == s \o t
<1>3. \A n \in 1 .. Len(s) : r[n] = s[n] /\ n \in 1 .. Len(s) + Len(t) BY <1>1, <1>2
<1>4. \A n \in 1 .. Len(t) : r[n + Len(s)] = t[n] /\ n + Len(s) \in 1 .. Len(s) + Len(t) BY <1>1, <1>2
<1>5. \A n \in 1 .. Len(s) + Len(t) : n \in 1 .. Len(s) \/ n - Len(s) \in 1 .. Len(t) BY <1>1
<1>6. \A n \in 1 .. Len(s) + Len(t) : r[n] \in Range(s) \cup Range(t)
  <2> TAKE n \in 1 .. Len(s) + Len(t)
  <2>1. CASE n <= Len(s) BY <1>1, <1>2, <2>1 DEF Range
  <2>2. CASE ~(n <= Len(s)) BY <1>1, <1>2, <1>5, <2>2 DEF Range
  <2> QED BY <2>1, <2>2
<1> HIDE DEF r
<1>7. DOMAIN r = 1 .. Len(s) + Len(t) BY <1>1 DEF r
<1>8. Range(r) \subseteq Range(s) \cup Range(t) BY <1>6, <1>7 DEF Range
<1>9. Range(s) \subseteq Range(r) BY <1>1, <1>3, <1>7 DEF Range
<1>10. Range(t) \subseteq Range(r) BY <1>1, <1>4, <1>7 DEF Range
<1> QED BY <1>1, <1>8, <1>9, <1>10 DEF r

LEMMA DfActivities ==
    ASSUME NEW s, s \in Seq(Range(s)), NEW t, t \in Seq(Range(t)), NEW u, u \in Seq(Range(u))
    PROVE  Range(s \o t \o u) = Range(s) \cup Range(t) \cup Range(u)
<1> DEFINE T == Range(s) \cup Range(t) \cup Range(u)
<1>1. s \in Seq(T) /\ t \in Seq(T) /\ u \in Seq(T) OBVIOUS
<1> HIDE DEF T
<1>2. s \o t \in Seq(T) /\ Range(s \o t) = Range(s) \cup Range(t) BY <1>1, DfJoined
<1> DEFINE r == s \o t
<1> HIDE DEF r
<1>3. r \in Seq(T) /\ Range(r) = Range(s) \cup Range(t) BY <1>2 DEF r
<1>4. Range(r \o u) = Range(r) \cup Range(u) BY <1>1, <1>3, DfJoined
<1> QED BY <1>3, <1>4 DEF r

(* What the substitution of a definition's texts answers. *)
DfFilled(exp, doc, given, config, secrets) ==
    /\ exp.method = DfEach(doc.method, given, config, secrets)
    /\ exp.rollbacks = DfEach(doc.rollbacks, given, config, secrets)
    /\ exp.probes = DfEach(doc.probes, given, config, secrets)
    /\ Range(Activities(exp)) = Range(exp.method) \cup Range(exp.rollbacks) \cup Range(exp.probes)

LEMMA DfApplied ==
    ASSUME NEW doc \in DfDocs, NEW given, NEW config, NEW secrets,
           NEW r, r = apply_template_vars(doc, given, config, secrets)
    PROVE  \/ r.ok = FALSE /\ r.stage = "template"
           \/ r.ok = TRUE /\ DfFilled(r.v, doc, given, config, secrets)
<1> DEFINE each(acts) == DfEach(acts, given, config, secrets)
           new == [doc EXCEPT !.method = each(@), !.rollbacks = each(@), !.probes = each(@)]
<1>1. {"method", "rollbacks", "probes"} \subseteq DOMAIN doc
      /\ DfActs(doc.method) /\ DfActs(doc.rollbacks) /\ DfActs(doc.probes)
  BY DfDocsAssumption DEF DfWithFields
<1>2. new.method = each(doc.method) /\ new.rollbacks = each(doc.rollbacks) /\ new.probes = each(doc.probes)
  <2> DEFINE m == each(doc.method)
             b == each(doc.rollbacks)
             p == each(doc.probes)
  <2>1. new = [doc EXCEPT !.method = m, !.rollbacks = b, !.probes = p] OBVIOUS
  <2> HIDE DEF m, b, p, new
  <2>2. new.method = m /\ new.rollbacks = b /\ new.probes = p BY <1>1, <2>1
  <2> QED BY <2>2 DEF m, b, p
<1>3. r = IF \E a \in Range(Activities(new)) : \E text \in Texts(a) : Lit(DfNone) \in Range(text)
          THEN Failed("template") ELSE Good(new)
  BY Zenon DEF apply_template_vars, DfEach
<1>4. r = Failed("template") \/ r = Good(new) BY <1>3, Zenon
<1> HIDE DEF new
<1>5. Range(Activities(new)) = Range(new.method) \cup Range(new.rollbacks) \cup Range(new.probes)
  <2> DEFINE m == new.method
             b == new.rollbacks
             p == new.probes
  <2>1. doc.method \in Seq(Range(doc.method)) /\ doc.rollbacks \in Seq(Range(doc.rollbacks))
        /\ doc.probes \in Seq(Range(doc.probes))
    BY <1>1 DEF DfActs
  <2>2. m = DfEach(doc.method, given, config, secrets) /\ b = DfEach(doc.rollbacks, given, config, secrets)
        /\ p = DfEach(doc.probes, given, config, secrets)
    BY <1>2
  <2> HIDE DEF m, b, p
  <2>3. m \in Seq(Range(m)) /\ b \in Seq(Range(b)) /\ p \in Seq(Range(p))
    BY <2>1, <2>2, DfEachSeq
  <2>4. Range(m \o b \o p) = Range(m) \cup Range(b) \cup Range(p) BY <2>3, DfActivities
  <2> QED BY <2>4 DEF Activities, m, b, p
<1>6. CASE r = Failed("template") BY <1>6 DEF Failed
<1>7. CASE r = Good(new)
  <2>1. r.ok = TRUE /\ r.v = new BY <1>7 DEF Good
  <2>2. DfFilled(new, doc, given, config, secrets) BY <1>2, <1>5 DEF DfFilled
  <2> QED BY <2>1, <2>2
<1> QED BY <1>4, <1>6, <1>7

(* A resolution fails, or gives every entry a value. *)
DfOf(values, entries) == values = [k \in DOMAIN entries |-> values[k]]

LEMMA DfResolved ==
    ASSUME NEW entries, NEW stage, NEW r, r = Resolved(entries, stage)
    PROVE  \/ r.ok = FALSE /\ r.stage = stage
           \/ r.ok = TRUE /\ DfOf(r.v, entries)
<1> DEFINE value(e) == IF e.from = "inline" THEN e.v ELSE dfHost[e.v]
           all == [k \in DOMAIN entries |-> value(entries[k])]
<1>1. r = Failed(stage) \/ r = Good(all) BY Zenon DEF Resolved
<1>2. all = [k \in DOMAIN entries |-> all[k]] OBVIOUS
<1> HIDE DEF all
<1>3. CASE r = Failed(stage) BY <1>3 DEF Failed
<1>4. CASE r = Good(all)
  <2>1. r.ok = TRUE /\ r.v = all BY <1>4 DEF Good
  <2> QED BY <1>2, <2>1 DEF DfOf
<1> QED BY <1>1, <1>3, <1>4

(* No variable is injected of nothing. *)
LEMMA DfNothingInjected == Injected(<<>>, <<>>) = {}
<1>1. DOMAIN <<>> = {} OBVIOUS
<1>2. \A prefix : build_prefixed_env(<<>>, prefix) = {} BY <1>1, Zenon DEF build_prefixed_env
<1> QED BY <1>2, Zenon DEF Injected

LEMMA DfEmpty ==
    ASSUME NEW f, f = [k \in DOMAIN f |-> f[k]], DOMAIN f = {}
    PROVE  f = <<>>
<1>1. f = [k \in 1 .. 0 |-> f[k]] OBVIOUS
<1>2. f \in Seq({}) BY <1>1
<1>3. Len(f) = 0 BY <1>1, <1>2
<1> QED BY <1>2, <1>3

(* What a definition is prepared into, whatever the host says. *)
LEMMA DfPrepared ==
    ASSUME NEW doc \in DfDocs, NEW given, NEW config,
           NEW p, p = prepare_definition(doc, given, config)
    PROVE  \/ p.ok = FALSE /\ p.stage \in DfStages
           \/ /\ p.ok = TRUE /\ DfMade(p.v.exp, doc, given, config)
              /\ DfRunnable(p.v.exp, p.v.injected)
<1> DEFINE secrets == resolve_secrets(doc)
           made == apply_template_vars(doc, given, config, secrets.v)
           exp == IF given = <<>> /\ config = <<>> /\ secrets.v = <<>> THEN Good(doc) ELSE made
           good == [exp |-> exp.v, injected |-> Injected(config, secrets.v)]
<1>1. p = CASE ~secrets.ok -> secrets
            [] secrets.ok /\ ~exp.ok -> exp
            [] secrets.ok /\ exp.ok /\ ~validate_experiment(exp.v) -> Failed("validate")
            [] OTHER -> Good(good)
  BY Zenon DEF prepare_definition
<1>2. \/ secrets.ok = FALSE /\ secrets.stage = "secrets"
      \/ secrets.ok = TRUE /\ DfOf(secrets.v, doc.secrets)
  BY DfResolved DEF resolve_secrets
<1>3. \/ made.ok = FALSE /\ made.stage = "template"
      \/ made.ok = TRUE /\ DfFilled(made.v, doc, given, config, secrets.v)
  <2>1. PICK s : s = secrets.v OBVIOUS
  <2>2. made = apply_template_vars(doc, given, config, s) BY <2>1
  <2> HIDE DEF made, secrets
  <2>3. \/ made.ok = FALSE /\ made.stage = "template"
        \/ made.ok = TRUE /\ DfFilled(made.v, doc, given, config, s)
    BY <2>2, DfApplied
  <2> QED BY <2>1, <2>3
<1>4. exp = IF given = <<>> /\ config = <<>> /\ secrets.v = <<>> THEN Good(doc) ELSE made OBVIOUS
<1> DEFINE gone == Failed("validate")
<1>5. gone.ok = FALSE /\ gone.stage = "validate" BY DEF Failed
<1>6. Good(doc).ok = TRUE /\ Good(doc).v = doc BY DEF Good
<1>7. Good(good).ok = TRUE /\ Good(good).v = good BY DEF Good
<1>8. good.exp = exp.v /\ good.injected = Injected(config, secrets.v) OBVIOUS
<1>9. p = CASE ~secrets.ok -> secrets
            [] secrets.ok /\ ~exp.ok -> exp
            [] secrets.ok /\ exp.ok /\ ~validate_experiment(exp.v) -> gone
            [] OTHER -> Good(good)
  BY <1>1, Zenon
<1> DEFINE done == Good(good)
<1>10. done.ok = TRUE /\ done.v = good BY <1>7
<1>11. "secrets" \in DfStages /\ "template" \in DfStages /\ "validate" \in DfStages BY DEF DfStages
<1> HIDE DEF secrets, made, exp, good, gone, done
<1>12. p = CASE ~secrets.ok -> secrets
             [] secrets.ok /\ ~exp.ok -> exp
             [] secrets.ok /\ exp.ok /\ ~validate_experiment(exp.v) -> gone
             [] OTHER -> done
  BY <1>9, Zenon DEF done
<1>13. (exp.ok = FALSE /\ exp.stage = "template") \/ exp.ok = TRUE BY <1>3, <1>4, <1>6
<1>14. CASE secrets.ok = FALSE
  <2>1. p = secrets BY <1>12, <1>14
  <2> QED BY <1>2, <1>11, <1>14, <2>1
<1>15. CASE secrets.ok = TRUE /\ exp.ok = FALSE
  <2>1. p = exp BY <1>12, <1>15
  <2> QED BY <1>11, <1>13, <1>15, <2>1
<1>16. CASE secrets.ok = TRUE /\ exp.ok = TRUE /\ ~validate_experiment(exp.v)
  <2>1. p = gone BY <1>12, <1>16
  <2> QED BY <1>5, <1>11, <2>1
<1>17. CASE secrets.ok = TRUE /\ exp.ok = TRUE /\ validate_experiment(exp.v)
  <2>1. p = done BY <1>12, <1>17
  <2>2. p.ok = TRUE /\ p.v.exp = exp.v /\ p.v.injected = Injected(config, secrets.v)
    BY <1>8, <1>10, <2>1
  <2>3. secrets.v = [k \in DOMAIN doc.secrets |-> secrets.v[k]] BY <1>2, <1>17 DEF DfOf
  <2>4. \A a \in Range(Activities(exp.v)) : a.kind = "script" => validate_script_name(a.owner)
    BY <1>17 DEF validate_experiment
  <2>5. CASE given = <<>> /\ config = <<>> /\ secrets.v = <<>>
    <3>1. exp.v = doc BY <1>4, <1>6, <2>5
    <3>2. DfMade(exp.v, doc, given, config) BY <2>3, <2>5, <3>1 DEF DfMade
    <3>3. p.v.injected = {} BY <2>2, <2>5, DfNothingInjected
    <3>4. Range(Activities(doc)) = Range(doc.method) \cup Range(doc.rollbacks) \cup Range(doc.probes)
      BY DfDocsAssumption, DfActivities DEF DfActs, Activities
    <3>5. DfRunnable(p.v.exp, p.v.injected) BY <2>2, <2>4, <3>1, <3>3, <3>4 DEF DfRunnable
    <3> QED BY <2>2, <3>2, <3>5
  <2>6. CASE ~(given = <<>> /\ config = <<>> /\ secrets.v = <<>>)
    <3>1. exp = made /\ made.ok = TRUE BY <1>4, <1>17, <2>6
    <3> DEFINE new == exp.v
    <3>2. /\ new.method = DfEach(doc.method, given, config, secrets.v)
          /\ new.rollbacks = DfEach(doc.rollbacks, given, config, secrets.v)
          /\ Range(Activities(new)) = Range(new.method) \cup Range(new.rollbacks) \cup Range(new.probes)
      <4>1. DfFilled(made.v, doc, given, config, secrets.v) BY <1>3, <3>1
      <4> QED BY <3>1, <4>1 DEF DfFilled
    <3>3. DfMade(new, doc, given, config) BY <2>3, <2>6, <3>2 DEF DfMade
    <3>4. \A act \in Range(new.method) \cup Range(new.rollbacks) :
             \A text \in Texts(act) : \A tok \in Range(text) : tok.t # "var"
      <4>1. ASSUME NEW acts, DfActs(acts), NEW each, each = DfEach(acts, given, config, secrets.v),
                   NEW act \in Range(each), NEW text \in Texts(act), NEW tok \in Range(text)
            PROVE  tok.t # "var"
        <5>1. PICK i \in DOMAIN each : act = each[i] BY <4>1 DEF Range
        <5>2. i \in DOMAIN acts BY <4>1, Zenon DEF DfEach
        <5>3. /\ act.owner = substitute_vars(acts[i].owner, given, config, secrets.v)
              /\ act.args = substitute_vars(acts[i].args, given, config, secrets.v)
              /\ DfText(acts[i].owner) /\ DfText(acts[i].args)
          BY <4>1, <5>1, <5>2, DfEachFields
        <5>4. PICK was : DfText(was) /\ text = substitute_vars(was, given, config, secrets.v)
          BY <4>1, <5>3 DEF Texts
        <5>5. PICK k \in DOMAIN text : tok = text[k] BY <4>1 DEF Range
        <5>6. k \in DOMAIN was BY <5>4, <5>5, Zenon DEF substitute_vars
        <5> QED BY <5>4, <5>5, <5>6, DfSubstituted
      <4>2. DfActs(doc.method) /\ DfActs(doc.rollbacks) BY DfDocsAssumption
      <4> QED BY <3>2, <4>1, <4>2
    <3>5. DfRunnable(new, p.v.injected) BY <2>4, <3>2, <3>4 DEF DfRunnable
    <3> QED BY <2>2, <3>3, <3>5
  <2> QED BY <2>5, <2>6
<1> QED BY <1>2, <1>13, <1>14, <1>15, <1>16, <1>17

(* The failures of every answer and of every stored error are among the stages. *)
LEMMA DfStagesTold ==
    /\ \A given : \A doc \in DfDocs : LET p == prepare_run(doc, given)
                                     c == capture(doc, given) IN
          /\ p.ok = TRUE \/ (p.ok = FALSE /\ p.stage \in DfStages)
          /\ (c.ok = TRUE /\ c.v.doc = doc /\ c.v.vars = given) \/ (c.ok = FALSE /\ c.stage \in DfStages)
    /\ \A plan : plan.doc \in DfDocs => LET p == prepare_plan(plan) IN
          \/ p.ok = FALSE /\ p.stage \in DfStages
          \/ /\ p.ok = TRUE /\ DfMade(p.v.exp, plan.doc, plan.vars, plan.config)
             /\ DfRunnable(p.v.exp, p.v.injected)
<1>0. "config" \in DfStages /\ "changed" \in DfStages BY DEF DfStages
<1>1. ASSUME NEW doc \in DfDocs, NEW given, NEW p, p = prepare_run(doc, given)
      PROVE  p.ok = TRUE \/ (p.ok = FALSE /\ p.stage \in DfStages)
  <2> DEFINE config == resolve_config(doc)
  <2>1. p = IF ~config.ok THEN config ELSE prepare_definition(doc, given, config.v)
    BY <1>1, Zenon DEF prepare_run
  <2>2. (config.ok = FALSE /\ config.stage = "config") \/ config.ok = TRUE
    BY DfResolved DEF resolve_config
  <2> HIDE DEF config
  <2>3. CASE ~config.ok BY <1>0, <2>1, <2>2, <2>3
  <2>4. CASE config.ok
    <3>1. PICK c : c = config.v OBVIOUS
    <3>2. p = prepare_definition(doc, given, c) BY <2>1, <2>4, <3>1
    <3> QED BY <3>2, DfPrepared
  <2> QED BY <2>3, <2>4
<1>2. ASSUME NEW doc \in DfDocs, NEW given, NEW c, c = capture(doc, given)
      PROVE  (c.ok = TRUE /\ c.v.doc = doc /\ c.v.vars = given) \/ (c.ok = FALSE /\ c.stage \in DfStages)
  <2> DEFINE config == resolve_config(doc)
             plan == [doc |-> doc, vars |-> given, config |-> config.v]
  <2>1. c = IF ~config.ok THEN config ELSE Good(plan) BY <1>2, Zenon DEF capture
  <2>2. (config.ok = FALSE /\ config.stage = "config") \/ config.ok = TRUE
    BY DfResolved DEF resolve_config
  <2>3. plan.doc = doc /\ plan.vars = given OBVIOUS
  <2> HIDE DEF config, plan
  <2>4. CASE ~config.ok BY <1>0, <2>1, <2>2, <2>4
  <2>5. CASE config.ok
    <3>1. c = Good(plan) BY <2>1, <2>5
    <3>2. c.ok = TRUE /\ c.v = plan BY <3>1 DEF Good
    <3>3. c.v.doc = doc /\ c.v.vars = given BY <2>3, <3>2
    <3> QED BY <3>2, <3>3
  <2> QED BY <2>4, <2>5
<1>3. ASSUME NEW plan, plan.doc \in DfDocs, NEW p, p = prepare_plan(plan)
      PROVE  \/ p.ok = FALSE /\ p.stage \in DfStages
             \/ /\ p.ok = TRUE /\ DfMade(p.v.exp, plan.doc, plan.vars, plan.config)
                /\ DfRunnable(p.v.exp, p.v.injected)
  <2> DEFINE config == resolve_config(plan.doc)
             changed == Failed("changed")
  <2>1. p = CASE ~config.ok -> config
              [] config.ok /\ config.v # plan.config -> changed
              [] OTHER -> prepare_definition(plan.doc, plan.vars, config.v)
    BY <1>3, Zenon DEF prepare_plan
  <2>2. (config.ok = FALSE /\ config.stage = "config") \/ config.ok = TRUE
    BY DfResolved DEF resolve_config
  <2>3. changed.ok = FALSE /\ changed.stage = "changed" BY DEF Failed
  <2> HIDE DEF config, changed
  <2>4. CASE ~config.ok
    <3>1. p = config BY <2>1, <2>4
    <3> QED BY <1>0, <2>2, <2>4, <3>1
  <2>5. CASE config.ok /\ config.v # plan.config
    <3>1. p = changed BY <2>1, <2>5
    <3> QED BY <1>0, <2>3, <3>1
  <2>6. CASE config.ok /\ config.v = plan.config
    <3>1. p = prepare_definition(plan.doc, plan.vars, plan.config) BY <2>1, <2>6
    <3> QED BY <1>3, <3>1, DfPrepared
  <2> QED BY <2>4, <2>5, <2>6
<1> QED BY <1>1, <1>2, <1>3

(* What a definition says: every token of its texts, and its inline values. *)
LEMMA DfSaidOf ==
    ASSUME NEW doc
    PROVE  /\ \A act \in Range(doc.method \o doc.rollbacks \o doc.probes) :
                 \A text \in {act.owner, act.args} : \A k \in DOMAIN text : text[k].v \in DfSaid(doc)
           /\ \A k \in DOMAIN doc.config : doc.config[k].from = "inline" => doc.config[k].v \in DfSaid(doc)
<1> DEFINE acts == Range(doc.method \o doc.rollbacks \o doc.probes)
           told == UNION {DfTokens(text) : text \in DfTexts(doc)}
           plain == {doc.config[k].v : k \in DfInline(doc)}
<1>1. DfSaid(doc) = told \cup plain BY DEF DfSaid
<1>2. ASSUME NEW act \in acts, NEW text \in {act.owner, act.args}, NEW k \in DOMAIN text
      PROVE  text[k].v \in DfSaid(doc)
  <2>1. text \in DfTexts(doc) BY DEF DfTexts
  <2>2. text[k].v \in DfTokens(text) BY DEF DfTokens
  <2>3. text[k].v \in told BY <2>1, <2>2, Zenon
  <2> HIDE DEF told, plain
  <2> QED BY <1>1, <2>3
<1>3. ASSUME NEW k \in DfInline(doc) PROVE doc.config[k].v \in DfSaid(doc)
  <2>1. doc.config[k].v \in plain BY <1>3, Zenon
  <2> HIDE DEF told, plain
  <2> QED BY <1>1, <2>1
<1> QED BY <1>2, <1>3 DEF DfInline

(* A preview shows what the definition and the request said. *)
LEMMA DfPreviewHidden ==
    ASSUME NEW doc \in DfDocs, NEW given \in DfVars, preview_experiment(doc, given).ok
    PROVE  Values(preview_experiment(doc, given).v) \cap DfValues = {}
<1> DEFINE config == [k \in DOMAIN doc.config |->
                         IF doc.config[k].from = "inline" THEN doc.config[k].v ELSE DfRedacted]
           secrets == [k \in DOMAIN doc.secrets |-> DfRedacted]
           shown == apply_template_vars(doc, given, config, secrets)
           new == shown.v
<1>1. preview_experiment(doc, given) = shown BY Zenon DEF preview_experiment
<1>2. /\ new.method = DfEach(doc.method, given, config, secrets)
      /\ new.rollbacks = DfEach(doc.rollbacks, given, config, secrets)
      /\ new.probes = DfEach(doc.probes, given, config, secrets)
      /\ Range(Activities(new)) = Range(new.method) \cup Range(new.rollbacks) \cup Range(new.probes)
  <2>1. shown.ok BY <1>1, Zenon
  <2>2. PICK c, s : c = config /\ s = secrets OBVIOUS
  <2>3. shown = apply_template_vars(doc, given, c, s) BY <2>2
  <2> HIDE DEF shown, config, secrets
  <2>4. DfFilled(shown.v, doc, given, c, s) BY <2>1, <2>3, DfApplied
  <2> QED BY <2>2, <2>4 DEF DfFilled
<1>3. /\ DfActs(doc.method) /\ DfActs(doc.rollbacks) /\ DfActs(doc.probes)
      /\ Range(doc.method \o doc.rollbacks \o doc.probes)
           = Range(doc.method) \cup Range(doc.rollbacks) \cup Range(doc.probes)
  BY DfDocsAssumption, DfActivities DEF DfActs
<1>4. /\ DfSaid(doc) \cap DfValues = {} /\ Range(given) \cap DfValues = {}
      /\ DfRedacted \notin DfValues /\ DfNone \notin DfValues
  BY DfValuesAssumption
<1>5. \A k \in DOMAIN config : config[k] \in DfSaid(doc) \cup {DfRedacted}
  <2> TAKE k \in DOMAIN config
  <2>1. k \in DOMAIN doc.config
        /\ config[k] = IF doc.config[k].from = "inline" THEN doc.config[k].v ELSE DfRedacted
    OBVIOUS
  <2> QED BY <2>1, DfSaidOf
<1>6. \A k \in DOMAIN secrets : secrets[k] = DfRedacted OBVIOUS
<1> HIDE DEF config, secrets, shown, new
<1>7. \A ns, key : lookup_var(ns, key, given, config, secrets) \notin DfValues
  <2> TAKE ns, key
  <2>1. lookup_var(ns, key, given, config, secrets)
          \in Range(given) \cup {config[k] : k \in DOMAIN config}
              \cup {secrets[k] : k \in DOMAIN secrets} \cup {DfNone}
    BY DfLookup
  <2> QED BY <1>4, <1>5, <1>6, <2>1
<1>8. ASSUME NEW acts, DfActs(acts), Range(acts) \subseteq Range(doc.method \o doc.rollbacks \o doc.probes),
             NEW each, each = DfEach(acts, given, config, secrets),
             NEW act \in Range(each), NEW text \in Texts(act), NEW tok \in Range(text)
      PROVE  tok.v \notin DfValues
  <2>1. PICK i \in DOMAIN each : act = each[i] BY <1>8 DEF Range
  <2>2. i \in DOMAIN acts BY <1>8, Zenon DEF DfEach
  <2>3. /\ act.owner = substitute_vars(acts[i].owner, given, config, secrets)
        /\ act.args = substitute_vars(acts[i].args, given, config, secrets)
        /\ DfText(acts[i].owner) /\ DfText(acts[i].args)
    BY <1>8, <2>1, <2>2, DfEachFields
  <2>4. acts[i] \in Range(doc.method \o doc.rollbacks \o doc.probes) BY <1>8, <2>2 DEF Range
  <2>5. PICK was \in {acts[i].owner, acts[i].args} :
           DfText(was) /\ text = substitute_vars(was, given, config, secrets)
    BY <1>8, <2>3 DEF Texts
  <2>6. PICK k \in DOMAIN text : tok = text[k] BY <1>8 DEF Range
  <2>7. k \in DOMAIN was BY <2>5, <2>6, Zenon DEF substitute_vars
  <2>8. was[k].v \in DfSaid(doc) BY <2>4, <2>5, <2>7, DfSaidOf
  <2>9. tok.v = was[k].v \/ tok.v = lookup_var(was[k].ns, was[k].v, given, config, secrets)
    BY <2>5, <2>6, <2>7, DfSubstituted
  <2> QED BY <1>4, <1>7, <2>8, <2>9
<1>9. ASSUME NEW v \in Values(new) PROVE v \notin DfValues
  <2>1. PICK act \in Range(Activities(new)) : \E text \in Texts(act) : \E tok \in Range(text) : v = tok.v
    BY <1>9 DEF Values
  <2>2. PICK text \in Texts(act) : \E tok \in Range(text) : v = tok.v BY <2>1
  <2>a. PICK tok \in Range(text) : v = tok.v BY <2>2
  <2>3. CASE act \in Range(new.method) BY <1>2, <1>3, <1>8, <2>a, <2>3
  <2>4. CASE act \in Range(new.rollbacks) BY <1>2, <1>3, <1>8, <2>a, <2>4
  <2>5. CASE act \in Range(new.probes) BY <1>2, <1>3, <1>8, <2>a, <2>5
  <2> QED BY <1>2, <2>1, <2>3, <2>4, <2>5
<1>10. Values(preview_experiment(doc, given).v) = Values(new) BY <1>1, Zenon DEF new
<1> QED BY <1>9, <1>10

-----------------------------------------------------------------------------
(* The invariant of a run from its request to its recovery. *)

DfFields == {"doc", "vars", "hash", "tier", "approved", "plan", "exp", "injected", "i",
             "dispatched", "token"}
DfWaits == {"classified", "pending", "queued", "captured", "prepared", "refused"}
DfPlanned == {"captured", "prepared", "method", "rollback", "recovery", "orphaned"}
DfRuns == {"method", "rollback", "recovery", "orphaned"}

DfTypes ==
    /\ DfFields \subseteq DOMAIN dfRun
    /\ dfDone \in Seq(Range(dfDone))
    /\ dfPc = "idle" \/ dfPc \in DfWaits => dfDone = <<>>

(* Its definition, and the preview its client has seen. *)
DfRequested ==
    dfPc # "idle" => /\ dfRun.doc \in DfDocs
                     /\ dfRun.token # <<>> => dfRun.token = dfRun.hash

(* The plan is of the definition; what is prepared comes of the plan, may run,
   and before a crash it is what was hashed; what was hashed comes of the plan
   from the dispatch on. *)
DfPlans ==
    /\ dfPc \in DfPlanned => dfRun.plan.doc = dfRun.doc /\ dfRun.plan.vars = dfRun.vars
    /\ dfPc \in {"prepared", "recovery"} =>
          DfMade(dfRun.exp, dfRun.doc, dfRun.vars, dfRun.plan.config)
    /\ dfPc \in {"prepared", "method", "rollback", "recovery"} =>
          DfRunnable(dfRun.exp, dfRun.injected)
    /\ dfPc \in {"method", "rollback"} =>
          dfRun.exp = dfRun.hash.exp /\ dfRun.injected = dfRun.hash.injected
    /\ dfPc \in DfRuns =>
          /\ DfMade(dfRun.hash.exp, dfRun.doc, dfRun.vars, dfRun.plan.config)
          /\ dfRun.dispatched <= (IF dfRun.approved THEN dfRun.tier ELSE 0)

DfIInv == DfTypes /\ DfRequested /\ DfPlans /\ DefinitionsSound

LEMMA DfStart == DfInit => DfIInv
<1> SUFFICES ASSUME DfInit PROVE DfIInv  OBVIOUS
<1>1. dfPc = "idle" /\ dfDone = <<>> /\ dfShown = {} /\ dfRun = DfNoRun BY DEF DfInit
<1>2. DfFields \subseteq DOMAIN DfNoRun BY DEF DfFields, DfNoRun
<1>3. Range(dfDone) = {} BY <1>1 DEF Range
<1>4. DfTypes BY <1>1, <1>2 DEF DfTypes
<1>5. DfRequested /\ DfPlans BY <1>1 DEF DfRequested, DfPlans, DfPlanned, DfRuns
<1>6. DefinitionsSound
  BY <1>1, <1>3 DEF DefinitionsSound, ExecutedIsApproved, RecoverySameTargets, ExecutedIsWellFormed,
     HostStaysHidden, Phase
<1> QED BY <1>4, <1>5, <1>6 DEF DfIInv

(* What was seen of the executions stays true while the run is the same. *)
LEMMA DfSameRun ==
    ASSUME DefinitionsSound, dfDone' = dfDone,
           \A field \in {"doc", "hash", "tier", "approved", "dispatched", "token"} :
              dfRun'[field] = dfRun[field]
    PROVE  ExecutedIsApproved' /\ RecoverySameTargets' /\ ExecutedIsWellFormed'
<1>1. /\ dfRun.doc' = dfRun.doc /\ dfRun.hash' = dfRun.hash /\ dfRun.tier' = dfRun.tier
      /\ dfRun.approved' = dfRun.approved /\ dfRun.dispatched' = dfRun.dispatched
      /\ dfRun.token' = dfRun.token
  OBVIOUS
<1>2. ExecutedIsApproved' BY <1>1 DEF DefinitionsSound, ExecutedIsApproved, Phase
<1>3. RecoverySameTargets' BY <1>1 DEF DefinitionsSound, RecoverySameTargets, Phase
<1>4. ExecutedIsWellFormed' BY DEF DefinitionsSound, ExecutedIsWellFormed
<1> QED BY <1>2, <1>3, <1>4

(* Nothing was executed before the run. *)
LEMMA DfNothingRan ==
    ASSUME dfDone' = <<>>
    PROVE  ExecutedIsApproved' /\ RecoverySameTargets' /\ ExecutedIsWellFormed'
<1>1. Range(dfDone)' = {} BY DEF Range
<1> QED BY <1>1 DEF ExecutedIsApproved, RecoverySameTargets, ExecutedIsWellFormed, Phase

LEMMA DfIdleStep ==
    ASSUME DfIInv, NEW doc \in DfDocs, NEW given \in DfVars,
           dry_run(doc, given) \/ \E token \in BOOLEAN : create_classify(doc, given, token)
    PROVE  DfIInv'
<1>1. dfPc = "idle" /\ dfDone' = dfDone BY DEF dry_run, create_classify
<1>2. dfDone = <<>> /\ DfFields \subseteq DOMAIN dfRun /\ dfDone' \in Seq(Range(dfDone'))
  BY <1>1 DEF DfIInv, DfTypes
<1>3. ExecutedIsApproved' /\ RecoverySameTargets' /\ ExecutedIsWellFormed' BY <1>1, <1>2, DfNothingRan
<1> DEFINE p == prepare_run(doc, given)
<1>4. p.ok = TRUE \/ (p.ok = FALSE /\ p.stage \in DfStages) BY DfStagesTold
<1>5. DfStages \cap DfValues = {} /\ "preview" \in DfStages /\ "refused" \in DfStages
  BY DfValuesAssumption DEF DfStages
<1>6. CASE dry_run(doc, given)
  <2> DEFINE preview == preview_experiment(doc, given)
  <2>1. UNCHANGED <<dfPc, dfRun>>
        /\ \/ ~p.ok /\ dfShown' = {p.stage}
           \/ dfShown' = {"preview"}
           \/ preview.ok /\ dfShown' = Values(preview.v)
    BY <1>6, Zenon DEF dry_run, Show
  <2>2. dfShown' \cap DfValues = {} BY <1>4, <1>5, <2>1, DfPreviewHidden
  <2>3. DfTypes' /\ DfRequested' /\ DfPlans'
    BY <1>1, <1>2, <2>1 DEF DfTypes, DfRequested, DfPlans, DfPlanned, DfRuns
  <2> QED BY <1>3, <2>2, <2>3 DEF DfIInv, DefinitionsSound, HostStaysHidden
<1>7. CASE \E token \in BOOLEAN : create_classify(doc, given, token)
  <2> PICK token \in BOOLEAN : create_classify(doc, given, token) BY <1>7
  <2> DEFINE tier == classify_bound(p.v, doc.env, dfPolicy.owner = "scoped")
             current == [hash |-> execution_hash(p.v), key |-> dfKey]
             seen == IF token THEN dfPreview.hash ELSE <<>>
             new == [DfNoRun EXCEPT !.doc = doc, !.vars = given, !.tier = tier.v,
                        !.hash = execution_hash(p.v), !.token = seen]
  <2>1. \/ UNCHANGED <<dfPc, dfRun>> /\ ((~p.ok /\ dfShown' = {p.stage}) \/ dfShown' = {"refused"})
        \/ dfPc' = "classified" /\ dfRun' = new /\ UNCHANGED dfShown /\ ~(token /\ dfPreview # current)
    BY Zenon DEF create_classify, Show
  <2>2. CASE UNCHANGED <<dfPc, dfRun>> /\ ((~p.ok /\ dfShown' = {p.stage}) \/ dfShown' = {"refused"})
    <3>1. dfShown' \cap DfValues = {} BY <1>4, <1>5, <2>2
    <3>2. DfTypes' /\ DfRequested' /\ DfPlans'
      BY <1>1, <1>2, <2>2 DEF DfTypes, DfRequested, DfPlans, DfPlanned, DfRuns
    <3> QED BY <1>3, <3>1, <3>2 DEF DfIInv, DefinitionsSound, HostStaysHidden
  <2>3. CASE dfPc' = "classified" /\ dfRun' = new /\ UNCHANGED dfShown /\ ~(token /\ dfPreview # current)
    <3>1. current.hash = execution_hash(p.v) OBVIOUS
    <3>2. seen # <<>> => seen = execution_hash(p.v) BY <2>3, <3>1
    <3> DEFINE h == execution_hash(p.v)
               t == tier.v
    <3>3. new = [DfNoRun EXCEPT !.doc = doc, !.vars = given, !.tier = t, !.hash = h, !.token = seen]
      OBVIOUS
    <3>4. DfFields \subseteq DOMAIN DfNoRun BY DEF DfFields, DfNoRun
    <3>5. seen # <<>> => seen = h BY <3>2
    <3>6. dfRun' = new BY <2>3
    <3> HIDE DEF h, t, seen, new, p
    <3>7. DfFields \subseteq DOMAIN new /\ new.doc = doc /\ new.hash = h /\ new.token = seen
      BY <3>3, <3>4 DEF DfFields
    <3>8. DfTypes' BY <1>1, <1>2, <3>6, <3>7 DEF DfTypes
    <3>9. DfRequested' BY <3>5, <3>6, <3>7 DEF DfRequested
    <3>10. DfPlans' BY <2>3 DEF DfPlans, DfPlanned, DfRuns
    <3>11. HostStaysHidden' BY <2>3 DEF DfIInv, DefinitionsSound, HostStaysHidden
    <3> QED BY <1>3, <3>8, <3>9, <3>10, <3>11 DEF DfIInv, DefinitionsSound
  <2> QED BY <2>1, <2>2, <2>3
<1> QED BY <1>6, <1>7

LEMMA DfQueueStep ==
    ASSUME DfIInv, request_gated_checked \/ enqueue_checked \/ Approve
    PROVE  DfIInv'
<1>1. /\ dfPc \in {"classified", "pending"} /\ dfPc' \in {"pending", "queued", "refused"}
      /\ dfDone' = dfDone /\ dfShown' = dfShown
      /\ dfRun' = dfRun \/ dfRun' = [dfRun EXCEPT !.approved = TRUE]
  <2>1. CASE request_gated_checked BY <2>1, Zenon DEF request_gated_checked
  <2>2. CASE enqueue_checked BY <2>2, Zenon DEF enqueue_checked
  <2>3. CASE Approve BY <2>3 DEF Approve
  <2> QED BY <2>1, <2>2, <2>3
<1>2. dfDone = <<>> /\ dfDone' \in Seq(Range(dfDone')) /\ DfFields \subseteq DOMAIN dfRun
      /\ dfRun.doc \in DfDocs /\ (dfRun.token # <<>> => dfRun.token = dfRun.hash)
  BY <1>1 DEF DfIInv, DfTypes, DfRequested, DfWaits
<1>3. DfFields \subseteq DOMAIN dfRun' /\ dfRun'.doc = dfRun.doc /\ dfRun'.token = dfRun.token
      /\ dfRun'.hash = dfRun.hash
  BY <1>1, <1>2 DEF DfFields
<1>4. ExecutedIsApproved' /\ RecoverySameTargets' /\ ExecutedIsWellFormed' BY <1>1, <1>2, DfNothingRan
<1>5. DfTypes' BY <1>1, <1>2, <1>3 DEF DfTypes
<1>6. DfRequested' BY <1>2, <1>3 DEF DfRequested
<1>7. DfPlans' BY <1>1 DEF DfPlans, DfPlanned, DfRuns
<1>8. HostStaysHidden' BY <1>1 DEF DfIInv, DefinitionsSound, HostStaysHidden
<1> QED BY <1>4, <1>5, <1>6, <1>7, <1>8 DEF DfIInv, DefinitionsSound

(* A failure is told by its stage. *)
LEMMA DfFailStep ==
    ASSUME DfIInv, NEW stage \in DfStages, Fail(stage), dfPc # "idle"
    PROVE  DfIInv'
<1>1. dfPc' = "failed" /\ dfShown' = {stage} /\ UNCHANGED <<dfRun, dfDone>> BY DEF Fail, Show
<1>2. ExecutedIsApproved' /\ RecoverySameTargets' /\ ExecutedIsWellFormed'
  BY <1>1, DfSameRun DEF DfIInv
<1>3. HostStaysHidden' BY <1>1, DfValuesAssumption DEF HostStaysHidden
<1>4. DfTypes' BY <1>1 DEF DfIInv, DfTypes, DfWaits
<1>5. DfRequested' BY <1>1 DEF DfIInv, DfRequested
<1>6. DfPlans' BY <1>1 DEF DfPlans, DfPlanned, DfRuns
<1> QED BY <1>2, <1>3, <1>4, <1>5, <1>6 DEF DfIInv, DefinitionsSound

LEMMA DfCaptureStep == ASSUME DfIInv, CapturePlan PROVE DfIInv'
<1>1. dfPc = "queued" BY DEF CapturePlan
<1>2. dfRun.doc \in DfDocs /\ dfDone = <<>> /\ DfFields \subseteq DOMAIN dfRun
      /\ (dfRun.token # <<>> => dfRun.token = dfRun.hash) /\ dfDone \in Seq(Range(dfDone))
  BY <1>1 DEF DfIInv, DfRequested, DfTypes, DfWaits
<1>3. PICK doc, given : doc = dfRun.doc /\ given = dfRun.vars OBVIOUS
<1>4. PICK plan : plan = capture(doc, given) OBVIOUS
<1>5. (plan.ok = TRUE /\ plan.v.doc = doc /\ plan.v.vars = given) \/ (plan.ok = FALSE /\ plan.stage \in DfStages)
  BY <1>2, <1>3, <1>4, DfStagesTold
<1>6. plan = capture(dfRun.doc, dfRun.vars) BY <1>3, <1>4
<1>7. \/ ~plan.ok /\ Fail(plan.stage)
      \/ /\ plan.ok /\ dfPc' = "captured" /\ dfRun' = [dfRun EXCEPT !.plan = plan.v]
         /\ UNCHANGED <<dfDone, dfShown>>
  BY <1>6 DEF CapturePlan
<1>8. CASE ~plan.ok /\ Fail(plan.stage) BY <1>1, <1>5, <1>8, DfFailStep
<1>9. CASE /\ plan.ok /\ dfPc' = "captured" /\ dfRun' = [dfRun EXCEPT !.plan = plan.v]
           /\ UNCHANGED <<dfDone, dfShown>>
  <2>1. /\ DfFields \subseteq DOMAIN dfRun' /\ dfRun'.doc = dfRun.doc /\ dfRun'.token = dfRun.token
        /\ dfRun'.hash = dfRun.hash /\ dfRun'.plan = plan.v /\ dfRun'.vars = dfRun.vars
    BY <1>2, <1>9 DEF DfFields
  <2>2. ExecutedIsApproved' /\ RecoverySameTargets' /\ ExecutedIsWellFormed' BY <1>2, <1>9, DfNothingRan
  <2>3. DfTypes' BY <1>2, <1>9, <2>1 DEF DfTypes
  <2>4. DfRequested' BY <1>2, <2>1 DEF DfRequested
  <2>5. dfRun'.plan.doc = dfRun'.doc /\ dfRun'.plan.vars = dfRun'.vars BY <1>3, <1>5, <1>9, <2>1
  <2>6. DfPlans' BY <1>9, <2>5 DEF DfPlans, DfRuns
  <2>7. HostStaysHidden' BY <1>9 DEF DfIInv, DefinitionsSound, HostStaysHidden
  <2> QED BY <2>2, <2>3, <2>4, <2>6, <2>7 DEF DfIInv, DefinitionsSound
<1> QED BY <1>7, <1>8, <1>9

LEMMA DfPrepareStep == ASSUME DfIInv, PrepareRun PROVE DfIInv'
<1>1. dfPc = "captured" BY DEF PrepareRun
<1>2. /\ dfRun.doc \in DfDocs /\ dfDone = <<>> /\ DfFields \subseteq DOMAIN dfRun
      /\ (dfRun.token # <<>> => dfRun.token = dfRun.hash) /\ dfDone \in Seq(Range(dfDone))
      /\ dfRun.plan.doc = dfRun.doc /\ dfRun.plan.vars = dfRun.vars
  BY <1>1 DEF DfIInv, DfRequested, DfTypes, DfWaits, DfPlans, DfPlanned
<1>3. PICK plan : plan = dfRun.plan OBVIOUS
<1>4. PICK p : p = prepare_plan(plan) OBVIOUS
<1>5. plan.doc \in DfDocs BY <1>2, <1>3
<1>6. \/ p.ok = FALSE /\ p.stage \in DfStages
      \/ /\ p.ok = TRUE /\ DfMade(p.v.exp, plan.doc, plan.vars, plan.config)
         /\ DfRunnable(p.v.exp, p.v.injected)
  BY <1>4, <1>5, DfStagesTold
<1>7. p = prepare_plan(dfRun.plan) BY <1>3, <1>4
<1>8. \/ ~p.ok /\ Fail(p.stage)
      \/ /\ p.ok /\ dfPc' = "prepared"
         /\ dfRun' = [dfRun EXCEPT !.exp = p.v.exp, !.injected = p.v.injected]
         /\ UNCHANGED <<dfDone, dfShown>>
  BY <1>7 DEF PrepareRun
<1>9. CASE ~p.ok /\ Fail(p.stage) BY <1>1, <1>6, <1>9, DfFailStep
<1>10. CASE /\ p.ok /\ dfPc' = "prepared"
            /\ dfRun' = [dfRun EXCEPT !.exp = p.v.exp, !.injected = p.v.injected]
            /\ UNCHANGED <<dfDone, dfShown>>
  <2>1. /\ DfFields \subseteq DOMAIN dfRun' /\ dfRun'.doc = dfRun.doc /\ dfRun'.token = dfRun.token
        /\ dfRun'.hash = dfRun.hash /\ dfRun'.plan = dfRun.plan /\ dfRun'.vars = dfRun.vars
        /\ dfRun'.exp = p.v.exp /\ dfRun'.injected = p.v.injected
    BY <1>2, <1>10 DEF DfFields
  <2>2. ExecutedIsApproved' /\ RecoverySameTargets' /\ ExecutedIsWellFormed' BY <1>2, <1>10, DfNothingRan
  <2>3. DfTypes' BY <1>2, <1>10, <2>1 DEF DfTypes
  <2>4. DfRequested' BY <1>2, <2>1 DEF DfRequested
  <2>5. DfMade(p.v.exp, dfRun.doc, dfRun.vars, dfRun.plan.config) BY <1>2, <1>3, <1>6, <1>10
  <2>6. DfMade(dfRun'.exp, dfRun'.doc, dfRun'.vars, dfRun'.plan.config) BY <2>1, <2>5
  <2>7. DfRunnable(dfRun'.exp, dfRun'.injected) BY <1>6, <1>10, <2>1
  <2>8. dfRun'.plan.doc = dfRun'.doc /\ dfRun'.plan.vars = dfRun'.vars BY <1>2, <2>1
  <2>9. DfPlans' BY <1>10, <2>6, <2>7, <2>8 DEF DfPlans, DfRuns
  <2>10. HostStaysHidden' BY <1>10 DEF DfIInv, DefinitionsSound, HostStaysHidden
  <2> QED BY <2>2, <2>3, <2>4, <2>9, <2>10 DEF DfIInv, DefinitionsSound
<1> QED BY <1>8, <1>9, <1>10

LEMMA DfOrphanStep == ASSUME DfIInv, prepare_orphan PROVE DfIInv'
<1>1. dfPc = "orphaned" BY DEF prepare_orphan
<1>2. /\ dfRun.doc \in DfDocs /\ DfFields \subseteq DOMAIN dfRun
      /\ (dfRun.token # <<>> => dfRun.token = dfRun.hash) /\ dfDone \in Seq(Range(dfDone))
      /\ dfRun.plan.doc = dfRun.doc /\ dfRun.plan.vars = dfRun.vars
      /\ DfMade(dfRun.hash.exp, dfRun.doc, dfRun.vars, dfRun.plan.config)
      /\ dfRun.dispatched <= (IF dfRun.approved THEN dfRun.tier ELSE 0)
  BY <1>1 DEF DfIInv, DfRequested, DfTypes, DfWaits, DfPlans, DfPlanned, DfRuns
<1>3. PICK plan : plan = dfRun.plan OBVIOUS
<1>4. PICK p : p = prepare_plan(plan) OBVIOUS
<1>5. plan.doc \in DfDocs BY <1>2, <1>3
<1>6. \/ p.ok = FALSE /\ p.stage \in DfStages
      \/ /\ p.ok = TRUE /\ DfMade(p.v.exp, plan.doc, plan.vars, plan.config)
         /\ DfRunnable(p.v.exp, p.v.injected)
  BY <1>4, <1>5, DfStagesTold
<1>7. p = prepare_plan(dfRun.plan) BY <1>3, <1>4
<1>8. \/ ~p.ok /\ Fail(p.stage)
      \/ /\ p.ok /\ dfPc' = "recovery"
         /\ dfRun' = [dfRun EXCEPT !.exp = p.v.exp, !.injected = p.v.injected, !.i = 1]
         /\ UNCHANGED <<dfDone, dfShown>>
  BY <1>7 DEF prepare_orphan
<1>9. CASE ~p.ok /\ Fail(p.stage) BY <1>1, <1>6, <1>9, DfFailStep
<1>10. CASE /\ p.ok /\ dfPc' = "recovery"
            /\ dfRun' = [dfRun EXCEPT !.exp = p.v.exp, !.injected = p.v.injected, !.i = 1]
            /\ UNCHANGED <<dfDone, dfShown>>
  <2>1. /\ DfFields \subseteq DOMAIN dfRun' /\ dfRun'.doc = dfRun.doc /\ dfRun'.token = dfRun.token
        /\ dfRun'.hash = dfRun.hash /\ dfRun'.plan = dfRun.plan /\ dfRun'.vars = dfRun.vars
        /\ dfRun'.exp = p.v.exp /\ dfRun'.injected = p.v.injected /\ dfRun'.tier = dfRun.tier
        /\ dfRun'.approved = dfRun.approved /\ dfRun'.dispatched = dfRun.dispatched
    BY <1>2, <1>10 DEF DfFields
  <2>2. ExecutedIsApproved' /\ RecoverySameTargets' /\ ExecutedIsWellFormed'
    BY <1>10, <2>1, DfSameRun DEF DfIInv
  <2>3. DfTypes' BY <1>2, <1>10, <2>1 DEF DfTypes, DfWaits
  <2>4. DfRequested' BY <1>2, <2>1 DEF DfRequested
  <2>5. DfMade(p.v.exp, dfRun.doc, dfRun.vars, dfRun.plan.config) BY <1>2, <1>3, <1>6, <1>10
  <2>6. DfMade(dfRun'.exp, dfRun'.doc, dfRun'.vars, dfRun'.plan.config) BY <2>1, <2>5
  <2>7. DfRunnable(dfRun'.exp, dfRun'.injected) BY <1>6, <1>10, <2>1
  <2>8. dfRun'.plan.doc = dfRun'.doc /\ dfRun'.plan.vars = dfRun'.vars BY <1>2, <2>1
  <2>9. DfMade(dfRun'.hash.exp, dfRun'.doc, dfRun'.vars, dfRun'.plan.config) BY <1>2, <2>1
  <2>10. dfRun'.dispatched <= (IF dfRun'.approved THEN dfRun'.tier ELSE 0) BY <1>2, <2>1
  <2>11. DfPlans' BY <1>10, <2>6, <2>7, <2>8, <2>9, <2>10 DEF DfPlans, DfRuns
  <2>12. HostStaysHidden' BY <1>10 DEF DfIInv, DefinitionsSound, HostStaysHidden
  <2> QED BY <2>2, <2>3, <2>4, <2>11, <2>12 DEF DfIInv, DefinitionsSound
<1> QED BY <1>8, <1>9, <1>10

LEMMA DfDispatchStep == ASSUME DfIInv, validate_dispatch_context PROVE DfIInv'
<1>1. dfPc = "prepared" BY DEF validate_dispatch_context
<1>2. /\ dfRun.doc \in DfDocs /\ dfDone = <<>> /\ DfFields \subseteq DOMAIN dfRun
      /\ (dfRun.token # <<>> => dfRun.token = dfRun.hash) /\ dfDone \in Seq(Range(dfDone))
      /\ dfRun.plan.doc = dfRun.doc /\ dfRun.plan.vars = dfRun.vars
      /\ DfMade(dfRun.exp, dfRun.doc, dfRun.vars, dfRun.plan.config)
      /\ DfRunnable(dfRun.exp, dfRun.injected)
  BY <1>1 DEF DfIInv, DfRequested, DfTypes, DfWaits, DfPlans, DfPlanned
<1>3. PICK p : p = [exp |-> dfRun.exp, injected |-> dfRun.injected] OBVIOUS
<1>4. p.exp = dfRun.exp /\ p.injected = dfRun.injected BY <1>3
<1>5. PICK owner : owner = actor_requires_binding OBVIOUS
<1>6. PICK tier : tier = classify_bound([exp |-> dfRun.exp, injected |-> dfRun.injected],
                                       dfRun.doc.env, actor_requires_binding.ok /\ actor_requires_binding.v)
  OBVIOUS
<1> DEFINE trusted == dfPolicy.owner = "nobody" /\ ~dfRun.approved
           level == IF trusted THEN 0 ELSE tier.v
           approved == IF dfRun.approved THEN dfRun.tier ELSE 0
<1>7. \/ Fail("dispatch")
      \/ /\ p = dfRun.hash
         /\ trusted \/ tier.v <= approved
         /\ dfPc' = "method" /\ dfRun' = [dfRun EXCEPT !.i = 1, !.dispatched = level]
         /\ UNCHANGED <<dfDone, dfShown>>
  BY <1>3, <1>5, <1>6 DEF validate_dispatch_context, execution_hash
<1>8. CASE Fail("dispatch")
  <2>1. "dispatch" \in DfStages BY DEF DfStages
  <2> QED BY <1>1, <1>8, <2>1, DfFailStep
<1>9. CASE /\ p = dfRun.hash
           /\ trusted \/ tier.v <= approved
           /\ dfPc' = "method" /\ dfRun' = [dfRun EXCEPT !.i = 1, !.dispatched = level]
           /\ UNCHANGED <<dfDone, dfShown>>
  <2>0. level <= approved BY <1>9
  <2>a. PICK new : new = level OBVIOUS
  <2>b. dfRun' = [dfRun EXCEPT !.i = 1, !.dispatched = new] BY <1>9, <2>a
  <2>1. /\ DfFields \subseteq DOMAIN dfRun' /\ dfRun'.doc = dfRun.doc /\ dfRun'.token = dfRun.token
        /\ dfRun'.hash = dfRun.hash /\ dfRun'.plan = dfRun.plan /\ dfRun'.vars = dfRun.vars
        /\ dfRun'.exp = dfRun.exp /\ dfRun'.injected = dfRun.injected /\ dfRun'.tier = dfRun.tier
        /\ dfRun'.approved = dfRun.approved /\ dfRun'.dispatched = new
    BY <1>2, <2>b DEF DfFields
  <2>2. ExecutedIsApproved' /\ RecoverySameTargets' /\ ExecutedIsWellFormed' BY <1>2, <1>9, DfNothingRan
  <2>3. DfTypes' BY <1>2, <1>9, <2>1 DEF DfTypes
  <2>4. DfRequested' BY <1>2, <2>1 DEF DfRequested
  <2>5. dfRun.exp = dfRun.hash.exp /\ dfRun.injected = dfRun.hash.injected BY <1>4, <1>9
  <2>6. DfMade(dfRun.hash.exp, dfRun.doc, dfRun.vars, dfRun.plan.config) BY <1>2, <2>5
  <2>7. DfRunnable(dfRun'.exp, dfRun'.injected) BY <1>2, <2>1
  <2>8. dfRun'.plan.doc = dfRun'.doc /\ dfRun'.plan.vars = dfRun'.vars BY <1>2, <2>1
  <2>9. DfMade(dfRun'.hash.exp, dfRun'.doc, dfRun'.vars, dfRun'.plan.config) BY <2>1, <2>6
  <2>10. dfRun'.dispatched <= (IF dfRun'.approved THEN dfRun'.tier ELSE 0) BY <2>0, <2>a, <2>1
  <2>11. dfRun'.exp = dfRun'.hash.exp /\ dfRun'.injected = dfRun'.hash.injected BY <2>1, <2>5
  <2>12. DfPlans' BY <1>9, <2>7, <2>8, <2>9, <2>10, <2>11 DEF DfPlans, DfRuns
  <2>13. HostStaysHidden' BY <1>9 DEF DfIInv, DefinitionsSound, HostStaysHidden
  <2> QED BY <2>2, <2>3, <2>4, <2>12, <2>13 DEF DfIInv, DefinitionsSound
<1> QED BY <1>7, <1>8, <1>9

(* Two experiments made of one definition and one configuration differ at
   most where a secret stands. *)
LEMMA DfSameTargets ==
    ASSUME NEW doc \in DfDocs, NEW given, NEW config, NEW new, DfMade(new, doc, given, config),
           NEW old, DfMade(old, doc, given, config), NEW i \in DOMAIN new.rollbacks
    PROVE  LET raw == doc.rollbacks
               same(now, was, text) == \A k \in DOMAIN text \ SecretPlaces(text) : now[k] = was[k]
           IN  /\ i \in DOMAIN raw
               /\ new.rollbacks[i].name = raw[i].name
               /\ same(new.rollbacks[i].owner, old.rollbacks[i].owner, raw[i].owner)
               /\ same(new.rollbacks[i].args, old.rollbacks[i].args, raw[i].args)
<1>1. PICK s1 :
         /\ s1 = [k \in DOMAIN doc.secrets |-> s1[k]]
         /\ IF given = <<>> /\ config = <<>> /\ s1 = <<>> THEN new = doc
            ELSE /\ new.method = DfEach(doc.method, given, config, s1)
                 /\ new.rollbacks = DfEach(doc.rollbacks, given, config, s1)
  BY DEF DfMade
<1>2. PICK s0 :
         /\ s0 = [k \in DOMAIN doc.secrets |-> s0[k]]
         /\ IF given = <<>> /\ config = <<>> /\ s0 = <<>> THEN old = doc
            ELSE /\ old.method = DfEach(doc.method, given, config, s0)
                 /\ old.rollbacks = DfEach(doc.rollbacks, given, config, s0)
  BY DEF DfMade
<1>3. s1 = <<>> <=> s0 = <<>>
  <2>1. DOMAIN s1 = DOMAIN s0 /\ s1 = [k \in DOMAIN s1 |-> s1[k]] /\ s0 = [k \in DOMAIN s0 |-> s0[k]]
    BY <1>1, <1>2
  <2>2. DOMAIN <<>> = {} OBVIOUS
  <2>3. CASE s1 = <<>> BY <2>1, <2>2, <2>3, DfEmpty
  <2>4. CASE s0 = <<>> BY <2>1, <2>2, <2>4, DfEmpty
  <2> QED BY <2>3, <2>4
<1>4. CASE given = <<>> /\ config = <<>> /\ s1 = <<>>
  <2>1. new = doc /\ old = doc BY <1>1, <1>2, <1>3, <1>4
  <2> QED BY <2>1
<1>5. CASE ~(given = <<>> /\ config = <<>> /\ s1 = <<>>)
  <2>1. DfActs(doc.rollbacks) BY DfDocsAssumption
  <2>2. PICK raw : raw = doc.rollbacks OBVIOUS
  <2>3. PICK now, was : now = new.rollbacks /\ was = old.rollbacks OBVIOUS
  <2>4. now = DfEach(raw, given, config, s1) /\ was = DfEach(raw, given, config, s0)
    BY <1>1, <1>2, <1>3, <1>5, <2>2, <2>3
  <2>5. i \in DOMAIN raw
    <3>1. i \in DOMAIN now BY <2>3
    <3> QED BY <2>4, <3>1, Zenon DEF DfEach
  <2>6. DfActs(raw) BY <2>1, <2>2
  <2>7. /\ now[i].name = raw[i].name
        /\ now[i].owner = substitute_vars(raw[i].owner, given, config, s1)
        /\ now[i].args = substitute_vars(raw[i].args, given, config, s1)
        /\ DfText(raw[i].owner) /\ DfText(raw[i].args)
    BY <2>4, <2>5, <2>6, DfEachFields
  <2>8. /\ was[i].owner = substitute_vars(raw[i].owner, given, config, s0)
        /\ was[i].args = substitute_vars(raw[i].args, given, config, s0)
    BY <2>4, <2>5, <2>6, DfEachFields
  <2>9. ASSUME NEW text, DfText(text), NEW k \in DOMAIN text \ SecretPlaces(text)
        PROVE  substitute_vars(text, given, config, s1)[k] = substitute_vars(text, given, config, s0)[k]
    <3>1. k \in DOMAIN text /\ k \notin SecretPlaces(text) BY <2>9
    <3>2. PICK sub : sub = substitute_vars(text, given, config, s1) OBVIOUS
    <3>3. sub[k] = substitute_vars(text, given, config, s0)[k] BY <2>9, <3>1, <3>2, DfSubstituted
    <3> QED BY <3>2, <3>3
  <2>10. \A k \in DOMAIN raw[i].owner \ SecretPlaces(raw[i].owner) : now[i].owner[k] = was[i].owner[k]
    <3>1. PICK text : text = raw[i].owner OBVIOUS
    <3> QED BY <2>7, <2>8, <2>9, <3>1
  <2>11. \A k \in DOMAIN raw[i].args \ SecretPlaces(raw[i].args) : now[i].args[k] = was[i].args[k]
    <3>1. PICK text : text = raw[i].args OBVIOUS
    <3> QED BY <2>7, <2>8, <2>9, <3>1
  <2> QED BY <2>2, <2>3, <2>5, <2>7, <2>10, <2>11
<1> QED BY <1>4, <1>5

LEMMA DfExecuteStep == ASSUME DfIInv, ExecuteActivity PROVE DfIInv'
<1> DEFINE acts == IF dfPc = "method" THEN dfRun.exp.method ELSE dfRun.exp.rollbacks
<1>1. dfPc \in {"method", "rollback", "recovery"} /\ dfShown' = dfShown BY DEF ExecuteActivity
<1>2. /\ DfFields \subseteq DOMAIN dfRun /\ dfDone \in Seq(Range(dfDone))
      /\ dfRun.doc \in DfDocs /\ (dfRun.token # <<>> => dfRun.token = dfRun.hash)
      /\ dfRun.plan.doc = dfRun.doc /\ dfRun.plan.vars = dfRun.vars
      /\ dfPc = "recovery" => DfMade(dfRun.exp, dfRun.doc, dfRun.vars, dfRun.plan.config)
      /\ DfRunnable(dfRun.exp, dfRun.injected)
      /\ dfPc # "recovery" => dfRun.exp = dfRun.hash.exp /\ dfRun.injected = dfRun.hash.injected
      /\ DfMade(dfRun.hash.exp, dfRun.doc, dfRun.vars, dfRun.plan.config)
      /\ dfRun.dispatched <= (IF dfRun.approved THEN dfRun.tier ELSE 0)
  BY <1>1 DEF DfIInv, DfRequested, DfTypes, DfPlans, DfPlanned, DfRuns
<1>3. PICK n : dfRun' = [dfRun EXCEPT !.i = n]
  BY Zenon DEF ExecuteActivity
<1>4. /\ DfFields \subseteq DOMAIN dfRun' /\ dfRun'.doc = dfRun.doc /\ dfRun'.token = dfRun.token
      /\ dfRun'.hash = dfRun.hash /\ dfRun'.plan = dfRun.plan /\ dfRun'.vars = dfRun.vars
      /\ dfRun'.exp = dfRun.exp /\ dfRun'.injected = dfRun.injected /\ dfRun'.tier = dfRun.tier
      /\ dfRun'.approved = dfRun.approved /\ dfRun'.dispatched = dfRun.dispatched
  BY <1>2, <1>3 DEF DfFields
<1>5. DfRequested' BY <1>2, <1>4 DEF DfRequested
<1>6. HostStaysHidden' BY <1>1 DEF DfIInv, DefinitionsSound, HostStaysHidden
<1>7. dfPc' = dfPc \/ (dfPc = "method" /\ dfPc' = "rollback") \/ dfPc' = "ended"
  BY <1>1, Zenon DEF ExecuteActivity
<1>8. DfPlans'
  <2>1. DfMade(dfRun'.hash.exp, dfRun'.doc, dfRun'.vars, dfRun'.plan.config) BY <1>2, <1>4
  <2>2. DfRunnable(dfRun'.exp, dfRun'.injected) BY <1>2, <1>4
  <2>3. dfPc = "recovery" => DfMade(dfRun'.exp, dfRun'.doc, dfRun'.vars, dfRun'.plan.config)
    BY <1>2, <1>4
  <2>4. dfPc # "recovery" => dfRun'.exp = dfRun'.hash.exp /\ dfRun'.injected = dfRun'.hash.injected
    BY <1>2, <1>4
  <2>5. dfRun'.plan.doc = dfRun'.doc /\ dfRun'.plan.vars = dfRun'.vars BY <1>2, <1>4
  <2>6. dfRun'.dispatched <= (IF dfRun'.approved THEN dfRun'.tier ELSE 0) BY <1>2, <1>4
  <2> QED BY <1>1, <1>7, <2>1, <2>2, <2>3, <2>4, <2>5, <2>6 DEF DfPlans, DfPlanned, DfRuns
<1>9. CASE dfRun.i \notin DOMAIN acts
  <2>1. dfDone' = dfDone BY <1>9 DEF ExecuteActivity
  <2>2. ExecutedIsApproved' /\ RecoverySameTargets' /\ ExecutedIsWellFormed'
    BY <1>4, <2>1, DfSameRun DEF DfIInv
  <2>3. DfTypes' BY <1>1, <1>2, <1>4, <1>7, <2>1 DEF DfTypes, DfWaits
  <2> QED BY <1>5, <1>6, <1>8, <2>2, <2>3 DEF DfIInv, DefinitionsSound
<1>10. CASE dfRun.i \in DOMAIN acts
  <2>1. PICK i : i = dfRun.i OBVIOUS
  <2>2. PICK act : act = acts[i] OBVIOUS
  <2>3. PICK d : d = [phase |-> dfPc, act |-> act, injected |-> dfRun.injected] OBVIOUS
  <2>4. d.phase = dfPc /\ d.act = act /\ d.injected = dfRun.injected BY <2>3
  <2>5. dfDone' = Append(dfDone, d) /\ dfPc' = dfPc BY <1>10, <2>1, <2>2, <2>3 DEF ExecuteActivity, Ran
  <2>6. Range(dfDone') = Range(dfDone) \cup {d} /\ dfDone' \in Seq(Range(dfDone'))
    <3>1. PICK s : s = dfDone OBVIOUS
    <3>2. PICK t : t = Append(s, d) OBVIOUS
    <3>3. s \in Seq(Range(s)) BY <1>2, <3>1
    <3>4. /\ t \in Seq(Range(t)) /\ Len(t) = Len(s) + 1 /\ Len(s) \in Nat
          /\ DOMAIN t = 1 .. Len(t) /\ DOMAIN s = 1 .. Len(s)
          /\ t[Len(t)] = d /\ \A k \in DOMAIN s : k \in DOMAIN t /\ t[k] = s[k]
      <4>1. t \in Seq(Range(t)) BY <3>2, <3>3, CtAppended
      <4>2. /\ Len(t) = Len(s) + 1 /\ Len(s) \in Nat /\ DOMAIN t = 1 .. Len(t) /\ DOMAIN s = 1 .. Len(s)
            /\ t[Len(t)] = d /\ \A k \in DOMAIN s : k \in DOMAIN t /\ t[k] = s[k]
        BY <3>2, <3>3
      <4> QED BY <4>1, <4>2
    <3>5. \A k \in DOMAIN t : k \in DOMAIN s \/ k = Len(t) BY <3>4
    <3>6. Range(t) = Range(s) \cup {d} BY <3>4, <3>5 DEF Range
    <3>7. dfDone' = t BY <2>5, <3>1, <3>2
    <3> QED BY <3>1, <3>4, <3>6, <3>7
  <2>7. act \in Range(acts) BY <1>10, <2>1, <2>2 DEF Range
  <2>8. act \in Range(dfRun.exp.method) \cup Range(dfRun.exp.rollbacks) BY <2>7
  <2>9. DfTypes' BY <1>1, <1>4, <2>5, <2>6 DEF DfTypes, DfWaits
  <2>10. ExecutedIsApproved'
    <3> SUFFICES ASSUME NEW e \in Range(dfDone'), e.phase = "method"
                 PROVE  /\ e.act \in Range(dfRun'.hash.exp.method)
                        /\ e.injected = dfRun'.hash.injected
                        /\ dfRun'.token # <<>> => dfRun'.token = dfRun'.hash
                        /\ dfRun'.dispatched <= (IF dfRun'.approved THEN dfRun'.tier ELSE 0)
      BY DEF ExecutedIsApproved, Phase
    <3>1. CASE e \in Range(dfDone)
      BY <1>4, <3>1 DEF DfIInv, DefinitionsSound, ExecutedIsApproved, Phase
    <3>2. CASE e = d
      <4>1. dfPc = "method" BY <2>4, <3>2
      <4>2. act \in Range(dfRun.exp.method) BY <2>7, <4>1
      <4>3. e.act \in Range(dfRun.hash.exp.method) /\ e.injected = dfRun.hash.injected
        BY <1>2, <2>4, <3>2, <4>1, <4>2
      <4> QED BY <1>2, <1>4, <4>3
    <3> QED BY <2>6, <3>1, <3>2
  <2>11. RecoverySameTargets'
    <3> DEFINE same(new, was, text) == \A k \in DOMAIN text \ SecretPlaces(text) : new[k] = was[k]
    <3> SUFFICES ASSUME NEW e \in Range(dfDone'), e.phase = "recovery"
                 PROVE  \E j \in DOMAIN dfRun'.doc.rollbacks :
                           /\ e.act.name = dfRun'.doc.rollbacks[j].name
                           /\ same(e.act.owner, dfRun'.hash.exp.rollbacks[j].owner, dfRun'.doc.rollbacks[j].owner)
                           /\ same(e.act.args, dfRun'.hash.exp.rollbacks[j].args, dfRun'.doc.rollbacks[j].args)
      BY DEF RecoverySameTargets, Phase
    <3>1. CASE e \in Range(dfDone)
      BY <1>4, <3>1 DEF DfIInv, DefinitionsSound, RecoverySameTargets, Phase
    <3>2. CASE e = d
      <4>1. dfPc = "recovery" BY <2>4, <3>2
      <4>2. PICK doc, given, config, new, old :
               /\ doc = dfRun.doc /\ given = dfRun.vars /\ config = dfRun.plan.config
               /\ new = dfRun.exp /\ old = dfRun.hash.exp
        OBVIOUS
      <4>3. doc \in DfDocs /\ DfMade(new, doc, given, config) /\ DfMade(old, doc, given, config)
        BY <1>2, <4>1, <4>2
      <4>4. i \in DOMAIN new.rollbacks /\ act = new.rollbacks[i] BY <1>10, <2>1, <2>2, <4>1, <4>2
      <4>5. /\ i \in DOMAIN doc.rollbacks
            /\ new.rollbacks[i].name = doc.rollbacks[i].name
            /\ same(new.rollbacks[i].owner, old.rollbacks[i].owner, doc.rollbacks[i].owner)
            /\ same(new.rollbacks[i].args, old.rollbacks[i].args, doc.rollbacks[i].args)
        BY <4>3, <4>4, DfSameTargets
      <4>6. e.act = new.rollbacks[i] BY <2>4, <3>2, <4>4
      <4>7. dfRun'.doc = doc /\ dfRun'.hash.exp = old BY <1>4, <4>2
      <4> QED BY <4>5, <4>6, <4>7
    <3> QED BY <2>6, <3>1, <3>2
  <2>12. ExecutedIsWellFormed'
    <3> SUFFICES ASSUME NEW e \in Range(dfDone')
                 PROVE  /\ e.act.kind = "script" => validate_script_name(e.act.owner)
                        /\ e.injected # {} => \A text \in Texts(e.act) : \A tok \in Range(text) : tok.t # "var"
      BY DEF ExecutedIsWellFormed
    <3>1. CASE e \in Range(dfDone) BY <3>1 DEF DfIInv, DefinitionsSound, ExecutedIsWellFormed
    <3>2. CASE e = d BY <1>2, <2>4, <2>8, <3>2 DEF DfRunnable
    <3> QED BY <2>6, <3>1, <3>2
  <2> QED BY <1>5, <1>6, <1>8, <2>9, <2>10, <2>11, <2>12 DEF DfIInv, DefinitionsSound
<1> QED BY <1>9, <1>10

LEMMA DfCrashStep == ASSUME DfIInv, DaemonCrashes PROVE DfIInv'
<1>1. /\ dfPc' \in {dfPc, "orphaned", "failed", "refused"} /\ UNCHANGED <<dfDone, dfShown>>
      /\ dfRun' = [dfRun EXCEPT !.exp = DfNone, !.injected = DfNone]
      /\ dfPc' = CASE dfPc \in {"method", "rollback", "recovery"} -> "orphaned"
                   [] dfPc \in {"queued", "captured", "prepared"} -> "failed"
                   [] dfPc = "classified" -> "refused"
                   [] OTHER -> dfPc
  BY DEF DaemonCrashes
<1>2. /\ dfPc \in {"method", "rollback", "recovery"} => dfPc' = "orphaned"
      /\ dfPc \in {"queued", "captured", "prepared"} => dfPc' = "failed"
      /\ dfPc = "classified" => dfPc' = "refused"
      /\ dfPc \notin {"method", "rollback", "recovery", "queued", "captured", "prepared", "classified"}
            => dfPc' = dfPc
  BY <1>1
<1>3. DfFields \subseteq DOMAIN dfRun BY DEF DfIInv, DfTypes
<1>4. /\ DfFields \subseteq DOMAIN dfRun' /\ dfRun'.doc = dfRun.doc /\ dfRun'.token = dfRun.token
      /\ dfRun'.hash = dfRun.hash /\ dfRun'.plan = dfRun.plan /\ dfRun'.vars = dfRun.vars
      /\ dfRun'.tier = dfRun.tier
      /\ dfRun'.approved = dfRun.approved /\ dfRun'.dispatched = dfRun.dispatched
  BY <1>1, <1>3 DEF DfFields
<1>5. ExecutedIsApproved' /\ RecoverySameTargets' /\ ExecutedIsWellFormed'
  BY <1>1, <1>4, DfSameRun DEF DfIInv
<1>6. DfTypes' BY <1>1, <1>2, <1>4 DEF DfIInv, DfTypes, DfWaits
<1>7. DfRequested' BY <1>1, <1>2, <1>4 DEF DfIInv, DfRequested
<1>8. DfPlans'
  <2>1. dfPc' \notin {"captured", "prepared", "method", "rollback", "recovery"} BY <1>2
  <2>2. dfPc' = "orphaned" => dfPc \in DfRuns BY <1>2 DEF DfRuns
  <2>3. dfPc \in DfRuns =>
          /\ DfMade(dfRun'.hash.exp, dfRun'.doc, dfRun'.vars, dfRun'.plan.config)
          /\ dfRun'.dispatched <= (IF dfRun'.approved THEN dfRun'.tier ELSE 0)
          /\ dfRun'.plan.doc = dfRun'.doc /\ dfRun'.plan.vars = dfRun'.vars
    BY <1>4 DEF DfIInv, DfPlans, DfRuns, DfPlanned
  <2> QED BY <2>1, <2>2, <2>3 DEF DfPlans, DfRuns, DfPlanned
<1>9. HostStaysHidden' BY <1>1 DEF DfIInv, DefinitionsSound, HostStaysHidden
<1> QED BY <1>5, <1>6, <1>7, <1>8, <1>9 DEF DfIInv, DefinitionsSound

(* A change of the host changes nothing that was resolved before it. *)
LEMMA DfRestStep ==
    ASSUME DfIInv, UNCHANGED <<dfPc, dfRun, dfDone, dfShown>>
    PROVE  DfIInv'
<1>1. ExecutedIsApproved' /\ RecoverySameTargets' /\ ExecutedIsWellFormed' BY DfSameRun DEF DfIInv
<1>2. HostStaysHidden' BY DEF DfIInv, DefinitionsSound, HostStaysHidden
<1>3. DfTypes' BY DEF DfIInv, DfTypes
<1>4. DfRequested' BY DEF DfIInv, DfRequested
<1>5. DfPlans' BY DEF DfIInv, DfPlans
<1> QED BY <1>1, <1>2, <1>3, <1>4, <1>5 DEF DfIInv, DefinitionsSound

LEMMA DfStep == DfIInv /\ [DfNext]_dfVars => DfIInv'
<1> SUFFICES ASSUME DfIInv, [DfNext]_dfVars PROVE DfIInv'  OBVIOUS
<1>1. CASE \E doc \in DfDocs, given \in DfVars : dry_run(doc, given) BY <1>1, DfIdleStep
<1>2. CASE \E doc \in DfDocs, given \in DfVars, token \in BOOLEAN : create_classify(doc, given, token)
  BY <1>2, DfIdleStep
<1>3. CASE request_gated_checked \/ enqueue_checked \/ Approve BY <1>3, DfQueueStep
<1>4. CASE CapturePlan BY <1>4, DfCaptureStep
<1>5. CASE PrepareRun BY <1>5, DfPrepareStep
<1>6. CASE validate_dispatch_context BY <1>6, DfDispatchStep
<1>7. CASE ExecuteActivity BY <1>7, DfExecuteStep
<1>8. CASE prepare_orphan BY <1>8, DfOrphanStep
<1>9. CASE DaemonCrashes BY <1>9, DfCrashStep
<1>10. CASE HostChanges
  <2>1. UNCHANGED <<dfPc, dfRun, dfDone, dfShown>> BY <1>10 DEF HostChanges
  <2> QED BY <2>1, DfRestStep
<1>11. CASE UNCHANGED dfVars
  <2>1. UNCHANGED <<dfPc, dfRun, dfDone, dfShown>> BY <1>11 DEF dfVars
  <2> QED BY <2>1, DfRestStep
<1> QED
  BY <1>1, <1>2, <1>3, <1>4, <1>5, <1>6, <1>7, <1>8, <1>9, <1>10, <1>11 DEF DfNext

LEMMA DfHolds == DfIInv => DefinitionsSound
BY DEF DfIInv

-----------------------------------------------------------------------------
(* The parts side by side, each behaviour with one of them at work.          *)

(* A step of the parts is a step of one of them, and leaves the rest. *)
LEMMA DataSteps ==
    ASSUME [Next]_vars
    PROVE  /\ [StNext]_stVars /\ [LakeNext \/ BackupNext]_lkVars
           /\ [McNext]_mcVars /\ [ReadNext \/ ReportNext]_raVars
           /\ \E requests, lists : [TargetsNext(requests, lists)]_tgVars
           /\ [ControlNext]_ctVars /\ [DfNext]_dfVars
           /\ [PluginsNext \/ TemplatesNext \/ RegistryNext]_auVars
<1>1. CASE Next
  BY <1>1 DEF Next, Others
<1>2. CASE UNCHANGED vars
  BY <1>2 DEF vars
<1> QED  BY <1>1, <1>2

(* A store that was opened is usable, what was acknowledged is in it, and an
   export or a backup is one state of it, through crashes and migrations
   (duckdb_store, lake_export.rs, backup.rs). *)
THEOREM StorageAlways == Spec => []StorageSound
<1>1. Init => StIInv /\ LkIInv
  BY StStart, LkStart DEF Init
<1>2. StIInv /\ LkIInv /\ [Next]_vars => (StIInv /\ LkIInv)'
  BY DataSteps, StStep, LkStep
<1>3. StIInv /\ LkIInv => StorageSound
  BY StHolds, LkHolds DEF StorageSound
<1> QED  BY <1>1, <1>2, <1>3, PTL DEF Spec

(* A call that works was admitted and gives its permit back, a listing leaves
   nothing out, and nobody reads a row, a run or a report without a link to an
   environment in scope (tumult-mcp handler, tumult-api handlers). *)
THEOREM DisclosureAlways == Spec => []DisclosureSound
<1>1. Init => McIInv /\ RaIInv
  <2>1. Init => RaInitWith({}) \/ RaInitWith(RaRows)
    BY DEF Init, RaInit
  <2> QED  BY <2>1, McStart, RaStart DEF Init
<1>2. McIInv /\ RaIInv /\ [Next]_vars => (McIInv /\ RaIInv)'
  BY DataSteps, McStep, RaStep
<1>3. McIInv /\ RaIInv => DisclosureSound
  BY McHolds, RaReadsHold, RaArtifactsHold DEF DisclosureSound
<1> QED  BY <1>1, <1>2, <1>3, PTL DEF Spec

(* A refused call sent nothing, a clean drain left its node empty within its
   budgets, no delay outlives the containers that made it, a rollback lifts the
   blocks of its target alone, and a proposal can be read back: for any calls
   and any cluster (the drivers of Kubernetes, the clouds and Windows). *)
THEOREM TargetsAlways == Spec => []TargetsSound
<1>1. Init => TgIInv
  BY TgStart DEF Init
<1>2. TgIInv /\ [Next]_vars => TgIInv'
  BY DataSteps, TgStep
<1>3. TgIInv => TargetsSound
  BY TgHolds
<1> QED  BY <1>1, <1>2, <1>3, PTL DEF Spec

(* What runs is what was authored and approved: the method that runs is the one
   whose hash was approved in its tier, a recovery keeps its targets, a plugin is
   found where the catalog says and told what its caller was shown, and every
   handler of the controls is told of every beginning and its end
   (validate_dispatch_context, RecoveryPlan::prepare, discover_all_plugins,
   ControlRegistry::emit). *)
THEOREM ExecutionAlways == Spec => []ExecutionSound
<1>1. Init => DfIInv /\ CtIInv /\ AuIInv
  BY DfStart, CtStart, AuStart DEF Init
<1>2. DfIInv /\ CtIInv /\ AuIInv /\ [Next]_vars => (DfIInv /\ CtIInv /\ AuIInv)'
  BY DataSteps, DfStep, CtStep, AuStep
<1>3. DfIInv /\ CtIInv /\ AuIInv => ExecutionSound
  BY DfHolds, CtHolds, AuHolds DEF ExecutionSound
<1> QED  BY <1>1, <1>2, <1>3, PTL DEF Spec
=============================================================================
