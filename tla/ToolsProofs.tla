----------------------------- MODULE ToolsProofs -----------------------------
(* The properties of the record stores, the drivers and the local tools, for  *)
(* any number of runs, accounts, attempts, records, rows, tasks and proxies.  *)
EXTENDS MCTools, FiniteSetTheorems, SequenceTheorems, WellFoundedInduction, TLAPS

-----------------------------------------------------------------------------
(* Journals of local runs.                                                   *)
LocalTypeOK ==
    /\ lrBackend \in {"duckdb", "clickhouse"}
    /\ lrPc \in [LocalRuns -> {"start", "refused", "checked", "prepared", "ran", "failed",
                               "ingest", "open", "direct", "row", "activities", "done"}]
    /\ lrFile \subseteq LocalRuns /\ lrDaemon \in {"up", "down"}
    /\ lrPending \subseteq LocalRuns /\ lrLock \subseteq LocalRuns
    /\ lrRows \in [LocalRuns -> Nat] /\ lrWhole \subseteq LocalRuns
    /\ lrFaults \in Nat

(* What an ingestion knows of the rows between its steps: the transaction of
   DuckDB leaves nothing to know, and nobody else adds the row that a run's own
   count has missed, because a run offers its journal from one place at a time
   and no daemon imports into ClickHouse. *)
LocalIngestInv ==
    \A r \in LocalRuns :
        /\ lrPc[r] \in {"open", "direct"} \/ r \in lrPending => lrBackend = "duckdb"
        /\ lrPc[r] \in {"row", "activities"} => lrBackend = "clickhouse"
        /\ lrPc[r] = "row" => lrRows[r] = 0
        /\ lrPc[r] = "activities" => lrRows[r] = 1

LocalIInv == LocalTypeOK /\ LocalIngestInv /\ LocalIngestOnce

(* Every step keeps the types of the variables. *)
LEMMA LocalTypeStep ==
    ASSUME LocalTypeOK, [LocalNext]_lrVars
    PROVE  LocalTypeOK'
<1> USE LocalAssumption DEF LocalTypeOK
<1>1. ASSUME NEW q \in LocalRuns, CheckRun(q) PROVE LocalTypeOK'
  BY <1>1 DEF CheckRun, LocalGo, LocalFault, IngestJournal, lrHost, lrStore, lrVars
<1>2. ASSUME NEW q \in LocalRuns, PrepareJournal(q) PROVE LocalTypeOK'
  BY <1>2 DEF PrepareJournal, LocalGo, LocalFault, IngestJournal, lrHost, lrStore, lrVars
<1>3. ASSUME NEW q \in LocalRuns, RunExperiment(q) PROVE LocalTypeOK'
  BY <1>3 DEF RunExperiment, LocalGo, LocalFault, IngestJournal, lrHost, lrStore, lrVars
<1>4. ASSUME NEW q \in LocalRuns, WriteJournal(q) PROVE LocalTypeOK'
  BY <1>4 DEF WriteJournal, LocalGo, LocalFault, IngestJournal, lrHost, lrStore, lrVars
<1>5. ASSUME NEW q \in LocalRuns, NEW answer \in {"ingested", "rejected", "silent"},
             PostJournal(q, answer) PROVE LocalTypeOK'
  BY <1>5 DEF PostJournal, LocalGo, LocalFault, IngestJournal, lrHost, lrStore, lrVars
<1>6. ASSUME NEW q \in LocalRuns, ImportJournal(q) PROVE LocalTypeOK'
  BY <1>6 DEF ImportJournal, LocalGo, LocalFault, IngestJournal, lrHost, lrStore, lrVars
<1>7. ASSUME NEW q \in LocalRuns, OpenStore(q) PROVE LocalTypeOK'
  BY <1>7 DEF OpenStore, LocalGo, LocalFault, IngestJournal, lrHost, lrStore, lrVars
<1>8. ASSUME NEW q \in LocalRuns, DirectIngest(q) PROVE LocalTypeOK'
  BY <1>8 DEF DirectIngest, LocalGo, LocalFault, IngestJournal, lrHost, lrStore, lrVars
<1>9. ASSUME NEW q \in LocalRuns, ClickHouseCount(q) PROVE LocalTypeOK'
  BY <1>9 DEF ClickHouseCount, LocalGo, LocalFault, IngestJournal, lrHost, lrStore, lrVars
<1>10. ASSUME NEW q \in LocalRuns, ClickHouseRow(q) PROVE LocalTypeOK'
  BY <1>10 DEF ClickHouseRow, LocalGo, LocalFault, IngestJournal, lrHost, lrStore, lrVars
<1>11. ASSUME NEW q \in LocalRuns, ClickHouseActivities(q) PROVE LocalTypeOK'
  BY <1>11 DEF ClickHouseActivities, LocalGo, LocalFault, IngestJournal, lrHost, lrStore, lrVars
<1>12. ASSUME NEW q \in LocalRuns, Reingest(q) PROVE LocalTypeOK'
  BY <1>12 DEF Reingest, LocalGo, LocalFault, IngestJournal, lrHost, lrStore, lrVars
<1>13. CASE DaemonChanges
  BY <1>13 DEF DaemonChanges, LocalGo, LocalFault, IngestJournal, lrHost, lrStore, lrVars
<1>14. CASE UNCHANGED lrVars
  BY <1>14 DEF LocalGo, LocalFault, IngestJournal, lrHost, lrStore, lrVars
<1> QED  BY <1>1, <1>2, <1>3, <1>4, <1>5, <1>6, <1>7, <1>8, <1>9, <1>10, <1>11, <1>12, <1>13,
             <1>14 DEF LocalNext

(* No step adds rows behind the back of an ingestion. *)
LEMMA LocalIngestStep ==
    ASSUME LocalTypeOK, LocalIngestInv, [LocalNext]_lrVars
    PROVE  LocalIngestInv'
<1> USE LocalAssumption DEF LocalTypeOK, LocalIngestInv
<1>1. ASSUME NEW q \in LocalRuns, CheckRun(q) PROVE LocalIngestInv'
  BY <1>1 DEF CheckRun, LocalGo, LocalFault, IngestJournal, lrHost, lrStore, lrVars
<1>2. ASSUME NEW q \in LocalRuns, PrepareJournal(q) PROVE LocalIngestInv'
  BY <1>2 DEF PrepareJournal, LocalGo, LocalFault, IngestJournal, lrHost, lrStore, lrVars
<1>3. ASSUME NEW q \in LocalRuns, RunExperiment(q) PROVE LocalIngestInv'
  BY <1>3 DEF RunExperiment, LocalGo, LocalFault, IngestJournal, lrHost, lrStore, lrVars
<1>4. ASSUME NEW q \in LocalRuns, WriteJournal(q) PROVE LocalIngestInv'
  BY <1>4 DEF WriteJournal, LocalGo, LocalFault, IngestJournal, lrHost, lrStore, lrVars
<1>5. ASSUME NEW q \in LocalRuns, NEW answer \in {"ingested", "rejected", "silent"},
             PostJournal(q, answer) PROVE LocalIngestInv'
  BY <1>5 DEF PostJournal, LocalGo, LocalFault, IngestJournal, lrHost, lrStore, lrVars
<1>6. ASSUME NEW q \in LocalRuns, ImportJournal(q) PROVE LocalIngestInv'
  BY <1>6 DEF ImportJournal, LocalGo, LocalFault, IngestJournal, lrHost, lrStore, lrVars
<1>7. ASSUME NEW q \in LocalRuns, OpenStore(q) PROVE LocalIngestInv'
  BY <1>7 DEF OpenStore, LocalGo, LocalFault, IngestJournal, lrHost, lrStore, lrVars
<1>8. ASSUME NEW q \in LocalRuns, DirectIngest(q) PROVE LocalIngestInv'
  BY <1>8 DEF DirectIngest, LocalGo, LocalFault, IngestJournal, lrHost, lrStore, lrVars
<1>9. ASSUME NEW q \in LocalRuns, ClickHouseCount(q) PROVE LocalIngestInv'
  BY <1>9 DEF ClickHouseCount, LocalGo, LocalFault, IngestJournal, lrHost, lrStore, lrVars
<1>10. ASSUME NEW q \in LocalRuns, ClickHouseRow(q) PROVE LocalIngestInv'
  BY <1>10 DEF ClickHouseRow, LocalGo, LocalFault, IngestJournal, lrHost, lrStore, lrVars
<1>11. ASSUME NEW q \in LocalRuns, ClickHouseActivities(q) PROVE LocalIngestInv'
  BY <1>11 DEF ClickHouseActivities, LocalGo, LocalFault, IngestJournal, lrHost, lrStore, lrVars
<1>12. ASSUME NEW q \in LocalRuns, Reingest(q) PROVE LocalIngestInv'
  BY <1>12 DEF Reingest, LocalGo, LocalFault, IngestJournal, lrHost, lrStore, lrVars
<1>13. CASE DaemonChanges
  BY <1>13 DEF DaemonChanges, LocalGo, LocalFault, IngestJournal, lrHost, lrStore, lrVars
<1>14. CASE UNCHANGED lrVars
  BY <1>14 DEF LocalGo, LocalFault, IngestJournal, lrHost, lrStore, lrVars
<1> QED  BY <1>1, <1>2, <1>3, <1>4, <1>5, <1>6, <1>7, <1>8, <1>9, <1>10, <1>11, <1>12, <1>13,
             <1>14 DEF LocalNext

(* No step adds a second row, or takes a part of the rows away. *)
LEMMA LocalOnceStep ==
    ASSUME LocalTypeOK, LocalIngestInv, LocalIngestOnce, [LocalNext]_lrVars
    PROVE  LocalIngestOnce'
<1> USE LocalAssumption DEF LocalTypeOK, LocalIngestInv, LocalIngestOnce
<1>1. ASSUME NEW q \in LocalRuns, CheckRun(q) PROVE LocalIngestOnce'
  BY <1>1 DEF CheckRun, LocalGo, LocalFault, IngestJournal, lrHost, lrStore, lrVars
<1>2. ASSUME NEW q \in LocalRuns, PrepareJournal(q) PROVE LocalIngestOnce'
  BY <1>2 DEF PrepareJournal, LocalGo, LocalFault, IngestJournal, lrHost, lrStore, lrVars
<1>3. ASSUME NEW q \in LocalRuns, RunExperiment(q) PROVE LocalIngestOnce'
  BY <1>3 DEF RunExperiment, LocalGo, LocalFault, IngestJournal, lrHost, lrStore, lrVars
<1>4. ASSUME NEW q \in LocalRuns, WriteJournal(q) PROVE LocalIngestOnce'
  BY <1>4 DEF WriteJournal, LocalGo, LocalFault, IngestJournal, lrHost, lrStore, lrVars
<1>5. ASSUME NEW q \in LocalRuns, NEW answer \in {"ingested", "rejected", "silent"},
             PostJournal(q, answer) PROVE LocalIngestOnce'
  BY <1>5 DEF PostJournal, LocalGo, LocalFault, IngestJournal, lrHost, lrStore, lrVars
<1>6. ASSUME NEW q \in LocalRuns, ImportJournal(q) PROVE LocalIngestOnce'
  BY <1>6 DEF ImportJournal, LocalGo, LocalFault, IngestJournal, lrHost, lrStore, lrVars
<1>7. ASSUME NEW q \in LocalRuns, OpenStore(q) PROVE LocalIngestOnce'
  BY <1>7 DEF OpenStore, LocalGo, LocalFault, IngestJournal, lrHost, lrStore, lrVars
<1>8. ASSUME NEW q \in LocalRuns, DirectIngest(q) PROVE LocalIngestOnce'
  BY <1>8 DEF DirectIngest, LocalGo, LocalFault, IngestJournal, lrHost, lrStore, lrVars
<1>9. ASSUME NEW q \in LocalRuns, ClickHouseCount(q) PROVE LocalIngestOnce'
  BY <1>9 DEF ClickHouseCount, LocalGo, LocalFault, IngestJournal, lrHost, lrStore, lrVars
<1>10. ASSUME NEW q \in LocalRuns, ClickHouseRow(q) PROVE LocalIngestOnce'
  BY <1>10 DEF ClickHouseRow, LocalGo, LocalFault, IngestJournal, lrHost, lrStore, lrVars
<1>11. ASSUME NEW q \in LocalRuns, ClickHouseActivities(q) PROVE LocalIngestOnce'
  BY <1>11 DEF ClickHouseActivities, LocalGo, LocalFault, IngestJournal, lrHost, lrStore, lrVars
<1>12. ASSUME NEW q \in LocalRuns, Reingest(q) PROVE LocalIngestOnce'
  BY <1>12 DEF Reingest, LocalGo, LocalFault, IngestJournal, lrHost, lrStore, lrVars
<1>13. CASE DaemonChanges
  BY <1>13 DEF DaemonChanges, LocalGo, LocalFault, IngestJournal, lrHost, lrStore, lrVars
<1>14. CASE UNCHANGED lrVars
  BY <1>14 DEF LocalGo, LocalFault, IngestJournal, lrHost, lrStore, lrVars
<1> QED  BY <1>1, <1>2, <1>3, <1>4, <1>5, <1>6, <1>7, <1>8, <1>9, <1>10, <1>11, <1>12, <1>13,
             <1>14 DEF LocalNext

(* The steps of the ingestions and the rows together. *)
LEMMA LocalInvariance == LocalSpec => []LocalIInv
<1>1. LocalInit => LocalIInv
  <2> SUFFICES ASSUME LocalInit PROVE LocalIInv
    OBVIOUS
  <2> USE LocalAssumption DEF LocalInit
  <2>1. LocalTypeOK
    BY DEF LocalTypeOK
  <2>2. LocalIngestInv
    BY DEF LocalIngestInv
  <2>3. ASSUME NEW r \in LocalRuns
        PROVE  lrRows[r] = 0 /\ lrRows[r] <= 1 /\ lrRows[r] # 1 /\ r \notin lrWhole
    OBVIOUS
  <2> QED  BY <2>1, <2>2, <2>3, Zenon DEF LocalIInv, LocalIngestOnce
<1>2. LocalIInv /\ [LocalNext]_lrVars => LocalIInv'
  BY LocalTypeStep, LocalIngestStep, LocalOnceStep DEF LocalIInv
<1> QED  BY <1>1, <1>2, PTL DEF LocalSpec

(* The types of the journal's path and the store's rows (run.rs). *)
THEOREM LocalTypeCorrect == LocalSpec => []LocalTypeOK
<1>1. LocalIInv => LocalTypeOK
  BY DEF LocalIInv
<1> QED  BY <1>1, LocalInvariance, PTL

(* A run is stored at most once and whole, but for what a fault cut short in
   ClickHouse (auto_ingest_journal, import_journal). *)
THEOREM IngestOnceAlways == LocalSpec => []LocalIngestOnce
<1>1. LocalIInv => LocalIngestOnce
  BY DEF LocalIInv
<1> QED  BY <1>1, LocalInvariance, PTL

-----------------------------------------------------------------------------
(* GameDays.                                                                 *)
GdLife ==
    /\ gdPc \in {"start", "load", "run", "stop", "unwind", "returned"}
    /\ gdChild \in {"none", "running", "unwatched", "exited", "killed"}
    /\ gdHeld \in BOOLEAN
    /\ gdChild \in {"running", "unwatched"} => gdHeld
    /\ gdPc \in {"start", "load"} => gdChild = "none" /\ ~gdHeld
    /\ gdPc = "returned" => ~gdHeld
GdData ==
    /\ gdJournals \in Seq(GdJournal) /\ Len(gdJournals) <= Len(Articles)
    /\ gdLoad \in {{}, {0}, {30}, {60}}
    /\ gdAnswer = "COMPLIANT" => gdPc = "returned" /\ GdStatus(gdJournals, gdLoad) = "COMPLIANT"
GdIInv == GdLife /\ GdData

(* A quotient, bounded by what is divided. *)
LEMMA QuotientBelow ==
    ASSUME NEW t \in Nat, NEW n \in Nat \ {0}
    PROVE  t \div n \in Nat /\ n * (t \div n) <= t
BY Z3

(* A product grows with its second factor. *)
LEMMA ProductOrder ==
    ASSUME NEW n \in Nat, NEW a \in Nat, NEW b \in Nat, a <= b
    PROVE  n * a \in Nat /\ n * b \in Nat /\ n * a <= n * b
<1>1. PICK d \in Nat : b = a + d
  BY b - a \in Nat, b = a + (b - a)
<1>2. n * b = n * a + n * d /\ n * a \in Nat /\ n * d \in Nat
  BY <1>1
<1> QED  BY <1>2

(* A share of a part is at most the whole, and a share that is large is of a
   large part. *)
LEMMA ShareBounds ==
    ASSUME NEW k \in Nat, NEW n \in Nat \ {0}, k <= n
    PROVE  /\ Share(k, n) \in Nat /\ Share(k, n) <= 60
           /\ 41 <= Share(k, n) => 3 * k > 2 * n
           /\ 30 <= Share(k, n) => 2 * k >= n
<1> DEFINE q == Share(k, n)
<1>1. q \in Nat /\ n * q <= 60 * k
  BY QuotientBelow DEF Share
<1> HIDE DEF q
<1>2. q <= 60
  <2> SUFFICES ASSUME 61 <= q PROVE FALSE
    BY <1>1
  <2>1. n * 61 <= n * q
    BY <1>1, ProductOrder
  <2> QED  BY <1>1, <2>1
<1>3. 41 <= q => 3 * k > 2 * n
  <2> SUFFICES ASSUME 41 <= q PROVE 3 * k > 2 * n
    OBVIOUS
  <2>1. n * 41 <= n * q
    BY <1>1, ProductOrder
  <2> QED  BY <1>1, <2>1
<1>4. 30 <= q => 2 * k >= n
  <2> SUFFICES ASSUME 30 <= q PROVE 2 * k >= n
    OBVIOUS
  <2>1. n * 30 <= n * q
    BY <1>1, ProductOrder
  <2> QED  BY <1>1, <2>1
<1> QED  BY <1>1, <1>2, <1>3, <1>4 DEF q

(* The cardinalities of the journals that passed and of all. *)
LEMMA PassBounds ==
    ASSUME NEW js \in Seq(GdJournal)
    PROVE  /\ DOMAIN js = 1 .. Len(js) /\ Len(js) \in Nat
           /\ IsFiniteSet(DOMAIN js) /\ Cardinality(DOMAIN js) = Len(js)
           /\ GdPasses(js) \subseteq DOMAIN js
           /\ Cardinality(GdPasses(js)) \in Nat /\ Cardinality(GdPasses(js)) <= Len(js)
           /\ IsFiniteSet(GdPasses(js)) /\ (js = <<>> <=> Len(js) = 0)
<1>1. DOMAIN js = 1 .. Len(js) /\ Len(js) \in Nat /\ (js = <<>> <=> Len(js) = 0)
  BY EmptySeq
<1>2. IsFiniteSet(1 .. Len(js)) /\ Cardinality(1 .. Len(js)) = Len(js)
  BY <1>1, FS_Interval
<1>3. GdPasses(js) \subseteq DOMAIN js
  BY DEF GdPasses
<1>4. /\ IsFiniteSet(GdPasses(js)) /\ Cardinality(GdPasses(js)) \in Nat
      /\ Cardinality(GdPasses(js)) <= Cardinality(DOMAIN js)
  BY <1>1, <1>2, <1>3, FS_Subset, FS_CardinalityType
<1> QED  BY <1>1, <1>2, <1>3, <1>4

(* The components of the score are shares. *)
LEMMA PassRateBounds ==
    ASSUME NEW js \in Seq(GdJournal)
    PROVE  /\ PassRate(js) \in Nat /\ PassRate(js) <= 60
           /\ 41 <= PassRate(js) => 3 * Cardinality(GdPasses(js)) > 2 * Len(js)
<1>1. CASE js = <<>>
  BY <1>1 DEF PassRate
<1>2. CASE js # <<>>
  <2>1. Len(js) \in Nat \ {0} /\ PassRate(js) = Share(Cardinality(GdPasses(js)), Len(js))
    BY <1>2, PassBounds DEF PassRate
  <2>2. Cardinality(GdPasses(js)) \in Nat /\ Cardinality(GdPasses(js)) <= Len(js)
    BY PassBounds
  <2> QED  BY <2>1, <2>2, ShareBounds
<1> QED  BY <1>1, <1>2

(* The share of recoveries in time. *)
LEMMA RecoveryBounds ==
    ASSUME NEW js \in Seq(GdJournal)
    PROVE  RecoveryCompliance(js) \in Nat /\ RecoveryCompliance(js) <= 60
<1> DEFINE Measured == {i \in DOMAIN js : js[i].recovery # "none"}
           Met == {i \in DOMAIN js : js[i].recovery = "met"}
<1>1. Met \subseteq Measured /\ Measured \subseteq DOMAIN js
  OBVIOUS
<1>2. IsFiniteSet(Measured)
  BY <1>1, PassBounds, FS_Subset
<1>3. RecoveryCompliance(js) = IF Measured = {} THEN 60
                               ELSE Share(Cardinality(Met), Cardinality(Measured))
  BY DEF RecoveryCompliance
<1> HIDE DEF Measured, Met
<1>4. /\ Cardinality(Met) \in Nat /\ Cardinality(Measured) \in Nat
      /\ Cardinality(Met) <= Cardinality(Measured)
      /\ Measured # {} => Cardinality(Measured) # 0
  BY <1>1, <1>2, FS_Subset, FS_CardinalityType, FS_EmptySet
<1>5. CASE Measured = {}
  BY <1>3, <1>5
<1>6. CASE Measured # {}
  BY <1>3, <1>4, <1>6, ShareBounds
<1> QED  BY <1>5, <1>6

(* Articles of the experiments that ran are finitely many. *)
LEMMA ArticlesFinite ==
    ASSUME NEW S, IsFiniteSet(S), S \subseteq 1 .. Len(Articles)
    PROVE  IsFiniteSet(UNION {Articles[i] : i \in S})
<1> DEFINE F == [i \in S |-> Articles[i]]
           T == {Articles[i] : i \in S}
<1>1. F \in Surjection(S, T)
  BY DEF Surjection
<1>2. IsFiniteSet(T)
  <2> HIDE DEF F, T
  <2> QED  BY <1>1, FS_Surjection, Zenon
<1>3. \A X \in T : IsFiniteSet(X)
  <2>1. DOMAIN Articles = 1 .. Len(Articles)
    BY GamedayAssumption
  <2>2. \A i \in S : IsFiniteSet(Articles[i])
    BY <2>1, GamedayAssumption
  <2> QED  BY <2>2
<1>4. IsFiniteSet(UNION T)
  <2> HIDE DEF T
  <2> QED  BY <1>2, <1>3, FS_UNION
<1> QED  BY <1>4

(* The share of articles the passes cover, and what half of it means. *)
LEMMA CoverageBounds ==
    ASSUME NEW js \in Seq(GdJournal), Len(js) <= Len(Articles)
    PROVE  /\ ComplianceCoverage(js) \in Nat /\ ComplianceCoverage(js) <= 60
           /\ 30 <= ComplianceCoverage(js) =>
                2 * Cardinality(UNION {Articles[i] : i \in GdPasses(js)})
                  >= Cardinality(UNION {Articles[i] : i \in DOMAIN js})
<1> DEFINE A == UNION {Articles[i] : i \in GdPasses(js)}
           B == UNION {Articles[i] : i \in DOMAIN js}
<1>1. Len(Articles) \in Nat /\ DOMAIN js \subseteq 1 .. Len(Articles)
  BY GamedayAssumption, PassBounds
<1>2. IsFiniteSet(B)
  BY <1>1, PassBounds, ArticlesFinite
<1>3. A \subseteq B
  BY PassBounds
<1>4. ComplianceCoverage(js) = IF B = {} THEN 60 ELSE Share(Cardinality(A), Cardinality(B))
  BY DEF ComplianceCoverage
<1> HIDE DEF A, B
<1>5. /\ Cardinality(A) \in Nat /\ Cardinality(B) \in Nat /\ Cardinality(A) <= Cardinality(B)
      /\ B # {} => Cardinality(B) # 0
      /\ B = {} => Cardinality(B) = 0
  BY <1>2, <1>3, FS_Subset, FS_CardinalityType, FS_EmptySet
<1>6. /\ ComplianceCoverage(js) \in Nat /\ ComplianceCoverage(js) <= 60
      /\ 30 <= ComplianceCoverage(js) => 2 * Cardinality(A) >= Cardinality(B)
  <2>1. CASE B = {}
    BY <1>4, <1>5, <2>1
  <2>2. CASE B # {}
    BY <1>4, <1>5, <2>2, ShareBounds
  <2> QED  BY <2>1, <2>2
<1> QED  BY <1>6 DEF A, B

(* What a campaign called COMPLIANT has to show for it. *)
LEMMA CompliantMeans ==
    ASSUME NEW js \in Seq(GdJournal), Len(js) <= Len(Articles), NEW load \in {{}, {0}, {30}, {60}},
           GdStatus(js, load) = "COMPLIANT"
    PROVE  /\ 3 * Cardinality(GdPasses(js)) > 2 * Len(js)
           /\ 2 * Cardinality(UNION {Articles[i] : i \in GdPasses(js)})
                >= Cardinality(UNION {Articles[i] : i \in DOMAIN js})
           /\ \A e \in load : 5 * e <= 2 * 60
<1> DEFINE P == PassRate(js)
           R == RecoveryCompliance(js)
           L == LoadImpact(load)
           C == ComplianceCoverage(js)
<1>1. P \in Nat /\ P <= 60 /\ R \in Nat /\ R <= 60 /\ C \in Nat /\ C <= 60
  BY PassRateBounds, RecoveryBounds, CoverageBounds
<1>2. L \in Nat /\ L <= 60 /\ (36 <= L => \A e \in load : e = 0)
  <2>1. CASE load = {}
    BY <2>1 DEF LoadImpact
  <2>2. ASSUME NEW x \in {0, 30, 60}, load = {x} PROVE L = 60 - x
    <3>1. (CHOOSE e \in load : TRUE) = x
      BY <2>2
    <3> QED  BY <2>2, <3>1 DEF LoadImpact
  <2> QED  BY <2>1, <2>2
<1>3. Overall(js, load) = 30 * P + 25 * R + 25 * L + 20 * C
  BY DEF Overall
<1>4. Overall(js, load) >= 5400 /\ ~(P = 40 /\ Overall(js, load) = 5400)
  BY DEF GdStatus
<1> HIDE DEF P, R, L, C
<1>5. 41 <= P /\ 30 <= C /\ 36 <= L
  BY <1>1, <1>2, <1>3, <1>4
<1> QED  BY <1>2, <1>5, PassRateBounds, CoverageBounds DEF P, C

(* Every step keeps the pass, the load and the signal in order. *)
LEMMA GdLifeStep ==
    ASSUME GdLife, [GamedayNext]_gdVars
    PROVE  GdLife'
<1> USE DEF GdLife
<1>1. CASE GdPrepare
  BY <1>1 DEF GdPrepare
<1>2. CASE GdStartLoad
  BY <1>2 DEF GdStartLoad
<1>3. CASE GdCancel
  BY <1>3 DEF GdCancel
<1>4. CASE GdExperiment
  BY <1>4 DEF GdExperiment
<1>5. CASE GdLoopEnds
  BY <1>5 DEF GdLoopEnds
<1>6. CASE GdLoadExits
  BY <1>6 DEF GdLoadExits
<1>7. CASE GdPoll
  BY <1>7 DEF GdPoll
<1>8. CASE GdCollect
  BY <1>8 DEF GdCollect
<1>9. CASE GdReturn
  BY <1>9 DEF GdReturn
<1>10. CASE GdUnwound
  BY <1>10 DEF GdUnwound
<1>11. CASE UNCHANGED gdVars
  BY <1>11 DEF gdVars
<1> QED  BY <1>1, <1>2, <1>3, <1>4, <1>5, <1>6, <1>7, <1>8, <1>9, <1>10, <1>11 DEF GamedayNext

(* Every step keeps the journals and the answer that was drawn from them. *)
LEMMA GdDataStep ==
    ASSUME GdLife, GdData, [GamedayNext]_gdVars
    PROVE  GdData'
<1> USE DEF GdData
<1>1. CASE UNCHANGED <<gdJournals, gdLoad>> /\ gdPc # "returned" /\ gdAnswer' \in {gdAnswer, "refused", "panicked"}
  BY <1>1
<1>2. CASE UNCHANGED <<gdJournals, gdLoad, gdPc, gdAnswer>>
  BY <1>2
<1>3. CASE GdExperiment
  <2>1. gdPc = "run" /\ UNCHANGED <<gdLoad, gdAnswer>>
    BY <1>3 DEF GdExperiment
  <2>2. ASSUME NEW j \in GdJournal, GdMore, gdJournals' = Append(gdJournals, j)
        PROVE  gdJournals' \in Seq(GdJournal) /\ Len(gdJournals') <= Len(Articles)
    <3>1. Len(gdJournals) \in Nat /\ Len(Articles) \in Nat
      BY GamedayAssumption
    <3>2. Append(gdJournals, j) \in Seq(GdJournal) /\ Len(Append(gdJournals, j)) = Len(gdJournals) + 1
      BY AppendProperties
    <3> QED  BY <2>2, <3>1, <3>2 DEF GdMore
  <2> QED  BY <1>3, <2>1, <2>2 DEF GdExperiment
<1>4. CASE GdCollect
  BY <1>4 DEF GdCollect
<1>5. CASE GdReturn
  BY <1>5 DEF GdReturn
<1>6. CASE GdPrepare \/ GdStartLoad \/ GdLoopEnds \/ GdUnwound
  BY <1>1, <1>6 DEF GdPrepare, GdStartLoad, GdLoopEnds, GdUnwound
<1>7. CASE GdCancel \/ GdLoadExits \/ GdPoll \/ UNCHANGED gdVars
  BY <1>2, <1>7 DEF GdCancel, GdLoadExits, GdPoll, gdVars
<1> QED  BY <1>3, <1>4, <1>5, <1>6, <1>7 DEF GamedayNext

(* For any experiments with any articles, any load and any polls: however a
   gameday is left no load process outlives it, and one called COMPLIANT has
   passed more than two thirds of what it ran, covered half of its articles and
   lost at most two fifths of the load's checks. *)
THEOREM GamedaySoundAlways == GamedaySpec => []GdSound
<1>1. GamedayInit => GdIInv
  <2> SUFFICES ASSUME GamedayInit PROVE GdIInv
    OBVIOUS
  <2>1. gdJournals \in Seq(GdJournal) /\ Len(gdJournals) = 0 /\ Len(Articles) \in Nat
    BY EmptySeq, GamedayAssumption DEF GamedayInit
  <2>2. GdLife
    BY DEF GamedayInit, GdLife
  <2>3. GdData
    BY <2>1 DEF GamedayInit, GdData
  <2> QED  BY <2>2, <2>3 DEF GdIInv
<1>2. GdIInv /\ [GamedayNext]_gdVars => GdIInv'
  BY GdLifeStep, GdDataStep DEF GdIInv
<1>3. GdIInv => GdSound
  <2> SUFFICES ASSUME GdIInv PROVE GdSound
    OBVIOUS
  <2>1. gdPc = "returned" => gdChild \notin {"running", "unwatched"} /\ ~gdHeld
    BY DEF GdIInv, GdLife
  <2> QED  BY <2>1, CompliantMeans DEF GdIInv, GdData, GdSound
<1> QED  BY <1>1, <1>2, <1>3, PTL DEF GamedaySpec

-----------------------------------------------------------------------------
(* Manual evidence.                                                          *)
MeActions == {"create", "edit", "submit", "attach", "verify", "reject"}
MeHashes == {NoHash} \cup ((Contents \cup {""}) \X (Environments \cup {""})
                          \X (People \cup {NoPerson}) \X Statuses)
MeRows == [status : Statuses, content : Contents \cup {""}, env : Environments \cup {""},
           entered : People \cup {NoPerson}, reviewer : People \cup {NoPerson},
           attached : Nat, hash : MeHashes]
MeLinks == [by : People, action : MeActions, prev : MeHashes, new : MeHashes]

MeTypes == meRow \in [Records -> MeRows] /\ meAudit \in [Records -> Seq(MeLinks)]

(* A trail is a chain of hashes that starts from none and ends in the row's. *)
MeChain(r) ==
    /\ \A i \in 2 .. Len(meAudit[r]) : meAudit[r][i].prev = meAudit[r][i - 1].new
    /\ IF meAudit[r] = <<>>
       THEN meRow[r].status = "none" /\ meRow[r].hash = NoHash
       ELSE /\ meRow[r].status # "none" /\ meRow[r].hash = Rehash(meRow[r])
            /\ meAudit[r][1].prev = NoHash /\ meAudit[r][Len(meAudit[r])].new = meRow[r].hash

(* The states of a record leave their traces in its trail: who entered it, no
   submission of a draft, no review before the last link. *)
MeTrail(r) ==
    /\ meAudit[r] # <<>> =>
         meAudit[r][1].by = meRow[r].entered /\ meAudit[r][1].action = "create"
    /\ \A i \in 1 .. Len(meAudit[r]) :
         /\ meAudit[r][i].action = "submit" =>
              /\ meRow[r].status # "draft"
              /\ meAudit[r][i].new[1] = meRow[r].content /\ meAudit[r][i].new[2] = meRow[r].env
         /\ meAudit[r][i].action \in {"verify", "reject"} <=> Reviewed(r) /\ i = Len(meAudit[r])
    /\ Reviewed(r) => ~Contributed(r, meRow[r].reviewer)

MeGood(r) == MeChain(r) /\ MeTrail(r)
MeIInv == MeTypes /\ \A r \in Records : MeGood(r)

(* A link joins the trail of one record. *)
LEMMA TrailGrows ==
    ASSUME MeTypes, NEW r \in Records, NEW link \in MeLinks,
           meAudit' = [meAudit EXCEPT ![r] = Append(@, link)]
    PROVE  /\ meAudit' \in [Records -> Seq(MeLinks)]
           /\ \A q \in Records \ {r} : meAudit'[q] = meAudit[q]
           /\ Len(meAudit[r]) \in Nat /\ Len(meAudit'[r]) = Len(meAudit[r]) + 1
           /\ meAudit'[r][Len(meAudit[r]) + 1] = link
           /\ \A i \in 1 .. Len(meAudit[r]) : meAudit'[r][i] = meAudit[r][i]
<1> DEFINE s == meAudit[r]
<1>1. s \in Seq(MeLinks) /\ Len(s) \in Nat
  BY DEF MeTypes
<1>2. /\ Append(s, link) \in Seq(MeLinks) /\ Len(Append(s, link)) = Len(s) + 1
      /\ \A i \in 1 .. Len(s) : Append(s, link)[i] = s[i]
      /\ Append(s, link)[Len(s) + 1] = link
  <2> HIDE DEF s
  <2> QED  BY <1>1, AppendProperties
<1>3. meAudit' \in [Records -> Seq(MeLinks)] /\ meAudit'[r] = Append(s, link)
  BY <1>2 DEF MeTypes
<1> QED  BY <1>1, <1>2, <1>3

(* A record that nobody touches is as good as before. *)
LEMMA RecordStays ==
    ASSUME NEW q \in Records, MeGood(q), meRow'[q] = meRow[q], meAudit'[q] = meAudit[q]
    PROVE  MeGood(q)'
<1>1. MeChain(q)'
  BY DEF MeGood, MeChain, Rehash
<1>2. \A p : Contributed(q, p)' <=> Contributed(q, p)
  BY Zenon DEF Contributed
<1>3. Reviewed(q)' <=> Reviewed(q)
  BY DEF Reviewed
<1>4. MeTrail(q)'
  BY <1>2, <1>3 DEF MeGood, MeTrail
<1> QED  BY <1>1, <1>4 DEF MeGood

(* What a row and its trail owe each other, kept by a step that gives the row a
   new value and appends the link that says so. *)
LEMMA RecordMoves ==
    ASSUME MeIInv, NEW r \in Records, NEW row \in MeRows, NEW link \in MeLinks,
           meRow' = [meRow EXCEPT ![r] = row],
           meAudit' = [meAudit EXCEPT ![r] = Append(@, link)],
           link.prev = meRow[r].hash, link.new = row.hash, row.hash = Rehash(row),
           row.status # "none", ~Reviewed(r),
           meRow[r].status = "none" => link.action = "create" /\ link.by = row.entered,
           meRow[r].status # "none" => row.entered = meRow[r].entered,
           meRow[r].status = "submitted" =>
               row.status # "draft" /\ row.content = meRow[r].content /\ row.env = meRow[r].env,
           link.action = "submit" => row.status # "draft",
           link.action \in {"verify", "reject"} <=> row.status \in {"verified", "rejected"},
           row.status \in {"verified", "rejected"} => ~Contributed(r, row.reviewer)
    PROVE  MeIInv'
<1> DEFINE s == meAudit[r]
           t == meAudit'[r]
           n == Len(s)
<1>1. /\ meRow' \in [Records -> MeRows] /\ meRow'[r] = row
      /\ \A q \in Records \ {r} : meRow'[q] = meRow[q]
  BY DEF MeIInv, MeTypes
<1>2. /\ meAudit' \in [Records -> Seq(MeLinks)] /\ \A q \in Records \ {r} : meAudit'[q] = meAudit[q]
      /\ n \in Nat /\ Len(t) = n + 1 /\ t[n + 1] = link /\ \A i \in 1 .. n : t[i] = s[i]
  BY TrailGrows DEF MeIInv
<1>3. ASSUME NEW q \in Records \ {r} PROVE MeGood(q)'
  <2>1. meRow'[q] = meRow[q] /\ meAudit'[q] = meAudit[q] /\ MeGood(q)
    BY <1>1, <1>2 DEF MeIInv
  <2> QED  BY <2>1, RecordStays
<1>4. meAudit[r] = <<>> <=> n = 0
  BY <1>2, EmptySeq DEF MeIInv, MeTypes
<1>5. MeChain(r) /\ MeTrail(r)
  BY DEF MeIInv, MeGood
<1>6. meRow[r].status = "none" <=> n = 0
  BY <1>4, <1>5 DEF MeChain
<1>7. meAudit'[r] # <<>>
  BY <1>2
<1>8. MeChain(r)'
  <2>1. ASSUME NEW i \in 2 .. Len(t) PROVE t[i].prev = t[i - 1].new
    <3>1. CASE i = n + 1
      <4>1. t[n] = s[n] /\ s[n].new = meRow[r].hash
        BY <1>2, <1>4, <1>5, <3>1 DEF MeChain
      <4> QED  BY <1>2, <3>1, <4>1
    <3>2. CASE i # n + 1
      <4>1. i \in 2 .. n /\ i \in 1 .. n /\ i - 1 \in 1 .. n
        BY <1>2, <3>2
      <4>2. s[i].prev = s[i - 1].new
        BY <1>5, <4>1 DEF MeChain
      <4> QED  BY <1>2, <4>1, <4>2
    <3> QED  BY <3>1, <3>2
  <2>2. t[1].prev = NoHash
    BY <1>2, <1>4, <1>5 DEF MeChain
  <2>3. Rehash(meRow[r])' = Rehash(row)
    BY <1>1 DEF Rehash
  <2> QED  BY <1>1, <1>2, <1>7, <2>1, <2>2, <2>3 DEF MeChain
<1>9. Reviewed(r)' <=> row.status \in {"verified", "rejected"}
  BY <1>1 DEF Reviewed
<1>10. MeTrail(r)'
  <2>1. t[1].by = row.entered /\ t[1].action = "create"
    BY <1>2, <1>4, <1>5, <1>6 DEF MeTrail
  <2>2. ASSUME NEW i \in 1 .. Len(t)
        PROVE  /\ t[i].action = "submit" =>
                    row.status # "draft" /\ t[i].new[1] = row.content /\ t[i].new[2] = row.env
               /\ t[i].action \in {"verify", "reject"} <=> Reviewed(r)' /\ i = Len(t)
    <3>1. CASE i = n + 1
      <4>1. row.hash[1] = row.content /\ row.hash[2] = row.env
        BY DEF Rehash
      <4> QED  BY <1>2, <1>9, <3>1, <4>1
    <3>2. CASE i # n + 1
      <4>1. i \in 1 .. n /\ i # Len(t)
        BY <1>2, <3>2
      <4>2. t[i] = s[i] /\ t[i].action \notin {"verify", "reject"}
        BY <1>2, <1>5, <4>1 DEF MeTrail
      <4>3. t[i].action = "submit" => meRow[r].status = "submitted"
        <5>1. meRow[r].status \in Statuses
          BY DEF MeIInv, MeTypes, MeRows
        <5> QED  BY <1>2, <1>5, <1>6, <4>1, <5>1 DEF MeTrail, Reviewed, Statuses
      <4> QED  BY <1>2, <1>5, <4>1, <4>2, <4>3 DEF MeTrail
    <3> QED  BY <3>1, <3>2
  <2>3. Reviewed(r)' => ~Contributed(r, row.reviewer)'
    <3> SUFFICES ASSUME Reviewed(r)', NEW i \in 1 .. Len(t), t[i].by = row.reviewer,
                        t[i].action \in {"create", "edit", "submit", "attach"}
                 PROVE  FALSE
      BY DEF Contributed
    <3>1. i # n + 1
      BY <1>2, <1>9
    <3>2. i \in 1 .. n /\ t[i] = s[i]
      BY <1>2, <3>1
    <3> QED  BY <1>9, <3>2 DEF Contributed
  <2>4. Reviewed(r)' => ~Contributed(r, meRow[r].reviewer)'
    BY <1>1, <2>3 DEF Contributed
  <2>5. (meAudit[r])' = t /\ (meRow[r])' = row
    BY <1>1
  <2> HIDE DEF t
  <2> QED  BY <2>1, <2>2, <2>4, <2>5 DEF MeTrail
<1> QED  BY <1>1, <1>2, <1>3, <1>8, <1>10 DEF MeIInv, MeTypes, MeGood

(* A mutation gives the row the hash of its new content. *)
LEMMA MutateMoves ==
    ASSUME MeIInv, NEW r \in Records, NEW by \in People, NEW action \in MeActions, NEW row \in MeRows,
           Mutate(r, by, action, row), row.status # "none", ~Reviewed(r),
           meRow[r].status = "none" => action = "create" /\ by = row.entered,
           meRow[r].status # "none" => row.entered = meRow[r].entered,
           meRow[r].status = "submitted" =>
               row.status # "draft" /\ row.content = meRow[r].content /\ row.env = meRow[r].env,
           action = "submit" => row.status # "draft",
           action \in {"verify", "reject"} <=> row.status \in {"verified", "rejected"},
           row.status \in {"verified", "rejected"} => ~Contributed(r, row.reviewer)
    PROVE  MeIInv'
<1> DEFINE new == [row EXCEPT !.hash = Rehash(row)]
           link == [by |-> by, action |-> action, prev |-> meRow[r].hash, new |-> new.hash]
<1>1. Rehash(row) \in MeHashes
  BY DEF Rehash, MeHashes, MeRows
<1>2. /\ new \in MeRows /\ new.hash = Rehash(row) /\ new.status = row.status
      /\ new.content = row.content /\ new.env = row.env /\ new.entered = row.entered
      /\ new.reviewer = row.reviewer
  BY <1>1 DEF MeRows
<1>3. Rehash(new) = Rehash(row)
  BY <1>2 DEF Rehash
<1>4. meRow[r].hash \in MeHashes
  BY DEF MeIInv, MeTypes, MeRows
<1>5. /\ link \in MeLinks /\ link.by = by /\ link.action = action /\ link.prev = meRow[r].hash
      /\ link.new = new.hash
  BY <1>1, <1>2, <1>4 DEF MeLinks
<1>6. /\ meRow' = [meRow EXCEPT ![r] = new]
      /\ meAudit' = [meAudit EXCEPT ![r] = Append(@, link)]
  BY DEF Mutate, AppendAudit
<1> HIDE DEF new, link
<1> QED  BY <1>2, <1>3, <1>5, <1>6, RecordMoves

(* Every step keeps the records and their trails. *)
LEMMA MeStep ==
    ASSUME MeIInv, [MeNext]_meVars
    PROVE  MeIInv'
<1>a. \A r \in Records : meRow[r] \in MeRows
  BY DEF MeIInv, MeTypes
<1>b. \A r \in Records : meRow[r].status # "none" => meRow[r].hash = Rehash(meRow[r])
  BY DEF MeIInv, MeGood, MeChain
<1>c. \A r \in Records : meRow[r].attached \in Nat
  BY <1>a DEF MeRows
<1>1. ASSUME NEW r \in Records, NEW by \in People, NEW content \in Contents, NEW env \in Environments,
             CreateManualDraft(r, by, content, env)
      PROVE  MeIInv'
  <2> DEFINE row == [meRow[r] EXCEPT !.status = "draft", !.content = content, !.env = env, !.entered = by]
  <2>1. /\ row \in MeRows /\ row.status = "draft" /\ row.entered = by
    BY <1>a DEF MeRows, Statuses
  <2>2. Mutate(r, by, "create", row) /\ meRow[r].status = "none" /\ ~Reviewed(r)
    BY <1>1 DEF CreateManualDraft, Reviewed
  <2> HIDE DEF row
  <2> QED  BY <2>1, <2>2, MutateMoves DEF MeActions
<1>2. ASSUME NEW r \in Records, NEW by \in People, NEW content \in Contents, NEW env \in Environments,
             UpdateManualDraft(r, by, content, env)
      PROVE  MeIInv'
  <2> DEFINE row == [meRow[r] EXCEPT !.content = content, !.env = env]
  <2>1. /\ row \in MeRows /\ row.status = meRow[r].status /\ row.entered = meRow[r].entered
    BY <1>a DEF MeRows
  <2>2. Mutate(r, by, "edit", row) /\ meRow[r].status = "draft" /\ ~Reviewed(r)
    BY <1>2 DEF UpdateManualDraft, Reviewed
  <2> HIDE DEF row
  <2> QED  BY <2>1, <2>2, MutateMoves DEF MeActions
<1>3. ASSUME NEW r \in Records, NEW by \in People, SubmitManual(r, by)
      PROVE  MeIInv'
  <2> DEFINE row == [meRow[r] EXCEPT !.status = "submitted"]
  <2>1. /\ row \in MeRows /\ row.status = "submitted" /\ row.entered = meRow[r].entered
    BY <1>a DEF MeRows, Statuses
  <2>2. Mutate(r, by, "submit", row) /\ meRow[r].status = "draft" /\ ~Reviewed(r)
    BY <1>3 DEF SubmitManual, Reviewed
  <2> HIDE DEF row
  <2> QED  BY <2>1, <2>2, MutateMoves DEF MeActions
<1>4. ASSUME NEW r \in Records, NEW by \in People, NEW approve \in BOOLEAN, Review(r, by, approve)
      PROVE  MeIInv'
  <2> DEFINE status == IF approve THEN "verified" ELSE "rejected"
             row == [meRow[r] EXCEPT !.status = status, !.reviewer = by]
             action == IF approve THEN "verify" ELSE "reject"
  <2>1. /\ row \in MeRows /\ row.status = status /\ row.entered = meRow[r].entered
        /\ row.reviewer = by /\ row.content = meRow[r].content /\ row.env = meRow[r].env
    BY <1>a DEF MeRows, Statuses
  <2>2. /\ Mutate(r, by, action, row) /\ meRow[r].status = "submitted" /\ ~Reviewed(r)
        /\ ~Contributed(r, by)
    BY <1>4 DEF Review, Reviewed
  <2>3. /\ action \in {"verify", "reject"} /\ status \in {"verified", "rejected"}
    OBVIOUS
  <2> HIDE DEF row, action, status
  <2> QED  BY <2>1, <2>2, <2>3, MutateMoves DEF MeActions
<1>5. ASSUME NEW r \in Records, NEW by \in People, AddManualAttachment(r, by)
      PROVE  MeIInv'
  <2> DEFINE row == [meRow[r] EXCEPT !.attached = @ + 1]
             link == [by |-> by, action |-> "attach", prev |-> meRow[r].hash, new |-> meRow[r].hash]
  <2>1. /\ row \in MeRows /\ row.status = meRow[r].status /\ row.entered = meRow[r].entered
        /\ row.content = meRow[r].content /\ row.env = meRow[r].env /\ row.hash = meRow[r].hash
    <3>1. meRow[r].attached + 1 \in Nat
      BY <1>c
    <3> QED  BY <1>a, <3>1 DEF MeRows
  <2>2. meRow[r].status \in {"draft", "submitted"} /\ ~Reviewed(r)
    BY <1>5 DEF AddManualAttachment, Reviewed
  <2>3. /\ meRow' = [meRow EXCEPT ![r] = row]
        /\ meAudit' = [meAudit EXCEPT ![r] = Append(@, link)]
    BY <1>5, <1>a DEF AddManualAttachment, AppendAudit, MeRows
  <2>4. /\ link \in MeLinks /\ link.by = by /\ link.action = "attach" /\ link.prev = meRow[r].hash
        /\ link.new = row.hash
    BY <1>a, <2>1 DEF MeLinks, MeRows, MeActions
  <2>5. row.hash = Rehash(row)
    BY <1>b, <2>1, <2>2 DEF Rehash
  <2> HIDE DEF row, link
  <2> QED  BY <2>1, <2>2, <2>3, <2>4, <2>5, RecordMoves
<1>6. CASE UNCHANGED meVars
  <2>1. meRow' = meRow /\ meAudit' = meAudit
    BY <1>6 DEF meVars
  <2>2. ASSUME NEW q \in Records PROVE MeGood(q)'
    BY <2>1, RecordStays DEF MeIInv
  <2> QED  BY <2>1, <2>2 DEF MeIInv, MeTypes
<1> QED  BY <1>1, <1>2, <1>3, <1>4, <1>5, <1>6 DEF MeNext

(* At the start there is no record and no trail. *)
LEMMA MeInitInv == MeInit => MeIInv
<1> SUFFICES ASSUME MeInit PROVE MeIInv
  OBVIOUS
<1>1. MeTypes
  <2>1. \A r \in Records : meAudit[r] \in Seq(MeLinks)
    BY EmptySeq DEF MeInit
  <2>2. NoHash \in MeHashes /\ "none" \in Statuses
    BY DEF MeHashes, Statuses
  <2>3. \A r \in Records : meRow[r] \in MeRows
    <3> DEFINE C == Contents \cup {""}
               E == Environments \cup {""}
               P == People \cup {NoPerson}
               row == [status |-> "none", content |-> "", env |-> "", entered |-> NoPerson,
                       reviewer |-> NoPerson, attached |-> 0, hash |-> NoHash]
    <3>1. "" \in C /\ "" \in E /\ NoPerson \in P
      OBVIOUS
    <3>2. MeRows = [status : Statuses, content : C, env : E, entered : P, reviewer : P,
                    attached : Nat, hash : MeHashes]
      BY DEF MeRows
    <3>3. row \in MeRows
      <4> HIDE DEF C, E, P
      <4> QED  BY <2>2, <3>1, <3>2
    <3> QED  BY <3>3 DEF MeInit
  <2>4. DOMAIN meRow = Records /\ meRow = [r \in Records |-> meRow[r]]
    BY DEF MeInit
  <2>5. meAudit = [r \in Records |-> <<>>] /\ <<>> \in Seq(MeLinks)
    BY EmptySeq DEF MeInit
  <2> QED  BY <2>3, <2>4, <2>5 DEF MeTypes
<1>2. ASSUME NEW r \in Records PROVE MeGood(r)
  <2>1. meAudit[r] = <<>> /\ Len(meAudit[r]) = 0 /\ meRow[r].status = "none" /\ meRow[r].hash = NoHash
    BY DEF MeInit
  <2> QED  BY <2>1 DEF MeGood, MeChain, MeTrail, Reviewed
<1> QED  BY <1>1, <1>2 DEF MeIInv

(* What the trails of the records promise. *)
LEMMA MeEvidence == MeIInv => EvidenceTrusted
<1> SUFFICES ASSUME MeIInv PROVE EvidenceTrusted
  OBVIOUS
<1>1. ASSUME NEW r \in Records
      PROVE  /\ MeChain(r) /\ MeTrail(r) /\ Len(meAudit[r]) \in Nat
             /\ meAudit[r] = <<>> <=> Len(meAudit[r]) = 0
  BY EmptySeq DEF MeIInv, MeTypes, MeGood
<1>2. ASSUME NEW r \in Records, Reviewed(r) PROVE Contributed(r, meRow[r].entered)
  <2>1. meAudit[r] # <<>>
    BY <1>1, <1>2 DEF MeChain, Reviewed
  <2> QED  BY <1>1, <1>2, <2>1 DEF MeTrail, Contributed
<1>3. ReviewIndependent
  BY <1>1, <1>2 DEF ReviewIndependent, MeTrail
<1>4. EvidenceChained
  <2> SUFFICES ASSUME NEW r \in Records PROVE EvidenceChained!(r)
    BY Zenon DEF EvidenceChained
  <2> QED  BY <1>1 DEF MeChain, MeTrail
<1> QED  BY <1>3, <1>4 DEF EvidenceTrusted

(* Every step keeps the trails. *)
LEMMA MeIInvStep == MeIInv /\ [MeNext]_meVars => MeIInv'
BY MeStep

(* For any people with any scopes, any records and any edits: whoever reviewed
   a record had no part in it, and what was reviewed is what was submitted. *)
THEOREM EvidenceTrustedAlways == MeSpec => []EvidenceTrusted
BY MeEvidence, MeIInvStep, MeInitInv, PTL DEF MeSpec

-----------------------------------------------------------------------------
(* The audit chain.                                                          *)
(* A row, and the rows as a sequence of what they are. *)
ChRow(i) ==
    \/ chRows[i] = Gone
    \/ /\ chRows[i] = [at |-> chRows[i].at, text |-> chRows[i].text,
                       prev |-> chRows[i].prev, hash |-> chRows[i].hash]
       /\ chRows[i].at \in Nat \ {0}
ChTypes ==
    /\ chRows \in Seq({chRows[i] : i \in 1 .. Len(chRows)})
    /\ \A i \in 1 .. Len(chRows) : ChRow(i)
    /\ chClock \in Nat \ {0}
    /\ chTampered \in {"no", "rewritten", "removed", "truncated"}
    /\ \A i \in RowIds : i > 1 => chRows[i].hash # Null

(* The rows are in the order of their times, none of which is to come. *)
ChOrdered ==
    /\ \A i \in RowIds : chRows[i].at <= chClock
    /\ \A i, j \in RowIds : i < j => chRows[i].at <= chRows[j].at

ChRecomputes(i) == chRows[i].hash = AuditChainHash(chRows[i].at, chRows[i].text, chRows[i].prev)
ChBegins(i) == \A k \in Chained : k >= i
ChAdjoins(i, j) == i < j /\ \A k \in Chained : k <= i \/ j <= k
ChLinked ==
    /\ \A i \in Chained : ChRecomputes(i) /\ chRows[i].text \in {"a", "b"}
    /\ \A i \in Chained : ChBegins(i) => chRows[i].prev = Null
    /\ \A i, j \in Chained : ChAdjoins(i, j) => chRows[j].prev = chRows[i].hash
    /\ \A i, j \in Chained : i < j => chRows[i].hash # chRows[j].hash
ChBroken ==
    \/ \E i \in Chained : ~ChRecomputes(i)
    \/ \E i \in Chained : ChBegins(i) /\ chRows[i].prev # Null
    \/ \E i, j \in Chained : ChAdjoins(i, j) /\ chRows[j].prev # chRows[i].hash

ChIInv ==
    /\ ChTypes
    /\ ~chStepped =>
         /\ ChOrdered
         /\ IF chTampered \in {"no", "truncated"} THEN ChLinked ELSE ChBroken

(* A set of numbers up to a bound has a greatest member and a least. *)
LEMMA Extremes ==
    ASSUME NEW n \in Nat, NEW S \in SUBSET (1 .. n), S # {}
    PROVE  (\E m \in S : \A x \in S : x <= m) /\ (\E m \in S : \A x \in S : m <= x)
<1>1. ASSUME NEW T \in SUBSET Nat, T # {} PROVE \E y \in T : \A z \in T : y <= z
  <2>1. IsWellFoundedOn(OpToRel(<, Nat), Nat)
    BY NatLessThanWellFounded
  <2>2. PICK y \in T : \A z \in T : <<z, y>> \notin OpToRel(<, Nat)
    BY <1>1, <2>1, WFMin
  <2>3. \A z \in T : <<z, y>> \in Nat \X Nat
    OBVIOUS
  <2>4. \A z \in T : ~(z < y)
    BY <2>2, <2>3 DEF OpToRel
  <2> QED  BY <2>4
<1> DEFINE T == {n - x : x \in S}
<1>2. T \in SUBSET Nat /\ T # {}
  <2>1. \A x \in S : n - x \in Nat
    OBVIOUS
  <2>2. PICK x \in S : TRUE
    OBVIOUS
  <2>3. n - x \in T
    OBVIOUS
  <2> QED  BY <2>1, <2>3
<1>3. PICK y \in T : \A z \in T : y <= z
  <2> HIDE DEF T
  <2> QED  BY <1>1, <1>2
<1>4. PICK m \in S : y = n - m
  BY <1>3
<1>5. \A x \in S : x <= m
  <2> TAKE x \in S
  <2>1. n - x \in T
    OBVIOUS
  <2> HIDE DEF T
  <2> QED  BY <1>3, <1>4, <2>1
<1>6. \E l \in S : \A x \in S : l <= x
  BY <1>1
<1> QED  BY <1>5, <1>6

(* What a row that is there has. *)
LEMMA RowFields ==
    ASSUME ChTypes, NEW i \in RowIds
    PROVE  /\ i \in 1 .. Len(chRows) /\ Len(chRows) \in Nat /\ i \in Nat
           /\ chRows[i].at \in Nat /\ chRows[i].at > 0 /\ chRows[i] # Gone
           /\ chRows[i] = [at |-> chRows[i].at, text |-> chRows[i].text,
                           prev |-> chRows[i].prev, hash |-> chRows[i].hash]
<1>1. i \in 1 .. Len(chRows) /\ Len(chRows) \in Nat /\ chRows[i] # Gone
  BY DEF RowIds, ChTypes
<1> QED  BY <1>1 DEF ChTypes, ChRow

(* While the times are in order, the rows are read as they were written. *)
LEMMA EarlierIsBefore ==
    ASSUME ChTypes, ChOrdered, NEW i \in RowIds, NEW j \in RowIds
    PROVE  Earlier(i, j) <=> i < j
<1>1. /\ i \in Nat /\ j \in Nat /\ chRows[i].at \in Nat /\ chRows[j].at \in Nat
  BY RowFields
<1>2. /\ i < j => chRows[i].at <= chRows[j].at
      /\ j < i => chRows[j].at <= chRows[i].at
  BY DEF ChOrdered
<1> QED  BY <1>1, <1>2 DEF Earlier

(* So the verdict is the one on adjoining rows. *)
LEMMA VerdictReads ==
    ASSUME ChTypes, ChOrdered
    PROVE  VerifyRunAuditChain <=> ~ChBroken
<1>1. Chained \subseteq RowIds /\ \A i \in RowIds : i \in Nat
  BY RowFields DEF Chained
<1>2. \A i \in Chained : First(i) <=> ChBegins(i)
  BY <1>1, EarlierIsBefore DEF First, ChBegins
<1>3. \A i, j \in Chained : Follows(i, j) <=> ChAdjoins(i, j)
  <2> TAKE i, j \in Chained
  <2>1. Earlier(i, j) <=> i < j
    BY <1>1, EarlierIsBefore
  <2>2. \A k \in Chained : (Earlier(i, k) /\ Earlier(k, j)) <=> ~(k <= i \/ j <= k)
    BY <1>1, EarlierIsBefore
  <2> QED  BY <2>1, <2>2 DEF Follows, ChAdjoins
<1> QED  BY <1>2, <1>3 DEF VerifyRunAuditChain, ChBroken, ChRecomputes

(* A chained row that is not the first adjoins one before it, and one that is
   not the last one after it. *)
LEMMA Neighbours ==
    ASSUME ChTypes, NEW i \in Chained
    PROVE  /\ ~ChBegins(i) => \E p \in Chained : ChAdjoins(p, i)
           /\ (\E j \in Chained : i < j) => \E n \in Chained : ChAdjoins(i, n)
<1>1. Chained \subseteq 1 .. Len(chRows) /\ Len(chRows) \in Nat
  BY RowFields DEF Chained
<1>2. ASSUME ~ChBegins(i) PROVE \E p \in Chained : ChAdjoins(p, i)
  <2> DEFINE S == {k \in Chained : k < i}
  <2>1. S \in SUBSET (1 .. Len(chRows))
    BY <1>1
  <2>2. S # {}
    <3>1. PICK k \in Chained : ~(k >= i)
      BY <1>2 DEF ChBegins
    <3>2. k \in S
      BY <1>1, <3>1
    <3> QED  BY <3>2
  <2>3. PICK p \in S : \A x \in S : x <= p
    <3> HIDE DEF S
    <3> QED  BY <1>1, <2>1, <2>2, Extremes
  <2> QED  BY <1>1, <2>3 DEF ChAdjoins
<1>3. ASSUME NEW j \in Chained, i < j PROVE \E n \in Chained : ChAdjoins(i, n)
  <2> DEFINE S == {k \in Chained : i < k}
  <2>1. S \in SUBSET (1 .. Len(chRows)) /\ S # {}
    BY <1>1, <1>3
  <2>2. PICK n \in S : \A x \in S : n <= x
    <3> HIDE DEF S
    <3> QED  BY <1>1, <2>1, Extremes
  <2> QED  BY <1>1, <2>2 DEF ChAdjoins
<1> QED  BY <1>2, <1>3

(* The latest hash is the last chained row's. *)
LEMMA LatestIsLast ==
    ASSUME ChTypes, ChOrdered
    PROVE  \/ Chained = {} /\ LatestHash = Null
           \/ \E m \in Chained : LatestHash = chRows[m].hash /\ \A k \in Chained : k <= m
<1>1. CASE RowIds = {}
  BY <1>1 DEF LatestHash, Chained
<1>2. CASE RowIds # {}
  <2>1. RowIds \in SUBSET (1 .. Len(chRows)) /\ Len(chRows) \in Nat
    BY <1>2, RowFields
  <2>2. PICK m \in RowIds : \A k \in RowIds : k <= m
    BY <1>2, <2>1, Extremes
  <2> DEFINE l == CHOOSE i \in RowIds : \A j \in RowIds \ {i} : Earlier(j, i)
  <2>3. \A j \in RowIds \ {m} : Earlier(j, m)
    BY <2>1, <2>2, EarlierIsBefore
  <2>4. l \in RowIds /\ \A j \in RowIds \ {l} : Earlier(j, l)
    BY <2>3
  <2> HIDE DEF l
  <2>5. l = m
    BY <2>1, <2>2, <2>4, EarlierIsBefore
  <2>6. LatestHash = chRows[m].hash
    BY <1>2, <2>5 DEF LatestHash, l
  <2>7. CASE m \in Chained
    BY <2>2, <2>6, <2>7 DEF Chained
  <2>8. CASE m \notin Chained
    <3>1. chRows[m].hash = Null
      BY <2>8 DEF Chained
    <3>2. m = 1
      BY <2>1, <3>1 DEF ChTypes
    <3>3. RowIds = {m}
      <4>1. \A k \in RowIds : k <= 1 /\ k \in 1 .. Len(chRows)
        BY <2>1, <2>2, <3>2
      <4>2. \A k \in RowIds : k = m
        BY <2>1, <3>2, <4>1
      <4> QED  BY <4>2
    <3> QED  BY <2>6, <2>8, <3>1, <3>3 DEF Chained
  <2> QED  BY <2>7, <2>8
<1> QED  BY <1>1, <1>2

(* What an insertion adds, and leaves alone. *)
LEMMA InsertAdds ==
    ASSUME ChTypes, NEW text \in {"a", "b"}, NEW passes \in {0, 1}, InsertRunAudit(text, passes)
    PROVE  LET n == Len(chRows) + 1 IN
           /\ Len(chRows') = n /\ n \in Nat /\ \A i \in RowIds : i \in Nat /\ i < n
           /\ RowIds' = RowIds \cup {n} /\ Chained' = Chained \cup {n} /\ n \notin RowIds
           /\ \A i \in RowIds : chRows'[i] = chRows[i]
           /\ chRows'[n].at = chClock /\ chRows'[n].text = text
           /\ chRows'[n].prev = LatestHash
           /\ chRows'[n].hash = AuditChainHash(chClock, text, LatestHash)
           /\ chRows'[n].hash # Null
           /\ ChTypes'
<1> DEFINE n == Len(chRows) + 1
           row == [at |-> chClock, text |-> text, prev |-> LatestHash,
                   hash |-> AuditChainHash(chClock, text, LatestHash)]
           R == {chRows[i] : i \in 1 .. Len(chRows)}
<1>1. chRows' = Append(chRows, row) /\ chClock' = chClock + passes /\ UNCHANGED chTampered
  BY DEF InsertRunAudit
<1>2. chRows \in Seq(R \cup {row}) /\ row \in R \cup {row} /\ Len(chRows) \in Nat
  <2>1. chRows \in Seq(R) /\ Len(chRows) \in Nat
    BY DEF ChTypes
  <2> HIDE DEF R, row
  <2> QED  BY <2>1
<1>3. /\ Len(chRows') = n /\ chRows' \in Seq(R \cup {row}) /\ chRows'[n] = row
      /\ \A i \in 1 .. Len(chRows) : chRows'[i] = chRows[i]
  <2> HIDE DEF R, row
  <2> QED  BY <1>1, <1>2, AppendProperties
<1>4. /\ row.at = chClock /\ row.text = text /\ row.prev = LatestHash
      /\ row.hash = AuditChainHash(chClock, text, LatestHash)
      /\ row = [at |-> row.at, text |-> row.text, prev |-> row.prev, hash |-> row.hash]
  OBVIOUS
<1>5. row.hash # Null
  BY <1>4 DEF AuditChainHash, Null
<1>6. row # Gone
  <2>1. Gone.at = 0 /\ chClock \in Nat \ {0}
    BY DEF Gone, ChTypes
  <2> HIDE DEF row
  <2> QED  BY <1>4, <2>1
<1> HIDE DEF row, R
<1>7. /\ 1 .. Len(chRows') = 1 .. Len(chRows) \cup {n} /\ n \notin 1 .. Len(chRows)
  BY <1>2, <1>3
<1>8. RowIds' = RowIds \cup {n} /\ n \notin RowIds /\ \A i \in RowIds : i \in Nat /\ i < n
  BY <1>2, <1>3, <1>6, <1>7 DEF RowIds
<1>9. Chained' = Chained \cup {n}
  <2>1. \A i \in RowIds : chRows'[i] = chRows[i]
    BY <1>3 DEF RowIds
  <2> QED  BY <1>3, <1>5, <1>8, <2>1 DEF Chained
<1>10. ChTypes'
  <2>1. chRows' \in Seq({chRows'[i] : i \in 1 .. Len(chRows')})
    <3> DEFINE S == {chRows'[i] : i \in 1 .. Len(chRows')}
    <3>1. \A i \in 1 .. Len(chRows') : chRows'[i] \in S
      OBVIOUS
    <3>2. chRows' = [i \in 1 .. Len(chRows') |-> chRows'[i]] /\ Len(chRows') \in Nat
      BY <1>3
    <3> HIDE DEF S
    <3>3. chRows' \in [1 .. Len(chRows') -> S]
      BY <3>1, <3>2
    <3> QED  BY <3>2, <3>3, SeqDef
  <2>2. \A i \in 1 .. Len(chRows') : ChRow(i)'
    <3> TAKE i \in 1 .. Len(chRows')
    <3>1. CASE i = n
      BY <1>3, <1>4, <3>1 DEF ChRow, ChTypes
    <3>2. CASE i # n
      BY <1>3, <1>7, <3>2 DEF ChRow, ChTypes
    <3> QED  BY <3>1, <3>2
  <2>3. \A i \in RowIds' : i > 1 => chRows'[i].hash # Null
    BY <1>3, <1>5, <1>8 DEF ChTypes, RowIds
  <2>4. chClock' \in Nat \ {0} /\ chTampered' \in {"no", "rewritten", "removed", "truncated"}
    BY <1>1 DEF ChTypes
  <2> QED  BY <2>1, <2>2, <2>3, <2>4, Zenon DEF ChTypes
<1> QED  BY <1>2, <1>3, <1>4, <1>5, <1>8, <1>9, <1>10 DEF RowIds

(* An insertion keeps the order of the times, and the links. *)
LEMMA InsertStep ==
    ASSUME ChTypes, ChOrdered, NEW text \in {"a", "b"}, NEW passes \in {0, 1},
           InsertRunAudit(text, passes)
    PROVE  ChOrdered' /\ (ChLinked => ChLinked') /\ (ChBroken => ChBroken')
<1>0. PICK n : n = Len(chRows) + 1
  OBVIOUS
<1>1. /\ n \in Nat /\ \A i \in RowIds : i \in Nat /\ i < n
      /\ RowIds' = RowIds \cup {n} /\ Chained' = Chained \cup {n} /\ n \notin RowIds
      /\ \A i \in RowIds : chRows'[i] = chRows[i]
      /\ chRows'[n].at = chClock /\ chRows'[n].text = text
      /\ chRows'[n].prev = LatestHash
      /\ chRows'[n].hash = AuditChainHash(chClock, text, LatestHash)
      /\ chRows'[n].hash # Null
  BY <1>0, InsertAdds
<1>2. Chained \subseteq RowIds
  BY DEF Chained
<1>3. ChOrdered'
  <2>1. chClock' = chClock + passes /\ chClock \in Nat
    BY DEF InsertRunAudit, ChTypes
  <2>2. \A i \in RowIds : chRows[i].at \in Nat /\ chRows[i].at <= chClock
    BY RowFields DEF ChOrdered
  <2>3. \A i \in RowIds' : chRows'[i].at <= chClock'
    BY <1>1, <2>1, <2>2
  <2>4. \A i, j \in RowIds' : i < j => chRows'[i].at <= chRows'[j].at
    BY <1>1, <2>1, <2>2 DEF ChOrdered
  <2> QED  BY <2>3, <2>4 DEF ChOrdered
<1>4. \A i \in Chained : (ChRecomputes(i)' <=> ChRecomputes(i)) /\ (ChBegins(i)' <=> ChBegins(i))
  BY <1>1, <1>2 DEF ChRecomputes, ChBegins
<1>5. \A i, j \in Chained : ChAdjoins(i, j)' <=> ChAdjoins(i, j)
  BY <1>1, <1>2 DEF ChAdjoins
<1>6. ChBroken => ChBroken'
  BY <1>1, <1>2, <1>4, <1>5 DEF ChBroken
<1>7. ASSUME ChLinked PROVE ChLinked'
  <2> USE <1>7 DEF ChLinked
  <2>1. ChRecomputes(n)' /\ chRows'[n].text \in {"a", "b"}
    BY <1>1 DEF ChRecomputes
  <2>2. ChBegins(n)' => chRows'[n].prev = Null
    <3>1. ASSUME ChBegins(n)' PROVE Chained = {}
      <4>1. \A k \in Chained : k >= n
        BY <1>1, <3>1 DEF ChBegins
      <4> QED  BY <1>1, <1>2, <4>1
    <3> QED  BY <1>1, <3>1, LatestIsLast
  <2>3. ASSUME NEW i \in Chained, ChAdjoins(i, n)' PROVE chRows'[n].prev = chRows'[i].hash
    <3>1. \A k \in Chained : k <= i
      BY <1>1, <1>2, <2>3 DEF ChAdjoins
    <3>2. PICK m \in Chained : LatestHash = chRows[m].hash /\ \A k \in Chained : k <= m
      BY LatestIsLast
    <3>3. i = m
      BY <1>1, <1>2, <3>1, <3>2
    <3> QED  BY <1>1, <1>2, <3>2, <3>3
  <2>4. ~ChAdjoins(n, n)' /\ \A i \in Chained : ~ChAdjoins(n, i)'
    BY <1>1, <1>2 DEF ChAdjoins
  <2>5. ASSUME NEW i \in Chained PROVE chRows'[i].hash # chRows'[n].hash
    <3>1. PICK m \in Chained : LatestHash = chRows[m].hash /\ \A k \in Chained : k <= m
      BY LatestIsLast
    <3>2. chRows[i].hash = <<chRows[i].at, chRows[i].text, chRows[i].prev>>
      BY DEF ChRecomputes, AuditChainHash
    <3>3. chRows'[n].hash = <<chClock, text, LatestHash>>
      BY <1>1 DEF AuditChainHash
    <3>4. chRows[i].prev # LatestHash
      <4>1. CASE ChBegins(i)
        <5>1. chRows[i].prev = Null /\ chRows[m].hash # Null
          BY <4>1 DEF Chained
        <5> QED  BY <3>1, <5>1
      <4>2. CASE ~ChBegins(i)
        <5>1. PICK p \in Chained : ChAdjoins(p, i)
          BY <4>2, Neighbours
        <5>2. chRows[i].prev = chRows[p].hash /\ p < m
          BY <1>1, <1>2, <3>1, <5>1 DEF ChAdjoins
        <5> QED  BY <3>1, <5>2
      <4> QED  BY <4>1, <4>2
    <3>5. chRows'[n].hash # chRows[i].hash
      BY <3>2, <3>3, <3>4
    <3> QED  BY <1>1, <1>2, <3>5
  <2>6. \A i \in Chained : ChRecomputes(i)' /\ chRows'[i].text \in {"a", "b"}
    BY <1>1, <1>2, <1>4
  <2>7. \A i \in Chained : ChBegins(i)' => chRows'[i].prev = Null
    BY <1>1, <1>2, <1>4
  <2>8. \A i, j \in Chained : ChAdjoins(i, j)' => chRows'[j].prev = chRows'[i].hash
    BY <1>1, <1>2, <1>5
  <2>9. \A i, j \in Chained : i < j => chRows'[i].hash # chRows'[j].hash
    <3>1. \A i \in Chained : chRows'[i] = chRows[i]
      BY <1>1, <1>2
    <3>2. \A i, j \in Chained : i < j => chRows[i].hash # chRows[j].hash
      OBVIOUS
    <3> QED  BY <3>1, <3>2
  <2>0. Chained' = Chained \cup {n} /\ \A i \in Chained : ~(n < i) /\ ~(n < n)
    BY <1>1, <1>2
  <2>10. \A i \in Chained' : ChRecomputes(i)' /\ chRows'[i].text \in {"a", "b"}
    BY <2>0, <2>1, <2>6
  <2>11. \A i \in Chained' : ChBegins(i)' => chRows'[i].prev = Null
    BY <2>0, <2>2, <2>7
  <2>12. \A i, j \in Chained' : ChAdjoins(i, j)' => chRows'[j].prev = chRows'[i].hash
    BY <2>0, <2>3, <2>4, <2>8
  <2>13. \A i, j \in Chained' : i < j => chRows'[i].hash # chRows'[j].hash
    BY <1>1, <1>2, <2>5, <2>9
  <2> QED  BY <2>10, <2>11, <2>12, <2>13
<1> QED  BY <1>3, <1>6, <1>7

(* Which rows there are, and which are chained, once one of them is another. *)
LEMMA RowChanges ==
    ASSUME ChTypes, NEW i \in RowIds, NEW new, chRows' = [chRows EXCEPT ![i] = new],
           UNCHANGED chClock, chTampered' \in {"no", "rewritten", "removed", "truncated"},
           \/ new = Gone
           \/ /\ new = [at |-> new.at, text |-> new.text, prev |-> new.prev, hash |-> new.hash]
              /\ new.at = chRows[i].at /\ new.hash = chRows[i].hash
    PROVE  /\ ChTypes' /\ chRows'[i] = new
           /\ \A j \in RowIds \ {i} : chRows'[j] = chRows[j]
           /\ RowIds' = IF new = Gone THEN RowIds \ {i} ELSE RowIds
           /\ Chained' = IF new = Gone THEN Chained \ {i} ELSE Chained
<1> DEFINE R == {chRows[j] : j \in 1 .. Len(chRows)}
<1>1. i \in 1 .. Len(chRows) /\ Len(chRows) \in Nat /\ chRows[i] # Gone
      /\ chRows[i].at \in Nat /\ chRows[i].at > 0
  BY RowFields
<1>2. chRows \in [1 .. Len(chRows) -> R] /\ DOMAIN chRows = 1 .. Len(chRows)
  <2>1. chRows \in Seq(R)
    BY DEF ChTypes
  <2> HIDE DEF R
  <2> QED  BY <2>1
<1> HIDE DEF R
<1>3. /\ DOMAIN chRows' = 1 .. Len(chRows) /\ chRows'[i] = new
      /\ chRows' = [j \in 1 .. Len(chRows) |-> chRows'[j]]
      /\ \A j \in 1 .. Len(chRows) \ {i} : chRows'[j] = chRows[j]
  BY <1>1, <1>2
<1>4. chRows' \in Seq({chRows'[j] : j \in 1 .. Len(chRows')}) /\ Len(chRows') = Len(chRows)
  <2> DEFINE S == {chRows'[j] : j \in 1 .. Len(chRows)}
  <2>1. \A j \in 1 .. Len(chRows) : chRows'[j] \in S
    OBVIOUS
  <2> HIDE DEF S
  <2>2. chRows' \in [1 .. Len(chRows) -> S]
    BY <1>3, <2>1
  <2>3. chRows' \in Seq(S)
    <3>1. PICK n \in Nat : n = Len(chRows)
      BY <1>1
    <3>2. chRows' \in [1 .. n -> S]
      BY <2>2, <3>1
    <3>3. chRows' \in UNION {[1 .. m -> S] : m \in Nat}
      BY <3>1, <3>2
    <3>4. Seq(S) = UNION {[1 .. m -> S] : m \in Nat}
      BY SeqDef
    <3> QED  BY <3>3, <3>4
  <2>4. Len(chRows') = Len(chRows)
    BY <1>1, <1>3, <2>3
  <2> QED  BY <2>3, <2>4 DEF S
<1>5. new # Gone => new.at > 0 /\ new.at \in Nat
  BY <1>1
<1>6. RowIds' = IF new = Gone THEN RowIds \ {i} ELSE RowIds
  BY <1>1, <1>3, <1>4 DEF RowIds
<1>7. Chained' = IF new = Gone THEN Chained \ {i} ELSE Chained
  BY <1>1, <1>3, <1>6 DEF Chained, RowIds
<1>8. \A j \in 1 .. Len(chRows') : ChRow(j)'
  <2> TAKE j \in 1 .. Len(chRows')
  <2>1. CASE j = i
    BY <1>3, <1>5, <2>1 DEF ChRow
  <2>2. CASE j # i
    BY <1>3, <1>4, <2>2 DEF ChRow, ChTypes
  <2> QED  BY <2>1, <2>2
<1>9. \A j \in RowIds' : j > 1 => chRows'[j].hash # Null
  BY <1>1, <1>3, <1>6 DEF ChTypes, RowIds
<1>10. ChTypes'
  <2>1. chClock' \in Nat \ {0}
    BY DEF ChTypes
  <2> QED  BY <1>4, <1>8, <1>9, <2>1, Zenon DEF ChTypes
<1> QED  BY <1>3, <1>6, <1>7, <1>10 DEF RowIds

(* Another text is noticed. *)
LEMMA RewriteStep ==
    ASSUME ChTypes, NEW i \in RowIds, RewriteRow(i)
    PROVE  ChTypes' /\ (ChOrdered /\ ChLinked => ChOrdered' /\ ChBroken')
<1> DEFINE new == [chRows[i] EXCEPT !.text = "forged"]
<1>1. /\ chRows' = [chRows EXCEPT ![i] = new] /\ chRows[i].hash # Null
      /\ UNCHANGED chClock /\ chTampered' = "rewritten"
  BY DEF RewriteRow
<1>2. chRows[i] = [at |-> chRows[i].at, text |-> chRows[i].text,
                   prev |-> chRows[i].prev, hash |-> chRows[i].hash]
      /\ chRows[i].at \in Nat /\ chRows[i].at > 0
  BY RowFields
<1>3. /\ new = [at |-> new.at, text |-> new.text, prev |-> new.prev, hash |-> new.hash]
      /\ new.at = chRows[i].at /\ new.hash = chRows[i].hash
      /\ new.text = "forged" /\ new.prev = chRows[i].prev
  BY <1>2
<1>4. new # Gone
  <2>1. Gone.at = 0
    BY DEF Gone
  <2> HIDE DEF new
  <2> QED  BY <1>2, <1>3, <2>1
<1> HIDE DEF new
<1>5. /\ ChTypes' /\ chRows'[i] = new /\ RowIds' = RowIds /\ Chained' = Chained
      /\ \A j \in RowIds \ {i} : chRows'[j] = chRows[j]
  BY <1>1, <1>3, <1>4, RowChanges
<1>6. ASSUME ChOrdered PROVE ChOrdered'
  <2>1. \A j \in RowIds : chRows'[j].at = chRows[j].at
    BY <1>3, <1>5
  <2> QED  BY <1>1, <1>5, <1>6, <2>1 DEF ChOrdered
<1>7. ASSUME ChLinked PROVE ChBroken'
  <2>1. i \in Chained /\ i \in Chained'
    BY <1>1, <1>5 DEF Chained
  <2>2. /\ chRows[i].hash = <<chRows[i].at, chRows[i].text, chRows[i].prev>>
        /\ chRows[i].text \in {"a", "b"}
    BY <1>7, <2>1 DEF ChLinked, ChRecomputes, AuditChainHash
  <2>3. ~ChRecomputes(i)'
    BY <1>3, <1>5, <2>2 DEF ChRecomputes, AuditChainHash
  <2> QED  BY <2>1, <2>3 DEF ChBroken
<1> QED  BY <1>5, <1>6, <1>7

(* So is a row less, but for the last. *)
LEMMA RemoveStep ==
    ASSUME ChTypes, NEW i \in RowIds, RemoveRow(i)
    PROVE  /\ ChTypes'
           /\ ChOrdered /\ ChLinked =>
                ChOrdered' /\ IF chTampered' = "truncated" THEN ChLinked' ELSE ChBroken'
<1>1. /\ chRows' = [chRows EXCEPT ![i] = Gone] /\ UNCHANGED chClock /\ chRows[i].hash # Null
      /\ chTampered' = IF \E j \in RowIds : Earlier(i, j) THEN "removed" ELSE "truncated"
  BY DEF RemoveRow
<1>2. /\ ChTypes' /\ RowIds' = RowIds \ {i} /\ Chained' = Chained \ {i}
      /\ \A j \in RowIds \ {i} : chRows'[j] = chRows[j]
  BY <1>1, RowChanges
<1>3. Chained \subseteq RowIds /\ i \in Chained /\ \A j \in RowIds : j \in Nat /\ j > 0
  <2>1. \A j \in RowIds : j \in Nat /\ j > 0
    BY DEF RowIds
  <2> QED  BY <1>1, <2>1 DEF Chained
<1>4. ASSUME ChOrdered PROVE ChOrdered'
  BY <1>1, <1>2, <1>4 DEF ChOrdered
<1>5. \A j \in Chained \ {i} : ChRecomputes(j)' <=> ChRecomputes(j)
  BY <1>2, <1>3 DEF ChRecomputes
<1>6. ASSUME ChOrdered, ChLinked, \E j \in RowIds : Earlier(i, j) PROVE ChBroken'
  <2>1. PICK j \in RowIds : i < j
    BY <1>6, EarlierIsBefore
  <2>2. j \in Chained
    BY <1>3, <2>1 DEF Chained, ChTypes
  <2>3. PICK n \in Chained : ChAdjoins(i, n)
    BY <1>3, <2>1, <2>2, Neighbours
  <2>4. n \in Chained' /\ chRows'[n].prev = chRows[i].hash
    BY <1>2, <1>3, <1>6, <2>3 DEF ChLinked, ChAdjoins
  <2>5. CASE ChBegins(i)
    <3>1. ChBegins(n)'
      BY <1>2, <1>3, <2>3, <2>5 DEF ChBegins, ChAdjoins
    <3> QED  BY <1>1, <2>4, <3>1 DEF ChBroken
  <2>6. CASE ~ChBegins(i)
    <3>1. PICK p \in Chained : ChAdjoins(p, i)
      BY <1>3, <2>6, Neighbours
    <3>2. ChAdjoins(p, n)' /\ p \in Chained'
      BY <1>2, <1>3, <2>3, <3>1 DEF ChAdjoins
    <3>3. chRows'[p].hash # chRows[i].hash
      BY <1>2, <1>3, <1>6, <3>1 DEF ChLinked, ChAdjoins
    <3> QED  BY <2>4, <3>2, <3>3 DEF ChBroken
  <2> QED  BY <2>5, <2>6
<1>7. ASSUME ChOrdered, ChLinked, ~\E j \in RowIds : Earlier(i, j) PROVE ChLinked'
  <2>1. \A k \in Chained : k <= i
    BY <1>3, <1>7, EarlierIsBefore
  <2>2. \A k \in Chained' : ChBegins(k)' => ChBegins(k)
    BY <1>2, <1>3, <2>1 DEF ChBegins
  <2>3. \A k, l \in Chained' : ChAdjoins(k, l)' => ChAdjoins(k, l)
    BY <1>2, <1>3, <2>1 DEF ChAdjoins
  <2>4. \A k \in Chained' : k \in Chained /\ chRows'[k] = chRows[k] /\ (ChRecomputes(k)' <=> ChRecomputes(k))
    BY <1>2, <1>3, <1>5
  <2>5. \A k \in Chained' : ChRecomputes(k)' /\ chRows'[k].text \in {"a", "b"}
    BY <1>7, <2>4 DEF ChLinked
  <2>6. \A k \in Chained' : ChBegins(k)' => chRows'[k].prev = Null
    BY <1>7, <2>2, <2>4 DEF ChLinked
  <2>7. \A k, l \in Chained' : ChAdjoins(k, l)' => chRows'[l].prev = chRows'[k].hash
    BY <1>7, <2>3, <2>4 DEF ChLinked
  <2>8. \A k, l \in Chained' : k < l => chRows'[k].hash # chRows'[l].hash
    BY <1>7, <2>4 DEF ChLinked
  <2> QED  BY <2>5, <2>6, <2>7, <2>8 DEF ChLinked
<1> QED  BY <1>1, <1>2, <1>4, <1>6, <1>7

(* Every step keeps the invariant. *)
LEMMA ChIInvStep == ASSUME ChIInv, [ChNext]_chVars PROVE ChIInv'
<1> USE DEF ChIInv
<1>1. ASSUME NEW text \in {"a", "b"}, NEW passes \in {0, 1}, InsertRunAudit(text, passes)
      PROVE  ChIInv'
  <2>1. UNCHANGED <<chStepped, chTampered>>
    BY <1>1 DEF InsertRunAudit
  <2>2. ChTypes'
    BY <1>1, InsertAdds
  <2>3. ChOrdered => ChOrdered' /\ (ChLinked => ChLinked') /\ (ChBroken => ChBroken')
    BY <1>1, InsertStep
  <2> QED  BY <2>1, <2>2, <2>3
<1>2. CASE ClockStepsBack
  <2>1. chStepped' = TRUE /\ chClock' = chClock - 1 /\ chClock > 1 /\ UNCHANGED <<chRows, chTampered>>
    BY <1>2 DEF ClockStepsBack
  <2>2. RowIds' = RowIds /\ \A i : ChRow(i)' <=> ChRow(i)
    BY <2>1 DEF RowIds, ChRow
  <2>3. ChTypes'
    BY <2>1, <2>2 DEF ChTypes
  <2> QED  BY <2>1, <2>3
<1>3. ASSUME NEW i \in RowIds, RewriteRow(i) PROVE ChIInv'
  <2>1. UNCHANGED chStepped /\ chTampered = "no" /\ chTampered' = "rewritten"
    BY <1>3 DEF RewriteRow
  <2>2. ChTypes' /\ (ChOrdered /\ ChLinked => ChOrdered' /\ ChBroken')
    BY <1>3, RewriteStep
  <2> QED  BY <2>1, <2>2
<1>4. ASSUME NEW i \in RowIds, RemoveRow(i) PROVE ChIInv'
  <2>1. UNCHANGED chStepped /\ chTampered = "no" /\ chTampered' \in {"removed", "truncated"}
    BY <1>4 DEF RemoveRow
  <2>2. /\ ChTypes'
        /\ ChOrdered /\ ChLinked =>
             ChOrdered' /\ IF chTampered' = "truncated" THEN ChLinked' ELSE ChBroken'
    BY <1>4, RemoveStep
  <2> QED  BY <2>1, <2>2
<1>5. CASE UNCHANGED chVars
  <2>1. UNCHANGED <<chClock, chRows, chStepped, chTampered>>
    BY <1>5 DEF chVars
  <2>2. RowIds' = RowIds /\ \A i : ChRow(i)' <=> ChRow(i)
    BY <2>1 DEF RowIds, ChRow
  <2>3. Chained' = Chained
    BY <2>1, <2>2 DEF Chained
  <2>4. ChTypes' /\ (ChOrdered' <=> ChOrdered)
    BY <2>1, <2>2 DEF ChTypes, ChOrdered
  <2>5. (ChLinked' <=> ChLinked) /\ (ChBroken' <=> ChBroken)
    BY <2>1, <2>3 DEF ChLinked, ChBroken, ChRecomputes, ChBegins, ChAdjoins
  <2> QED  BY <2>1, <2>4, <2>5
<1> QED  BY <1>1, <1>2, <1>3, <1>4, <1>5 DEF ChNext

(* The trail starts empty, or with a row from before the chain. *)
LEMMA ChIInvInit == ChInit => ChIInv
<1> SUFFICES ASSUME ChInit PROVE ChIInv
  OBVIOUS
<1> DEFINE legacy == [at |-> 1, text |-> "legacy", prev |-> Null, hash |-> Null]
<1>1. /\ chClock = 1 /\ ~chStepped /\ chTampered = "no"
      /\ \/ chRows = <<>> /\ Len(chRows) = 0
         \/ chRows = <<legacy>> /\ Len(chRows) = 1 /\ chRows[1] = legacy
  BY DEF ChInit
<1>2. \A i \in 1 .. Len(chRows) : i = 1 /\ chRows[i] = legacy
  <2>1. CASE Len(chRows) = 0
    BY <2>1
  <2>2. CASE Len(chRows) = 1 /\ chRows[1] = legacy
    <3> HIDE DEF legacy
    <3> QED  BY <2>2
  <2> QED  BY <1>1, <2>1, <2>2
<1>3. chRows \in Seq({chRows[i] : i \in 1 .. Len(chRows)})
  <2> DEFINE S == {chRows[i] : i \in 1 .. Len(chRows)}
  <2>1. CASE chRows = <<>>
    BY <2>1
  <2>2. CASE chRows = <<legacy>>
    <3>1. legacy \in S
      BY <1>1, <2>2
    <3> HIDE DEF S, legacy
    <3>2. <<legacy>> \in Seq(S)
      BY <3>1
    <3> QED  BY <2>2, <3>2 DEF S
  <2> QED  BY <1>1, <2>1, <2>2
<1>4. Chained = {}
  BY <1>2 DEF Chained, RowIds
<1>5. ChTypes
  <2>1. \A i \in 1 .. Len(chRows) : ChRow(i)
    BY <1>2 DEF ChRow
  <2>2. \A i \in RowIds : i > 1 => chRows[i].hash # Null
    BY <1>2 DEF RowIds
  <2>3. chClock \in Nat \ {0} /\ chTampered \in {"no", "rewritten", "removed", "truncated"}
    BY <1>1
  <2> QED  BY <1>3, <2>1, <2>2, <2>3, Zenon DEF ChTypes
<1>6. ChOrdered
  BY <1>1, <1>2 DEF ChOrdered, RowIds
<1> QED  BY <1>1, <1>4, <1>5, <1>6 DEF ChIInv, ChLinked

(* The verdict is right where a whole chain is told from a broken one. *)
LEMMA ChVerdict == ChIInv => ChainVerdictRight
<1> SUFFICES ASSUME ChIInv, ~chStepped
             PROVE  VerifyRunAuditChain <=> chTampered \in {"no", "truncated"}
  BY DEF ChainVerdictRight
<1>1. VerifyRunAuditChain <=> ~ChBroken
  BY VerdictReads DEF ChIInv
<1>2. ChLinked => ~ChBroken
  BY DEF ChLinked, ChBroken
<1> QED  BY <1>1, <1>2 DEF ChIInv

(* The verdict on a trail is right while the clock is not set back. *)
THEOREM ChainVerdictAlways == ChSpec => []ChainVerdictRight
BY ChVerdict, ChIInvInit, ChIInvStep, PTL DEF ChSpec

-----------------------------------------------------------------------------
(* SSH sessions and network proxies.                                         *)
SshStates == [state : {"none", "open", "dead", "closed"}, key : HostKeys \cup {"none"},
              anchored : BOOLEAN]
SshUses ==
    [pc : {"idle", "connect", "probe", "record", "auth", "run", "return"},
     op : {"none", "command", "upload"}, session : SshSessions \cup {NoSession},
     key : HostKeys \cup {"none"}, anchored : BOOLEAN]
SshTypes ==
    /\ sshPool = {} \/ \E s \in SshSessions : sshPool = {s}
    /\ sshSession \in [SshSessions -> SshStates]
    /\ sshTask \in [SshTasks -> SshUses]
    /\ sshKnown \in Seq(HostKeys)

(* A task has a session exactly where it uses one. *)
SshHeldInv ==
    \A t \in SshTasks : sshTask[t].session = NoSession <=>
                          sshTask[t].pc \in {"idle", "connect", "record", "auth"}

(* A key that was accepted is a line of known_hosts, and the first one if there
   was a line when the check began. *)
SshAnchored(known, key, anchored) ==
    /\ \E i \in 1 .. Len(known) : known[i] = key
    /\ anchored \/ HostKeyPolicy = "Verify" => key = known[1]
SshTaskTrust ==
    \A t \in SshTasks :
        /\ sshTask[t].pc = "record" =>
             HostKeyPolicy = "TrustOnFirstUse" /\ ~sshTask[t].anchored /\ sshTask[t].key \in HostKeys
        /\ sshTask[t].pc = "auth" /\ HostKeyPolicy # "AcceptAny" =>
             SshAnchored(sshKnown, sshTask[t].key, sshTask[t].anchored)

SshIInv == SshTypes /\ SshHeldInv /\ SshSessionsOwned /\ SshTaskTrust /\ SshTrustAnchored

ProxyTypes ==
    /\ pxProc \in [ProxyPids -> {"none", "starting", "bound", "killed", "dead", "other"}]
    /\ pxPidfile = {} \/ \E p \in ProxyPids : pxPidfile = {p}
    /\ pxCall \in [ProxyCalls -> [pc : {"idle", "pidfile", "ready", "identify", "kill", "unlink"},
                                  pid : ProxyPids \cup {0}]]
    /\ \A c \in ProxyCalls : pxCall[c].pc # "idle" => pxCall[c].pid \in ProxyPids
    /\ pxMixed \in BOOLEAN /\ pxMet \in BOOLEAN

(* A daemon of which nobody has lost the track. *)
ProxyTracked(p) == ProxyRunning(p) /\ p \notin pxLost

(* A start that is about to write the pidfile is alone; the one daemon that
   anybody keeps track of is the one that every call in flight is about. *)
ProxyCallInv ==
    \A c \in ProxyCalls :
        /\ pxCall[c].pc = "pidfile" =>
             \A d \in ProxyCalls : d # c => pxCall[d].pc = "idle"
        /\ pxCall[c].pc # "idle" => \A p \in ProxyPids : ProxyTracked(p) => p = pxCall[c].pid
        /\ pxCall[c].pc \in {"ready", "identify", "kill", "unlink"} =>
             pxPidfile \subseteq {pxCall[c].pid}
        /\ pxCall[c].pc = "unlink" => \A p \in ProxyPids : ~ProxyTracked(p)

(* A daemon that runs is named by the pidfile, or about to be. *)
ProxyNamedInv ==
    \A p \in ProxyPids : ProxyTracked(p) =>
        \/ p \in pxPidfile
        \/ \E c \in ProxyCalls : pxCall[c].pc = "pidfile" /\ pxCall[c].pid = p

(* Until a start meets another daemon, only its own can answer it. *)
ProxyAnswerInv ==
    /\ \A c \in ProxyCalls : pxCall[c].pc \in {"pidfile", "ready"} =>
         \A p \in ProxyPids : LiveProxy(p) => p = pxCall[c].pid
    /\ pxWrong = {}

ProxyClear == ProxyCallInv /\ ProxyNamedInv /\ (~pxMet => ProxyAnswerInv)

ProxyIInv == ProxyTypes /\ (~pxMixed => ProxyClear)

SshStep(t) ==
    \/ \E op \in {"command", "upload"} : PoolExecute(t, op)
    \/ \E alive \in BOOLEAN : Probe(t, alive)
    \/ \E key \in HostKeys : CheckServerKey(t, key)
    \/ RecordHostKey(t) \/ ConnectFails(t) \/ ReturnSession(t)
    \/ \E s \in SshSessions : Authenticate(t, s)
    \/ \E said \in {"zero", "other", "signal", "nothing", "error"} : CommandEnds(t, said)

(* Sessions are numbered from one. *)
LEMMA SessionsCounted == SshSessions \subseteq Nat \ {0} /\ NoSession \notin SshSessions
BY SshAssumption DEF SshSessions, NoSession

(* What a set of dropped sessions leaves of the states. *)
LEMMA DroppedStates ==
    ASSUME SshTypes, NEW S
    PROVE  /\ Dropped(S) \in [SshSessions -> SshStates]
           /\ \A s \in SshSessions :
                /\ Dropped(S)[s].state = IF s \in S THEN "closed" ELSE sshSession[s].state
                /\ Dropped(S)[s].key = sshSession[s].key
                /\ Dropped(S)[s].anchored = sshSession[s].anchored
<1> USE DEF SshTypes
<1>1. ASSUME NEW s \in SshSessions
      PROVE  /\ Dropped(S)[s] \in SshStates
             /\ Dropped(S)[s].state = IF s \in S THEN "closed" ELSE sshSession[s].state
             /\ Dropped(S)[s].key = sshSession[s].key
             /\ Dropped(S)[s].anchored = sshSession[s].anchored
  <2>1. CASE s \in S
    BY <2>1 DEF Dropped, SshStates
  <2>2. CASE s \notin S
    BY <2>2 DEF Dropped, SshStates
  <2> QED  BY <2>1, <2>2
<1>2. Dropped(S) = [s \in SshSessions |-> Dropped(S)[s]]
  BY DEF Dropped
<1> QED  BY <1>1, <1>2

(* One task moves: the others keep what they have. *)
LEMMA SshTaskMoves ==
    ASSUME SshTypes, NEW t \in SshTasks,
           NEW v \in SshUses,
           sshTask' = [sshTask EXCEPT ![t] = v]
    PROVE  /\ sshTask' \in [SshTasks ->
                SshUses]
           /\ sshTask'[t] = v /\ \A o \in SshTasks \ {t} : sshTask'[o] = sshTask[o]
BY DEF SshTypes

(* What a task that moves does with its session: it keeps it, takes the pool's,
   drops its own, gives it to the pool or opens one. *)
SshKeeps(t, v) == v.session = sshTask[t].session /\ UNCHANGED <<sshPool, sshSession>>
SshTakes(t, v) ==
    /\ sshTask[t].session = NoSession /\ sshPool = {v.session}
    /\ sshPool' = {} /\ UNCHANGED sshSession
SshDrops(t, v) ==
    /\ v.session = NoSession /\ sshTask[t].session # NoSession
    /\ sshSession' = Dropped({sshTask[t].session}) /\ UNCHANGED sshPool
SshGives(t, v) ==
    /\ v.session = NoSession /\ sshTask[t].session # NoSession
    /\ sshSession' = Dropped(sshPool) /\ sshPool' = {sshTask[t].session}
SshOpens(t, v) ==
    /\ sshTask[t].session = NoSession /\ v.session \in SshSessions
    /\ sshTask[t].pc = "auth" /\ sshSession[v.session].state = "none" /\ UNCHANGED sshPool
    /\ sshSession' = [sshSession EXCEPT ![v.session] =
         [state |-> "open", key |-> sshTask[t].key, anchored |-> sshTask[t].anchored]]
SshOwns(t, v) ==
    /\ v.session = NoSession <=> v.pc \in {"idle", "connect", "record", "auth"}
    /\ SshKeeps(t, v) \/ SshTakes(t, v) \/ SshDrops(t, v) \/ SshGives(t, v) \/ SshOpens(t, v)

(* And with the key it was shown. *)
SshAccepts(v) ==
    /\ v.pc = "auth" /\ UNCHANGED sshKnown
    /\ HostKeyPolicy # "AcceptAny" => sshKnown # <<>> /\ sshKnown[1] = v.key
SshNewKey(v) ==
    /\ v.pc = "record" /\ v.key \in HostKeys /\ ~v.anchored /\ UNCHANGED sshKnown
    /\ HostKeyPolicy = "TrustOnFirstUse"
SshRecords(t, v) ==
    /\ v.pc = "auth" /\ ~v.anchored /\ v.key \in HostKeys
    /\ HostKeyPolicy = "TrustOnFirstUse" /\ sshKnown' = Append(sshKnown, v.key)
SshTrusts(t, v) ==
    \/ v.pc \notin {"record", "auth"} /\ UNCHANGED sshKnown
    \/ SshAccepts(v) \/ SshNewKey(v) \/ SshRecords(t, v)

SshMove(t) ==
    \E v \in SshUses : sshTask' = [sshTask EXCEPT ![t] = v] /\ SshOwns(t, v) /\ SshTrusts(t, v)

(* Whatever a task does is one of these. *)
LEMMA EveryStepMoves ==
    ASSUME SshIInv, NEW t \in SshTasks, SshStep(t)
    PROVE  SshMove(t)
<1> DEFINE old == sshTask[t]
<1> USE SessionsCounted
<1>0. old \in SshUses
  BY DEF SshIInv, SshTypes
<1>a. old.session = NoSession <=> old.pc \in {"idle", "connect", "record", "auth"}
  BY DEF SshIInv, SshHeldInv
<1>1. SshIdle \in SshUses /\ SshIdle.pc = "idle" /\ SshIdle.session = NoSession
  BY DEF SshIdle, SshUses
<1>2. ASSUME NEW op \in {"command", "upload"}, PoolExecute(t, op) PROVE SshMove(t)
  <2> DEFINE taken == IF op = "upload" THEN {} ELSE sshPool
             session == IF taken = {} THEN NoSession ELSE CHOOSE s \in taken : TRUE
             pc == IF taken = {} THEN "connect" ELSE "probe"
             v == [SshIdle EXCEPT !.op = op, !.pc = pc, !.session = session]
  <2>1. /\ sshTask' = [sshTask EXCEPT ![t] = v] /\ sshPool' = sshPool \ taken
        /\ UNCHANGED <<sshSession, sshKnown>> /\ old.session = NoSession
    BY <1>2, <1>a DEF PoolExecute
  <2>2. session \in SshSessions \cup {NoSession} /\ pc \in {"connect", "probe"}
    BY DEF SshIInv, SshTypes
  <2>3. v \in SshUses /\ v.pc = pc /\ v.session = session
    <3> HIDE DEF pc, session
    <3> QED  BY <2>2 DEF SshIdle, SshUses
  <2>4. \/ taken = {} /\ pc = "connect" /\ session = NoSession
        \/ pc = "probe" /\ sshPool = {session} /\ taken = sshPool /\ session \in SshSessions
    BY DEF SshIInv, SshTypes
  <2> HIDE DEF taken, session, pc, v
  <2>5. SshOwns(t, v)
    BY <2>1, <2>3, <2>4 DEF SshOwns, SshKeeps, SshTakes
  <2>6. SshTrusts(t, v)
    BY <2>1, <2>2, <2>3 DEF SshTrusts
  <2> QED  BY <2>1, <2>3, <2>5, <2>6 DEF SshMove
<1>3. ASSUME NEW alive \in BOOLEAN, Probe(t, alive) PROVE SshMove(t)
  <2> DEFINE a == [old EXCEPT !.pc = "run"]
             d == [old EXCEPT !.pc = "connect", !.session = NoSession]
  <2>1. old.pc = "probe" /\ UNCHANGED <<sshPool, sshKnown>>
    BY <1>3 DEF Probe
  <2>2. \/ sshTask' = [sshTask EXCEPT ![t] = a] /\ UNCHANGED sshSession
        \/ sshTask' = [sshTask EXCEPT ![t] = d] /\ sshSession' = Dropped({old.session})
    BY <1>3 DEF Probe, SshGo
  <2>3. a \in SshUses /\ a.pc = "run" /\ a.session = old.session
    BY <1>0 DEF SshUses
  <2>4. d \in SshUses /\ d.pc = "connect" /\ d.session = NoSession
    BY <1>0 DEF SshUses
  <2> HIDE DEF a, d
  <2>5. SshTrusts(t, a) /\ SshTrusts(t, d)
    BY <2>1, <2>3, <2>4 DEF SshTrusts
  <2>6. CASE sshTask' = [sshTask EXCEPT ![t] = a] /\ UNCHANGED sshSession
    <3>1. SshOwns(t, a)
      BY <1>a, <2>1, <2>3, <2>6 DEF SshOwns, SshKeeps
    <3> QED  BY <2>3, <2>5, <2>6, <3>1 DEF SshMove
  <2>7. CASE sshTask' = [sshTask EXCEPT ![t] = d] /\ sshSession' = Dropped({old.session})
    <3>1. SshOwns(t, d)
      BY <1>a, <2>1, <2>4, <2>7 DEF SshOwns, SshDrops
    <3> QED  BY <2>4, <2>5, <2>7, <3>1 DEF SshMove
  <2> QED  BY <2>2, <2>6, <2>7
<1>4. ASSUME NEW key \in HostKeys, CheckServerKey(t, key) PROVE SshMove(t)
  <2> DEFINE known == sshKnown # <<>>
             a == [old EXCEPT !.pc = "auth", !.key = key, !.anchored = known]
             r == [old EXCEPT !.pc = "record", !.key = key, !.anchored = FALSE]
  <2>1. /\ old.pc = "connect" /\ old.session = NoSession
        /\ UNCHANGED <<sshPool, sshSession, sshKnown>>
    BY <1>4, <1>a DEF CheckServerKey
  <2>2. \/ sshTask' = [sshTask EXCEPT ![t] = a] /\ (HostKeyPolicy = "AcceptAny" \/ Verified(key))
        \/ sshTask' = [sshTask EXCEPT ![t] = r] /\ HostKeyPolicy = "TrustOnFirstUse"
        \/ sshTask' = [sshTask EXCEPT ![t] = SshIdle]
    <3>1. CASE HostKeyPolicy = "AcceptAny" \/ Verified(key)
      BY <1>4, <3>1 DEF CheckServerKey, Verified
    <3>2. CASE ~(HostKeyPolicy = "AcceptAny" \/ Verified(key))
               /\ HostKeyPolicy = "TrustOnFirstUse" /\ sshKnown = <<>>
      BY <1>4, <3>2 DEF CheckServerKey
    <3>3. CASE /\ ~(HostKeyPolicy = "AcceptAny" \/ Verified(key))
               /\ ~(HostKeyPolicy = "TrustOnFirstUse" /\ sshKnown = <<>>)
      BY <1>4, <3>3 DEF CheckServerKey
    <3> QED  BY <3>1, <3>2, <3>3
  <2>3. known \in BOOLEAN
    OBVIOUS
  <2>4. a \in SshUses /\ a.pc = "auth" /\ a.key = key /\ a.session = old.session
    <3> HIDE DEF known
    <3> QED  BY <1>0, <2>3 DEF SshUses
  <2>5. /\ r \in SshUses /\ r.pc = "record" /\ r.key = key /\ r.session = old.session
        /\ ~r.anchored
    BY <1>0 DEF SshUses
  <2>6. CASE sshTask' = [sshTask EXCEPT ![t] = a] /\ (HostKeyPolicy = "AcceptAny" \/ Verified(key))
    <3> HIDE DEF a
    <3>1. HostKeyPolicy # "AcceptAny" => sshKnown # <<>> /\ sshKnown[1] = key
      BY <2>6 DEF Verified
    <3>2. SshOwns(t, a) /\ SshTrusts(t, a)
      BY <2>1, <2>4, <3>1 DEF SshOwns, SshKeeps, SshTrusts, SshAccepts
    <3> QED  BY <2>4, <2>6, <3>2 DEF SshMove
  <2>7. CASE sshTask' = [sshTask EXCEPT ![t] = r] /\ HostKeyPolicy = "TrustOnFirstUse"
    <3> HIDE DEF r
    <3>1. SshOwns(t, r) /\ SshTrusts(t, r)
      BY <2>1, <2>5, <2>7 DEF SshOwns, SshKeeps, SshTrusts, SshNewKey
    <3> QED  BY <2>5, <2>7, <3>1 DEF SshMove
  <2>8. CASE sshTask' = [sshTask EXCEPT ![t] = SshIdle]
    <3>1. SshOwns(t, SshIdle) /\ SshTrusts(t, SshIdle)
      BY <1>1, <2>1, <2>8 DEF SshOwns, SshKeeps, SshTrusts
    <3> QED  BY <1>1, <2>8, <3>1 DEF SshMove
  <2> QED  BY <2>2, <2>6, <2>7, <2>8
<1>5. CASE ConnectFails(t)
  <2>1. /\ old.session = NoSession /\ UNCHANGED <<sshPool, sshSession, sshKnown>>
        /\ sshTask' = [sshTask EXCEPT ![t] = SshIdle]
    BY <1>5, <1>a DEF ConnectFails, SshLeave
  <2>2. SshOwns(t, SshIdle) /\ SshTrusts(t, SshIdle)
    BY <1>1, <2>1 DEF SshOwns, SshKeeps, SshTrusts
  <2> QED  BY <1>1, <2>1, <2>2 DEF SshMove
<1>6. CASE ReturnSession(t)
  <2>1. /\ old.pc = "return" /\ UNCHANGED sshKnown /\ sshTask' = [sshTask EXCEPT ![t] = SshIdle]
        /\ \/ sshSession' = Dropped({old.session}) /\ UNCHANGED sshPool
           \/ sshSession' = Dropped(sshPool) /\ sshPool' = {old.session}
    BY <1>6 DEF ReturnSession, SshLeave
  <2>2. SshOwns(t, SshIdle) /\ SshTrusts(t, SshIdle)
    BY <1>1, <1>a, <2>1 DEF SshOwns, SshDrops, SshGives, SshTrusts
  <2> QED  BY <1>1, <2>1, <2>2 DEF SshMove
<1>7. ASSUME NEW s \in SshSessions, Authenticate(t, s) PROVE SshMove(t)
  <2> DEFINE v == [old EXCEPT !.pc = "run", !.session = s]
  <2>1. /\ old.pc = "auth" /\ sshTask' = [sshTask EXCEPT ![t] = v] /\ UNCHANGED <<sshPool, sshKnown>>
        /\ sshSession[s].state = "none"
        /\ sshSession' = [sshSession EXCEPT ![s] =
             [state |-> "open", key |-> old.key, anchored |-> old.anchored]]
    BY <1>7 DEF Authenticate
  <2>2. v \in SshUses /\ v.pc = "run" /\ v.session = s
    BY <1>0 DEF SshUses
  <2> HIDE DEF v
  <2>3. SshOwns(t, v) /\ SshTrusts(t, v)
    BY <1>a, <2>1, <2>2 DEF SshOwns, SshOpens, SshTrusts
  <2> QED  BY <2>1, <2>2, <2>3 DEF SshMove
<1>8. ASSUME NEW said \in {"zero", "other", "signal", "nothing", "error"}, CommandEnds(t, said)
      PROVE  SshMove(t)
  <2> DEFINE v == [old EXCEPT !.pc = "return"]
  <2>1. /\ old.pc = "run" /\ UNCHANGED <<sshPool, sshSession, sshKnown>>
        /\ sshTask' = [sshTask EXCEPT ![t] = v]
    BY <1>8 DEF CommandEnds, SshGo
  <2>2. v \in SshUses /\ v.pc = "return" /\ v.session = old.session
    BY <1>0 DEF SshUses
  <2> HIDE DEF v
  <2>3. SshOwns(t, v) /\ SshTrusts(t, v)
    BY <1>a, <2>1, <2>2 DEF SshOwns, SshKeeps, SshTrusts
  <2> QED  BY <2>1, <2>2, <2>3 DEF SshMove
<1>9. CASE RecordHostKey(t)
  <2> DEFINE v == [old EXCEPT !.pc = "auth"]
  <2>1. /\ old.pc = "record" /\ UNCHANGED <<sshPool, sshSession>>
        /\ sshTask' = [sshTask EXCEPT ![t] = v] /\ sshKnown' = Append(sshKnown, old.key)
    BY <1>9 DEF RecordHostKey, SshGo
  <2>2. /\ v \in SshUses /\ v.pc = "auth" /\ v.session = old.session
        /\ v.key = old.key /\ v.anchored = old.anchored
    BY <1>0 DEF SshUses
  <2>3. old.key \in HostKeys /\ ~old.anchored /\ HostKeyPolicy = "TrustOnFirstUse"
    BY <2>1 DEF SshIInv, SshTaskTrust
  <2> HIDE DEF v
  <2>4. SshOwns(t, v) /\ SshTrusts(t, v)
    BY <1>a, <2>1, <2>2, <2>3 DEF SshOwns, SshKeeps, SshTrusts, SshRecords
  <2> QED  BY <2>1, <2>2, <2>4 DEF SshMove
<1> QED  BY <1>2, <1>3, <1>4, <1>5, <1>6, <1>7, <1>8, <1>9 DEF SshStep

(* A session opens with its task's key, or keeps what it knows of the host. *)
LEMMA SshSessionsStay ==
    ASSUME SshTypes, NEW t \in SshTasks, NEW v \in SshUses, SshOwns(t, v)
    PROVE  /\ sshSession' \in [SshSessions -> SshStates]
           /\ sshPool' = {} \/ \E s \in SshSessions : sshPool' = {s}
           /\ \A s \in SshSessions : sshSession[s].state # "none" =>
                /\ sshSession'[s].key = sshSession[s].key
                /\ sshSession'[s].anchored = sshSession[s].anchored
<1>1. CASE SshKeeps(t, v)
  BY <1>1 DEF SshKeeps, SshTypes
<1>2. CASE SshTakes(t, v)
  BY <1>2 DEF SshTakes, SshTypes
<1>3. CASE SshDrops(t, v)
  BY <1>3, DroppedStates DEF SshDrops, SshTypes
<1>4. CASE SshGives(t, v)
  <2>1. sshTask[t].session \in SshSessions
    BY <1>4 DEF SshGives, SshTypes, SshUses
  <2> QED  BY <1>4, <2>1, DroppedStates DEF SshGives
<1>5. CASE SshOpens(t, v)
  <2>1. [state |-> "open", key |-> sshTask[t].key, anchored |-> sshTask[t].anchored] \in SshStates
    BY DEF SshStates, SshTypes, SshUses
  <2> QED  BY <1>5, <2>1 DEF SshOpens, SshTypes
<1> QED  BY <1>1, <1>2, <1>3, <1>4, <1>5 DEF SshOwns

(* Who has a session stays told apart. *)
LEMMA SshOwnedStep ==
    ASSUME SshIInv, NEW t \in SshTasks, NEW v \in SshUses,
           sshTask' = [sshTask EXCEPT ![t] = v], SshOwns(t, v)
    PROVE  SshSessionsOwned'
<1> USE SessionsCounted
<1>1. /\ sshTask'[t].session = v.session
      /\ \A o \in SshTasks \ {t} : sshTask'[o].session = sshTask[o].session
  BY DEF SshIInv, SshTypes
<1>2. \A o \in SshTasks : sshTask[o].session \in SshSessions \cup {NoSession}
  BY DEF SshIInv, SshTypes, SshUses
<1>3. /\ \A p, o \in SshTasks : p # o /\ sshTask[p].session = sshTask[o].session =>
                                  sshTask[p].session = NoSession
      /\ \A p \in SshTasks : sshTask[p].session # NoSession => sshTask[p].session \notin sshPool
      /\ \A s \in SshSessions : sshSession[s].state \in {"open", "dead"} <=>
              s \in sshPool \/ \E p \in SshTasks : s = sshTask[p].session
  BY DEF SshIInv, SshSessionsOwned, HeldBy
<1>4. ASSUME /\ \A p, o \in SshTasks : p # o /\ sshTask'[p].session = sshTask'[o].session =>
                                         sshTask'[p].session = NoSession
             /\ \A p \in SshTasks : sshTask'[p].session # NoSession =>
                                      sshTask'[p].session \notin sshPool'
             /\ \A s \in SshSessions : sshSession'[s].state \in {"open", "dead"} <=>
                     s \in sshPool' \/ \E p \in SshTasks : s = sshTask'[p].session
      PROVE  SshSessionsOwned'
  BY <1>4 DEF SshSessionsOwned, HeldBy
<1>5. CASE SshKeeps(t, v)
  <2>1. /\ \A o \in SshTasks : sshTask'[o].session = sshTask[o].session
        /\ sshPool' = sshPool /\ sshSession' = sshSession
    BY <1>1, <1>5 DEF SshKeeps
  <2> QED  BY <1>3, <1>4, <2>1
<1>6. CASE SshTakes(t, v)
  <2>1. /\ sshTask[t].session = NoSession /\ sshPool = {v.session} /\ sshPool' = {}
        /\ sshSession' = sshSession
    BY <1>6 DEF SshTakes
  <2>2. v.session \in SshSessions
    BY <2>1 DEF SshIInv, SshTypes
  <2>3. \A p \in SshTasks \ {t} : sshTask[p].session # v.session
    BY <1>3, <2>1, <2>2
  <2>4. \A s \in SshSessions :
          s \in sshPool \/ (\E p \in SshTasks : s = sshTask[p].session)
            <=> \E p \in SshTasks : s = sshTask'[p].session
    BY <1>1, <2>1, <2>3
  <2>5. \A s \in SshSessions : sshSession'[s].state \in {"open", "dead"} <=>
          s \in sshPool' \/ \E p \in SshTasks : s = sshTask'[p].session
    BY <1>3, <2>1, <2>4
  <2>6. \A p, o \in SshTasks : p # o /\ sshTask'[p].session = sshTask'[o].session =>
                               sshTask'[p].session = NoSession
    BY <1>1, <1>3, <2>3
  <2>7. \A p \in SshTasks : sshTask'[p].session \notin sshPool'
    BY <2>1
  <2> QED  BY <1>4, <2>5, <2>6, <2>7
<1>7. CASE SshDrops(t, v)
  <2>1. \A s \in SshSessions :
          sshSession'[s].state = IF s = sshTask[t].session THEN "closed" ELSE sshSession[s].state
    <3>1. sshSession' = Dropped({sshTask[t].session}) /\ SshTypes
      BY <1>7 DEF SshDrops, SshIInv
    <3>2. \A s \in SshSessions : Dropped({sshTask[t].session})[s].state =
            IF s \in {sshTask[t].session} THEN "closed" ELSE sshSession[s].state
      BY <3>1, DroppedStates
    <3> QED  BY <3>1, <3>2
  <2>0. v.session = NoSession /\ sshTask[t].session # NoSession /\ sshPool' = sshPool
    BY <1>7 DEF SshDrops
  <2>2. /\ sshTask[t].session \notin sshPool
        /\ \A p \in SshTasks \ {t} : sshTask[p].session # sshTask[t].session
    BY <1>3, <2>0
  <2>3. /\ \A p, o \in SshTasks : p # o /\ sshTask'[p].session = sshTask'[o].session =>
                                  sshTask'[p].session = NoSession
        /\ \A p \in SshTasks : sshTask'[p].session # NoSession =>
                                sshTask'[p].session \notin sshPool'
    BY <1>1, <1>3, <2>0, <2>2
  <2>4. ASSUME NEW s \in SshSessions
        PROVE  sshSession'[s].state \in {"open", "dead"} <=>
                 s \in sshPool' \/ \E p \in SshTasks : s = sshTask'[p].session
    <3>1. CASE s = sshTask[t].session
      BY <1>1, <2>1, <2>0, <2>2, <3>1
    <3>2. CASE s # sshTask[t].session
      BY <1>1, <1>3, <2>1, <2>0, <2>2, <3>2
    <3> QED  BY <3>1, <3>2
  <2> QED  BY <1>4, <2>3, <2>4
<1>8. CASE SshGives(t, v)
  <2>1. \A s \in SshSessions :
          sshSession'[s].state = IF s \in sshPool THEN "closed" ELSE sshSession[s].state
    <3>1. sshSession' = Dropped(sshPool) /\ SshTypes
      BY <1>8 DEF SshGives, SshIInv
    <3>2. \A s \in SshSessions :
            Dropped(sshPool)[s].state = IF s \in sshPool THEN "closed" ELSE sshSession[s].state
      BY <3>1, DroppedStates
    <3> QED  BY <3>1, <3>2
  <2>0. /\ v.session = NoSession /\ sshTask[t].session # NoSession
        /\ sshPool' = {sshTask[t].session}
    BY <1>8 DEF SshGives
  <2>2. /\ sshTask[t].session \notin sshPool
        /\ \A p \in SshTasks \ {t} : sshTask[p].session # sshTask[t].session
    BY <1>3, <2>0
  <2>3. /\ \A p, o \in SshTasks : p # o /\ sshTask'[p].session = sshTask'[o].session =>
                                  sshTask'[p].session = NoSession
        /\ \A p \in SshTasks : sshTask'[p].session # NoSession =>
                                sshTask'[p].session \notin sshPool'
    BY <1>1, <1>3, <2>0, <2>2
  <2>4. ASSUME NEW s \in SshSessions
        PROVE  sshSession'[s].state \in {"open", "dead"} <=>
                 s \in sshPool' \/ \E p \in SshTasks : s = sshTask'[p].session
    <3>1. CASE s = sshTask[t].session
      BY <1>1, <1>3, <2>1, <2>0, <2>2, <3>1
    <3>2. CASE s \in sshPool
      BY <1>1, <1>3, <2>1, <2>0, <2>2, <3>2
    <3>3. CASE s # sshTask[t].session /\ s \notin sshPool
      BY <1>1, <1>3, <2>1, <2>0, <2>2, <3>3
    <3> QED  BY <3>1, <3>2, <3>3
  <2> QED  BY <1>4, <2>3, <2>4
<1>9. CASE SshOpens(t, v)
  <2>1. \A s \in SshSessions :
          sshSession'[s].state = IF s = v.session THEN "open" ELSE sshSession[s].state
    BY <1>9 DEF SshOpens, SshIInv, SshTypes
  <2>2. v.session \notin sshPool /\ \A p \in SshTasks : v.session # sshTask[p].session
    BY <1>3, <1>9 DEF SshOpens
  <2> QED  BY <1>1, <1>2, <1>3, <1>4, <1>9, <2>1, <2>2 DEF SshOpens
<1> QED  BY <1>5, <1>6, <1>7, <1>8, <1>9 DEF SshOwns

(* Known_hosts only grows, and its first line stays. *)
LEMMA KnownGrows ==
    ASSUME SshTypes, NEW t \in SshTasks, NEW v \in SshUses, SshTrusts(t, v)
    PROVE  /\ sshKnown' \in Seq(HostKeys)
           /\ v.pc = "auth" /\ HostKeyPolicy # "AcceptAny" => SshAnchored(sshKnown', v.key, v.anchored)
           /\ \A key, anchored : SshAnchored(sshKnown, key, anchored) => SshAnchored(sshKnown', key, anchored)
<1>0. /\ Len(sshKnown) \in Nat /\ sshKnown \in Seq(HostKeys)
      /\ sshKnown # <<>> => Len(sshKnown) >= 1
  BY EmptySeq DEF SshTypes
<1>1. CASE UNCHANGED sshKnown
  <2>1. v.pc # "auth" \/ SshAccepts(v) \/ SshRecords(t, v)
    BY DEF SshTrusts, SshNewKey
  <2>2. ~SshRecords(t, v)
    <3>1. ASSUME SshRecords(t, v) PROVE FALSE
      <4>1. Len(Append(sshKnown, v.key)) = Len(sshKnown) + 1
        BY <1>0, <3>1, AppendProperties DEF SshRecords
      <4> QED  BY <1>0, <1>1, <3>1, <4>1 DEF SshRecords
    <3> QED  BY <3>1
  <2>3. ASSUME SshAccepts(v), HostKeyPolicy # "AcceptAny" PROVE SshAnchored(sshKnown', v.key, v.anchored)
    BY <1>0, <1>1, <2>3 DEF SshAccepts, SshAnchored
  <2> QED  BY <1>0, <1>1, <2>1, <2>2, <2>3 DEF SshAnchored
<1>2. CASE SshRecords(t, v)
  <2>1. /\ sshKnown' \in Seq(HostKeys) /\ Len(sshKnown') = Len(sshKnown) + 1
        /\ sshKnown'[Len(sshKnown) + 1] = v.key
        /\ \A i \in 1 .. Len(sshKnown) : sshKnown'[i] = sshKnown[i]
    <3>1. /\ Append(sshKnown, v.key) \in Seq(HostKeys)
          /\ Len(Append(sshKnown, v.key)) = Len(sshKnown) + 1
          /\ Append(sshKnown, v.key)[Len(sshKnown) + 1] = v.key
          /\ \A i \in 1 .. Len(sshKnown) : Append(sshKnown, v.key)[i] = sshKnown[i]
      BY <1>0, <1>2, AppendProperties DEF SshRecords
    <3> QED  BY <1>2, <3>1 DEF SshRecords
  <2>2. SshAnchored(sshKnown', v.key, v.anchored)
    <3>1. ~v.anchored /\ HostKeyPolicy # "Verify" /\ Len(sshKnown) + 1 \in 1 .. Len(sshKnown')
      BY <1>0, <1>2, <2>1 DEF SshRecords
    <3> QED  BY <2>1, <3>1 DEF SshAnchored
  <2>3. ASSUME NEW key, NEW anchored, SshAnchored(sshKnown, key, anchored) PROVE SshAnchored(sshKnown', key, anchored)
    <3>1. PICK i \in 1 .. Len(sshKnown) : sshKnown[i] = key
      BY <2>3 DEF SshAnchored
    <3>2. i \in 1 .. Len(sshKnown') /\ 1 \in 1 .. Len(sshKnown)
      BY <1>0, <2>1
    <3>3. sshKnown'[i] = key /\ sshKnown'[1] = sshKnown[1]
      BY <2>1, <3>1, <3>2
    <3> QED  BY <2>3, <3>2, <3>3 DEF SshAnchored
  <2> QED  BY <2>1, <2>2, <2>3
<1> QED  BY <1>1, <1>2 DEF SshTrusts, SshAccepts, SshNewKey

(* The move of a task keeps the invariant. *)
LEMMA SshMoveStep ==
    ASSUME SshIInv, NEW t \in SshTasks, SshMove(t)
    PROVE  SshIInv'
<1> PICK v \in SshUses : sshTask' = [sshTask EXCEPT ![t] = v] /\ SshOwns(t, v) /\ SshTrusts(t, v)
  BY DEF SshMove
<1>1. /\ sshTask' \in [SshTasks -> SshUses] /\ sshTask'[t] = v
      /\ \A o \in SshTasks \ {t} : sshTask'[o] = sshTask[o]
  BY DEF SshIInv, SshTypes
<1>2. SshTypes'
  BY <1>1, SshSessionsStay, KnownGrows DEF SshIInv, SshTypes
<1>3. SshHeldInv'
  BY <1>1 DEF SshIInv, SshHeldInv, SshOwns
<1>4. SshSessionsOwned'
  BY SshOwnedStep
<1>5. SshTaskTrust'
  <2>1. ASSUME NEW o \in SshTasks
        PROVE  /\ sshTask'[o].pc = "record" =>
                    HostKeyPolicy = "TrustOnFirstUse" /\ ~sshTask'[o].anchored
                      /\ sshTask'[o].key \in HostKeys
               /\ sshTask'[o].pc = "auth" /\ HostKeyPolicy # "AcceptAny" =>
                    SshAnchored(sshKnown', sshTask'[o].key, sshTask'[o].anchored)
    <3>1. CASE o = t
      <4>1. v.pc = "record" => SshNewKey(v)
        BY DEF SshTrusts, SshAccepts, SshRecords
      <4> QED  BY <1>1, <3>1, <4>1, KnownGrows DEF SshIInv, SshNewKey
    <3>2. CASE o # t
      BY <1>1, <3>2, KnownGrows DEF SshIInv, SshTaskTrust
    <3> QED  BY <3>1, <3>2
  <2> QED  BY <2>1 DEF SshTaskTrust, SshAnchored
<1>6. SshTrustAnchored'
  <2>1. \A s \in SshSessions : sshSession[s].state # "none" /\ HostKeyPolicy # "AcceptAny" =>
          SshAnchored(sshKnown, sshSession[s].key, sshSession[s].anchored)
    BY DEF SshIInv, SshTrustAnchored, SshAnchored
  <2>2. ASSUME NEW s \in SshSessions, sshSession'[s].state # "none", HostKeyPolicy # "AcceptAny"
        PROVE  SshAnchored(sshKnown', sshSession'[s].key, sshSession'[s].anchored)
    <3>1. CASE sshSession[s].state # "none"
      BY <2>1, <2>2, <3>1, SshSessionsStay, KnownGrows DEF SshIInv
    <3>2. CASE sshSession[s].state = "none"
      <4>1. \A q \in SshTasks : s # sshTask[q].session
        <5>1. ~(s \in sshPool \/ \E q \in SshTasks : s \in HeldBy(q))
          BY <3>2 DEF SshIInv, SshSessionsOwned
        <5> QED  BY <5>1, SessionsCounted DEF HeldBy
      <4>2. s \notin sshPool
        BY <3>2 DEF SshIInv, SshSessionsOwned
      <4>3. SshOpens(t, v) /\ s = v.session
        <5>1. ~SshKeeps(t, v) /\ ~SshTakes(t, v)
          BY <2>2, <3>2 DEF SshKeeps, SshTakes
        <5>2. ~SshDrops(t, v) /\ ~SshGives(t, v)
          BY <2>2, <3>2, <4>1, <4>2, DroppedStates DEF SshDrops, SshGives, SshIInv
        <5> QED  BY <2>2, <3>2, <5>1, <5>2 DEF SshOwns, SshOpens, SshIInv, SshTypes
      <4>4. /\ sshSession'[s].key = sshTask[t].key /\ sshSession'[s].anchored = sshTask[t].anchored
            /\ sshTask[t].pc = "auth"
        BY <4>3 DEF SshOpens, SshIInv, SshTypes
      <4> QED  BY <2>2, <4>4, KnownGrows DEF SshIInv, SshTaskTrust
    <3> QED  BY <3>1, <3>2
  <2> QED  BY <2>2 DEF SshTrustAnchored, SshAnchored
<1> QED  BY <1>2, <1>3, <1>4, <1>5, <1>6 DEF SshIInv

(* The host and the pool's own cleaning. *)
LEMMA SshRestStep ==
    ASSUME SshIInv, \/ \E s \in SshSessions : ConnectionDies(s)
                    \/ PoolClear
                    \/ UNCHANGED sshVars
    PROVE  SshIInv'
<1> USE SessionsCounted
<1>1. UNCHANGED <<sshTask, sshKnown>>
  BY DEF ConnectionDies, PoolClear, sshVars
<1> DEFINE SshRests ==
      /\ sshSession' \in [SshSessions -> SshStates]
      /\ sshPool' = {} \/ sshPool' = sshPool
      /\ \A s \in SshSessions :
           /\ sshSession'[s].key = sshSession[s].key
           /\ sshSession'[s].anchored = sshSession[s].anchored
           /\ sshSession'[s].state = "none" <=> sshSession[s].state = "none"
           /\ sshSession'[s].state \in {"open", "dead"} <=>
                sshSession[s].state \in {"open", "dead"} /\ (s \in sshPool => s \in sshPool')
<1>2. ASSUME NEW s \in SshSessions, ConnectionDies(s) PROVE SshRests
  <2>1. /\ sshSession[s].state = "open" /\ sshPool' = sshPool
        /\ sshSession' = [sshSession EXCEPT ![s] = [sshSession[s] EXCEPT !.state = "dead"]]
    BY <1>2 DEF ConnectionDies
  <2>2. sshSession[s] \in SshStates
    BY DEF SshIInv, SshTypes
  <2> DEFINE d == [sshSession[s] EXCEPT !.state = "dead"]
  <2>3. /\ d \in SshStates /\ d.state = "dead" /\ d.key = sshSession[s].key
        /\ d.anchored = sshSession[s].anchored
    BY <2>2 DEF SshStates
  <2> HIDE DEF d
  <2>4. sshSession' \in [SshSessions -> SshStates]
        /\ \A o \in SshSessions : sshSession'[o] = IF o = s THEN d ELSE sshSession[o]
    BY <2>1, <2>3 DEF d, SshIInv, SshTypes
  <2> QED  BY <2>1, <2>3, <2>4
<1>3. ASSUME PoolClear PROVE SshRests
  <2>1. sshPool' = {} /\ sshSession' = Dropped(sshPool)
    BY <1>3 DEF PoolClear
  <2>2. \A s \in SshSessions : s \in sshPool => sshSession[s].state \in {"open", "dead"}
    BY DEF SshIInv, SshSessionsOwned
  <2>3. /\ Dropped(sshPool) \in [SshSessions -> SshStates]
        /\ \A s \in SshSessions :
             /\ Dropped(sshPool)[s].state =
                  IF s \in sshPool THEN "closed" ELSE sshSession[s].state
             /\ Dropped(sshPool)[s].key = sshSession[s].key
             /\ Dropped(sshPool)[s].anchored = sshSession[s].anchored
    BY DroppedStates DEF SshIInv
  <2> QED  BY <2>1, <2>2, <2>3
<1>4. ASSUME UNCHANGED sshVars PROVE SshRests
  BY <1>4 DEF sshVars, SshIInv, SshTypes
<1>5. SshRests
  BY <1>2, <1>3, <1>4
<1>6. SshTypes' /\ SshHeldInv' /\ SshTaskTrust'
  BY <1>1, <1>5 DEF SshIInv, SshTypes, SshHeldInv, SshTaskTrust
<1>7. SshSessionsOwned'
  <2>1. \A t \in SshTasks : HeldBy(t)' = HeldBy(t)
    BY <1>1 DEF HeldBy
  <2> QED  BY <1>5, <2>1 DEF SshIInv, SshTypes, SshSessionsOwned
<1>8. SshTrustAnchored'
  BY <1>1, <1>5 DEF SshIInv, SshTrustAnchored
<1> QED  BY <1>6, <1>7, <1>8 DEF SshIInv

(* Every step of the driver keeps the invariant. *)
LEMMA SshIInvStep == ASSUME SshIInv, [SshNext]_sshVars PROVE SshIInv'
<1>1. ASSUME NEW t \in SshTasks, SshStep(t) PROVE SshIInv'
  BY <1>1, EveryStepMoves, SshMoveStep
<1>2. \/ \E t \in SshTasks : SshStep(t)
      \/ \E s \in SshSessions : ConnectionDies(s)
      \/ PoolClear \/ UNCHANGED sshVars
  BY DEF SshNext, SshStep
<1> QED  BY <1>1, <1>2, SshRestStep

(* Nothing is pooled, held or known but the file at the start. *)
LEMMA SshIInvInit == SshInit => SshIInv
<1> SUFFICES ASSUME SshInit PROVE SshIInv
  OBVIOUS
<1>1. /\ \A s \in SshSessions : sshSession[s] =
             [state |-> "none", key |-> "none", anchored |-> FALSE]
      /\ \A t \in SshTasks : sshTask[t] = SshIdle
  BY DEF SshInit
<1>2. SshTypes
  BY SshAssumption DEF SshInit, SshTypes, SshStates, SshUses, SshIdle
<1>3. SshHeldInv /\ SshTaskTrust
  BY <1>1 DEF SshHeldInv, SshTaskTrust, SshIdle
<1>4. SshSessionsOwned /\ SshTrustAnchored
  BY <1>1 DEF SshInit, SshSessionsOwned, HeldBy, SshTrustAnchored, SshIdle
<1> QED  BY <1>2, <1>3, <1>4 DEF SshIInv

(* What the pool promises. *)
LEMMA SshSound == SshIInv => SshSessionsSound
BY DEF SshIInv, SshSessionsSound

(* No session is used by two tasks, lost or trusted without its line. *)
THEOREM SshSessionsAlways == SshSpec => []SshSessionsSound
BY SshSound, SshIInvInit, SshIInvStep, PTL DEF SshSpec

(* Every step keeps the types. *)
LEMMA ProxyTypeStep ==
    ASSUME ProxyTypes, [ProxyNext]_pxVars
    PROVE  ProxyTypes'
<1> USE ProxyAssumption DEF ProxyTypes, ProxyGo, ProxyLeave, ProxyIdle, pxHistory
<1>1. ASSUME NEW c \in ProxyCalls, NEW function \in FaultFunctions, NEW range \in {"inside", "outside"},
             NEW loop \in BOOLEAN, NEW p \in ProxyPids, SpawnProxy(c, function, range, loop, p)
      PROVE  ProxyTypes'
  BY <1>1 DEF SpawnProxy
<1>2. ASSUME NEW c \in ProxyCalls, WritePidfile(c) \/ WritePidfileFails(c) PROVE ProxyTypes'
  BY <1>2 DEF WritePidfile, WritePidfileFails
<1>3. ASSUME NEW c \in ProxyCalls, ReadyTimeout(c) PROVE ProxyTypes'
  BY <1>3 DEF ReadyTimeout
<1>4. ASSUME NEW c \in ProxyCalls, NEW by \in Bound, WaitReady(c, by) PROVE ProxyTypes'
  BY <1>4 DEF WaitReady
<1>5. ASSUME NEW c \in ProxyCalls, ReadPidfile(c) PROVE ProxyTypes'
  BY <1>5 DEF ReadPidfile
<1>6. ASSUME NEW c \in ProxyCalls, IsProxydProcess(c) PROVE ProxyTypes'
  BY <1>6 DEF IsProxydProcess
<1>7. ASSUME NEW c \in ProxyCalls, Kill(c) \/ KillFails(c) PROVE ProxyTypes'
  BY <1>7 DEF Kill, KillFails
<1>8. ASSUME NEW c \in ProxyCalls, Unlink(c) PROVE ProxyTypes'
  BY <1>8 DEF Unlink
<1>9. ASSUME NEW p \in ProxyPids, ProxydBind(p) \/ ProxydExits(p) \/ PidReused(p) PROVE ProxyTypes'
  BY <1>9 DEF ProxydBind, ProxydExits, PidReused
<1>10. CASE UNCHANGED pxVars
  BY <1>10 DEF pxVars
<1> QED  BY <1>1, <1>2, <1>3, <1>4, <1>5, <1>6, <1>7, <1>8, <1>9, <1>10 DEF ProxyNext

(* The step of a call moves it alone: what is said of the others stays. *)
LEMMA ProxyClearStep ==
    ASSUME ProxyTypes, ProxyClear, [ProxyNext]_pxVars, ~pxMixed'
    PROVE  ProxyClear'
<1> USE DEF ProxyTypes, ProxyClear, ProxyCallInv, ProxyNamedInv, ProxyAnswerInv, ProxyTracked,
            LiveProxy, ProxyRunning, ProxyGo, ProxyLeave, ProxyIdle, pxHistory
<1>1. ASSUME NEW c \in ProxyCalls, NEW function \in FaultFunctions, NEW range \in {"inside", "outside"},
             NEW loop \in BOOLEAN, NEW p \in ProxyPids, SpawnProxy(c, function, range, loop, p)
      PROVE  ProxyClear'
  <2>1. \A d \in ProxyCalls \ {c} : pxCall[d].pc = "idle"
    BY <1>1 DEF SpawnProxy, Alongside
  <2>2. /\ pxProc' = [pxProc EXCEPT ![p] = "starting"] /\ UNCHANGED <<pxPidfile, pxWrong>>
        /\ pxCall' = [pxCall EXCEPT ![c] = [pc |-> "pidfile", pid |-> p]]
        /\ pxLost' = pxLost \cup {q \in ProxyPids : ProxyRunning(q)}
        /\ ~pxMet' => ~pxMet /\ \A q \in ProxyPids : ~LiveProxy(q)
    BY <1>1 DEF SpawnProxy
  <2>3. \A q \in ProxyPids : ProxyTracked(q)' => q = p
    BY <2>2
  <2>4. ProxyCallInv'
    BY <2>1, <2>2, <2>3
  <2>5. ProxyNamedInv'
    BY <2>2, <2>3
  <2>6. ~pxMet' => ProxyAnswerInv'
    BY <2>1, <2>2
  <2> QED  BY <2>4, <2>5, <2>6
<1>2. ASSUME NEW c \in ProxyCalls, WritePidfile(c) PROVE ProxyClear'
  BY <1>2 DEF WritePidfile
<1>3. ASSUME NEW c \in ProxyCalls, WritePidfileFails(c) PROVE ProxyClear'
  BY <1>3 DEF WritePidfileFails
<1>4. ASSUME NEW c \in ProxyCalls, ReadyTimeout(c) PROVE ProxyClear'
  BY <1>4 DEF ReadyTimeout
<1>5. ASSUME NEW c \in ProxyCalls, NEW by \in Bound, WaitReady(c, by) PROVE ProxyClear'
  <2>1. by \in ProxyPids /\ LiveProxy(by) /\ pxCall[c].pc = "ready"
    BY <1>5 DEF Bound, WaitReady
  <2>2. ~pxMet => by = pxCall[c].pid
    BY <2>1
  <2> QED  BY <1>5, <2>2 DEF WaitReady
<1>6. ASSUME NEW c \in ProxyCalls, ReadPidfile(c) PROVE ProxyClear'
  <2>1. PICK p \in pxPidfile : pxCall' = [pxCall EXCEPT ![c] = [pc |-> "identify", pid |-> p]]
    BY <1>6 DEF ReadPidfile
  <2>2. /\ \A d \in ProxyCalls : pxCall[d].pc # "pidfile"
        /\ UNCHANGED <<pxProc, pxFault, pxPidfile, pxMet, pxLost, pxWrong>> /\ pxPidfile = {p}
    <3>1. /\ pxMixed' = (pxMixed \/ \E d \in ProxyCalls : pxCall[d].pc = "pidfile")
          /\ UNCHANGED <<pxProc, pxFault, pxPidfile, pxMet, pxLost, pxWrong>>
      BY <1>6 DEF ReadPidfile
    <3>2. \A d \in ProxyCalls : pxCall[d].pc # "pidfile"
      BY <3>1
    <3>3. pxPidfile = {p}
      BY <2>1 DEF ProxyTypes
    <3> QED  BY <3>1, <3>2, <3>3
  <2>3. \A q \in ProxyPids : ProxyTracked(q) => q = p
    BY <2>2
  <2> QED  BY <2>1, <2>2, <2>3
<1>7. ASSUME NEW c \in ProxyCalls, IsProxydProcess(c) PROVE ProxyClear'
  BY <1>7 DEF IsProxydProcess
<1>8. ASSUME NEW c \in ProxyCalls, Kill(c) \/ KillFails(c) PROVE ProxyClear'
  <2>1. /\ \A p \in ProxyPids : ProxyTracked(p)' => ProxyTracked(p) /\ p # pxCall[c].pid
        /\ \A p \in ProxyPids : LiveProxy(p)' => LiveProxy(p)
        /\ UNCHANGED <<pxPidfile, pxMet, pxWrong>>
        /\ pxCall' = [pxCall EXCEPT ![c].pc = "unlink"] /\ pxCall[c].pc = "kill"
    BY <1>8 DEF Kill, KillFails
  <2>2. \A p \in ProxyPids : ~ProxyTracked(p)'
    BY <2>1
  <2> HIDE DEF ProxyTracked, LiveProxy
  <2> QED  BY <2>1, <2>2
<1>9. ASSUME NEW c \in ProxyCalls, Unlink(c) PROVE ProxyClear'
  BY <1>9 DEF Unlink
<1>10. ASSUME NEW p \in ProxyPids, ProxydBind(p) \/ ProxydExits(p) \/ PidReused(p) PROVE ProxyClear'
  <2>1. /\ \A q \in ProxyPids : ProxyTracked(q)' => ProxyTracked(q)
        /\ \A q \in ProxyPids : LiveProxy(q)' => LiveProxy(q)
        /\ UNCHANGED <<pxFault, pxPidfile, pxCall, pxMet, pxWrong>>
    BY <1>10 DEF ProxydBind, ProxydExits, PidReused
  <2> HIDE DEF ProxyTracked, LiveProxy
  <2> QED  BY <2>1
<1>11. CASE UNCHANGED pxVars
  BY <1>11 DEF pxVars
<1> QED
  BY <1>1, <1>2, <1>3, <1>4, <1>5, <1>6, <1>7, <1>8, <1>9, <1>10, <1>11 DEF ProxyNext

(* At the start nothing runs. *)
LEMMA ProxyIInvInit == ProxyInit => ProxyIInv
<1> SUFFICES ASSUME ProxyInit PROVE ProxyIInv
  OBVIOUS
<1>1. /\ \A c \in ProxyCalls : pxCall[c].pc = "idle"
      /\ \A p \in ProxyPids : ~ProxyRunning(p)
  BY DEF ProxyInit, ProxyIdle, ProxyRunning
<1>2. ProxyTypes
  BY <1>1 DEF ProxyInit, ProxyTypes, ProxyIdle
<1>3. ProxyClear
  BY <1>1 DEF ProxyInit, ProxyClear, ProxyCallInv, ProxyNamedInv, ProxyAnswerInv, ProxyTracked
<1> QED  BY <1>2, <1>3 DEF ProxyIInv

(* Every step keeps what a start knows of its proxy. *)
LEMMA ProxyIInvStep == ProxyIInv /\ [ProxyNext]_pxVars => ProxyIInv'
<1> SUFFICES ASSUME ProxyIInv, [ProxyNext]_pxVars PROVE ProxyIInv'
  OBVIOUS
<1>1. pxMixed => pxMixed'
  BY DEF ProxyNext, pxVars, pxHistory, SpawnProxy, WritePidfile, WritePidfileFails, ReadyTimeout,
         WaitReady, ReadPidfile, IsProxydProcess, Kill, KillFails, Unlink, ProxydBind,
         ProxydExits, PidReused
<1> QED  BY <1>1, ProxyTypeStep, ProxyClearStep DEF ProxyIInv

(* What a rollback finds. *)
LEMMA ProxyFinds == ProxyIInv => ProxyRollbackFinds
BY DEF ProxyIInv, ProxyClear, ProxyNamedInv, ProxyAnswerInv, ProxyTracked, ProxyRollbackFinds, Quiet

(* For any calls, functions and pids: unless a start overlaps a start or a
   stop, the rollback finds every daemon that runs and that no failing write,
   failing kill or later start gave up; and while no start meets a living
   daemon, every start was answered by its own fault. *)
THEOREM RollbackFindsAlways == ProxySpec => []ProxyRollbackFinds
BY ProxyIInvInit, ProxyIInvStep, ProxyFinds, PTL DEF ProxySpec

-----------------------------------------------------------------------------
(* Accounts and logins.                                                      *)
AuthUsers == [made : BOOLEAN, pw : Nat, admin : BOOLEAN, must : BOOLEAN,
              disabled : BOOLEAN, resetPw : Nat, kept : BOOLEAN]
AuthCalls == [pc : {"login", "change"} \cup AdminOps, user : Accounts, given : Nat,
              raced : BOOLEAN]
AuthTypes ==
    /\ authUser \in [Accounts -> AuthUsers]
    /\ authCreds \subseteq [kind : {"session", "token"}, user : Accounts, pw : Nat,
                            raced : BOOLEAN]
    /\ authReq \in [Requests -> {NoRequest} \cup AuthCalls]

(* What a request knows of a user is so, unless it was overtaken. *)
AuthUserInv == \A u \in Accounts : authUser[u].resetPw <= authUser[u].pw /\ authUser[u].kept
AuthCredInv ==
    \A c \in authCreds : authUser[c.user].made /\ (c.raced \/ c.pw = authUser[c.user].pw)
AuthReqInv ==
    \A r \in Requests : authReq[r].pc \notin {"idle", "create"} =>
        /\ authUser[authReq[r].user].made
        /\ authReq[r].raced \/ authReq[r].given = authUser[authReq[r].user].pw
AuthIInv == AuthTypes /\ AuthUserInv /\ AuthCredInv /\ AuthReqInv

(* The attempts that hold a key's bucket, and what a bucket owes: while it has
   tokens nobody guesses beyond them, and once it has none only those who
   passed before do. *)
LoginHolders(k) == {a \in Attempts : loginTry[a] = {k}}
LoginBuckets == [tokens : 0 .. LoginBurst, failed : Nat, refills : Nat]
LoginTypes ==
    /\ DOMAIN loginBucket \subseteq LoginKeys
    /\ loginBucket \in [DOMAIN loginBucket -> LoginBuckets]
    /\ loginTry \in [Attempts -> {{}} \cup {{k} : k \in LoginKeys}]
LoginExtra == Cardinality(Attempts) - 1
LoginPaidFor(b, n) ==
    IF b.tokens > 0
      THEN b.failed + b.tokens <= LoginBurst + b.refills + LoginExtra * b.refills
      ELSE b.failed + n <= LoginBurst + b.refills + LoginExtra * (1 + b.refills)
LoginPaid(k) == LoginPaidFor(loginBucket[k], Cardinality(LoginHolders(k)))
LoginIInv ==
    /\ LoginTypes
    /\ DOMAIN loginBucket # {} => LoginExtra \in Nat
    /\ \A k \in DOMAIN loginBucket : LoginPaid(k)

(* Every kind of request has a name of its own. *)
LEMMA RequestKinds ==
    ASSUME AuthTypes, NEW r \in Requests
    PROVE  /\ authReq[r] \in {NoRequest} \cup AuthCalls
           /\ authReq[r].pc # "idle" => authReq[r] \in AuthCalls
           /\ authReq[r].pc = "idle" => authReq[r] = NoRequest
BY DEF AuthTypes, NoRequest, AuthCalls, AdminOps

(* A request ends, and nothing else is written. *)
LEMMA RequestEnds ==
    ASSUME AuthTypes, AuthReqInv, NEW r \in Requests, Done(r), UNCHANGED authUser
    PROVE  authReq' \in [Requests -> {NoRequest} \cup AuthCalls] /\ AuthReqInv'
BY DEF AuthTypes, AuthReqInv, Done, NoRequest

(* A request begins, and knows the user as it is. *)
LEMMA RequestBegins ==
    ASSUME AuthTypes, AuthReqInv, NEW r \in Requests, NEW req \in AuthCalls,
           authReq' = [authReq EXCEPT ![r] = req], UNCHANGED authUser,
           req.pc # "create" => authUser[req.user].made /\ req.given = authUser[req.user].pw
    PROVE  authReq' \in [Requests -> {NoRequest} \cup AuthCalls] /\ AuthReqInv'
BY DEF AuthTypes, AuthReqInv

(* A user has another password: the requests about the user are overtaken, and
   the credentials are gone. *)
LEMMA PasswordStep ==
    ASSUME AuthIInv, NEW r \in Requests, NEW u \in Accounts, NEW v \in AuthUsers,
           authReq[r].pc \notin {"idle", "create"}, authReq[r].user = u,
           authUser' = [authUser EXCEPT ![u] = v], DropCredentials(u), Overtake(r, u),
           v.made = authUser[u].made, v.resetPw <= v.pw, v.kept
    PROVE  AuthIInv'
<1>1. authUser' \in [Accounts -> AuthUsers] /\ authUser'[u] = v
      /\ \A w \in Accounts \ {u} : authUser'[w] = authUser[w]
  BY DEF AuthIInv, AuthTypes
<1>2. AuthUserInv'
  BY <1>1 DEF AuthIInv, AuthUserInv
<1>3. authCreds' \subseteq authCreds /\ AuthCredInv'
  BY <1>1 DEF AuthIInv, AuthTypes, AuthCredInv, DropCredentials
<1>4. ASSUME NEW q \in Requests
      PROVE  /\ authReq'[q] \in {NoRequest} \cup AuthCalls
             /\ authReq'[q].pc \notin {"idle", "create"} =>
                  /\ authUser'[authReq'[q].user].made
                  /\ authReq'[q].raced \/ authReq'[q].given = authUser'[authReq'[q].user].pw
  <2>1. authReq[q] \in {NoRequest} \cup AuthCalls
        /\ (authReq[q].pc # "idle" => authReq[q] \in AuthCalls)
    BY RequestKinds DEF AuthIInv
  <2>2. authUser[u].made
    BY DEF AuthIInv, AuthReqInv
  <2>3. CASE q = r
    BY <2>3 DEF Overtake, NoRequest
  <2>4. CASE q # r /\ authReq[q].pc # "idle" /\ authReq[q].user = u
    <3>1. authReq'[q] = [authReq[q] EXCEPT !.raced = TRUE]
      BY <2>4 DEF Overtake, Idle
    <3>2. authReq'[q] \in AuthCalls /\ authReq'[q].raced /\ authReq'[q].user = u
      BY <2>1, <2>4, <3>1 DEF AuthCalls
    <3> QED  BY <1>1, <2>2, <3>2
  <2>5. CASE q # r /\ ~(authReq[q].pc # "idle" /\ authReq[q].user = u)
    <3>1. authReq'[q] = authReq[q]
      BY <2>5 DEF Overtake, Idle
    <3>2. authReq[q].pc # "idle" => authReq[q].user \in Accounts \ {u}
      BY <2>1, <2>5 DEF AuthCalls
    <3> QED  BY <1>1, <2>1, <3>1, <3>2 DEF AuthIInv, AuthReqInv
  <2> QED  BY <2>3, <2>4, <2>5
<1>5. authReq' \in [Requests -> {NoRequest} \cup AuthCalls] /\ AuthReqInv'
  <2>1. authReq' = [q \in Requests |-> authReq'[q]]
    BY DEF Overtake
  <2> QED  BY <1>4, <2>1 DEF AuthReqInv
<1> QED  BY <1>1, <1>2, <1>3, <1>5 DEF AuthIInv, AuthTypes

(* Every step keeps what is known of passwords. *)
LEMMA AuthStep == ASSUME AuthIInv, [AuthNext]_authVars PROVE AuthIInv'
<1> USE DEF AuthIInv
<1>1. ASSUME NEW r \in Requests, NEW u \in Accounts, Login(r, u) PROVE AuthIInv'
  <2> DEFINE req == [pc |-> "login", user |-> u, given |-> authUser[u].pw, raced |-> FALSE]
  <2>1. /\ authReq' = [authReq EXCEPT ![r] = req] /\ UNCHANGED <<authUser, authCreds>>
        /\ authUser[u].made
    BY <1>1 DEF Login
  <2>2. req \in AuthCalls /\ req.user = u /\ req.given = authUser[u].pw
    BY DEF AuthTypes, AuthCalls, AuthUsers
  <2> HIDE DEF req
  <2>3. authReq' \in [Requests -> {NoRequest} \cup AuthCalls] /\ AuthReqInv'
    BY <2>1, <2>2, RequestBegins
  <2> QED  BY <2>1, <2>3 DEF AuthTypes, AuthUserInv, AuthCredInv
<1>2. ASSUME NEW r \in Requests, NEW kind \in {"session", "token"},
             authReq[r].pc \in {"login", "token"}, Done(r), UNCHANGED authUser,
             authCreds' = authCreds \cup {Credential(kind, authReq[r].user, authReq[r].given,
                                                     authReq[r].raced)}
      PROVE  AuthIInv'
  <2> DEFINE c == Credential(kind, authReq[r].user, authReq[r].given, authReq[r].raced)
  <2>1. authReq[r] \in AuthCalls
    BY <1>2, RequestKinds
  <2>2. /\ c \in [kind : {"session", "token"}, user : Accounts, pw : Nat, raced : BOOLEAN]
        /\ c.user = authReq[r].user /\ c.pw = authReq[r].given /\ c.raced = authReq[r].raced
    BY <2>1 DEF Credential, AuthCalls
  <2>3. authUser[c.user].made /\ (c.raced \/ c.pw = authUser[c.user].pw)
    BY <1>2, <2>2 DEF AuthReqInv
  <2> HIDE DEF c
  <2>4. authCreds' = authCreds \cup {c}
    BY <1>2 DEF c
  <2>5. authReq' \in [Requests -> {NoRequest} \cup AuthCalls] /\ AuthReqInv'
    BY <1>2, RequestEnds
  <2> QED  BY <1>2, <2>2, <2>3, <2>4, <2>5 DEF AuthTypes, AuthUserInv, AuthCredInv
<1>3. ASSUME NEW r \in Requests, NEW op \in AdminOps, NEW u \in Accounts, NEW caller \in Accounts,
             AdminRequest(r, op, u, caller)
      PROVE  AuthIInv'
  <2> DEFINE req == [pc |-> op, user |-> u, given |-> authUser[u].pw, raced |-> FALSE]
  <2>1. /\ authReq' = [authReq EXCEPT ![r] = req] /\ UNCHANGED <<authUser, authCreds>>
        /\ op = "create" <=> ~authUser[u].made
    BY <1>3 DEF AdminRequest
  <2>2. req \in AuthCalls /\ req.user = u /\ req.given = authUser[u].pw /\ req.pc = op
    BY DEF AuthTypes, AuthCalls, AuthUsers
  <2> HIDE DEF req
  <2>3. authReq' \in [Requests -> {NoRequest} \cup AuthCalls] /\ AuthReqInv'
    BY <2>1, <2>2, RequestBegins
  <2> QED  BY <2>1, <2>3 DEF AuthTypes, AuthUserInv, AuthCredInv
<1>4. ASSUME NEW r \in Requests, NEW c \in authCreds, ChangePassword(r, c) PROVE AuthIInv'
  <2> DEFINE req == [pc |-> "change", user |-> c.user, given |-> authUser[c.user].pw,
                     raced |-> FALSE]
  <2>1. /\ authReq' = [authReq EXCEPT ![r] = req] /\ UNCHANGED <<authUser, authCreds>>
        /\ c.user \in Accounts /\ authUser[c.user].made
    BY <1>4 DEF ChangePassword, AuthTypes, AuthCredInv
  <2>2. req \in AuthCalls /\ req.user = c.user /\ req.given = authUser[c.user].pw
    BY <2>1 DEF AuthTypes, AuthCalls, AuthUsers
  <2> HIDE DEF req
  <2>3. authReq' \in [Requests -> {NoRequest} \cup AuthCalls] /\ AuthReqInv'
    BY <2>1, <2>2, RequestBegins
  <2> QED  BY <2>1, <2>3 DEF AuthTypes, AuthUserInv, AuthCredInv
<1>5. ASSUME NEW r \in Requests, WriteChange(r) PROVE AuthIInv'
  <2> DEFINE u == authReq[r].user
             v == [authUser[u] EXCEPT !.pw = authUser[u].pw + 1, !.must = FALSE,
                     !.kept = authReq[r].raced \/ authReq[r].given >= authUser[u].resetPw]
  <2>1. /\ authReq[r].pc = "change" /\ authUser' = [authUser EXCEPT ![u] = v]
        /\ DropCredentials(u) /\ Overtake(r, u)
    BY <1>5 DEF WriteChange
  <2>2. authReq[r] \in AuthCalls /\ u \in Accounts
    BY <2>1, RequestKinds DEF AuthCalls
  <2>3. authUser[u] \in AuthUsers /\ authUser[u].pw \in Nat /\ authUser[u].resetPw \in Nat
    BY <2>2 DEF AuthTypes, AuthUsers
  <2>4. /\ authReq[r].raced \/ authReq[r].given >= authUser[u].resetPw
        /\ authUser[u].resetPw <= authUser[u].pw
    BY <2>1, <2>2, <2>3 DEF AuthReqInv, AuthUserInv
  <2>5. /\ v.made = authUser[u].made /\ v.resetPw <= v.pw /\ v.kept /\ v \in AuthUsers
    <3> DEFINE w == authUser[u]
               kept == authReq[r].raced \/ authReq[r].given >= authUser[u].resetPw
    <3>1. kept
      BY <2>4
    <3>2. v = [w EXCEPT !.pw = w.pw + 1, !.must = FALSE, !.kept = kept]
      OBVIOUS
    <3>3. kept = TRUE
      BY <3>1
    <3> HIDE DEF w, kept, v
    <3>4. w \in AuthUsers /\ w.pw \in Nat /\ w.resetPw \in Nat /\ w.resetPw <= w.pw /\ w.pw + 1 \in Nat
      BY <2>3, <2>4 DEF w
    <3>5. v \in AuthUsers /\ v.made = w.made /\ v.pw = w.pw + 1 /\ v.resetPw = w.resetPw /\ v.kept
      BY <3>2, <3>3, <3>4 DEF AuthUsers
    <3> QED  BY <3>4, <3>5 DEF w
  <2> HIDE DEF v
  <2> QED  BY <2>1, <2>2, <2>5, PasswordStep
<1>6. ASSUME NEW r \in Requests, WriteReset(r) PROVE AuthIInv'
  <2> DEFINE u == authReq[r].user
             v == [authUser[u] EXCEPT !.pw = authUser[u].pw + 1, !.must = TRUE,
                     !.resetPw = authUser[u].pw + 1]
  <2>1. /\ authReq[r].pc = "reset" /\ authUser' = [authUser EXCEPT ![u] = v]
        /\ DropCredentials(u) /\ Overtake(r, u)
    BY <1>6 DEF WriteReset
  <2>2. authReq[r] \in AuthCalls /\ u \in Accounts
    BY <2>1, RequestKinds DEF AuthCalls
  <2>3. authUser[u] \in AuthUsers /\ authUser[u].pw \in Nat /\ authUser[u].kept
    BY <2>2 DEF AuthTypes, AuthUsers, AuthUserInv
  <2>5. /\ v.made = authUser[u].made /\ v.resetPw <= v.pw /\ v.kept /\ v \in AuthUsers
    <3> DEFINE w == authUser[u]
    <3>1. v = [w EXCEPT !.pw = w.pw + 1, !.must = TRUE, !.resetPw = w.pw + 1]
      OBVIOUS
    <3> HIDE DEF w, v
    <3>2. w \in AuthUsers /\ w.pw \in Nat /\ w.kept /\ w.pw + 1 \in Nat
      BY <2>3 DEF w
    <3>3. v \in AuthUsers /\ v.made = w.made /\ v.pw = w.pw + 1 /\ v.resetPw = w.pw + 1 /\ v.kept
      BY <3>1, <3>2 DEF AuthUsers
    <3> QED  BY <3>2, <3>3 DEF w
  <2> HIDE DEF v
  <2> QED  BY <2>1, <2>2, <2>5, PasswordStep
<1>7. ASSUME NEW r \in Requests, NEW admin \in BOOLEAN, WriteCreate(r, admin) PROVE AuthIInv'
  <2> DEFINE u == authReq[r].user
             v == [NoUser EXCEPT !.made = TRUE, !.pw = 1, !.admin = admin, !.must = TRUE,
                     !.resetPw = 1]
  <2>1. /\ authReq[r].pc = "create" /\ ~authUser[u].made
        /\ authUser' = [authUser EXCEPT ![u] = v] /\ Done(r) /\ UNCHANGED authCreds
    BY <1>7 DEF WriteCreate
  <2>2. authReq[r] \in AuthCalls /\ u \in Accounts
    BY <2>1, RequestKinds DEF AuthCalls
  <2>3. v \in AuthUsers /\ v.resetPw <= v.pw /\ v.kept
    <3>1. NoUser \in AuthUsers /\ NoUser.kept
      BY DEF NoUser, AuthUsers
    <3>2. v \in AuthUsers
      BY <3>1 DEF AuthUsers
    <3>3. v.resetPw = 1 /\ v.pw = 1 /\ v.kept = NoUser.kept
      BY <3>1 DEF AuthUsers
    <3> QED  BY <3>1, <3>2, <3>3
  <2> HIDE DEF v
  <2>4. /\ authUser' \in [Accounts -> AuthUsers] /\ authUser'[u] = v
        /\ \A w \in Accounts \ {u} : authUser'[w] = authUser[w]
    BY <2>1, <2>2, <2>3 DEF AuthTypes
  <2>5. authReq' \in [Requests -> {NoRequest} \cup AuthCalls]
        /\ \A q \in Requests : authReq'[q] = IF q = r THEN NoRequest ELSE authReq[q]
    BY <2>1 DEF Done, AuthTypes
  <2>6. AuthReqInv'
    <3> SUFFICES ASSUME NEW q \in Requests, authReq'[q].pc \notin {"idle", "create"}
                 PROVE  /\ authUser'[authReq'[q].user].made
                        /\ authReq'[q].raced
                             \/ authReq'[q].given = authUser'[authReq'[q].user].pw
      BY DEF AuthReqInv
    <3>1. authReq'[q] = authReq[q]
      BY <2>5 DEF NoRequest
    <3>2. authReq[q] \in AuthCalls /\ authUser[authReq[q].user].made
      BY <3>1, RequestKinds DEF AuthReqInv
    <3>3. authReq[q].user \in Accounts \ {u}
      BY <2>1, <3>2 DEF AuthCalls
    <3> QED  BY <2>4, <3>1, <3>3 DEF AuthReqInv
  <2>7. AuthCredInv'
    <3>1. \A c \in authCreds : c.user \in Accounts \ {u}
      BY <2>1 DEF AuthTypes, AuthCredInv
    <3> QED  BY <2>1, <2>4, <3>1 DEF AuthCredInv
  <2>8. AuthUserInv'
    BY <2>3, <2>4 DEF AuthUserInv
  <2> QED  BY <2>1, <2>4, <2>5, <2>6, <2>7, <2>8 DEF AuthTypes
<1>8. ASSUME NEW r \in Requests, NEW flag \in BOOLEAN, WriteUser(r, flag) PROVE AuthIInv'
  <2> DEFINE u == authReq[r].user
  <2>1. /\ authReq[r].pc \in {"role", "disable"} /\ Done(r) /\ UNCHANGED authCreds
        /\ \/ authUser' = [authUser EXCEPT ![u] = [authUser[u] EXCEPT !.admin = flag]]
           \/ authUser' = [authUser EXCEPT ![u] = [authUser[u] EXCEPT !.disabled = flag]]
    BY <1>8 DEF WriteUser
  <2>2. authReq[r] \in AuthCalls /\ u \in Accounts
    BY <2>1, RequestKinds DEF AuthCalls
  <2>3. authUser[u] \in AuthUsers
    BY <2>2 DEF AuthTypes
  <2>4. \E v \in AuthUsers : /\ authUser' = [authUser EXCEPT ![u] = v]
                             /\ v.made = authUser[u].made /\ v.pw = authUser[u].pw
                             /\ v.resetPw = authUser[u].resetPw /\ v.kept = authUser[u].kept
    BY <2>1, <2>3 DEF AuthUsers
  <2>5. /\ authUser' \in [Accounts -> AuthUsers]
        /\ \A w \in Accounts : /\ authUser'[w].made = authUser[w].made
                               /\ authUser'[w].pw = authUser[w].pw
                               /\ authUser'[w].resetPw = authUser[w].resetPw
                               /\ authUser'[w].kept = authUser[w].kept
    BY <2>2, <2>4 DEF AuthTypes
  <2>6. authReq' \in [Requests -> {NoRequest} \cup AuthCalls]
        /\ \A q \in Requests : authReq'[q] = IF q = r THEN NoRequest ELSE authReq[q]
    BY <2>1 DEF Done, AuthTypes
  <2>7. AuthReqInv'
    <3> SUFFICES ASSUME NEW q \in Requests, authReq'[q].pc \notin {"idle", "create"}
                 PROVE  /\ authUser'[authReq'[q].user].made
                        /\ authReq'[q].raced
                             \/ authReq'[q].given = authUser'[authReq'[q].user].pw
      BY DEF AuthReqInv
    <3>1. authReq'[q] = authReq[q]
      BY <2>6 DEF NoRequest
    <3>2. authReq[q] \in AuthCalls /\ authReq[q].user \in Accounts
      BY <3>1, RequestKinds DEF AuthCalls
    <3> QED  BY <2>5, <3>1, <3>2 DEF AuthReqInv
  <2>8. AuthCredInv' /\ AuthUserInv'
    BY <2>1, <2>5 DEF AuthCredInv, AuthUserInv, AuthTypes
  <2> QED  BY <2>1, <2>5, <2>6, <2>7, <2>8 DEF AuthTypes
<1>9. ASSUME authCreds' \subseteq authCreds, UNCHANGED authUser,
             \/ UNCHANGED authReq
             \/ \E r \in Requests : Done(r)
      PROVE  AuthIInv'
  <2>1. authReq' \in [Requests -> {NoRequest} \cup AuthCalls] /\ AuthReqInv'
    <3>1. CASE UNCHANGED authReq
      BY <1>9, <3>1 DEF AuthTypes, AuthReqInv
    <3>2. CASE \E r \in Requests : Done(r)
      BY <1>9, <3>2, RequestEnds
    <3> QED  BY <1>9, <3>1, <3>2
  <2> QED  BY <1>9, <2>1 DEF AuthTypes, AuthUserInv, AuthCredInv
<1>10. ASSUME NEW r \in Requests, CreateSession(r) PROVE AuthIInv'
  BY <1>2, <1>10 DEF CreateSession
<1>11. ASSUME NEW r \in Requests, WriteToken(r) PROVE AuthIInv'
  BY <1>2, <1>11 DEF WriteToken
<1>12. ASSUME NEW r \in Requests,
              AuthRefused(r) \/ \E c \in authCreds : RevokeToken(r, c)
       PROVE  AuthIInv'
  BY <1>9, <1>12 DEF AuthRefused, RevokeToken
<1>13. CASE \E c \in authCreds : LogoutOrExpire(c)
  BY <1>9, <1>13 DEF LogoutOrExpire
<1>14. CASE UNCHANGED authVars
  BY <1>9, <1>14 DEF authVars
<1> QED  BY <1>1, <1>3, <1>4, <1>5, <1>6, <1>7, <1>8, <1>10, <1>11, <1>12, <1>13, <1>14 DEF AuthNext

(* The store starts without credentials and requests. *)
LEMMA AuthStart == AuthInit => AuthIInv
<1> SUFFICES ASSUME AuthInit PROVE AuthIInv
  OBVIOUS
<1>1. authCreds = {} /\ authReq = [r \in Requests |-> NoRequest]
  BY DEF AuthInit
<1>2. NoUser \in AuthUsers /\ NoUser.resetPw = 0 /\ NoUser.kept
  BY DEF NoUser, AuthUsers
<1>3. \A b \in BOOLEAN :
        /\ [NoUser EXCEPT !.made = TRUE, !.pw = 1, !.admin = b] \in AuthUsers
        /\ [NoUser EXCEPT !.made = TRUE, !.pw = 1, !.admin = b].resetPw = 0
        /\ [NoUser EXCEPT !.made = TRUE, !.pw = 1, !.admin = b].pw = 1
        /\ [NoUser EXCEPT !.made = TRUE, !.pw = 1, !.admin = b].kept
  <2> TAKE b \in BOOLEAN
  <2>1. NoUser \in AuthUsers
    BY <1>2
  <2> QED  BY <1>2, <2>1 DEF AuthUsers
<1>4. \/ authUser = [u \in Accounts |-> NoUser]
      \/ \E admin \in Accounts : authUser = [u \in Accounts |->
           [NoUser EXCEPT !.made = TRUE, !.pw = 1, !.admin = (u = admin)]]
  BY DEF AuthInit
<1>5. authUser \in [Accounts -> AuthUsers] /\ AuthUserInv
  <2>1. CASE authUser = [u \in Accounts |-> NoUser]
    BY <1>2, <2>1 DEF AuthUserInv, NoUser
  <2>2. ASSUME NEW admin \in Accounts, authUser = [u \in Accounts |->
                 [NoUser EXCEPT !.made = TRUE, !.pw = 1, !.admin = (u = admin)]]
        PROVE  authUser \in [Accounts -> AuthUsers] /\ AuthUserInv
    <3>1. ASSUME NEW u \in Accounts
          PROVE  authUser[u] \in AuthUsers /\ authUser[u].resetPw <= authUser[u].pw
                   /\ authUser[u].kept
      <4>1. PICK b \in BOOLEAN : b = (u = admin)
        OBVIOUS
      <4>2. authUser[u] = [NoUser EXCEPT !.made = TRUE, !.pw = 1, !.admin = b]
        BY <2>2, <4>1
      <4>3. /\ [NoUser EXCEPT !.made = TRUE, !.pw = 1, !.admin = b] \in AuthUsers
            /\ [NoUser EXCEPT !.made = TRUE, !.pw = 1, !.admin = b].resetPw = 0
            /\ [NoUser EXCEPT !.made = TRUE, !.pw = 1, !.admin = b].pw = 1
            /\ [NoUser EXCEPT !.made = TRUE, !.pw = 1, !.admin = b].kept
        BY <1>3
      <4> QED  BY <4>2, <4>3
    <3> QED  BY <2>2, <3>1 DEF AuthUserInv
  <2> QED  BY <1>4, <2>1, <2>2
<1> QED  BY <1>1, <1>5 DEF AuthIInv, AuthTypes, AuthCredInv, AuthReqInv, NoRequest

(* What the passwords of the store promise. *)
LEMMA AuthRuleHolds == AuthIInv => AuthPasswordsRule
BY DEF AuthIInv, AuthUserInv, AuthCredInv, AuthPasswordsRule, AuthCredentialCurrent,
       AuthResetStands


(* How many attempts hold a bucket. *)
LEMMA HoldersCounted ==
    ASSUME NEW a \in Attempts, NEW S \in SUBSET Attempts
    PROVE  /\ Cardinality(S) \in Nat /\ LoginExtra \in Nat
           /\ a \notin S => Cardinality(S) <= LoginExtra
           /\ a \in S => Cardinality(S) >= 1 /\ Cardinality(S \ {a}) = Cardinality(S) - 1
<1>1. IsFiniteSet(Attempts) /\ IsFiniteSet(S)
  BY LoginAssumption, FS_Subset
<1>2. Cardinality(Attempts) \in Nat /\ Cardinality(S) \in Nat
  BY <1>1, FS_CardinalityType
<1>3. IsFiniteSet(Attempts \ {a}) /\ Cardinality(Attempts \ {a}) = Cardinality(Attempts) - 1
  BY <1>1, FS_RemoveElement
<1>4. Cardinality(Attempts \ {a}) \in Nat
  BY <1>3, FS_CardinalityType
<1>5. ASSUME a \notin S PROVE Cardinality(S) <= LoginExtra
  <2>1. S \subseteq Attempts \ {a}
    BY <1>5
  <2> QED  BY <1>3, <2>1, FS_Subset DEF LoginExtra
<1>6. ASSUME a \in S PROVE Cardinality(S) >= 1 /\ Cardinality(S \ {a}) = Cardinality(S) - 1
  <2>1. IsFiniteSet(S \ {a}) /\ Cardinality(S \ {a}) = Cardinality(S) - 1
    BY <1>1, <1>6, FS_RemoveElement
  <2>2. Cardinality(S \ {a}) \in Nat
    BY <2>1, FS_CardinalityType
  <2> QED  BY <1>2, <2>1, <2>2
<1> QED  BY <1>2, <1>3, <1>4, <1>5, <1>6 DEF LoginExtra

(* A product with one more. *)
LEMMA OneMore ==
    ASSUME NEW e \in Nat, NEW r \in Nat
    PROVE  e * r \in Nat /\ e * (1 + r) = e * r + e /\ e * (r + 1) = e * r + e
           /\ e * (1 + (r + 1)) = e * (r + 1) + e
OBVIOUS

(* A bucket's fields, and a product that its clauses need. *)
LEMMA BucketFields ==
    ASSUME NEW b \in LoginBuckets, LoginExtra \in Nat
    PROVE  /\ b.tokens \in 0 .. LoginBurst /\ b.failed \in Nat /\ b.refills \in Nat
           /\ LoginExtra * b.refills \in Nat
           /\ LoginExtra * (1 + b.refills) = LoginExtra * b.refills + LoginExtra
           /\ LoginExtra * (b.refills + 1) = LoginExtra * b.refills + LoginExtra
<1>1. b.tokens \in 0 .. LoginBurst /\ b.failed \in Nat /\ b.refills \in Nat
  BY DEF LoginBuckets
<1> QED  BY <1>1, OneMore

(* A new bucket owes nothing. *)
LEMMA FreshPaid ==
    ASSUME NEW n
    PROVE  FreshBucket \in LoginBuckets /\ LoginPaidFor(FreshBucket, n)
<1>1. LoginExtra * 0 = 0
  <2>1. Cardinality(Attempts) \in Nat
    BY LoginAssumption, FS_CardinalityType
  <2> QED  BY <2>1 DEF LoginExtra
<1> QED  BY <1>1, LoginAssumption DEF FreshBucket, LoginBuckets, LoginPaidFor

(* What a bucket owes bounds its failures. *)
LEMMA PaidBounds ==
    ASSUME NEW b \in LoginBuckets, NEW n \in Nat, LoginExtra \in Nat, LoginPaidFor(b, n)
    PROVE  b.failed <= LoginBurst + b.refills + LoginExtra * (1 + b.refills)
BY BucketFields, LoginAssumption DEF LoginPaidFor

(* A failure is paid with a token, or by an attempt that had passed before. *)
LEMMA PenaltyPaid ==
    ASSUME NEW b \in LoginBuckets, NEW n \in Nat, NEW m \in Nat, LoginExtra \in Nat,
           LoginPaidFor(b, n), m <= LoginExtra, n = m + 1,
           NEW p, p = [b EXCEPT !.tokens = IF b.tokens > 0 THEN b.tokens - 1 ELSE 0,
                                !.failed = b.failed + 1]
    PROVE  p \in LoginBuckets /\ LoginPaidFor(p, m)
<1> USE LoginAssumption
<1> DEFINE t == IF b.tokens > 0 THEN b.tokens - 1 ELSE 0
<1>1. t \in 0 .. LoginBurst
  BY BucketFields
<1>2. p \in LoginBuckets /\ p.tokens = t /\ p.failed = b.failed + 1 /\ p.refills = b.refills
  <2> HIDE DEF t
  <2>1. p = [b EXCEPT !.tokens = t, !.failed = b.failed + 1]
    BY DEF t
  <2>2. b.failed + 1 \in Nat
    BY BucketFields
  <2> QED  BY <1>1, <2>1, <2>2 DEF LoginBuckets
<1>3. LoginPaidFor(p, m)
  BY <1>2, BucketFields DEF LoginPaidFor
<1> QED  BY <1>2, <1>3

(* A tick of the clock gives back a token, and lets the attempts in again. *)
LEMMA RefillPaid ==
    ASSUME NEW b \in LoginBuckets, NEW n \in Nat, LoginExtra \in Nat,
           LoginPaidFor(b, n), b.tokens < LoginBurst,
           NEW p, p = [b EXCEPT !.tokens = b.tokens + 1, !.refills = b.refills + 1]
    PROVE  p \in LoginBuckets /\ LoginPaidFor(p, n)
<1> USE LoginAssumption
<1>1. /\ p \in LoginBuckets /\ p.tokens = b.tokens + 1 /\ p.failed = b.failed
      /\ p.refills = b.refills + 1
  <2>1. b.tokens + 1 \in 0 .. LoginBurst /\ b.refills + 1 \in Nat
    BY BucketFields
  <2> QED  BY <2>1 DEF LoginBuckets
<1>2. LoginPaidFor(p, n)
  BY <1>1, BucketFields DEF LoginPaidFor
<1> QED  BY <1>1, <1>2

(* A key that is touched has a bucket, its own or a new one. *)
LEMMA TouchedBuckets ==
    ASSUME LoginTypes, NEW k \in LoginKeys
    PROVE  /\ DOMAIN Touched(k) \subseteq LoginKeys /\ k \in DOMAIN Touched(k)
           /\ Touched(k) \in [DOMAIN Touched(k) -> LoginBuckets]
           /\ \A l \in DOMAIN Touched(k) :
                \/ l \in DOMAIN loginBucket /\ Touched(k)[l] = loginBucket[l]
                \/ Touched(k)[l] = FreshBucket
<1> DEFINE kept == IF Cardinality(DOMAIN loginBucket) >= MaxBuckets
                     THEN NoBuckets ELSE loginBucket
<1>1. /\ DOMAIN kept \subseteq DOMAIN loginBucket
      /\ \A l \in DOMAIN kept : kept[l] = loginBucket[l]
  BY DEF NoBuckets
<1>2. Touched(k) = [l \in DOMAIN kept \cup {k} |-> IF l \in DOMAIN kept THEN kept[l] ELSE FreshBucket]
  BY DEF Touched
<1> HIDE DEF kept
<1>3. /\ DOMAIN Touched(k) = DOMAIN kept \cup {k}
      /\ \A l \in DOMAIN Touched(k) :
           Touched(k)[l] = IF l \in DOMAIN kept THEN kept[l] ELSE FreshBucket
      /\ Touched(k) = [l \in DOMAIN Touched(k) |-> Touched(k)[l]]
  BY <1>2
<1>4. \A l \in DOMAIN Touched(k) :
        /\ \/ l \in DOMAIN loginBucket /\ Touched(k)[l] = loginBucket[l]
           \/ Touched(k)[l] = FreshBucket
        /\ Touched(k)[l] \in LoginBuckets
  BY <1>1, <1>3, FreshPaid DEF LoginTypes
<1>5. DOMAIN Touched(k) \subseteq LoginKeys
  BY <1>1, <1>3 DEF LoginTypes
<1> QED  BY <1>3, <1>4, <1>5

(* Every step keeps what the buckets owe. *)
LEMMA LoginStep == ASSUME LoginIInv, [LoginNext]_loginVars PROVE LoginIInv'
<1> USE DEF LoginIInv
<1>1. ASSUME NEW a \in Attempts, NEW k \in LoginKeys, LoginThrottled(a, k) PROVE LoginIInv'
  <2> DEFINE T == Touched(k)
  <2>1. /\ DOMAIN T \subseteq LoginKeys /\ k \in DOMAIN T /\ T \in [DOMAIN T -> LoginBuckets]
        /\ \A l \in DOMAIN T : \/ l \in DOMAIN loginBucket /\ T[l] = loginBucket[l]
                               \/ T[l] = FreshBucket
    BY TouchedBuckets
  <2>2. /\ loginTry[a] = {} /\ loginBucket' = T
        /\ loginTry' = [loginTry EXCEPT ![a] = IF T[k].tokens < 1 THEN {} ELSE {k}]
    BY <1>1 DEF LoginThrottled
  <2> HIDE DEF T
  <2>3. LoginTypes'
    BY <2>1, <2>2 DEF LoginTypes
  <2>4. ASSUME NEW l \in DOMAIN T PROVE LoginPaidFor(T[l], Cardinality(LoginHolders(l)'))
    <3>1. CASE T[l] = FreshBucket
      BY <3>1, FreshPaid
    <3>2. CASE l \in DOMAIN loginBucket /\ T[l] = loginBucket[l]
      <4>1. LoginPaidFor(T[l], Cardinality(LoginHolders(l)))
        BY <3>2 DEF LoginPaid
      <4>2. T[l].tokens \in Nat
        BY <2>1, LoginAssumption DEF LoginBuckets
      <4>3. CASE T[l].tokens > 0
        BY <4>1, <4>3 DEF LoginPaidFor
      <4>4. CASE T[l].tokens < 1
        <5>1. LoginHolders(l)' = LoginHolders(l)
          BY <2>2, <4>4 DEF LoginHolders, LoginTypes
        <5> QED  BY <4>1, <5>1
      <4> QED  BY <4>2, <4>3, <4>4
    <3> QED  BY <2>1, <3>1, <3>2
  <2>5. \A l \in DOMAIN loginBucket' : LoginPaid(l)'
    BY <2>2, <2>4 DEF LoginPaid
  <2>6. (LoginExtra \in Nat)'
    BY HoldersCounted DEF LoginExtra
  <2> QED  BY <2>3, <2>5, <2>6
<1>2. ASSUME NEW a \in Attempts, NEW k \in LoginKeys, LoginPenalize(a, k) PROVE LoginIInv'
  <2> DEFINE T == Touched(k)
             p == [T[k] EXCEPT !.tokens = IF T[k].tokens > 0 THEN T[k].tokens - 1 ELSE 0,
                               !.failed = T[k].failed + 1]
  <2>1. /\ DOMAIN T \subseteq LoginKeys /\ k \in DOMAIN T /\ T \in [DOMAIN T -> LoginBuckets]
        /\ \A l \in DOMAIN T : \/ l \in DOMAIN loginBucket /\ T[l] = loginBucket[l]
                               \/ T[l] = FreshBucket
    BY TouchedBuckets
  <2>2. /\ k \in loginTry[a] /\ loginBucket' = [T EXCEPT ![k] = p]
        /\ loginTry' = [loginTry EXCEPT ![a] = {}]
    BY <1>2 DEF LoginPenalize
  <2> HIDE DEF T
  <2>3. loginTry[a] = {k} /\ a \in LoginHolders(k)
    BY <2>2 DEF LoginTypes, LoginHolders
  <2>4. /\ LoginHolders(k)' = LoginHolders(k) \ {a}
        /\ \A l \in LoginKeys \ {k} : LoginHolders(l)' = LoginHolders(l)
    BY <2>2, <2>3 DEF LoginTypes, LoginHolders
  <2>5. /\ LoginHolders(k) \in SUBSET Attempts /\ LoginHolders(k) \ {a} \in SUBSET Attempts
    BY DEF LoginHolders
  <2>6. /\ Cardinality(LoginHolders(k)) \in Nat /\ LoginExtra \in Nat
        /\ Cardinality(LoginHolders(k) \ {a}) \in Nat
        /\ Cardinality(LoginHolders(k) \ {a}) <= LoginExtra
        /\ Cardinality(LoginHolders(k)) = Cardinality(LoginHolders(k) \ {a}) + 1
    BY <2>3, <2>5, HoldersCounted
  <2>7. ASSUME NEW l \in DOMAIN T PROVE LoginPaidFor(T[l], Cardinality(LoginHolders(l)))
    BY <2>1, <2>7, FreshPaid DEF LoginPaid
  <2>8. p \in LoginBuckets /\ LoginPaidFor(p, Cardinality(LoginHolders(k)'))
    <3> DEFINE b == T[k]
    <3>1. b \in LoginBuckets /\ LoginPaidFor(b, Cardinality(LoginHolders(k)))
      BY <2>1, <2>7
    <3>2. p = [b EXCEPT !.tokens = IF b.tokens > 0 THEN b.tokens - 1 ELSE 0,
                        !.failed = b.failed + 1]
      OBVIOUS
    <3> HIDE DEF b, p
    <3> QED  BY <2>4, <2>6, <3>1, <3>2, PenaltyPaid
  <2> HIDE DEF p
  <2>9. LoginTypes'
    BY <2>1, <2>2, <2>8 DEF LoginTypes
  <2>10. \A l \in DOMAIN loginBucket' : LoginPaid(l)'
    <3> SUFFICES ASSUME NEW l \in DOMAIN T PROVE LoginPaid(l)'
      BY <2>1, <2>2
    <3>1. CASE l = k
      BY <2>1, <2>2, <2>8, <3>1 DEF LoginPaid
    <3>2. CASE l # k
      <4>1. loginBucket'[l] = T[l] /\ LoginHolders(l)' = LoginHolders(l)
        BY <2>1, <2>2, <2>4, <3>2
      <4> QED  BY <2>7, <4>1 DEF LoginPaid
    <3> QED  BY <3>1, <3>2
  <2>11. (LoginExtra \in Nat)'
    BY <2>6 DEF LoginExtra
  <2> QED  BY <2>9, <2>10, <2>11
<1>3. ASSUME NEW a \in Attempts, NEW k \in LoginKeys, LoginReset(a, k) PROVE LoginIInv'
  <2>1. /\ k \in loginTry[a] /\ DOMAIN loginBucket' = DOMAIN loginBucket \ {k}
        /\ loginBucket' = [l \in DOMAIN loginBucket' |-> loginBucket'[l]]
        /\ \A l \in DOMAIN loginBucket' : loginBucket'[l] = loginBucket[l]
        /\ loginTry' = [loginTry EXCEPT ![a] = {}]
    BY <1>3 DEF LoginReset
  <2>2. LoginTypes'
    BY <2>1 DEF LoginTypes
  <2>3. \A l \in LoginKeys \ {k} : LoginHolders(l)' = LoginHolders(l)
    BY <2>1 DEF LoginTypes, LoginHolders
  <2>4. \A l \in DOMAIN loginBucket' :
          l \in LoginKeys \ {k} /\ l \in DOMAIN loginBucket /\ loginBucket'[l] = loginBucket[l]
    BY <2>1 DEF LoginTypes
  <2>5. (LoginExtra \in Nat)'
    BY HoldersCounted DEF LoginExtra
  <2> QED  BY <2>2, <2>3, <2>4, <2>5 DEF LoginPaid
<1>4. CASE LoginRefill
  <2>1. /\ loginBucket' = [k \in DOMAIN loginBucket |->
             IF loginBucket[k].tokens < LoginBurst
               THEN [loginBucket[k] EXCEPT !.tokens = loginBucket[k].tokens + 1,
                                           !.refills = loginBucket[k].refills + 1]
               ELSE loginBucket[k]]
        /\ loginTry' = loginTry
    BY <1>4 DEF LoginRefill
  <2>2. \A l : LoginHolders(l)' = LoginHolders(l)
    BY <2>1 DEF LoginHolders
  <2>3. ASSUME NEW k \in DOMAIN loginBucket
        PROVE  /\ loginBucket'[k] \in LoginBuckets
               /\ LoginPaidFor(loginBucket'[k], Cardinality(LoginHolders(k)))
    <3> DEFINE b == loginBucket[k]
    <3>1. b \in LoginBuckets /\ LoginPaidFor(b, Cardinality(LoginHolders(k)))
      BY DEF LoginTypes, LoginPaid
    <3>2. CASE ~(b.tokens < LoginBurst)
      BY <2>1, <3>1, <3>2
    <3>3. CASE b.tokens < LoginBurst
      <4>1. loginBucket'[k] = [b EXCEPT !.tokens = b.tokens + 1, !.refills = b.refills + 1]
        BY <2>1, <3>3
      <4> HIDE DEF b
      <4>2. LoginExtra \in Nat /\ Cardinality(LoginHolders(k)) \in Nat
        BY LoginAssumption, FS_Subset, FS_CardinalityType DEF LoginHolders
      <4> QED  BY <3>1, <3>3, <4>1, <4>2, RefillPaid DEF b
    <3> QED  BY <3>2, <3>3
  <2>4. LoginTypes'
    BY <2>1, <2>3 DEF LoginTypes
  <2>5. (DOMAIN loginBucket # {} => LoginExtra \in Nat)'
    BY <2>1 DEF LoginExtra
  <2> QED  BY <2>1, <2>2, <2>3, <2>4, <2>5 DEF LoginPaid
<1>5. CASE UNCHANGED loginVars
  BY <1>5 DEF loginVars, LoginTypes, LoginPaid, LoginHolders, LoginExtra
<1> QED  BY <1>1, <1>2, <1>3, <1>4, <1>5 DEF LoginNext

(* At the start there is no bucket. *)
LEMMA LoginStart == LoginInit => LoginIInv
BY DEF LoginInit, LoginIInv, LoginTypes, NoBuckets

(* The guesses are bounded. *)
LEMMA LoginGuesses == LoginIInv => LoginGuessesBounded
<1> SUFFICES ASSUME LoginIInv, NEW k \in DOMAIN loginBucket
             PROVE  loginBucket[k].failed
                      <= LoginBurst + loginBucket[k].refills
                         + LoginExtra * (1 + loginBucket[k].refills)
  BY DEF LoginGuessesBounded, LoginExtra
<1>1. LoginExtra \in Nat /\ Cardinality(LoginHolders(k)) \in Nat
  BY LoginAssumption, FS_Subset, FS_CardinalityType DEF LoginIInv, LoginHolders
<1>2. loginBucket[k] \in LoginBuckets
  BY DEF LoginIInv, LoginTypes
<1>3. LoginPaidFor(loginBucket[k], Cardinality(LoginHolders(k)))
  BY DEF LoginIInv, LoginPaid
<1> QED  BY <1>1, <1>2, <1>3, PaidBounds

-----------------------------------------------------------------------------
(* The autopilot.                                                            *)
(* A tool call on its way, a verdict that waits in a call's queue, and the rows
   of the decision tables. *)
ApPcs == {"acquire", "count", "look", "gate", "persist", "start", "running", "answer", "regate"}
ApVerdicts == {"veto", "propose", "downgrade", "enact"}
ApItems == [verdict : ApVerdicts, hash : Nat]
ApChosen == {{}} \cup {{d} : d \in Decisions}
ApRead == {{}} \cup {{Policy(v[1], v[2], v[3])} : v \in Nat \X BOOLEAN \X BOOLEAN}
ApBusy == [pc : ApPcs, op : {"run", "respond", "run_experiment"}, runs : BOOLEAN,
           decision : ApChosen, concurrent : Int, queue : Seq(ApItems), policy : ApRead]
ApEnds == [pc : {"idle", "done", "unlock"}]
ApKindsOfEvent == Counted \cup {"none", "re_gate_refused", "run_completed", "run_failed"}
ApTypes ==
    /\ apCall \in [Calls -> ApBusy \cup ApEnds]
    /\ apInFlight \in Int
    /\ apDecision \in [Decisions -> [verdict : ApVerdicts \cup {"none"}, hash : Nat, today : BOOLEAN]]
    /\ apEvents \in [Decisions -> [last : ApKindsOfEvent, count : [Counted -> Nat]]]
    /\ \E version \in Nat, enabled, trusted \in BOOLEAN : apPolicy = Policy(version, enabled, trusted)

(* The calls that may act on a decision. *)
ApLive(c) == apCall[c].pc \in ApPcs
ApHolds(c, d) == ApLive(c) /\ d \in apCall[c].decision
ApStarts(d) == EventCount(d, "run_started")
ApStarters(d) == {c \in Calls : ApHolds(c, d) /\ apCall[c].pc = "start"
                                /\ apCall[c].op = "respond"}
ApAskers(d) == {c \in Calls : ApHolds(c, d) /\ apCall[c].pc = "regate"}

(* What a call is about: a pass its own enact verdict, a response what the gate
   left to a human, and no experiment a decision. *)
ApFits(x) ==
    /\ x.pc \in {"answer", "regate"} => x.op = "respond"
    /\ x.op # "run" => x.queue = <<>> /\ x.pc # "persist"
    /\ Len(x.queue) <= PassLimit
    /\ x.op = "run_experiment" => x.decision = {}
    /\ \A d \in x.decision :
         /\ \/ x.op = "run" /\ apDecision[d].verdict = "enact"
            \/ x.op = "respond" /\ apDecision[d].verdict \in {"propose", "downgrade"}
         /\ x.op = "run" /\ x.pc = "start" => ApStarts(d) = 0
         /\ x.pc = "running" => ApStarts(d) > 0
ApCallInv ==
    /\ \A c \in Calls : ApLive(c) => ApFits(apCall[c])
    /\ \A c, e \in Calls, d \in Decisions :
         ApHolds(c, d) /\ apCall[c].op = "run" /\ ApHolds(e, d) /\ apCall[e].op = "run" => c = e

(* A decision's events, and the calls that are about to add one. *)
ApEventInv ==
    \A d \in Decisions :
        /\ apDecision[d].verdict \in {"none", "veto"} => ApStarts(d) = 0
        /\ apDecision[d].verdict = "enact" => ApStarts(d) <= 1
        /\ apDecision[d].verdict # "enact" =>
             ApStarts(d) + Cardinality(ApStarters(d)) <= EventCount(d, "re_gate_passed")
        /\ EventCount(d, "re_gate_passed") + Cardinality(ApAskers(d))
             <= EventCount(d, "human_approved")

(* The enact verdicts that wait to be recorded, counted from the end of their
   queues, use up the budget too. *)
ApWaits(c, j) ==
    /\ ApLive(c) /\ j \in 1 .. Len(apCall[c].queue)
    /\ apCall[c].queue[Len(apCall[c].queue) + 1 - j].verdict = "enact"
ApPending == {x \in Calls \X (1 .. PassLimit) : ApWaits(x[1], x[2])}
ApRoom == DailyBudget - 1 + PassLimit * Cardinality(Calls)
ApBudgetInv == RunsToday + Cardinality(ApPending) <= ApRoom

ApIInv == ApTypes /\ ApCallInv /\ ApEventInv /\ ApBudgetInv

(* A call is on its way with all of its fields, or at its end. *)
LEMMA ApKinds ==
    ASSUME ApTypes, NEW c \in Calls
    PROVE  /\ ApLive(c) => apCall[c] \in ApBusy
           /\ ~ApLive(c) => apCall[c] \in ApEnds
           /\ apCall[c] \in ApBusy => apCall[c].queue \in Seq(ApItems) /\ apCall[c].decision \in ApChosen
<1>1. apCall[c] \in ApBusy \/ apCall[c] \in ApEnds
  BY DEF ApTypes
<1>2. apCall[c] \in ApBusy => apCall[c].pc \in ApPcs
  BY DEF ApBusy
<1>3. apCall[c] \in ApEnds => apCall[c].pc \notin ApPcs
  BY DEF ApEnds, ApPcs
<1> QED  BY <1>1, <1>2, <1>3 DEF ApLive, ApBusy

(* What the gate answers, and that it enacts nothing over the budget. *)
LEMMA ApGateEnacts ==
    ASSUME NEW p, NEW x, NEW a
    PROVE  /\ Evaluate(p, x, a) \in ApVerdicts
           /\ Evaluate(p, x, a) = "enact" => a.runsToday < p.maxRunsPerDay
<1> DEFINE passed == RulesEvaluated(p, x, a)
<1>1. Evaluate(p, x, a) = VerdictOf(passed)
  BY DEF Evaluate
<1>2. "daily_budget" \in ToSet(VetoOrder)
  <2>1. VetoOrder[5] = "daily_budget" /\ 5 \in DOMAIN VetoOrder
    BY DEF VetoOrder
  <2> QED  BY <2>1 DEF ToSet
<1>3. passed["daily_budget"] = (a.runsToday < p.maxRunsPerDay)
  <2>1. "daily_budget" \in GateRules
    BY <1>2 DEF GateRules
  <2> QED  BY <2>1 DEF RulesEvaluated
<1> HIDE DEF passed
<1>4. VerdictOf(passed) \in ApVerdicts
  BY DEF VerdictOf, ApVerdicts
<1>5. VerdictOf(passed) = "enact" => passed["daily_budget"]
  BY <1>2 DEF VerdictOf
<1> QED  BY <1>1, <1>3, <1>4, <1>5

(* How many calls there are, and sets of them. *)
LEMMA ApCallsCounted ==
    ASSUME NEW S \in SUBSET Calls, NEW T \in SUBSET Calls
    PROVE  /\ Cardinality(S) \in Nat /\ Cardinality(T) \in Nat
           /\ S \subseteq T => Cardinality(S) <= Cardinality(T)
           /\ \A c \in Calls : T \subseteq S \cup {c} => Cardinality(T) <= Cardinality(S) + 1
           /\ \A c \in S : T \subseteq S \ {c} => Cardinality(T) + 1 <= Cardinality(S)
           /\ Cardinality({}) = 0
<1>1. IsFiniteSet(S) /\ IsFiniteSet(T)
  BY ApAssumption, FS_Subset
<1>2. Cardinality(S) \in Nat /\ Cardinality(T) \in Nat
  BY <1>1, FS_CardinalityType
<1>3. S \subseteq T => Cardinality(S) <= Cardinality(T)
  BY <1>1, FS_Subset
<1>4. ASSUME NEW c \in Calls, T \subseteq S \cup {c} PROVE Cardinality(T) <= Cardinality(S) + 1
  <2>1. /\ IsFiniteSet(S \cup {c})
        /\ Cardinality(S \cup {c}) = IF c \in S THEN Cardinality(S) ELSE Cardinality(S) + 1
    BY <1>1, FS_AddElement
  <2>2. Cardinality(T) <= Cardinality(S \cup {c})
    BY <1>4, <2>1, FS_Subset
  <2> QED  BY <1>2, <2>1, <2>2
<1>5. ASSUME NEW c \in S, T \subseteq S \ {c} PROVE Cardinality(T) + 1 <= Cardinality(S)
  <2>1. IsFiniteSet(S \ {c}) /\ Cardinality(S \ {c}) = Cardinality(S) - 1
    BY <1>1, FS_RemoveElement
  <2>2. Cardinality(T) <= Cardinality(S \ {c})
    BY <1>5, <2>1, FS_Subset
  <2> QED  BY <1>2, <2>1, <2>2
<1> QED  BY <1>2, <1>3, <1>4, <1>5, FS_EmptySet

(* One call moves; decisions keep the verdict they have, and the start of a run
   is recorded by the call that was about to. *)
ApMoves(c, x) ==
    /\ apCall' = [apCall EXCEPT ![c] = x]
    /\ \A d \in Decisions : apDecision[d].verdict # "none" =>
         apDecision'[d].verdict = apDecision[d].verdict

(* Such a move keeps what every call is about. *)
LEMMA ApCallFrame ==
    ASSUME ApTypes, ApTypes', ApCallInv, NEW c \in Calls, NEW x, ApMoves(c, x),
           \A d \in Decisions :
             \/ ApStarts(d)' = ApStarts(d)
             \/ ApStarts(d)' = ApStarts(d) + 1 /\ ApHolds(c, d) /\ apCall[c].pc = "start",
           ApLive(c)' => ApFits(apCall[c])',
           \A d \in Decisions : ApHolds(c, d)' /\ x.op = "run" =>
             (ApHolds(c, d) /\ apCall[c].op = "run") \/ apDecision[d].verdict = "none"
    PROVE  ApCallInv'
<1>1. apCall'[c] = x /\ \A e \in Calls \ {c} : apCall'[e] = apCall[e]
  BY DEF ApTypes, ApMoves
<1>2. \A e \in Calls : ApLive(e) => apCall[e].decision \subseteq Decisions
  BY ApKinds DEF ApChosen
<1>3. \A d \in Decisions : ApStarts(d) \in Nat /\ ApStarts(d)' \in Nat
  BY DEF ApTypes, ApStarts, EventCount, Counted
<1>4. ASSUME NEW e \in Calls, ApLive(e)' PROVE ApFits(apCall[e])'
  <2>1. CASE e = c
    BY <1>4, <2>1
  <2>2. CASE e # c
    <3>1. apCall'[e] = apCall[e] /\ ApLive(e) /\ ApFits(apCall[e])
      BY <1>1, <1>4, <2>2 DEF ApLive, ApCallInv
    <3>2. ASSUME NEW d \in apCall[e].decision
          PROVE  /\ d \in Decisions /\ apDecision'[d].verdict = apDecision[d].verdict
                 /\ ApStarts(d) > 0 => ApStarts(d)' > 0
                 /\ apCall[e].op = "run" /\ apCall[e].pc = "start" => ApStarts(d)' = ApStarts(d)
      <4>1. d \in Decisions
        BY <1>2, <3>1
      <4>2. apDecision[d].verdict # "none"
        BY <3>1 DEF ApFits
      <4>3. apCall[e].op = "run" /\ ApHolds(c, d) => FALSE
        <5> SUFFICES ASSUME apCall[e].op = "run", ApHolds(c, d) PROVE FALSE
          OBVIOUS
        <5>1. apDecision[d].verdict = "enact" /\ ApHolds(e, d)
          BY <3>1 DEF ApFits, ApHolds
        <5>2. apCall[c].op = "run"
          BY <5>1 DEF ApHolds, ApCallInv, ApFits
        <5> QED  BY <2>2, <4>1, <5>1, <5>2 DEF ApCallInv
      <4> QED  BY <1>3, <4>1, <4>2, <4>3 DEF ApMoves
    <3> QED  BY <3>1, <3>2 DEF ApFits
  <2> QED  BY <2>1, <2>2
<1>5. ASSUME NEW e \in Calls, NEW f \in Calls, NEW d \in Decisions,
             ApHolds(e, d)', apCall'[e].op = "run", ApHolds(f, d)', apCall'[f].op = "run"
      PROVE  e = f
  <2>1. ASSUME NEW g \in Calls, g # c, ApHolds(g, d)', apCall'[g].op = "run"
        PROVE  ApHolds(g, d) /\ apCall[g].op = "run" /\ apDecision[d].verdict # "none"
    <3>1. ApHolds(g, d) /\ apCall[g].op = "run"
      BY <1>1, <2>1 DEF ApHolds, ApLive
    <3> QED  BY <3>1 DEF ApCallInv, ApFits, ApHolds
  <2>2. CASE e # c /\ f # c
    BY <1>5, <2>1, <2>2 DEF ApCallInv
  <2>3. CASE e = c /\ f # c
    BY <1>1, <1>5, <2>1, <2>3 DEF ApCallInv
  <2>4. CASE e # c /\ f = c
    BY <1>1, <1>5, <2>1, <2>4 DEF ApCallInv
  <2> QED  BY <2>2, <2>3, <2>4
<1> QED  BY <1>4, <1>5 DEF ApCallInv

(* No step but those that say so makes a call about to start, or to ask again. *)
LEMMA ApEventFrame ==
    ASSUME ApTypes, ApTypes', ApEventInv,
           \A d \in Decisions :
             /\ ApStarters(d)' \subseteq ApStarters(d) /\ ApAskers(d)' \subseteq ApAskers(d)
             /\ apDecision[d].verdict # "none" => apDecision'[d].verdict = apDecision[d].verdict
             /\ ApStarts(d)' = ApStarts(d)
             /\ EventCount(d, "re_gate_passed")' = EventCount(d, "re_gate_passed")
             /\ EventCount(d, "human_approved")' = EventCount(d, "human_approved")
    PROVE  ApEventInv'
<1> SUFFICES ASSUME NEW d \in Decisions PROVE ApEventInv!(d)'
  BY DEF ApEventInv
<1>1. /\ ApStarts(d) \in Nat /\ EventCount(d, "re_gate_passed") \in Nat
      /\ EventCount(d, "human_approved") \in Nat
  BY DEF ApTypes, ApStarts, EventCount, Counted
<1>2. /\ ApStarters(d) \subseteq Calls /\ ApAskers(d) \subseteq Calls
  BY DEF ApStarters, ApAskers
<1>3. /\ Cardinality(ApStarters(d)) \in Nat /\ Cardinality(ApStarters(d)') \in Nat
      /\ Cardinality(ApAskers(d)) \in Nat /\ Cardinality(ApAskers(d)') \in Nat
      /\ Cardinality(ApStarters(d)') <= Cardinality(ApStarters(d))
      /\ Cardinality(ApAskers(d)') <= Cardinality(ApAskers(d))
  BY <1>2, ApCallsCounted
<1> QED  BY <1>1, <1>3 DEF ApEventInv

(* The verdicts that wait are finitely many. *)
LEMMA ApPendingCounted ==
    ASSUME NEW S \in SUBSET (Calls \X (1 .. PassLimit)), NEW T \in SUBSET (Calls \X (1 .. PassLimit))
    PROVE  /\ Cardinality(S) \in Nat /\ Cardinality(T) \in Nat
           /\ S \subseteq T => Cardinality(S) <= Cardinality(T)
           /\ \A x \in S : T \subseteq S \ {x} => Cardinality(T) + 1 <= Cardinality(S)
           /\ ApRoom \in Nat /\ \A n \in 0 .. DailyBudget - 1 : n + Cardinality(S) <= ApRoom
<1>1. /\ IsFiniteSet(1 .. PassLimit) /\ Cardinality(1 .. PassLimit) = PassLimit
      /\ PassLimit \in Nat /\ IsFiniteSet(Calls) /\ Cardinality(Calls) \in Nat
  <2>1. PassLimit \in Nat \ {0} /\ IsFiniteSet(Calls)
    BY ApAssumption
  <2>2. /\ IsFiniteSet(1 .. PassLimit)
        /\ Cardinality(1 .. PassLimit) = IF 1 > PassLimit THEN 0 ELSE PassLimit - 1 + 1
    BY <2>1, FS_Interval
  <2> QED  BY <2>1, <2>2, FS_CardinalityType
<1>2. /\ IsFiniteSet(Calls \X (1 .. PassLimit))
      /\ Cardinality(Calls \X (1 .. PassLimit)) = Cardinality(Calls) * PassLimit
  BY <1>1, FS_Product
<1>3. Cardinality(Calls) * PassLimit = PassLimit * Cardinality(Calls) /\ PassLimit * Cardinality(Calls) \in Nat
  BY <1>1
<1>4. IsFiniteSet(S) /\ IsFiniteSet(T) /\ Cardinality(S) <= Cardinality(Calls \X (1 .. PassLimit))
  BY <1>2, FS_Subset
<1>5. Cardinality(S) \in Nat /\ Cardinality(T) \in Nat
  BY <1>4, FS_CardinalityType
<1>6. S \subseteq T => Cardinality(S) <= Cardinality(T)
  BY <1>4, FS_Subset
<1>7. ASSUME NEW x \in S, T \subseteq S \ {x} PROVE Cardinality(T) + 1 <= Cardinality(S)
  <2>1. IsFiniteSet(S \ {x}) /\ Cardinality(S \ {x}) = Cardinality(S) - 1
    BY <1>4, FS_RemoveElement
  <2>2. Cardinality(T) <= Cardinality(S \ {x})
    BY <1>7, <2>1, FS_Subset
  <2> QED  BY <1>5, <2>1, <2>2
<1>8. ApRoom \in Nat /\ \A n \in 0 .. DailyBudget - 1 : n + Cardinality(S) <= ApRoom
  <2>1. PICK p \in Nat : p = PassLimit * Cardinality(Calls)
    BY <1>3
  <2>2. Cardinality(S) <= p
    BY <1>2, <1>3, <1>4, <2>1
  <2>3. ApRoom = DailyBudget - 1 + p
    BY <2>1 DEF ApRoom
  <2>4. DailyBudget \in Nat \ {0}
    BY ApAssumption
  <2> HIDE <2>1
  <2> QED  BY <1>5, <2>2, <2>3, <2>4
<1> QED  BY <1>5, <1>6, <1>7, <1>8

(* Decisions are finitely many. *)
LEMMA ApRunsCounted ==
    ASSUME NEW S \in SUBSET Decisions, NEW T \in SUBSET Decisions
    PROVE  /\ Cardinality(S) \in Nat /\ Cardinality(T) \in Nat
           /\ S \subseteq T => Cardinality(S) <= Cardinality(T)
           /\ \A d \in Decisions : T \subseteq S \cup {d} => Cardinality(T) <= Cardinality(S) + 1
<1>1. IsFiniteSet(Decisions)
  BY ApAssumption, FS_Interval DEF Decisions
<1>2. IsFiniteSet(S) /\ IsFiniteSet(T)
  BY <1>1, FS_Subset
<1>3. Cardinality(S) \in Nat /\ Cardinality(T) \in Nat
  BY <1>2, FS_CardinalityType
<1>4. S \subseteq T => Cardinality(S) <= Cardinality(T)
  BY <1>2, FS_Subset
<1>5. ASSUME NEW d \in Decisions, T \subseteq S \cup {d} PROVE Cardinality(T) <= Cardinality(S) + 1
  <2>1. /\ IsFiniteSet(S \cup {d})
        /\ Cardinality(S \cup {d}) = IF d \in S THEN Cardinality(S) ELSE Cardinality(S) + 1
    BY <1>2, FS_AddElement
  <2>2. Cardinality(T) <= Cardinality(S \cup {d})
    BY <1>5, <2>1, FS_Subset
  <2> QED  BY <1>3, <2>1, <2>2
<1> QED  BY <1>3, <1>4, <1>5

(* An event is appended to one decision, and counted if its kind is. *)
LEMMA ApEventAppended ==
    ASSUME ApTypes, NEW d \in Decisions, NEW kind \in ApKindsOfEvent, AppendEvent(d, kind)
    PROVE  /\ apEvents' \in [Decisions -> [last : ApKindsOfEvent, count : [Counted -> Nat]]]
           /\ \A e \in Decisions, k \in Counted :
                EventCount(e, k)' = IF e = d /\ k = kind THEN EventCount(e, k) + 1 ELSE EventCount(e, k)
<1> DEFINE counts == [k \in Counted |-> IF k = kind THEN apEvents[d].count[k] + 1
                                                    ELSE apEvents[d].count[k]]
           row == [apEvents[d] EXCEPT !.last = kind, !.count = counts]
<1>1. apEvents[d] \in [last : ApKindsOfEvent, count : [Counted -> Nat]]
  BY DEF ApTypes
<1>2. apEvents[d].count \in [Counted -> Nat] /\ counts \in [Counted -> Nat]
  BY <1>1
<1>3. apEvents' = [apEvents EXCEPT ![d] = row]
  BY DEF AppendEvent, ApTypes
<1> HIDE DEF counts
<1>4. row \in [last : ApKindsOfEvent, count : [Counted -> Nat]] /\ row.count = counts
  BY <1>1, <1>2
<1> HIDE DEF row
<1>5. /\ apEvents' \in [Decisions -> [last : ApKindsOfEvent, count : [Counted -> Nat]]]
      /\ apEvents'[d] = row /\ \A e \in Decisions \ {d} : apEvents'[e] = apEvents[e]
  BY <1>3, <1>4 DEF ApTypes
<1> QED  BY <1>4, <1>5 DEF EventCount, counts

(* A call that goes on keeps what it is about; one that is done keeps nothing. *)
LEMMA ApCallGoes ==
    ASSUME ApTypes, NEW c \in Calls, NEW pc \in ApPcs
    PROVE  /\ CallAt(c, "done") \in ApEnds
           /\ ApLive(c) => /\ CallAt(c, pc) = [apCall[c] EXCEPT !.pc = pc]
                           /\ CallAt(c, pc) \in ApBusy /\ CallAt(c, pc).pc = pc
                           /\ CallAt(c, pc).op = apCall[c].op
                           /\ CallAt(c, pc).runs = apCall[c].runs
                           /\ CallAt(c, pc).decision = apCall[c].decision
                           /\ CallAt(c, pc).queue = apCall[c].queue
<1>1. CallAt(c, "done") \in ApEnds
  BY DEF CallAt, ApEnds, NoCall
<1>2. pc # "done"
  BY DEF ApPcs
<1>3. ApLive(c) => apCall[c] \in ApBusy
  BY ApKinds
<1> QED  BY <1>1, <1>2, <1>3 DEF CallAt, ApBusy

(* The sum that the budget bounds grows only where a verdict is recorded or
   gated. *)
LEMMA ApBudgetRest ==
    ASSUME ApBudgetInv, RunsToday' <= RunsToday, RunsToday' \in Nat,
           \A e \in Calls, j \in 1 .. PassLimit : ApWaits(e, j)' => ApWaits(e, j)
    PROVE  ApBudgetInv'
<1>1. ApPending' \subseteq ApPending
  BY DEF ApPending
<1>2. /\ Cardinality(ApPending') <= Cardinality(ApPending) /\ Cardinality(ApPending') \in Nat
      /\ Cardinality(ApPending) \in Nat /\ ApRoom \in Nat
  BY <1>1, ApPendingCounted DEF ApPending
<1>3. RunsToday \in Nat
  BY ApRunsCounted DEF RunsToday, EnactDecisions
<1>4. ApRoom' = ApRoom
  BY DEF ApRoom
<1> QED  BY <1>2, <1>3, <1>4 DEF ApBudgetInv

(* A step of one call that adds no item to its queue keeps the budget. *)
LEMMA ApBudgetFrame ==
    ASSUME ApIInv, NEW c \in Calls, NEW x, apCall' = [apCall EXCEPT ![c] = x],
           RunsToday' = RunsToday,
           \A j \in 1 .. PassLimit : ApWaits(c, j)' => ApWaits(c, j)
    PROVE  ApBudgetInv'
<1>1. \A e \in Calls \ {c} : apCall'[e] = apCall[e]
  BY DEF ApIInv, ApTypes
<1>2. ASSUME NEW e \in Calls, NEW j \in 1 .. PassLimit, ApWaits(e, j)' PROVE ApWaits(e, j)
  BY <1>1, <1>2 DEF ApWaits, ApLive
<1>3. RunsToday \in Nat
  BY ApRunsCounted DEF RunsToday, EnactDecisions
<1> QED  BY <1>2, <1>3, ApBudgetRest DEF ApIInv

(* A step of one call that neither records a decision or an event that counts,
   nor brings the call to where it may add one. *)
ApSame ==
    /\ apDecision' = apDecision
    /\ \A d \in Decisions :
         /\ ApStarts(d)' = ApStarts(d)
         /\ EventCount(d, "re_gate_passed")' = EventCount(d, "re_gate_passed")
         /\ EventCount(d, "human_approved")' = EventCount(d, "human_approved")
ApGoesOn(c, x) ==
    /\ x \in ApBusy /\ x.pc \notin {"start", "regate"} /\ ApFits(x)
    /\ \A d \in x.decision : x.op = "run" => ApHolds(c, d) /\ apCall[c].op = "run"
    /\ x.queue = <<>> \/ (ApLive(c) /\ x.queue = apCall[c].queue)

(* Such a step keeps the invariant. *)
LEMMA ApQuietStep ==
    ASSUME ApIInv, ApTypes', ApSame, NEW c \in Calls, NEW x, apCall' = [apCall EXCEPT ![c] = x],
           x \in ApEnds \/ ApGoesOn(c, x)
    PROVE  ApIInv'
<1>1. apCall'[c] = x /\ \A e \in Calls \ {c} : apCall'[e] = apCall[e]
  BY DEF ApIInv, ApTypes
<1>2. x \in ApEnds => x.pc \notin ApPcs
  BY DEF ApEnds, ApPcs
<1>3. x \in ApBusy /\ ApFits(x) => ApFits(x)'
  <2> SUFFICES ASSUME x \in ApBusy, ApFits(x) PROVE ApFits(x)'
    OBVIOUS
  <2>1. ASSUME NEW d \in x.decision
        PROVE  apDecision'[d] = apDecision[d] /\ ApStarts(d)' = ApStarts(d)
    BY DEF ApSame, ApBusy, ApChosen
  <2> QED  BY <2>1 DEF ApFits
<1>4. ApCallInv'
  <2>1. ApMoves(c, x)
    BY DEF ApMoves, ApSame
  <2>2. ApLive(c)' => ApFits(apCall[c])'
    BY <1>1, <1>2, <1>3 DEF ApLive, ApGoesOn, ApFits
  <2>3. \A d \in Decisions : ApHolds(c, d)' /\ x.op = "run" => ApHolds(c, d) /\ apCall[c].op = "run"
    BY <1>1, <1>2 DEF ApHolds, ApLive, ApGoesOn
  <2> QED  BY <2>1, <2>2, <2>3, ApCallFrame DEF ApIInv, ApSame
<1>5. ApEventInv'
  <2>1. ASSUME NEW d \in Decisions
        PROVE  ApStarters(d)' \subseteq ApStarters(d) /\ ApAskers(d)' \subseteq ApAskers(d)
    BY <1>1, <1>2 DEF ApStarters, ApAskers, ApHolds, ApLive, ApGoesOn
  <2> QED  BY <2>1, ApEventFrame DEF ApIInv, ApSame
<1>6. ApBudgetInv'
  <2>1. RunsToday' = RunsToday
    BY DEF RunsToday, EnactDecisions, ApSame
  <2>2. ASSUME NEW j \in 1 .. PassLimit, ApWaits(c, j)' PROVE ApWaits(c, j)
    <3>1. ApGoesOn(c, x) /\ j \in 1 .. Len(x.queue)
      BY <1>1, <1>2, <2>2 DEF ApWaits, ApLive
    <3>2. x.queue # <<>>
      <4> SUFFICES ASSUME x.queue = <<>> PROVE FALSE
        OBVIOUS
      <4> QED  BY <3>1
    <3> QED  BY <1>1, <2>2, <3>1, <3>2 DEF ApWaits, ApGoesOn
  <2> QED  BY <2>1, <2>2, ApBudgetFrame
<1> QED  BY <1>4, <1>5, <1>6 DEF ApIInv

(* A step of one call keeps the types. *)
LEMMA ApTypesFrame ==
    ASSUME ApTypes, NEW c \in Calls, NEW x \in ApBusy \cup ApEnds,
           apCall' = [apCall EXCEPT ![c] = x], apInFlight' \in Int, apPolicy' = apPolicy,
           apDecision' \in
             [Decisions -> [verdict : ApVerdicts \cup {"none"}, hash : Nat, today : BOOLEAN]],
           apEvents' \in [Decisions -> [last : ApKindsOfEvent, count : [Counted -> Nat]]]
    PROVE  ApTypes'
<1>1. apCall' \in [Calls -> ApBusy \cup ApEnds]
  BY DEF ApTypes
<1>2. \E version \in Nat, enabled, trusted \in BOOLEAN : apPolicy' = Policy(version, enabled, trusted)
  BY DEF ApTypes
<1> QED  BY <1>1, <1>2 DEF ApTypes

(* A step that changes no decision and no event keeps it too. *)
LEMMA ApSilentStep ==
    ASSUME ApIInv, NEW c \in Calls, NEW x, apCall' = [apCall EXCEPT ![c] = x],
           x \in ApEnds \/ ApGoesOn(c, x), apInFlight' \in Int,
           UNCHANGED <<apPolicy, apDecision, apEvents>>
    PROVE  ApIInv'
<1>1. ApSame
  BY DEF ApSame, ApStarts, EventCount
<1>2. ApTypes'
  <2>1. x \in ApBusy \cup ApEnds
    BY DEF ApGoesOn
  <2>2. /\ apDecision' \in
             [Decisions -> [verdict : ApVerdicts \cup {"none"}, hash : Nat, today : BOOLEAN]]
        /\ apEvents' \in [Decisions -> [last : ApKindsOfEvent, count : [Counted -> Nat]]]
    BY DEF ApIInv, ApTypes
  <2> QED  BY <2>1, <2>2, ApTypesFrame DEF ApIInv
<1> QED  BY <1>1, <1>2, ApQuietStep

(* A call that waits for the ledger, or looks at it, goes on. *)
LEMMA ApGoing ==
    ASSUME ApIInv, NEW c \in Calls, ApLive(c), apCall[c].pc \notin {"start", "regate"},
           NEW pc \in ApPcs \ {"start", "regate", "persist"}, NEW n \in Int, NEW x,
           x = [apCall[c] EXCEPT !.pc = pc, !.concurrent = n],
           pc = "running" => apCall[c].op = "run_experiment",
           pc = "answer" => apCall[c].op = "respond"
    PROVE  ApGoesOn(c, x)
<1>1. apCall[c] \in ApBusy /\ ApFits(apCall[c])
  BY ApKinds DEF ApIInv, ApCallInv
<1>2. /\ x \in ApBusy /\ x.pc = pc /\ x.op = apCall[c].op /\ x.decision = apCall[c].decision
      /\ x.queue = apCall[c].queue
  BY <1>1 DEF ApBusy
<1>3. ApFits(x)
  BY <1>1, <1>2 DEF ApFits
<1>4. \A d \in x.decision : x.op = "run" => ApHolds(c, d) /\ apCall[c].op = "run"
  BY <1>2 DEF ApHolds
<1> QED  BY <1>2, <1>3, <1>4 DEF ApGoesOn

(* Where the ledger's steps go. *)
LEMMA ApLedgerPcs ==
    /\ {"count", "look", "gate", "running", "answer"} \subseteq ApPcs \ {"start", "regate", "persist"}
    /\ \A pc \in {"count", "look", "gate"} : pc # "running" /\ pc # "answer"
BY DEF ApPcs

(* The ledger's steps. *)
LEMMA ApLedgerStep ==
    ASSUME ApIInv, NEW c \in Calls,
           TryAcquire(c) \/ FetchAdd(c) \/ LookInFlight(c) \/ DropGuard(c) \/ Unlock(c)
    PROVE  ApIInv'
<1> USE DEF records, outside, ledger
<1>0. apCall \in [Calls -> ApBusy \cup ApEnds] /\ apInFlight \in Int
  BY DEF ApIInv, ApTypes
<1>k. /\ ApLive(c) => apCall[c] \in ApBusy
      /\ \A n \in Int : apCall[c] \in ApBusy /\ n = apCall[c].concurrent =>
            \A pc : [apCall[c] EXCEPT !.pc = pc] = [apCall[c] EXCEPT !.pc = pc, !.concurrent = n]
  BY ApKinds DEF ApIInv, ApBusy
<1>1. CASE TryAcquire(c)
  <2>1. /\ apCall[c].pc = "acquire" /\ ApLive(c)
        /\ UNCHANGED <<apPolicy, apDecision, apEvents, apInFlight>>
    BY <1>1 DEF TryAcquire, ApLive, ApPcs
  <2>2. PICK n \in Int : n = apCall[c].concurrent
    BY <1>k, <2>1 DEF ApBusy
  <2>3. CASE apCall' = [apCall EXCEPT ![c] = [apCall[c] EXCEPT !.pc = "count", !.concurrent = n]]
    <3> DEFINE x == [apCall[c] EXCEPT !.pc = "count", !.concurrent = n]
    <3>1. ApGoesOn(c, x)
      <4>1. apCall[c].pc \notin {"start", "regate"}
        BY <2>1
      <4> QED  BY <2>1, <4>1, ApLedgerPcs, ApGoing
    <3>2. apCall' = [apCall EXCEPT ![c] = x]
      BY <2>3
    <3> HIDE DEF x
    <3> QED  BY <1>0, <2>1, <3>1, <3>2, ApSilentStep
  <2>4. CASE apCall' = [apCall EXCEPT ![c] = [apCall[c] EXCEPT !.pc = "look", !.concurrent = n]]
    <3> DEFINE x == [apCall[c] EXCEPT !.pc = "look", !.concurrent = n]
    <3>1. ApGoesOn(c, x)
      <4>1. apCall[c].pc \notin {"start", "regate"}
        BY <2>1
      <4> QED  BY <2>1, <4>1, ApLedgerPcs, ApGoing
    <3>2. apCall' = [apCall EXCEPT ![c] = x]
      BY <2>4
    <3> HIDE DEF x
    <3> QED  BY <1>0, <2>1, <3>1, <3>2, ApSilentStep
  <2>5. CASE apCall' = [apCall EXCEPT ![c] = NoCall]
    <3>1. NoCall \in ApEnds
      BY DEF NoCall, ApEnds
    <3> QED  BY <1>0, <2>1, <2>5, <3>1, ApSilentStep
  <2>6. \/ apCall' = [apCall EXCEPT ![c] = [apCall[c] EXCEPT !.pc = "count"]]
        \/ apCall' = [apCall EXCEPT ![c] = [apCall[c] EXCEPT !.pc = "look"]]
        \/ apCall' = [apCall EXCEPT ![c] = NoCall]
    BY <1>1 DEF TryAcquire, ApStep, CallAt
  <2> QED  BY <1>k, <2>1, <2>2, <2>3, <2>4, <2>5, <2>6
<1>2. CASE FetchAdd(c)
  <2>1. /\ apCall[c].pc = "count" /\ ApLive(c) /\ apInFlight' \in Int
        /\ UNCHANGED <<apPolicy, apDecision, apEvents>>
    BY <1>0, <1>2 DEF FetchAdd, ApLive, ApPcs
  <2>2. PICK n \in Int : n = apCall[c].concurrent
    BY <1>k, <2>1 DEF ApBusy
  <2>3. PICK pc \in {"running", "gate"} :
           /\ apCall' = [apCall EXCEPT ![c] = [apCall[c] EXCEPT !.pc = pc]]
           /\ pc = "running" => apCall[c].op = "run_experiment"
    BY <1>2 DEF FetchAdd
  <2>4. ApGoesOn(c, [apCall[c] EXCEPT !.pc = pc, !.concurrent = n])
    BY <2>1, <2>3, ApGoing DEF ApPcs
  <2> QED  BY <1>k, <2>1, <2>2, <2>3, <2>4, ApSilentStep
<1>3. CASE LookInFlight(c)
  <2>1. /\ apCall[c].pc = "look" /\ ApLive(c)
        /\ apCall' = [apCall EXCEPT ![c] = [apCall[c] EXCEPT !.pc = "gate", !.concurrent = apInFlight]]
        /\ UNCHANGED <<apPolicy, apDecision, apEvents, apInFlight>>
    BY <1>3 DEF LookInFlight, ApLive, ApPcs
  <2> DEFINE x == [apCall[c] EXCEPT !.pc = "gate", !.concurrent = apInFlight]
  <2>2. ApGoesOn(c, x) /\ apCall' = [apCall EXCEPT ![c] = x]
    <3>1. apCall[c].pc \notin {"start", "regate"}
      BY <2>1
    <3> QED  BY <1>0, <2>1, <3>1, ApLedgerPcs, ApGoing
  <2>3. UNCHANGED <<apPolicy, apDecision, apEvents>> /\ apInFlight' \in Int
    BY <1>0, <2>1
  <2> HIDE DEF x
  <2> QED  BY <2>2, <2>3, ApSilentStep
<1>4. CASE DropGuard(c)
  <2>1. /\ apCall[c].pc = "done" /\ apInFlight' \in Int
        /\ apCall' = [apCall EXCEPT ![c] = [apCall[c] EXCEPT !.pc = "unlock"]]
        /\ UNCHANGED <<apPolicy, apDecision, apEvents>>
    BY <1>0, <1>4 DEF DropGuard, ApStep, CallAt
  <2>2. apCall[c] \in ApEnds
    BY <2>1, ApKinds DEF ApIInv, ApLive, ApPcs
  <2>3. [apCall[c] EXCEPT !.pc = "unlock"] \in ApEnds
    BY <2>2 DEF ApEnds
  <2> QED  BY <2>1, <2>3, ApSilentStep
<1>5. CASE Unlock(c)
  <2>1. /\ apCall' = [apCall EXCEPT ![c] = NoCall] /\ apInFlight' \in Int
        /\ UNCHANGED <<apPolicy, apDecision, apEvents>> /\ NoCall \in ApEnds
    BY <1>0, <1>5 DEF Unlock, NoCall, ApEnds
  <2> QED  BY <2>1, ApSilentStep
<1> QED  BY <1>1, <1>2, <1>3, <1>4, <1>5

(* A tool is called. *)
LEMMA ApCallToolStep ==
    ASSUME ApIInv, NEW c \in Calls, NEW op \in {"run", "respond", "run_experiment"},
           NEW runs \in BOOLEAN, NEW d, op = "respond" => d \in Decisions, CallTool(c, op, runs, d)
    PROVE  ApIInv'
<1> DEFINE x == [pc |-> IF runs THEN "acquire" ELSE "look", op |-> op, runs |-> runs,
                 decision |-> IF op = "respond" THEN {d} ELSE {}, concurrent |-> 0, queue |-> <<>>,
                 policy |-> {}]
<1>1. /\ apCall' = [apCall EXCEPT ![c] = x] /\ UNCHANGED <<apPolicy, apDecision, apEvents, apInFlight>>
      /\ op = "respond" => apDecision[d].verdict \in {"propose", "downgrade"}
  BY DEF CallTool, ledger, records
<1>2. <<>> \in Seq(ApItems) /\ Len(<<>>) = 0
  BY EmptySeq
<1>3. x \in ApBusy /\ x.pc \in {"acquire", "look"}
  BY <1>2 DEF ApBusy, ApChosen, ApPcs, ApRead
<1>4. ApFits(x)
  BY <1>1, <1>2, ApAssumption DEF ApFits
<1>5. ApGoesOn(c, x)
  <2>1. x.op = "run" => x.decision = {}
    OBVIOUS
  <2>2. x.queue = <<>> /\ x.pc \notin {"start", "regate"}
    BY <1>3
  <2> HIDE DEF x
  <2> QED  BY <1>3, <1>4, <2>1, <2>2 DEF ApGoesOn
<1>6. apInFlight' \in Int
  BY <1>1 DEF ApIInv, ApTypes
<1> HIDE DEF x
<1> QED  BY <1>1, <1>5, <1>6, ApSilentStep

(* The first check of respond. *)
LEMMA ApRespondCheckStep ==
    ASSUME ApIInv, NEW c \in Calls, NEW d \in Decisions, RespondCheck(c, d)
    PROVE  ApIInv'
<1>1. /\ apCall[c].pc = "gate" /\ apCall[c].op = "respond" /\ ApLive(c)
      /\ UNCHANGED <<apPolicy, apDecision, apEvents, apInFlight>>
      /\ \/ apCall' = [apCall EXCEPT ![c] = CallAt(c, "done")]
         \/ apCall' = [apCall EXCEPT ![c].pc = "answer",
                         ![c].policy = IF apCall[c].runs THEN {apPolicy} ELSE {}]
  BY DEF RespondCheck, ApStep, records, outside, ledger, ApLive, ApPcs
<1>2. ApTypes /\ apInFlight' \in Int
  BY <1>1 DEF ApIInv, ApTypes
<1>3. CallAt(c, "done") \in ApEnds
  BY <1>2, ApLedgerPcs, ApCallGoes
<1>4. PICK read \in ApRead : read = IF apCall[c].runs THEN {apPolicy} ELSE {}
  <2>1. PICK v \in Nat, e \in BOOLEAN, t \in BOOLEAN : apPolicy = Policy(v, e, t)
    BY <1>2 DEF ApTypes
  <2>2. {Policy(v, e, t)} \in ApRead
    <3>1. <<v, e, t>> \in Nat \X BOOLEAN \X BOOLEAN
      OBVIOUS
    <3>2. <<v, e, t>>[1] = v /\ <<v, e, t>>[2] = e /\ <<v, e, t>>[3] = t
      OBVIOUS
    <3> QED  BY <3>1, <3>2 DEF ApRead
  <2>3. {} \in ApRead
    BY DEF ApRead
  <2> QED  BY <2>1, <2>2, <2>3
<1>5. PICK x : x = [apCall[c] EXCEPT !.pc = "answer", !.policy = read]
  OBVIOUS
<1>6. ApGoesOn(c, x)
  <2>1. apCall[c] \in ApBusy /\ ApFits(apCall[c])
    BY <1>1, <1>2, ApKinds DEF ApIInv, ApCallInv
  <2>2. /\ x \in ApBusy /\ x.pc = "answer" /\ x.op = "respond"
        /\ x.decision = apCall[c].decision /\ x.queue = apCall[c].queue
    BY <1>1, <1>5, <2>1, ApLedgerPcs DEF ApBusy
  <2>3. ApFits(x)
    BY <2>1, <2>2, <1>1 DEF ApFits
  <2> QED  BY <1>1, <2>2, <2>3 DEF ApGoesOn
<1>7. \/ apCall' = [apCall EXCEPT ![c] = CallAt(c, "done")]
      \/ apCall' = [apCall EXCEPT ![c] = x]
  BY <1>1, <1>4, <1>5
<1> QED  BY <1>1, <1>2, <1>3, <1>6, <1>7, ApSilentStep

(* What a call holds is one decision. *)
LEMMA ApOneDecision ==
    ASSUME ApIInv, NEW c \in Calls, NEW d \in apCall[c].decision, ApLive(c)
    PROVE  apCall[c].decision = {d} /\ d \in Decisions /\ ApFits(apCall[c]) /\ apCall[c] \in ApBusy
<1>1. apCall[c] \in ApBusy /\ apCall[c].decision \in ApChosen
  BY ApKinds DEF ApIInv
<1> QED  BY <1>1 DEF ApChosen, ApIInv, ApCallInv

(* A human denies, or the gate refuses: the call is done. *)
LEMMA ApRefusedStep ==
    ASSUME ApIInv, NEW c \in Calls, NEW d \in Decisions,
           NEW kind \in {"human_denied", "re_gate_refused"},
           AppendEvent(d, kind), ApStep(c, "done"), UNCHANGED <<apPolicy, apDecision, apInFlight>>
    PROVE  ApIInv'
<1>1. ApTypes /\ apInFlight' \in Int /\ kind \in ApKindsOfEvent
  BY DEF ApIInv, ApTypes, ApKindsOfEvent, Counted
<1>2. CallAt(c, "done") \in ApEnds
  BY <1>1, ApLedgerPcs, ApCallGoes
<1>3. /\ apEvents' \in [Decisions -> [last : ApKindsOfEvent, count : [Counted -> Nat]]]
      /\ \A e \in Decisions, k \in Counted :
           EventCount(e, k)' = IF e = d /\ k = kind THEN EventCount(e, k) + 1 ELSE EventCount(e, k)
  BY <1>1, ApEventAppended
<1>4. ApSame
  BY <1>3 DEF ApSame, ApStarts, Counted
<1>5. apCall' = [apCall EXCEPT ![c] = CallAt(c, "done")]
  BY DEF ApStep
<1>6. ApTypes'
  <2>1. apDecision' \in
          [Decisions -> [verdict : ApVerdicts \cup {"none"}, hash : Nat, today : BOOLEAN]]
    BY <1>1 DEF ApTypes
  <2> QED  BY <1>1, <1>2, <1>3, <1>5, <2>1, ApTypesFrame
<1> QED  BY <1>2, <1>4, <1>5, <1>6, ApQuietStep

(* A step of a call that keeps its decision and its queue, and moves to where it
   counts: the parts of the invariant but the events. *)
LEMMA ApLoudStep ==
    ASSUME ApIInv, NEW c \in Calls, ApLive(c), NEW pc \in ApPcs \ {"persist"},
           ApStep(c, pc), UNCHANGED <<apPolicy, apDecision, apInFlight>>,
           NEW d \in apCall[c].decision, NEW kind \in ApKindsOfEvent, AppendEvent(d, kind),
           pc \in {"answer", "regate"} => apCall[c].op = "respond",
           pc = "start" => apCall[c].op = "respond",
           pc = "running" => kind = "run_started",
           kind = "run_started" => apCall[c].pc = "start"
    PROVE  /\ ApTypes' /\ ApCallInv' /\ ApBudgetInv'
           /\ \A e \in Decisions, k \in Counted :
                EventCount(e, k)' = IF e = d /\ k = kind THEN EventCount(e, k) + 1 ELSE EventCount(e, k)
           /\ \A e \in Decisions \ {d} : ApStarters(e)' = ApStarters(e) /\ ApAskers(e)' = ApAskers(e)
           /\ apCall[c].decision = {d} /\ d \in Decisions /\ ApFits(apCall[c])
           /\ apCall'[c].pc = pc /\ apCall'[c].op = apCall[c].op
           /\ \A e \in Calls \ {c} : apCall'[e] = apCall[e]
           /\ \A e \in Decisions : EventCount(e, "run_started") \in Nat
                /\ EventCount(e, "re_gate_passed") \in Nat /\ EventCount(e, "human_approved") \in Nat
<1>1. /\ ApTypes /\ apInFlight' \in Int
      /\ apDecision' \in
           [Decisions -> [verdict : ApVerdicts \cup {"none"}, hash : Nat, today : BOOLEAN]]
  BY DEF ApIInv, ApTypes
<1>2. apCall[c].decision = {d} /\ d \in Decisions /\ ApFits(apCall[c]) /\ apCall[c] \in ApBusy
  BY ApOneDecision
<1>3. PICK x : x = CallAt(c, pc)
  OBVIOUS
<1>4. /\ x \in ApBusy /\ x.pc = pc /\ x.op = apCall[c].op /\ x.decision = {d}
      /\ x.queue = apCall[c].queue
  BY <1>1, <1>2, <1>3, ApCallGoes
<1>5. /\ apCall' = [apCall EXCEPT ![c] = x] /\ apCall'[c] = x
      /\ \A e \in Calls \ {c} : apCall'[e] = apCall[e]
  BY <1>1, <1>3 DEF ApStep, ApTypes
<1>6. /\ apEvents' \in [Decisions -> [last : ApKindsOfEvent, count : [Counted -> Nat]]]
      /\ \A e \in Decisions, k \in Counted :
           EventCount(e, k)' = IF e = d /\ k = kind THEN EventCount(e, k) + 1 ELSE EventCount(e, k)
  BY <1>1, <1>2, ApEventAppended
<1>7. ApTypes'
  BY <1>1, <1>4, <1>5, <1>6, ApTypesFrame
<1>8. \A e \in Decisions, k \in Counted : EventCount(e, k) \in Nat
  BY <1>1 DEF ApTypes, EventCount
<1>9. \A e \in Decisions :
        ApStarts(e)' = IF e = d /\ kind = "run_started" THEN ApStarts(e) + 1 ELSE ApStarts(e)
  BY <1>6 DEF ApStarts, Counted
<1>10. ApCallInv'
  <2>1. ApMoves(c, x)
    BY <1>5 DEF ApMoves
  <2>2. ApFits(x)'
    <3>1. ApStarts(d) \in Nat /\ (pc = "running" => ApStarts(d)' > 0)
      BY <1>2, <1>8, <1>9 DEF ApStarts, Counted
    <3>2. /\ pc \in {"answer", "regate"} => x.op = "respond"
          /\ x.op # "run" => x.queue = <<>> /\ x.pc # "persist"
          /\ Len(x.queue) <= PassLimit /\ x.op # "run_experiment"
          /\ \/ x.op = "run" /\ apDecision[d].verdict = "enact"
             \/ x.op = "respond" /\ apDecision[d].verdict \in {"propose", "downgrade"}
          /\ ~(x.op = "run" /\ x.pc = "start")
      BY <1>2, <1>4 DEF ApFits
    <3> QED  BY <1>4, <3>1, <3>2 DEF ApFits
  <2>3. \A e \in Decisions :
          \/ ApStarts(e)' = ApStarts(e)
          \/ ApStarts(e)' = ApStarts(e) + 1 /\ ApHolds(c, e) /\ apCall[c].pc = "start"
    BY <1>2, <1>9 DEF ApHolds
  <2>4. \A e \in Decisions : ApHolds(c, e)' /\ x.op = "run" =>
          (ApHolds(c, e) /\ apCall[c].op = "run") \/ apDecision[e].verdict = "none"
    BY <1>2, <1>4, <1>5 DEF ApHolds
  <2> QED  BY <1>1, <1>5, <1>7, <2>1, <2>2, <2>3, <2>4, ApCallFrame DEF ApIInv
<1>11. ApBudgetInv'
  <2>1. RunsToday' = RunsToday
    BY DEF RunsToday, EnactDecisions
  <2>2. \A j \in 1 .. PassLimit : ApWaits(c, j)' => ApWaits(c, j)
    BY <1>4, <1>5 DEF ApWaits
  <2> QED  BY <1>5, <2>1, <2>2, ApBudgetFrame
<1>12. ASSUME NEW e \in Decisions \ {d}
       PROVE  ApStarters(e)' = ApStarters(e) /\ ApAskers(e)' = ApAskers(e)
  <2>1. \A g \in Calls : ApHolds(g, e)' <=> ApHolds(g, e)
    BY <1>2, <1>4, <1>5 DEF ApHolds, ApLive
  <2>2. ~ApHolds(c, e)
    BY <1>2 DEF ApHolds
  <2> QED  BY <1>5, <2>1, <2>2 DEF ApStarters, ApAskers
<1> QED  BY <1>2, <1>4, <1>5, <1>6, <1>7, <1>8, <1>10, <1>11, <1>12 DEF Counted

(* A human answers. *)
LEMMA ApAnswerStep ==
    ASSUME ApIInv, NEW c \in Calls, NEW d \in Decisions, RespondAnswer(c, d)
    PROVE  ApIInv'
<1>1. /\ apCall[c].pc = "answer" /\ d \in apCall[c].decision /\ ApLive(c)
      /\ UNCHANGED <<apPolicy, apDecision, apInFlight>>
  BY DEF RespondAnswer, ledger, outside, ApLive, ApPcs
<1>2. CASE ~apCall[c].runs
  <2>1. AppendEvent(d, "human_denied") /\ ApStep(c, "done")
    BY <1>2 DEF RespondAnswer
  <2> QED  BY <1>1, <2>1, ApRefusedStep
<1>3. CASE apCall[c].runs
  <2>1. AppendEvent(d, "human_approved") /\ ApStep(c, "regate")
    BY <1>3 DEF RespondAnswer
  <2>2. /\ "regate" \in ApPcs \ {"persist"} /\ "human_approved" \in ApKindsOfEvent
        /\ ApFits(apCall[c]) /\ apCall[c].op = "respond"
    BY <1>1, ApOneDecision DEF ApPcs, ApKindsOfEvent, Counted, ApFits
  <2>3. /\ ApTypes' /\ ApCallInv' /\ ApBudgetInv'
        /\ \A e \in Decisions, k \in Counted :
             EventCount(e, k)' = IF e = d /\ k = "human_approved" THEN EventCount(e, k) + 1
                                                                ELSE EventCount(e, k)
        /\ \A e \in Decisions \ {d} : ApStarters(e)' = ApStarters(e) /\ ApAskers(e)' = ApAskers(e)
        /\ apCall'[c].pc = "regate"
        /\ \A e \in Calls \ {c} : apCall'[e] = apCall[e]
        /\ \A e \in Decisions : EventCount(e, "run_started") \in Nat
             /\ EventCount(e, "re_gate_passed") \in Nat /\ EventCount(e, "human_approved") \in Nat
    BY <1>1, <2>1, <2>2, ApLoudStep
  <2>4. ApEventInv'
    <3> SUFFICES ASSUME NEW e \in Decisions PROVE ApEventInv!(e)'
      BY DEF ApEventInv
    <3>1. /\ ApStarters(e)' \subseteq ApStarters(e)
          /\ ApAskers(e)' \subseteq IF e = d THEN ApAskers(e) \cup {c} ELSE ApAskers(e)
      BY <2>3 DEF ApStarters, ApAskers, ApHolds, ApLive
    <3>2. /\ ApStarters(e) \subseteq Calls /\ ApAskers(e) \subseteq Calls
          /\ ApStarters(e)' \subseteq Calls /\ ApAskers(e)' \subseteq Calls
      BY DEF ApStarters, ApAskers
    <3>3. /\ Cardinality(ApStarters(e)) \in Nat /\ Cardinality(ApStarters(e)') \in Nat
          /\ Cardinality(ApAskers(e)) \in Nat /\ Cardinality(ApAskers(e)') \in Nat
          /\ Cardinality(ApStarters(e)') <= Cardinality(ApStarters(e))
          /\ Cardinality(ApAskers(e)') <= IF e = d THEN Cardinality(ApAskers(e)) + 1
                                          ELSE Cardinality(ApAskers(e))
      BY <3>1, <3>2, ApCallsCounted
    <3>4. /\ ApStarts(e)' = ApStarts(e) /\ ApStarts(e) \in Nat
          /\ EventCount(e, "re_gate_passed")' = EventCount(e, "re_gate_passed")
          /\ EventCount(e, "human_approved")' = IF e = d THEN EventCount(e, "human_approved") + 1
                                                ELSE EventCount(e, "human_approved")
      BY <2>3 DEF ApStarts, Counted
    <3>5. ApEventInv!(e)
      BY DEF ApIInv, ApEventInv
    <3> QED  BY <1>1, <2>3, <3>3, <3>4, <3>5
  <2> QED  BY <2>3, <2>4 DEF ApIInv
<1> QED  BY <1>2, <1>3

(* The gate is asked again, and lets the run pass. *)
LEMMA ApRegateStep ==
    ASSUME ApIInv, NEW c \in Calls, NEW d \in Decisions, NEW rollback, NEW telemetry, NEW deviation,
           Regate(c, d, rollback, telemetry, deviation)
    PROVE  ApIInv'
<1>1. /\ apCall[c].pc = "regate" /\ d \in apCall[c].decision /\ ApLive(c)
      /\ UNCHANGED <<apPolicy, apDecision, apInFlight>>
      /\ \/ AppendEvent(d, "re_gate_passed") /\ ApStep(c, "start")
         \/ AppendEvent(d, "re_gate_refused") /\ ApStep(c, "done")
  BY DEF Regate, ledger, outside, ApLive, ApPcs
<1>2. CASE AppendEvent(d, "re_gate_refused") /\ ApStep(c, "done")
  BY <1>1, <1>2, ApRefusedStep
<1>3. CASE AppendEvent(d, "re_gate_passed") /\ ApStep(c, "start")
  <2>2. /\ "start" \in ApPcs \ {"persist"} /\ "re_gate_passed" \in ApKindsOfEvent
        /\ ApFits(apCall[c]) /\ apCall[c].op = "respond"
    BY <1>1, ApOneDecision DEF ApPcs, ApKindsOfEvent, Counted, ApFits
  <2>3. /\ ApTypes' /\ ApCallInv' /\ ApBudgetInv'
        /\ \A e \in Decisions, k \in Counted :
             EventCount(e, k)' = IF e = d /\ k = "re_gate_passed" THEN EventCount(e, k) + 1
                                                                ELSE EventCount(e, k)
        /\ \A e \in Decisions \ {d} : ApStarters(e)' = ApStarters(e) /\ ApAskers(e)' = ApAskers(e)
        /\ apCall'[c].pc = "start"
        /\ \A e \in Calls \ {c} : apCall'[e] = apCall[e]
        /\ \A e \in Decisions : EventCount(e, "run_started") \in Nat
             /\ EventCount(e, "re_gate_passed") \in Nat /\ EventCount(e, "human_approved") \in Nat
    BY <1>1, <1>3, <2>2, ApLoudStep
  <2>4. ApEventInv'
    <3> SUFFICES ASSUME NEW e \in Decisions PROVE ApEventInv!(e)'
      BY DEF ApEventInv
    <3>1. /\ ApStarters(e)' \subseteq IF e = d THEN ApStarters(e) \cup {c} ELSE ApStarters(e)
          /\ ApAskers(e)' \subseteq IF e = d THEN ApAskers(e) \ {c} ELSE ApAskers(e)
          /\ e = d => c \in ApAskers(e)
      BY <1>1, <2>3 DEF ApStarters, ApAskers, ApHolds, ApLive
    <3>2. /\ ApStarters(e) \subseteq Calls /\ ApAskers(e) \subseteq Calls
          /\ ApStarters(e)' \subseteq Calls /\ ApAskers(e)' \subseteq Calls
      BY DEF ApStarters, ApAskers
    <3>3. /\ Cardinality(ApStarters(e)) \in Nat /\ Cardinality(ApStarters(e)') \in Nat
          /\ Cardinality(ApAskers(e)) \in Nat /\ Cardinality(ApAskers(e)') \in Nat
          /\ Cardinality(ApStarters(e)') <= IF e = d THEN Cardinality(ApStarters(e)) + 1
                                            ELSE Cardinality(ApStarters(e))
          /\ IF e = d THEN Cardinality(ApAskers(e)') + 1 <= Cardinality(ApAskers(e))
                      ELSE Cardinality(ApAskers(e)') <= Cardinality(ApAskers(e))
      BY <3>1, <3>2, ApCallsCounted
    <3>4. /\ ApStarts(e)' = ApStarts(e) /\ ApStarts(e) \in Nat
          /\ EventCount(e, "human_approved")' = EventCount(e, "human_approved")
          /\ EventCount(e, "re_gate_passed")' = IF e = d THEN EventCount(e, "re_gate_passed") + 1
                                                ELSE EventCount(e, "re_gate_passed")
      BY <2>3 DEF ApStarts, Counted
    <3>5. ApEventInv!(e)
      BY DEF ApIInv, ApEventInv
    <3> QED  BY <1>1, <2>3, <3>3, <3>4, <3>5
  <2> QED  BY <2>3, <2>4 DEF ApIInv
<1> QED  BY <1>1, <1>2, <1>3

(* A run is recorded, and then runs. *)
LEMMA ApPlaybookStep ==
    ASSUME ApIInv, NEW c \in Calls, NEW d \in Decisions, RunPlaybook(c, d)
    PROVE  ApIInv'
<1>1. /\ apCall[c].pc = "start" /\ d \in apCall[c].decision /\ ApLive(c)
      /\ UNCHANGED <<apPolicy, apDecision, apInFlight>>
      /\ AppendEvent(d, "run_started") /\ ApStep(c, "running")
  BY DEF RunPlaybook, ledger, outside, ApLive, ApPcs
<1>2. "running" \in ApPcs \ {"persist"} /\ "run_started" \in ApKindsOfEvent
  BY DEF ApPcs, ApKindsOfEvent, Counted
<1>3. /\ ApTypes' /\ ApCallInv' /\ ApBudgetInv'
      /\ \A e \in Decisions, k \in Counted :
           EventCount(e, k)' = IF e = d /\ k = "run_started" THEN EventCount(e, k) + 1
                                                            ELSE EventCount(e, k)
      /\ \A e \in Decisions \ {d} : ApStarters(e)' = ApStarters(e) /\ ApAskers(e)' = ApAskers(e)
      /\ ApFits(apCall[c]) /\ apCall'[c].pc = "running"
      /\ \A e \in Calls \ {c} : apCall'[e] = apCall[e]
      /\ \A e \in Decisions : EventCount(e, "run_started") \in Nat
           /\ EventCount(e, "re_gate_passed") \in Nat /\ EventCount(e, "human_approved") \in Nat
  BY <1>1, <1>2, ApLoudStep
<1>4. ApEventInv'
  <2> SUFFICES ASSUME NEW e \in Decisions PROVE ApEventInv!(e)'
    BY DEF ApEventInv
  <2>1. /\ ApStarters(e)' \subseteq IF e = d THEN ApStarters(e) \ {c} ELSE ApStarters(e)
        /\ ApAskers(e)' \subseteq ApAskers(e)
        /\ e = d /\ apCall[c].op = "respond" => c \in ApStarters(e)
    BY <1>1, <1>3 DEF ApStarters, ApAskers, ApHolds, ApLive
  <2>2. /\ ApStarters(e) \subseteq Calls /\ ApAskers(e) \subseteq Calls
        /\ ApStarters(e)' \subseteq Calls /\ ApAskers(e)' \subseteq Calls
    BY DEF ApStarters, ApAskers
  <2>3. /\ Cardinality(ApStarters(e)) \in Nat /\ Cardinality(ApStarters(e)') \in Nat
        /\ Cardinality(ApAskers(e)) \in Nat /\ Cardinality(ApAskers(e)') \in Nat
        /\ Cardinality(ApStarters(e)') <= Cardinality(ApStarters(e))
        /\ e = d /\ apCall[c].op = "respond" =>
             Cardinality(ApStarters(e)') + 1 <= Cardinality(ApStarters(e))
        /\ Cardinality(ApAskers(e)') <= Cardinality(ApAskers(e))
    BY <2>1, <2>2, ApCallsCounted
  <2>4. /\ ApStarts(e)' = (IF e = d THEN ApStarts(e) + 1 ELSE ApStarts(e)) /\ ApStarts(e) \in Nat
        /\ EventCount(e, "human_approved")' = EventCount(e, "human_approved")
        /\ EventCount(e, "re_gate_passed")' = EventCount(e, "re_gate_passed")
    BY <1>3 DEF ApStarts, Counted
  <2>5. ApEventInv!(e) /\ apDecision'[e] = apDecision[e]
    BY <1>1 DEF ApIInv, ApEventInv
  <2>6. e = d => \/ apCall[c].op = "run" /\ apDecision[e].verdict = "enact" /\ ApStarts(e) = 0
                 \/ apCall[c].op = "respond" /\ apDecision[e].verdict \in {"propose", "downgrade"}
    BY <1>1, <1>3 DEF ApFits
  <2> QED  BY <1>3, <2>3, <2>4, <2>5, <2>6
<1> QED  BY <1>3, <1>4 DEF ApIInv

(* A run ends, and its pass goes on with what it has left. *)
LEMMA ApRunEndsStep ==
    ASSUME ApIInv, NEW c \in Calls, NEW outcome, RunEnds(c, outcome)
    PROVE  ApIInv'
<1>1. /\ apCall[c].pc = "running" /\ ApLive(c) /\ UNCHANGED <<apPolicy, apDecision, apInFlight>>
      /\ ApTypes /\ apInFlight' \in Int
      /\ apDecision' \in
           [Decisions -> [verdict : ApVerdicts \cup {"none"}, hash : Nat, today : BOOLEAN]]
  BY DEF RunEnds, ledger, outside, ApLive, ApPcs, ApIInv, ApTypes
<1>2. /\ apEvents' \in [Decisions -> [last : ApKindsOfEvent, count : [Counted -> Nat]]]
      /\ \A e \in Decisions, k \in Counted : EventCount(e, k)' = EventCount(e, k)
  <2>1. CASE UNCHANGED apEvents
    BY <1>1, <2>1 DEF ApTypes, EventCount
  <2>2. ASSUME NEW d \in apCall[c].decision, NEW kind \in {"run_completed", "run_failed"},
               AppendEvent(d, kind)
        PROVE  <1>2
    <3>1. d \in Decisions /\ kind \in ApKindsOfEvent /\ kind \notin Counted
      BY <1>1, ApOneDecision DEF ApKindsOfEvent, Counted
    <3> QED  BY <1>1, <2>2, <3>1, ApEventAppended
  <2>3. \/ UNCHANGED apEvents
        \/ \E d \in apCall[c].decision, kind \in {"run_completed", "run_failed"} : AppendEvent(d, kind)
    BY DEF RunEnds
  <2> QED  BY <2>1, <2>2, <2>3
<1>3. ApSame
  BY <1>1, <1>2 DEF ApSame, ApStarts, Counted
<1>4. PICK x : /\ apCall' = [apCall EXCEPT ![c] = x]
               /\ \/ x = CallAt(c, "done")
                  \/ x = CallAt(c, "persist") /\ apCall[c].queue # <<>>
  BY DEF RunEnds, ApStep
<1>5. x \in ApEnds \/ ApGoesOn(c, x)
  <2>1. "persist" \in ApPcs
    BY DEF ApPcs
  <2>2. CASE x = CallAt(c, "done")
    BY <1>1, <2>1, <2>2, ApCallGoes
  <2>3. CASE x = CallAt(c, "persist") /\ apCall[c].queue # <<>>
    <3>1. /\ x \in ApBusy /\ x.pc = "persist" /\ x.op = apCall[c].op
          /\ x.decision = apCall[c].decision /\ x.queue = apCall[c].queue
      BY <1>1, <2>1, <2>3, ApCallGoes
    <3>2. ApFits(apCall[c])
      BY <1>1 DEF ApIInv, ApCallInv
    <3>3. ApFits(x)
      BY <2>3, <3>1, <3>2 DEF ApFits
    <3>4. \A d \in x.decision : x.op = "run" => ApHolds(c, d) /\ apCall[c].op = "run"
      BY <1>1, <3>1 DEF ApHolds
    <3> QED  BY <1>1, <3>1, <3>3, <3>4 DEF ApGoesOn
  <2> QED  BY <1>4, <2>2, <2>3
<1>6. ApTypes'
  <2>1. x \in ApBusy \cup ApEnds
    BY <1>5 DEF ApGoesOn
  <2> QED  BY <1>1, <1>2, <1>4, <2>1, ApTypesFrame
<1> QED  BY <1>3, <1>4, <1>5, <1>6, ApQuietStep

(* A pass is gated on one reading of the store: what it may enact was within the
   budget then. *)
LEMMA ApAssembleStep ==
    ASSUME ApIInv, NEW c \in Calls, apCall[c].pc = "gate",
           NEW verdicts \in BoundedSeq(VerdictsOf(c), PassLimit), Assemble(c, verdicts)
    PROVE  ApIInv'
<1>a. PICK items :
        items = [i \in DOMAIN verdicts |-> [verdict |-> verdicts[i], hash |-> apPolicy.version]]
  OBVIOUS
<1>b. PICK x : x = [apCall[c] EXCEPT !.pc = "persist", !.concurrent = 0, !.queue = items]
  OBVIOUS
<1>1. /\ apCall[c].op = "run" /\ ApLive(c)
      /\ UNCHANGED <<apPolicy, apDecision, apEvents, apInFlight>>
      /\ apCall' = [apCall EXCEPT ![c] = CallAt(c, "done")] \/ apCall' = [apCall EXCEPT ![c] = x]
  BY <1>a, <1>b DEF Assemble, ledger, records, outside, ApLive, ApPcs
<1>2. ApTypes /\ apInFlight' \in Int
  BY <1>1 DEF ApIInv, ApTypes
<1>3. CASE apCall' = [apCall EXCEPT ![c] = CallAt(c, "done")]
  <2>1. CallAt(c, "done") \in ApEnds
    BY <1>2, ApLedgerPcs, ApCallGoes
  <2> QED  BY <1>1, <1>2, <1>3, <2>1, ApSilentStep
<1>4. CASE apCall' = [apCall EXCEPT ![c] = x]
  <2>1. PICK n \in 0 .. PassLimit : verdicts \in [1 .. n -> VerdictsOf(c)]
    BY DEF BoundedSeq, SeqOf
  <2>2. \A v \in VerdictsOf(c) : v \in ApVerdicts /\ (v = "enact" => RunsToday < DailyBudget)
    <3> SUFFICES ASSUME NEW v \in VerdictsOf(c)
                 PROVE  v \in ApVerdicts /\ (v = "enact" => RunsToday < DailyBudget)
      OBVIOUS
    <3>0. PICK rollback \in BOOLEAN, telemetry \in BOOLEAN :
             v = Evaluate(apPolicy, CandidateOf(rollback),
                          Ambient(apCall[c].concurrent, FALSE, telemetry))
      BY DEF VerdictsOf
    <3>1. apPolicy.maxRunsPerDay = DailyBudget
      BY <1>2 DEF ApTypes, Policy
    <3>2. Ambient(apCall[c].concurrent, FALSE, telemetry).runsToday = RunsToday
      BY DEF Ambient
    <3> QED  BY <3>0, <3>1, <3>2, ApGateEnacts
  <2>3. apPolicy.version \in Nat /\ PassLimit \in Nat
    BY <1>2, ApAssumption DEF ApTypes, Policy
  <2>4. /\ items \in Seq(ApItems) /\ Len(items) = n
        /\ \A i \in 1 .. n : items[i].verdict = "enact" => RunsToday < DailyBudget
    <3>1. \A i \in 1 .. n : [verdict |-> verdicts[i], hash |-> apPolicy.version] \in ApItems
      BY <2>1, <2>2, <2>3 DEF ApItems
    <3>2. items \in [1 .. n -> ApItems] /\ n \in Nat
      BY <1>a, <2>1, <2>3, <3>1
    <3>3. items \in Seq(ApItems) /\ Len(items) = n
      BY <3>2, IsASeq, LenProperties
    <3> QED  BY <1>a, <2>1, <2>2, <3>3
  <2>5. apCall[c] \in ApBusy /\ ApFits(apCall[c])
    BY <1>1, <1>2, ApKinds DEF ApIInv, ApCallInv
  <2>6. /\ x \in ApBusy /\ x.pc = "persist" /\ x.op = "run"
        /\ x.decision = apCall[c].decision /\ x.queue = items
    <3>1. "persist" \in ApPcs /\ 0 \in Int
      BY DEF ApPcs
    <3> QED  BY <1>1, <1>b, <2>4, <2>5, <3>1 DEF ApBusy
  <2>7. ApTypes'
    <3>1. /\ apDecision' \in
               [Decisions -> [verdict : ApVerdicts \cup {"none"}, hash : Nat, today : BOOLEAN]]
          /\ apEvents' \in [Decisions -> [last : ApKindsOfEvent, count : [Counted -> Nat]]]
      BY <1>1, <1>2 DEF ApTypes
    <3> QED  BY <1>1, <1>2, <1>4, <2>6, <3>1, ApTypesFrame
  <2>8. apCall'[c] = x /\ \A e \in Calls \ {c} : apCall'[e] = apCall[e]
    BY <1>2, <1>4 DEF ApTypes
  <2>9. /\ \A d \in Decisions : ApStarts(d)' = ApStarts(d) /\ apDecision'[d] = apDecision[d]
        /\ \A d \in Decisions, k \in Counted : EventCount(d, k)' = EventCount(d, k)
    BY <1>1 DEF ApStarts, EventCount
  <2>10. ApCallInv'
    <3>1. ApMoves(c, x)
      BY <1>4, <2>9 DEF ApMoves
    <3>2. ApFits(x)
      BY <1>1, <2>1, <2>3, <2>4, <2>5, <2>6 DEF ApFits
    <3>3. ApFits(x)'
      <4>1. \A d \in x.decision : d \in Decisions
        BY <2>6 DEF ApBusy, ApChosen
      <4> QED  BY <2>9, <3>2, <4>1 DEF ApFits
    <3>4. \A d \in Decisions : ApHolds(c, d)' /\ x.op = "run" => ApHolds(c, d) /\ apCall[c].op = "run"
      BY <1>1, <2>6, <2>8 DEF ApHolds
    <3> QED  BY <1>2, <2>7, <2>8, <2>9, <3>1, <3>3, <3>4, ApCallFrame DEF ApIInv
  <2>11. ApEventInv'
    <3>1. ASSUME NEW d \in Decisions
          PROVE  ApStarters(d)' \subseteq ApStarters(d) /\ ApAskers(d)' \subseteq ApAskers(d)
      BY <2>6, <2>8 DEF ApStarters, ApAskers, ApHolds, ApLive
    <3> QED  BY <1>2, <2>7, <2>9, <3>1, ApEventFrame DEF ApIInv, Counted
  <2>12. ApBudgetInv'
    <3>1. RunsToday' = RunsToday /\ RunsToday \in Nat
      BY <1>1, ApRunsCounted DEF RunsToday, EnactDecisions
    <3>2. CASE \E i \in 1 .. n : items[i].verdict = "enact"
      <4>1. RunsToday \in 0 .. DailyBudget - 1
        BY <2>4, <3>1, <3>2, ApAssumption
      <4>2. RunsToday + Cardinality(ApPending') <= ApRoom
        BY <4>1, ApPendingCounted DEF ApPending
      <4> QED  BY <3>1, <4>2 DEF ApBudgetInv, ApRoom
    <3>3. CASE ~\E i \in 1 .. n : items[i].verdict = "enact"
      <4>1. ASSUME NEW j \in 1 .. PassLimit, ApWaits(c, j)' PROVE FALSE
        <5>1. j \in 1 .. n /\ items[n + 1 - j].verdict = "enact"
          BY <2>4, <2>6, <2>8, <4>1 DEF ApWaits
        <5>2. n + 1 - j \in 1 .. n
          BY <2>1, <2>3, <5>1
        <5> QED  BY <3>3, <5>1, <5>2
      <4> QED  BY <1>4, <3>1, <4>1, ApBudgetFrame
    <3> QED  BY <3>2, <3>3
  <2> QED  BY <2>7, <2>10, <2>11, <2>12 DEF ApIInv
<1> QED  BY <1>1, <1>3, <1>4

(* A decision is recorded, and its call starts it or goes on to the next. *)
LEMMA ApPersistStep ==
    ASSUME ApIInv, NEW c \in Calls, NEW d \in Decisions, Persist(c, d)
    PROVE  ApIInv'
<1> USE DEF ledger, outside
<1>1. /\ apCall[c].pc = "persist" /\ ApLive(c) /\ apCall[c].queue # <<>>
      /\ apDecision[d].verdict = "none" /\ UNCHANGED <<apPolicy, apEvents, apInFlight>>
      /\ ApTypes /\ apInFlight' \in Int
  BY DEF Persist, ApLive, ApPcs, ApIInv, ApTypes
<1>2. apCall[c] \in ApBusy /\ ApFits(apCall[c]) /\ apCall[c].op = "run"
  BY <1>1, ApKinds DEF ApIInv, ApCallInv, ApFits
<1>3. PICK q \in Seq(ApItems) : q = apCall[c].queue
  BY <1>2 DEF ApBusy
<1>4. /\ q # <<>> /\ Head(q) \in ApItems /\ Head(q) = q[1] /\ Tail(q) \in Seq(ApItems)
      /\ Len(q) \in Nat \ {0} /\ Len(Tail(q)) = Len(q) - 1 /\ Len(q) <= PassLimit
      /\ \A i \in 1 .. Len(Tail(q)) : Tail(q)[i] = q[i + 1]
  BY <1>1, <1>2, <1>3, EmptySeq, HeadTailProperties DEF ApFits
<1>5. PICK item \in ApItems : item = Head(q)
  BY <1>4
<1>6. PICK starts \in BOOLEAN : starts <=> (item.verdict = "enact" /\ apCall[c].runs)
  OBVIOUS
<1>7. PICK row : row = [verdict |-> item.verdict, hash |-> item.hash, today |-> TRUE]
  OBVIOUS
<1>8. PICK y :
        /\ starts => y = NextItem(c, "start", {d})
        /\ ~starts => y = NextItem(c, "persist", {})
  <2>1. CASE starts
    BY <2>1
  <2>2. CASE ~starts
    BY <2>2
  <2> QED  BY <2>1, <2>2
<1>9. /\ apDecision' = [apDecision EXCEPT ![d] = row]
      /\ apCall' = [apCall EXCEPT ![c] = y] \/ apCall' = [apCall EXCEPT ![c] = CallAt(c, "done")]
  <2>1. apDecision' = [apDecision EXCEPT ![d] = row]
    BY <1>3, <1>5, <1>7 DEF Persist
  <2>2. apCall' = [apCall EXCEPT ![c] =
            IF Head(apCall[c].queue).verdict = "enact" /\ apCall[c].runs
              THEN NextItem(c, "start", {d})
            ELSE IF Len(apCall[c].queue) > 1 THEN NextItem(c, "persist", {})
            ELSE CallAt(c, "done")]
    BY Zenon DEF Persist
  <2>3. starts <=> (Head(apCall[c].queue).verdict = "enact" /\ apCall[c].runs)
    BY <1>3, <1>5, <1>6
  <2>4. CASE starts
    <3>1. apCall' = [apCall EXCEPT ![c] = NextItem(c, "start", {d})]
      BY <2>2, <2>3, <2>4
    <3> QED  BY <1>8, <2>1, <2>4, <3>1
  <2>5. CASE ~starts
    <3>1. \/ apCall' = [apCall EXCEPT ![c] = NextItem(c, "persist", {})]
          \/ apCall' = [apCall EXCEPT ![c] = CallAt(c, "done")]
      BY <2>2, <2>3, <2>5
    <3> QED  BY <1>8, <2>1, <2>5, <3>1
  <2> QED  BY <2>4, <2>5
<1>10. PICK x : /\ apCall' = [apCall EXCEPT ![c] = x]
                /\ x = y \/ x = CallAt(c, "done")
  BY <1>9
<1>11. /\ row \in [verdict : ApVerdicts \cup {"none"}, hash : Nat, today : BOOLEAN]
       /\ row.verdict = item.verdict /\ row.verdict \in ApVerdicts
  BY <1>7 DEF ApItems
<1>12. /\ y \in ApBusy /\ y.op = "run" /\ y.queue = Tail(q)
       /\ y.decision = (IF starts THEN {d} ELSE {})
       /\ y.pc = (IF starts THEN "start" ELSE "persist")
  <2>1. "start" \in ApPcs /\ "persist" \in ApPcs /\ {d} \in ApChosen /\ {} \in ApChosen
    BY DEF ApPcs, ApChosen
  <2>2. Tail(q) \in Seq(ApItems)
    BY <1>4
  <2>3. CASE starts
    <3>1. y = [apCall[c] EXCEPT !.pc = "start", !.decision = {d}, !.queue = Tail(q)]
      BY <1>3, <1>8, <2>3 DEF NextItem
    <3>2. /\ y \in ApBusy /\ y.op = "run" /\ y.queue = Tail(q) /\ y.decision = {d}
          /\ y.pc = "start"
      BY <1>2, <2>1, <2>2, <3>1 DEF ApBusy
    <3> QED  BY <2>3, <3>2
  <2>4. CASE ~starts
    <3>1. y = [apCall[c] EXCEPT !.pc = "persist", !.decision = {}, !.queue = Tail(q)]
      BY <1>3, <1>8, <2>4 DEF NextItem
    <3>2. /\ y \in ApBusy /\ y.op = "run" /\ y.queue = Tail(q) /\ y.decision = {}
          /\ y.pc = "persist"
      BY <1>2, <2>1, <2>2, <3>1 DEF ApBusy
    <3> QED  BY <2>4, <3>2
  <2> QED  BY <2>3, <2>4
<1>13. CallAt(c, "done") \in ApEnds /\ CallAt(c, "done").pc \notin ApPcs
  <2>1. CallAt(c, "done") \in ApEnds
    BY <1>1, ApLedgerPcs, ApCallGoes
  <2> QED  BY <2>1 DEF ApEnds, ApPcs
<1>14. /\ apDecision' \in
            [Decisions -> [verdict : ApVerdicts \cup {"none"}, hash : Nat, today : BOOLEAN]]
       /\ apDecision'[d] = row /\ \A e \in Decisions \ {d} : apDecision'[e] = apDecision[e]
  BY <1>1, <1>9, <1>11 DEF ApTypes
<1>15. ApTypes'
  <2>1. x \in ApBusy \cup ApEnds
    BY <1>10, <1>12, <1>13
  <2>2. apEvents' \in [Decisions -> [last : ApKindsOfEvent, count : [Counted -> Nat]]]
    BY <1>1 DEF ApTypes
  <2> QED  BY <1>1, <1>10, <1>14, <2>1, <2>2, ApTypesFrame
<1>16. apCall'[c] = x /\ \A e \in Calls \ {c} : apCall'[e] = apCall[e]
  BY <1>1, <1>10 DEF ApTypes
<1>17. /\ \A e \in Decisions : ApStarts(e)' = ApStarts(e)
       /\ \A e \in Decisions, k \in Counted : EventCount(e, k)' = EventCount(e, k)
       /\ ApStarts(d) = 0
  BY <1>1 DEF ApStarts, EventCount, ApIInv, ApEventInv
<1>18. ApCallInv'
  <2>1. ApMoves(c, x)
    BY <1>1, <1>10, <1>14 DEF ApMoves
  <2>2. ApFits(y)'
    <3>1. \A e \in y.decision : e = d /\ starts /\ apDecision'[e].verdict = "enact" /\ ApStarts(e)' = 0
      <4> SUFFICES ASSUME NEW e \in y.decision
                   PROVE  e = d /\ starts /\ apDecision'[e].verdict = "enact" /\ ApStarts(e)' = 0
        OBVIOUS
      <4>1. starts /\ e = d
        BY <1>12
      <4>2. item.verdict = "enact"
        BY <1>6, <4>1
      <4> QED  BY <1>11, <1>14, <1>17, <4>1, <4>2
    <3>2. Len(y.queue) <= PassLimit /\ PassLimit \in Nat
      BY <1>4, <1>12, ApAssumption
    <3>3. y.op = "run" /\ y.pc \in {"start", "persist"}
      BY <1>12
    <3> QED  BY <3>1, <3>2, <3>3 DEF ApFits
  <2>3. ApLive(c)' => ApFits(apCall[c])'
    <3> SUFFICES ASSUME ApLive(c)' PROVE ApFits(apCall[c])'
      OBVIOUS
    <3>1. x = y /\ apCall'[c] = y
      BY <1>10, <1>13, <1>16 DEF ApLive
    <3> QED  BY <2>2, <3>1 DEF ApFits
  <2>4. \A e \in Decisions : ApHolds(c, e)' /\ x.op = "run" =>
          (ApHolds(c, e) /\ apCall[c].op = "run") \/ apDecision[e].verdict = "none"
    BY <1>1, <1>10, <1>12, <1>13, <1>16 DEF ApHolds, ApLive
  <2> QED  BY <1>1, <1>15, <1>17, <2>1, <2>3, <2>4, ApCallFrame DEF ApIInv
<1>19. ApEventInv'
  <2>1. ASSUME NEW e \in Decisions
        PROVE  ApStarters(e)' \subseteq ApStarters(e) /\ ApAskers(e)' \subseteq ApAskers(e)
    BY <1>10, <1>12, <1>13, <1>16 DEF ApStarters, ApAskers, ApHolds, ApLive
  <2> QED  BY <1>1, <1>14, <1>15, <1>17, <2>1, ApEventFrame DEF ApIInv, Counted
<1>20. ApBudgetInv'
  <2> DEFINE Now == {e \in EnactDecisions : apDecision[e].today}
  <2>1. ASSUME NEW j \in 1 .. PassLimit, ApWaits(c, j)'
        PROVE  ApWaits(c, j) /\ j # Len(q)
    <3>1. x = y /\ j \in 1 .. Len(q) - 1 /\ Tail(q)[Len(q) - j].verdict = "enact"
      <4>1. x = y /\ apCall'[c].queue = Tail(q)
        BY <1>10, <1>12, <1>13, <1>16, <2>1 DEF ApWaits, ApLive
      <4>2. j \in 1 .. Len(Tail(q)) /\ Tail(q)[Len(Tail(q)) + 1 - j].verdict = "enact"
        BY <2>1, <4>1 DEF ApWaits
      <4>3. Len(Tail(q)) + 1 - j = Len(q) - j
        BY <1>4, <4>2
      <4> QED  BY <1>4, <4>1, <4>2, <4>3
    <3>2. Len(q) - j \in 1 .. Len(Tail(q)) /\ Len(q) - j + 1 = Len(q) + 1 - j
      BY <1>4, <3>1
    <3>3. q[Len(q) + 1 - j].verdict = "enact" /\ j \in 1 .. Len(q) /\ j # Len(q)
      <4>1. Tail(q)[Len(q) - j] = q[Len(q) - j + 1]
        BY <1>4, <3>2
      <4>2. j \in 1 .. Len(q) /\ j # Len(q)
        <5>1. Len(q) \in Nat
          OBVIOUS
        <5> QED  BY <3>1, <5>1
      <4> QED  BY <3>1, <3>2, <4>1, <4>2
    <3> QED  BY <1>1, <1>3, <3>3 DEF ApWaits
  <2>2. \A e \in Calls \ {c}, j \in 1 .. PassLimit : ApWaits(e, j)' => ApWaits(e, j)
    BY <1>16 DEF ApWaits, ApLive
  <2>3. Now' \subseteq Now \cup {d} /\ Now \subseteq Decisions /\ Now' \subseteq Decisions
    BY <1>14 DEF EnactDecisions
  <2>4. item.verdict # "enact" => Now' \subseteq Now
    BY <1>11, <1>14 DEF EnactDecisions
  <2>5. RunsToday = Cardinality(Now) /\ RunsToday' = Cardinality(Now')
    BY DEF RunsToday
  <2> HIDE DEF Now
  <2>6. /\ RunsToday \in Nat /\ RunsToday' \in Nat /\ RunsToday' <= RunsToday + 1
        /\ item.verdict # "enact" => RunsToday' <= RunsToday
    BY <2>3, <2>4, <2>5, ApRunsCounted
  <2>7. CASE item.verdict # "enact"
    BY <2>1, <2>2, <2>6, <2>7, ApBudgetRest DEF ApIInv
  <2>8. CASE item.verdict = "enact"
    <3>1. <<c, Len(q)>> \in ApPending
      <4>1. Len(q) \in 1 .. PassLimit /\ Len(q) + 1 - Len(q) = 1 /\ Len(q) \in 1 .. Len(q)
        BY <1>4, ApAssumption
      <4>2. ApWaits(c, Len(q))
        BY <1>1, <1>3, <1>4, <1>5, <2>8, <4>1 DEF ApWaits
      <4> QED  BY <4>1, <4>2 DEF ApPending
    <3>2. ApPending' \subseteq ApPending \ {<<c, Len(q)>>}
      <4> SUFFICES ASSUME NEW e \in Calls, NEW j \in 1 .. PassLimit, ApWaits(e, j)'
                   PROVE  ApWaits(e, j) /\ <<e, j>> # <<c, Len(q)>>
        BY DEF ApPending
      <4> QED  BY <2>1, <2>2
    <3>3. /\ Cardinality(ApPending) \in Nat /\ Cardinality(ApPending') \in Nat /\ ApRoom \in Nat
          /\ Cardinality(ApPending') + 1 <= Cardinality(ApPending)
      <4>1. ApPending \subseteq Calls \X (1 .. PassLimit) /\ ApPending' \subseteq Calls \X (1 .. PassLimit)
        BY DEF ApPending
      <4> QED  BY <3>1, <3>2, <4>1, ApPendingCounted
    <3>4. ApRoom' = ApRoom /\ RunsToday + Cardinality(ApPending) <= ApRoom
      BY DEF ApRoom, ApIInv, ApBudgetInv
    <3> QED  BY <2>6, <3>3, <3>4 DEF ApBudgetInv
  <2> QED  BY <2>7, <2>8
<1> QED  BY <1>15, <1>18, <1>19, <1>20 DEF ApIInv

(* The policy is edited, a day passes, or the server dies. *)
LEMMA ApWorldStep ==
    ASSUME ApIInv, PolicyEdit \/ DayPasses \/ ServerCrash
    PROVE  ApIInv'
<1> USE DEF ledger, records
<1>1. CASE PolicyEdit
  <2>1. UNCHANGED <<apInFlight, apCall, apDecision, apEvents>>
    BY <1>1 DEF PolicyEdit
  <2>2. \E version \in Nat, enabled, trusted \in BOOLEAN : apPolicy' = Policy(version, enabled, trusted)
    <3>1. PICK version \in Nat, enabled \in BOOLEAN, trusted \in BOOLEAN :
             apPolicy = Policy(version, enabled, trusted)
      BY DEF ApIInv, ApTypes
    <3>2. apPolicy' = Policy(version + 1, enabled, FALSE)
      BY <1>1, <3>1 DEF PolicyEdit, Policy
    <3>3. version + 1 \in Nat /\ FALSE \in BOOLEAN
      OBVIOUS
    <3> QED  BY <3>2, <3>3, Zenon
  <2>3. ApTypes'
    BY <2>1, <2>2 DEF ApIInv, ApTypes
  <2>4. ApCallInv' /\ ApEventInv' /\ ApBudgetInv'
    BY <2>1 DEF ApIInv, ApCallInv, ApEventInv, ApBudgetInv, ApLive, ApFits, ApStarts, EventCount, ApHolds,
                ApStarters, ApAskers, RunsToday, EnactDecisions, ApPending, ApWaits, ApRoom
  <2> QED  BY <2>3, <2>4 DEF ApIInv
<1>2. CASE DayPasses
  <2>1. /\ UNCHANGED <<apInFlight, apCall, apPolicy, apEvents>>
        /\ apDecision' = [d \in Decisions |-> [apDecision[d] EXCEPT !.today = FALSE]]
    BY <1>2 DEF DayPasses
  <2>2. ASSUME NEW d \in Decisions
        PROVE  /\ apDecision'[d] \in [verdict : ApVerdicts \cup {"none"}, hash : Nat, today : BOOLEAN]
               /\ apDecision'[d].verdict = apDecision[d].verdict /\ ~apDecision'[d].today
    <3>1. apDecision[d] \in [verdict : ApVerdicts \cup {"none"}, hash : Nat, today : BOOLEAN]
      BY DEF ApIInv, ApTypes
    <3> QED  BY <2>1, <3>1
  <2>3. ApTypes'
    BY <2>1, <2>2 DEF ApIInv, ApTypes
  <2>4. /\ \A d \in Decisions : ApStarts(d)' = ApStarts(d)
        /\ \A c \in Calls : apCall'[c] = apCall[c] /\ (ApLive(c)' <=> ApLive(c))
        /\ \A c \in Calls, d \in Decisions : ApHolds(c, d)' <=> ApHolds(c, d)
    BY <2>1 DEF ApStarts, EventCount, ApLive, ApHolds
  <2>5. ApCallInv'
    <3>1. ASSUME NEW c \in Calls, ApLive(c)' PROVE ApFits(apCall[c])'
      <4>1. ApFits(apCall[c]) /\ ApLive(c)
        BY <2>4, <3>1 DEF ApIInv, ApCallInv
      <4>2. \A d \in apCall[c].decision : d \in Decisions
        BY <4>1, ApKinds DEF ApIInv, ApChosen
      <4> QED  BY <2>2, <2>4, <4>1, <4>2 DEF ApFits
    <3> QED  BY <2>4, <3>1 DEF ApIInv, ApCallInv
  <2>6. ApEventInv'
    <3>1. ASSUME NEW d \in Decisions
          PROVE  ApStarters(d)' = ApStarters(d) /\ ApAskers(d)' = ApAskers(d)
      BY <2>4 DEF ApStarters, ApAskers
    <3>2. \A d \in Decisions, k \in Counted : EventCount(d, k)' = EventCount(d, k)
      BY <2>1 DEF EventCount
    <3> QED  BY <2>2, <2>3, <2>4, <3>1, <3>2, ApEventFrame DEF ApIInv, Counted
  <2>7. ApBudgetInv'
    <3>1. {d \in EnactDecisions : apDecision[d].today}' = {}
      BY <2>2 DEF EnactDecisions
    <3>2. RunsToday' = 0 /\ RunsToday \in Nat
      BY <3>1, FS_EmptySet, ApRunsCounted DEF RunsToday, EnactDecisions
    <3>3. \A e \in Calls, j \in 1 .. PassLimit : ApWaits(e, j)' => ApWaits(e, j)
      BY <2>4 DEF ApWaits
    <3> QED  BY <3>2, <3>3, ApBudgetRest DEF ApIInv
  <2> QED  BY <2>3, <2>5, <2>6, <2>7 DEF ApIInv
<1>3. CASE ServerCrash
  <2>1. /\ UNCHANGED <<apPolicy, apDecision, apEvents>> /\ apInFlight' = 0
        /\ apCall' = [c \in Calls |-> NoCall]
    BY <1>3 DEF ServerCrash
  <2>2. NoCall \in ApEnds /\ NoCall.pc \notin ApPcs
    BY DEF NoCall, ApEnds, ApPcs
  <2>3. ApTypes'
    BY <2>1, <2>2 DEF ApIInv, ApTypes
  <2>4. \A c \in Calls : ~ApLive(c)'
    BY <2>1, <2>2 DEF ApLive
  <2>5. ApCallInv'
    BY <2>4 DEF ApCallInv, ApHolds
  <2>6. ApEventInv'
    <3>1. \A d \in Decisions : ApStarters(d)' = {} /\ ApAskers(d)' = {}
      BY <2>4 DEF ApStarters, ApAskers, ApHolds
    <3>2. \A d \in Decisions, k \in Counted : EventCount(d, k)' = EventCount(d, k)
      BY <2>1 DEF EventCount
    <3> QED  BY <2>1, <2>3, <3>1, <3>2, ApEventFrame DEF ApIInv, Counted, ApStarts
  <2>7. ApBudgetInv'
    <3>1. RunsToday' = RunsToday /\ RunsToday \in Nat
      BY <2>1, ApRunsCounted DEF RunsToday, EnactDecisions
    <3>2. \A e \in Calls, j \in 1 .. PassLimit : ~ApWaits(e, j)'
      BY <2>4 DEF ApWaits
    <3> QED  BY <3>1, <3>2, ApBudgetRest DEF ApIInv
  <2> QED  BY <2>3, <2>5, <2>6, <2>7 DEF ApIInv
<1> QED  BY <1>1, <1>2, <1>3

(* Every step keeps what the calls and the tables know of each other. *)
LEMMA ApIInvStep == ASSUME ApIInv, [ApNext]_apVars PROVE ApIInv'
<1>1. CASE UNCHANGED apVars
  BY <1>1 DEF apVars, ApIInv, ApTypes, ApCallInv, ApEventInv, ApBudgetInv, ApLive, ApFits, ApStarts,
              EventCount, ApHolds, ApStarters, ApAskers, RunsToday, EnactDecisions, ApPending, ApWaits, ApRoom
<1>2. CASE PolicyEdit \/ DayPasses \/ ServerCrash
  BY <1>2, ApWorldStep
<1>3. ASSUME NEW c \in Calls, NEW op \in {"run", "run_experiment"}, NEW runs \in BOOLEAN,
             CallTool(c, op, runs, 1)
      PROVE  ApIInv'
  BY <1>3, ApCallToolStep
<1>4. ASSUME NEW c \in Calls, NEW runs \in BOOLEAN, NEW d \in Decisions, CallTool(c, "respond", runs, d)
      PROVE  ApIInv'
  BY <1>4, ApCallToolStep
<1>5. ASSUME NEW c \in Calls,
             TryAcquire(c) \/ FetchAdd(c) \/ LookInFlight(c) \/ DropGuard(c) \/ Unlock(c)
      PROVE  ApIInv'
  BY <1>5, ApLedgerStep
<1>6. ASSUME NEW c \in Calls, apCall[c].pc = "gate",
             NEW verdicts \in BoundedSeq(VerdictsOf(c), PassLimit), Assemble(c, verdicts)
      PROVE  ApIInv'
  BY <1>6, ApAssembleStep
<1>7. ASSUME NEW c \in Calls, NEW d \in Decisions,
             Persist(c, d) \/ RunPlaybook(c, d) \/ RespondCheck(c, d) \/ RespondAnswer(c, d)
      PROVE  ApIInv'
  BY <1>7, ApPersistStep, ApPlaybookStep, ApRespondCheckStep, ApAnswerStep
<1>8. ASSUME NEW c \in Calls, NEW d \in Decisions, NEW rollback \in BOOLEAN, NEW telemetry \in BOOLEAN,
             NEW deviation \in BOOLEAN, Regate(c, d, rollback, telemetry, deviation)
      PROVE  ApIInv'
  BY <1>8, ApRegateStep
<1>9. ASSUME NEW c \in Calls, NEW outcome, RunEnds(c, outcome) PROVE ApIInv'
  BY <1>9, ApRunEndsStep
<1> QED  BY <1>1, <1>2, <1>3, <1>4, <1>5, <1>6, <1>7, <1>8, <1>9 DEF ApNext

(* At the start nothing is recorded and nothing is called. *)
LEMMA ApIInvInit == ApInit => ApIInv
<1> SUFFICES ASSUME ApInit PROVE ApIInv
  OBVIOUS
<1>1. NoCall \in ApEnds /\ NoCall.pc \notin ApPcs
  BY DEF NoCall, ApEnds, ApPcs
<1>2. ApTypes
  <2>1. \E version \in Nat, enabled, trusted \in BOOLEAN : apPolicy = Policy(version, enabled, trusted)
    <3>1. PICK enabled \in BOOLEAN : apPolicy = Policy(1, enabled, TRUE)
      BY DEF ApInit
    <3>2. 1 \in Nat /\ TRUE \in BOOLEAN
      OBVIOUS
    <3> QED  BY <3>1, <3>2, Zenon
  <2> QED  BY <1>1, <2>1 DEF ApInit, ApTypes, NoDecision, ApKindsOfEvent
<1>3. \A c \in Calls : ~ApLive(c)
  BY <1>1 DEF ApInit, ApLive
<1>4. ApCallInv
  BY <1>3 DEF ApCallInv, ApHolds
<1>5. ASSUME NEW d \in Decisions
      PROVE  /\ \A k \in Counted : EventCount(d, k) = 0
             /\ ApStarters(d) = {} /\ ApAskers(d) = {} /\ apDecision[d].verdict = "none"
  BY <1>3 DEF ApInit, EventCount, ApStarters, ApAskers, ApHolds, NoDecision
<1>6. ApEventInv
  <2>1. Cardinality({}) = 0
    BY FS_EmptySet
  <2> QED  BY <1>5, <2>1 DEF ApEventInv, ApStarts, Counted
<1>7. ApBudgetInv
  <2>1. EnactDecisions = {}
    BY <1>5 DEF EnactDecisions
  <2>2. {d \in EnactDecisions : apDecision[d].today} = {} /\ ApPending = {}
    BY <1>3, <2>1 DEF ApPending, ApWaits
  <2>3. RunsToday = 0 /\ Cardinality(ApPending) = 0
    BY <2>2, FS_EmptySet DEF RunsToday
  <2>4. ApRoom \in Nat
    BY ApPendingCounted DEF ApPending
  <2> QED  BY <2>3, <2>4 DEF ApBudgetInv
<1> QED  BY <1>2, <1>4, <1>6, <1>7 DEF ApIInv

(* What the tables promise. *)
LEMMA ApEarned == ApIInv => ApRunsEarned
<1> SUFFICES ASSUME ApIInv PROVE ApRunsEarned
  OBVIOUS
<1>1. ASSUME NEW d \in Decisions PROVE ApRunsAccounted!(d)
  <2>1. /\ ApStarts(d) \in Nat /\ EventCount(d, "re_gate_passed") \in Nat
        /\ EventCount(d, "human_approved") \in Nat
        /\ Cardinality(ApStarters(d)) \in Nat /\ Cardinality(ApAskers(d)) \in Nat
    BY ApCallsCounted DEF ApIInv, ApTypes, ApStarts, EventCount, Counted, ApStarters, ApAskers
  <2>2. ApEventInv!(d)
    BY DEF ApIInv, ApEventInv
  <2>3. (\E c \in Running : d \in apCall[c].decision) => ApStarts(d) > 0
    BY DEF Running, ApIInv, ApCallInv, ApLive, ApPcs, ApFits
  <2> QED  BY <2>1, <2>2, <2>3 DEF ApStarts
<1>2. ApBudgetBounded
  <2>1. RunsToday \in Nat /\ Cardinality(ApPending) \in Nat /\ ApRoom \in Nat
    BY ApRunsCounted, ApPendingCounted DEF RunsToday, EnactDecisions, ApPending
  <2>2. RunsToday <= ApRoom
    BY <2>1 DEF ApIInv, ApBudgetInv
  <2> QED  BY <2>2 DEF ApBudgetBounded, ApRoom
<1> QED  BY <1>1, <1>2 DEF ApRunsEarned, ApRunsAccounted

(* Nothing runs without its record, and the budget is exceeded by at most what
   the passes that read it together may add (enact.rs, tools/autopilot). *)
THEOREM RunsEarnedAlways == ApSpec => []ApRunsEarned
BY ApIInvInit, ApIInvStep, ApEarned, PTL DEF ApSpec
-----------------------------------------------------------------------------
(* The faults of an agent: the engine, the proxy, a trajectory.               *)
(* The greatest of one number and of the first two. *)
LEMMA MaxOfOne == Max({1}) = 1 /\ Max({2}) = 2 /\ Max({1, 2}) = 2 BY DEF Max

(* The engine applies one fault to its baseline. *)
LEMMA AgEngineOne ==
    ASSUME NEW base, NEW s, DOMAIN s = {1}
    PROVE  FoldLeft(ApplyFault, base, s) = ApplyFault(base, s[1])
<1> DEFINE Nx(it, t) == IF t = {} THEN base ELSE ApplyFault(it[t \ {Max(t)}], s[Max(t)])
           Good(it) == it = [t \in SUBSET {1} |-> Nx(it, t)]
           F == CHOOSE it : Good(it)
           W == [t \in SUBSET {1} |-> IF t = {} THEN base ELSE ApplyFault(base, s[1])]
<1>1. FoldLeft(ApplyFault, base, s) = F[{1}]
  BY DEF FoldLeft, MapThenFoldSet
<1>2. Good(W)
  <2>1. W[{}] = base OBVIOUS
  <2>2. ASSUME NEW t \in SUBSET {1} PROVE W[t] = Nx(W, t)
    <3>1. CASE t = {} BY <3>1
    <3>2. CASE t = {1}
      <4>1. t \ {Max(t)} = {} /\ Max(t) = 1 BY <3>2, MaxOfOne
      <4> QED BY <4>1, <3>2, <2>1
    <3> QED BY <3>1, <3>2
  <2> QED BY <2>2
<1>3. Good(F) BY <1>2
<1> HIDE DEF F
<1>4. F[{}] = base /\ F[{1}] = Nx(F, {1}) BY <1>3
<1>5. F[{1}] = ApplyFault(base, s[1])
  BY <1>4, MaxOfOne
<1> QED BY <1>1, <1>5

(* Of two faults the second is applied to what the first left. *)
LEMMA AgEngineTwo ==
    ASSUME NEW base, NEW s, DOMAIN s = {1, 2}
    PROVE  FoldLeft(ApplyFault, base, s) = ApplyFault((ApplyFault(base, s[1])), s[2])
<1> DEFINE Nx(it, t) == IF t = {} THEN base ELSE ApplyFault(it[t \ {Max(t)}], s[Max(t)])
           Good(it) == it = [t \in SUBSET {1, 2} |-> Nx(it, t)]
           F == CHOOSE it : Good(it)
           first == ApplyFault(base, s[1])
           W == [t \in SUBSET {1, 2} |-> IF t = {} THEN base ELSE IF t = {1} THEN first
                    ELSE IF t = {2} THEN ApplyFault(base, s[2]) ELSE ApplyFault(first, s[2])]
<1>1. FoldLeft(ApplyFault, base, s) = F[{1, 2}]
  BY DEF FoldLeft, MapThenFoldSet
<1>2. Good(W)
  <2> HIDE DEF first
  <2>1. W[{}] = base /\ W[{1}] = first OBVIOUS
  <2>2. ASSUME NEW t \in SUBSET {1, 2} PROVE W[t] = Nx(W, t)
    <3>1. CASE t = {} BY <3>1
    <3>2. CASE t = {1}
      <4>1. t \ {Max(t)} = {} /\ Max(t) = 1 BY <3>2, MaxOfOne
      <4> QED BY <4>1, <3>2, <2>1 DEF first
    <3>3. CASE t = {2}
      <4>1. t \ {Max(t)} = {} /\ Max(t) = 2 BY <3>3, MaxOfOne
      <4> QED BY <4>1, <3>3, <2>1
    <3>4. CASE t = {1, 2}
      <4>1. t \ {Max(t)} = {1} /\ Max(t) = 2 BY <3>4, MaxOfOne
      <4> QED BY <4>1, <3>4, <2>1
    <3> QED BY <3>1, <3>2, <3>3, <3>4
  <2> QED BY <2>2
<1>3. Good(F) BY <1>2
<1> HIDE DEF F
<1>4. F[{}] = base /\ F[{1}] = Nx(F, {1}) /\ F[{1, 2}] = Nx(F, {1, 2}) BY <1>3
<1>5. F[{1}] = first
  BY <1>4, MaxOfOne
<1> HIDE DEF first
<1>6. F[{1, 2}] = ApplyFault(first, s[2])
  <2>1. {1, 2} \ {Max({1, 2})} = {1} /\ Max({1, 2}) = 2 BY MaxOfOne
  <2> QED BY <1>4, <1>5, <2>1
<1> QED BY <1>1, <1>6 DEF first

(* What the proxy makes of a response for one fault. *)
AgMutated(r, f) == IF f.type \in BodyFaults THEN ApplyFault(r, f) ELSE r

(* The proxy applies one fault of a body, and leaves another out. *)
LEMMA AgMutateOne ==
    ASSUME NEW base, NEW s, DOMAIN s = {1}
    PROVE  FoldLeft(LAMBDA r, f : IF f.type \in BodyFaults THEN ApplyFault(r, f) ELSE r, base, s)
             = AgMutated(base, s[1])
<1> DEFINE Nx(it, t) == IF t = {} THEN base ELSE AgMutated(it[t \ {Max(t)}], s[Max(t)])
           Good(it) == it = [t \in SUBSET {1} |-> Nx(it, t)]
           F == CHOOSE it : Good(it)
           W == [t \in SUBSET {1} |-> IF t = {} THEN base ELSE AgMutated(base, s[1])]
<1>1. FoldLeft(LAMBDA r, f : IF f.type \in BodyFaults THEN ApplyFault(r, f) ELSE r, base, s) = F[{1}]
  BY DEF FoldLeft, MapThenFoldSet, AgMutated
<1>2. Good(W)
  <2>1. W[{}] = base OBVIOUS
  <2>2. ASSUME NEW t \in SUBSET {1} PROVE W[t] = Nx(W, t)
    <3>1. CASE t = {} BY <3>1
    <3>2. CASE t = {1}
      <4>1. t \ {Max(t)} = {} /\ Max(t) = 1 BY <3>2, MaxOfOne
      <4> QED BY <4>1, <3>2, <2>1
    <3> QED BY <3>1, <3>2
  <2> QED BY <2>2
<1>3. Good(F) BY <1>2
<1> HIDE DEF F
<1>4. F[{}] = base /\ F[{1}] = Nx(F, {1}) BY <1>3
<1>5. F[{1}] = AgMutated(base, s[1])
  BY <1>4, MaxOfOne
<1> QED BY <1>1, <1>5

(* Of two faults it applies those of a body, in their order. *)
LEMMA AgMutateTwo ==
    ASSUME NEW base, NEW s, DOMAIN s = {1, 2}
    PROVE  FoldLeft(LAMBDA r, f : IF f.type \in BodyFaults THEN ApplyFault(r, f) ELSE r, base, s)
             = AgMutated(AgMutated(base, s[1]), s[2])
<1> DEFINE Nx(it, t) == IF t = {} THEN base ELSE AgMutated(it[t \ {Max(t)}], s[Max(t)])
           Good(it) == it = [t \in SUBSET {1, 2} |-> Nx(it, t)]
           F == CHOOSE it : Good(it)
           first == AgMutated(base, s[1])
           W == [t \in SUBSET {1, 2} |-> IF t = {} THEN base ELSE IF t = {1} THEN first
                    ELSE IF t = {2} THEN AgMutated(base, s[2])
                    ELSE AgMutated(first, s[2])]
<1>1. FoldLeft(LAMBDA r, f : IF f.type \in BodyFaults THEN ApplyFault(r, f) ELSE r, base, s) = F[{1, 2}]
  BY DEF FoldLeft, MapThenFoldSet, AgMutated
<1>2. Good(W)
  <2> HIDE DEF first
  <2>1. W[{}] = base /\ W[{1}] = first OBVIOUS
  <2>2. ASSUME NEW t \in SUBSET {1, 2} PROVE W[t] = Nx(W, t)
    <3>1. CASE t = {} BY <3>1
    <3>2. CASE t = {1}
      <4>1. t \ {Max(t)} = {} /\ Max(t) = 1 BY <3>2, MaxOfOne
      <4> QED BY <4>1, <3>2, <2>1 DEF first
    <3>3. CASE t = {2}
      <4>1. t \ {Max(t)} = {} /\ Max(t) = 2 BY <3>3, MaxOfOne
      <4> QED BY <4>1, <3>3, <2>1
    <3>4. CASE t = {1, 2}
      <4>1. t \ {Max(t)} = {1} /\ Max(t) = 2 BY <3>4, MaxOfOne
      <4> QED BY <4>1, <3>4, <2>1
    <3> QED BY <3>1, <3>2, <3>3, <3>4
  <2> QED BY <2>2
<1>3. Good(F) BY <1>2
<1> HIDE DEF F
<1>4. F[{}] = base /\ F[{1}] = Nx(F, {1}) /\ F[{1, 2}] = Nx(F, {1, 2}) BY <1>3
<1>5. F[{1}] = first
  BY <1>4, MaxOfOne
<1> HIDE DEF first
<1>6. F[{1, 2}] = AgMutated(first, s[2])
  <2>1. {1, 2} \ {Max({1, 2})} = {1} /\ Max({1, 2}) = 2 BY MaxOfOne
  <2> QED BY <1>4, <1>5, <2>1
<1> QED BY <1>1, <1>6 DEF first

(* One turn of a trajectory, with the response that its faults leave; and with
   the response that its only fault leaves. *)
AgTurnWith(pack, run, i, r) ==
    LET step == pack.steps[i]
        docs == run.docs \cup r.docs
        seen == IF step.consumes /\ "poisoned" \in docs THEN [r EXCEPT !.body = "ungrounded"] ELSE r
    IN  [docs |-> docs,
         steps |-> Append(run.steps,
              [healthy |-> \A c \in DOMAIN step.contracts : Holds(step.contracts[c], seen),
               verdicts |-> AgVerdicts(step.contracts, seen),
               signature |-> <<step.label, seen.tool, seen.body>>])]
AgTurnOf(pack, fired, run, i) ==
    AgTurnWith(pack, run, i, IF pack.faults[1].at = i /\ pack.faults[1] \in fired
                             THEN ApplyFault(pack.steps[i].base, pack.faults[1].fault)
                             ELSE pack.steps[i].base)

(* A step takes the one fault of a trajectory when it is for it and the gate
   let it through. *)
LEMMA AgTurnOne ==
    ASSUME NEW pack, NEW fired, NEW run, NEW i, DOMAIN pack.faults = {1}
    PROVE  TrajectoryTurn(pack, fired, run, i) = AgTurnOf(pack, fired, run, i)
<1> DEFINE s == pack.faults
           base == pack.steps[i].base
<1>0. DOMAIN s = {1} OBVIOUS
<1> HIDE DEF s, base
<1> DEFINE Nx(it, t) == IF t = {} THEN base ELSE (IF s[Max(t)].at = i /\ s[Max(t)] \in fired
                     THEN ApplyFault(it[t \ {Max(t)}], s[Max(t)].fault) ELSE it[t \ {Max(t)}])
           Good(it) == it = [t \in SUBSET {1} |-> Nx(it, t)]
           F == CHOOSE it : Good(it)
           W == [t \in SUBSET {1} |-> IF t = {} THEN base ELSE (IF s[1].at = i /\ s[1] \in fired
                     THEN ApplyFault(base, s[1].fault) ELSE base)]
<1>1. FoldLeft(LAMBDA x, sf : IF sf.at = i /\ sf \in fired THEN ApplyFault(x, sf.fault) ELSE x,
                    base, s) = F[{1}]
  BY <1>0 DEF FoldLeft, MapThenFoldSet
<1>2. Good(W)
  <2>1. W[{}] = base OBVIOUS
  <2>2. ASSUME NEW t \in SUBSET {1} PROVE W[t] = Nx(W, t)
    <3>1. CASE t = {} BY <3>1
    <3>2. CASE t = {1}
      <4>1. t \ {Max(t)} = {} /\ Max(t) = 1 BY <3>2, MaxOfOne
      <4> QED BY <4>1, <3>2, <2>1
    <3> QED BY <3>1, <3>2
  <2> QED BY <2>2
<1>3. Good(F) BY <1>2
<1> HIDE DEF F
<1>4. F[{}] = base /\ F[{1}] = Nx(F, {1}) BY <1>3
<1>5. F[{1}] = (IF s[1].at = i /\ s[1] \in fired THEN ApplyFault(base, s[1].fault) ELSE base)
  BY <1>4, MaxOfOne
<1> DEFINE r == FoldLeft(LAMBDA x, sf : IF sf.at = i /\ sf \in fired THEN ApplyFault(x, sf.fault) ELSE x,
                    base, s)
           left == (IF s[1].at = i /\ s[1] \in fired THEN ApplyFault(base, s[1].fault) ELSE base)
<1>6. r = left BY <1>1, <1>5, Zenon
<1>7. TrajectoryTurn(pack, fired, run, i) = AgTurnWith(pack, run, i, r)
  BY Zenon DEF TrajectoryTurn, AgTurnWith, s, base
<1>8. AgTurnOf(pack, fired, run, i) = AgTurnWith(pack, run, i, left)
  BY Zenon DEF AgTurnOf, s, base
<1> HIDE DEF r, left
<1> QED BY <1>6, <1>7, <1>8, Zenon

(* A sequence over its own range stays one, and keeps its elements. *)
LEMMA AgAppended ==
    ASSUME NEW s, s \in Seq(Range(s)), NEW x
    PROVE  /\ Append(s, x) \in Seq(Range(Append(s, x)))
           /\ Len(Append(s, x)) = Len(s) + 1 /\ Len(s) \in Nat
           /\ \A i \in 1 .. Len(s) : Append(s, x)[i] = s[i]
           /\ Append(s, x)[Len(s) + 1] = x
<1> DEFINE T == Range(s) \cup {x}
           a == Append(s, x)
<1>1. s \in Seq(T) /\ x \in T OBVIOUS
<1>2. a \in Seq(T) /\ Len(a) = Len(s) + 1 /\ Len(s) \in Nat
  BY <1>1
<1>3. (\A i \in 1 .. Len(s) : a[i] = s[i]) /\ a[Len(s) + 1] = x
  BY <1>1
<1>4. a \in Seq(Range(a))
  <2>1. DOMAIN a = 1 .. Len(a) BY <1>2
  <2>2. \A i \in 1 .. Len(a) : a[i] \in Range(a) BY <2>1 DEF Range
  <2> HIDE DEF a, T
  <2> QED BY <1>2, <2>1, <2>2
<1> QED BY <1>2, <1>3, <1>4

(* The fields of a response. *)
AgFields == {"body", "latency", "retries", "calls", "in", "out", "fallback", "tool", "docs"}

(* A response has them, and the body it is made of. *)
LEMMA AgResponseFields ==
    \A body : DOMAIN Response(body) = AgFields /\ Response(body).body = body
              /\ Response(body).docs = {}
  BY DEF Response, AgFields

(* Which packs short-circuit. *)
LEMMA AgPackFacts ==
    /\ DOMAIN AgPacks = {"storm", "hallucination", "cost", "malformed", "fallback", "poisoning"}
    /\ AgShort(AgPacks["storm"]) /\ AgShort(AgPacks["hallucination"])
<1>1. DOMAIN AgPacks = {"storm", "hallucination", "cost", "malformed", "fallback", "poisoning"}
  BY DEF AgPacks
<1>2. AgPacks["storm"].faults[1].type = "rate_limit" /\ DOMAIN AgPacks["storm"].faults = {1, 2}
  BY DEF AgPacks, AgFault
<1>3. AgPacks["hallucination"].faults[1].type = "model_timeout" /\ DOMAIN AgPacks["hallucination"].faults = {1, 2}
  BY DEF AgPacks, AgFault
<1> QED BY <1>1, <1>2, <1>3 DEF AgShort, ShortCircuits

(* Without a short circuit the proxy leaves the body that the engine leaves. *)
LEMMA AgBodiesAgree ==
    ASSUME NEW p \in DOMAIN AgPacks, ~AgShort(AgPacks[p]), NEW up
    PROVE  MutateBody(AgPacks[p], up) = AgEngine(AgPacks[p], Response(up)).body
<1> DEFINE s == AgPacks[p].faults
           base == Response(up)
<1>0. DOMAIN base = AgFields /\ base.body = up BY AgResponseFields
<1>1. p \in {"cost", "malformed", "fallback", "poisoning"} BY AgPackFacts
<1>m. MutateBody(AgPacks[p], up)
        = FoldLeft(LAMBDA r, f : IF f.type \in BodyFaults THEN ApplyFault(r, f) ELSE r, base, s).body
  BY Zenon DEF MutateBody
<1>e. AgEngine(AgPacks[p], Response(up)) = FoldLeft(ApplyFault, base, s)
  BY Zenon DEF AgEngine
<1>2. CASE p = "cost"
  <2>1. /\ DOMAIN s = {1, 2} /\ s[1].type = "token_budget_exhaustion" /\ s[2].type = "retry_loop_pressure"
    BY <1>2 DEF AgPacks, AgFault
  <2> HIDE DEF s, base
  <2>2. ApplyFault(base, s[1]).body = up /\ DOMAIN ApplyFault(base, s[1]) = AgFields
    BY <1>0, <2>1 DEF ApplyFault, AgFields
  <2>3. ApplyFault(ApplyFault(base, s[1]), s[2]).body = up
    BY <2>1, <2>2 DEF ApplyFault, AgFields
  <2>4. FoldLeft(ApplyFault, base, s).body = up BY <2>1, <2>3, AgEngineTwo, Zenon
  <2>5. FoldLeft(LAMBDA r, f : IF f.type \in BodyFaults THEN ApplyFault(r, f) ELSE r, base, s)
          = AgMutated(AgMutated(base, s[1]), s[2])
    BY <2>1, AgMutateTwo, Zenon
  <2>6. s[1].type \notin BodyFaults /\ s[2].type \notin BodyFaults BY <2>1 DEF BodyFaults
  <2> QED BY <1>0, <1>m, <1>e, <2>4, <2>5, <2>6 DEF AgMutated
<1>3. CASE p = "fallback"
  <2>1. /\ DOMAIN s = {1, 2} /\ s[1].type = "tool_latency" /\ s[2].type = "tool_failure"
    BY <1>3 DEF AgPacks, AgFault
  <2> HIDE DEF s, base
  <2>2. DOMAIN ApplyFault(base, s[1]) = AgFields
    BY <1>0, <2>1 DEF ApplyFault, AgFields
  <2>3. ApplyFault(ApplyFault(base, s[1]), s[2]).body = "error" /\ ApplyFault(base, s[2]).body = "error"
    BY <1>0, <2>1, <2>2 DEF ApplyFault, AgFields
  <2>4. FoldLeft(ApplyFault, base, s).body = "error" BY <2>1, <2>3, AgEngineTwo, Zenon
  <2>5. FoldLeft(LAMBDA r, f : IF f.type \in BodyFaults THEN ApplyFault(r, f) ELSE r, base, s)
          = AgMutated(AgMutated(base, s[1]), s[2])
    BY <2>1, AgMutateTwo, Zenon
  <2>6. s[1].type \notin BodyFaults /\ s[2].type \in BodyFaults BY <2>1 DEF BodyFaults
  <2> QED BY <1>m, <1>e, <2>3, <2>4, <2>5, <2>6 DEF AgMutated
<1>4. CASE p \in {"malformed", "poisoning"}
  <2>1. DOMAIN s = {1} /\ s[1].type \in {"malformed_output", "retrieval_poisoning"}
    BY <1>4 DEF AgPacks, AgFault
  <2> HIDE DEF s, base
  <2>2. FoldLeft(ApplyFault, base, s) = ApplyFault(base, s[1]) BY <2>1, AgEngineOne, Zenon
  <2>3. FoldLeft(LAMBDA r, f : IF f.type \in BodyFaults THEN ApplyFault(r, f) ELSE r, base, s)
          = AgMutated(base, s[1])
    BY <2>1, AgMutateOne, Zenon
  <2>4. s[1].type \in BodyFaults BY <2>1 DEF BodyFaults
  <2> QED BY <1>m, <1>e, <2>2, <2>3, <2>4 DEF AgMutated
<1> QED BY <1>1, <1>2, <1>3, <1>4

(* Without a short circuit the proxy changes a body exactly when the pack has a fault
   of the body. *)
LEMMA AgListedShow ==
    ASSUME NEW p \in DOMAIN AgPacks, ~AgShort(AgPacks[p]), NEW up \in {"cited", "plain", "text"}
    PROVE  MutateBody(AgPacks[p], up) # up
             <=> \E k \in DOMAIN AgApplied(AgPacks[p]) : AgApplied(AgPacks[p])[k] \in BodyFaults
<1> DEFINE s == AgPacks[p].faults
           base == Response(up)
<1>0. DOMAIN base = AgFields /\ base.body = up BY AgResponseFields
<1>1. p \in {"cost", "malformed", "fallback", "poisoning"} BY AgPackFacts
<1>m. MutateBody(AgPacks[p], up)
        = FoldLeft(LAMBDA r, f : IF f.type \in BodyFaults THEN ApplyFault(r, f) ELSE r, base, s).body
  BY Zenon DEF MutateBody
<1>a. DOMAIN AgApplied(AgPacks[p]) = DOMAIN s /\ \A k \in DOMAIN s : AgApplied(AgPacks[p])[k] = s[k].type
  BY DEF AgApplied
<1>2. CASE p \in {"cost", "fallback"}
  <2>1. /\ DOMAIN s = {1, 2} /\ s[1].type \in {"token_budget_exhaustion", "tool_latency"}
        /\ s[2].type \in {"retry_loop_pressure", "tool_failure"}
    BY <1>2 DEF AgPacks, AgFault
  <2> HIDE DEF s, base
  <2>2. FoldLeft(LAMBDA r, f : IF f.type \in BodyFaults THEN ApplyFault(r, f) ELSE r, base, s)
          = AgMutated(AgMutated(base, s[1]), s[2])
    BY <2>1, AgMutateTwo, Zenon
  <2>3. AgMutated(base, s[1]) = base BY <2>1 DEF AgMutated, BodyFaults
  <2>4. s[2].type = "tool_failure" => AgMutated(base, s[2]).body = "error"
    BY <1>0 DEF AgMutated, BodyFaults, ApplyFault, AgFields
  <2>5. s[2].type # "tool_failure" => AgMutated(base, s[2]).body = up /\ s[2].type \notin BodyFaults
    BY <1>0, <2>1 DEF AgMutated, BodyFaults
  <2>6. s[1].type \notin BodyFaults BY <2>1 DEF BodyFaults
  <2>7. MutateBody(AgPacks[p], up) # up <=> s[2].type \in BodyFaults
    BY <1>m, <2>2, <2>3, <2>4, <2>5 DEF BodyFaults
  <2> QED BY <1>a, <2>1, <2>6, <2>7
<1>3. CASE p \in {"malformed", "poisoning"}
  <2>1. DOMAIN s = {1} /\ s[1].type \in {"malformed_output", "retrieval_poisoning"}
    BY <1>3 DEF AgPacks, AgFault
  <2> HIDE DEF s, base
  <2>2. FoldLeft(LAMBDA r, f : IF f.type \in BodyFaults THEN ApplyFault(r, f) ELSE r, base, s)
          = AgMutated(base, s[1])
    BY <2>1, AgMutateOne, Zenon
  <2>3. AgMutated(base, s[1]).body \in {"malformed", "poisoned"} /\ s[1].type \in BodyFaults
    BY <1>0, <2>1 DEF AgMutated, BodyFaults, ApplyFault, AgFields
  <2> QED BY <1>a, <1>m, <2>1, <2>2, <2>3
<1> QED BY <1>1, <1>2, <1>3

(* So has the baseline of a trajectory's step. *)
LEMMA AgBaseFields ==
    \A body : DOMAIN [Response(body) EXCEPT !.latency = 40, !.calls = 1] = AgFields
<1> TAKE body
<1> DEFINE r == Response(body)
<1>1. DOMAIN r = AgFields BY AgResponseFields
<1> HIDE DEF r
<1>2. DOMAIN [r EXCEPT !.latency = 40, !.calls = 1] = AgFields BY <1>1
<1> QED BY <1>2 DEF r

(* What the bundled trajectories have in common. *)
LEMMA AgTrajectoryFacts ==
    ASSUME NEW t \in DOMAIN AgTrajectories
    PROVE  LET p == AgTrajectories[t] IN
           /\ DOMAIN p.faults = {1} /\ p.faults[1].at \in Nat \ {0}
           /\ p.faults[1].fault.type \in {"retrieval_poisoning", "retry_loop_pressure", "tool_failure"}
           /\ Len(p.steps) \in Nat /\ DOMAIN p.steps = 1 .. Len(p.steps)
           /\ \A i \in DOMAIN p.steps : /\ DOMAIN p.steps[i].base = AgFields
                                        /\ p.steps[i].consumes => \E c \in DOMAIN p.steps[i].contracts :
                                              p.steps[i].contracts[c].type = "required_citation"
<1>0. DOMAIN AgTrajectories = {"rag", "reflection", "cascade"} BY DEF AgTrajectories
<1>1. CASE t = "rag"
  <2> DEFINE p == rag_grounding_failure_pack
  <2>1. AgTrajectories[t] = p BY <1>1 DEF AgTrajectories
  <2>2. DOMAIN p.faults = {1} /\ p.faults[1].at = 1 /\ p.faults[1].fault.type = "retrieval_poisoning"
    BY DEF rag_grounding_failure_pack, StepFault, AgFault
  <2>3. Len(p.steps) = 3 /\ DOMAIN p.steps = 1 .. 3
    BY DEF rag_grounding_failure_pack
  <2>4. \A i \in 1 .. 3 : DOMAIN p.steps[i].base = AgFields
    <3>1. p.steps[1].base = [Response("cited") EXCEPT !.latency = 40, !.calls = 1]
          /\ p.steps[2].base = [Response("plain") EXCEPT !.latency = 40, !.calls = 1]
          /\ p.steps[3].base = [Response("cited") EXCEPT !.latency = 40, !.calls = 1]
      BY DEF rag_grounding_failure_pack, AgStep
    <3>2. 1 .. 3 = {1, 2, 3} OBVIOUS
    <3> HIDE DEF p
    <3> QED BY <3>1, <3>2, AgBaseFields
  <2>5. ~p.steps[1].consumes /\ ~p.steps[2].consumes
        /\ 1 \in DOMAIN p.steps[3].contracts /\ p.steps[3].contracts[1].type = "required_citation"
    BY DEF rag_grounding_failure_pack, AgStep, AgContract
  <2> HIDE DEF p
  <2> QED BY <2>1, <2>2, <2>3, <2>4, <2>5
<1>2. CASE t = "reflection"
  <2> DEFINE p == reflection_loop_pack
  <2>1. AgTrajectories[t] = p BY <1>2 DEF AgTrajectories
  <2>2. DOMAIN p.faults = {1} /\ p.faults[1].at = 1 /\ p.faults[1].fault.type = "retry_loop_pressure"
    BY DEF reflection_loop_pack, StepFault, AgFault
  <2>3. Len(p.steps) = 4 /\ DOMAIN p.steps = 1 .. 4
    BY DEF reflection_loop_pack
  <2>4. \A i \in 1 .. 4 : DOMAIN p.steps[i].base = AgFields
    <3>1. p.steps[1].base = [Response("plain") EXCEPT !.latency = 40, !.calls = 1]
          /\ p.steps[2].base = [Response("plain") EXCEPT !.latency = 40, !.calls = 1]
          /\ p.steps[3].base = [Response("plain") EXCEPT !.latency = 40, !.calls = 1]
          /\ p.steps[4].base = [Response("plain") EXCEPT !.latency = 40, !.calls = 1]
      BY DEF reflection_loop_pack, AgStep
    <3>2. 1 .. 4 = {1, 2, 3, 4} OBVIOUS
    <3> HIDE DEF p
    <3> QED BY <3>1, <3>2, AgBaseFields
  <2>5. \A i \in 1 .. 4 : ~p.steps[i].consumes
    BY DEF reflection_loop_pack, AgStep
  <2> HIDE DEF p
  <2> QED BY <2>1, <2>2, <2>3, <2>4, <2>5
<1>3. CASE t = "cascade"
  <2> DEFINE p == multi_tool_cascade_pack
  <2>1. AgTrajectories[t] = p BY <1>3 DEF AgTrajectories
  <2>2. DOMAIN p.faults = {1} /\ p.faults[1].at = 2 /\ p.faults[1].fault.type = "tool_failure"
    BY DEF multi_tool_cascade_pack, StepFault, AgFault
  <2>3. Len(p.steps) = 3 /\ DOMAIN p.steps = 1 .. 3
    BY DEF multi_tool_cascade_pack
  <2>4. \A i \in 1 .. 3 : DOMAIN p.steps[i].base = AgFields
    <3> DEFINE last == [Response("cited") EXCEPT !.latency = 40, !.calls = 1]
    <3>1. p.steps[1].base = [Response("cited") EXCEPT !.latency = 40, !.calls = 1]
          /\ p.steps[2].base = [Response("plain") EXCEPT !.latency = 40, !.calls = 1]
          /\ p.steps[3].base = [last EXCEPT !.fallback = TRUE]
      BY DEF multi_tool_cascade_pack, AgStep
    <3>2. DOMAIN last = AgFields BY AgBaseFields
    <3> HIDE DEF last, p
    <3>3. DOMAIN p.steps[3].base = AgFields BY <3>1, <3>2
    <3>4. 1 .. 3 = {1, 2, 3} OBVIOUS
    <3> QED BY <3>1, <3>3, <3>4, AgBaseFields
  <2>5. \A i \in 1 .. 3 : ~p.steps[i].consumes
    BY DEF multi_tool_cascade_pack, AgStep
  <2> HIDE DEF p
  <2> QED BY <2>1, <2>2, <2>3, <2>4, <2>5
<1> QED BY <1>0, <1>1, <1>2, <1>3

(* A line of the journal, and the request that it is of. *)
AgLineOf(reqs, pack, line) ==
    /\ line.req \in AgRequests /\ reqs[line.req].pc = "answered"
    /\ line.faults = AgApplied(AgPacks[pack])
    /\ line.verdicts = AgVerdicts(AgPacks[pack].contracts,
                                  AgObserved(reqs[line.req].body, line.latency))
AgLinesInv ==
    /\ agLines \in Seq(Range(agLines))
    /\ \A i \in DOMAIN agLines : AgLineOf(agReq, agPack, agLines[i])
    /\ \A i, j \in DOMAIN agLines : agLines[i].req = agLines[j].req => i = j
    /\ \A q \in AgRequests : agReq[q].pc = "answered" => \E i \in DOMAIN agLines : agLines[i].req = q

(* What the bodies, the journal and the trajectory keep of the faults. *)
AgIInv ==
    /\ agPack \in DOMAIN AgPacks /\ agTraj \in DOMAIN AgTrajectories
    /\ DOMAIN agReq = AgRequests
    /\ \A q \in AgRequests :
         /\ DOMAIN agReq[q] = {"pc", "up", "body"}
         /\ agReq[q].up # "none" =>
               /\ agReq[q].pc \in {"answered", "unrecorded"} /\ ~AgShort(AgPacks[agPack])
               /\ agReq[q].up \in {"cited", "plain", "text"}
               /\ agReq[q].body = MutateBody(AgPacks[agPack], agReq[q].up)
         /\ agReq[q].pc = "forwarded" => ~AgShort(AgPacks[agPack])
    /\ AgShort(AgPacks[agPack]) => agUpstream = {}
    /\ AgLinesInv
    /\ agFired \subseteq Range(AgTrajectories[agTraj].faults)
    /\ agSteps \in Seq(Range(agSteps))
    /\ \A sf \in agFired : sf.fault.type = "retrieval_poisoning" =>
         /\ sf.at <= Len(agSteps) => "poisoned" \in agDocs
         /\ \A i \in sf.at .. Len(agSteps) :
              AgTrajectories[agTraj].steps[i].consumes => ~agSteps[i].healthy

(* Nothing has been injected at first. *)
LEMMA AgIInvInit == AgInit => AgIInv
<1> SUFFICES ASSUME AgInit PROVE AgIInv OBVIOUS
<1>3. << >> \in Seq(Range(<< >>)) /\ Len(<< >>) = 0 OBVIOUS
<1>4. \A sf \in agFired : sf.at \in Nat \ {0}
  <2>1. agTraj \in DOMAIN AgTrajectories /\ agFired \subseteq Range(AgTrajectories[agTraj].faults)
    BY DEF AgInit
  <2> QED BY <2>1, AgTrajectoryFacts DEF Range
<1> QED BY <1>3, <1>4 DEF AgInit, AgIInv, AgLinesInv

(* What the proxy does for one request before its answer, or without a line for it,
   leaves the journal, the trajectory and the others alone. *)
LEMMA AgProxyFrame ==
    ASSUME AgIInv, NEW q \in AgRequests, NEW v, agReq' = [agReq EXCEPT ![q] = v],
           DOMAIN v = {"pc", "up", "body"}, v.pc # "answered",
           v.up # "none" => /\ v.pc = "unrecorded" /\ ~AgShort(AgPacks[agPack])
                            /\ v.up \in {"cited", "plain", "text"}
                            /\ v.body = MutateBody(AgPacks[agPack], v.up),
           v.pc = "forwarded" => ~AgShort(AgPacks[agPack]),
           agReq[q].pc # "answered", UNCHANGED <<agPack, agLines, agTrajVars>>,
           AgShort(AgPacks[agPack]) => agUpstream' = {}
    PROVE  AgIInv'
<1>1. /\ DOMAIN agReq' = AgRequests /\ agReq'[q] = v
      /\ \A r \in AgRequests : r # q => agReq'[r] = agReq[r]
  BY DEF AgIInv
<1>2. AgLinesInv'
  <2>1. \A i \in DOMAIN agLines : agLines[i].req # q
    BY DEF AgIInv, AgLinesInv, AgLineOf
  <2> QED BY <1>1, <2>1 DEF AgIInv, AgLinesInv, AgLineOf
<1> QED BY <1>1, <1>2 DEF AgIInv, agTrajVars

(* An answer and its journal line. *)
LEMMA AgAnswerFrame ==
    ASSUME AgIInv, NEW q \in AgRequests, NEW v, agReq' = [agReq EXCEPT ![q] = v],
           DOMAIN v = {"pc", "up", "body"}, v.pc = "answered", agReq[q].pc # "answered",
           v.up # "none" => /\ ~AgShort(AgPacks[agPack])
                            /\ v.up \in {"cited", "plain", "text"}
                            /\ v.body = MutateBody(AgPacks[agPack], v.up),
           NEW line, agLines' = Append(agLines, line), line.req = q,
           line.faults = AgApplied(AgPacks[agPack]),
           line.verdicts = AgVerdicts(AgPacks[agPack].contracts, AgObserved(v.body, line.latency)),
           UNCHANGED <<agPack, agUpstream, agTrajVars>>
    PROVE  AgIInv'
<1>1. /\ DOMAIN agReq' = AgRequests /\ agReq'[q] = v
      /\ \A r \in AgRequests : r # q => agReq'[r] = agReq[r]
  BY DEF AgIInv
<1>2. AgLinesInv'
  <2>1. \A i \in DOMAIN agLines : agLines[i].req # q
    BY DEF AgIInv, AgLinesInv, AgLineOf
  <2>2. /\ agLines' \in Seq(Range(agLines')) /\ Len(agLines') = Len(agLines) + 1
        /\ Len(agLines) \in Nat /\ agLines'[Len(agLines) + 1] = line
        /\ \A i \in 1 .. Len(agLines) : agLines'[i] = agLines[i]
    BY AgAppended DEF AgIInv, AgLinesInv
  <2>3. DOMAIN agLines = 1 .. Len(agLines) /\ DOMAIN agLines' = 1 .. Len(agLines) + 1
    BY <2>2 DEF AgIInv, AgLinesInv
  <2>4. AgLineOf(agReq', agPack', line)
    BY <1>1 DEF AgLineOf
  <2>5. \A i \in DOMAIN agLines : AgLineOf(agReq', agPack', agLines[i])
    BY <1>1, <2>1 DEF AgIInv, AgLinesInv, AgLineOf
  <2>6. \A i \in DOMAIN agLines' :
          \/ i \in DOMAIN agLines /\ agLines'[i] = agLines[i]
          \/ i = Len(agLines) + 1 /\ agLines'[i] = line /\ i \notin DOMAIN agLines
    BY <2>2, <2>3
  <2>7. \A i, j \in DOMAIN agLines' : agLines'[i].req = agLines'[j].req => i = j
    BY <2>1, <2>6 DEF AgIInv, AgLinesInv
  <2>8. \A r \in AgRequests : agReq'[r].pc = "answered" => \E i \in DOMAIN agLines' : agLines'[i].req = r
    <3> SUFFICES ASSUME NEW r \in AgRequests, agReq'[r].pc = "answered"
                 PROVE  \E i \in DOMAIN agLines' : agLines'[i].req = r
      OBVIOUS
    <3>1. CASE r = q
      BY <2>2, <2>3, <3>1
    <3>2. CASE r # q
      <4>1. PICK i \in DOMAIN agLines : agLines[i].req = r
        BY <1>1, <3>2 DEF AgIInv, AgLinesInv
      <4> QED BY <2>2, <2>3, <4>1
    <3> QED BY <3>1, <3>2
  <2>9. \A i \in DOMAIN agLines' : AgLineOf(agReq', agPack', agLines'[i])
    BY <2>4, <2>5, <2>6
  <2> QED BY <2>2, <2>7, <2>8, <2>9 DEF AgLinesInv
<1> QED BY <1>1, <1>2 DEF AgIInv, agTrajVars

(* A poisoned retrieval reaches the documents, and a consumer that must cite fails. *)
LEMMA AgTurnPoisons ==
    ASSUME AgIInv, AgTakeStep
    PROVE  AgIInv'
<1> DEFINE p == AgTrajectories[agTraj]
           n == Len(agSteps) + 1
           step == p.steps[n]
           sf == p.faults[1]
           r == IF sf.at = n /\ sf \in agFired THEN ApplyFault(step.base, sf.fault) ELSE step.base
           docs == agDocs \cup r.docs
           seen == IF step.consumes /\ "poisoned" \in docs THEN [r EXCEPT !.body = "ungrounded"] ELSE r
           entry == [healthy |-> \A c \in DOMAIN step.contracts : Holds(step.contracts[c], seen),
                     verdicts |-> AgVerdicts(step.contracts, seen),
                     signature |-> <<step.label, seen.tool, seen.body>>]
           run == [steps |-> agSteps, docs |-> agDocs]
<1>2. /\ DOMAIN p.faults = {1} /\ sf.at \in Nat \ {0}
      /\ sf.fault.type \in {"retrieval_poisoning", "retry_loop_pressure", "tool_failure"}
      /\ Len(p.steps) \in Nat /\ DOMAIN p.steps = 1 .. Len(p.steps)
      /\ \A i \in DOMAIN p.steps : /\ DOMAIN p.steps[i].base = AgFields
                                   /\ p.steps[i].consumes => \E c \in DOMAIN p.steps[i].contracts :
                                         p.steps[i].contracts[c].type = "required_citation"
  BY AgTrajectoryFacts DEF AgIInv
<1>1. /\ agDocs' = docs /\ agSteps' = Append(agSteps, entry) /\ n <= Len(p.steps)
      /\ UNCHANGED <<agPack, agReq, agUpstream, agLines, agCount, agTraj, agFired>>
  <2>1. TrajectoryTurn(p, agFired, run, n) = AgTurnOf(p, agFired, run, n)
    BY <1>2, AgTurnOne
  <2>2. run.steps = agSteps /\ run.docs = agDocs OBVIOUS
  <2>3. AgTurnOf(p, agFired, run, n) = [docs |-> run.docs \cup r.docs,
                                        steps |-> Append(run.steps, entry)]
    BY <2>2, Zenon DEF AgTurnOf, AgTurnWith
  <2>4. /\ agDocs' = TrajectoryTurn(p, agFired, run, n).docs
        /\ agSteps' = TrajectoryTurn(p, agFired, run, n).steps
        /\ n <= Len(p.steps)
        /\ UNCHANGED <<agPack, agReq, agUpstream, agLines, agCount, agTraj, agFired>>
    BY Zenon DEF AgTakeStep, agProxyVars
  <2> HIDE DEF run, entry, r, p, n
  <2> QED BY <2>1, <2>2, <2>3, <2>4
<1>3. r = IF sf.at = n /\ sf \in agFired THEN ApplyFault(step.base, sf.fault) ELSE step.base
  OBVIOUS
<1> HIDE DEF entry, docs, run, r
<1>4. Len(agSteps) \in Nat /\ n \in DOMAIN p.steps
  <2> HIDE DEF p
  <2>1. agSteps \in Seq(Range(agSteps)) BY DEF AgIInv
  <2>2. Len(agSteps) \in Nat BY <2>1
  <2>3. n \in 1 .. Len(p.steps) BY <1>1, <1>2, <2>2
  <2> QED BY <1>2, <2>2, <2>3
<1>5. DOMAIN step.base = AgFields
  BY <1>2, <1>4
<1> HIDE DEF p, step, sf
<1> USE DEF docs, entry
<1>6. sf.at = n /\ sf \in agFired /\ sf.fault.type = "retrieval_poisoning" => "poisoned" \in r.docs
  <2> SUFFICES ASSUME sf.at = n, sf \in agFired, sf.fault.type = "retrieval_poisoning"
               PROVE  "poisoned" \in r.docs
    OBVIOUS
  <2> DEFINE b == step.base
  <2>1. r = ApplyFault(b, sf.fault) BY <1>3
  <2> HIDE DEF b
  <2>2. DOMAIN b = AgFields BY <1>5 DEF b
  <2>3. ApplyFault(b, sf.fault) = [b EXCEPT !.docs = b.docs \cup {"poisoned"}, !.body = "poisoned"]
    BY DEF ApplyFault
  <2>4. [b EXCEPT !.docs = b.docs \cup {"poisoned"}, !.body = "poisoned"].docs = b.docs \cup {"poisoned"}
    BY <2>2 DEF AgFields
  <2> QED BY <2>1, <2>3, <2>4
<1>7. DOMAIN r = AgFields
  <2>1. CASE ~(sf.at = n /\ sf \in agFired) BY <1>3, <1>5, <2>1
  <2>2. CASE sf.at = n /\ sf \in agFired
    <3> DEFINE b == step.base
    <3>1. r = ApplyFault(b, sf.fault) /\ DOMAIN b = AgFields BY <1>3, <1>5, <2>2
    <3> HIDE DEF b
    <3>2. ApplyFault(b, sf.fault) \in {[b EXCEPT !.docs = b.docs \cup {"poisoned"}, !.body = "poisoned"],
                                       [b EXCEPT !.retries = sf.fault.arg], [b EXCEPT !.body = "error"]}
      BY <1>2 DEF ApplyFault
    <3>3. \A x \in {[b EXCEPT !.docs = b.docs \cup {"poisoned"}, !.body = "poisoned"],
                    [b EXCEPT !.retries = sf.fault.arg], [b EXCEPT !.body = "error"]} :
             DOMAIN x = AgFields
      BY <3>1
    <3> QED BY <3>1, <3>2, <3>3
  <2> QED BY <2>1, <2>2
<1>8. /\ agSteps' \in Seq(Range(agSteps')) /\ Len(agSteps') = n
      /\ \A i \in 1 .. Len(agSteps) : agSteps'[i] = agSteps[i]
      /\ agSteps'[n] = entry
  <2> HIDE DEF entry, n
  <2>1. agSteps \in Seq(Range(agSteps)) BY DEF AgIInv
  <2>2. /\ agSteps' \in Seq(Range(agSteps')) /\ Len(agSteps') = Len(agSteps) + 1
        /\ \A i \in 1 .. Len(agSteps) : agSteps'[i] = agSteps[i]
        /\ agSteps'[Len(agSteps) + 1] = entry
    BY <1>1, <2>1, AgAppended
  <2> QED BY <2>2 DEF n
<1>9. step.consumes /\ "poisoned" \in docs => ~entry.healthy
  <2> SUFFICES ASSUME step.consumes, "poisoned" \in docs PROVE ~entry.healthy OBVIOUS
  <2>1. PICK c \in DOMAIN step.contracts : step.contracts[c].type = "required_citation"
    BY <1>2, <1>4 DEF step
  <2>2. seen = [r EXCEPT !.body = "ungrounded"] OBVIOUS
  <2> HIDE DEF seen
  <2>3. seen.body = "ungrounded" BY <1>7, <2>2 DEF AgFields
  <2>4. ~Holds(step.contracts[c], seen) BY <2>1, <2>3 DEF Holds, Cited
  <2> QED BY <2>4
<1>10. \A f \in agFired : f = sf BY <1>2 DEF AgIInv, Range, sf, p
<1> HIDE DEF docs, entry, n
<1>11. ASSUME NEW f \in agFired', f.fault.type = "retrieval_poisoning"
       PROVE  /\ f.at <= Len(agSteps') => "poisoned" \in agDocs'
              /\ \A i \in f.at .. Len(agSteps') : p.steps[i].consumes => ~agSteps'[i].healthy
  <2>1. f = sf /\ f \in agFired BY <1>1, <1>10, <1>11
  <2>2. /\ sf.at <= Len(agSteps) => "poisoned" \in agDocs
        /\ \A i \in sf.at .. Len(agSteps) : p.steps[i].consumes => ~agSteps[i].healthy
    BY <1>11, <2>1 DEF AgIInv, p
  <2>3. sf.at <= n => "poisoned" \in docs
    BY <1>2, <1>4, <1>6, <1>11, <2>1, <2>2 DEF docs, n
  <2>4. ASSUME NEW i \in sf.at .. n, p.steps[i].consumes PROVE ~agSteps'[i].healthy
    <3>1. CASE i = n BY <1>8, <1>9, <2>3, <2>4, <3>1, <1>2, <1>4 DEF step, n
    <3>2. CASE i # n
      <4>1. i \in sf.at .. Len(agSteps) /\ i \in 1 .. Len(agSteps)
        BY <1>2, <1>4, <2>4, <3>2 DEF n
      <4> QED BY <1>8, <2>2, <2>4, <4>1
    <3> QED BY <3>1, <3>2
  <2> QED BY <1>1, <1>8, <2>1, <2>3, <2>4
<1>12. AgLinesInv' BY <1>1 DEF AgIInv, AgLinesInv, AgLineOf
<1> QED BY <1>1, <1>8, <1>11, <1>12 DEF AgIInv, p

(* Whatever the answer, it goes with its line or without one. *)
LEMMA AgRecordStep ==
    ASSUME AgIInv, NEW q \in AgRequests, NEW up, NEW body, NEW latency,
           AgRecord(q, up, body, latency), agReq[q].pc # "answered",
           UNCHANGED <<agPack, agUpstream, agTrajVars>>,
           up # "none" => /\ ~AgShort(AgPacks[agPack]) /\ up \in {"cited", "plain", "text"}
                          /\ body = MutateBody(AgPacks[agPack], up)
    PROVE  AgIInv'
<1>1. CASE /\ agLines' = Append(agLines, AgLine(q, up, body, latency))
           /\ agReq' = [agReq EXCEPT ![q] = [pc |-> "answered", up |-> up, body |-> body]]
  <2> DEFINE v == [pc |-> "answered", up |-> up, body |-> body]
             line == AgLine(q, up, body, latency)
  <2>1. DOMAIN v = {"pc", "up", "body"} /\ v.pc = "answered" /\ v.up = up /\ v.body = body
    OBVIOUS
  <2>2. /\ line.req = q /\ line.faults = AgApplied(AgPacks[agPack])
        /\ line.verdicts = AgVerdicts(AgPacks[agPack].contracts, AgObserved(body, line.latency))
    BY Zenon DEF AgLine
  <2>3. agReq' = [agReq EXCEPT ![q] = v] /\ agLines' = Append(agLines, line) BY <1>1
  <2> HIDE DEF v, line
  <2> QED BY <2>1, <2>2, <2>3, AgAnswerFrame
<1>2. CASE /\ agReq' = [agReq EXCEPT ![q] = [pc |-> "unrecorded", up |-> up, body |-> body]]
           /\ UNCHANGED agLines
  <2> DEFINE v == [pc |-> "unrecorded", up |-> up, body |-> body]
  <2>1. DOMAIN v = {"pc", "up", "body"} /\ v.pc = "unrecorded" /\ v.up = up /\ v.body = body
    OBVIOUS
  <2>2. agReq' = [agReq EXCEPT ![q] = v] BY <1>2
  <2>3. AgShort(AgPacks[agPack]) => agUpstream' = {} BY DEF AgIInv
  <2> HIDE DEF v
  <2> QED BY <1>2, <2>1, <2>2, <2>3, AgProxyFrame
<1> QED BY <1>1, <1>2 DEF AgRecord

(* Every step of the proxy and of the trajectory keeps the invariant. *)
LEMMA AgIInvStep == AgIInv /\ [AgNext]_agVars => AgIInv'
<1> SUFFICES ASSUME AgIInv, [AgNext]_agVars PROVE AgIInv' OBVIOUS
<1> USE DEF AgGo
<1>1. ASSUME NEW q \in AgRequests, AgReceive(q) PROVE AgIInv'
  <2>1. PICK pc \in {"too_large", "drawn"}, body \in {"error", "none"} :
          /\ agReq' = [agReq EXCEPT ![q].pc = pc, ![q].body = body]
          /\ agReq[q].pc = "new" /\ UNCHANGED <<agPack, agUpstream, agLines, agTrajVars>>
    BY <1>1 DEF AgReceive
  <2> DEFINE v == [agReq[q] EXCEPT !.pc = pc, !.body = body]
  <2>2. agReq' = [agReq EXCEPT ![q] = v] BY <2>1 DEF AgIInv
  <2>4. DOMAIN agReq[q] = {"pc", "up", "body"} /\ agReq[q].up = "none" BY <2>1 DEF AgIInv
  <2>3. DOMAIN v = {"pc", "up", "body"} /\ v.up = "none" /\ v.pc = pc BY <2>4
  <2> HIDE DEF v
  <2> QED BY <2>1, <2>2, <2>3, AgProxyFrame DEF AgIInv
<1>2. ASSUME NEW q \in AgRequests, AgForward(q) \/ AgHangUp(q) PROVE AgIInv'
  <2>1. PICK pc \in {"forwarded", "dropped"} :
          /\ agReq' = [agReq EXCEPT ![q].pc = pc, ![q].body = "none"]
          /\ agReq[q].pc # "answered" /\ UNCHANGED <<agPack, agLines, agTrajVars>>
          /\ pc = "forwarded" => ~AgShort(AgPacks[agPack])
          /\ AgShort(AgPacks[agPack]) => agUpstream' = {}
    BY <1>2 DEF AgForward, AgHangUp, AgIInv
  <2> DEFINE v == [agReq[q] EXCEPT !.pc = pc, !.body = "none"]
  <2>2. agReq' = [agReq EXCEPT ![q] = v] BY <2>1 DEF AgIInv
  <2>4. DOMAIN agReq[q] = {"pc", "up", "body"} /\ agReq[q].up = "none" BY <1>2 DEF AgForward, AgHangUp, AgIInv
  <2>3. DOMAIN v = {"pc", "up", "body"} /\ v.up = "none" /\ v.pc = pc BY <2>4
  <2> HIDE DEF v
  <2> QED BY <2>1, <2>2, <2>3, AgProxyFrame
<1>3. ASSUME NEW q \in AgRequests, AgShortCircuit(q) \/ AgUnreachable(q) PROVE AgIInv'
  <2>1. /\ AgRecord(q, "none", "error", AgDelay(AgPacks[agPack]))
        /\ agReq[q].pc # "answered" /\ UNCHANGED <<agPack, agUpstream, agTrajVars>>
    BY <1>3 DEF AgShortCircuit, AgUnreachable
  <2> QED BY <2>1, AgRecordStep
<1>4. ASSUME NEW q \in AgRequests, AgUpstreamAnswers(q) PROVE AgIInv'
  <2>1. PICK up \in {"cited", "plain", "text"}, wait \in {0, 1500} :
          AgRecord(q, up, MutateBody(AgPacks[agPack], up), AgDelay(AgPacks[agPack]) + wait)
    BY <1>4, Zenon DEF AgUpstreamAnswers
  <2>2. /\ agReq[q].pc = "forwarded" /\ ~AgShort(AgPacks[agPack])
        /\ UNCHANGED <<agPack, agUpstream, agTrajVars>>
    BY <1>4 DEF AgUpstreamAnswers, AgIInv
  <2> DEFINE body == MutateBody(AgPacks[agPack], up)
             latency == AgDelay(AgPacks[agPack]) + wait
  <2>3. AgRecord(q, up, body, latency) BY <2>1, SMT
  <2>4. body = MutateBody(AgPacks[agPack], up) OBVIOUS
  <2> HIDE DEF body, latency
  <2> QED BY <2>2, <2>3, <2>4, AgRecordStep
<1>5. CASE UNCHANGED agVars
  <2>1. AgLinesInv' BY <1>5 DEF agVars, AgIInv, AgLinesInv, AgLineOf
  <2> QED BY <1>5, <2>1 DEF agVars, AgIInv
<1> QED BY <1>1, <1>2, <1>3, <1>4, <1>5, AgTurnPoisons DEF AgNext

(* The invariant is what the property asks. *)
LEMMA AgFaultsHold == AgIInv => AgFaultsSeen
<1> SUFFICES ASSUME AgIInv PROVE AgFaultsSeen OBVIOUS
<1>1. \A q \in AgRequests : agReq[q].up # "none" =>
          agReq[q].body = AgEngine(AgPacks[agPack], Response(agReq[q].up)).body
  BY AgBodiesAgree DEF AgIInv
<1>2. AgShort(AgPacks[agPack]) => agUpstream = {} BY DEF AgIInv
<1>3. /\ \A i \in DOMAIN agLines :
           LET line == agLines[i]
           IN  /\ agReq[line.req].pc = "answered"
               /\ \A j \in DOMAIN agLines : agLines[j].req = line.req => i = j
               /\ line.verdicts = AgVerdicts(AgPacks[agPack].contracts,
                                             AgObserved(agReq[line.req].body, line.latency))
               /\ agReq[line.req].up # "none" =>
                     (agReq[line.req].body # agReq[line.req].up
                        <=> \E k \in DOMAIN line.faults : line.faults[k] \in BodyFaults)
      /\ \A q \in AgRequests : agReq[q].pc = "answered" => \E i \in DOMAIN agLines : agLines[i].req = q
  <2>1. ASSUME NEW i \in DOMAIN agLines, agReq[agLines[i].req].up # "none"
        PROVE  agReq[agLines[i].req].body # agReq[agLines[i].req].up
                 <=> \E k \in DOMAIN agLines[i].faults : agLines[i].faults[k] \in BodyFaults
    <3>1. /\ agLines[i].req \in AgRequests /\ agLines[i].faults = AgApplied(AgPacks[agPack])
          /\ agPack \in DOMAIN AgPacks
      BY DEF AgIInv, AgLinesInv, AgLineOf
    <3>2. PICK up \in {"cited", "plain", "text"} :
            /\ agReq[agLines[i].req].up = up /\ ~AgShort(AgPacks[agPack])
            /\ agReq[agLines[i].req].body = MutateBody(AgPacks[agPack], up)
      BY <2>1, <3>1 DEF AgIInv
    <3> QED BY <3>1, <3>2, AgListedShow
  <2> QED BY <2>1 DEF AgIInv, AgLinesInv, AgLineOf
<1>4. ASSUME NEW sf \in agFired, sf.fault.type = "retrieval_poisoning",
             NEW i \in sf.at .. Len(agSteps), AgTrajectories[agTraj].steps[i].consumes
      PROVE  /\ ~agSteps[i].healthy
             /\ i = Len(agSteps) =>
                  \A c \in DOMAIN AgTrajectories[agTraj].contracts :
                     AgTrajectories[agTraj].contracts[c].type = "terminates_healthy" =>
                        ~TrajectoryVerdicts(AgTrajectories[agTraj], agSteps)[c]
  <2>1. ~agSteps[i].healthy BY <1>4 DEF AgIInv
  <2>2. ASSUME i = Len(agSteps), NEW c \in DOMAIN AgTrajectories[agTraj].contracts,
               AgTrajectories[agTraj].contracts[c].type = "terminates_healthy"
        PROVE  ~TrajectoryVerdicts(AgTrajectories[agTraj], agSteps)[c]
    <3>1. ~TrajectoryHolds(AgTrajectories[agTraj].contracts[c], agSteps)
      BY <2>1, <2>2 DEF TrajectoryHolds
    <3> QED BY <3>1 DEF TrajectoryVerdicts
  <2> QED BY <2>1, <2>2
<1> QED BY <1>1, <1>2, <1>3, <1>4 DEF AgFaultsSeen

(* A fault that a pack injects shows where it is to show: the live proxy leaves the
   body that the offline engine leaves, and a poisoned retrieval is seen by every
   later step that uses it (proxy/inject.rs, trajectory.rs). *)
THEOREM AgFaultsSeenAlways == AgSpec => []AgFaultsSeen
<1>1. AgInit => AgIInv BY AgIInvInit
<1>2. AgIInv /\ [AgNext]_agVars => AgIInv' BY AgIInvStep
<1>3. AgIInv => AgFaultsSeen BY AgFaultsHold
<1> QED BY <1>1, <1>2, <1>3, PTL DEF AgSpec
-----------------------------------------------------------------------------
(* An evaluation: its rows in the store, and the live agent.                  *)
(* A live run: what was said is in the pipe or read, and the verdict waits for both. *)
EvLiveInv ==
    /\ evLive.said \in Int /\ evLive.out \in Int /\ evLive.read \in Int
    /\ DOMAIN evLive = {"parent", "agent", "fed", "in", "said", "out", "read"}
    /\ evLive.said = evLive.out + evLive.read
    /\ evLive.agent = "alive" => evLive.parent = "reading"
    /\ evLive.parent = "judged" => evLive.agent = "exit_ok" /\ evLive.out = 0

(* Every step of the run keeps it. *)
LEMMA EvLiveStep ==
    ASSUME EvLiveInv, LvNext
    PROVE  EvLiveInv'
<1> USE DEF EvLiveInv
<1>1. CASE LvSpawn BY <1>1 DEF LvSpawn
<1>2. CASE LvFeed
  <2>1. evLive' = [evLive EXCEPT !.fed = evLive.fed + 1, !.in = evLive.in + 1] \/ evLive' = [evLive EXCEPT !.fed = EvTalk]
    BY <1>2 DEF LvFeed
  <2> QED BY <2>1
<1>3. CASE LvAgent
  <2>1. evLive.agent = "alive" BY <1>3 DEF LvAgent
  <2>2. \/ evLive' = [evLive EXCEPT !.in = evLive.in - 1]
        \/ evLive' = [evLive EXCEPT !.said = evLive.said + 1, !.out = evLive.out + 1]
        \/ \E code \in {"exit_ok", "exit_bad"} : evLive' = [evLive EXCEPT !.agent = code]
    BY <1>3 DEF LvAgent
  <2>3. CASE evLive' = [evLive EXCEPT !.in = evLive.in - 1] BY <2>1, <2>3
  <2>4. CASE evLive' = [evLive EXCEPT !.said = evLive.said + 1, !.out = evLive.out + 1]
    <3>1. /\ evLive'.said = evLive.said + 1 /\ evLive'.out = evLive.out + 1 /\ evLive'.read = evLive.read
          /\ evLive'.parent = evLive.parent /\ evLive'.agent = evLive.agent
          /\ DOMAIN evLive' = DOMAIN evLive
      BY <2>4
    <3> QED BY <2>1, <3>1
  <2>5. CASE \E code \in {"exit_ok", "exit_bad"} : evLive' = [evLive EXCEPT !.agent = code]
    BY <2>1, <2>5
  <2> QED BY <2>2, <2>3, <2>4, <2>5
<1>4. CASE LvRead
  <2>1. evLive' = [evLive EXCEPT !.out = evLive.out - 1, !.read = evLive.read + 1] /\ evLive.parent = "reading"
    BY <1>4 DEF LvRead, ParentReads
  <2> QED BY <2>1
<1>5. CASE LvEnd BY <1>5 DEF LvEnd, LvJoined
<1> QED BY <1>1, <1>2, <1>3, <1>4, <1>5 DEF LvNext

(* It says that the run is sound. *)
LEMMA EvLiveHolds == EvLiveInv => LiveRunSound
BY DEF EvLiveInv, LiveRunSound, ParentReads

-----------------------------------------------------------------------------
(* The rows a command has stored, and a fixture that is not refused. *)
EvStored(c) == {r.row : r \in {x \in evRows : x.by = c}}
EvValid(in) == in.kind = "replay" => \A i \in DOMAIN in.steps : in.steps[i] # "blank"
(* What a stored input's statements look like. *)
EvShaped(in) ==
    /\ Len(Inserts(in)) \in Nat \ {0} /\ DOMAIN Inserts(in) = 1 .. Len(Inserts(in))
    /\ Inserts(in)[1] = EvRow("run", 1)
    /\ \A n \in 1 .. Len(Inserts(in)) : Inserts(in)[n].table = "replay" => n = Len(Inserts(in))

(* The rows that a command at work has stored before its next insert. *)
EvSoFar(c) == {Inserts(evCmd[c].input)[i] : i \in 1 .. evCmd[c].next - 1}

(* The command at work and what it has stored. *)
EvCommandInv(c) ==
    /\ DOMAIN evCmd[c] = {"pc", "input", "next", "ingested"}
    /\ evCmd[c].input \in EvInputs /\ evCmd[c].next \in Nat
    /\ evCmd[c].ingested \in BOOLEAN
    /\ evCmd[c].pc \in {"new", "evaluated", "truncated", "written", "refused", "error"} =>
          EvStored(c) = {} /\ ~evCmd[c].ingested /\ evCmd[c].next = 1
    /\ evCmd[c].pc \notin {"new", "refused"} => EvValid(evCmd[c].input)
    /\ evCmd[c].pc = "ingesting" <=> evHolder = c
    /\ evCmd[c].pc = "ingesting" =>
          /\ evCmd[c].input.kind # "trajectory" /\ evCmd[c].next \in 1 .. Len(Inserts(evCmd[c].input))
          /\ EvStored(c) = EvSoFar(c)
          /\ ~evCmd[c].ingested
          /\ \A r \in evRows : r.run = evCmd[c].input.name => r.by = c
    /\ EvStored(c) # {} =>
          /\ evCmd[c].input.kind # "trajectory" /\ EvRow("run", 1) \in EvStored(c)
          /\ c \in evCut \/ evCmd[c].pc = "ingesting" \/ EvStored(c) = Range(Inserts(evCmd[c].input))
    /\ evCmd[c].ingested => EvStored(c) = Range(Inserts(evCmd[c].input))

(* A row is its command's, and a run has one command. *)
EvRowsInv ==
    /\ \A r \in evRows :
         /\ r.by \in EvCommands /\ r.run = evCmd[r.by].input.name
         /\ r.row.table = "replay" => EvStored(r.by) = Range(Inserts(evCmd[r.by].input))
    /\ \A r, s \in evRows : r.run = s.run => r.by = s.by
    /\ \A e \in evFile : EvValid(e.of)

EvIInv ==
    /\ DOMAIN evCmd = EvCommands
    /\ \A c \in EvCommands : EvCommandInv(c)
    /\ EvRowsInv

(* The invariants are what the property asks. *)
LEMMA EvRowsHold == EvIInv => RowsOfOneEvaluation
<1> SUFFICES ASSUME EvIInv PROVE RowsOfOneEvaluation OBVIOUS
<1>1. ASSUME NEW r \in evRows
      PROVE  /\ EvValid(evCmd[r.by].input) /\ EvRow("run", 1) \in EvStored(r.by)
             /\ r.row.table = "replay" => EvStored(r.by) = Range(Inserts(evCmd[r.by].input))
             /\ r.by \in evCut \cup {evHolder} \/ EvStored(r.by) = Range(Inserts(evCmd[r.by].input))
  <2>1. r.by \in EvCommands /\ r.row \in EvStored(r.by) BY DEF EvIInv, EvRowsInv, EvStored
  <2> QED BY <2>1 DEF EvIInv, EvRowsInv, EvCommandInv
<1>2. \A r, s \in evRows : r.run = s.run => r.by = s.by BY DEF EvIInv, EvRowsInv
<1>3. \A c \in EvCommands : evCmd[c].ingested => EvStored(c) = Range(Inserts(evCmd[c].input))
  BY DEF EvIInv, EvCommandInv
<1>4. \A e \in evFile : EvValid(e.of) BY DEF EvIInv, EvRowsInv
<1> QED BY <1>1, <1>2, <1>3, <1>4 DEF RowsOfOneEvaluation, EvValid, EvStored

(* Nothing is stored at first. *)
LEMMA EvInitInv == EvInit => EvIInv /\ EvLiveInv
<1> SUFFICES ASSUME EvInit PROVE EvIInv /\ EvLiveInv OBVIOUS
<1>1. EvLiveInv BY DEF EvInit, EvLiveInv
<1>2. \A c \in EvCommands : EvStored(c) = {} BY DEF EvInit, EvStored
<1>3. [kind |-> "pack", name |-> "storm", steps |-> <<>>] \in EvInputs BY DEF EvInputs
<1>4. \A c \in EvCommands : EvCommandInv(c)
  <2> TAKE c \in EvCommands
  <2>1. evCmd[c] = [pc |-> "new", input |-> [kind |-> "pack", name |-> "storm", steps |-> <<>>],
                    next |-> 1, ingested |-> FALSE] /\ evHolder # c
    BY EvCommandsAssumption DEF EvInit
  <2> QED BY <1>2, <1>3, <2>1 DEF EvCommandInv
<1>5. EvRowsInv BY DEF EvInit, EvRowsInv
<1> QED BY <1>1, <1>4, <1>5 DEF EvIInv, EvInit

-----------------------------------------------------------------------------
(* Two sequences in a row, *)
LEMMA EvJoined ==
    ASSUME NEW T, NEW s \in Seq(T), NEW t \in Seq(T), s # <<>>
    PROVE  /\ s \o t \in Seq(T) /\ Len(s \o t) = Len(s) + Len(t) /\ (s \o t)[1] = s[1]
           /\ \A n \in 1 .. Len(s) + Len(t) :
                 (s \o t)[n] = IF n <= Len(s) THEN s[n] ELSE t[n - Len(s)]
OBVIOUS

(* and no verdict of a replay in them. *)
LEMMA EvNoReplay ==
    ASSUME NEW T, NEW s \in Seq(T), NEW t \in Seq(T), s # <<>>,
           \A n \in 1 .. Len(s) : s[n].table # "replay", \A n \in 1 .. Len(t) : t[n].table # "replay"
    PROVE  \A n \in 1 .. Len(s) + Len(t) : (s \o t)[n].table # "replay"
<1> TAKE n \in 1 .. Len(s) + Len(t)
<1>1. (s \o t)[n] = IF n <= Len(s) THEN s[n] ELSE t[n - Len(s)] BY EvJoined
<1>2. Len(s) \in Nat /\ Len(t) \in Nat OBVIOUS
<1>3. CASE n <= Len(s) BY <1>1, <1>2, <1>3
<1>4. CASE ~(n <= Len(s))
  <2>1. n - Len(s) \in 1 .. Len(t) BY <1>2, <1>4
  <2> QED BY <1>1, <1>4, <2>1
<1> QED BY <1>3, <1>4

(* Its own row is a run's first statement, a replay's verdict its last
   (ingest_agentic_run). *)
LEMMA EvInsertsShaped ==
    ASSUME NEW in \in EvInputs, in.kind # "trajectory"
    PROVE  EvShaped(in)
<1>1. DOMAIN Report(in).outcomes = 1 .. Len(Report(in).outcomes) /\ Len(Report(in).outcomes) \in Nat
      /\ Report(in).faults \in Nat
  <2>1. CASE in.kind = "replay"
    <3> DEFINE os == Outcomes(<<AgContract("valid_json", 0, 4)>>, <<ValidJson(ReplayResponse(in.steps).body)>>)
    <3>0. DOMAIN <<AgContract("valid_json", 0, 4)>> = 1 .. 1 OBVIOUS
    <3>a. os = [i \in 1 .. 1 |-> Outcome(<<AgContract("valid_json", 0, 4)>>[i],
                                         <<ValidJson(ReplayResponse(in.steps).body)>>[i])]
      BY <3>0, Zenon DEF Outcomes
    <3>b. DOMAIN os = 1 .. 1 BY <3>a
    <3> HIDE DEF os
    <3>c. os = [i \in 1 .. 1 |-> os[i]] BY <3>a
    <3>1. Len(os) = 1 BY <3>b, <3>c
    <3>2. Report(in).outcomes = os /\ Report(in).faults = 1
      BY <2>1 DEF Report, os
    <3>3. DOMAIN Report(in).outcomes = 1 .. 1 BY <3>2, <3>b
    <3>4. Len(Report(in).outcomes) = 1 BY <3>1, <3>2
    <3>5. Report(in).faults \in Nat BY <3>2
    <3>6. Len(Report(in).outcomes) \in Nat BY <3>4
    <3>7. DOMAIN Report(in).outcomes = 1 .. Len(Report(in).outcomes) BY <3>3, <3>4
    <3> QED BY <3>5, <3>6, <3>7
  <2>2. CASE in.kind = "pack"
    <3>1. in.name \in {"malformed", "storm"} BY <2>2 DEF EvInputs
    <3>2. \A p \in {"malformed", "storm"} :
            /\ DOMAIN AgPacks[p].contracts = 1 .. Len(AgPacks[p].contracts) /\ Len(AgPacks[p].contracts) \in Nat
            /\ Len(AgPacks[p].faults) \in Nat
      BY DEF AgPacks
    <3> DEFINE n == Len(AgPacks[in.name].contracts)
    <3>3. n \in Nat /\ DOMAIN PackOutcomes(in.name) = 1 .. n
      BY <3>1, <3>2 DEF PackOutcomes, Outcomes
    <3>4. Report(in).outcomes = PackOutcomes(in.name) /\ Report(in).faults = Len(AgPacks[in.name].faults)
      BY <2>2 DEF Report
    <3>5. PackOutcomes(in.name) = [k \in 1 .. n |-> PackOutcomes(in.name)[k]]
      BY <3>3 DEF PackOutcomes, Outcomes
    <3> HIDE DEF n
    <3>6. Len(PackOutcomes(in.name)) = n BY <3>3, <3>5
    <3> QED BY <3>1, <3>2, <3>3, <3>4, <3>6
  <2> QED BY <2>1, <2>2 DEF EvInputs
<1> DEFINE m == Len(Report(in).outcomes)
           f == Report(in).faults
           A == <<EvRow("run", 1)>>
           B == [n \in 1 .. m |-> EvRow("contract", n)]
           C == [n \in 1 .. f |-> EvRow("fault", n)]
           D == IF in.kind = "replay" THEN <<EvRow("replay", 1)>> ELSE <<>>
           R == [table : {"run", "contract", "fault", "replay"}, n : Nat]
<1>2. Inserts(in) = ((A \o B) \o C) \o D BY DEF Inserts
<1> HIDE DEF m, f
<1>3. m \in Nat /\ f \in Nat BY <1>1 DEF m, f
<1>4. A \in Seq(R) /\ Len(A) = 1 /\ A[1] = EvRow("run", 1) /\ A # <<>> BY DEF EvRow
<1>5. \A n \in Nat : EvRow("contract", n) \in R /\ EvRow("fault", n) \in R /\ EvRow("replay", n) \in R
  BY DEF EvRow
<1>6. B \in Seq(R) /\ Len(B) = m
  <2>1. \A n \in 1 .. m : EvRow("contract", n) \in R BY <1>3, <1>5
  <2> HIDE DEF R
  <2> QED BY <1>3, <2>1
<1>7. C \in Seq(R) /\ Len(C) = f
  <2>1. \A n \in 1 .. f : EvRow("fault", n) \in R BY <1>3, <1>5
  <2> HIDE DEF R
  <2> QED BY <1>3, <2>1
<1>8. D \in Seq(R) /\ Len(D) \in {0, 1}
  <2>1. EvRow("replay", 1) \in R BY <1>5
  <2> HIDE DEF R
  <2> QED BY <2>1
<1>9. /\ \A n \in 1 .. 1 : A[n].table # "replay"
      /\ \A n \in 1 .. m : B[n].table # "replay"
      /\ \A n \in 1 .. f : C[n].table # "replay"
  BY <1>3 DEF EvRow
<1> HIDE DEF A, B, C, D, R
<1> DEFINE E == A \o B
           G == E \o C
<1>10. E \in Seq(R) /\ Len(E) = 1 + m /\ E[1] = EvRow("run", 1)
  <2>1. A \o B \in Seq(R) /\ Len(A \o B) = Len(A) + Len(B) /\ (A \o B)[1] = A[1]
    BY <1>4, <1>6, EvJoined, Zenon
  <2> HIDE DEF E
  <2>2. E = A \o B BY DEF E
  <2> QED BY <2>1, <2>2, <1>4, <1>6
<1>11. \A n \in 1 .. Len(E) : E[n].table # "replay"
  <2>1. \A n \in 1 .. Len(A) + Len(B) : E[n].table # "replay" BY <1>4, <1>6, <1>9, EvNoReplay
  <2> QED BY <2>1, <1>4, <1>6, <1>10
<1> HIDE DEF E
<1>12. E # <<>> BY <1>3, <1>10
<1>13. G \in Seq(R) /\ Len(G) = 1 + m + f /\ G[1] = EvRow("run", 1)
  <2>1. E \o C \in Seq(R) /\ Len(E \o C) = Len(E) + Len(C) /\ (E \o C)[1] = E[1]
    BY <1>7, <1>10, <1>12, EvJoined, Zenon
  <2> HIDE DEF G
  <2>2. G = E \o C BY DEF G
  <2> QED BY <2>1, <2>2, <1>3, <1>7, <1>10
<1>14. \A n \in 1 .. Len(G) : G[n].table # "replay"
  <2>1. \A n \in 1 .. Len(E) + Len(C) : G[n].table # "replay"
    BY <1>7, <1>9, <1>10, <1>11, <1>12, EvNoReplay
  <2> QED BY <2>1, <1>7, <1>10, <1>13
<1>15. Inserts(in) = G \o D BY <1>2 DEF E
<1> HIDE DEF G
<1>16. G # <<>> /\ Len(G) \in Nat \ {0} BY <1>3, <1>13
<1> DEFINE I == G \o D
<1>17. I \in Seq(R) /\ Len(I) = Len(G) + Len(D) /\ I[1] = EvRow("run", 1)
      /\ \A n \in 1 .. Len(G) + Len(D) : n <= Len(G) => I[n] = G[n]
  BY <1>8, <1>13, <1>16, EvJoined
<1> HIDE DEF I
<1>18. \A n \in 1 .. Len(I) : I[n].table = "replay" => n = Len(I)
  <2> SUFFICES ASSUME NEW n \in 1 .. Len(I), I[n].table = "replay" PROVE n = Len(I) OBVIOUS
  <2>1. Len(G) \in Nat /\ Len(D) \in {0, 1} /\ Len(I) = Len(G) + Len(D) BY <1>8, <1>16, <1>17
  <2>2. CASE n <= Len(G)
    <3>1. n \in 1 .. Len(G) /\ I[n] = G[n] BY <1>17, <2>1, <2>2
    <3> QED BY <1>14, <3>1
  <2>3. CASE ~(n <= Len(G))
    <3>1. PICK g \in Nat : g = Len(G) BY <2>1
    <3>2. PICK d \in {0, 1} : d = Len(D) BY <2>1
    <3>3. Len(I) = g + d /\ n \in Int /\ n <= g + d /\ n > g BY <2>1, <2>3, <3>1, <3>2
    <3>4. n = g + d BY <3>3
    <3> QED BY <3>3, <3>4
  <2> QED BY <2>2, <2>3
<1>19. DOMAIN I = 1 .. Len(I) /\ Len(I) \in Nat \ {0} BY <1>8, <1>16, <1>17
<1> QED BY <1>15, <1>17, <1>18, <1>19 DEF EvShaped, I

-----------------------------------------------------------------------------
(* A step of one command that leaves the rows. *)
LEMMA EvFrame ==
    ASSUME EvIInv, NEW c \in EvCommands, NEW v, evCmd' = [evCmd EXCEPT ![c] = v],
           evRows' = evRows, evCut' \in {evCut, evCut \cup {c}},
           \A d \in EvCommands \ {c} : evHolder' = d <=> evHolder = d,
           EvStored(c) # {} => v.input = evCmd[c].input,
           \A e \in evFile' : EvValid(e.of), EvCommandInv(c)'
    PROVE  EvIInv'
<1>1. \A d \in EvCommands : EvStored(d)' = EvStored(d) BY DEF EvStored
<1>2. ASSUME NEW d \in EvCommands, d # c PROVE EvCommandInv(d)'
  <2>1. evCmd'[d] = evCmd[d] BY <1>2 DEF EvIInv
  <2>2. evHolder' = d <=> evHolder = d BY <1>2
  <2>3. d \in evCut' <=> d \in evCut BY <1>2
  <2>4. EvCommandInv(d) BY DEF EvIInv
  <2>5. EvSoFar(d)' = EvSoFar(d) BY <2>1 DEF EvSoFar
  <2> QED BY <1>1, <2>1, <2>2, <2>3, <2>4, <2>5 DEF EvCommandInv
<1>3. EvRowsInv'
  <2>1. ASSUME NEW r \in evRows PROVE r.by \in EvCommands /\ evCmd'[r.by].input = evCmd[r.by].input
    <3>1. r.by \in EvCommands /\ EvStored(r.by) # {} BY DEF EvIInv, EvRowsInv, EvStored
    <3> QED BY <3>1 DEF EvIInv
  <2> QED BY <1>1, <2>1 DEF EvIInv, EvRowsInv
<1> QED BY <1>2, <1>3 DEF EvIInv

(* What an insert adds. *)
LEMMA EvInsertKeeps ==
    ASSUME EvIInv, NEW c \in EvCommands, EvInsert(c)
    PROVE  EvIInv'
<1> DEFINE in == evCmd[c].input
           n == evCmd[c].next
           all == \A o \in DOMAIN Report(in).outcomes : Report(in).outcomes[o].passed
           row == [row |-> Inserts(in)[n], run |-> in.name, by |-> c, passed |-> all]
           last == Len(Inserts(in))
           v == IF n < last THEN [evCmd[c] EXCEPT !.next = n + 1]
                ELSE [evCmd[c] EXCEPT !.pc = IF Report(in).passed THEN "pass" ELSE "fail", !.ingested = TRUE]
<1>1. /\ evRows' = evRows \cup {row} /\ evCmd' = [evCmd EXCEPT ![c] = v]
      /\ IF n < last THEN evHolder' = evHolder ELSE evHolder' = "none"
      /\ evCmd[c].pc = "ingesting" /\ evFile' = evFile /\ evCut' = evCut
  BY DEF EvInsert, EvEnd, EvIInv
<1>2. EvCommandInv(c) BY DEF EvIInv
<1>3. in \in EvInputs /\ in.kind # "trajectory" /\ n \in 1 .. last /\ evHolder = c /\ ~evCmd[c].ingested
      /\ EvValid(in) /\ n \in Nat /\ DOMAIN evCmd[c] = {"pc", "input", "next", "ingested"}
  BY <1>1, <1>2 DEF EvCommandInv
<1>4. EvShaped(in) BY <1>3, EvInsertsShaped
<1>5. row.row = Inserts(in)[n] /\ row.run = in.name /\ row.by = c OBVIOUS
<1>6. /\ v.input = in /\ DOMAIN v = {"pc", "input", "next", "ingested"} /\ v.next \in Nat
      /\ n < last => v.pc = "ingesting" /\ v.next = n + 1 /\ v.ingested = FALSE
      /\ ~(n < last) => v.pc \in {"pass", "fail"} /\ v.ingested = TRUE
  BY <1>1, <1>3
<1> HIDE DEF row, v, all
<1>7. EvStored(c) = {Inserts(in)[i] : i \in 1 .. n - 1} BY <1>1, <1>2 DEF EvCommandInv, EvSoFar
<1>8. EvStored(c)' = EvStored(c) \cup {Inserts(in)[n]} BY <1>1, <1>5 DEF EvStored
<1>9. \A d \in EvCommands \ {c} : EvStored(d)' = EvStored(d) BY <1>1, <1>5 DEF EvStored
<1>10. EvStored(c)' = {Inserts(in)[i] : i \in 1 .. n} 
  <2>1. 1 .. n = (1 .. n - 1) \cup {n} BY <1>3
  <2> QED BY <1>7, <1>8, <2>1
<1>11. EvRow("run", 1) \in EvStored(c)' BY <1>3, <1>4, <1>10 DEF EvShaped
<1>12. n = last => EvStored(c)' = Range(Inserts(in)) BY <1>4, <1>10 DEF EvShaped, Range
<1>13. \A r \in evRows' : r.run = in.name => r.by = c
  BY <1>1, <1>2, <1>5 DEF EvCommandInv
<1>14. evCmd'[c] = v BY <1>1 DEF EvIInv
<1>15. EvCommandInv(c)'
  <2>1. CASE n < last
    <3>1. evHolder' = c /\ v.pc = "ingesting" /\ v.next = n + 1 /\ v.next - 1 = n /\ v.next \in 1 .. last
      BY <1>1, <1>3, <1>4, <1>6, <2>1 DEF EvShaped
    <3>2. EvSoFar(c)' = EvStored(c)' BY <1>6, <1>10, <1>14, <3>1 DEF EvSoFar
    <3> QED BY <1>3, <1>6, <1>11, <1>13, <1>14, <3>1, <3>2, <2>1 DEF EvCommandInv
  <2>2. CASE ~(n < last)
    <3>1. evHolder' # c /\ v.pc \in {"pass", "fail"} /\ n = last
      BY <1>1, <1>3, <1>4, <1>6, <2>2, EvCommandsAssumption DEF EvShaped
    <3> QED BY <1>3, <1>6, <1>11, <1>12, <1>14, <3>1, <2>2 DEF EvCommandInv
  <2> QED BY <2>1, <2>2
<1>16. ASSUME NEW d \in EvCommands, d # c PROVE EvCommandInv(d)'
  <2>1. evCmd'[d] = evCmd[d] /\ EvStored(d)' = EvStored(d) /\ evCut' = evCut BY <1>1, <1>9, <1>16 DEF EvIInv
  <2>2. evHolder # d /\ evHolder' # d BY <1>1, <1>3, <1>16, EvCommandsAssumption
  <2>3. EvCommandInv(d) BY DEF EvIInv
  <2> QED BY <2>1, <2>2, <2>3 DEF EvCommandInv
<1>17. EvRowsInv'
  <2>1. ASSUME NEW r \in evRows'
        PROVE  /\ r.by \in EvCommands /\ r.run = evCmd'[r.by].input.name
               /\ r.row.table = "replay" => EvStored(r.by)' = Range(Inserts(evCmd'[r.by].input))
    <3>1. CASE r \in evRows /\ r.by # c
      BY <3>1, <1>1, <1>9 DEF EvIInv, EvRowsInv
    <3>2. CASE r = row \/ r.by = c
      <4>1. r.by = c /\ r.run = in.name BY <3>2, <1>1, <1>5 DEF EvIInv, EvRowsInv
      <4>2. r.row \in EvStored(c)' BY <4>1 DEF EvStored
      <4>3. ASSUME r.row.table = "replay" PROVE EvStored(c)' = Range(Inserts(in))
        <5>1. PICK i \in 1 .. n : r.row = Inserts(in)[i] BY <4>2, <1>10
        <5>2. i = last BY <4>3, <5>1, <1>3, <1>4 DEF EvShaped
        <5>3. n = last BY <5>1, <5>2, <1>3, <1>4 DEF EvShaped
        <5> QED BY <5>3, <1>12
      <4> QED BY <4>1, <4>3, <1>6, <1>14
    <3> QED BY <3>1, <3>2, <1>1
  <2>2. \A r, s \in evRows' : r.run = s.run => r.by = s.by
    <3> SUFFICES ASSUME NEW r \in evRows', NEW s \in evRows', r.run = s.run PROVE r.by = s.by OBVIOUS
    <3>1. CASE r = row \/ s = row BY <3>1, <1>5, <1>13
    <3>2. CASE r \in evRows /\ s \in evRows BY <3>2 DEF EvIInv, EvRowsInv
    <3> QED BY <3>1, <3>2, <1>1
  <2>3. \A e \in evFile' : EvValid(e.of) BY <1>1 DEF EvIInv, EvRowsInv
  <2> QED BY <2>1, <2>2, <2>3 DEF EvRowsInv
<1>18. DOMAIN evCmd' = EvCommands BY <1>1 DEF EvIInv
<1> QED BY <1>15, <1>16, <1>17, <1>18 DEF EvIInv

(* A command that is not storing moves on. *)
LEMMA EvMovesOn ==
    ASSUME EvIInv, NEW c \in EvCommands, NEW pc, NEW in \in EvInputs,
           evCmd' = [evCmd EXCEPT ![c] = [evCmd[c] EXCEPT !.pc = pc, !.input = in]],
           evCmd[c].pc # "ingesting", pc # "ingesting",
           evCmd[c].input = in \/ evCmd[c].pc = "new",
           pc \in {"evaluated", "truncated", "written", "refused", "error"}
              => evCmd[c].pc \in {"new", "evaluated", "truncated", "written"},
           pc \in {"evaluated", "truncated", "written", "refused", "error", "pass", "fail", "crashed"},
           evCmd[c].pc \in {"new", "evaluated", "truncated", "written"},
           pc # "refused" => EvValid(in),
           evRows' = evRows, evCut' = evCut, evHolder' = evHolder, \A e \in evFile' : EvValid(e.of)
    PROVE  EvIInv'
<1> DEFINE v == [evCmd[c] EXCEPT !.pc = pc, !.input = in]
<1>1. EvCommandInv(c) BY DEF EvIInv
<1>2. /\ DOMAIN v = {"pc", "input", "next", "ingested"} /\ v.pc = pc /\ v.input = in
      /\ v.next = evCmd[c].next /\ v.ingested = evCmd[c].ingested
  BY <1>1 DEF EvCommandInv
<1>3. evCmd' = [evCmd EXCEPT ![c] = v] OBVIOUS
<1> HIDE DEF v
<1>4. evCmd'[c] = v BY <1>3 DEF EvIInv
<1>5. EvStored(c) = {} /\ evCmd[c].ingested = FALSE /\ evHolder # c /\ evCmd[c].next \in Nat /\ evCmd[c].next = 1
  BY <1>1 DEF EvCommandInv
<1>6. EvStored(c)' = {} BY <1>5 DEF EvStored
<1>7. v.ingested = FALSE BY <1>2, <1>5
<1>8. evHolder' # c BY <1>5
<1>9. EvCommandInv(c)' BY <1>2, <1>4, <1>5, <1>6, <1>7, <1>8 DEF EvCommandInv
<1> QED BY <1>2, <1>3, <1>5, <1>9, EvFrame

(* A command that ends its ingest short of the last row. *)
LEMMA EvCutShort ==
    ASSUME EvIInv, NEW c \in EvCommands, NEW pc \in {"pass", "fail", "crashed"}, NEW ingested, ingested = FALSE,
           evCmd' = [evCmd EXCEPT ![c] = [evCmd[c] EXCEPT !.pc = pc, !.ingested = ingested]],
           evCmd[c].pc = "ingesting", evCut' = evCut \cup {c}, evHolder' = "none",
           evRows' = evRows, evFile' = evFile
    PROVE  EvIInv'
<1> DEFINE v == [evCmd[c] EXCEPT !.pc = pc, !.ingested = ingested]
<1>1. EvCommandInv(c) BY DEF EvIInv
<1>2. /\ DOMAIN v = {"pc", "input", "next", "ingested"} /\ v.pc = pc /\ v.input = evCmd[c].input
      /\ v.next = evCmd[c].next /\ v.ingested = FALSE
  BY <1>1 DEF EvCommandInv
<1>3. evCmd' = [evCmd EXCEPT ![c] = v] OBVIOUS
<1> HIDE DEF v
<1>4. evCmd'[c] = v BY <1>3 DEF EvIInv
<1>5. EvStored(c)' = EvStored(c) BY DEF EvStored
<1>6. evHolder = c /\ evHolder' # c BY <1>1, EvCommandsAssumption DEF EvCommandInv
<1>7. EvCommandInv(c)' BY <1>1, <1>2, <1>4, <1>5, <1>6 DEF EvCommandInv
<1>8. \A d \in EvCommands \ {c} : evHolder' = d <=> evHolder = d BY <1>6, EvCommandsAssumption
<1>9. \A e \in evFile' : EvValid(e.of) BY DEF EvIInv, EvRowsInv
<1> QED BY <1>2, <1>3, <1>7, <1>8, <1>9, EvFrame

(* Every step of a command keeps the invariant. *)
LEMMA EvStep == EvIInv /\ EvNext => EvIInv'
<1> SUFFICES ASSUME EvIInv, NEW c \in EvCommands,
                    \/ \E in \in EvInputs : EvEvaluate(c, in)
                    \/ EvTruncate(c) \/ EvWrite(c) \/ EvOpen(c) \/ EvInsert(c) \/ EvInsertFails(c) \/ EvCrash(c)
             PROVE  EvIInv'
  BY DEF EvNext
<1>0. EvCommandInv(c) BY DEF EvIInv
<1>f. \A e \in evFile : EvValid(e.of) BY DEF EvIInv, EvRowsInv
<1>d. DOMAIN evCmd[c] = {"pc", "input", "next", "ingested"} /\ evCmd[c].input \in EvInputs /\ DOMAIN evCmd = EvCommands
  BY <1>0 DEF EvCommandInv, EvIInv
<1>1. ASSUME NEW in \in EvInputs, EvEvaluate(c, in) PROVE EvIInv'
  <2>1. PICK pc : /\ pc = IF in.kind = "replay" /\ ~ReplayValid(in.steps) THEN "refused" ELSE "evaluated"
                  /\ evCmd' = [evCmd EXCEPT ![c].input = in, ![c].pc = pc]
    BY <1>1 DEF EvEvaluate
  <2>2. evCmd' = [evCmd EXCEPT ![c] = [evCmd[c] EXCEPT !.pc = pc, !.input = in]] BY <2>1, <1>d
  <2>3. evCmd[c].pc = "new" /\ UNCHANGED <<evFile, evHolder, evRows, evCut>> BY <1>1 DEF EvEvaluate
  <2>4. pc # "refused" => EvValid(in) BY <2>1 DEF EvValid, ReplayValid
  <2>5. pc \in {"refused", "evaluated"} BY <2>1
  <2> QED BY <2>2, <2>3, <2>4, <2>5, <1>f, EvMovesOn
<1>2. ASSUME EvTruncate(c) \/ EvWrite(c) PROVE EvIInv'
  <2>1. PICK pc \in {"truncated", "error", "written"} : evCmd' = [evCmd EXCEPT ![c].pc = pc]
    BY <1>2 DEF EvTruncate, EvWrite, EvGo
  <2>2. evCmd' = [evCmd EXCEPT ![c] = [evCmd[c] EXCEPT !.pc = pc, !.input = evCmd[c].input]] BY <2>1, <1>d
  <2>3. evCmd[c].pc \in {"evaluated", "truncated"} /\ UNCHANGED <<evHolder, evRows, evCut>>
    BY <1>2 DEF EvTruncate, EvWrite
  <2>4. EvValid(evCmd[c].input) BY <2>3, <1>0 DEF EvCommandInv
  <2>5. \A e \in evFile' : EvValid(e.of)
    <3>1. Evidence(evCmd[c].input).of = evCmd[c].input BY DEF Evidence
    <3>2. evFile' \subseteq evFile \cup {Evidence(evCmd[c].input)} BY <1>2 DEF EvTruncate, EvWrite
    <3> QED BY <3>1, <3>2, <2>4, <1>f
  <2> QED BY <2>2, <2>3, <2>4, <2>5, <1>d, EvMovesOn
<1>3. CASE EvOpen(c)
  <2>1. evCmd[c].pc = "written" /\ UNCHANGED <<evFile, evRows, evCut>> BY <1>3 DEF EvOpen
  <2>2. EvValid(evCmd[c].input) /\ EvStored(c) = {} /\ evCmd[c].ingested = FALSE /\ evCmd[c].next = 1 /\ evHolder # c
    BY <2>1, <1>0 DEF EvCommandInv
  <2>3. CASE EvEnd(c, FALSE) /\ UNCHANGED evHolder
    <3>1. PICK pc \in {"pass", "fail"} : evCmd' = [evCmd EXCEPT ![c].pc = pc, ![c].ingested = FALSE]
      BY <2>3 DEF EvEnd
    <3>2. evCmd' = [evCmd EXCEPT ![c] = [evCmd[c] EXCEPT !.pc = pc, !.input = evCmd[c].input]]
      BY <3>1, <2>2, <1>d
    <3> QED BY <3>2, <2>1, <2>2, <2>3, <1>d, <1>f, EvMovesOn
  <2>4. CASE ~(evCmd[c].input.kind = "trajectory" \/ evHolder # "none" \/ HasRun(evCmd[c].input.name))
    <3>1. evHolder' = c /\ evHolder = "none" /\ evCmd' = [evCmd EXCEPT ![c].pc = "ingesting"]
      BY <2>4, <1>3 DEF EvOpen, EvGo
    <3> DEFINE v == [evCmd[c] EXCEPT !.pc = "ingesting"]
    <3>2. evCmd' = [evCmd EXCEPT ![c] = v] BY <3>1, <1>d
    <3>3. /\ DOMAIN v = {"pc", "input", "next", "ingested"} /\ v.pc = "ingesting" /\ v.input = evCmd[c].input
          /\ v.next = 1 /\ v.ingested = FALSE
      BY <1>d, <2>2
    <3> HIDE DEF v
    <3>4. evCmd'[c] = v BY <3>2, <1>d
    <3>5. EvStored(c)' = {} BY <2>1, <2>2 DEF EvStored
    <3>6. EvShaped(evCmd[c].input) BY <2>4, <1>d, EvInsertsShaped
    <3>7. 1 \in 1 .. Len(Inserts(evCmd[c].input)) BY <3>6 DEF EvShaped
    <3>a. EvSoFar(c)' = {} BY <3>3, <3>4 DEF EvSoFar
    <3>8. \A r \in evRows : r.run # evCmd[c].input.name
      <4> SUFFICES ASSUME NEW r \in evRows, r.run = evCmd[c].input.name PROVE FALSE OBVIOUS
      <4>1. r.by \in EvCommands /\ r.row \in EvStored(r.by) /\ r.run = evCmd[r.by].input.name
        BY DEF EvIInv, EvRowsInv, EvStored
      <4>2. EvRow("run", 1) \in EvStored(r.by) BY <4>1 DEF EvIInv, EvCommandInv
      <4>3. PICK s \in evRows : s.by = r.by /\ s.row = EvRow("run", 1) BY <4>2 DEF EvStored
      <4>4. s.run = evCmd[s.by].input.name BY DEF EvIInv, EvRowsInv
      <4>5. s.row.table = "run" /\ s.run = evCmd[c].input.name BY <4>1, <4>3, <4>4 DEF EvRow
      <4> QED BY <4>5, <2>4 DEF HasRun
    <3>9. EvCommandInv(c)'
      <4>1. /\ evCmd'[c].pc = "ingesting" /\ evCmd'[c].input = evCmd[c].input /\ evCmd'[c].next = 1
            /\ evCmd'[c].ingested = FALSE /\ DOMAIN evCmd'[c] = {"pc", "input", "next", "ingested"}
        BY <3>3, <3>4
      <4>2. EvStored(c)' = EvSoFar(c)' BY <3>5, <3>a
      <4>3. \A r \in evRows' : r.run = evCmd'[c].input.name => r.by = c BY <3>8, <2>1, <4>1
      <4>4. evCmd'[c].next \in 1 .. Len(Inserts(evCmd'[c].input)) BY <3>7, <4>1
      <4>5. evHolder' = c /\ EvValid(evCmd'[c].input) /\ evCmd'[c].input \in EvInputs
            /\ evCmd'[c].input.kind # "trajectory"
        BY <3>1, <4>1, <2>2, <2>4, <1>d
      <4>6. evCmd'[c].ingested \in BOOLEAN /\ ~evCmd'[c].ingested BY <4>1
      <4>7. evCmd'[c].next \in Nat BY <4>1
      <4>8. evCmd'[c].pc \notin {"new", "evaluated", "truncated", "written", "refused", "error"} BY <4>1
      <4>9. ~(EvStored(c)' # {}) BY <3>5
      <4> HIDE <4>1
      <4>10. evCmd'[c].pc = "ingesting" /\ DOMAIN evCmd'[c] = {"pc", "input", "next", "ingested"} BY <4>1
      <4> QED BY <4>2, <4>3, <4>4, <4>5, <4>6, <4>7, <4>8, <4>9, <4>10 DEF EvCommandInv
    <3>10. \A d \in EvCommands \ {c} : evHolder' = d <=> evHolder = d BY <3>1, EvCommandsAssumption
    <3> QED BY <3>2, <3>3, <3>9, <3>10, <2>1, <1>f, EvFrame
  <2> QED BY <2>3, <2>4, <1>3 DEF EvOpen
<1>4. CASE EvInsert(c) BY <1>4, EvInsertKeeps
<1>5. CASE EvInsertFails(c)
  <2>1. PICK pc \in {"pass", "fail"} : evCmd' = [evCmd EXCEPT ![c].pc = pc, ![c].ingested = FALSE]
    BY <1>5 DEF EvInsertFails, EvEnd
  <2>2. evCmd' = [evCmd EXCEPT ![c] = [evCmd[c] EXCEPT !.pc = pc, !.ingested = FALSE]] BY <2>1, <1>d
  <2>3. /\ evCmd[c].pc = "ingesting" /\ evCut' = evCut \cup {c} /\ evHolder' = "none"
        /\ evRows' = evRows /\ evFile' = evFile
    BY <1>5 DEF EvInsertFails
  <2>4. PICK no : no = FALSE OBVIOUS
  <2> QED BY <2>2, <2>3, <2>4, EvCutShort
<1>6. CASE EvCrash(c)
  <2>1. evCmd' = [evCmd EXCEPT ![c].pc = "crashed"] /\ UNCHANGED <<evFile, evRows>>
        /\ evCmd[c].pc \in {"evaluated", "truncated", "written", "ingesting"}
    BY <1>6 DEF EvCrash, EvGo
  <2>2. CASE evCmd[c].pc = "ingesting"
    <3>1. evHolder = c /\ ~evCmd[c].ingested /\ evCmd[c].ingested = FALSE BY <2>2, <1>0 DEF EvCommandInv
    <3>2. evCut' = evCut \cup {c} /\ evHolder' = "none" BY <3>1, <2>2, <1>6 DEF EvCrash
    <3>3. evCmd' = [evCmd EXCEPT ![c] = [evCmd[c] EXCEPT !.pc = "crashed", !.ingested = evCmd[c].ingested]]
      BY <2>1, <1>d
    <3>4. PICK no : no = evCmd[c].ingested OBVIOUS
    <3> QED BY <2>1, <2>2, <3>1, <3>2, <3>3, <3>4, EvCutShort
  <2>3. CASE evCmd[c].pc # "ingesting"
    <3>1. evHolder # c /\ EvValid(evCmd[c].input) BY <2>1, <2>3, <1>0 DEF EvCommandInv
    <3>2. evCut' = evCut /\ evHolder' = evHolder BY <3>1, <2>3, <1>6 DEF EvCrash
    <3>3. evCmd' = [evCmd EXCEPT ![c] = [evCmd[c] EXCEPT !.pc = "crashed", !.input = evCmd[c].input]]
      BY <2>1, <1>d
    <3> QED BY <2>1, <2>3, <3>1, <3>2, <3>3, <1>d, <1>f, EvMovesOn
  <2> QED BY <2>2, <2>3
<1> QED BY <1>1, <1>2, <1>3, <1>4, <1>5, <1>6

(* The commands leave the live run alone, *)
LEMMA EvLiveFrame == EvLiveInv /\ EvNext => EvLiveInv'
BY DEF EvNext, EvEvaluate, EvTruncate, EvWrite, EvOpen, EvInsert, EvInsertFails, EvCrash, EvLiveInv

(* and it leaves them alone. *)
LEMMA EvRowsFrame == EvIInv /\ LvNext => EvIInv'
<1> SUFFICES ASSUME EvIInv, LvNext PROVE EvIInv' OBVIOUS
<1>1. UNCHANGED <<evCmd, evFile, evHolder, evRows, evCut>>
  BY DEF LvNext, LvSpawn, LvFeed, LvAgent, LvRead, LvEnd, EvStays
<1>2. \A c \in EvCommands : EvStored(c)' = EvStored(c) BY <1>1 DEF EvStored
<1> QED BY <1>1, <1>2 DEF EvIInv, EvCommandInv, EvRowsInv, EvSoFar

(* Every step of the commands and of the live run keeps both invariants. *)
LEMMA EvIInvStep == EvIInv /\ EvLiveInv /\ [EvNext \/ LvNext]_evVars => (EvIInv /\ EvLiveInv)'
<1> SUFFICES ASSUME EvIInv, EvLiveInv, [EvNext \/ LvNext]_evVars PROVE (EvIInv /\ EvLiveInv)' OBVIOUS
<1>1. CASE EvNext BY <1>1, EvStep, EvLiveFrame
<1>2. CASE LvNext BY <1>2, EvLiveStep, EvRowsFrame
<1>3. CASE UNCHANGED evVars
  <2>1. \A c \in EvCommands : EvStored(c)' = EvStored(c) BY <1>3 DEF EvStored, evVars
  <2> QED BY <1>3, <2>1 DEF evVars, EvIInv, EvCommandInv, EvRowsInv, EvLiveInv, EvSoFar
<1> QED BY <1>1, <1>2, <1>3

(* The rows of the analytics store are of one evaluation, complete unless it was
   cut short, and a live agent is heard to its end (orchestrator.rs). *)
THEOREM RowsAlways == EvSpec => [](RowsOfOneEvaluation /\ LiveRunSound)
BY EvInitInv, EvIInvStep, EvRowsHold, EvLiveHolds, PTL DEF EvSpec
-----------------------------------------------------------------------------
(* The tools side by side, each behaviour with one of them at work.          *)

(* A step of the tools is a step of one of them, and leaves the rest. *)
LEMMA ToolSteps ==
    ASSUME [Next]_vars
    PROVE  /\ [AuthNext]_authVars /\ [LoginNext]_loginVars
           /\ [MeNext]_meVars /\ [ChNext]_chVars
           /\ [SshNext]_sshVars /\ [ProxyNext]_pxVars
           /\ [AgNext]_agVars /\ [EvNext \/ LvNext]_evVars
<1>1. CASE Next
  BY <1>1 DEF Next, Others
<1>2. CASE UNCHANGED vars
  BY <1>2 DEF vars
<1> QED  BY <1>1, <1>2

(* A session is one that the current password earned, and a key's guesses are
   bounded, whatever the other tools do (handlers/auth.rs, rate_limit.rs). *)
THEOREM CredentialsAlways == Spec => []CredentialsSound
<1>1. Init => AuthIInv /\ LoginIInv
  BY AuthStart, LoginStart DEF Init
<1>2. AuthIInv /\ LoginIInv /\ [Next]_vars => (AuthIInv /\ LoginIInv)'
  BY ToolSteps, AuthStep, LoginStep
<1>3. AuthIInv /\ LoginIInv => CredentialsSound
  BY AuthRuleHolds, LoginGuesses DEF CredentialsSound
<1> QED  BY <1>1, <1>2, <1>3, PTL DEF Spec

(* Evidence was reviewed by somebody who had no part in it, and the verdict on
   an audit chain is the right one (manual_evidence.rs, run_audit.rs). *)
THEOREM RecordsAlways == Spec => []RecordsSound
<1>1. Init => MeIInv /\ ChIInv
  BY MeInitInv, ChIInvInit DEF Init
<1>2. MeIInv /\ ChIInv /\ [Next]_vars => (MeIInv /\ ChIInv)'
  BY ToolSteps, MeIInvStep, ChIInvStep
<1>3. MeIInv /\ ChIInv => RecordsSound
  BY MeEvidence, ChVerdict DEF RecordsSound
<1> QED  BY <1>1, <1>2, <1>3, PTL DEF Spec

(* No two commands share an SSH session, and every proxy that a start left
   behind is found by its stop (tumult-ssh, tumult-net). *)
THEOREM DriversAlways == Spec => []DriversSound
<1>1. Init => SshIInv /\ ProxyIInv
  BY SshIInvInit, ProxyIInvInit DEF Init
<1>2. SshIInv /\ ProxyIInv /\ [Next]_vars => (SshIInv /\ ProxyIInv)'
  BY ToolSteps, SshIInvStep, ProxyIInvStep
<1>3. SshIInv /\ ProxyIInv => DriversSound
  BY SshSound, ProxyFinds DEF DriversSound
<1> QED  BY <1>1, <1>2, <1>3, PTL DEF Spec

(* The injected faults show where they are to show, the analytics rows are of one
   evaluation, and a live agent is heard to its end (tumult-agentic). *)
THEOREM AgentsAlways == Spec => []AgentsSound
<1>1. Init => AgIInv /\ EvIInv /\ EvLiveInv
  BY AgIInvInit, EvInitInv DEF Init
<1>2. AgIInv /\ EvIInv /\ EvLiveInv /\ [Next]_vars => (AgIInv /\ EvIInv /\ EvLiveInv)'
  BY ToolSteps, AgIInvStep, EvIInvStep
<1>3. AgIInv /\ EvIInv /\ EvLiveInv => AgentsSound
  BY AgFaultsHold, EvRowsHold, EvLiveHolds DEF AgentsSound
<1> QED  BY <1>1, <1>2, <1>3, PTL DEF Spec
=============================================================================
