---------------------------- MODULE GamedayCore ----------------------------
(***************************************************************************)
(* A GameDay run by the CLI or by the MCP server (tumult-core/src/runner/  *)
(* gameday.rs): experiments one after the other under a shared k6 load     *)
(* (runner/k6.rs), and the resilience score of the journals collected.     *)
(* The frontends differ: `tumult gameday run` has a cancellation token and *)
(* writes its journal at the end, the MCP tool has no token and reserves   *)
(* the journal's place first.                                              *)
(***************************************************************************)
EXTENDS Naturals, Sequences, FiniteSets

CONSTANTS
    Articles,  \* the compliance articles of each declared experiment, in order
    MaxPolls   \* how often stop() finds k6 alive before K6_STOP_TIMEOUT

ASSUME GamedayAssumption ==
    /\ Articles \in Seq(SUBSET STRING) /\ MaxPolls \in Nat
    /\ \A i \in DOMAIN Articles : IsFiniteSet(Articles[i])

VARIABLES
    gdFront,     \* "cli" or "mcp"
    gdPc,        \* where run_gameday_with_wiring and its caller are
    gdJournals,  \* the journals collected, in campaign order
    gdChild,     \* the k6 process: "none", "running", "exited" or "killed";
                 \* "unwatched" is one that runs and is no longer looked at
    gdHeld,      \* the LoadGuard still has the handle
    gdPolls,     \* polls left before the deadline of stop()
    gdLoad,      \* the load result: the share of failed checks in 60ths, or {}
    gdCancelled, \* the cancellation token
    gdFailed,    \* an experiment could not be executed
    gdAnswer     \* what the command returned

gdVars == <<gdFront, gdPc, gdJournals, gdChild, gdHeld, gdPolls, gdLoad, gdCancelled,
            gdFailed, gdAnswer>>

\* A journal: the experiment's status, and its recovery against the MTTR
\* target where a post phase measured one.  "Deviated" is any status but
\* Completed.
GdJournal == [status : {"Completed", "Deviated"}, recovery : {"none", "met", "missed"}]

GamedayInit ==
    /\ gdFront \in {"cli", "mcp"}
    /\ gdPc = "start" /\ gdJournals = <<>> /\ gdChild = "none" /\ gdHeld = FALSE
    /\ gdPolls = MaxPolls /\ gdLoad = {} /\ gdCancelled = FALSE /\ gdFailed = FALSE
    /\ gdAnswer = "none"

-----------------------------------------------------------------------------
(* The score.  A component is a share in 60ths, the overall score a        *)
(* weighted sum in 6000ths.                                                *)

Share(part, whole) == (60 * part) \div whole

GdPasses(js) == {i \in DOMAIN js : js[i].status = "Completed"}

\* Over the journals collected; a campaign with none scores zero.
PassRate(js) == IF js = <<>> THEN 0 ELSE Share(Cardinality(GdPasses(js)), Len(js))

\* compute_recovery_compliance: journals without a post phase do not count.
RecoveryCompliance(js) ==
    LET Measured == {i \in DOMAIN js : js[i].recovery # "none"}
        Met == {i \in DOMAIN js : js[i].recovery = "met"}
    IN  IF Measured = {} THEN 60 ELSE Share(Cardinality(Met), Cardinality(Measured))

\* compute_compliance_coverage: the articles of the experiments that have a
\* journal, and those of them that a completed experiment maps.
ComplianceCoverage(js) ==
    LET Of(S) == UNION {Articles[i] : i \in S}
    IN  IF Of(DOMAIN js) = {} THEN 60
        ELSE Share(Cardinality(Of(GdPasses(js))), Cardinality(Of(DOMAIN js)))

\* No result, because no load was declared or k6 gave none, counts in full.
LoadImpact(load) == IF load = {} THEN 60 ELSE 60 - CHOOSE e \in load : TRUE

Overall(js, load) ==
    30 * PassRate(js) + 25 * RecoveryCompliance(js) + 25 * LoadImpact(load)
      + 20 * ComplianceCoverage(js)

\* The sum in floating point: two passes out of three and a full score
\* otherwise add up to a number just below 0.90.
GdStatus(js, load) ==
    LET Short == PassRate(js) = 40 /\ Overall(js, load) = 5400
    IN  CASE Overall(js, load) >= 5400 /\ ~Short -> "COMPLIANT"
          [] Overall(js, load) >= 4500 -> "PARTIAL"
          [] OTHER -> "NON-COMPLIANT"

-----------------------------------------------------------------------------
(* The campaign.                                                           *)

\* The file, every experiment's definition, configuration, secrets, template
\* and validation, and for the MCP tool the journal's place: the first that
\* fails ends the command before anything runs.
GdPrepare ==
    /\ gdPc = "start"
    /\ \/ gdPc' = "load" /\ UNCHANGED gdAnswer
       \/ gdPc' = "returned" /\ gdAnswer' = "refused"
    /\ UNCHANGED <<gdFront, gdJournals, gdChild, gdHeld, gdPolls, gdLoad, gdCancelled, gdFailed>>

\* A load that is not declared, or that does not start, is no obstacle.
GdStartLoad ==
    /\ gdPc = "load" /\ gdPc' = "run"
    /\ \/ gdChild' = "running" /\ gdHeld' = TRUE
       \/ UNCHANGED <<gdChild, gdHeld>>
    /\ UNCHANGED <<gdFront, gdJournals, gdPolls, gdLoad, gdCancelled, gdFailed, gdAnswer>>

\* SIGINT.
GdCancel ==
    /\ gdFront = "cli" /\ gdPc \in {"load", "run", "stop"} /\ ~gdCancelled /\ gdCancelled' = TRUE
    /\ UNCHANGED <<gdFront, gdPc, gdJournals, gdChild, gdHeld, gdPolls, gdLoad, gdFailed, gdAnswer>>

GdMore == Len(gdJournals) < Len(Articles) /\ ~gdCancelled /\ ~gdFailed

\* run_experiment: a journal, an error that stops the campaign, or a panic,
\* which unwinds through the guard.
GdExperiment ==
    /\ gdPc = "run" /\ GdMore
    /\ \/ \E j \in GdJournal : gdJournals' = Append(gdJournals, j) /\ UNCHANGED <<gdPc, gdFailed>>
       \/ gdFailed' = TRUE /\ UNCHANGED <<gdPc, gdJournals>>
       \/ gdPc' = "unwind" /\ UNCHANGED <<gdJournals, gdFailed>>
    /\ UNCHANGED <<gdFront, gdChild, gdHeld, gdPolls, gdLoad, gdCancelled, gdAnswer>>

GdLoopEnds ==
    /\ gdPc = "run" /\ ~GdMore /\ gdPc' = "stop"
    /\ UNCHANGED <<gdFront, gdJournals, gdChild, gdHeld, gdPolls, gdLoad, gdCancelled, gdFailed, gdAnswer>>

\* k6 comes to the end of its own duration.  One that is not watched any more
\* closes its pipes with it: the threads that drain them are joined, and the
\* caller goes on without a result.
GdLoadExits ==
    /\ gdChild \in {"running", "unwatched"} /\ gdChild' = "exited"
    /\ gdHeld' = (gdHeld /\ gdChild = "running")
    /\ UNCHANGED <<gdFront, gdPc, gdJournals, gdPolls, gdLoad, gdCancelled, gdFailed, gdAnswer>>

\* wait_with_timeout: poll until k6 has exited or the deadline passed; a k6
\* that is still alive then is killed and reaped, and its result is lost.  A
\* poll that fails ends the wait: nobody kills k6, whose pipes are drained
\* until it closes them.
GdPoll ==
    /\ gdPc \in {"stop", "unwind"} /\ gdHeld /\ gdChild = "running"
    /\ \/ gdPolls > 0 /\ gdPolls' = gdPolls - 1 /\ UNCHANGED <<gdChild, gdHeld>>
       \/ gdPolls = 0 /\ gdChild' = "killed" /\ gdHeld' = FALSE /\ UNCHANGED gdPolls
       \/ gdChild' = "unwatched" /\ UNCHANGED <<gdHeld, gdPolls>>
    /\ UNCHANGED <<gdFront, gdPc, gdJournals, gdLoad, gdCancelled, gdFailed, gdAnswer>>

\* The summary of a k6 that exited; a summary without checks reads as no error.
GdCollect ==
    /\ gdPc \in {"stop", "unwind"} /\ gdHeld /\ gdChild = "exited" /\ gdHeld' = FALSE
    /\ IF gdPc = "stop" THEN \E e \in {0, 30, 60} : gdLoad' = {e} ELSE UNCHANGED gdLoad
    /\ UNCHANGED <<gdFront, gdPc, gdJournals, gdChild, gdPolls, gdCancelled, gdFailed, gdAnswer>>

\* The score and the journal file; the MCP tool has its place already, though
\* writing it can fail as well.
GdReturn ==
    /\ gdPc = "stop" /\ ~gdHeld /\ gdPc' = "returned"
    /\ gdAnswer' \in {GdStatus(gdJournals, gdLoad), "unwritten"}
    /\ UNCHANGED <<gdFront, gdJournals, gdChild, gdHeld, gdPolls, gdLoad, gdCancelled, gdFailed>>

\* Mutant: a panic leaves without the guard.
GdUnwound_NoGuard ==
    /\ gdPc = "unwind" /\ gdPc' = "returned" /\ gdAnswer' = "panicked"
    /\ UNCHANGED <<gdFront, gdJournals, gdChild, gdHeld, gdPolls, gdLoad, gdCancelled, gdFailed>>

GdUnwound ==
    /\ gdPc = "unwind" /\ ~gdHeld /\ gdPc' = "returned" /\ gdAnswer' = "panicked"
    /\ UNCHANGED <<gdFront, gdJournals, gdChild, gdHeld, gdPolls, gdLoad, gdCancelled, gdFailed>>

GamedayNext ==
    \/ GdPrepare \/ GdStartLoad \/ GdCancel \/ GdExperiment \/ GdLoopEnds
    \/ GdLoadExits \/ GdPoll \/ GdCollect \/ GdReturn \/ GdUnwound

GamedaySpec == GamedayInit /\ [][GamedayNext]_gdVars

GamedayTypeOK ==
    /\ gdPc \in {"start", "load", "run", "stop", "unwind", "returned"}
    /\ gdJournals \in Seq(GdJournal) /\ gdPolls \in 0..MaxPolls
    /\ gdChild \in {"none", "running", "unwatched", "exited", "killed"}

-----------------------------------------------------------------------------
(* Properties.                                                             *)

\* The shared k6 never outlives its campaign: whichever way
\* run_gameday_with_wiring is left (the normal end, a cancellation, an
\* experiment that cannot run, a panic), no load process is running once the
\* caller has its answer (LoadGuard, wait_with_timeout).  And the answer can be
\* trusted: a campaign called COMPLIANT has passed more than two thirds of the
\* experiments it ran, has met at least half of their articles, and has lost at
\* most two fifths of the load's checks.
GdSound ==
    /\ gdPc = "returned" => gdChild \notin {"running", "unwatched"} /\ ~gdHeld
    /\ gdAnswer = "COMPLIANT" =>
         /\ 3 * Cardinality(GdPasses(gdJournals)) > 2 * Len(gdJournals)
         /\ 2 * Cardinality(UNION {Articles[i] : i \in GdPasses(gdJournals)})
              >= Cardinality(UNION {Articles[i] : i \in DOMAIN gdJournals})
         /\ \A e \in gdLoad : 5 * e <= 2 * 60

\* An experiment that could not be executed is an error of the command, as the
\* comments on gameday_run and cmd_gameday_run promise.
GdErrorReported ==
    gdPc = "returned" /\ gdFailed => gdAnswer \in {"unwritten", "panicked"}
=============================================================================
