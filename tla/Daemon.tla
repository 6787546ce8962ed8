------------------------------- MODULE Daemon -------------------------------
(***************************************************************************)
(* The ingest writer (tumult-ingest/src/writer.rs) and the life of the     *)
(* daemon around it (tumultd/src/serve/mod.rs).  Servers, supervisors and  *)
(* run workers hold clones of the channel's sender; the writer applies one *)
(* envelope after the other and ends when the last clone is dropped.  On a *)
(* signal the daemon must bring that about in the right order.             *)
(***************************************************************************)
EXTENDS Naturals, Sequences

CONSTANTS
    Servers,        \* the gRPC and HTTP server tasks
    Supervisors,    \* lake, schedule, webhook, gameday and retention tasks
    RunTasks,       \* the approval sweeper and the run workers
    Sweeper,        \* the one of them that waits for RunQueue::shutdown
    Envelopes,      \* batches that may be written
    WriterBuffer,   \* capacity of the channel
    DaemonMaxFatal  \* bound: fatal store errors

Holders == Servers \cup Supervisors \cup RunTasks

ASSUME DaemonAssumption ==
    /\ WriterBuffer \in Nat \ {0} /\ DaemonMaxFatal \in Nat
    /\ Sweeper \in RunTasks
    /\ Servers \cap (Supervisors \cup RunTasks) = {} /\ Supervisors \cap RunTasks = {}

VARIABLES
    dmMain,         \* serve(): "serving", "supervisors", "drain",
                    \* "stopped", or "failed" by an early return
    dmSignalled,    \* SIGTERM or SIGINT was received
    dmTask,         \* each holder: "run", or without its clone "ended" or "failed"
    dmWrite,        \* each envelope: "new", "sending", "queued", "applied",
                    \* "failed" or "dropped" with the process
    dmOwner,        \* the holder that writes it
    dmCaller,       \* what write() told its caller: "none", "ok", "err", "gone"
    dmChannel,      \* the mpsc channel
    dmConn,         \* the connection: "good" or "fatal"
    dmFatals        \* fatal errors so far, for the bound

dmVars == <<dmMain, dmSignalled, dmTask, dmWrite, dmOwner, dmCaller, dmChannel,
            dmConn, dmFatals>>
dmLife == <<dmMain, dmSignalled, dmTask>>

DaemonTypeOK ==
    /\ dmMain \in {"serving", "supervisors", "drain", "stopped", "failed"}
    /\ dmSignalled \in BOOLEAN
    /\ dmTask \in [Holders -> {"run", "ended", "failed"}]
    /\ dmWrite \in [Envelopes -> {"new", "sending", "queued", "applied", "failed",
                                  "dropped"}]
    /\ dmOwner \in [Envelopes -> Holders]
    /\ dmCaller \in [Envelopes -> {"none", "ok", "err", "gone"}]
    /\ dmChannel \in Seq(Envelopes)
    /\ dmConn \in {"good", "fatal"}
    /\ dmFatals \in 0 .. DaemonMaxFatal

DaemonInit ==
    /\ dmMain = "serving" /\ dmSignalled = FALSE
    /\ dmTask = [t \in Holders |-> "run"]
    /\ dmWrite = [e \in Envelopes |-> "new"]
    /\ dmOwner \in [Envelopes -> Holders]
    /\ dmCaller = [e \in Envelopes |-> "none"]
    /\ dmChannel = <<>>
    /\ dmConn = "good" /\ dmFatals = 0

Alive == dmMain \notin {"stopped", "failed"}
InFlight(t) == {e \in Envelopes : dmOwner[e] = t /\ dmWrite[e] \in {"sending", "queued"}
                                    /\ dmCaller[e] = "none"}

-----------------------------------------------------------------------------
(* IngestWriter::write and the writer's loop.                              *)

\* A handler, a supervisor's tick or a worker begins a write; a task writes
\* one batch at a time.
BeginWrite(e) ==
    /\ Alive /\ dmWrite[e] = "new" /\ dmTask[dmOwner[e]] = "run"
    /\ InFlight(dmOwner[e]) = {}
    /\ dmWrite' = [dmWrite EXCEPT ![e] = "sending"]
    /\ UNCHANGED <<dmLife, dmOwner, dmCaller, dmChannel, dmConn, dmFatals>>

\* send().await: a full channel makes the sender wait.
SendEnvelope(e) ==
    /\ Alive /\ dmWrite[e] = "sending" /\ Len(dmChannel) < WriterBuffer
    /\ dmChannel' = Append(dmChannel, e)
    /\ dmWrite' = [dmWrite EXCEPT ![e] = "queued"]
    /\ UNCHANGED <<dmLife, dmOwner, dmCaller, dmConn, dmFatals>>

\* The client of a server goes away: before the send nothing is written, after
\* it the batch is applied all the same.
ClientGone(e) ==
    /\ Alive /\ dmOwner[e] \in Servers /\ dmCaller[e] = "none"
    /\ dmWrite[e] \in {"sending", "queued"}
    /\ dmCaller' = [dmCaller EXCEPT ![e] = "gone"]
    /\ dmWrite' = [dmWrite EXCEPT ![e] = IF @ = "sending" THEN "dropped" ELSE @]
    /\ UNCHANGED <<dmLife, dmOwner, dmChannel, dmConn, dmFatals>>

Answer(e, result) ==
    /\ dmChannel' = Tail(dmChannel)
    /\ dmWrite' = [dmWrite EXCEPT ![e] = IF result = "ok" THEN "applied" ELSE "failed"]
    /\ dmCaller' = [dmCaller EXCEPT ![e] = IF @ = "gone" THEN @ ELSE result]
    /\ UNCHANGED <<dmLife, dmOwner>>

\* run_loop with a good connection: applied, or refused by the store.
ApplyBatch ==
    /\ Alive /\ dmChannel # <<>> /\ dmConn = "good"
    /\ \E result \in {"ok", "err"} : Answer(Head(dmChannel), result)
    /\ UNCHANGED <<dmConn, dmFatals>>

\* A FATAL error kills the connection.  The batch is not retried; after at
\* most three attempts to reconnect the loop goes on, with the rebuilt writer
\* or with the dead one, on which every batch is FATAL again.
ApplyFatal(rebuilt) ==
    /\ Alive /\ dmChannel # <<>>
    /\ dmConn = "fatal" \/ dmFatals < DaemonMaxFatal
    /\ dmFatals' = IF dmConn = "good" THEN dmFatals + 1 ELSE dmFatals
    /\ Answer(Head(dmChannel), "err")
    /\ dmConn' = IF rebuilt THEN "good" ELSE "fatal"

-----------------------------------------------------------------------------
(* serve(): from the signal to the end of the process.                     *)

ShutdownSignal ==
    /\ dmMain = "serving" /\ ~dmSignalled /\ dmSignalled' = TRUE
    /\ UNCHANGED <<dmMain, dmTask, dmWrite, dmOwner, dmCaller, dmChannel, dmConn,
                   dmFatals>>

EndTask(t) == dmTask' = [dmTask EXCEPT ![t] = "ended"]

\* A server shuts down gracefully: its requests are answered first.
ServerStops(s) ==
    /\ dmMain = "serving" /\ dmSignalled /\ dmTask[s] = "run" /\ InFlight(s) = {}
    /\ EndTask(s)
    /\ UNCHANGED <<dmMain, dmSignalled, dmWrite, dmOwner, dmCaller, dmChannel,
                   dmConn, dmFatals>>

\* join! of both servers, then background_shutdown.cancel().
ServersJoined ==
    /\ dmMain = "serving" /\ \A s \in Servers : dmTask[s] = "ended"
    /\ dmMain' = "supervisors"
    /\ UNCHANGED <<dmSignalled, dmTask, dmWrite, dmOwner, dmCaller, dmChannel,
                   dmConn, dmFatals>>

\* A supervisor sees the token between two ticks, never inside one.
SupervisorStops(t) ==
    /\ dmMain = "supervisors" /\ dmTask[t] = "run" /\ InFlight(t) = {}
    /\ EndTask(t)
    /\ UNCHANGED <<dmMain, dmSignalled, dmWrite, dmOwner, dmCaller, dmChannel,
                   dmConn, dmFatals>>

\* All handles awaited: run_queue.shutdown() and drop(run_queue).
SupervisorsJoined ==
    /\ dmMain = "supervisors" /\ \A t \in Supervisors : dmTask[t] = "ended"
    /\ dmMain' = "drain"
    /\ UNCHANGED <<dmSignalled, dmTask, dmWrite, dmOwner, dmCaller, dmChannel,
                   dmConn, dmFatals>>

\* Mutant: RunQueue::shutdown is not called.
SweeperSignalled_Forgotten == FALSE

\* RunQueue::shutdown stops the sweeper, and nothing else does.
SweeperSignalled == dmMain = "drain"

\* A worker ends when every clone of the run queue is gone: the handlers, the
\* supervisors that enqueue, and the daemon's own.
QueueClosed ==
    /\ dmMain = "drain" /\ \A t \in Servers \cup Supervisors : dmTask[t] = "ended"

RunTaskStops(t) ==
    /\ IF t = Sweeper THEN SweeperSignalled ELSE QueueClosed
    /\ dmTask[t] = "run" /\ InFlight(t) = {}
    /\ EndTask(t)
    /\ UNCHANGED <<dmMain, dmSignalled, dmWrite, dmOwner, dmCaller, dmChannel,
                   dmConn, dmFatals>>

\* Mutant: the process ends when the holders do, with the channel undrained.
WriterEnds_Undrained ==
    /\ dmMain = "drain"
    /\ dmMain' = "stopped"
    /\ UNCHANGED <<dmSignalled, dmTask, dmWrite, dmOwner, dmCaller, dmChannel,
                   dmConn, dmFatals>>

\* The channel closes when the last clone is dropped and it is empty; only
\* then is the writer's handle ready.
WriterEnds ==
    /\ dmMain = "drain" /\ dmChannel = <<>>
    /\ \A t \in Holders : dmTask[t] = "ended"
    /\ dmMain' = "stopped"
    /\ UNCHANGED <<dmSignalled, dmTask, dmWrite, dmOwner, dmCaller, dmChannel,
                   dmConn, dmFatals>>

\* A server fails: a port that is taken, a bad certificate.
ServerFails(s) ==
    /\ dmMain = "serving" /\ ~dmSignalled /\ dmTask[s] = "run" /\ InFlight(s) = {}
    /\ dmTask' = [dmTask EXCEPT ![s] = "failed"]
    /\ UNCHANGED <<dmMain, dmSignalled, dmWrite, dmOwner, dmCaller, dmChannel,
                   dmConn, dmFatals>>

\* serve() finds out when the other server has ended too, and returns without a
\* drain.
ServeFails ==
    /\ dmMain = "serving" /\ \A s \in Servers : dmTask[s] # "run"
    /\ \E s \in Servers : dmTask[s] = "failed"
    /\ dmMain' = "failed"
    /\ dmTask' = [t \in Holders |-> "ended"]
    /\ dmWrite' = [e \in Envelopes |->
                     IF dmWrite[e] \in {"sending", "queued"} THEN "dropped" ELSE dmWrite[e]]
    /\ dmChannel' = <<>>
    /\ UNCHANGED <<dmSignalled, dmOwner, dmCaller, dmConn, dmFatals>>

WriterStep == ApplyBatch \/ \E rebuilt \in BOOLEAN : ApplyFatal(rebuilt)
TaskStep(t) ==
    \/ t \in Servers /\ ServerStops(t)
    \/ t \in Supervisors /\ SupervisorStops(t)
    \/ t \in RunTasks /\ RunTaskStops(t)
    \/ \E e \in Envelopes : dmOwner[e] = t /\ SendEnvelope(e)
MainStep == ServersJoined \/ SupervisorsJoined \/ WriterEnds \/ ServeFails

DaemonNext ==
    \/ \E e \in Envelopes : BeginWrite(e) \/ ClientGone(e)
    \/ \E t \in Holders : TaskStep(t)
    \/ \E s \in Servers : ServerFails(s)
    \/ WriterStep \/ ShutdownSignal \/ MainStep

\* Tokio runs ready tasks; a tick, a request and an experiment end (there are
\* finitely many writes).  Nobody has to send a signal.
DaemonFairness ==
    /\ WF_dmVars(WriterStep)
    /\ WF_dmVars(MainStep)
    /\ \A t \in Holders : WF_dmVars(TaskStep(t))

DaemonSpec == DaemonInit /\ [][DaemonNext]_dmVars /\ DaemonFairness

-----------------------------------------------------------------------------
(* A clean stop loses nothing: when the daemon says that it stopped cleanly,
   every batch that entered the channel was applied or its failure reported,
   no caller was told "ok" for one that was not applied, and nobody is left
   waiting for an answer. *)
CleanStopLosesNothing ==
    /\ \A e \in Envelopes : dmCaller[e] = "ok" => dmWrite[e] = "applied"
    /\ dmMain = "stopped" =>
         \A e \in Envelopes : /\ dmWrite[e] \notin {"sending", "queued"}
                              /\ dmWrite[e] = "dropped" => dmCaller[e] = "gone"

(* The drain does not hang: after a signal the process ends, although the
   writer waits for every holder of a clone, the daemon for every supervisor,
   and each of them for answers of the writer. *)
DaemonStops == dmSignalled ~> ~Alive

=============================================================================
