----------------------------- MODULE MCServices -----------------------------
(* The daemon's background services on small instances, for TLC.  They share *)
(* no state, so each behaviour runs one of them and leaves the rest at their *)
(* initial states.                                                           *)
EXTENDS Schedules, Webhooks, Daemon, Executors, Telemetry

VARIABLE part  \* the service that runs

MCInterval == [s \in Schedules |-> IF s = "a" THEN 1 ELSE 2]
MCHookEvents == [h \in Hooks |-> {"a"}]

\* One initial state of the services that have several.
DaemonRests == DaemonInit /\ dmOwner = [e \in Envelopes |-> Sweeper]
ExecRests == ExecInit /\ exKind = "process" /\ exTimed
TmRests ==
    /\ TmInit /\ tmToken /\ tmLoopback = {}
    /\ \A x \in TmExporters : tmExport[x].kind = "spans" /\ tmExport[x].port = "http" /\ tmExport[x].remote

Init ==
    /\ SchedInit /\ HookInit
    /\ \/ part \in {"schedules", "webhooks"} /\ DaemonRests /\ ExecRests /\ TmRests
       \/ part = "daemon" /\ DaemonInit /\ ExecRests /\ TmRests
       \/ part = "executors" /\ ExecInit /\ DaemonRests /\ TmRests
       \/ part = "telemetry" /\ TmInit /\ DaemonRests /\ ExecRests

Next ==
    /\ UNCHANGED part
    /\ \/ part = "schedules" /\ SchedNextStep /\ UNCHANGED <<hookVars, dmVars, exVars, tmVars>>
       \/ part = "webhooks" /\ HookNext /\ UNCHANGED <<schedVars, dmVars, exVars, tmVars>>
       \/ part = "daemon" /\ DaemonNext /\ UNCHANGED <<schedVars, hookVars, exVars, tmVars>>
       \/ part = "executors" /\ ExecNext /\ UNCHANGED <<schedVars, hookVars, dmVars, tmVars>>
       \/ part = "telemetry" /\ TmNext /\ UNCHANGED <<schedVars, hookVars, dmVars, exVars>>

vars == <<part, schedVars, hookVars, dmVars, exVars, tmVars>>

\* A service that rests has none of its fair steps enabled.
Spec ==
    /\ Init /\ [][Next]_vars
    /\ SchedFairness /\ HookFairness /\ DaemonFairness /\ ExecFairness

(* What an exporter or a caller of the writer was told is true, for a batch
   in the channel of the ingest writer and for the rows of an export. *)
IntakeSound == CleanStopLosesNothing /\ TelemetrySound
=============================================================================
