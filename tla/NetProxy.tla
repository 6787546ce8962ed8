------------------------------ MODULE NetProxy ------------------------------
(***************************************************************************)
(* The TCP chaos proxy of tumult-net on one listen address: the actions    *)
(* that start a detached daemon and leave its pid in a file, and the       *)
(* rollback that finds the daemon again by that file (actions.rs).  The    *)
(* daemon (bin/tumult-net-proxyd.rs) binds the address or exits.           *)
(***************************************************************************)
EXTENDS Naturals, FiniteSets

CONSTANTS
    ProxyCalls,     \* actions and rollbacks in flight at once
    FaultFunctions, \* functions of the plugin that are called
    ProxyMaxPids    \* bound: daemons ever spawned

ASSUME ProxyAssumption == ProxyMaxPids \in Nat

VARIABLES
    pxProc,      \* each pid: "none", "starting", "bound", "killed" (signalled,
                 \* and not gone yet), "dead", or "other" once it is reused
    pxFault,     \* the knob each daemon turns
    pxPidfile,   \* the pid in the pidfile, {} without one
    pxCall,      \* the calls
    pxMixed,     \* history: a start overlapped another start, or a stop
    pxMet,       \* history: a start met a daemon that was still alive
    pxLost,      \* history: daemons whose pid was not written, whose kill failed,
                 \* or that ran when another start followed
    pxWrong      \* history: pids whose start reported success although another
                 \* daemon, with another fault, had answered

pxHistory == <<pxMixed, pxMet, pxLost, pxWrong>>
pxVars == <<pxProc, pxFault, pxPidfile, pxCall, pxHistory>>

ProxyPids == 1 .. ProxyMaxPids
ProxyIdle == [pc |-> "idle", pid |-> 0]
Knobs == {"delay", "rate", "slice", "corrupt", "terminate"}

ProxyInit ==
    /\ pxProc = [p \in ProxyPids |-> "none"]
    /\ pxFault = [p \in ProxyPids |-> {}]
    /\ pxPidfile = {}
    /\ pxCall = [c \in ProxyCalls |-> ProxyIdle]
    /\ pxMixed = FALSE /\ pxMet = FALSE /\ pxLost = {} /\ pxWrong = {}

ProxyGo(c, pc) == pxCall' = [pxCall EXCEPT ![c].pc = pc]
ProxyLeave(c) == pxCall' = [pxCall EXCEPT ![c] = ProxyIdle]
Bound == {p \in ProxyPids : pxProc[p] \in {"bound", "killed"}}
Alongside(c) == \E d \in ProxyCalls \ {c} : pxCall[d].pc # "idle"
LiveProxy(p) == pxProc[p] \in {"starting", "bound", "killed"}
ProxyRunning(p) == pxProc[p] \in {"starting", "bound"}

-----------------------------------------------------------------------------
(* spawn_proxy, behind each of the fault actions.                          *)

\* The knobs of the profile each function builds.
ProfileOf(function) ==
    CASE function = "inject_latency" -> {"delay"}
      [] function = "throttle_bandwidth" -> {"rate"}
      [] function = "fragment_stream" -> {"slice"}
      [] function = "corrupt_bytes" -> {"corrupt"}
      [] function = "terminate_connections" -> {"terminate"}
      [] function = "start_proxy" -> Knobs

\* A probability outside the unit interval.
ProfileInvalid(profile, range) == range = "outside" /\ profile \cap {"corrupt", "terminate"} # {}

\* A loop, an invalid profile or a missing daemon binary starts nothing.
SpawnProxy(c, function, range, loop, p) ==
    /\ pxCall[c].pc = "idle" /\ ~loop /\ ~ProfileInvalid(ProfileOf(function), range)
    /\ pxProc[p] = "none" /\ \A q \in 1 .. p - 1 : pxProc[q] # "none"
    /\ pxProc' = [pxProc EXCEPT ![p] = "starting"]
    /\ pxFault' = [pxFault EXCEPT ![p] = ProfileOf(function)]
    /\ pxCall' = [pxCall EXCEPT ![c] = [pc |-> "pidfile", pid |-> p]]
    /\ pxMixed' = (pxMixed \/ Alongside(c))
    /\ pxMet' = (pxMet \/ \E q \in ProxyPids : LiveProxy(q))
    /\ pxLost' = pxLost \cup {q \in ProxyPids : ProxyRunning(q)}
    /\ UNCHANGED <<pxPidfile, pxWrong>>

WritePidfile(c) ==
    /\ pxCall[c].pc = "pidfile"
    /\ pxPidfile' = {pxCall[c].pid} /\ ProxyGo(c, "ready")
    /\ UNCHANGED <<pxProc, pxFault, pxHistory>>

\* The write fails before or after the old file was truncated: the start
\* returns the error, and the daemon it detached stays.
WritePidfileFails(c) ==
    /\ pxCall[c].pc = "pidfile"
    /\ pxPidfile' \in {pxPidfile, {}} /\ ProxyLeave(c)
    /\ pxLost' = pxLost \cup {pxCall[c].pid}
    /\ UNCHANGED <<pxProc, pxFault, pxMixed, pxMet, pxWrong>>

\* wait_ready: whoever has the address answers.
WaitReady(c, by) ==
    /\ pxCall[c].pc = "ready" /\ by \in Bound
    /\ pxWrong' = IF pxFault[by] = pxFault[pxCall[c].pid] THEN pxWrong
                  ELSE pxWrong \cup {pxCall[c].pid}
    /\ ProxyLeave(c)
    /\ UNCHANGED <<pxProc, pxFault, pxPidfile, pxMixed, pxMet, pxLost>>

\* Mutant: the half-alive daemon is left alone.
ReadyTimeout_NoKill(c) ==
    /\ pxCall[c].pc = "ready" /\ ProxyGo(c, "unlink")
    /\ UNCHANGED <<pxProc, pxFault, pxPidfile, pxHistory>>

\* The deadline: the half-alive daemon is signalled, then the pidfile goes.
ReadyTimeout(c) ==
    /\ pxCall[c].pc = "ready" /\ ProxyGo(c, "kill")
    /\ UNCHANGED <<pxProc, pxFault, pxPidfile, pxHistory>>

-----------------------------------------------------------------------------
(* stop_proxy.                                                             *)

ReadPidfile(c) ==
    /\ pxCall[c].pc = "idle"
    /\ pxPidfile # {}
    /\ \E p \in pxPidfile : pxCall' = [pxCall EXCEPT ![c] = [pc |-> "identify", pid |-> p]]
    /\ pxMixed' = (pxMixed \/ \E d \in ProxyCalls : pxCall[d].pc = "pidfile")
    /\ UNCHANGED <<pxProc, pxFault, pxPidfile, pxMet, pxLost, pxWrong>>

\* is_proxyd_process: a pid that is not a live daemon is not signalled.
IsProxydProcess(c) ==
    /\ pxCall[c].pc = "identify"
    /\ ProxyGo(c, IF LiveProxy(pxCall[c].pid) THEN "kill" ELSE "unlink")
    /\ UNCHANGED <<pxProc, pxFault, pxPidfile, pxHistory>>

\* kill <pid>: SIGTERM, which the daemon takes some time to obey.
Kill(c) ==
    /\ pxCall[c].pc = "kill"
    /\ pxProc' = [pxProc EXCEPT ![pxCall[c].pid] =
                    IF @ \in {"starting", "bound"} THEN "killed" ELSE @]
    /\ ProxyGo(c, "unlink")
    /\ UNCHANGED <<pxFault, pxPidfile, pxHistory>>

\* The result of the kill command is dropped: the pidfile goes all the same.
KillFails(c) ==
    /\ pxCall[c].pc = "kill"
    /\ pxLost' = pxLost \cup {pxCall[c].pid}
    /\ ProxyGo(c, "unlink")
    /\ UNCHANGED <<pxProc, pxFault, pxPidfile, pxMixed, pxMet, pxWrong>>

Unlink(c) ==
    /\ pxCall[c].pc = "unlink"
    /\ pxPidfile' = {} /\ ProxyLeave(c)
    /\ UNCHANGED <<pxProc, pxFault, pxHistory>>

-----------------------------------------------------------------------------
(* The daemon.                                                             *)

\* It binds the address, or it exits because somebody else has it.
ProxydBind(p) ==
    /\ pxProc[p] = "starting"
    /\ pxProc' = [pxProc EXCEPT ![p] = IF Bound = {} THEN "bound" ELSE "dead"]
    /\ UNCHANGED <<pxFault, pxPidfile, pxCall, pxHistory>>

\* A signal ends it, and so does an error of accept().
ProxydExits(p) ==
    /\ pxProc[p] \in {"bound", "killed"}
    /\ pxProc' = [pxProc EXCEPT ![p] = "dead"]
    /\ UNCHANGED <<pxFault, pxPidfile, pxCall, pxHistory>>

\* The system gives the pid of a dead daemon to something else.
PidReused(p) ==
    /\ pxProc[p] = "dead"
    /\ pxProc' = [pxProc EXCEPT ![p] = "other"]
    /\ UNCHANGED <<pxFault, pxPidfile, pxCall, pxHistory>>

ProxyNext ==
    \/ \E c \in ProxyCalls :
         \/ \E function \in FaultFunctions, range \in {"inside", "outside"},
               loop \in BOOLEAN, p \in ProxyPids :
              SpawnProxy(c, function, range, loop, p)
         \/ WritePidfile(c) \/ WritePidfileFails(c) \/ ReadyTimeout(c)
         \/ \E by \in Bound : WaitReady(c, by)
         \/ ReadPidfile(c) \/ IsProxydProcess(c)
         \/ Kill(c) \/ KillFails(c) \/ Unlink(c)
    \/ \E p \in ProxyPids : ProxydBind(p) \/ ProxydExits(p) \/ PidReused(p)

ProxySpec == ProxyInit /\ [][ProxyNext]_pxVars

-----------------------------------------------------------------------------
Quiet == \A c \in ProxyCalls : pxCall[c].pc = "idle"

(* The rollback finds what was started: when no call is in flight, and unless a
   start overlapped another start or a stop, a daemon that still runs is named
   by the pidfile or has been signalled, or it is one the code itself gave up:
   its pidfile write or its kill failed, or another start on the address
   followed.  As long as no start met a living daemon, every start that
   reported success was answered by the fault it asked for. *)
ProxyRollbackFinds ==
    Quiet /\ ~pxMixed =>
        /\ \A p \in ProxyPids : ProxyRunning(p) => p \in pxPidfile \cup pxLost
        /\ ~pxMet => pxWrong = {}

(* actions.rs: "a dead-on-arrival daemon (e.g. the port was already bound)
   fails the start": a start that reports success was answered by the daemon it
   spawned, with the fault it asked for. *)
StartedProxyAnswers == pxWrong = {}

=============================================================================
