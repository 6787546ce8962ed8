-------------------------------- MODULE Ssh --------------------------------
(***************************************************************************)
(* The SSH driver: the pool of sessions (tumult-ssh/src/pool.rs), the      *)
(* connection with its host key check (session/mod.rs, handler.rs,         *)
(* known_hosts.rs) and what a command or an upload reports (exec.rs).  A   *)
(* task takes the pooled session out of the map for as long as it uses it; *)
(* tasks that come meanwhile open sessions of their own.  One pool key.    *)
(***************************************************************************)
EXTENDS Naturals, Sequences

CONSTANTS
    SshTasks,       \* activities that run at once
    HostKeys,       \* keys the host may present
    HostKeyPolicy,  \* "Verify", "TrustOnFirstUse" or "AcceptAny"
    SshKnownHosts,  \* known_hosts at the start
    SshMaxSessions  \* bound: sessions ever opened

ASSUME SshAssumption ==
    /\ HostKeyPolicy \in {"Verify", "TrustOnFirstUse", "AcceptAny"}
    /\ SshKnownHosts \in Seq(HostKeys) /\ SshMaxSessions \in Nat

VARIABLES
    sshPool,      \* the entry of the map: {} or one session
    sshSession,   \* each session: "none", "open", "dead" or "closed", its key,
                  \* and whether known_hosts had a line when its check began
    sshTask,      \* each task: where it is, its session, the key it was shown
    sshKnown,     \* the lines of known_hosts for this host
    sshHollow     \* history: the operations that reported a success the remote
                  \* had not

sshVars == <<sshPool, sshSession, sshTask, sshKnown, sshHollow>>

SshSessions == 1 .. SshMaxSessions
NoSession == 0
SshIdle == [pc |-> "idle", op |-> "none", session |-> NoSession, key |-> "none",
            anchored |-> FALSE]

SshInit ==
    /\ sshPool = {}
    /\ sshSession = [s \in SshSessions |->
                       [state |-> "none", key |-> "none", anchored |-> FALSE]]
    /\ sshTask = [t \in SshTasks |-> SshIdle]
    /\ sshKnown = SshKnownHosts
    /\ sshHollow = {}

SshGo(t, pc) == sshTask' = [sshTask EXCEPT ![t].pc = pc]
SshLeave(t) == sshTask' = [sshTask EXCEPT ![t] = SshIdle]
\* Dropping a session closes its connection.
Dropped(sessions) ==
    [s \in SshSessions |->
       IF s \in sessions THEN [sshSession[s] EXCEPT !.state = "closed"] ELSE sshSession[s]]

-----------------------------------------------------------------------------
(* SshPool.                                                                *)

\* Mutant: the session is used where it is, in the map.
PoolExecute_Shared(t, op) ==
    /\ sshTask[t].pc = "idle"
    /\ LET taken == IF op = "upload" THEN {} ELSE sshPool IN
       sshTask' = [sshTask EXCEPT ![t] =
            [SshIdle EXCEPT !.op = op,
               !.pc = IF taken = {} THEN "connect" ELSE "probe",
               !.session = IF taken = {} THEN NoSession ELSE CHOOSE s \in taken : TRUE]]
    /\ UNCHANGED <<sshPool, sshSession, sshKnown, sshHollow>>

\* execute takes the entry out of the map, under its lock.  An upload has a
\* session of its own, which never enters the pool.
PoolExecute(t, op) ==
    /\ sshTask[t].pc = "idle"
    /\ LET taken == IF op = "upload" THEN {} ELSE sshPool IN
       /\ sshPool' = sshPool \ taken
       /\ sshTask' = [sshTask EXCEPT ![t] =
            [SshIdle EXCEPT !.op = op,
               !.pc = IF taken = {} THEN "connect" ELSE "probe",
               !.session = IF taken = {} THEN NoSession ELSE CHOOSE s \in taken : TRUE]]
    /\ UNCHANGED <<sshSession, sshKnown, sshHollow>>

\* The probe: "true" on the cached session.  One that fails, or times out on a
\* live session, makes way for a new connection.
Probe(t, alive) ==
    /\ sshTask[t].pc = "probe"
    /\ alive => sshSession[sshTask[t].session].state = "open"
    /\ IF alive
         THEN SshGo(t, "run") /\ UNCHANGED sshSession
         ELSE /\ sshSession' = Dropped({sshTask[t].session})
              /\ sshTask' = [sshTask EXCEPT ![t].pc = "connect", ![t].session = NoSession]
    /\ UNCHANGED <<sshPool, sshKnown, sshHollow>>

\* The session goes back whatever the command did; one that came back earlier
\* is dropped from the map.
ReturnSession(t) ==
    /\ sshTask[t].pc = "return"
    /\ IF sshTask[t].op = "upload"
         THEN sshSession' = Dropped({sshTask[t].session}) /\ UNCHANGED sshPool
         ELSE sshSession' = Dropped(sshPool) /\ sshPool' = {sshTask[t].session}
    /\ SshLeave(t)
    /\ UNCHANGED <<sshKnown, sshHollow>>

\* clear() and evict().
PoolClear ==
    /\ sshPool # {} /\ sshPool' = {} /\ sshSession' = Dropped(sshPool)
    /\ UNCHANGED <<sshTask, sshKnown, sshHollow>>

-----------------------------------------------------------------------------
(* SshSession::connect and check_server_key.                               *)

\* find_and_verify_entry: the first line that names the host decides.
Verified(key) == sshKnown # <<>> /\ sshKnown[1] = key

\* The host shows its key, and known_hosts is read; a key that is not accepted,
\* or a connection that fails, ends the call.
CheckServerKey(t, key) ==
    /\ sshTask[t].pc = "connect"
    /\ sshTask' = [sshTask EXCEPT ![t] =
         CASE HostKeyPolicy = "AcceptAny" \/ Verified(key) ->
                [@ EXCEPT !.pc = "auth", !.key = key, !.anchored = sshKnown # <<>>]
           [] HostKeyPolicy = "TrustOnFirstUse" /\ sshKnown = <<>> ->
                [@ EXCEPT !.pc = "record", !.key = key, !.anchored = FALSE]
           [] OTHER -> SshIdle]
    /\ UNCHANGED <<sshPool, sshSession, sshKnown, sshHollow>>

\* append_known_hosts_entry, by a check that read the file before.
RecordHostKey(t) ==
    /\ sshTask[t].pc = "record"
    /\ sshKnown' = Append(sshKnown, sshTask[t].key)
    /\ SshGo(t, "auth")
    /\ UNCHANGED <<sshPool, sshSession, sshHollow>>

Authenticate(t, s) ==
    /\ sshTask[t].pc = "auth" /\ sshSession[s].state = "none"
    /\ \A o \in 1 .. s - 1 : sshSession[o].state # "none"
    /\ sshSession' = [sshSession EXCEPT ![s] =
         [state |-> "open", key |-> sshTask[t].key, anchored |-> sshTask[t].anchored]]
    /\ sshTask' = [sshTask EXCEPT ![t].pc = "run", ![t].session = s]
    /\ UNCHANGED <<sshPool, sshKnown, sshHollow>>

\* Refused, out of time, or an I/O error: nothing goes into the pool.
ConnectFails(t) ==
    /\ sshTask[t].pc \in {"connect", "record", "auth"}
    /\ SshLeave(t)
    /\ UNCHANGED <<sshPool, sshSession, sshKnown, sshHollow>>

-----------------------------------------------------------------------------
(* SshSession::execute and upload_file.                                    *)

\* The exit status of a command: what the remote said, a signal, or 1.
ExitCode(said) ==
    CASE said = "zero" -> 0 [] said = "signal" -> 137 [] OTHER -> 1

\* An upload asks for a status other than 0, and finds none where the channel
\* closed early.
Succeeds(op, said) ==
    IF op = "upload" THEN said \in {"zero", "signal", "nothing"} ELSE ExitCode(said) = 0

\* The channel ends with what the remote said last; an error of the channel or
\* the deadline is no answer at all.
CommandEnds(t, said) ==
    /\ sshTask[t].pc = "run"
    /\ said \in {"zero", "other", "signal"} => sshSession[sshTask[t].session].state = "open"
    /\ sshHollow' = IF said \notin {"zero", "error"} /\ Succeeds(sshTask[t].op, said)
                      THEN sshHollow \cup {sshTask[t].op} ELSE sshHollow
    /\ SshGo(t, "return")
    /\ UNCHANGED <<sshPool, sshSession, sshKnown>>

\* The host goes away.
ConnectionDies(s) ==
    /\ sshSession[s].state = "open"
    /\ sshSession' = [sshSession EXCEPT ![s].state = "dead"]
    /\ UNCHANGED <<sshPool, sshTask, sshKnown, sshHollow>>

SshNext ==
    \/ \E t \in SshTasks :
         \/ \E op \in {"command", "upload"} : PoolExecute(t, op)
         \/ \E alive \in BOOLEAN : Probe(t, alive)
         \/ \E key \in HostKeys : CheckServerKey(t, key)
         \/ RecordHostKey(t) \/ ConnectFails(t) \/ ReturnSession(t)
         \/ \E s \in SshSessions : Authenticate(t, s)
         \/ \E said \in {"zero", "other", "signal", "nothing", "error"} : CommandEnds(t, said)
    \/ \E s \in SshSessions : ConnectionDies(s)
    \/ PoolClear

SshSpec == SshInit /\ [][SshNext]_sshVars

-----------------------------------------------------------------------------
HeldBy(t) == {sshTask[t].session} \ {NoSession}

SshSessionsOwned ==
    /\ \A t, o \in SshTasks : t # o => HeldBy(t) \cap HeldBy(o) = {}
    /\ \A t \in SshTasks : HeldBy(t) \cap sshPool = {}
    /\ \A s \in SshSessions :
         sshSession[s].state \in {"open", "dead"} <=>
             s \in sshPool \/ \E t \in SshTasks : s \in HeldBy(t)

SshTrustAnchored ==
    HostKeyPolicy # "AcceptAny" =>
        \A s \in SshSessions :
            LET ses == sshSession[s] IN
            ses.state # "none" =>
                /\ \E i \in 1 .. Len(sshKnown) : sshKnown[i] = ses.key
                /\ ses.anchored \/ HostKeyPolicy = "Verify" => ses.key = sshKnown[1]

(* However many tasks meet at an empty pool, a session is never used by two of
   them, none is handed out again while a task still has it, and a connection
   that is not closed belongs to the pool or to exactly one task: the session
   that loses its place in the map is closed and not leaked.  Trust on first
   use is anchored by the first line that was recorded: a session whose check
   began with a line in known_hosts has that line's key, and any other key that
   got in came from a check that had read the file before the first line was
   written.  Under Verify there is no such gap. *)
SshSessionsSound == SshSessionsOwned /\ SshTrustAnchored

(* exec.rs, upload_file returns UploadFailed "if ... the remote write fails": a
   command or an upload that reports success had exit status 0. *)
SshSuccessIsReal == sshHollow = {}

=============================================================================
