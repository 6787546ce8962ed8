------------------------------- MODULE MCTools -------------------------------
(* The record stores, the tool server and the local tools on small instances, *)
(* for TLC.  They share no state, so each behaviour runs one of them and      *)
(* leaves the rest at their initial states.                                   *)
EXTENDS Auth, LoginLimiter, ManualEvidence, AuditChain, Autopilot, Ssh, NetProxy,
        LocalRun, GamedayCore, Evaluations

CONSTANTS c1, c2, r1, r2

VARIABLE part  \* the component that runs

MCScopes == [p \in People |-> IF p = "ann" THEN {"e1"} ELSE {}]
MCKnownHosts == <<>>
MCArticles == <<{"a"}, {"a", "b"}, {}>>
Symmetry == Permutations(Calls) \cup Permutations(Requests)

Parts == {"auth", "login", "manual", "chain", "autopilot", "ssh", "net", "local",
          "gameday", "agentic", "evaluation", "live"}

\* One initial state of the components that have several.
Rests(name) == part # name
Init ==
    /\ part \in Parts
    /\ AuthInit /\ (Rests("auth") => authUser = [u \in Accounts |-> NoUser])
    /\ LoginInit /\ MeInit
    /\ ChInit /\ (Rests("chain") => chRows = <<>>)
    /\ ApInit /\ (Rests("autopilot") => apPolicy.enabled)
    /\ SshInit /\ ProxyInit
    /\ LocalInit /\ (Rests("local") => lrBackend = "duckdb" /\ lrDaemon = "down")
    /\ GamedayInit /\ (Rests("gameday") => gdFront = "cli")
    /\ EvInit /\ AgInit /\ (Rests("agentic") => agPack = "storm" /\ agTraj = "rag" /\ agFired = {})

\* The step of a component, with every other one at rest.
Others(name) ==
    /\ part = name
    /\ name # "auth" => UNCHANGED authVars
    /\ name # "login" => UNCHANGED loginVars
    /\ name # "manual" => UNCHANGED meVars
    /\ name # "chain" => UNCHANGED chVars
    /\ name # "autopilot" => UNCHANGED apVars
    /\ name # "ssh" => UNCHANGED sshVars
    /\ name # "net" => UNCHANGED pxVars
    /\ name # "local" => UNCHANGED lrVars
    /\ name # "gameday" => UNCHANGED gdVars
    /\ name # "agentic" => UNCHANGED agVars
    /\ name \notin {"evaluation", "live"} => UNCHANGED evVars

\* Bound: the last decision is left to the behaviours without policy edits,
\* days and crashes.
ApBounded == apChurn' > 0 => apDecision'[ApMaxDecisions] = NoDecision

Next ==
    /\ UNCHANGED part
    /\ \/ Others("auth") /\ AuthNext
       \/ Others("login") /\ LoginNext
       \/ Others("manual") /\ MeNext
       \/ Others("chain") /\ ChNext
       \/ Others("autopilot") /\ ApNext /\ ApBounded
       \/ Others("ssh") /\ SshNext
       \/ Others("net") /\ ProxyNext
       \/ Others("local") /\ LocalNext
       \/ Others("gameday") /\ GamedayNext
       \/ Others("agentic") /\ AgNext
       \/ Others("evaluation") /\ EvNext
       \/ Others("live") /\ LvNext

vars == <<part, authVars, loginVars, meVars, chVars, apVars, sshVars, pxVars, lrVars,
          gdVars, agVars, evVars>>

Spec == Init /\ [][Next]_vars
-----------------------------------------------------------------------------
(* The properties of components that guard one thing together.              *)

(* A session is one that the current password earned, and an account's
   guesses are bounded whatever the limiter forgets. *)
CredentialsSound == AuthPasswordsRule /\ LoginGuessesBounded

(* Evidence was reviewed by somebody who had no part in it, and the verdict
   on an audit chain is the right one. *)
RecordsSound == EvidenceTrusted /\ ChainVerdictRight

(* No two commands share an SSH session, and every proxy that a start left
   behind is found by its stop. *)
DriversSound == SshSessionsSound /\ ProxyRollbackFinds
=============================================================================
