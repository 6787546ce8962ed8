------------------------------ MODULE Executors ------------------------------
(***************************************************************************)
(* One child process on its way through one of the program's executors: a  *)
(* process provider (tumult-exec/src/process.rs), a script plugin          *)
(* (tumult-exec/src/script.rs, tumult-plugin/src/executor.rs), an agent    *)
(* CLI (tumult-agent-cli/src/runner.rs) or the stop of k6 (tumult-core/    *)
(* src/runner/k6.rs).  The child inherits two pipes; what it forks may     *)
(* stay in its process group or leave it, and may keep the pipes open long *)
(* after the child has exited.  The executors put their deadline around    *)
(* different things, and only the first two kill the whole group.          *)
(***************************************************************************)
EXTENDS Naturals

CONSTANTS Kids      \* processes the child may fork

VARIABLES
    exKind,     \* which executor
    exTimed,    \* timeout_s is given
    exPc,       \* "start", "wait", "collect", "reap" or "returned"
    exChild,    \* the direct child: "none", "running", "exited" (a zombie)
    exKid,      \* each forked process: its state, in the group or not, with
                \* the pipes open or not
    exElapsed,  \* the deadline has passed
    exOutcome   \* "none", "refused", "ended" or "timeout"

ExecKinds == {"process", "script", "agent", "k6"}
Grouped == {"process", "script"}

exVars == <<exKind, exTimed, exPc, exChild, exKid, exElapsed, exOutcome>>

NoKid == [state |-> "none", group |-> TRUE, holds |-> TRUE]

ExecTypeOK ==
    /\ exKind \in ExecKinds /\ exTimed \in BOOLEAN
    /\ exPc \in {"start", "wait", "collect", "reap", "returned"}
    /\ exChild \in {"none", "running", "exited"}
    /\ exKid \in [Kids -> [state : {"none", "running", "dead"}, group : BOOLEAN,
                           holds : BOOLEAN]]
    /\ exElapsed \in BOOLEAN
    /\ exOutcome \in {"none", "refused", "ended", "timeout"}

ExecInit ==
    /\ exKind \in ExecKinds /\ exTimed \in BOOLEAN
    /\ exKind \notin Grouped => exTimed
    /\ exPc = "start" /\ exChild = "none"
    /\ exKid = [k \in Kids |-> NoKid]
    /\ exElapsed = FALSE /\ exOutcome = "none"

-----------------------------------------------------------------------------
(* The executors.                                                          *)

\* An unknown plugin or function, a path outside the plugin, an argument name
\* that is no identifier or clashes with another, a timeout that is no
\* duration, a spawn that fails.
ExecRefused ==
    /\ exPc = "start" /\ exPc' = "returned" /\ exOutcome' = "refused"
    /\ UNCHANGED <<exKind, exTimed, exChild, exKid, exElapsed>>

ExecSpawn ==
    /\ exPc = "start" /\ exPc' = "wait" /\ exChild' = "running"
    /\ UNCHANGED <<exKind, exTimed, exKid, exElapsed, exOutcome>>

\* Both pipes are at their end when nobody holds them any more.
AtEof == exChild = "exited" /\ \A k \in Kids : exKid[k].state = "running" => ~exKid[k].holds

\* What the deadline is put around: the exit and the end of the output, or the
\* exit alone.
Completed == IF exKind = "process" THEN exChild = "exited" /\ AtEof ELSE exChild = "exited"

ExecCompletes ==
    /\ exPc = "wait" /\ Completed
    /\ IF exKind = "process" THEN exPc' = "returned" /\ exOutcome' = "ended"
                             ELSE exPc' = "collect" /\ UNCHANGED exOutcome
    /\ UNCHANGED <<exKind, exTimed, exChild, exKid, exElapsed>>

\* The deadline fires: SIGKILL for the process group, by the id it was given
\* before the child was waited for, or for the child alone.
ExecTimesOut ==
    /\ exPc = "wait" /\ exTimed /\ exElapsed /\ ~Completed
    /\ exChild' = "exited"
    /\ exKid' = [k \in Kids |-> IF exKid[k].state = "running" /\ exKid[k].group /\ exKind \in Grouped
                                  THEN [exKid[k] EXCEPT !.state = "dead"] ELSE exKid[k]]
    /\ exPc' = "reap"
    /\ UNCHANGED <<exKind, exTimed, exElapsed, exOutcome>>

\* Mutant: the readers are joined after every kill.
ExecReap_Joins ==
    /\ exPc = "reap" /\ exOutcome' = "timeout" /\ exPc' = "collect"
    /\ UNCHANGED <<exKind, exTimed, exChild, exKid, exElapsed>>

\* The stop of k6 joins its reader threads even after the kill.
ExecReap ==
    /\ exPc = "reap" /\ exOutcome' = "timeout"
    /\ exPc' = IF exKind = "k6" THEN "collect" ELSE "returned"
    /\ UNCHANGED <<exKind, exTimed, exChild, exKid, exElapsed>>

\* collect_output, join_reader: the rest of the output, with no deadline
\* around it.
ExecCollect ==
    /\ exPc = "collect" /\ AtEof
    /\ exPc' = "returned" /\ exOutcome' = IF exOutcome = "timeout" THEN "timeout" ELSE "ended"
    /\ UNCHANGED <<exKind, exTimed, exChild, exKid, exElapsed>>

-----------------------------------------------------------------------------
(* The processes and the clock.                                            *)

ChildForks(k, group, holds) ==
    /\ exChild = "running" /\ exKid[k].state = "none"
    /\ exKid' = [exKid EXCEPT ![k] = [state |-> "running", group |-> group, holds |-> holds]]
    /\ UNCHANGED <<exKind, exTimed, exPc, exChild, exElapsed, exOutcome>>

ChildExits ==
    /\ exChild = "running" /\ exChild' = "exited"
    /\ UNCHANGED <<exKind, exTimed, exPc, exKid, exElapsed, exOutcome>>

KidExits(k) ==
    /\ exKid[k].state = "running" /\ exKid' = [exKid EXCEPT ![k].state = "dead"]
    /\ UNCHANGED <<exKind, exTimed, exPc, exChild, exElapsed, exOutcome>>

DeadlinePasses ==
    /\ exPc = "wait" /\ exTimed /\ ~exElapsed /\ exElapsed' = TRUE
    /\ UNCHANGED <<exKind, exTimed, exPc, exChild, exKid, exOutcome>>

ExecGoesOn == ExecCompletes \/ ExecTimesOut \/ ExecReap \/ ExecCollect

ExecNext ==
    \/ ExecRefused \/ ExecSpawn \/ ExecGoesOn \/ ChildExits \/ DeadlinePasses
    \/ \E k \in Kids : KidExits(k)
    \/ \E k \in Kids, group, holds \in BOOLEAN : ChildForks(k, group, holds)

\* A call that has spawned its child runs on, and so does the clock; neither the child nor what it
\* forks has to end.
ExecFairness ==
    /\ WF_exVars(ExecGoesOn)
    /\ WF_exVars(DeadlinePasses)

ExecSpec == ExecInit /\ [][ExecNext]_exVars /\ ExecFairness

-----------------------------------------------------------------------------
(* A timeout leaves nothing behind: once an executor has given up on a child,
   the child is gone, and so is everything it forked into its process group
   where the executor made one, whether the child had exited before or not. *)
ExecTimeoutKills ==
    exOutcome = "timeout" =>
        /\ exChild = "exited"
        /\ exKind \in Grouped => \A k \in Kids : exKid[k].state = "running" => ~exKid[k].group

(* A timeout bounds the call: with one, an executor kills what it must and
   returns whatever the child and its children do.  The process provider keeps
   that promise to the end, the others until the child has exited: from then on
   they wait for whoever still holds the pipes. *)
ExecBounded ==
    /\ []ExecTimeoutKills
    /\ (exTimed /\ exPc # "start") ~>
          (exPc = "returned" \/ (exKind # "process" /\ exPc = "collect" /\ ~AtEof))

=============================================================================
