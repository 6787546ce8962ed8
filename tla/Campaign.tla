------------------------------ MODULE Campaign ------------------------------
(***************************************************************************)
(* GameDay campaigns (tumult-ingest/src/gamedays.rs): a supervisor that    *)
(* ticks sequentially and advances each active campaign through its        *)
(* experiments as child runs, next to the launch and stop requests of the  *)
(* API and the life of the child runs themselves (RunQueue, seen here      *)
(* through the states a child's row goes through).                         *)
(*                                                                         *)
(* A tick reads the active parents once and works from that snapshot: a    *)
(* stop, a launch or a child's outcome may fall between any two of its     *)
(* steps, and a crash loses the tick but no row.                           *)
(***************************************************************************)
EXTENDS Naturals, FiniteSets

CONSTANTS
    Gamedays,      \* registered gameday definitions
    Parents,       \* ids of campaign runs
    Children,      \* ids of child runs, numbered in queued_at_ns order
    Steps,         \* gameday -> number of its experiments
    ThresholdNum,  \* scoring.pass_threshold as a fraction
    ThresholdDen,
    None,          \* no parent, no gameday
    MaxCrashes,    \* bound on daemon crashes
    StoreMayFail   \* whether a write or the preparation of a step may fail

ASSUME ChildrenAssumption == Children \subseteq Nat /\ IsFiniteSet(Children)
ASSUME ParentsAssumption == None \notin Parents /\ None \notin Gamedays
ASSUME StepsAssumption == Steps \in [Gamedays -> Nat \ {0}]
ASSUME ThresholdAssumption ==
    ThresholdNum \in Nat /\ ThresholdDen \in Nat \ {0}
ASSUME CrashAssumption == MaxCrashes \in Nat
ASSUME StoreAssumption == StoreMayFail \in BOOLEAN

VARIABLES
    pstate,   \* runs.state of each campaign run
    gameday,  \* runs.registry_id of each campaign run
    cstate,   \* runs.state of each child run
    parent,   \* runs.gameday_id of each child run: the campaign it is linked to
    origin,   \* history: the campaign a child was enqueued for
    late,     \* history: the children enqueued after their campaign had ended
    tick,     \* the supervisor's tick in progress
    crashes   \* crashes so far

vars == <<pstate, gameday, cstate, parent, origin, late, tick, crashes>>

-----------------------------------------------------------------------------

TERMINAL == {"passed", "deviated", "failed", "aborted", "rejected", "expired"}

\* A campaign run never starts a provider, so it only waits, runs or ends.
ParentState == {"absent", "queued", "running"} \cup TERMINAL

\* A child's row: `queued' stands for every state of a run that the queue, a
\* worker or the reconciliation will still move by itself.
ChildState == {"absent", "pending_approval", "queued", "rollback_pending"}
                \cup TERMINAL

\* The parents advance_campaigns has still to visit, and those of its read
\* that were queued; the parent in hand; the outcome or the child to write.
Tick == [pc : {"idle", "next", "finish", "enqueue", "link"},
         todo : SUBSET Parents,
         fresh : SUBSET Parents,
         cur : Parents \cup {None},
         outcome : {"none", "passed", "deviated", "failed"},
         child : Children \cup {None}]

NoTick == [pc |-> "idle", todo |-> {}, fresh |-> {}, cur |-> None,
           outcome |-> "none", child |-> None]

TypeOK ==
    /\ pstate \in [Parents -> ParentState]
    /\ gameday \in [Parents -> Gamedays \cup {None}]
    /\ cstate \in [Children -> ChildState]
    /\ parent \in [Children -> Parents \cup {None}]
    /\ origin \in [Children -> Parents \cup {None}]
    /\ late \subseteq Children
    /\ tick \in Tick
    /\ crashes \in Nat

Init ==
    /\ pstate = [p \in Parents |-> "absent"]
    /\ gameday = [p \in Parents |-> None]
    /\ cstate = [c \in Children |-> "absent"]
    /\ parent = [c \in Children |-> None]
    /\ origin = [c \in Children |-> None]
    /\ late = {}
    /\ tick = NoTick
    /\ crashes = 0

-----------------------------------------------------------------------------
(* Requests *)

Active(p) == pstate[p] \in {"queued", "running"}

\* Mutant: the conflict check only looks at campaigns that have begun.
active_gameday_campaign_Running(g) ==
    \E p \in Parents : gameday[p] = g /\ pstate[p] = "running"

active_gameday_campaign(g) == \E p \in Parents : gameday[p] = g /\ Active(p)

\* start_campaign: conflict check and insert in one writer closure.
StartCampaign(p, g) ==
    /\ pstate[p] = "absent"
    /\ ~active_gameday_campaign(g)
    /\ pstate' = [pstate EXCEPT ![p] = "queued"]
    /\ gameday' = [gameday EXCEPT ![p] = g]
    /\ UNCHANGED <<cstate, parent, origin, late, tick, crashes>>

\* RunQueue::stop of a campaign run: it has no token and no start stamp, so
\* request_run_stop aborts it.  Its children are not touched.
StopCampaign(p) ==
    /\ Active(p)
    /\ pstate' = [pstate EXCEPT ![p] = "aborted"]
    /\ UNCHANGED <<gameday, cstate, parent, origin, late, tick, crashes>>

-----------------------------------------------------------------------------
(* The supervisor *)

ChildrenOf(p) == {c \in Children : parent[c] = p}

is_terminal(c) == cstate[c] \in TERMINAL

\* Mutant: the threshold must be exceeded, not met.
campaign_outcome_Exceeds(kids) ==
    IF \E c \in kids : cstate[c] = "failed" THEN "failed"
    ELSE IF Cardinality({c \in kids : cstate[c] = "passed"}) * ThresholdDen
              > ThresholdNum * Cardinality(kids)
         THEN "passed" ELSE "deviated"

\* Mutant: a campaign below its threshold gets no verdict.
campaign_outcome_NoVerdict(kids) ==
    IF \E c \in kids : cstate[c] = "failed" THEN "failed"
    ELSE IF Cardinality({c \in kids : cstate[c] = "passed"}) * ThresholdDen
              >= ThresholdNum * Cardinality(kids)
         THEN "passed" ELSE "none"

\* campaign_outcome, over children that have all ended.
campaign_outcome(kids) ==
    IF \E c \in kids : cstate[c] = "failed" THEN "failed"
    ELSE IF Cardinality({c \in kids : cstate[c] = "passed"}) * ThresholdDen
              >= ThresholdNum * Cardinality(kids)
         THEN "passed" ELSE "deviated"

\* Mutant: the query forgets the state of the parents.
TickBegin_AnyState ==
    /\ tick.pc = "idle"
    /\ tick' = [NoTick EXCEPT !.pc = "next",
                  !.todo = {p \in Parents : pstate[p] # "absent"}]
    /\ UNCHANGED <<pstate, gameday, cstate, parent, origin, late, crashes>>

\* Mutant: the query only finds parents that have not begun.
TickBegin_QueuedOnly ==
    /\ tick.pc = "idle"
    /\ tick' = [NoTick EXCEPT !.pc = "next",
                  !.todo = {p \in Parents : pstate[p] = "queued"},
                  !.fresh = {p \in Parents : pstate[p] = "queued"}]
    /\ UNCHANGED <<pstate, gameday, cstate, parent, origin, late, crashes>>

\* advance_campaigns: one read of every active parent.
TickBegin ==
    /\ tick.pc = "idle"
    /\ tick' = [NoTick EXCEPT !.pc = "next",
                  !.todo = {p \in Parents : Active(p)},
                  !.fresh = {p \in Parents : pstate[p] = "queued"}]
    /\ UNCHANGED <<pstate, gameday, cstate, parent, origin, late, crashes>>

TickEnd ==
    /\ tick.pc = "next"
    /\ tick.todo = {}
    /\ tick' = NoTick
    /\ UNCHANGED <<pstate, gameday, cstate, parent, origin, late, crashes>>

\* Go on with the next parent of the snapshot.
NextParent == [tick EXCEPT !.pc = "next", !.cur = None,
                           !.outcome = "none", !.child = None]

\* Mutant: a step parked at its approval is not in flight.
StepInFlight_Approved(kids) ==
    \E c \in kids : cstate[c] = "queued" /\ \A d \in kids : d <= c

\* children.last(), the youngest, still executes or waits for its approval.
StepInFlight(kids) ==
    \E c \in kids : ~is_terminal(c) /\ \A d \in kids : d <= c

\* advance_one reads the children: finish when every step has ended, wait for
\* the current step, or go on to enqueue the next one.
AdvanceRead(p) ==
    LET kids == ChildrenOf(p)
        all  == Cardinality(kids) >= Steps[gameday[p]]
        rest == tick.todo \ {p}
    IN  /\ tick.pc = "next"
        /\ p \in tick.todo
        /\ \/ /\ all /\ \A c \in kids : is_terminal(c)
              /\ tick' = [tick EXCEPT !.pc = "finish", !.todo = rest, !.cur = p,
                                      !.outcome = campaign_outcome(kids)]
           \/ /\ IF all THEN \E c \in kids : ~is_terminal(c)
                         ELSE StepInFlight(kids)
              /\ tick' = [tick EXCEPT !.todo = rest]
           \/ /\ ~all /\ ~StepInFlight(kids)
              /\ tick' = [tick EXCEPT !.pc = "enqueue", !.todo = rest, !.cur = p]
        /\ UNCHANGED <<pstate, gameday, cstate, parent, origin, late, crashes>>

\* finish_parent: finish_run does not look at the state it overwrites.
FinishParent ==
    /\ tick.pc = "finish"
    /\ \/ pstate' = [pstate EXCEPT ![tick.cur] = tick.outcome]
       \/ StoreMayFail /\ UNCHANGED pstate
    /\ tick' = NextParent
    /\ UNCHANGED <<gameday, cstate, parent, origin, late, crashes>>

\* The next step goes through enqueue_checked or request_gated_checked; a
\* full queue, or an error, leaves it to the next tick.
EnqueueChild(c) ==
    /\ tick.pc = "enqueue"
    /\ cstate[c] = "absent"
    /\ \A d \in Children : d < c => cstate[d] # "absent"
    /\ \E s \in {"queued", "pending_approval"} :
         cstate' = [cstate EXCEPT ![c] = s]
    /\ origin' = [origin EXCEPT ![c] = tick.cur]
    /\ late' = IF pstate[tick.cur] \in TERMINAL THEN late \cup {c} ELSE late
    /\ tick' = [tick EXCEPT !.pc = "link", !.child = c]
    /\ UNCHANGED <<pstate, gameday, parent, crashes>>

EnqueueRefused ==
    /\ tick.pc = "enqueue"
    /\ tick' = NextParent
    /\ UNCHANGED <<pstate, gameday, cstate, parent, origin, late, crashes>>

\* Mutant: only the first child of a campaign is linked.
LinkChild_First ==
    LET p == tick.cur
    IN  /\ tick.pc = "link"
        /\ parent' = [parent EXCEPT ![tick.child] =
                         IF p \in tick.fresh THEN p ELSE @]
        /\ pstate' = [pstate EXCEPT ![p] = IF @ \in TERMINAL THEN @ ELSE "running"]
        /\ tick' = NextParent
        /\ UNCHANGED <<gameday, cstate, origin, late, crashes>>

\* One closure of two transactions: set_run_gameday, and `running' for a
\* parent that was read queued (refused once the parent has ended).
LinkChild ==
    LET p == tick.cur
    IN  /\ tick.pc = "link"
        /\ \/ /\ parent' = [parent EXCEPT ![tick.child] = p]
              /\ \/ /\ p \in tick.fresh /\ pstate[p] \notin TERMINAL
                    /\ pstate' = [pstate EXCEPT ![p] = "running"]
                 \/ /\ \/ StoreMayFail
                       \/ p \notin tick.fresh \/ pstate[p] \in TERMINAL
                    /\ UNCHANGED pstate
           \/ StoreMayFail /\ UNCHANGED <<parent, pstate>>
        /\ tick' = NextParent
        /\ UNCHANGED <<gameday, cstate, origin, late, crashes>>

Supervisor ==
    \/ TickBegin
    \/ TickEnd
    \/ \E p \in Parents : AdvanceRead(p)
    \/ FinishParent
    \/ \E c \in Children : EnqueueChild(c)
    \/ EnqueueRefused
    \/ LinkChild

-----------------------------------------------------------------------------
(* The child runs and the daemon *)

\* An approval is decided, or a run of the queue ends.  A campaign tells only
\* passed and failed children from the others: `rejected' stands for expired
\* and withdrawn requests too, `deviated' for aborted runs too.
ChildMoves(c) ==
    /\ \/ /\ cstate[c] = "pending_approval"
          /\ \E s \in {"queued", "rejected"} :
               cstate' = [cstate EXCEPT ![c] = s]
       \/ /\ cstate[c] = "queued"
          /\ \E s \in {"passed", "deviated", "failed", "rollback_pending"} :
               cstate' = [cstate EXCEPT ![c] = s]
    /\ UNCHANGED <<pstate, gameday, parent, origin, late, tick, crashes>>

\* The tick is lost; reconcile_orphans settles every active child before the
\* supervisor starts again.  Campaign runs and pending approvals are kept.
CrashRestart ==
    /\ crashes < MaxCrashes
    /\ crashes' = crashes + 1
    /\ tick' = NoTick
    /\ \E s \in [Children -> {"aborted", "rollback_pending"}] :
         cstate' = [c \in Children |->
                      IF cstate[c] \in {"queued", "rollback_pending"}
                      THEN s[c] ELSE cstate[c]]
    /\ UNCHANGED <<pstate, gameday, parent, origin, late>>

Next ==
    \/ \E p \in Parents, g \in Gamedays : StartCampaign(p, g)
    \/ \E p \in Parents : StopCampaign(p)
    \/ Supervisor
    \/ \E c \in Children : ChildMoves(c)
    \/ CrashRestart

Spec == Init /\ [][Next]_vars

\* The supervisor keeps ticking.  A dispatched child settles (RunsSettle of
\* RunQueue), so the queue is not full at every tick and a refused step is
\* accepted in the end.  Nobody has to decide on an approval, launch or stop.
Fairness ==
    /\ WF_vars(Supervisor)
    /\ \A p \in Parents :
         SF_vars(tick.cur = p /\ \E c \in Children : EnqueueChild(c))
    /\ \A c \in Children : WF_vars(cstate[c] = "queued" /\ ChildMoves(c))

FairSpec == Spec /\ Fairness

-----------------------------------------------------------------------------
(* Properties *)

\* However launches, stops and ticks race, a gameday has one active campaign.
OneActiveCampaign ==
    \A p, q \in Parents :
        Active(p) /\ Active(q) /\ gameday[p] = gameday[q] => p = q

\* The children linked to a campaign run one after the other: all but the
\* youngest have ended, and there are never more of them than steps.
StepsInOrder ==
    \A p \in Parents :
        ChildrenOf(p) # {} =>
          /\ Cardinality(ChildrenOf(p)) <= Steps[gameday[p]]
          /\ \A c, d \in ChildrenOf(p) : c < d => is_terminal(c)

VERDICT == {"passed", "deviated", "failed"}

PassedOf(p) == {c \in ChildrenOf(p) : cstate[c] = "passed"}

\* All steps of p ran and ended, and its children's outcomes add up to v.
Earned(p, v) ==
    /\ Cardinality(ChildrenOf(p)) = Steps[gameday[p]]
    /\ \A c \in ChildrenOf(p) : is_terminal(c)
    /\ (v = "failed") <=> \E c \in ChildrenOf(p) : cstate[c] = "failed"
    /\ v # "failed" =>
         ((v = "passed") <=> Cardinality(PassedOf(p)) * ThresholdDen
                               >= ThresholdNum * Steps[gameday[p]])

\* The verdict of a campaign is the one its children earned, whatever happened
\* between the read of the children and the write of the verdict: a failed
\* step fails it, and the pass threshold divides the rest.
OutcomeSound ==
    \A p \in Parents, v \in VERDICT : pstate[p] = v => Earned(p, v)

\* A tick that read a campaign before it ended may still enqueue one child for
\* it, but no more than that one, however the ticks, stops and crashes fall.
AtMostOneLateChild ==
    \A c, d \in late : origin[c] = origin[d] => c = d

\* What a campaign's row says of its steps is true: they ran in order, the
\* verdict is theirs, and at most one child came too late to count.
CampaignSound == StepsInOrder /\ OutcomeSound /\ AtMostOneLateChild

\* A campaign runs "as sequential child runs" (gamedays.rs): of all the runs
\* enqueued for it, linked or not, one at a time is unfinished.
OneStepAtATime ==
    \A c, d \in Children :
        /\ origin[c] # None /\ origin[c] = origin[d]
        /\ ~is_terminal(c) /\ ~is_terminal(d)
        => c = d

\* A terminal run "can never transition again" (run_state::TERMINAL): this
\* holds for campaign runs too.
EndedCampaignIsFinal ==
    [][\A p \in Parents : pstate[p] \in TERMINAL => pstate'[p] = pstate[p]]_vars

\* A campaign ends, or is parked at a step that waits for an approver or for
\* the restart that retries its rollback.
CampaignsSettle ==
    \A p \in Parents :
        Active(p) ~> \/ ~Active(p)
                     \/ \E c \in ChildrenOf(p) :
                          cstate[c] \in {"pending_approval", "rollback_pending"}

-----------------------------------------------------------------------------
(***************************************************************************)
(* The inductive invariant behind the safety properties.                   *)
(***************************************************************************)

\* Rows refer to rows that exist, and child ids are used in order.
RowInv ==
    /\ \A p \in Parents : pstate[p] # "absent" => gameday[p] \in Gamedays
    /\ \A c \in Children : cstate[c] = "absent" => parent[c] = None /\ origin[c] = None
    /\ \A c \in Children, p \in Parents : parent[c] = p => pstate[p] # "absent"
    /\ \A c, d \in Children : c < d /\ cstate[c] = "absent" => cstate[d] = "absent"

\* What the tick decided from its reads is still true when it writes: nobody
\* else links children or gives verdicts.
TickInv ==
    /\ tick.pc \in {"idle", "next"} => tick.cur = None
    /\ \A p \in tick.todo : pstate[p] \notin VERDICT \cup {"absent"}
    /\ tick.pc \in {"finish", "enqueue", "link"} =>
         /\ tick.cur \in Parents \ tick.todo
         /\ pstate[tick.cur] \notin VERDICT \cup {"absent"}
    /\ tick.pc = "finish" => tick.outcome \in VERDICT
    /\ \A p \in Parents, v \in VERDICT :
         tick.pc = "finish" /\ tick.cur = p /\ tick.outcome = v => Earned(p, v)
    /\ \A p \in Parents :
         tick.pc \in {"enqueue", "link"} /\ tick.cur = p =>
           /\ Cardinality(ChildrenOf(p)) < Steps[gameday[p]]
           /\ \A c \in ChildrenOf(p) : is_terminal(c)
    /\ tick.pc = "link" =>
         /\ tick.child \in Children
         /\ cstate[tick.child] # "absent" /\ parent[tick.child] = None
         /\ \A d \in Children : cstate[d] # "absent" => d <= tick.child

\* A campaign with a late child is out of every tick but the one that has just
\* enqueued it.
LateInv ==
    \A c \in late :
        /\ origin[c] \in Parents \ tick.todo
        /\ pstate[origin[c]] \in TERMINAL
        /\ tick.cur = origin[c] => tick.pc = "link"

IInv ==
    /\ TypeOK
    /\ RowInv
    /\ TickInv
    /\ LateInv
    /\ OneActiveCampaign
    /\ StepsInOrder
    /\ OutcomeSound
    /\ AtMostOneLateChild
=============================================================================
