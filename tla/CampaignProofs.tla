--------------------------- MODULE CampaignProofs ---------------------------
(***************************************************************************)
(* Proofs about Campaign: IInv is inductive, so a gameday never has two    *)
(* active campaigns, linked children run in order, every verdict is the    *)
(* one the children earned, and a stop lets at most one more child start.  *)
(***************************************************************************)
EXTENDS Campaign, FiniteSetTheorems, TLAPS

\* The children of a campaign are finitely many.
LEMMA KidsFinite ==
    ASSUME NEW S \in SUBSET Children
    PROVE  IsFiniteSet(S) /\ Cardinality(S) \in Nat
  BY ChildrenAssumption, FS_Subset, FS_CardinalityType

\* A verdict once earned stays earned while the children are the same and
\* those that ended keep their outcome.
LEMMA EarnedStays ==
    ASSUME NEW p \in Parents, NEW v \in VERDICT, Earned(p, v),
           ChildrenOf(p)' = ChildrenOf(p), gameday'[p] = gameday[p],
           \A c \in Children : is_terminal(c) => cstate'[c] = cstate[c]
    PROVE  Earned(p, v)'
<1>1. \A c \in ChildrenOf(p) : c \in Children /\ cstate'[c] = cstate[c]
  BY DEF Earned, ChildrenOf
<1>2. PassedOf(p)' = PassedOf(p)
  BY <1>1 DEF PassedOf
<1> QED
  BY <1>1, <1>2 DEF Earned, is_terminal

\* Steps that only move the tick keep what is said of the rows alone.
LEMMA RowsStay ==
    ASSUME IInv, UNCHANGED <<pstate, gameday, cstate, parent, origin, late>>
    PROVE  /\ RowInv' /\ OneActiveCampaign' /\ StepsInOrder' /\ OutcomeSound'
           /\ AtMostOneLateChild'
           /\ \A p \in Parents, v \in VERDICT : Earned(p, v) => Earned(p, v)'
<1>1. \A p \in Parents : ChildrenOf(p)' = ChildrenOf(p)
  BY DEF ChildrenOf
<1>2. \A p \in Parents, v \in VERDICT : Earned(p, v) => Earned(p, v)'
  BY <1>1, EarnedStays
<1>3. RowInv' /\ OneActiveCampaign' /\ AtMostOneLateChild'
  BY DEF IInv, RowInv, OneActiveCampaign, AtMostOneLateChild, Active
<1>4. StepsInOrder'
  BY <1>1 DEF IInv, StepsInOrder, is_terminal
<1>5. OutcomeSound'
  BY <1>2 DEF IInv, OutcomeSound
<1> QED
  BY <1>2, <1>3, <1>4, <1>5

-----------------------------------------------------------------------------
(* Requests *)

\* A launch adds a campaign where no active one was.
LEMMA StartCampaignStep ==
    ASSUME IInv, NEW p \in Parents, NEW g \in Gamedays, StartCampaign(p, g)
    PROVE  IInv'
<1> USE DEF StartCampaign
<1>1. TypeOK'
  BY DEF IInv, TypeOK, ParentState
<1>2. \A q \in Parents : ChildrenOf(q)' = ChildrenOf(q)
  BY DEF ChildrenOf
<1>3. \A q \in Parents : pstate[q] # "absent" =>
        q # p /\ pstate'[q] = pstate[q] /\ gameday'[q] = gameday[q]
  BY DEF IInv, TypeOK
<1>4. pstate'[p] = "queued" /\ gameday'[p] = g
  BY DEF IInv, TypeOK
<1>5. \A q \in Parents, v \in VERDICT :
        pstate[q] # "absent" /\ Earned(q, v) => Earned(q, v)'
  BY <1>2, <1>3, EarnedStays
<1>6. RowInv'
  BY <1>3, <1>4, ParentsAssumption DEF IInv, TypeOK, RowInv
<1>7. TickInv'
  <2>1. \A q \in tick.todo : pstate'[q] = pstate[q]
    BY <1>3 DEF IInv, TickInv, TypeOK, Tick
  <2>2. tick.pc \in {"finish", "enqueue", "link"} =>
          tick.cur \in Parents /\ pstate[tick.cur] # "absent"
    BY DEF IInv, TickInv
  <2> QED
    BY <1>2, <1>3, <1>5, <2>1, <2>2 DEF IInv, TickInv, is_terminal
<1>8. LateInv'
  BY <1>3 DEF IInv, LateInv, TERMINAL
<1>9. OneActiveCampaign'
  BY <1>3, <1>4 DEF IInv, TypeOK, OneActiveCampaign, Active,
     active_gameday_campaign
<1>10. StepsInOrder'
  <2>1. \A q \in Parents : ChildrenOf(q) # {} => pstate[q] # "absent"
    BY DEF IInv, RowInv, ChildrenOf
  <2> QED
    BY <1>2, <1>3, <2>1 DEF IInv, StepsInOrder, is_terminal
<1>11. OutcomeSound'
  BY <1>3, <1>4, <1>5 DEF IInv, OutcomeSound, VERDICT
<1>12. AtMostOneLateChild'
  BY DEF IInv, AtMostOneLateChild
<1> QED
  BY <1>1, <1>6, <1>7, <1>8, <1>9, <1>10, <1>11, <1>12 DEF IInv

\* A stop aborts the campaign, even one that the tick has in hand.
LEMMA StopCampaignStep ==
    ASSUME IInv, NEW p \in Parents, StopCampaign(p)
    PROVE  IInv'
<1> USE DEF StopCampaign
<1>1. TypeOK'
  BY DEF IInv, TypeOK, ParentState, TERMINAL
<1>2. \A q \in Parents : ChildrenOf(q)' = ChildrenOf(q)
  BY DEF ChildrenOf
<1>3. pstate'[p] = "aborted" /\ pstate[p] \in {"queued", "running"}
  BY DEF IInv, TypeOK, Active
<1>4. \A q \in Parents : q # p => pstate'[q] = pstate[q]
  BY DEF IInv, TypeOK
<1>5. \A q \in Parents, v \in VERDICT : Earned(q, v) => Earned(q, v)'
  BY <1>2, EarnedStays
<1>6. RowInv'
  BY <1>3, <1>4 DEF IInv, RowInv
<1>7. TickInv'
  BY <1>2, <1>3, <1>4, <1>5 DEF IInv, TickInv, TypeOK, Tick, is_terminal, VERDICT
<1>8. LateInv'
  BY <1>3, <1>4 DEF IInv, LateInv, TERMINAL
<1>9. OneActiveCampaign'
  BY <1>3, <1>4 DEF IInv, OneActiveCampaign, Active
<1>10. StepsInOrder'
  BY <1>2 DEF IInv, StepsInOrder, is_terminal
<1>11. OutcomeSound'
  BY <1>3, <1>4, <1>5 DEF IInv, OutcomeSound, VERDICT
<1>12. AtMostOneLateChild'
  BY DEF IInv, AtMostOneLateChild
<1> QED
  BY <1>1, <1>6, <1>7, <1>8, <1>9, <1>10, <1>11, <1>12 DEF IInv

-----------------------------------------------------------------------------
(* The supervisor *)

\* The tick begins with the active campaigns and ends with none.
LEMMA TickBoundsStep ==
    ASSUME IInv, TickBegin \/ TickEnd
    PROVE  IInv'
<1>1. UNCHANGED <<pstate, gameday, cstate, parent, origin, late, crashes>>
  BY DEF TickBegin, TickEnd
<1>2. /\ tick'.pc \in {"idle", "next"} /\ tick'.cur = None
      /\ \A p \in tick'.todo : p \in Parents /\ Active(p)
      /\ tick' \in Tick
  <2>1. CASE TickBegin
    <3>1. /\ {p \in Parents : Active(p)} \in SUBSET Parents
          /\ {p \in Parents : pstate[p] = "queued"} \in SUBSET Parents
      OBVIOUS
    <3>2. tick' = [pc |-> "next", todo |-> {p \in Parents : Active(p)},
                   fresh |-> {p \in Parents : pstate[p] = "queued"},
                   cur |-> None, outcome |-> "none", child |-> None]
      BY <2>1 DEF TickBegin, NoTick
    <3> QED
      BY <3>1, <3>2 DEF Tick
  <2>2. CASE TickEnd
    BY <2>2 DEF TickEnd, NoTick, Tick
  <2> QED
    BY <2>1, <2>2
<1>3. TypeOK'
  BY <1>1, <1>2 DEF IInv, TypeOK
<1>4. TickInv'
  BY <1>1, <1>2 DEF TickInv, Active, VERDICT
<1>5. LateInv'
  BY <1>1, <1>2, ParentsAssumption DEF IInv, LateInv, Active, TERMINAL
<1> QED
  BY <1>1, <1>3, <1>4, <1>5, RowsStay DEF IInv

\* The read of one campaign: what it decides is true of the rows it read.
LEMMA AdvanceReadStep ==
    ASSUME IInv, NEW p \in Parents, AdvanceRead(p)
    PROVE  IInv'
<1> DEFINE kids == ChildrenOf(p)
           all == Cardinality(kids) >= Steps[gameday[p]]
<1>1. UNCHANGED <<pstate, gameday, cstate, parent, origin, late, crashes>>
  BY DEF AdvanceRead
<1>2. /\ tick.pc = "next" /\ p \in tick.todo /\ tick.cur = None
      /\ pstate[p] \notin VERDICT \cup {"absent"}
      /\ tick \in Tick
  BY DEF AdvanceRead, IInv, TickInv, TypeOK
<1>3. /\ gameday[p] \in Gamedays /\ Steps[gameday[p]] \in Nat \ {0}
      /\ Cardinality(kids) \in Nat
  BY <1>2, StepsAssumption, KidsFinite DEF IInv, RowInv, ChildrenOf
<1>4. kids # {} => /\ Cardinality(kids) <= Steps[gameday[p]]
                   /\ \A c, d \in kids : c < d => is_terminal(c)
  BY DEF IInv, StepsInOrder
<1>5. \A c \in late : origin[c] # p
  BY <1>2 DEF IInv, LateInv
<1>6. /\ tick'.todo = tick.todo \ {p}
      /\ tick'.pc \in {"next", "finish", "enqueue"}
      /\ tick'.pc = "next" => tick'.cur = None
      /\ tick'.pc # "next" => tick'.cur = p
      /\ tick' \in Tick
  <2>1. campaign_outcome(kids) \in {"passed", "deviated", "failed"}
    BY DEF campaign_outcome
  <2>2. \/ tick' = [tick EXCEPT !.pc = "finish", !.todo = tick.todo \ {p}, !.cur = p,
                               !.outcome = campaign_outcome(kids)]
        \/ tick' = [tick EXCEPT !.todo = tick.todo \ {p}]
        \/ tick' = [tick EXCEPT !.pc = "enqueue", !.todo = tick.todo \ {p}, !.cur = p]
    BY DEF AdvanceRead
  <2> HIDE DEF kids
  <2>3. CASE tick' = [tick EXCEPT !.pc = "finish", !.todo = tick.todo \ {p}, !.cur = p,
                               !.outcome = campaign_outcome(kids)]
    BY <1>2, <2>1, <2>3 DEF Tick
  <2>4. CASE tick' = [tick EXCEPT !.todo = tick.todo \ {p}]
    BY <1>2, <2>4 DEF Tick
  <2>5. CASE tick' = [tick EXCEPT !.pc = "enqueue", !.todo = tick.todo \ {p}, !.cur = p]
    BY <1>2, <2>5 DEF Tick
  <2> QED
    BY <2>2, <2>3, <2>4, <2>5
<1>7. tick'.pc = "finish" =>
        /\ all /\ (\A c \in kids : is_terminal(c))
        /\ tick'.outcome = campaign_outcome(kids)
  BY <1>2 DEF AdvanceRead, Tick
<1>8. tick'.pc = "enqueue" => ~all /\ ~StepInFlight(kids)
  BY <1>2 DEF AdvanceRead, Tick
<1>9. TypeOK'
  BY <1>1, <1>6 DEF IInv, TypeOK
<1>10. ChildrenOf(p)' = ChildrenOf(p)
  BY <1>1 DEF ChildrenOf
<1>11. \A v \in VERDICT : tick'.pc = "finish" /\ tick'.outcome = v => Earned(p, v)
  <2> SUFFICES ASSUME NEW v \in VERDICT, tick'.pc = "finish", tick'.outcome = v
               PROVE  Earned(p, v)
    OBVIOUS
  <2>1. Cardinality(kids) = Steps[gameday[p]]
    <3>1. kids # {}
      BY <1>3, <1>7, FS_EmptySet
    <3> QED
      BY <1>3, <1>4, <1>7, <3>1
  <2>2. {c \in kids : cstate[c] = "passed"} = PassedOf(p)
    BY DEF PassedOf
  <2>3. v = campaign_outcome(kids) /\ \A c \in kids : is_terminal(c)
    BY <1>7
  <2>4. (v = "failed") <=> \E c \in kids : cstate[c] = "failed"
    BY <2>3 DEF campaign_outcome
  <2>5. v # "failed" =>
          ((v = "passed") <=> Cardinality(PassedOf(p)) * ThresholdDen
                                >= ThresholdNum * Steps[gameday[p]])
    BY <2>1, <2>2, <2>3, <2>4 DEF campaign_outcome
  <2> QED
    BY <2>1, <2>3, <2>4, <2>5 DEF Earned
<1>12. tick'.pc = "enqueue" =>
         /\ Cardinality(kids) < Steps[gameday[p]]
         /\ \A c \in kids : is_terminal(c)
  <2> SUFFICES ASSUME tick'.pc = "enqueue" PROVE
         /\ Cardinality(kids) < Steps[gameday[p]]
         /\ \A c \in kids : is_terminal(c)
    OBVIOUS
  <2>1. Cardinality(kids) < Steps[gameday[p]]
    BY <1>3, <1>8
  <2>2. ASSUME NEW c \in kids PROVE is_terminal(c)
    <3>1. c \in Nat /\ \A d \in kids : d \in Nat
      BY ChildrenAssumption DEF ChildrenOf
    <3>2. \/ is_terminal(c)
          \/ \E d \in kids : ~(d <= c)
      BY <1>8 DEF StepInFlight
    <3>3. ASSUME NEW d \in kids, ~(d <= c) PROVE is_terminal(c)
      BY <1>4, <3>1, <3>3
    <3> QED
      BY <3>2, <3>3
  <2> QED
    BY <2>1, <2>2
<1>13. TickInv'
  <2>1. \A v \in VERDICT : Earned(p, v) => Earned(p, v)'
    BY <1>1, RowsStay
  <2>2. \A c : is_terminal(c)' <=> is_terminal(c)
    BY <1>1 DEF is_terminal
  <2>3. tick'.pc \in {"idle", "next"} => tick'.cur = None
    BY <1>6
  <2>4. \A q \in tick'.todo : pstate'[q] \notin VERDICT \cup {"absent"}
    BY <1>1, <1>6 DEF IInv, TickInv
  <2>5. tick'.pc \in {"finish", "enqueue", "link"} =>
          /\ tick'.cur \in Parents \ tick'.todo
          /\ pstate'[tick'.cur] \notin VERDICT \cup {"absent"}
    BY <1>1, <1>2, <1>6
  <2>6. tick'.pc = "finish" => tick'.outcome \in VERDICT
    BY <1>7 DEF campaign_outcome, VERDICT
  <2>7. \A q \in Parents, v \in VERDICT :
          tick'.pc = "finish" /\ tick'.cur = q /\ tick'.outcome = v => Earned(q, v)'
    BY <1>6, <1>11, <2>1
  <2>8. \A q \in Parents :
          tick'.pc \in {"enqueue", "link"} /\ tick'.cur = q =>
            /\ Cardinality(ChildrenOf(q)') < Steps[gameday'[q]]
            /\ \A c \in ChildrenOf(q)' : is_terminal(c)'
    BY <1>1, <1>6, <1>10, <1>12, <2>2
  <2>9. tick'.pc # "link"
    BY <1>6
  <2> QED
    BY <2>3, <2>4, <2>5, <2>6, <2>7, <2>8, <2>9 DEF TickInv
<1>14. LateInv'
  BY <1>1, <1>5, <1>6, ParentsAssumption DEF IInv, LateInv, TypeOK
<1> QED
  BY <1>1, <1>9, <1>13, <1>14, RowsStay DEF IInv

\* The verdict is written over whatever the row says by now.
LEMMA FinishParentStep ==
    ASSUME IInv, FinishParent
    PROVE  IInv'
<1>1. /\ UNCHANGED <<gameday, cstate, parent, origin, late, crashes>>
      /\ tick.pc = "finish" /\ tick' = NextParent
  BY DEF FinishParent
<1>2. /\ tick \in Tick /\ tick.cur \in Parents \ tick.todo
      /\ tick.outcome \in VERDICT
      /\ pstate[tick.cur] # "absent"
  BY <1>1 DEF IInv, TypeOK, TickInv
<1>3. /\ tick' \in Tick /\ tick'.pc = "next" /\ tick'.cur = None
      /\ tick'.todo = tick.todo
  BY <1>1, <1>2 DEF NextParent, Tick
<1>4. /\ \A q \in Parents : q # tick.cur => pstate'[q] = pstate[q]
      /\ pstate'[tick.cur] \in {tick.outcome, pstate[tick.cur]}
      /\ pstate' \in [Parents -> ParentState]
  BY <1>2 DEF FinishParent, IInv, TypeOK, VERDICT, ParentState, TERMINAL
<1>5. \A q \in Parents : ChildrenOf(q)' = ChildrenOf(q)
  BY <1>1 DEF ChildrenOf
<1>6. \A q \in Parents, v \in VERDICT : Earned(q, v) => Earned(q, v)'
  BY <1>1, <1>5, EarnedStays
<1>7. TypeOK'
  BY <1>1, <1>3, <1>4 DEF IInv, TypeOK
<1>8. RowInv'
  BY <1>1, <1>2, <1>4 DEF IInv, RowInv, VERDICT
<1>9. TickInv'
  BY <1>2, <1>3, <1>4 DEF IInv, TickInv, Tick
<1>10. LateInv'
  BY <1>1, <1>2, <1>3, <1>4, ParentsAssumption DEF IInv, LateInv, VERDICT, TERMINAL
<1>11. OneActiveCampaign'
  BY <1>1, <1>2, <1>4 DEF IInv, OneActiveCampaign, Active, VERDICT
<1>12. StepsInOrder'
  BY <1>1, <1>5 DEF IInv, StepsInOrder, is_terminal
<1>13. OutcomeSound'
  <2> SUFFICES ASSUME NEW q \in Parents, NEW v \in VERDICT, pstate'[q] = v
               PROVE  Earned(q, v)'
    BY DEF OutcomeSound
  <2>1. CASE pstate[q] = v
    BY <1>6, <2>1 DEF IInv, OutcomeSound
  <2>2. CASE q = tick.cur /\ tick.outcome = v
    BY <1>1, <1>6, <2>2 DEF IInv, TickInv
  <2> QED
    BY <1>4, <2>1, <2>2
<1>14. AtMostOneLateChild'
  BY <1>1 DEF IInv, AtMostOneLateChild
<1> QED
  BY <1>7, <1>8, <1>9, <1>10, <1>11, <1>12, <1>13, <1>14 DEF IInv

\* The next step is enqueued; nothing is linked yet.
LEMMA EnqueueChildStep ==
    ASSUME IInv, NEW c \in Children, EnqueueChild(c)
    PROVE  IInv'
<1>1. /\ UNCHANGED <<pstate, gameday, parent, crashes>>
      /\ tick.pc = "enqueue" /\ cstate[c] = "absent"
      /\ tick' = [tick EXCEPT !.pc = "link", !.child = c]
      /\ origin' = [origin EXCEPT ![c] = tick.cur]
  BY DEF EnqueueChild
<1>2. /\ tick \in Tick /\ tick.cur \in Parents \ tick.todo
      /\ cstate \in [Children -> ChildState]
      /\ origin \in [Children -> Parents \cup {None}]
      /\ pstate[tick.cur] \notin VERDICT \cup {"absent"}
  BY <1>1 DEF IInv, TypeOK, TickInv
<1>3. /\ tick' \in Tick /\ tick'.pc = "link" /\ tick'.cur = tick.cur
      /\ tick'.todo = tick.todo /\ tick'.child = c
  BY <1>1, <1>2 DEF Tick
<1>4. /\ cstate' \in [Children -> ChildState]
      /\ cstate'[c] \in {"queued", "pending_approval"}
      /\ \A d \in Children : d # c => cstate'[d] = cstate[d]
  BY <1>2 DEF EnqueueChild, ChildState
<1>5. /\ origin'[c] = tick.cur
      /\ \A d \in Children : d # c => origin'[d] = origin[d]
  BY <1>1, <1>2
<1>6. parent[c] = None /\ origin[c] = None
  BY <1>1 DEF IInv, RowInv
<1>7. late' = late \/ (late' = late \cup {c} /\ pstate[tick.cur] \in TERMINAL)
  BY DEF EnqueueChild
<1>8. c \notin late /\ late \subseteq Children
  BY <1>6, ParentsAssumption DEF IInv, LateInv, TypeOK
<1>9. \A q \in Parents : ChildrenOf(q)' = ChildrenOf(q) /\ c \notin ChildrenOf(q)
  BY <1>1, <1>6, ParentsAssumption DEF ChildrenOf
<1>10. \A d \in Children : is_terminal(d) => d # c /\ cstate'[d] = cstate[d]
  BY <1>1, <1>4 DEF is_terminal, TERMINAL
<1>11. \A q \in Parents, v \in VERDICT : Earned(q, v) => Earned(q, v)'
  BY <1>1, <1>9, <1>10, EarnedStays
<1>12. TypeOK'
  BY <1>1, <1>2, <1>3, <1>4, <1>7, <1>8 DEF IInv, TypeOK
<1>13. RowInv'
  <2>1. \A d \in Children : d < c => cstate'[d] # "absent"
    BY <1>4 DEF EnqueueChild
  <2>2. \A d, e \in Children : d < e /\ cstate'[d] = "absent" => cstate'[e] = "absent"
    BY <1>4, <2>1 DEF IInv, RowInv
  <2> QED
    BY <1>1, <1>4, <1>5, <2>2 DEF IInv, RowInv
<1>14. TickInv'
  <2>1. \A d \in Children : cstate'[d] # "absent" => d <= c
    <3> SUFFICES ASSUME NEW d \in Children, cstate'[d] # "absent", d # c
                 PROVE  d <= c
      BY ChildrenAssumption
    <3>1. cstate[d] # "absent" /\ ~(c < d)
      BY <1>1, <1>4 DEF IInv, RowInv
    <3> QED
      BY <3>1, ChildrenAssumption
  <2>2. \A q \in Parents : tick.cur = q =>
          /\ Cardinality(ChildrenOf(q)') < Steps[gameday'[q]]
          /\ \A d \in ChildrenOf(q)' : is_terminal(d)'
    <3>1. \A q \in Parents : \A d \in ChildrenOf(q) : is_terminal(d) => is_terminal(d)'
      BY <1>10 DEF is_terminal, ChildrenOf
    <3> QED
      BY <1>1, <1>9, <3>1 DEF IInv, TickInv
  <2> QED
    BY <1>1, <1>2, <1>3, <1>4, <1>6, <2>1, <2>2 DEF IInv, TickInv
<1>15. LateInv'
  BY <1>1, <1>2, <1>3, <1>5, <1>7, <1>8 DEF IInv, LateInv
<1>16. OneActiveCampaign'
  BY <1>1 DEF IInv, OneActiveCampaign, Active
<1>17. StepsInOrder'
  <2>1. \A q \in Parents : \A d \in ChildrenOf(q) : is_terminal(d) => is_terminal(d)'
    BY <1>10 DEF is_terminal, ChildrenOf
  <2> QED
    BY <1>1, <1>9, <2>1 DEF IInv, StepsInOrder
<1>18. OutcomeSound'
  BY <1>1, <1>11 DEF IInv, OutcomeSound
<1>19. AtMostOneLateChild'
  <2>1. \A d \in late : origin[d] # tick.cur
    BY <1>1 DEF IInv, LateInv
  <2> QED
    BY <1>5, <1>7, <1>8, <2>1 DEF IInv, AtMostOneLateChild
<1> QED
  BY <1>12, <1>13, <1>14, <1>15, <1>16, <1>17, <1>18, <1>19 DEF IInv

\* The step is left to the next tick.
LEMMA EnqueueRefusedStep ==
    ASSUME IInv, EnqueueRefused
    PROVE  IInv'
<1>1. /\ UNCHANGED <<pstate, gameday, cstate, parent, origin, late, crashes>>
      /\ tick.pc = "enqueue" /\ tick' = NextParent /\ tick \in Tick
  BY DEF EnqueueRefused, IInv, TypeOK
<1>2. /\ tick' \in Tick /\ tick'.pc = "next" /\ tick'.cur = None
      /\ tick'.todo = tick.todo
  BY <1>1 DEF NextParent, Tick
<1>3. TypeOK'
  BY <1>1, <1>2 DEF IInv, TypeOK
<1>4. TickInv'
  BY <1>1, <1>2 DEF IInv, TickInv
<1>5. LateInv'
  BY <1>1, <1>2, ParentsAssumption DEF IInv, LateInv
<1> QED
  BY <1>1, <1>3, <1>4, <1>5, RowsStay DEF IInv

\* The child joins its campaign, as its youngest.
LEMMA LinkChildStep ==
    ASSUME IInv, LinkChild
    PROVE  IInv'
<1>1. /\ UNCHANGED <<gameday, cstate, origin, late, crashes>>
      /\ tick.pc = "link" /\ tick' = NextParent
  BY DEF LinkChild
<1> PICK p \in Parents, k \in Children : p = tick.cur /\ k = tick.child
  BY <1>1 DEF IInv, TickInv
<1>2. /\ tick \in Tick /\ p \in Parents \ tick.todo /\ k \in Children
      /\ pstate \in [Parents -> ParentState]
      /\ parent \in [Children -> Parents \cup {None}]
      /\ pstate[p] \notin VERDICT \cup {"absent"}
      /\ cstate[k] # "absent" /\ parent[k] = None
      /\ \A d \in Children : cstate[d] # "absent" => d <= k
  BY <1>1 DEF IInv, TypeOK, TickInv
<1>3. /\ tick' \in Tick /\ tick'.pc = "next" /\ tick'.cur = None
      /\ tick'.todo = tick.todo
  BY <1>1, <1>2 DEF NextParent, Tick
<1>4. \/ parent' = [parent EXCEPT ![k] = p]
      \/ UNCHANGED parent
  BY DEF LinkChild
<1>5. /\ pstate' \in [Parents -> ParentState]
      /\ \A q \in Parents : q # p => pstate'[q] = pstate[q]
      /\ \/ pstate'[p] = pstate[p]
         \/ pstate'[p] = "running" /\ pstate[p] \in {"queued", "running"}
  BY <1>2 DEF LinkChild, ParentState
<1>6. \A q \in Parents : q # p => ChildrenOf(q)' = ChildrenOf(q)
  BY <1>2, <1>4, ParentsAssumption DEF ChildrenOf
<1>7. \/ ChildrenOf(p)' = ChildrenOf(p)
      \/ ChildrenOf(p)' = ChildrenOf(p) \cup {k} /\ k \notin ChildrenOf(p)
  BY <1>2, <1>4, ParentsAssumption DEF ChildrenOf
<1>8. /\ Cardinality(ChildrenOf(p)) < Steps[gameday[p]]
      /\ \A c \in ChildrenOf(p) : is_terminal(c)
  BY <1>1, <1>2 DEF IInv, TickInv
<1>9. \A c : is_terminal(c)' <=> is_terminal(c)
  BY <1>1 DEF is_terminal
<1>10. TypeOK'
  BY <1>1, <1>2, <1>3, <1>4, <1>5 DEF IInv, TypeOK
<1>11. RowInv'
  BY <1>1, <1>2, <1>4, <1>5 DEF IInv, RowInv
<1>12. TickInv'
  BY <1>2, <1>3, <1>5 DEF IInv, TickInv, Tick
<1>13. LateInv'
  BY <1>1, <1>2, <1>3, <1>5, ParentsAssumption DEF IInv, LateInv, TERMINAL
<1>14. OneActiveCampaign'
  BY <1>1, <1>2, <1>5 DEF IInv, OneActiveCampaign, Active
<1>15. StepsInOrder'
  <2>1. ASSUME NEW q \in Parents, q # p, ChildrenOf(q)' # {}
        PROVE  /\ Cardinality(ChildrenOf(q)') <= Steps[gameday'[q]]
               /\ \A c, d \in ChildrenOf(q)' : c < d => is_terminal(c)'
    BY <1>1, <1>6, <1>9, <2>1 DEF IInv, StepsInOrder
  <2>2. Cardinality(ChildrenOf(p)') <= Steps[gameday'[p]]
    <3>1. /\ IsFiniteSet(ChildrenOf(p)) /\ Cardinality(ChildrenOf(p)) \in Nat
          /\ Steps[gameday[p]] \in Nat
      BY <1>2, KidsFinite, StepsAssumption DEF ChildrenOf, IInv, RowInv
    <3>2. CASE ChildrenOf(p)' = ChildrenOf(p)
      BY <1>1, <1>8, <3>1, <3>2
    <3>3. CASE ChildrenOf(p)' = ChildrenOf(p) \cup {k} /\ k \notin ChildrenOf(p)
      <4>1. Cardinality(ChildrenOf(p)') = Cardinality(ChildrenOf(p)) + 1
        BY <3>1, <3>3, FS_AddElement
      <4> QED
        BY <1>1, <1>8, <3>1, <4>1
    <3> QED
      BY <1>7, <3>2, <3>3
  <2>3. ASSUME NEW c \in ChildrenOf(p)', NEW d \in ChildrenOf(p)', c < d
        PROVE  is_terminal(c)'
    <3>1. CASE c \in ChildrenOf(p)
      BY <1>8, <1>9, <3>1
    <3>2. CASE c = k /\ c \notin ChildrenOf(p)
      <4>1. d \in ChildrenOf(p)
        BY <1>2, <1>7, <2>3, <3>2, ChildrenAssumption
      <4>2. d \in Children /\ cstate[d] # "absent"
        BY <1>2, <4>1, ParentsAssumption DEF ChildrenOf, IInv, RowInv
      <4> QED
        BY <1>2, <2>3, <3>2, <4>2, ChildrenAssumption
    <3> QED
      BY <1>7, <3>1, <3>2
  <2> QED
    BY <2>1, <2>2, <2>3 DEF StepsInOrder
<1>16. OutcomeSound'
  <2> SUFFICES ASSUME NEW q \in Parents, NEW v \in VERDICT, pstate'[q] = v
               PROVE  Earned(q, v)'
    BY DEF OutcomeSound
  <2>1. q # p /\ pstate[q] = v
    BY <1>2, <1>5 DEF VERDICT
  <2> QED
    BY <1>1, <1>6, <2>1, EarnedStays DEF IInv, OutcomeSound
<1>17. AtMostOneLateChild'
  BY <1>1 DEF IInv, AtMostOneLateChild
<1> QED
  BY <1>10, <1>11, <1>12, <1>13, <1>14, <1>15, <1>16, <1>17 DEF IInv

-----------------------------------------------------------------------------
(* The child runs and the daemon *)

\* Steps of the children: unfinished ones move, ended ones stay.
LEMMA ChildrenStep ==
    ASSUME IInv, UNCHANGED <<pstate, gameday, parent, origin, late>>,
           tick' = tick \/ tick' = NoTick,
           crashes' \in Nat,
           cstate' \in [Children -> ChildState],
           \A c \in Children : is_terminal(c) => cstate'[c] = cstate[c],
           \A c \in Children : (cstate'[c] = "absent") <=> (cstate[c] = "absent")
    PROVE  IInv'
<1>1. tick \in Tick /\ tick' \in Tick
  BY DEF IInv, TypeOK, NoTick, Tick
<1>2. \A q \in Parents : ChildrenOf(q)' = ChildrenOf(q)
  BY DEF ChildrenOf
<1>3. \A q \in Parents, v \in VERDICT : Earned(q, v) => Earned(q, v)'
  BY <1>2, EarnedStays
<1>4. \A q \in Parents : \A c \in ChildrenOf(q) : is_terminal(c) => is_terminal(c)'
  BY DEF is_terminal, ChildrenOf
<1>5. TypeOK'
  BY <1>1 DEF IInv, TypeOK
<1>6. RowInv'
  BY DEF IInv, RowInv
<1>7. TickInv'
  <2>1. CASE tick' = NoTick
    BY <2>1 DEF TickInv, NoTick
  <2>2. CASE tick' = tick
    BY <1>2, <1>3, <1>4, <2>2 DEF IInv, TickInv
  <2> QED
    BY <2>1, <2>2
<1>8. LateInv'
  BY ParentsAssumption DEF IInv, LateInv, NoTick
<1>9. OneActiveCampaign' /\ AtMostOneLateChild'
  BY DEF IInv, OneActiveCampaign, AtMostOneLateChild, Active
<1>10. StepsInOrder'
  BY <1>2, <1>4 DEF IInv, StepsInOrder
<1>11. OutcomeSound'
  BY <1>3 DEF IInv, OutcomeSound
<1> QED
  BY <1>5, <1>6, <1>7, <1>8, <1>9, <1>10, <1>11 DEF IInv

\* An approval is decided or a run ends.
LEMMA ChildMovesStep ==
    ASSUME IInv, NEW c \in Children, ChildMoves(c)
    PROVE  IInv'
<1>1. cstate' \in [Children -> ChildState]
  BY DEF ChildMoves, IInv, TypeOK, ChildState, TERMINAL
<1>2. \A d \in Children :
        /\ is_terminal(d) => cstate'[d] = cstate[d]
        /\ (cstate'[d] = "absent") <=> (cstate[d] = "absent")
  BY DEF ChildMoves, IInv, TypeOK, is_terminal, TERMINAL
<1>3. UNCHANGED <<pstate, gameday, parent, origin, late, tick, crashes>> /\ crashes' \in Nat
  BY DEF ChildMoves, IInv, TypeOK
<1> QED
  BY <1>1, <1>2, <1>3, ChildrenStep

\* A crash loses the tick and settles the active children.
LEMMA CrashRestartStep ==
    ASSUME IInv, CrashRestart
    PROVE  IInv'
<1>1. cstate' \in [Children -> ChildState]
  BY DEF CrashRestart, IInv, TypeOK, ChildState, TERMINAL
<1>2. \A d \in Children :
        /\ is_terminal(d) => cstate'[d] = cstate[d]
        /\ (cstate'[d] = "absent") <=> (cstate[d] = "absent")
  BY DEF CrashRestart, IInv, TypeOK, is_terminal, TERMINAL
<1>3. /\ UNCHANGED <<pstate, gameday, parent, origin, late>>
      /\ tick' = NoTick /\ crashes' \in Nat
  BY DEF CrashRestart, IInv, TypeOK
<1> QED
  BY <1>1, <1>2, <1>3, ChildrenStep

-----------------------------------------------------------------------------

\* A lake without campaigns satisfies the invariant.
LEMMA InitIInv == Init => IInv
<1> SUFFICES ASSUME Init PROVE IInv
  OBVIOUS
<1> USE DEF Init, NoTick
<1>1. TypeOK
  BY DEF TypeOK, ParentState, ChildState, Tick
<1>2. RowInv /\ TickInv /\ LateInv
  BY ParentsAssumption DEF RowInv, TickInv, LateInv
<1>3. \A p \in Parents : ChildrenOf(p) = {}
  BY ParentsAssumption DEF ChildrenOf
<1>4. OneActiveCampaign /\ StepsInOrder /\ OutcomeSound /\ AtMostOneLateChild
  BY <1>3 DEF OneActiveCampaign, StepsInOrder, OutcomeSound,
     AtMostOneLateChild, Active, VERDICT
<1> QED
  BY <1>1, <1>2, <1>4 DEF IInv

\* Every step of clients, supervisor, children and crashes keeps it.
LEMMA NextIInv == IInv /\ [Next]_vars => IInv'
<1> SUFFICES ASSUME IInv, [Next]_vars PROVE IInv'
  OBVIOUS
<1>1. CASE \E p \in Parents, g \in Gamedays : StartCampaign(p, g)
  BY <1>1, StartCampaignStep
<1>2. CASE \E p \in Parents : StopCampaign(p)
  BY <1>2, StopCampaignStep
<1>3. CASE Supervisor
  BY <1>3, TickBoundsStep, AdvanceReadStep, FinishParentStep, EnqueueChildStep,
     EnqueueRefusedStep, LinkChildStep DEF Supervisor
<1>4. CASE \E c \in Children : ChildMoves(c)
  BY <1>4, ChildMovesStep
<1>5. CASE CrashRestart
  BY <1>5, CrashRestartStep
<1>6. CASE UNCHANGED vars
  <2>1. /\ UNCHANGED <<pstate, gameday, cstate, parent, origin, late, tick, crashes>>
        /\ crashes' \in Nat /\ cstate' \in [Children -> ChildState]
    BY <1>6 DEF vars, IInv, TypeOK
  <2> QED
    BY <2>1, ChildrenStep
<1> QED
  BY <1>1, <1>2, <1>3, <1>4, <1>5, <1>6 DEF Next

\* IInv holds in every reachable state.
THEOREM Invariance == Spec => []IInv
  BY InitIInv, NextIInv, PTL DEF Spec

\* A gameday has one active campaign, although launches, stops, ticks and
\* restarts race: the conflict check rides in the insert's closure.
THEOREM OneActiveCampaignAlways == Spec => []OneActiveCampaign
<1>1. IInv => OneActiveCampaign
  BY DEF IInv
<1> QED
  BY <1>1, Invariance, PTL

\* The linked children of a campaign run one after the other, never more than
\* its steps, although advance_one only looks at the youngest.
THEOREM StepsInOrderAlways == Spec => []StepsInOrder
<1>1. IInv => StepsInOrder
  BY DEF IInv
<1> QED
  BY <1>1, Invariance, PTL

\* A campaign's verdict is the one its children earned, although finish_parent
\* writes it from an earlier read and over any state.
THEOREM OutcomeSoundAlways == Spec => []OutcomeSound
<1>1. IInv => OutcomeSound
  BY DEF IInv
<1> QED
  BY <1>1, Invariance, PTL

\* At most one child is enqueued for a campaign after it ended.
THEOREM AtMostOneLateChildAlways == Spec => []AtMostOneLateChild
<1>1. IInv => AtMostOneLateChild
  BY DEF IInv
<1> QED
  BY <1>1, Invariance, PTL

\* Order, outcome and lateness of a campaign's children together.
THEOREM CampaignSoundAlways == Spec => []CampaignSound
<1>1. StepsInOrder /\ OutcomeSound /\ AtMostOneLateChild => CampaignSound
  BY DEF CampaignSound
<1> QED
  BY <1>1, StepsInOrderAlways, OutcomeSoundAlways, AtMostOneLateChildAlways, PTL

-----------------------------------------------------------------------------
(* Without crashes and failing writes every child is linked, so that what   *)
(* the supervisor reads of a campaign is all there is.                      *)

\* A child belongs to the campaign it was enqueued for, or is the one that the
\* tick is about to link.
OriginInv ==
    /\ crashes = 0
    /\ \A c \in Children : origin[c] # None =>
         \/ parent[c] = origin[c]
         \/ tick.pc = "link" /\ tick.child = c /\ tick.cur = origin[c]

LEMMA OriginStep ==
    ASSUME IInv, OriginInv, [Next]_vars, MaxCrashes = 0, ~StoreMayFail
    PROVE  OriginInv'
<1>1. CASE UNCHANGED <<parent, origin, tick, crashes>>
  BY <1>1 DEF OriginInv
<1>2. CASE UNCHANGED <<parent, origin, crashes>> /\ tick.pc # "link"
  BY <1>2 DEF OriginInv
<1>3. ASSUME NEW c \in Children, EnqueueChild(c) PROVE OriginInv'
  <2>1. /\ UNCHANGED <<parent, crashes>> /\ tick.pc = "enqueue" /\ tick \in Tick
        /\ tick' = [tick EXCEPT !.pc = "link", !.child = c]
        /\ origin' = [origin EXCEPT ![c] = tick.cur]
        /\ origin \in [Children -> Parents \cup {None}]
    BY <1>3 DEF EnqueueChild, IInv, TypeOK
  <2>2. tick'.pc = "link" /\ tick'.child = c /\ tick'.cur = tick.cur
    BY <2>1 DEF Tick
  <2> QED  BY <2>1, <2>2 DEF OriginInv
<1>4. CASE LinkChild
  <2>1. /\ parent' = [parent EXCEPT ![tick.child] = tick.cur] /\ UNCHANGED <<origin, crashes>>
        /\ tick.child \in Children /\ parent[tick.child] = None
        /\ parent \in [Children -> Parents \cup {None}]
    BY <1>4 DEF LinkChild, IInv, TickInv, TypeOK
  <2> QED  BY <2>1 DEF OriginInv
<1>5. ~CrashRestart
  BY DEF OriginInv, CrashRestart
<1> QED
  <2>1. ASSUME NEW p \in Parents, AdvanceRead(p) PROVE tick.pc # "link"
    BY <2>1 DEF AdvanceRead
  <2>2. CASE TickBegin \/ TickEnd \/ EnqueueRefused \/ FinishParent
             \/ \E p \in Parents : AdvanceRead(p)
    BY <1>2, <2>1, <2>2 DEF TickBegin, TickEnd, EnqueueRefused, FinishParent, AdvanceRead
  <2>3. CASE \/ \E p \in Parents, g \in Gamedays : StartCampaign(p, g)
             \/ \E p \in Parents : StopCampaign(p)
             \/ \E c \in Children : ChildMoves(c)
             \/ UNCHANGED vars
    BY <1>1, <2>3 DEF StartCampaign, StopCampaign, ChildMoves, vars
  <2> QED  BY <1>3, <1>4, <1>5, <2>2, <2>3 DEF Next, Supervisor

\* Of the runs enqueued for a campaign one at a time is unfinished, as the
\* module's comment says: for a daemon that stays up and a store that accepts
\* its writes, and for any campaigns, steps and stops.
THEOREM OneStepAlways ==
    ASSUME MaxCrashes = 0, ~StoreMayFail
    PROVE  Spec => []OneStepAtATime
<1>1. Init => OriginInv
  BY DEF Init, OriginInv
<1>2. IInv /\ OriginInv /\ [Next]_vars => OriginInv'
  BY OriginStep
<1>3. IInv /\ OriginInv => OneStepAtATime
  <2> SUFFICES ASSUME IInv, OriginInv, NEW c \in Children, NEW d \in Children, origin[c] # None,
                      origin[c] = origin[d], ~is_terminal(c), ~is_terminal(d)
               PROVE  c = d
    BY DEF OneStepAtATime
  <2>1. PICK p \in Parents : p = origin[c]
    BY DEF IInv, TypeOK
  <2>2. CASE parent[c] = p /\ parent[d] = p
    <3>1. c \in ChildrenOf(p) /\ d \in ChildrenOf(p)
      BY <2>2 DEF ChildrenOf
    <3>2. ~(c < d) /\ ~(d < c)
      BY <3>1 DEF IInv, StepsInOrder
    <3> QED  BY <3>2, ChildrenAssumption
  <2>3. CASE ~(parent[c] = p /\ parent[d] = p)
    <3>1. tick.pc = "link" /\ tick.cur = p /\ (tick.child = c \/ tick.child = d)
      BY <2>1, <2>3 DEF OriginInv
    <3>2. \A k \in ChildrenOf(p) : is_terminal(k)
      BY <3>1 DEF IInv, TickInv
    <3>3. parent[c] # p /\ parent[d] # p
      BY <3>2 DEF ChildrenOf
    <3> QED  BY <2>1, <3>1, <3>3 DEF OriginInv
  <2> QED  BY <2>2, <2>3
<1> QED
  BY <1>1, <1>2, <1>3, Invariance, PTL DEF Spec

=============================================================================
