----------------------------- MODULE Compliance -----------------------------
(***************************************************************************)
(* Resilience scores and the documents made from them (tumult-compliance,   *)
(* tumult-core/compliance and the trend and compliance commands).  A run's  *)
(* root span and its completion log arrive separately, late or twice, and   *)
(* manual records are reviewed while a document is being put together from  *)
(* one query after another.  Scores are exact: a mean is a number of        *)
(* 1/Unit, with Unit a multiple of every divisor within the bounds.         *)
(***************************************************************************)
EXTENDS Integers, Sequences, FiniteSets, FiniteSetsExt, SequencesExt

CONSTANTS
    CpRuns,       \* run id -> root span and the status its log will carry
    CpRecords,    \* manual record id -> its content and who entered it
    CpPeople,     \* who may review a manual record
    CpApprovals,  \* approval requests: environment and instant
    CpSample,     \* approvals_list(500): how many of the newest are sampled
    CpScopes,     \* the scopes of the principals that ask for documents
    CpInstants,   \* the instants the clock shows
    CpStale,      \* STALE_NS
    CpPeriod,     \* the period of a document
    CpOrg         \* the org file: nodes, assignments

VARIABLES
    cpSpans,   \* delivered root spans: run id and delivery
    cpLogs,    \* delivered experiment.completed logs
    cpManual,  \* manual record id -> status and reviewer
    cpNow,     \* the clock
    cpDoc      \* the document being built

cpVars == <<cpSpans, cpLogs, cpManual, cpNow, cpDoc>>

Unit == 5040
CpNull == "-"
NoCpDoc == [kind |-> "none", pc |-> "idle", at |-> 0, scopes |-> {}, card |-> {},
            issues |-> <<0, 0>>, leaves |-> <<>>, window |-> {},
            register |-> {}, approvals |-> {}, appendix |-> {}]

\* The evidence the store holds before the first document.
CpInitWith(spans, logs) ==
    /\ cpSpans = spans /\ cpLogs = logs
    /\ cpManual = [m \in DOMAIN CpRecords |-> [status |-> "draft", reviewer |-> CpNull]]
    /\ cpNow = Min(CpInstants)
    /\ cpDoc = NoCpDoc
-----------------------------------------------------------------------------
(* Scoring.                                                                 *)

\* latest is <<>> when nothing ran, else when it ran and whether it passed.
score_run(latest, asOf) ==
    IF latest = <<>> THEN <<0, "never_run">>
    ELSE IF ~ latest[2] THEN <<50, "failed">>
    ELSE IF asOf - latest[1] > CpStale THEN <<75, "stale">> ELSE <<100, "passed">>

band(score) == IF score > 70 * Unit THEN "good"
               ELSE IF score >= 50 * Unit THEN "fair" ELSE "poor"

env_in(env, S) == S = {} \/ env \in S

\* The rows before QUALIFY: an automated run has the status of its log, if
\* that has arrived; of the manual records only the verified and conclusive.
AutomatedRows(asOf, S) ==
    {[name |-> CpRuns[u].name, target |-> CpRuns[u].target, env |-> CpRuns[u].env,
      ts |-> CpRuns[u].ts, id |-> u, origin |-> "automated",
      status |-> IF \E l \in cpLogs : l[1] = u THEN CpRuns[u].status ELSE CpNull] :
        u \in {v \in DOMAIN CpRuns : /\ \E s \in cpSpans : s[1] = v
                                     /\ CpRuns[v].ts <= asOf
                                     /\ env_in(CpRuns[v].env, S)}}

ManualRow(m) ==
    [name |-> CpRecords[m].name, target |-> CpRecords[m].target, env |-> CpRecords[m].env,
     ts |-> CpRecords[m].ts, id |-> m, origin |-> "manual", status |-> CpRecords[m].outcome]

ManualRows_Submitted(asOf, S) ==
    {ManualRow(m) : m \in {k \in DOMAIN CpRecords :
        /\ cpManual[k].status \in {"submitted", "verified"}
        /\ CpRecords[k].outcome # "inconclusive"
        /\ CpRecords[k].ts <= asOf /\ env_in(CpRecords[k].env, S)}}

ManualRows_AnyEnv(asOf, S) ==
    {ManualRow(m) : m \in {k \in DOMAIN CpRecords :
        /\ cpManual[k].status = "verified" /\ CpRecords[k].outcome # "inconclusive"
        /\ CpRecords[k].ts <= asOf}}

ManualRows(asOf, S) ==
    {ManualRow(m) : m \in {k \in DOMAIN CpRecords :
        /\ cpManual[k].status = "verified" /\ CpRecords[k].outcome # "inconclusive"
        /\ CpRecords[k].ts <= asOf /\ env_in(CpRecords[k].env, S)}}

SameExperiment(a, b) == /\ a.name = b.name /\ a.target = b.target
                        /\ a.env = b.env /\ a.origin = b.origin

\* The latest row of each experiment; equal instants are decided by the id.
LATEST_SQL(asOf, S) ==
    LET rows == AutomatedRows(asOf, S) \cup ManualRows(asOf, S) IN
    {r \in rows : \A q \in rows :
        SameExperiment(r, q) => q.ts < r.ts \/ (q.ts = r.ts /\ q.id <= r.id)}

Scored(r, asOf) ==
    LET sc == IF r.status = "partial" THEN <<75, "partial">>
              ELSE score_run(<<r.ts, r.status \in {"completed", "passed"}>>, asOf)
    IN  [row |-> r, score |-> sc[1], state |-> sc[2]]

compute_as_of(asOf, S) == {Scored(r, asOf) : r \in LATEST_SQL(asOf, S)}

Mean(total, count) == IF count = 0 THEN 0 ELSE total \div count

\* Each target weighs the same, whatever the number of its experiments.
target_score(card, t) ==
    LET of == {e \in card : e.row.target = t} IN
    Mean(MapThenSumSet(LAMBDA e : e.score * Unit, of), Cardinality(of))

portfolio_Flat(card) ==
    Mean(MapThenSumSet(LAMBDA e : e.score * Unit, card), Cardinality(card))

portfolio(card) ==
    LET targets == {e.row.target : e \in card} IN
    Mean(MapThenSumSet(LAMBDA t : target_score(card, t), targets), Cardinality(targets))

\* The instants of the trend chart: evenly spaced, the last one now.
portfolio_series(asOf, points) ==
    [i \in 1 .. points |-> asOf - CpPeriod + (CpPeriod \div points) * i]

pending_manual_leaves(S) ==
    {m \in DOMAIN CpRecords : /\ cpManual[m].status \in {"draft", "submitted"}
                              /\ env_in(CpRecords[m].env, S)}
-----------------------------------------------------------------------------
(* The org tree: nodes by number, 1 the root and 2 "(unassigned)".          *)

EmptyTree == <<[name |-> "", parent |-> 0], [name |-> "(unassigned)", parent |-> 1]>>

NodeNamed(tree, name) == {i \in 2 .. Len(tree) : tree[i].name = name}

\* A parent is known once its own declaration has been inserted.
AddNode_Any(tree, spec) ==
    IF tree = <<>> THEN <<>>
    ELSE Append(tree, [name |-> spec.name,
                       parent |-> CHOOSE i \in NodeNamed(tree, spec.parent) \cup {1} : TRUE])

AddNode(tree, spec) ==
    IF tree = <<>> \/ (spec.parent # CpNull /\ NodeNamed(tree, spec.parent) = {}) THEN <<>>
    ELSE Append(tree, [name |-> spec.name,
                       parent |-> IF spec.parent = CpNull THEN 1
                                  ELSE CHOOSE i \in NodeNamed(tree, spec.parent) : TRUE])

\* <<>> is a refusal: a bad or repeated name, a parent not declared before
\* its child, an assignment to an unknown team.
build(file) ==
    LET names == [i \in DOMAIN file.nodes |-> file.nodes[i].name]
        tree == FoldLeft(AddNode, EmptyTree, file.nodes)
    IN  IF \/ \E i \in DOMAIN names : names[i] \in {"", "(unassigned)"}
           \/ Cardinality(ToSet(names)) < Len(names)
           \/ \E i \in DOMAIN file.assignments : NodeNamed(tree, file.assignments[i].team) = {}
        THEN <<>> ELSE tree

\* A file that cannot be loaded leaves the server with the empty tree.
LoadedTree(file) == IF build(file) = <<>> THEN EmptyTree ELSE build(file)

\* The names on the way down to a node.
path_of(tree, id) ==
    LET path[i \in DOMAIN tree] ==
          IF tree[i].parent = 0 THEN <<>> ELSE Append(path[tree[i].parent], tree[i].name)
    IN  path[id]

children(tree, id) == {c \in DOMAIN tree : tree[c].parent = id}

\* The node a name has below cur, 0 when there is none.
child_named(tree, cur, name) ==
    LET next == {c \in children(tree, cur) : tree[c].name = name}
    IN  IF cur = 0 \/ next = {} THEN 0 ELSE Min(next)

resolve(tree, path) == FoldLeft(LAMBDA cur, name : child_named(tree, cur, name), 1, path)

in_subtree(tree, ancestor, id) ==
    LET below[i \in DOMAIN tree] ==
          i = ancestor \/ (tree[i].parent # 0 /\ below[tree[i].parent])
    IN  below[id]

\* `*` stands for any sequence; the segments between stars are found from
\* the left, each after the one before it.
Segments(pattern) ==
    SelectSeq(FoldLeft(LAMBDA acc, c : IF c = "*" THEN Append(acc, <<>>)
                                       ELSE [acc EXCEPT ![Len(acc)] = Append(@, c)],
                       <<<<>>>>, pattern),
              LAMBDA s : s # <<>>)

Occurs(name, k, seg) == /\ k + Len(seg) <= Len(name)
                        /\ SubSeq(name, k + 1, k + Len(seg)) = seg

\* The length of the name consumed by one more segment, -1 when it is absent.
AfterSegment(name, seg, pos, anchored) ==
    LET found == {k \in pos .. Len(name) : Occurs(name, k, seg) /\ (anchored => k = 0)} IN
    IF pos < 0 \/ found = {} THEN -1 ELSE Min(found) + Len(seg)

Consumed(pattern, name) ==
    FoldLeft(LAMBDA pos, i : AfterSegment(name, Segments(pattern)[i], pos, i = 1 /\ Head(pattern) # "*"),
             0, [i \in 1 .. Len(Segments(pattern)) |-> i])

glob_match_FromStart(pattern, name) ==
    LET segs == Segments(pattern) IN
    \/ segs = <<>>
    \/ /\ Consumed(pattern, name) >= 0
       /\ Last(pattern) # "*" => Consumed(pattern, name) = Len(name)

glob_match(pattern, name) ==
    LET segs == Segments(pattern) IN
    \/ segs = <<>>
    \/ /\ Consumed(pattern, name) >= 0
       /\ Last(pattern) # "*" => /\ Len(Last(segs)) <= Len(name)
                                 /\ Occurs(name, Len(name) - Len(Last(segs)), Last(segs))

criticality_weight(level) == IF level = "critical" THEN 3 ELSE IF level = "high" THEN 2 ELSE 1

\* The node and the weight of an experiment: the first assignment that matches.
assign(file, tree, name) ==
    LET hits == {i \in DOMAIN file.assignments :
                   \E t \in file.assignments[i].targets : glob_match(t, name)}
        a == file.assignments[Min(hits)]
    IN  IF hits = {} \/ build(file) = <<>> THEN [node |-> 2, weight |-> 1]
        ELSE [node |-> CHOOSE i \in NodeNamed(tree, a.team) : TRUE,
              weight |-> criticality_weight(IF name \in DOMAIN a.criticality
                                            THEN a.criticality[name] ELSE CpNull)]

\* The leaves [name, score] with their node and weight; score -1 without one.
Placed(file, tree, leaves) ==
    [i \in DOMAIN leaves |-> assign(file, tree, leaves[i].name) @@ [score |-> leaves[i].score]]

WeightOf(leaves) == FoldLeft(LAMBDA acc, l : acc + l.weight, 0, leaves)

\* `weights` is the weight of the scored leaves, which the score is the mean over.
RollUp(mine, scored) ==
    [expected |-> Len(mine), scored |-> Len(scored), weight |-> WeightOf(mine), weights |-> WeightOf(scored),
     score |-> Mean(FoldLeft(LAMBDA acc, l : acc + l.weight * l.score * Unit, 0, scored), WeightOf(scored))]

ScoredOf(leaves) == SelectSeq(leaves, LAMBDA l : l.score >= 0)

aggregate_Direct(file, tree, id, leaves) ==
    LET mine == SelectSeq(Placed(file, tree, leaves), LAMBDA l : l.node = id)
    IN  RollUp(mine, ScoredOf(mine))

aggregate(file, tree, id, leaves) ==
    LET mine == SelectSeq(Placed(file, tree, leaves), LAMBDA l : in_subtree(tree, id, l.node))
    IN  RollUp(mine, ScoredOf(mine))
-----------------------------------------------------------------------------
(* Telemetry and reviews arrive while documents are built.                  *)

SpanArrives(u, copy) ==
    /\ <<u, copy>> \notin cpSpans /\ CpRuns[u].ts <= cpNow
    /\ cpSpans' = cpSpans \cup {<<u, copy>>}
    /\ UNCHANGED <<cpLogs, cpManual, cpNow, cpDoc>>

LogArrives(u, copy) ==
    /\ <<u, copy>> \notin cpLogs /\ CpRuns[u].ts <= cpNow
    /\ cpLogs' = cpLogs \cup {<<u, copy>>}
    /\ UNCHANGED <<cpSpans, cpManual, cpNow, cpDoc>>

Submit(m) ==
    /\ cpManual[m].status = "draft"
    /\ cpManual' = [cpManual EXCEPT ![m].status = "submitted"]
    /\ UNCHANGED <<cpSpans, cpLogs, cpNow, cpDoc>>

\* Only somebody who did not enter the record decides about it.
Review(m, p, verdict) ==
    /\ cpManual[m].status = "submitted" /\ p # CpRecords[m].by
    /\ cpManual' = [cpManual EXCEPT ![m] = [status |-> verdict, reviewer |-> p]]
    /\ UNCHANGED <<cpSpans, cpLogs, cpNow, cpDoc>>

CpTick ==
    /\ \E t \in CpInstants : t > cpNow
    /\ cpNow' = Min({t \in CpInstants : t > cpNow})
    /\ UNCHANGED <<cpSpans, cpLogs, cpManual, cpDoc>>
-----------------------------------------------------------------------------
(* The documents, one query at a time.                                      *)

CpBegin(kind, S) ==
    /\ cpDoc.pc = "idle"
    /\ cpDoc' = [NoCpDoc EXCEPT !.kind = kind, !.pc = "card", !.at = cpNow, !.scopes = S]
    /\ UNCHANGED <<cpSpans, cpLogs, cpManual, cpNow>>

DocAt(kind, pc) == cpDoc.kind = kind /\ cpDoc.pc = pc

DocStep(next) == cpDoc' = next /\ UNCHANGED <<cpSpans, cpLogs, cpManual, cpNow>>

\* build_executive and build_evidence_pack compute the card first and keep it
\* until the lines or leaves made of it are in the document.
ScopedCard(next) ==
    DocStep([cpDoc EXCEPT !.card = compute_as_of(cpDoc.at, cpDoc.scopes), !.pc = next])

\* The rows of the window: a delivered span with each delivered log of its
\* run, or with none.
IssueRows(from, to, S) ==
    {r \in cpSpans \X (cpLogs \cup {<<0, 0>>}) :
        /\ CpRuns[r[1][1]].ts \in from .. (to - 1) /\ env_in(CpRuns[r[1][1]].env, S)
        /\ IF \E l \in cpLogs : l[1] = r[1][1] THEN r[2][1] = r[1][1] ELSE r[2] = <<0, 0>>}

\* How many rows did not complete, and how many of those a later completed
\* row of the same name fixed.
issue_stats(from, to, S) ==
    LET rows == IssueRows(from, to, S)
        run(r) == CpRuns[r[1][1]]
        ok(r) == r[2] # <<0, 0>> /\ run(r).status = "completed"
        bad == {r \in rows : ~ ok(r)}
    IN  <<Cardinality(bad),
          Cardinality({r \in bad : \E q \in rows :
              run(q).name = run(r).name /\ ok(q) /\ run(q).ts > run(r).ts})>>

runs_in_window(from, to, S) ==
    {CpRuns[s[1]].name : s \in {x \in cpSpans :
         CpRuns[x[1]].ts \in from .. (to - 1) /\ env_in(CpRuns[x[1]].env, S)}}
    \cup {CpRecords[m].name : m \in {k \in DOMAIN CpRecords :
         /\ cpManual[k].status = "verified" /\ CpRecords[k].ts \in from .. (to - 1)
         /\ env_in(CpRecords[k].env, S)}}

Leaves(card, pending) ==
    FoldSet(LAMBDA e, acc : Append(acc, [name |-> e.row.name, score |-> e.score]), <<>>, card)
    \o FoldSet(LAMBDA m, acc : Append(acc, [name |-> CpRecords[m].name, score |-> -1]), <<>>, pending)

build_executive ==
    \/ DocAt("digest", "card") /\ ScopedCard("issues")
    \/ DocAt("digest", "issues") /\ DocStep([cpDoc EXCEPT !.pc = "leaves",
           !.issues = issue_stats(cpDoc.at - CpPeriod, cpDoc.at, cpDoc.scopes)])
    \/ DocAt("digest", "leaves") /\ DocStep([cpDoc EXCEPT !.pc = "window", !.card = {},
           !.leaves = Leaves(cpDoc.card, pending_manual_leaves(cpDoc.scopes))])
    \/ DocAt("digest", "window") /\ DocStep([cpDoc EXCEPT !.pc = "done",
           !.window = runs_in_window(cpDoc.at - CpPeriod, cpDoc.at, cpDoc.scopes)])

\* A line of the register: the scored experiment and, for a manual one, who
\* entered and who verified exactly that record.
register_line_ByName(e, verified) ==
    LET same == {m \in verified : CpRecords[m].name = e.row.name} IN
    [id |-> e.row.id, origin |-> e.row.origin,
     verifier |-> IF e.row.origin = "manual" /\ same # {}
                  THEN cpManual[Max(same)].reviewer ELSE CpNull]

register_line(e, verified) ==
    [id |-> e.row.id, origin |-> e.row.origin,
     verifier |-> IF e.row.origin = "manual" /\ e.row.id \in verified
                  THEN cpManual[e.row.id].reviewer ELSE CpNull]

Verified(S) == {m \in DOMAIN CpRecords : cpManual[m].status = "verified" /\ env_in(CpRecords[m].env, S)}

\* The newest CpSample approvals, then those of the scope and the period; one
\* without an environment is shown to nobody who has scopes.
approval_rows(at, S) ==
    {a \in CpApprovals : /\ a.at <= cpNow
                         /\ Cardinality({b \in CpApprovals : b.at > a.at /\ b.at <= cpNow}) < CpSample
                         /\ S = {} \/ a.env \in S
                         /\ a.at \in (at - CpPeriod) .. at}

build_evidence_pack ==
    \/ DocAt("pack", "card") /\ ScopedCard("register")
    \/ DocAt("pack", "register") /\ DocStep([cpDoc EXCEPT !.pc = "approvals", !.card = {},
           !.register = {register_line(e, Verified(cpDoc.scopes)) : e \in cpDoc.card}])
    \/ DocAt("pack", "approvals") /\ DocStep([cpDoc EXCEPT !.pc = "appendix",
           !.approvals = approval_rows(cpDoc.at, cpDoc.scopes)])
    \/ DocAt("pack", "appendix") /\ DocStep([cpDoc EXCEPT !.pc = "done",
           !.appendix = Verified(cpDoc.scopes)])

\* The report of one run: its root span (none outside the scopes), then the
\* outcome, then every run whose spans share a trace with it.
build_game_day(u) ==
    \/ DocAt("game", "card") /\ DocStep(
         IF (\E s \in cpSpans : s[1] = u) /\ env_in(CpRuns[u].env, cpDoc.scopes)
         THEN [cpDoc EXCEPT !.card = {Scored(r, cpDoc.at) : r \in {x \in AutomatedRows(cpNow, {}) : x.id = u}},
                            !.pc = "window"]
         ELSE [cpDoc EXCEPT !.pc = "done"])
    \/ /\ DocAt("game", "window") /\ \E e \in cpDoc.card : e.row.id = u
       /\ DocStep([cpDoc EXCEPT !.pc = "done",
            !.window = {CpRuns[s[1]].name : s \in {x \in cpSpans : CpRuns[x[1]].trace = CpRuns[u].trace}}])

\* The names with evidence in the scopes; NULL scopes restrict nothing.
scoped_experiment_names(S) ==
    {CpRuns[s[1]].name : s \in {x \in cpSpans : env_in(CpRuns[x[1]].env, S)}}
    \cup {CpRecords[m].name : m \in {k \in DOMAIN CpRecords : env_in(CpRecords[k].env, S)}}

\* GET /api/scores and the tree: the unscoped card, kept by name.
scope_scorecard(card, S) == {e \in card : S = {} \/ e.row.name \in scoped_experiment_names(S)}

scores_tree ==
    \/ DocAt("tree", "card") /\ DocStep([cpDoc EXCEPT !.pc = "leaves",
           !.window = scoped_experiment_names(cpDoc.scopes)])
    \/ DocAt("tree", "leaves") /\ DocStep([cpDoc EXCEPT !.pc = "done",
           !.leaves = SelectSeq(Leaves(compute_as_of(cpDoc.at, {}), pending_manual_leaves({})),
                                LAMBDA l : cpDoc.scopes = {} \/ l.name \in cpDoc.window)])

CpEnd == cpDoc.pc = "done" /\ DocStep(NoCpDoc)

ScoresNext ==
    \/ \E u \in DOMAIN CpRuns : SpanArrives(u, 1) \/ LogArrives(u, 1)
    \/ \E u \in {v \in DOMAIN CpRuns : CpRuns[v].twice} : SpanArrives(u, 2) \/ LogArrives(u, 2)
    \/ \E m \in DOMAIN CpRecords : Submit(m)
    \/ \E m \in DOMAIN CpRecords, p \in CpPeople, v \in {"verified", "rejected"} : Review(m, p, v)
    \/ CpTick
    \/ \E k \in {"digest", "pack", "game", "tree"}, S \in CpScopes : CpBegin(k, S)
    \/ build_executive
    \/ build_evidence_pack
    \/ \E u \in DOMAIN CpRuns : build_game_day(u)
    \/ scores_tree
    \/ CpEnd
-----------------------------------------------------------------------------
(* Signals and verdicts over a folder of journals: how many of each kind     *)
(* [ok, mttr, score] there are; -1 is an absent measurement.                 *)

Target == 30  \* DEFAULT_MTTR_TARGET_S

Count(folder, kinds) == MapThenSumSet(LAMBDA k : folder[k], kinds)

\* The kinds that each signal is collected from.
accumulate(folder) ==
    LET all == DOMAIN folder
    IN  [total |-> all, completed |-> {k \in all : k.ok},
         mttrs |-> {k \in all : k.mttr >= 0}, scores |-> {k \in all : k.score >= 0}]

\* The two rates are percentages as <<part, whole>>.
pass_rate(folder) ==
    LET s == accumulate(folder) IN <<100 * Count(folder, s.completed), Count(folder, s.total)>>

\* The share of recoveries in time; without any, the mean resilience score;
\* <<0, 0>> when no journal has either.
recovery_compliance(folder) ==
    LET s == accumulate(folder)
        inTime == {k \in s.mttrs : k.mttr <= Target}
    IN  IF Count(folder, s.mttrs) > 0
        THEN <<100 * Count(folder, inTime), Count(folder, s.mttrs)>>
        ELSE <<MapThenSumSet(LAMBDA k : folder[k] * k.score, s.scores), Count(folder, s.scores)>>

AtLeast(rate, percent) == rate[2] > 0 /\ rate[1] >= percent * rate[2]

\* 2 compliant, 1 partial, 0 not; the flag says that only the pass rate counted.
compliance_verdict(pass, recovery) ==
    LET only == recovery[2] = 0
        holds(p, r) == AtLeast(pass, p) /\ (only \/ AtLeast(recovery, r))
    IN  [level |-> IF holds(95, 90) THEN 2 ELSE IF holds(80, 75) THEN 1 ELSE 0, only |-> only]

compliance(folder) == compliance_verdict(pass_rate(folder), recovery_compliance(folder))

With(folder, k) == [folder EXCEPT ![k] = @ + 1]
-----------------------------------------------------------------------------
(* Trends: the points of one metric, [at, title, value], in the order of    *)
(* their start.                                                             *)

\* The points an answer shows; -1 is a metric the journal does not have.
TrendPoints(journals, since, title) ==
    SelectSeq(journals, LAMBDA j : j.value >= 0 /\ j.at >= since /\ (title = CpNull \/ j.title = title))

\* tumult trend lists the selected points; its summary counts all of them.
cmd_trend(journals, since, title) ==
    [points |-> TrendPoints(journals, since, title),
     summary |-> Len(SelectSeq(journals, LAMBDA j : j.value >= 0))]

trend(journals, since, title) ==
    [points |-> TrendPoints(journals, since, title), summary |-> Len(TrendPoints(journals, since, title))]

SumOf(values) == FoldLeft(+, 0, values)

\* 1 rising, -1 falling, 0 stable: the mean of the later half against the
\* earlier, by more than a twentieth of the earlier.
Movement_AnyChange(values) ==
    LET mid == Len(values) \div 2
        early == SumOf(SubSeq(values, 1, mid)) * (Len(values) - mid)
        late == SumOf(SubSeq(values, mid + 1, Len(values))) * mid
    IN  IF 20 * (late - early) >= -early THEN 1 ELSE -1

Movement(values) ==
    LET mid == Len(values) \div 2
        early == SumOf(SubSeq(values, 1, mid)) * (Len(values) - mid)
        late == SumOf(SubSeq(values, mid + 1, Len(values))) * mid
    IN  IF 20 * (late - early) > early THEN 1
        ELSE IF 20 * (early - late) > early THEN -1 ELSE 0

trend_verdict(metric, values) ==
    IF Len(values) < 2 THEN "insufficient-data"
    ELSE IF Movement(values) = 0 THEN "stable"
    ELSE IF metric = "method_step_count"
         THEN IF Movement(values) > 0 THEN "increasing" ELSE "decreasing"
    ELSE IF (Movement(values) > 0) = (metric # "duration_ms") THEN "improving" ELSE "declining"
-----------------------------------------------------------------------------
(* The age of a citation: days since 1970-01-01 to a civil date.            *)

civil_from_days_Flat(days) ==
    LET z == days + 719468
        era == z \div 146097
        doe == z - era * 146097
        yoe == (doe - doe \div 1460 + doe \div 36524) \div 365
        doy == doe - (365 * yoe + yoe \div 4 - yoe \div 100)
        mp == (5 * doy + 2) \div 153
        m == IF mp < 10 THEN mp + 3 ELSE mp - 9
    IN  [y |-> yoe + era * 400 + (IF m <= 2 THEN 1 ELSE 0), m |-> m,
         d |-> doy - (153 * mp + 2) \div 5 + 1]

civil_from_days(days) ==
    LET z == days + 719468
        era == z \div 146097
        doe == z - era * 146097
        yoe == (doe - doe \div 1460 + doe \div 36524 - doe \div 146096) \div 365
        doy == doe - (365 * yoe + yoe \div 4 - yoe \div 100)
        mp == (5 * doy + 2) \div 153
        m == IF mp < 10 THEN mp + 3 ELSE mp - 9
    IN  [y |-> yoe + era * 400 + (IF m <= 2 THEN 1 ELSE 0), m |-> m,
         d |-> doy - (153 * mp + 2) \div 5 + 1]

months_since_verified(verified, now) == (now.y * 12 + now.m) - (verified.y * 12 + verified.m)

stale_citations(citations, now, maxAge) ==
    {c \in citations : months_since_verified(civil_from_days(c), now) > maxAge}
-----------------------------------------------------------------------------
(* Properties.                                                              *)

\* The calendar's own rule for the day after a date.
LastOfMonth(y, m) ==
    IF m \in {4, 6, 9, 11} THEN 30
    ELSE IF m # 2 THEN 31
    ELSE IF (y % 4 = 0 /\ y % 100 # 0) \/ y % 400 = 0 THEN 29 ELSE 28

DayAfter(c) ==
    IF c.d < LastOfMonth(c.y, c.m) THEN [c EXCEPT !.d = @ + 1]
    ELSE IF c.m < 12 THEN [c EXCEPT !.m = @ + 1, !.d = 1]
    ELSE [y |-> c.y + 1, m |-> 1, d |-> 1]

\* The citation audit reads the calendar: every day of the checked stretches,
\* leap days and centuries among them, is followed by the day after it, and
\* a citation once stale stays stale on every later day.
CalendarSound(days, verified) ==
    /\ civil_from_days(0) = [y |-> 1970, m |-> 1, d |-> 1]
    /\ \A n \in days :
         /\ civil_from_days(n + 1) = DayAfter(civil_from_days(n))
         /\ stale_citations(verified, civil_from_days(n), 1)
              \subseteq stale_citations(verified, civil_from_days(n + 1), 1)

\* Another completed journal that recovered within the target never lowers
\* the verdict of a folder, whatever measured the recovery until then.
VerdictMonotone(folders) ==
    \A f \in folders : \A k \in DOMAIN f :
        k.ok /\ k.mttr \in 0 .. Target => compliance(With(f, k)).level >= compliance(f).level

\* A trend is called improving only if the later half is better, equal halves
\* are stable, and the command line and the tool show the same points.
TrendSound(series, journals) ==
    /\ \A v \in series : Len(v) >= 2 =>
         LET mid == Len(v) \div 2
             early == SumOf(SubSeq(v, 1, mid)) * (Len(v) - mid)
             late == SumOf(SubSeq(v, mid + 1, Len(v))) * mid
         IN  /\ trend_verdict("resilience_score", v) = "improving" => late > early
             /\ trend_verdict("duration_ms", v) = "improving" => late < early
             /\ early = late => trend_verdict("resilience_score", v) = "stable"
    /\ \A js \in journals, t \in {0, 1}, title \in {CpNull, "x"} :
         cmd_trend(js, t, title).points = trend(js, t, title).points

\* What a glob means: a star is any sequence, anything else itself; of the
\* pattern and the name, i and j characters are done.
Glob(p, n) ==
    LET means[i \in 0 .. Len(p), j \in 0 .. Len(n)] ==
          IF i = Len(p) THEN j = Len(n)
          ELSE IF p[i + 1] = "*" THEN means[i + 1, j] \/ (j < Len(n) /\ means[i, j + 1])
          ELSE j < Len(n) /\ p[i + 1] = n[j + 1] /\ means[i + 1, j + 1]
    IN  means[0, 0]

\* An assignment with a star matches exactly the names the glob means, and one
\* without matches at least its own name.
GlobSound(patterns, names) ==
    \A p \in patterns, n \in names :
        /\ Glob(p, n) => glob_match(p, n)
        /\ "*" \in ToSet(p) => (glob_match(p, n) <=> Glob(p, n))

\* An accepted org file is a tree: the path of a node leads back to it, every
\* node hangs below the root, and a file whose parents cannot be found is
\* refused rather than bent.
OrgSound(files) ==
    \A f \in files :
        LET tree == build(f) IN
        /\ tree # <<>> =>
             /\ Len(tree) = Len(f.nodes) + 2
             /\ \A i \in DOMAIN tree : resolve(tree, path_of(tree, i)) = i /\ in_subtree(tree, 1, i)
             /\ \A i \in DOMAIN f.nodes : f.nodes[i].parent # CpNull =>
                  tree[tree[i + 2].parent].name = f.nodes[i].parent
        /\ tree = <<>> => LoadedTree(f) = EmptyTree

\* A score card has one line per experiment whatever was delivered twice; a
\* scoped one is of those environments, a manual line was verified by somebody
\* other than its author, and every target weighs the same, so the portfolio
\* is never below its weakest target nor good without a fresh pass.
ScoresSound ==
    LET card == compute_as_of(cpNow, {}) IN
    /\ \A S \in CpScopes : \A e \in compute_as_of(cpNow, S) :
         /\ S # {} => e.row.env \in S
         /\ e.row.origin = "manual" => /\ cpManual[e.row.id].status = "verified"
                                       /\ cpManual[e.row.id].reviewer # CpRecords[e.row.id].by
    /\ \A e, f \in card : SameExperiment(e.row, f.row) => e = f
    /\ \A t \in {e.row.target : e \in card} :
         /\ portfolio(card) >= Min({target_score(card, x) : x \in {e.row.target : e \in card}})
         /\ target_score(card, t) > 0
    /\ (\A e \in card : e.state # "passed") => portfolio(card) <= 75 * Unit
    /\ (\A x, y \in card : x.row.target = y.row.target => x.score = y.score)
         => portfolio(card) * Cardinality({e.row.target : e \in card})
            = MapThenSumSet(LAMBDA t : (CHOOSE e \in card : e.row.target = t).score * Unit,
                            {e.row.target : e \in card})

\* The root (1) of a rollup counts every leaf, and each under one child only.
DomainsAddUp(of) ==
    LET below == DOMAIN of \ {1}
        parts == {c \in below : of[c].scored > 0}
    IN  /\ of[1].expected = Len(cpDoc.leaves)
        /\ of[1].expected = MapThenSumSet(LAMBDA c : of[c].expected, below)
        /\ of[1].weight = MapThenSumSet(LAMBDA c : of[c].weight, below)
        /\ of[1].weights * of[1].score = MapThenSumSet(LAMBDA c : of[c].weights * of[c].score, parts)

\* A finished document agrees with itself although the store moved while it
\* was built: the register names the verifier of exactly the record it
\* scored, who is not its author; every scored manual record is in the
\* appendix; no issue is fixed that was not found; every leaf is under one
\* domain only; and what a scoped reader is shown is of those environments.
DocumentsSound ==
    cpDoc.pc = "done" =>
        /\ \A line \in cpDoc.register : line.origin = "manual" =>
             /\ line.verifier = cpManual[line.id].reviewer
             /\ line.verifier \notin {CpNull, CpRecords[line.id].by}
             /\ line.id \in cpDoc.appendix
        /\ cpDoc.issues[2] <= cpDoc.issues[1]
        /\ cpDoc.kind \in {"digest", "tree"} =>
             \E tree \in {LoadedTree(CpOrg)} :
                 DomainsAddUp([c \in children(tree, 1) \cup {1} |-> aggregate(CpOrg, tree, c, cpDoc.leaves)])
        /\ cpDoc.scopes # {} =>
             /\ \A a \in cpDoc.approvals : a.env \in cpDoc.scopes
             /\ \A m \in cpDoc.appendix : CpRecords[m].env \in cpDoc.scopes
             /\ \A e \in cpDoc.card : e.row.env \in cpDoc.scopes
=============================================================================
