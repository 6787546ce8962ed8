------------------------------- MODULE Graph -------------------------------
(***************************************************************************)
(* The ChaosGraph (tumult-graph, its executors in tumult-lake and           *)
(* tumult-query, its tools in tumult-mcp, tumult-cypher): runs mapped to    *)
(* nodes and edges, the declared topology and the coverage gaps beside      *)
(* them, the lineage of controls and services, and what is recommended.     *)
(*                                                                          *)
(* Ids are pairs <<kind, name>>.  An executor is the sequence of statements *)
(* it runs; those of a run are one transaction, those of the two refreshes  *)
(* commit one by one, and the process may die after any of them.            *)
(***************************************************************************)
EXTENDS Naturals, Sequences, FiniteSets, SequencesExt

CONSTANTS
    GrExps,      \* experiment |-> [actions : Seq([name, fault, svc]), maps : articles]
    GrRuns,      \* run |-> [exp, ts, status, results : set of [name, failed], halt]
    GrDocs,      \* topology documents: service |-> [deps, attrs]
    GrActions,   \* the plugins' catalog: a sequence of action names, sorted
    GrStrength,  \* article |-> citation strength, in tenths
    GrTraffic,   \* service |-> observed rate; <<>> without a file
    GrMaxCuts,   \* bound: refreshes that die
    GrMaxPurges, \* bound: runs purged
    GrLimit      \* MAX_EXPANSION_STEPS

VARIABLES
    grNodes,   \* id |-> attributes
    grEdges,   \* edge |-> how many rows
    grKnown,   \* runs with a row in experiments
    grMode,    \* history: how each run was last mapped
    grDoc,     \* history: the document imported last
    grGaps,    \* history: the tested actions at the last complete refresh
    grCuts,    \* history: the refreshes that died since one completed
    grPurges   \* how many runs were purged

grVars == <<grNodes, grEdges, grKnown, grMode, grDoc, grGaps, grCuts, grPurges>>

GrTopology == 0      \* the sentinel ids: no run has them
GrGapRun == 1000
NoDoc == <<>>

Id(kind, name) == <<kind, name>>
EdgeOf(src, rel, dst, run, ts) == [src |-> src, rel |-> rel, dst |-> dst, run |-> run, ts |-> ts]
Articles == DOMAIN GrStrength

\* Every open of the store upserts the registry's articles.
GrInit ==
    /\ grNodes = [n \in {Id("article", a) : a \in Articles} |-> {}]
    /\ grEdges = <<>> /\ grKnown = {} /\ grMode = [r \in DOMAIN GrRuns |-> "none"]
    /\ grDoc = NoDoc /\ grGaps = {} /\ grCuts = {} /\ grPurges = 0
-----------------------------------------------------------------------------
(* A run's delta.  With its experiment a fault is plugin::function and may  *)
(* name a service; from a journal alone a fault is the activity's name.     *)

Actions(run) == GrExps[GrRuns[run].exp].actions

fault_id_for_action(run, mode, name) ==
    IF mode = "journal" THEN {name}
    ELSE LET hits == SelectSeq(Actions(run), LAMBDA a : a.name = name)
         IN  IF hits = <<>> THEN {} ELSE {Head(hits).fault}

injected_fault_ids(run, mode) ==
    UNION {fault_id_for_action(run, mode, r.name) : r \in GrRuns[run].results}

Failing(run) == {r.name : r \in {x \in GrRuns[run].results : x.failed}}

\* Without guessing: the faults of the actions that failed, or the only one
\* there was when a guard halted the run.
deviation_detail_All(run, mode) ==
    IF Failing(run) # {} THEN UNION {fault_id_for_action(run, mode, n) : n \in Failing(run)}
    ELSE injected_fault_ids(run, mode)

deviation_detail(run, mode) ==
    LET failing == UNION {fault_id_for_action(run, mode, n) : n \in Failing(run)}
        injected == injected_fault_ids(run, mode)
    IN  IF failing = {} /\ GrRuns[run].halt /\ Cardinality(injected) = 1 THEN injected ELSE failing

map_from_experiment(run) ==
    LET exp == Id("exp", GrRuns[run].exp)
        actions == ToSet(Actions(run))
        fault(a) == Id("fault", a.fault)
        placed == {a \in actions : a.svc # "-"}
    IN  [nodes |-> {fault(a) : a \in actions} \cup {Id("svc", a.svc) : a \in placed},
         edges |-> {<<exp, "injects", fault(a)>> : a \in actions}
                   \cup {<<exp, "targets", Id("svc", a.svc)>> : a \in placed}
                   \cup {<<fault(a), "observed_on", Id("svc", a.svc)>> : a \in placed}]

map_from_journal(run) ==
    LET exp == Id("exp", GrRuns[run].exp)
        faults == {Id("fault", r.name) : r \in GrRuns[run].results}
    IN  [nodes |-> faults, edges |-> {<<exp, "injects", f>> : f \in faults}]

\* Declared intent always, evidence only from a run that completed.
map_compliance(run) ==
    {<<Id("exp", GrRuns[run].exp), rel, Id("article", a)>> :
        rel \in {"maps_to_compliance"}
                \cup IF GrRuns[run].status = "completed" THEN {"evidences"} ELSE {},
        a \in GrExps[GrRuns[run].exp].maps}

journal_to_graph(run, mode) ==
    LET exp == Id("exp", GrRuns[run].exp)
        dev == Id("dev", run)
        broke == GrRuns[run].status # "completed"
        faults == IF mode = "full" THEN map_from_experiment(run) ELSE map_from_journal(run)
    IN  [nodes |-> {exp, Id("run", run)} \cup faults.nodes \cup IF broke THEN {dev} ELSE {},
         edges |-> {<<exp, "yielded", Id("run", run)>>} \cup faults.edges \cup map_compliance(run)
                   \cup IF ~broke THEN {} ELSE
                          {<<Id("run", run), "exhibited", dev>>}
                          \cup {<<dev, "caused_by", Id("fault", f)>> : f \in deviation_detail(run, mode)}]
-----------------------------------------------------------------------------
(* Statements and executors.                                               *)

Stmt(op, arg, attrs) == [op |-> op, arg |-> arg, attrs |-> attrs]
Listed(S) == FoldSet(LAMBDA x, seq : Append(seq, x), <<>>, S)
Upserts(op, nodes, attrs(_)) == Listed({Stmt(op, n, attrs(n)) : n \in nodes})
Inserts(edges, run, ts) ==
    Listed({Stmt("insert", EdgeOf(e[1], e[2], e[3], run, ts), {}) : e \in edges})

Exec(db, s) ==
    LET put(f, k, v) == [x \in DOMAIN f \cup {k} |-> IF x = k THEN v ELSE f[x]]
        had(f, k, v) == IF k \in DOMAIN f THEN f[k] ELSE v
        drop(f, S) == [x \in DOMAIN f \ S |-> f[x]]
    IN  CASE s.op = "upsert" -> [db EXCEPT !.nodes = put(@, s.arg, s.attrs)]
          [] s.op = "merge"  -> [db EXCEPT !.nodes = put(@, s.arg, had(@, s.arg, {}) \cup s.attrs)]
          [] s.op = "insert" -> [db EXCEPT !.edges = put(@, s.arg, had(@, s.arg, 0) + 1)]
          [] s.op = "delete_edges" ->
               [db EXCEPT !.edges = drop(@, {e \in DOMAIN @ : e.run = s.arg})]
          [] s.op = "delete_kind" ->
               [db EXCEPT !.nodes = drop(@, {n \in DOMAIN @ : n[1] = s.arg})]

\* The first k statements of an executor.
Execute(stmts, k) ==
    LET db == FoldLeft(Exec, [nodes |-> grNodes, edges |-> grEdges], SubSeq(stmts, 1, k))
    IN  grNodes' = db.nodes /\ grEdges' = db.edges

populate_graph_NoDelete(run, mode) ==
    LET delta == journal_to_graph(run, mode)
    IN  Upserts("merge", delta.nodes, LAMBDA n : {}) \o Inserts(delta.edges, run, GrRuns[run].ts)

populate_graph(run, mode) ==
    LET delta == journal_to_graph(run, mode)
    IN  Upserts("merge", delta.nodes, LAMBDA n : {})
        \o <<Stmt("delete_edges", run, {})>> \o Inserts(delta.edges, run, GrRuns[run].ts)

\* A dependency that no block declares, and a document without any, are
\* refused before the store is opened.
parse_topology(doc) == doc # NoDoc /\ \A s \in DOMAIN doc : doc[s].deps \subseteq DOMAIN doc

topology_edges_of(doc) ==
    UNION {{<<Id("svc", s), "depends_on", Id("svc", d)>> : d \in doc[s].deps} : s \in DOMAIN doc}

refresh_topology(doc) ==
    <<Stmt("delete_edges", GrTopology, {})>>
    \o Upserts("upsert", {Id("svc", s) : s \in DOMAIN doc},
               LAMBDA n : {"declared"} \cup doc[n[2]].attrs)
    \o Inserts(topology_edges_of(doc), GrTopology, 0)

tested_action_names ==
    UNION {{r.name : r \in GrRuns[run].results} : run \in grKnown}

coverage_gap_delta(tested) ==
    LET gaps == ToSet(GrActions) \ tested
    IN  [nodes |-> {Id("gap", a) : a \in gaps} \cup {Id("domain", "d") : a \in gaps},
         edges |-> {<<Id("gap", a), "gap_in", Id("domain", "d")>> : a \in gaps}]

refresh_coverage_gaps(delta) ==
    <<Stmt("delete_kind", "gap", {}), Stmt("delete_edges", GrGapRun, {})>>
    \o Upserts("upsert", delta.nodes, LAMBDA n : {}) \o Inserts(delta.edges, GrGapRun, 0)
-----------------------------------------------------------------------------
(* Actions.                                                                *)

\* One transaction, skipped for a run that is known.
IngestRun(run, mode) ==
    /\ run \notin grKnown
    /\ LET stmts == populate_graph(run, mode) IN Execute(stmts, Len(stmts))
    /\ grKnown' = grKnown \cup {run} /\ grMode' = [grMode EXCEPT ![run] = mode]
    /\ UNCHANGED <<grDoc, grGaps, grCuts, grPurges>>

\* purge deletes the run's rows and leaves its graph.
PurgeRun(run) ==
    /\ run \in grKnown /\ grKnown' = grKnown \ {run}
    /\ grPurges < GrMaxPurges /\ grPurges' = grPurges + 1
    /\ UNCHANGED <<grNodes, grEdges, grMode, grDoc, grGaps, grCuts>>

topology_import(doc) ==
    /\ parse_topology(doc)
    /\ LET stmts == refresh_topology(doc) IN Execute(stmts, Len(stmts))
    /\ grDoc' = doc /\ grCuts' = grCuts \ {"topology"}
    /\ UNCHANGED <<grKnown, grMode, grGaps, grPurges>>

chaosgraph_coverage_gaps ==
    /\ LET stmts == refresh_coverage_gaps(coverage_gap_delta(tested_action_names))
       IN  Execute(stmts, Len(stmts))
    /\ grGaps' = tested_action_names /\ grCuts' = grCuts \ {"gaps"}
    /\ UNCHANGED <<grKnown, grMode, grDoc, grPurges>>

\* A refresh dies after some of its statements.
CutRefresh(what, stmts) ==
    /\ Cardinality(grCuts) < GrMaxCuts /\ grCuts' = grCuts \cup {what}
    /\ \E k \in 1 .. Len(stmts) - 1 : Execute(stmts, k)
    /\ UNCHANGED <<grKnown, grMode, grDoc, grGaps, grPurges>>

\* Runs, and complete imports between them.
MappingNext ==
    \/ \E run \in DOMAIN GrRuns : PurgeRun(run) \/ \E mode \in {"full", "journal"} : IngestRun(run, mode)
    \/ \E doc \in GrDocs : topology_import(doc)

\* Refreshes that die, with a few runs between them.
RefreshNext(runs) ==
    \/ \E run \in runs : IngestRun(run, "full")
    \/ \E doc \in GrDocs : topology_import(doc)
                           \/ (parse_topology(doc) /\ CutRefresh("topology", refresh_topology(doc)))
    \/ chaosgraph_coverage_gaps
    \/ CutRefresh("gaps", refresh_coverage_gaps(coverage_gap_delta(tested_action_names)))
-----------------------------------------------------------------------------
(* Lineage: control by service, from the latest run of each experiment.     *)

Rel(rel) == {e \in DOMAIN grEdges : e.rel = rel}
Named(kind) == {n \in DOMAIN grNodes : n[1] = kind}

\* index_runs: a run's time is the latest of its edges.
RunTs(run) == LET ts == {e.ts : e \in {x \in DOMAIN grEdges : x.run = run}}
              IN  CHOOSE t \in ts : \A u \in ts : u <= t

Later(r, s) == RunTs(r) > RunTs(s) \/ (RunTs(r) = RunTs(s) /\ r >= s)

Covering_AnyOrder(exp, article, svc) ==
    LET runs == {e.run : e \in {x \in Rel("maps_to_compliance") :
                    /\ x.src = exp /\ x.dst = article
                    /\ \E t \in Rel("targets") : t.run = x.run /\ t.src = exp /\ t.dst = svc}}
    IN  {r \in runs : \A s \in runs : r <= s}

\* The latest run of an experiment that maps the article and targets the
\* service: the greater time, and then the greater id.
Covering(exp, article, svc) ==
    LET runs == {e.run : e \in {x \in Rel("maps_to_compliance") :
                    /\ x.src = exp /\ x.dst = article
                    /\ \E t \in Rel("targets") : t.run = x.run /\ t.src = exp /\ t.dst = svc}}
    IN  {r \in runs : \A s \in runs : Later(r, s)}

\* index_caused_by: of several, the least fault.
CausedBy(dev) ==
    LET faults == {e.dst[2] : e \in {x \in Rel("caused_by") : x.src = dev}}
    IN  {f \in faults : \A g \in faults : f <= g}

build_cause(run) ==
    LET devs == {e.dst : e \in {x \in Rel("exhibited") : x.run = run}}
    IN  [run |-> run, devs |-> devs, faults |-> UNION {CausedBy(d) : d \in devs}]

NoCause == [run |-> 0, devs |-> {}, faults |-> {}]

\* Worst of the experiments; among the broken, the latest names the cause.
resolve_cell(article, svc) ==
    LET latest == UNION {Covering(x, article, svc) : x \in Named("exp")}
        broken == {r \in latest :
                     ~ \E e \in Rel("evidences") : e.run = r /\ e.dst = article}
        last == CHOOSE r \in broken : \A s \in broken : Later(r, s)
    IN  IF latest = {} THEN [status |-> "untested", cause |-> NoCause]
        ELSE IF broken # {} THEN [status |-> "broken", cause |-> build_cause(last)]
        ELSE [status |-> "evidenced", cause |-> NoCause]

compute_lineage ==
    [c \in Named("article") \X Named("svc") |-> resolve_cell(c[1], c[2])]

\* Cells of one service roll up to the worst.
service_view(lineage, svc) ==
    LET states == {lineage[<<a, svc>>].status : a \in Named("article")}
    IN  IF "broken" \in states THEN "broken" ELSE IF "untested" \in states THEN "untested"
        ELSE IF states = {} THEN "unknown" ELSE "evidenced"

topology_map == LET lineage == compute_lineage IN [s \in Named("svc") |-> service_view(lineage, s)]

\* The cells of one service, named with or without its prefix.
compliance_lineage(svc) ==
    LET lineage == compute_lineage IN [c \in {x \in DOMAIN lineage : x[2][2] = svc} |-> lineage[c]]

\* Articles without any evidence, whatever the service (unevidenced_articles).
evidenced_article_ids == {e.dst : e \in Rel("evidences")}
-----------------------------------------------------------------------------
(* Recommendations.                                                        *)

Links == {<<e.src, e.dst>> : e \in Rel("depends_on")}

in_degrees(svc) == Cardinality({l[1] : l \in {x \in Links : x[2] = svc}})

\* The breadth-first search from every broken service, both ways, level by
\* level.
broken_distances_Directed(broken) ==
    LET level[n \in Nat] == IF n = 0 THEN broken
                            ELSE level[n - 1] \cup {l[2] : l \in {x \in Links : x[1] \in level[n - 1]}}
        reached == level[Cardinality(Named("svc"))]
    IN  [s \in reached |-> CHOOSE n \in 0 .. Cardinality(Named("svc")) :
                             s \in level[n] /\ (n = 0 \/ s \notin level[n - 1])]

broken_distances(broken) ==
    LET next(S) == {l[1] : l \in {x \in Links : x[2] \in S}} \cup {l[2] : l \in {x \in Links : x[1] \in S}}
        level[n \in Nat] == IF n = 0 THEN broken ELSE level[n - 1] \cup next(level[n - 1])
        reached == level[Cardinality(Named("svc"))]
    IN  [s \in reached |-> CHOOSE n \in 0 .. Cardinality(Named("svc")) :
                             s \in level[n] /\ (n = 0 \/ s \notin level[n - 1])]

\* The first action nobody tested, or the first of all.
Pick(tested) == Head(SelectSeq(GrActions, LAMBDA a : a \notin tested) \o GrActions)

\* state * strength * centrality * proximity * novelty * traffic, as a
\* fraction; without a broken service proximity is neutral, and out of reach
\* of every one it is that of five hops.
Score(status, article, svc, broken, tested) ==
    LET most == LET D == {in_degrees(s) : s \in Named("svc")} IN CHOOSE d \in D : \A e \in D : e <= d
        dist == broken_distances(broken)
        hops == IF broken = {} THEN 0 ELSE IF svc \in DOMAIN dist THEN dist[svc] ELSE 5
        rates == {GrTraffic[s] : s \in DOMAIN GrTraffic}
        top == IF rates = {} THEN 0 ELSE CHOOSE r \in rates : \A q \in rates : q <= r
        known == top > 0 /\ svc[2] \in DOMAIN GrTraffic
    IN  [num |-> (IF status = "broken" THEN 10 ELSE 6) * GrStrength[article[2]]
                 * (IF most > 0 THEN most + in_degrees(svc) ELSE 1)
                 * (IF Pick(tested) \in tested THEN 4 ELSE 5)
                 * (IF known THEN top + GrTraffic[svc[2]] ELSE 1),
         den |-> (IF most > 0 THEN most ELSE 1) * (1 + hops) * (IF known THEN top ELSE 1)]

\* One candidate per control and service that is broken or untested.
recommend(lineage, tested) ==
    LET broken == {c[2] : c \in {x \in DOMAIN lineage : lineage[x].status = "broken"}}
        unmet == {c \in DOMAIN lineage : lineage[c].status \in {"broken", "untested"}}
    IN  [c \in unmet |-> Score(lineage[c].status, c[1], c[2], broken, tested)]
recommend_injection == recommend(compute_lineage, tested_action_names)

\* The report on plugins counts the actions with a result.
coverage ==
    LET tested == Cardinality({a \in ToSet(GrActions) : \E run \in grKnown :
                                 \E r \in GrRuns[run].results : r.name = a})
    IN  IF tested = Len(GrActions) THEN "FULL" ELSE IF tested > 0 THEN "PARTIAL" ELSE "NONE"
-----------------------------------------------------------------------------
(* Traversal.                                                              *)

chaosgraph_query(kind) == Named(kind)

\* The nodes within depth hops, over one relation or over all.
reach_cte(center, rel, depth) ==
    LET edges == {e \in DOMAIN grEdges : rel = "any" \/ e.rel = rel}
        next(S) == S \cup {e.dst : e \in {x \in edges : x.src \in S}}
                     \cup {e.src : e \in {x \in edges : x.dst \in S}}
        near[d \in 0 .. depth] == IF d = 0 THEN {center} ELSE next(near[d - 1])
    IN  near[depth]

graph_neighbors(center, rel, depth) ==
    LET near == reach_cte(center, rel, IF depth < 1 THEN 1 ELSE depth)
    IN  [nodes |-> near \cap DOMAIN grNodes,
         edges |-> {<<e.src, e.rel, e.dst>> :
                      e \in {x \in DOMAIN grEdges : /\ x.src \in near /\ x.dst \in near
                                                    /\ rel = "any" \/ x.rel = rel}}]

\* An unknown node is an error, an empty answer is not.
chaosgraph_neighbors(center, rel, depth) ==
    IF center \in DOMAIN grNodes THEN graph_neighbors(center, rel, depth)
                                 ELSE [nodes |-> {}, edges |-> {}]

\* The Cypher engine: writes and queries over the budget are refused, and an
\* edge without one of its ends fails the whole query.  A query is its
\* sequence of hops and whether it mutates.
estimate_expansion_steps(hops) ==
    LET nodes == Cardinality(DOMAIN grNodes)
        rows == FoldSet(LAMBDA e, n : n + grEdges[e], 0, DOMAIN grEdges)
        degree == IF nodes = 0 \/ 2 * rows < nodes THEN 1 ELSE (2 * rows) \div nodes
        step(acc, h) == [frontier |-> acc.frontier * degree * h,
                         steps |-> acc.steps + acc.frontier * degree * h]
    IN  FoldLeft(step, [frontier |-> IF nodes = 0 THEN 1 ELSE nodes, steps |-> 0], hops).steps

build_graph == \A e \in DOMAIN grEdges : {e.src, e.dst} \subseteq DOMAIN grNodes

run_cypher_capped(hops, mutates) ==
    IF mutates THEN "mutation" ELSE IF estimate_expansion_steps(hops) > GrLimit THEN "budget"
    ELSE IF build_graph THEN "rows" ELSE "unknown node"
-----------------------------------------------------------------------------
(* Properties *)

Mapped == {r \in DOMAIN GrRuns : grMode[r] # "none"}

(* Whatever the order of ingests, purges, repeats and refreshes, and wherever
   a refresh died, the rows of every run are those of its last mapping, each
   once (populate_graph), and a deviation blames only a fault its run injected:
   one that failed, or the only one (attribution.rs). *)
RunsMappedOnce ==
    /\ \A r \in Mapped :
         {e \in DOMAIN grEdges : e.run = r}
           = {EdgeOf(e[1], e[2], e[3], r, GrRuns[r].ts) : e \in journal_to_graph(r, grMode[r]).edges}
    /\ \A e \in DOMAIN grEdges : e.run \in Mapped => grEdges[e] = 1
    /\ \A e \in Rel("caused_by") :
         /\ \E x \in Rel("injects") : x.run = e.run /\ x.dst = e.dst
         /\ Failing(e.run) = {} => {e.dst[2]} = injected_fault_ids(e.run, grMode[e.run])

(* A control is evidenced on a service only if the latest run of every
   experiment that covers the pair completed; otherwise it is broken, by the
   latest of the runs that did not, or nobody tested it (lineage.rs). *)
LineageRight ==
    LET covers(r, a, s) == /\ grMode[r] = "full" /\ a \in GrExps[GrRuns[r].exp].maps
                           /\ \E x \in ToSet(Actions(r)) : x.svc = s
        newer(r, q) == <<GrRuns[r].ts, r>> # <<GrRuns[q].ts, q>> /\
                       (GrRuns[r].ts > GrRuns[q].ts \/ (GrRuns[r].ts = GrRuns[q].ts /\ r > q))
        lineage == compute_lineage
    IN  \A c \in DOMAIN lineage :
          LET runs == {r \in Mapped : covers(r, c[1][2], c[2][2])}
              last == {r \in runs : ~ \E q \in runs : GrRuns[q].exp = GrRuns[r].exp /\ newer(q, r)}
              bad == {r \in last : GrRuns[r].status # "completed"}
              cell == lineage[c]
          IN  /\ cell.status = IF runs = {} THEN "untested" ELSE IF bad = {} THEN "evidenced" ELSE "broken"
              /\ bad # {} => /\ cell.cause.run \in bad /\ ~ \E q \in bad : newer(q, cell.cause.run)
                             /\ cell.cause.faults \subseteq deviation_detail(cell.cause.run, "full")
              /\ cell.status = "evidenced" => c[1] \in evidenced_article_ids

(* The declared parts: after a complete import the dependencies are those of
   the document, each once, and its services keep their owner and tier
   whatever runs touch them (UPSERT_NODE_MERGE_ATTRS); after a complete
   refresh the gaps are the actions nobody had tested then.  A refresh that
   died can only leave a gap without its node, and only then does a Cypher
   query fail on the graph. *)
DeclaredPartsRight ==
    /\ "topology" \notin grCuts =>
         /\ {<<e.src, e.rel, e.dst>> : e \in Rel("depends_on")} = topology_edges_of(grDoc)
         /\ \A e \in Rel("depends_on") : grEdges[e] = 1
         /\ \A s \in DOMAIN grDoc : grNodes[Id("svc", s)] = {"declared"} \cup grDoc[s].attrs
    /\ "gaps" \notin grCuts =>
         /\ \A e \in Rel("gap_in") : e.src[2] \notin grGaps /\ grEdges[e] = 1
         /\ grGaps = tested_action_names /\ grGaps # {} =>
              (coverage = "FULL" <=> chaosgraph_query("gap") = {})
    /\ \A e \in DOMAIN grEdges : {e.src, e.dst} \subseteq DOMAIN grNodes \/ e.rel = "gap_in"
    /\ run_cypher_capped(<<1>>, FALSE) = "unknown node" => "gaps" \in grCuts

(* Advice follows the lineage: every unmet control of a service and no other
   is recommended; a broken one never ranks below an untested one of its
   article at a service that no more depend on (without traffic); and the
   distance of a service is the length of its shortest path to a break. *)
AdviceSound ==
    LET lineage == compute_lineage
        recs == recommend_injection
        broken == {c[2] : c \in {x \in DOMAIN lineage : lineage[x].status = "broken"}}
        dist == broken_distances(broken)
        both == Links \cup {<<l[2], l[1]>> : l \in Links}
        less(x, y) == x.num * y.den < y.num * x.den
    IN  /\ \A s \in Named("svc") :
             /\ topology_map[s] \in {"broken", "untested"} <=> \E c \in DOMAIN recs : c[2] = s
             /\ topology_map[s] = "evidenced" =>
                  \A c \in DOMAIN compliance_lineage(s[2]) : lineage[c].status = "evidenced"
        /\ \A c, d \in DOMAIN recs :
             /\ c[1] = d[1] /\ lineage[c].status = "broken" /\ lineage[d].status = "untested"
             /\ in_degrees(c[2]) >= in_degrees(d[2]) /\ GrTraffic = <<>>
             => ~ less(recs[c], recs[d])
        /\ \A l \in both : l[1] \in DOMAIN dist =>
             l[2] \in DOMAIN dist /\ dist[l[2]] <= dist[l[1]] + 1
        /\ \A s \in DOMAIN dist : dist[s] = 0 <=> s \in broken
        /\ \A s \in DOMAIN dist \ broken : \E l \in both : l[1] = s /\ dist[l[2]] = dist[s] - 1

(* What a traversal shows hangs together: an edge's ends are shown, unless
   the graph misses one, and a deeper one shows no less. *)
TraversalSound ==
    \A n \in DOMAIN grNodes, rel \in {"any", "injects"} :
        LET one == chaosgraph_neighbors(n, rel, 1)
            two == chaosgraph_neighbors(n, rel, 2)
        IN  /\ one.nodes \subseteq two.nodes /\ one.edges \subseteq two.edges
            /\ build_graph => \A e \in two.edges : {e[1], e[3]} \subseteq two.nodes

GraphSound ==
    RunsMappedOnce /\ LineageRight /\ DeclaredPartsRight /\ AdviceSound /\ TraversalSound
=============================================================================
