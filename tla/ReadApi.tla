------------------------------ MODULE ReadApi ------------------------------
(***************************************************************************)
(* What the HTTP read handlers show a principal (tumult-api, handlers/,     *)
(* events.rs, runs/read.rs, ask.rs).  Telemetry arrives row by row, in any  *)
(* order; only an experiment's root span names its environment, and every   *)
(* other row reaches it through a trace, an experiment id or an             *)
(* experiment's name.  A handler is an operator from the principal's scopes *)
(* to the rows it answers with; its other filters are a set of rows that    *)
(* match, its LIMIT and its aggregation are left out.  Report artifacts are *)
(* written file by file and read under the coverage recorded with them.     *)
(***************************************************************************)
EXTENDS Naturals, Sequences, FiniteSets

CONSTANTS
    RaEnvs,         \* environments
    RaRows,         \* the rows that may arrive, of all tables
    RaRuns,         \* runs
    RaGenerations,  \* calls that generate a report
    RaNames         \* names of digests: metric and second

RaNull == "-"       \* SQL NULL: equal to nothing

Same(a, b) == a # RaNull /\ a = b

\* An experiment's id is made afresh for each execution, whose spans are one
\* trace; digests and reports have directories of their own.
ASSUME RaAssumption ==
    /\ \A r, s \in RaRows :
         r.kind = "span" /\ s.kind = "span" /\ Same(r.exp, s.exp) => r.trace = s.trace
    /\ RaNames \cap RaGenerations = {}

VARIABLES
    raRows,   \* the rows stored
    raRun,    \* the run rows with their durable request context
    raGen,    \* the generation calls in progress
    raArt,    \* the files of each artifact
    raTaken   \* history: how many generations took a name

raVars == <<raRows, raRun, raGen, raArt, raTaken>>

RaDead == 9  \* a generation that stopped between two files

NoRun == [asked |-> RaNull, approval |-> RaNull, context |-> RaNull,
          gameday |-> RaNull, exp |-> RaNull, known |-> FALSE]
NoGen == [pc |-> 0, kind |-> "v1", scopes |-> {}, name |-> RaNull, body |-> {}]
NoArt == [meta |-> <<>>, html |-> <<>>, pdf |-> <<>>]

RaInitWith(rows) ==
    /\ raRows = rows
    /\ raRun = [u \in RaRuns |-> NoRun]
    /\ raGen = [g \in RaGenerations |-> NoGen]
    /\ raArt = [n \in RaNames \cup RaGenerations |-> NoArt]
    /\ raTaken = [n \in RaNames \cup RaGenerations |-> 0]

RaInit == RaInitWith({})

Table(kind) == {r \in raRows : r.kind = kind}
Spans == Table("span")
Logs == Table("log")
Points == Table("point")
-----------------------------------------------------------------------------
(* The predicates that confine a query; no scopes mean every environment.   *)

env_scope_where_Null(env, S) == S = {} \/ env \in S \cup {RaNull}

env_scope_where(env, S) == S = {} \/ env \in S

env_trace_exists(row, S) ==
    S = {} \/ \E s \in Spans : Same(s.trace, row.trace) /\ s.env \in S

env_metric_exists(point, S) ==
    S = {} \/ \E s \in Spans : Same(s.name, point.name) /\ s.env \in S

env_table_predicate(row, S) ==
    IF row.kind = "span" THEN env_scope_where(row.env, S) ELSE env_metric_exists(row, S)

\* A log is correlated by its trace or by the experiment it names.
log_wheres(row, S) ==
    S = {} \/ \E s \in Spans : /\ s.env \in S
                               /\ Same(s.trace, row.trace) \/ Same(s.exp, row.exp)

run_scope_sql_Telemetry(u, S) ==
    /\ raRun[u].known
    /\ \/ S = {}
       \/ raRun[u].context \in S
       \/ \E s \in Spans : Same(s.exp, raRun[u].exp) /\ s.env \in S

\* The COALESCE of run_scope_sql: what the request recorded comes before what
\* a client's telemetry claims, and an unknown environment fails closed.
run_scope_sql(u, S) ==
    LET run == raRun[u]
        durable == IF run.approval # RaNull THEN run.approval
                   ELSE IF run.context # RaNull THEN run.context ELSE run.gameday
    IN  /\ run.known
        /\ \/ S = {}
           \/ durable # RaNull /\ durable \in S
           \/ durable = RaNull /\ \E s \in Spans : Same(s.exp, run.exp) /\ s.env \in S

-----------------------------------------------------------------------------
(* The lists, charts and details.                                           *)

Roots(S) == {s \in Spans : s.root /\ env_scope_where(s.env, S)}

\* The completed log of a root span, and the spans of its trace, ride along.
Joined(s) == {l \in Logs : Same(l.exp, s.exp)} \cup {c \in Spans : Same(c.trace, s.trace)}

experiments(S, match, origins) ==
    (IF "automated" \in origins
       THEN UNION {{s} \cup Joined(s) : s \in Roots(S) \cap match} ELSE {})
    \cup (IF "manual" \in origins
            THEN {m \in Table("manual") \cap match : env_scope_where(m.env, S)} ELSE {})

\* The rollup view has no environment: scope binds through the experiment.
experiment_windows(S) ==
    {s \in Spans : /\ s.root
                   /\ S = {} \/ \E se \in Spans : Same(se.exp, s.exp) /\ se.env \in S}

\* An experiment out of scope looks like a missing one: the empty set is 404.
experiment_detail(S, x) ==
    LET info == {s \in Roots(S) : Same(s.exp, x)}
        spans == {s \in Spans : \/ Same(s.exp, x)
                                \/ \E o \in Spans : Same(o.exp, x) /\ Same(o.trace, s.trace)}
        logs == {l \in Logs : Same(l.exp, x) \/ \E s \in spans : Same(s.trace, l.trace)}
        metrics == {p \in Points : \E s \in info : Same(s.name, p.name)}
    IN  IF info = {} THEN {} ELSE spans \cup logs \cup metrics

dimensions(S) ==
    {l \in Logs : S = {} \/ \E s \in Spans : Same(s.exp, l.exp) /\ s.env \in S}
    \cup {s \in Spans : env_scope_where(s.env, S) \/ env_trace_exists(s, S)}

logs(S, match) == {l \in Logs \cap match : log_wheres(l, S)}

\* One row per bucket and severity, counted over the rows of the list.
logs_volume(S, match) == Cardinality(logs(S, match))

load_catalog(S) == {p \in Points : env_metric_exists(p, S)}

timeseries(S, kind) == {r \in Table(kind) : env_table_predicate(r, S)}

\* A metric is looked up in the catalog first, and its points are confined
\* once more.
metrics_query(S, name) ==
    {p \in load_catalog(S) : p.name = name /\ env_metric_exists(p, S)}

\* Traces are grouped from spans; the scope is a filter on the group.
traces(S, match) == {s.trace : s \in {x \in Spans \cap match : env_trace_exists(x, S)}} \ {RaNull}

trace_durations(S) == {s \in Spans : s.parent = RaNull /\ env_trace_exists(s, S)}

trace_detail_AllSpans(S, t) ==
    {s \in Spans : Same(s.trace, t)} \cup {l \in Logs : Same(l.trace, t)}

trace_detail(S, t) ==
    LET spans == {s \in Spans : Same(s.trace, t) /\ env_trace_exists(s, S)}
    IN  IF spans = {} THEN {} ELSE spans \cup {l \in Logs : Same(l.trace, t)}

\* The rows the KPI cards count: root spans and spans with a recovery or a
\* target by trace, counters by experiment name.
kpi_rows(S) ==
    {s \in Spans : env_trace_exists(s, S)} \cup {p \in Points : env_metric_exists(p, S)}

overview(S) ==
    kpi_rows(S) \cup UNION {{s} \cup {l \in Logs : Same(l.exp, s.exp)} : s \in Roots(S)}

\* Services as nodes, parent to child hops as edges between shown nodes.
topology_nodes(S) == {s.svc : s \in {x \in Spans : env_trace_exists(x, S)}}
topology_edges(S) ==
    {<<e[1].svc, e[2].svc>> : e \in
        {x \in Spans \X Spans : Same(x[2].parent, x[1].id) /\ env_trace_exists(x[2], S)}}
    \cap (topology_nodes(S) \X topology_nodes(S))

\* The run list, one run with its trail, the check of its chain, the control
\* handlers and the event feed share one predicate.
list_runs(S) == {u \in RaRuns : run_scope_sql(u, S)}
detail(S, u) == IF u \in list_runs(S) THEN raRun[u] ELSE NoRun
authorize_run(S, u) == S = {} \/ u \in list_runs(S)
list_events(S) == {u \in RaRuns : run_scope_sql(u, S)}

\* POST /api/ask: the SQL is golden or the model's.  The guard admits the
\* tables of the allow list only, and under scopes every table but spans
\* fails closed, because only spans carry an environment.
AllowedTables == {"span", "log", "point"}
apply_env_scopes(tables, S) == S = {} \/ tables \subseteq {"span"}
ask(S, tables) ==
    IF tables \subseteq AllowedTables /\ apply_env_scopes(tables, S)
      THEN {r \in UNION {Table(k) : k \in tables} : env_scope_where(r.env, S)}
      ELSE {}
-----------------------------------------------------------------------------
(* Rows and runs arrive.                                                    *)

Arrive(r) == raRows' = raRows \cup {r} /\ UNCHANGED <<raRun, raGen, raArt, raTaken>>

\* A run's row and its request context are one transaction; an approval
\* request and a campaign's parameters repeat the environment.
EnqueueRun(u, env, kind) ==
    /\ ~raRun[u].known
    /\ raRun' = [raRun EXCEPT ![u] =
                   [NoRun EXCEPT !.known = TRUE, !.asked = env,
                                 !.approval = IF kind = "gated" THEN env ELSE RaNull,
                                 !.context = IF kind # "legacy" THEN env ELSE RaNull,
                                 !.gameday = IF kind = "gameday" THEN env ELSE RaNull]]
    /\ UNCHANGED <<raRows, raGen, raArt, raTaken>>

\* The experiment's id, which a client's telemetry may also carry.
LinkExperiment(u, x) ==
    /\ raRun[u].known /\ raRun[u].exp = RaNull
    /\ raRun' = [raRun EXCEPT ![u].exp = x]
    /\ UNCHANGED <<raRows, raGen, raArt, raTaken>>

ReadNext ==
    \/ \E r \in RaRows \ raRows : Arrive(r)
    \/ \E u \in RaRuns, env \in RaEnvs, kind \in {"plain", "gated", "gameday"} :
         EnqueueRun(u, env, kind)
    \/ \E u \in RaRuns : EnqueueRun(u, RaNull, "legacy")
    \/ \E u \in RaRuns, r \in RaRows : r.exp # RaNull /\ LinkExperiment(u, r.exp)
-----------------------------------------------------------------------------
(* Report artifacts.  meta is <<>> without a metadata file, and <<c>> with  *)
(* one: c is the coverage, {} for an unscoped generation ("null").          *)

artifact_visible_Overlap(S, meta) ==
    S = {} \/ (meta # <<>> /\ meta[1] # {} /\ meta[1] \cap S # {})

artifact_visible(S, meta) ==
    S = {} \/ (meta # <<>> /\ meta[1] # {} /\ meta[1] \subseteq S)

list_reports(S) ==
    {n \in RaNames : raArt[n].html # <<>> /\ artifact_visible(S, raArt[n].meta)}
list_reports_v2(S) ==
    {n \in RaGenerations : raArt[n].meta # <<>> /\ artifact_visible(S, raArt[n].meta)}

\* The body an artifact's html or pdf endpoint answers with; <<>> is 404.
get_report(S, n) == IF artifact_visible(S, raArt[n].meta) THEN raArt[n].html ELSE <<>>
get_report_v2_pdf(S, n) == IF artifact_visible(S, raArt[n].meta) THEN raArt[n].pdf ELSE <<>>

\* Both kinds of generation validate, read the store under the principal's
\* scopes, and then write: a digest its sidecar and its html, a report its
\* pdf, its html and, last, its metadata.
build_report_scoped(S) == timeseries(S, "span") \cup timeseries(S, "point")

generate_report(g, S, n) ==
    /\ raGen[g].pc = 0
    /\ raGen' = [raGen EXCEPT ![g] = [pc |-> 1, kind |-> "v1", scopes |-> S, name |-> n,
                                      body |-> build_report_scoped(S)]]
    /\ raTaken' = [raTaken EXCEPT ![n] = @ + 1]
    /\ UNCHANGED <<raRows, raRun, raArt>>

generate_report_v2(g, S, x) ==
    /\ raGen[g].pc = 0 /\ experiment_detail(S, x) # {}
    /\ raGen' = [raGen EXCEPT ![g] = [pc |-> 1, kind |-> "v2", scopes |-> S, name |-> g,
                                      body |-> experiment_detail(S, x)]]
    /\ raTaken' = [raTaken EXCEPT ![g] = @ + 1]
    /\ UNCHANGED <<raRows, raRun, raArt>>

Files_MetaFirst(kind) == IF kind = "v1" THEN <<"meta", "html">> ELSE <<"meta", "pdf", "html">>

Files(kind) == IF kind = "v1" THEN <<"meta", "html">> ELSE <<"pdf", "html", "meta">>

\* The next file of a generation.
WriteArtifact(g) ==
    LET gen == raGen[g]
        file == Files(gen.kind)[gen.pc]
        content == IF file = "meta" THEN gen.scopes ELSE gen.body
    IN  /\ gen.pc \in DOMAIN Files(gen.kind)
        /\ raArt' = [raArt EXCEPT ![gen.name][file] = <<content>>]
        /\ raGen' = [raGen EXCEPT ![g].pc = @ + 1]
        /\ UNCHANGED <<raRows, raRun, raTaken>>

\* The scheduler's digest is unscoped and has no sidecar.
write_digest(n) ==
    /\ raTaken[n] = 0
    /\ raTaken' = [raTaken EXCEPT ![n] = 1]
    /\ raArt' = [raArt EXCEPT ![n].html = <<Spans \cup Points>>]
    /\ UNCHANGED <<raRows, raRun, raGen>>

\* A write fails, or the process dies between two files.
GenerationDies(g) ==
    /\ raGen[g].pc \in DOMAIN Files(raGen[g].kind)
    /\ raGen' = [raGen EXCEPT ![g].pc = RaDead]
    /\ UNCHANGED <<raRows, raRun, raArt, raTaken>>

ReportNext ==
    \/ \E g \in RaGenerations, S \in SUBSET RaEnvs :
         \/ \E n \in RaNames : generate_report(g, S, n)
         \/ \E r \in RaRows : r.root /\ generate_report_v2(g, S, r.exp)
    \/ \E g \in RaGenerations : WriteArtifact(g)
    \/ \E g \in RaGenerations : GenerationDies(g)
    \/ \E n \in RaNames : write_digest(n)
-----------------------------------------------------------------------------
(* Properties *)

\* The rows that have a link to one of the environments.
LinkedTo(S) ==
    LET near == {s \in Spans : s.env \in S}
    IN  {r \in raRows :
           \/ r.env \in S
           \/ \E s \in near : Same(s.trace, r.trace) \/ Same(s.exp, r.exp)
           \/ r.kind = "point" /\ \E s \in near : Same(s.name, r.name)}

Shown(S) ==
    experiments(S, raRows, {"automated", "manual"}) \cup experiment_windows(S)
    \cup dimensions(S) \cup logs(S, raRows) \cup load_catalog(S) \cup trace_durations(S)
    \cup overview(S) \cup timeseries(S, "span") \cup timeseries(S, "point")
    \cup (UNION {experiment_detail(S, r.exp) \cup trace_detail(S, r.trace)
                   \cup metrics_query(S, r.name) : r \in raRows})
    \cup (UNION {ask(S, tables) : tables \in SUBSET {"span", "log", "point", "users"}})

(* Reads fail closed, whatever has arrived so far and in whatever order: a
   scoped principal sees no row without a link to one of its environments
   (sql_util.rs), a detail answers exactly for what the lists show, and a run
   is shown by the environment it was requested for, never by what a client's
   telemetry says of it (scopes.rs). *)
ReadsScoped ==
    \A S \in (SUBSET RaEnvs) \ {{}} :
        /\ Shown(S) \subseteq LinkedTo(S)
        /\ \A r \in raRows :
             /\ (experiment_detail(S, r.exp) # {}) <=> \E s \in Roots(S) : Same(s.exp, r.exp)
             /\ (trace_detail(S, r.trace) # {}) <=> r.trace \in traces(S, raRows)
        /\ \A e \in topology_edges(S) : \E r \in LinkedTo(S) : r.svc = e[1]
        /\ \A u \in list_runs(S) \cup list_events(S)
                     \cup {v \in RaRuns : authorize_run(S, v) \/ detail(S, v) # NoRun} :
             raRun[u].asked # RaNull => raRun[u].asked \in S

(* An artifact opens only for those whose scopes cover what it was built
   from, wherever its generation stopped, and a listed report can be opened.
   Digests that took one name in the same second are left out: they
   overwrite each other's files. *)
ArtifactsScoped ==
    \A S \in SUBSET RaEnvs :
        /\ \A n \in RaNames \cup RaGenerations :
             S # {} /\ raTaken[n] <= 1 =>
               /\ get_report(S, n) = <<>> \/ get_report(S, n)[1] \subseteq LinkedTo(S)
               /\ get_report_v2_pdf(S, n) = <<>>
                    \/ get_report_v2_pdf(S, n)[1] \subseteq LinkedTo(S)
        /\ \A n \in list_reports(S) : get_report(S, n) # <<>>
        /\ \A n \in list_reports_v2(S) : get_report(S, n) # <<>> /\ get_report_v2_pdf(S, n) # <<>>
=============================================================================
