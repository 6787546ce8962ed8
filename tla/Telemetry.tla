----------------------------- MODULE Telemetry ------------------------------
(***************************************************************************)
(* The OTLP receivers (tumult-ingest/src/http.rs, grpc.rs), the conversion  *)
(* of an export to rows (tumult-otlp) and the transactions of its batch     *)
(* (tumult-lake/src/writer.rs).  An exporter that gets an error, or no      *)
(* answer, sends its export again.  The channel itself is in Daemon.        *)
(***************************************************************************)
EXTENDS Naturals, Sequences, FiniteSets

CONSTANTS
    TmExporters,    \* clients, with one export each
    TmTries,        \* bound: times an export is sent
    TmMaxFaults,    \* bound: failed inserts and crashes
    TmMaxInt        \* i64::MAX

ASSUME TmAssumption == TmTries \in Nat \ {0} /\ TmMaxFaults \in Nat /\ TmMaxInt \in Nat \ {0}

-----------------------------------------------------------------------------
(* Attributes: a function of the keys that matter.  A value says where it    *)
(* comes from, so that a row shows what became of it.                       *)

Absent == <<>>
Interned == <<"interned">>      \* refers to a string table that is not kept
Truth == <<"bool", "true">>
Seconds == <<"double", "4.2">>

any_value_to_string(v) == IF v = Interned THEN <<"">> ELSE v
attr_string(attrs, k) == IF attrs[k] = Absent THEN Absent ELSE any_value_to_string(attrs[k])
attr_bool(attrs, k) == IF attrs[k] = Truth THEN Truth ELSE Absent
attr_double(attrs, k) == IF attrs[k] = Seconds THEN Seconds ELSE Absent
or_else(a, b) == IF a # Absent THEN a ELSE b

unpromoted_attrs(attrs, promoted) ==
    [k \in {k \in DOMAIN attrs \ promoted : attrs[k] # Absent} |-> any_value_to_string(attrs[k])]

\* The resource of a group of spans, logs or metrics.
from_resource(attrs) ==
    [service |-> attr_string(attrs, "service"), id |-> attr_string(attrs, "id"),
     name |-> or_else(attr_string(attrs, "name"), attr_string(attrs, "title")),
     attrs |-> unpromoted_attrs(attrs, {"service", "id", "name", "title"})]

saturated(n) == IF n > TmMaxInt THEN TmMaxInt ELSE n

PROMOTED_SPAN_KEYS == {"id", "name", "title", "status", "met", "recovery", "plugin", "alias"}

\* Mutant: the resource names the experiment before the span does.
span_to_row_Resource(span, resource) ==
    [id |-> or_else(resource.id, attr_string(span, "id")),
     name |-> or_else(resource.name, or_else(attr_string(span, "name"), attr_string(span, "title"))),
     status |-> attr_string(span, "status"), met |-> attr_bool(span, "met"),
     recovery |-> attr_double(span, "recovery"),
     plugin |-> or_else(attr_string(span, "plugin"), attr_string(span, "alias")),
     service |-> resource.service,
     span_attrs |-> unpromoted_attrs(span, PROMOTED_SPAN_KEYS), resource_attrs |-> resource.attrs]

\* `title` and `alias` are the names that tumult's own runner and instruments
\* use; the other text columns are as `status`.
span_to_row(span, resource) ==
    [id |-> or_else(attr_string(span, "id"), resource.id),
     name |-> or_else(or_else(attr_string(span, "name"), attr_string(span, "title")), resource.name),
     status |-> attr_string(span, "status"), met |-> attr_bool(span, "met"),
     recovery |-> attr_double(span, "recovery"),
     plugin |-> or_else(attr_string(span, "plugin"), attr_string(span, "alias")),
     service |-> resource.service,
     span_attrs |-> unpromoted_attrs(span, PROMOTED_SPAN_KEYS), resource_attrs |-> resource.attrs]

span_times(start, end) ==
    [ts |-> saturated(start), duration |-> saturated(IF end > start THEN end - start ELSE 0)]

\* Mutant: the time of observation is not looked at.
log_ts_NoObserved(time, observed, received) == saturated(time)

log_ts(time, observed, received) ==
    CASE time # 0 -> saturated(time)
      [] time = 0 /\ observed # 0 -> saturated(observed)
      [] OTHER -> received

\* The points of a metric by the kind of its data.  Exponential histograms and
\* summaries are counted and reported; a metric without data is skipped.
Stored == {"sums", "gauges", "histograms"}
metrics_request_to_rows(points) ==
    [rows |-> [t \in Stored |-> points[t]], rejected |-> points["exponential"] + points["summaries"]]

-----------------------------------------------------------------------------
VARIABLES
    tmServer,       \* "down", "serving" or "refused"
    tmToken,        \* KRONIKA_INGEST_TOKEN is set
    tmLoopback,     \* the listeners that bind a loopback address
    tmExport,       \* the exports and the request each is in
    tmQueue,        \* batches at the writer: the exporter and its try
    tmDone,         \* tables of the first batch that are committed
    tmRows,         \* rows stored, per exporter and table
    tmFaults

tmVars == <<tmServer, tmToken, tmLoopback, tmExport, tmQueue, tmDone, tmRows, tmFaults>>
tmConfig == <<tmServer, tmToken, tmLoopback>>

TmPorts == {"grpc", "http"}
TmPoints(c) == [t \in Stored \cup {"exponential", "summaries"} |->
                 IF t = "summaries" THEN 0 ELSE IF t \in c THEN 1 ELSE 0]
TmMetrics == {TmPoints(c) : c \in {{"sums", "gauges"}, {"gauges", "histograms", "exponential"}}}

\* apply(): the tables of a batch, in their order, a transaction each.
Tables(kind) == IF kind = "metrics" THEN <<"sums", "gauges", "histograms">> ELSE <<kind>>
TmTables == {"spans", "logs"} \cup Stored
RowsFor(x, t) ==
    IF t \in {"spans", "logs"} THEN 1 ELSE metrics_request_to_rows(tmExport[x].points).rows[t]
Rejected(x) ==
    IF tmExport[x].kind = "metrics" THEN metrics_request_to_rows(tmExport[x].points).rejected ELSE 0

TmInit ==
    /\ tmServer = "down" /\ tmToken \in BOOLEAN /\ tmLoopback \in SUBSET TmPorts
    /\ tmExport \in [TmExporters ->
         {[kind |-> kind, points |-> points, pc |-> "idle", port |-> port, remote |-> remote,
           bearer |-> FALSE, try |-> 0, admitted |-> 0, told |-> "none"] :
              kind \in {"spans", "logs", "metrics"}, points \in TmMetrics, port \in TmPorts,
              remote \in BOOLEAN}]
    /\ \A x \in TmExporters : tmExport[x].kind # "metrics" => tmExport[x].points = TmPoints({"sums", "gauges"})
    /\ tmQueue = <<>> /\ tmDone = 0 /\ tmRows = [x \in TmExporters |-> [t \in TmTables |-> 0]]
    /\ tmFaults = 0

\* Mutant: only the first listener is looked at.
ensure_ingest_auth_Grpc == tmToken \/ "grpc" \in tmLoopback

ensure_ingest_auth == tmToken \/ TmPorts \subseteq tmLoopback

TmServe ==
    /\ tmServer = "down" /\ tmServer' = IF ensure_ingest_auth THEN "serving" ELSE "refused"
    /\ UNCHANGED <<tmToken, tmLoopback, tmExport, tmQueue, tmDone, tmRows, tmFaults>>

TmTell(x, told) == tmExport' = [tmExport EXCEPT ![x].pc = "idle", ![x].told = told]

\* An exporter sends what it was not told to be stored, or refused for good.
TmPost(x, bearer) ==
    /\ tmServer = "serving" /\ tmExport[x].pc = "idle" /\ tmExport[x].try < TmTries
    /\ tmExport[x].told \in {"none", "unauthorized", "error", "lost"}
    /\ tmExport[x].remote => tmExport[x].port \notin tmLoopback
    /\ tmExport' = [tmExport EXCEPT ![x].pc = "arrived", ![x].try = @ + 1, ![x].bearer = bearer]
    /\ UNCHANGED <<tmConfig, tmQueue, tmDone, tmRows, tmFaults>>

\* require_bearer of the HTTP routes, authorize of the gRPC methods.
Authorized(x) == tmToken => tmExport[x].bearer

require_bearer(x) ==
    /\ tmExport[x].pc = "arrived"
    /\ IF Authorized(x)
         THEN tmExport' = [tmExport EXCEPT ![x].pc = "decode", ![x].admitted = @ + 1]
         ELSE TmTell(x, "unauthorized")
    /\ UNCHANGED <<tmConfig, tmQueue, tmDone, tmRows, tmFaults>>

\* A body that is no export is a client error; the others are converted and
\* handed to the writer.
decode(x, ok) ==
    /\ tmExport[x].pc = "decode"
    /\ IF ok THEN /\ tmExport' = [tmExport EXCEPT ![x].pc = "queued"]
                  /\ tmQueue' = Append(tmQueue, [of |-> x, try |-> tmExport[x].try])
             ELSE TmTell(x, "bad") /\ UNCHANGED tmQueue
    /\ UNCHANGED <<tmConfig, tmDone, tmRows, tmFaults>>

Waits(b) == tmExport[b.of].pc = "queued" /\ tmExport[b.of].try = b.try

\* Mutant: a batch is acknowledged with its first table.
Complete_First(x, done) == done >= 1

Complete(x, done) == done = Len(Tables(tmExport[x].kind))

\* The next table of the first batch commits; with the last one the caller, if
\* it still waits, has its acknowledgement.
apply ==
    /\ tmQueue # <<>>
    /\ LET b == Head(tmQueue)
           t == Tables(tmExport[b.of].kind)[tmDone + 1]
       IN  /\ tmRows' = [tmRows EXCEPT ![b.of][t] = @ + RowsFor(b.of, t)]
           /\ IF Complete(b.of, tmDone + 1)
                THEN /\ tmQueue' = Tail(tmQueue) /\ tmDone' = 0
                     /\ tmExport' = IF Waits(b) THEN [tmExport EXCEPT ![b.of].pc = "acked"] ELSE tmExport
                ELSE tmDone' = tmDone + 1 /\ UNCHANGED <<tmQueue, tmExport>>
    /\ UNCHANGED <<tmConfig, tmFaults>>

\* A transaction fails and is rolled back: the tables before it stay, those
\* after it are not tried, and the caller is told.
apply_fails ==
    /\ tmQueue # <<>> /\ tmFaults < TmMaxFaults /\ tmFaults' = tmFaults + 1
    /\ tmQueue' = Tail(tmQueue) /\ tmDone' = 0
    /\ IF Waits(Head(tmQueue)) THEN TmTell(Head(tmQueue).of, "error") ELSE UNCHANGED tmExport
    /\ UNCHANGED <<tmConfig, tmRows>>

\* Mutant: what was rejected is not reported.
metrics_response_Full(rejected) == "ok"

metrics_response(rejected) == IF rejected > 0 THEN "partial" ELSE "ok"

TmAnswer(x) ==
    /\ tmExport[x].pc = "acked"
    /\ TmTell(x, IF tmExport[x].kind = "metrics" THEN metrics_response(Rejected(x)) ELSE "ok")
    /\ UNCHANGED <<tmConfig, tmQueue, tmDone, tmRows, tmFaults>>

\* The exporter gives up waiting; a batch that is queued stays there.
TmTimeout(x) ==
    /\ tmExport[x].pc \in {"queued", "acked"} /\ TmTell(x, "lost")
    /\ UNCHANGED <<tmConfig, tmQueue, tmDone, tmRows, tmFaults>>

\* The daemon dies and is started again.
TmCrash ==
    /\ tmServer = "serving" /\ tmFaults < TmMaxFaults /\ tmFaults' = tmFaults + 1
    /\ tmQueue' = <<>> /\ tmDone' = 0
    /\ tmExport' = [x \in TmExporters |->
         IF tmExport[x].pc = "idle" THEN tmExport[x]
         ELSE [tmExport[x] EXCEPT !.pc = "idle", !.told = "lost"]]
    /\ UNCHANGED <<tmConfig, tmRows>>

TmNext ==
    \/ TmServe \/ apply \/ apply_fails \/ TmCrash
    \/ \E x \in TmExporters :
         \/ require_bearer(x) \/ TmAnswer(x) \/ TmTimeout(x)
         \/ \E b \in BOOLEAN : TmPost(x, b) \/ decode(x, b)

TmSpec == TmInit /\ [][TmNext]_tmVars

-----------------------------------------------------------------------------
(* Every span and resource, with each key there or not. *)
From(o, k) == {Absent, <<o, k>>}
TmSpans ==
    {[id |-> id, name |-> name, title |-> title, status |-> status, met |-> met,
      recovery |-> recovery, plugin |-> plugin, alias |-> alias, other |-> other] :
        id \in From("span", "id"), name \in From("span", "name") \cup {Interned},
        title \in From("span", "title"), status \in From("span", "status"),
        met \in From("span", "met") \cup {Truth}, recovery \in From("span", "recovery") \cup {Seconds},
        plugin \in From("span", "plugin"), alias \in From("span", "alias"), other \in From("span", "other") \cup {Interned}}
TmResources ==
    {[service |-> service, id |-> id, name |-> name, title |-> title, other |-> other] :
        service \in From("resource", "service"), id \in From("resource", "id"),
        name \in From("resource", "name"), title \in From("resource", "title"),
        other \in From("resource", "other")}

Values(f) == {f[k] : k \in DOMAIN f}

RowHolds(s, r) ==
    LET row == span_to_row(s, from_resource(r))
        columns == {row.id, row.name, row.status, row.met, row.recovery, row.plugin, row.service}
        kept == columns \cup Values(row.span_attrs) \cup Values(row.resource_attrs)
    IN  /\ kept \ {<<"">>} \subseteq Values(s) \cup Values(r) \cup {Absent}
        /\ \A k \in DOMAIN s :
             \/ any_value_to_string(s[k]) \in kept \cup {Absent}
             \/ k = "title" /\ s["name"] # Absent
             \/ k = "alias" /\ s["plugin"] # Absent
             \/ k = "met" /\ s[k] # Truth
             \/ k = "recovery" /\ s[k] # Seconds
        /\ row.id \in Values(r) \ {Absent} => s["id"] = Absent
        /\ row.name \in Values(r) \ {Absent} => s["name"] = Absent /\ s["title"] = Absent
        /\ row.id = Absent => r["id"] = Absent

ConversionsHold ==
    /\ \A s \in TmSpans, r \in TmResources : RowHolds(s, r)
    /\ \A a, b \in 0 .. TmMaxInt + 2 :
         LET times == span_times(a, b) IN
         /\ times.ts \in 0 .. TmMaxInt /\ times.duration \in 0 .. TmMaxInt
         /\ a <= TmMaxInt => times.ts = a
         /\ \A received \in 1 .. TmMaxInt : log_ts(a, b, received) \in 1 .. TmMaxInt

AnswersHold ==
    \A x \in TmExporters :
      LET e == tmExport[x] IN
      /\ e.told \in {"ok", "partial"} =>
           /\ \A i \in DOMAIN Tables(e.kind) :
                /\ tmRows[x][Tables(e.kind)[i]] >= RowsFor(x, Tables(e.kind)[i])
                /\ e.try = 1 => tmRows[x][Tables(e.kind)[i]] = RowsFor(x, Tables(e.kind)[i])
           /\ e.told = "partial" <=> Rejected(x) > 0
      /\ \A t \in TmTables : tmRows[x][t] > 0 => tmRows[x][t] <= e.admitted * RowsFor(x, t)
      /\ e.remote /\ ~tmToken => e.admitted = 0

(* An answer means what it says.  An export that was told "ok", or a partial
   success, is stored in every table it has rows for, once if it was sent once,
   and what the store does not take was reported; none is stored more often
   than it was admitted, although batches fail between two of their tables, the
   daemon dies and exporters that gave up send again while their first batch is
   still queued; and nobody beyond the host is admitted without a token.  A row
   has nothing that its span and resource do not have and drops nothing but a
   name that the standard's own shadows and a verdict that is no boolean; the
   span's own experiment wins over the resource's; and times stay in range,
   with no log at the epoch. *)
TelemetrySound == AnswersHold /\ ConversionsHold
=============================================================================
