------------------------------- MODULE MCData -------------------------------
(* The tool server, the store and what is read from it on small instances,   *)
(* for TLC.  They share no state, so each behaviour runs one of them and     *)
(* leaves the rest at their initial states.                                  *)
EXTENDS McpServer, Store, Lake, ReadApi, Graph, Definitions, Sampling, Targets, Authoring, Compliance, Tui

VARIABLE part  \* the component that runs

Parts == {"mcp", "store", "lake", "backup", "reads", "reports", "graph", "refresh",
          "definition", "samples", "controls", "baseline", "cluster", "host",
          "plugins", "templates", "registry",
          "scores", "history", "browser"}

\* Two runs of one experiment in two environments, a span and a log without a
\* link, a metric of an experiment nobody ran, and a manual record.
Row(id, kind, trace, exp, name, env) ==
    [id |-> id, kind |-> kind, trace |-> trace, exp |-> exp, name |-> name, env |-> env,
     root |-> kind = "span" /\ exp # RaNull, parent |-> IF id = "s2" THEN "s1" ELSE RaNull,
     svc |-> IF id \in {"s1", "s3"} THEN "a" ELSE "b"]
MCRows ==
    {Row("s1", "span", "t1", "x1", "shop", "prod"), Row("s2", "span", "t1", RaNull, RaNull, RaNull),
     Row("s3", "span", "t2", "x2", "shop", "stage"), Row("s4", "span", "t3", RaNull, RaNull, RaNull),
     Row("l1", "log", RaNull, "x1", RaNull, RaNull), Row("l2", "log", "t2", RaNull, RaNull, RaNull),
     Row("l3", "log", RaNull, RaNull, RaNull, RaNull), Row("p1", "point", RaNull, RaNull, "shop", RaNull),
     Row("p2", "point", RaNull, RaNull, "cart", RaNull), Row("m1", "manual", RaNull, RaNull, "cart", "stage")}

\* Two experiments, four runs: a halt with one fault and with two, a failure,
\* and a run of the same time as another.
Act(n, f, svc) == [name |-> n, fault |-> f, svc |-> svc]
MCExps == [A |-> [actions |-> <<Act(1, 11, "api"), Act(2, 2, "db")>>, maps |-> {"a1"}],
           B |-> [actions |-> <<Act(3, 11, "api"), Act(4, 12, "-")>>, maps |-> {"a1", "a2"}]]
Res(n, failed) == [name |-> n, failed |-> failed]
Run(exp, ts, status, results, halt) ==
    [exp |-> exp, ts |-> ts, status |-> status, results |-> results, halt |-> halt]
MCRuns ==
    <<Run("A", 2, "halted", {Res(1, FALSE)}, TRUE),
      Run("A", 2, "completed", {Res(1, FALSE), Res(2, FALSE)}, FALSE),
      Run("B", 1, "deviated", {Res(3, FALSE), Res(4, FALSE)}, TRUE),
      Run("B", 3, "failed", {Res(3, TRUE)}, FALSE)>>
Svc(deps, attrs) == [deps |-> deps, attrs |-> attrs]
MCDocs ==
    {[api |-> Svc({"db"}, {"edge"}), db |-> Svc({}, {}), web |-> Svc({"api"}, {"owned"})],
     [api |-> Svc({}, {"owned"})], [api |-> Svc({"gone"}, {})]}
MCStrength == [a1 |-> 10, a2 |-> 4]
MCActions == <<1, 9>>
MCTraffic == <<>>

\* Three definitions: a variable and a file of the host in production, a
\* secret for a plugin's name, and a probe with an escaped placeholder.
Var(ns, key) == [t |-> "var", ns |-> ns, v |-> key]
Step(name, type, owner, function, args) ==
    [name |-> name, type |-> type, kind |-> "script", owner |-> owner, function |-> function,
     args |-> args, tol |-> "none"]
Doc(env, config, secrets, owner, args) ==
    [version |-> "v1", cap |-> 1, env |-> env, config |-> config, secrets |-> secrets,
     hypothesis |-> FALSE, probes |-> <<>>, guards |-> <<[min |-> 1, tol |-> "regex"]>>,
     method |-> <<Step("hit", "action", owner, "hit", args)>>,
     rollbacks |-> <<Step("undo", "action", owner, "undo", args)>>]
Plug == <<Lit("plug")>>
MCDfDocs ==
    {Doc(<<"prod", "-", "eu">>, [c |-> [from |-> "env", v |-> "E"]], [s |-> [from |-> "file", v |-> "F"]],
         Plug, <<Var("config", "c"), Var("secrets", "s")>>),
     Doc(<<"dev">>, [c |-> [from |-> "inline", v |-> "plain"]], [s |-> [from |-> "env", v |-> "E"]],
         <<Var("secrets", "s")>>, <<Var("vars", "x")>>),
     [Doc(<<"stg">>, <<>>, <<>>, Plug, <<[t |-> "esc", ns |-> "vars", v |-> "x"]>>) EXCEPT
         !.method = <<Step("look", "probe", Plug, "look", <<Var("vars", "x")>>)>>, !.hypothesis = TRUE,
         !.probes = @ \o <<Step("ok", "probe", Plug, "look", <<>>)>>]}
MCDfVars == {<<>>, (<<"vars", "x">> :> "v") @@ (<<"config", "c">> :> "w")}
MCDfEnvName == [c |-> "C", s |-> "S"]
MCDfKeyRank == [c |-> 1, s |-> 2]
MCSpProbes == <<"p", "q">>
MCSpActivities == <<[background |-> TRUE], [background |-> FALSE], [background |-> TRUE]>>

\* Calls of the drivers, with arguments that are missing, malformed or out of range.
TgS(s) == [t |-> "str", s |-> s, n |-> 0]
TgN(n) == [t |-> "num", s |-> "", n |-> n]
Req(plugin, fn, args) == [plugin |-> plugin, fn |-> fn, args |-> args]
Kube(fn, args) == Req("tumult-kubernetes", fn, args)
OfName(n) == [namespace |-> TgS("shop"), name |-> TgS(n)]
Netem(args) == Kube("pod_network_latency", [namespace |-> TgS("shop")] @@ args)
MCClusterCalls ==
    {Kube("delete_pod", OfName("p1")), Kube("delete_pod", [name |-> TgS("p1")]), Kube("scale_deployment", OfName("web") @@ [replicas |-> TgN(0)]),
     Kube("scale_deployment", OfName("web") @@ [replicas |-> TgS("3")]), Kube("cordon_node", OfName("n1")), Kube("uncordon_node", OfName("n1")),
     Kube("drain_node", OfName("n1")), Kube("drain_node", OfName("n2")), Kube("pod_is_ready", OfName("p1")), Kube("node_status", OfName("n1")),
     Kube("deployment_is_ready", OfName("web")), Kube("service_has_endpoints", OfName("web")),
     Kube("count_pods_in_phase", [namespace |-> TgS("shop"), label_selector |-> TgS("app=web"), phase |-> TgS("Pending")]),
     Kube("all_pods_ready", [namespace |-> TgS("shop"), label_selector |-> TgS("app=web")]),
     Kube("apply_network_policy", [namespace |-> TgS("shop"), policy |-> TgS("deny")]), Kube("delete_network_policy", OfName("deny")),
     Netem([pod |-> TgS("p1"), delay_ms |-> TgN(100)]), Netem([label_selector |-> TgS("app=web"), delay_ms |-> TgN(100), iface |-> TgS("a;b")]),
     Netem([label_selector |-> TgS("app=web"), delay_ms |-> TgN(5)]), Netem([delay_ms |-> TgN(5)]), Kube("explode", <<>>),
     Kube("pod_stress", [namespace |-> TgS("shop"), pod |-> TgS("p1"), cpu_workers |-> TgN(1)]),
     Kube("pod_stress", [namespace |-> TgS("shop"), pod |-> TgS("p1"), cpu_workers |-> TgN(1), mem_bytes |-> TgN(1)])}
Cloud(fn, args) == Req("tumult-cloud", fn, args)
Az == [subscription |-> TgS("s"), resource_group |-> TgS("g"), experiment_id |-> TgS("e")]
Win(fn, args) == Req("tumult-windows", fn, args)
MCHostCalls ==
    {Cloud("aws_fis_start_experiment", [experiment_template_id |-> TgS("t"), region |-> TgS("eu")]),
     Cloud("aws_fis_start_experiment", [experiment_template_id |-> TgS("t")]), Cloud("aws_fis_stop_experiment", [experiment_id |-> TgS("e"), region |-> TgS("eu")]),
     Cloud("aws_ec2_stop_instance", [instance_id |-> TgS("i"), region |-> TgS("eu")]), Cloud("azure_chaos_start", Az), Cloud("azure_chaos_cancel", Az),
     Cloud("aws_fis_experiment_status", [experiment_id |-> TgS("e"), region |-> TgS("eu")]), Cloud("azure_chaos_status", Az),
     Cloud("aws_ec2_terminate_instance", [instance_id |-> TgS("i"), region |-> TgS("eu")]),
     Cloud("gcp_compute_stop_instance", [project |-> TgS("p"), zone |-> TgS("z"), instance |-> TgS("i")]),
     Win("network_blackhole", [port |-> TgN(443)]), Win("network_blackhole", [remote_host |-> TgS("h")]), Win("network_blackhole", [port |-> TgN(443), remote_host |-> TgS("h")]),
     Win("network_blackhole", [port |-> TgN(70000), remote_host |-> TgS("h")]),
     Req("winfault", "network_blackhole_rollback", [rule_name |-> TgS("r")]),
     Win("process_kill", [image |-> TgS("a.exe")]), Win("process_kill", <<>>), Win("cpu_stress", [workers |-> TgN(99)]), Win("cpu_stress", [workers |-> TgN(0)]),
     Req("gone", "x", <<>>)}
MCPlugins == ("tumult-kubernetes" :> {"delete_pod", "scale_deployment", "cordon_node", "uncordon_node", "drain_node", "apply_network_policy",
       "delete_network_policy", "pod_network_latency", "pod_stress"} \cup (TgProbes \ Clouds))
    @@ ("tumult-cloud" :> Clouds) @@ ("tumult-windows" :> {"process_kill", "cpu_stress", "network_blackhole"})
    @@ ("winfault" :> {"network_blackhole_rollback"})
MCPods == [p1 |-> [home |-> "n1", ds |-> FALSE, guarded |-> FALSE], p2 |-> [home |-> "n1", ds |-> TRUE, guarded |-> FALSE], p3 |-> [home |-> "n2", ds |-> FALSE, guarded |-> TRUE]]
KService(ns, r, name, q) == [ns |-> ns, nsRank |-> r, name |-> name, nameRank |-> q]
MCTgServices == <<KService("shop", 3, "web", 3), KService("default", 1, "kubernetes", 2), KService("kube-system", 2, "dns", 1),
                KService("default", 1, "web", 3), KService("default", 1, "dns", 1)>>
MCLists == {<<>>, <<"shop", "default", "shop">>, <<"kube-system", "default">>}
TgRequests(first, second, last) == [c \in TgCalls |-> <<first, second, last>>[c]]
MCSecondCalls == {r \in MCClusterCalls : r.fn \in {"delete_pod", "uncordon_node", "drain_node", "pod_network_latency",
                                                  "all_pods_ready", "delete_network_policy"}}

\* Plugins of one name in two places, one with a manifest nobody can read and one
\* with the name of a native plugin; inputs for all of them.
Plugin(name, actions, probes) == [st |-> "plugin", name |-> name, actions |-> actions, probes |-> probes]
MCEntries == {Plugin("tumult-network", {"add-latency", "reset-tc", "ping"}, {"ping"}), Plugin("tumult-network", {"add-latency"}, {"ping"}),
   Plugin("tumult-ssh", {"run"}, {}), [Plugin("tumult-network", {}, {}) EXCEPT !.st = "bad"],
   Plugin("tumult-containers", {"stop-container"}, {"status"})}
NetPlugin == CHOOSE e \in MCEntries : "reset-tc" \in e.actions
MCInstalled == {<<p, q>> : p \in {<<>>} \cup {<<e>> : e \in MCEntries}, q \in {<<>>, <<NetPlugin>>}}
MCNative == [p \in NATIVE_PLUGINS |-> IF p = "tumult-ssh" THEN {"execute"} ELSE {"f"}]
In(p, a, args, e) == [plugin |-> p, action |-> a, args |-> args, expect |-> e]
MCInputs == {In("tumult-network", "add-latency", {[base |-> "config_c", upper |-> FALSE]}, "."), In("tumult-network", "ping", {[base |-> "config_c", upper |-> TRUE]}, "."),
  In("tumult-network", "add-latency", {}, "["), In("tumult-ssh", "run", {}, "."), In("tumult-containers", "stop-container", {}, ".")}
Opt(k, v, f) == [key |-> k, value |-> v, formed |-> f]
MCSets == {<<>>, <<Opt("delay", "1", TRUE), Opt("delay", "2", TRUE)>>, <<Opt("dealy", "1", TRUE)>>, <<Opt("target", "x", FALSE)>>}

MCCpRuns == 1 :> [name |-> <<"a">>, target |-> "t", env |-> "prod", ts |-> 1, status |-> "deviated", trace |-> 1, twice |-> TRUE]
         @@ 2 :> [name |-> <<"a">>, target |-> "t", env |-> "prod", ts |-> 2, status |-> "completed", trace |-> 1, twice |-> FALSE]
MCCpRecords == 1 :> [name |-> <<"b">>, target |-> "u", env |-> "prod", ts |-> 2, outcome |-> "partial", by |-> "ann"]
            @@ 2 :> [name |-> <<"b">>, target |-> "t", env |-> "stage", ts |-> 2, outcome |-> "passed", by |-> "bob"]
MCCpApprovals == {[env |-> "prod", at |-> 1], [env |-> "stage", at |-> 2], [env |-> "-", at |-> 3]}
MCNode(n, p) == [name |-> n, parent |-> p]
MCCritical == <<"a">> :> "critical"
MCCpOrg == [nodes |-> <<MCNode("x", "-"), MCNode("y", "x")>>,
            assignments |-> <<[team |-> "y", targets |-> {<<"a", "*">>}, criticality |-> MCCritical],
                              [team |-> "x", targets |-> {<<"*">>}, criticality |-> <<>>]>>]
MCOrgNames == {"x", "y", "(unassigned)"}
MCCpFiles == {[nodes |-> ns, assignments |-> IF t = "-" THEN <<>> ELSE <<[team |-> t, targets |-> {<<"*">>}, criticality |-> <<>>]>>] :
                 ns \in UNION {[1 .. n -> [name : MCOrgNames, parent : {"-", "x", "y"}]] : n \in 0 .. 3}, t \in {"-", "x"}}
MCLetters(n) == UNION {[1 .. k -> {"a", "b"}] : k \in 0 .. n}
MCPatterns == UNION {[1 .. k -> {"a", "b", "*"}] : k \in 1 .. 4}
MCJournalKinds == {[ok |-> TRUE, mttr |-> 30, score |-> -1], [ok |-> TRUE, mttr |-> -1, score |-> 95],
            [ok |-> FALSE, mttr |-> 31, score |-> -1], [ok |-> TRUE, mttr |-> -1, score |-> -1],
            [ok |-> FALSE, mttr |-> -1, score |-> 40]}
MCFolders == [MCJournalKinds -> 0 .. 4]
MCSeries == UNION {[1 .. n -> {0, 20, 21, 40}] : n \in 0 .. 4}
MCJournals == UNION {[1 .. n -> [at : {0, 1}, title : {"x", "y"}, value : {-1, 2}]] : n \in 0 .. 2}
MCDays == (0 .. 800) \cup (10957 .. 11100) \cup (47480 .. 47600)
CalendarHold == CalendarSound(MCDays, {0, 11016})
VerdictsHold == VerdictMonotone(MCFolders)
TrendsHold == TrendSound(MCSeries, MCJournals)
GlobsHold == GlobSound(MCPatterns, MCLetters(4))
OrgsHold == OrgSound(MCCpFiles)

\* Rows that every key orders in another way; a graph whose articles change.
ScreenRow(ns, ms, status, score, title) ==
    [started_at_ns |-> ns, duration_ms |-> ms, status |-> status, resilience |-> score, title |-> title]
MCTuRow == <<ScreenRow(1, 5, "completed", -1, <<"a">>), ScreenRow(2, 4, "failed", 1, <<"b">>),
             ScreenRow(3, 5, "completed", 1, <<"a", "b">>)>>
MCTuGraph(articles) ==
    [k \in ToSet(GRAPH_KINDS) |-> CASE k = "experiment" -> <<"e1", "e2">>
                                    [] k = "compliance_article" -> articles
                                    [] k = "fault" -> <<"f">>
                                    [] OTHER -> <<>>]
MCTuGraphs == <<MCTuGraph(<<"a1">>), MCTuGraph(<<"a2", "a1">>)>>

\* One initial state of the components that have several.
Rests(name) == part # name
Init ==
    /\ part \in Parts
    /\ McInit /\ (Rests("mcp") => mcMode = "open")
    /\ StInit /\ (Rests("store") => stFirst = 0)
    /\ LakeInit
    /\ GrInit
    /\ DfInit /\ (Rests("definition") => dfPolicy = [bound |-> FALSE, owner |-> "nobody"])
    /\ TgInit
    /\ AuInit /\ (Rests("plugins") => auDirs = <<<<>>, <<>>>>)
    /\ CpInitWith({<<1, 1>>}, {<<1, 1>>})
    /\ SampleInit /\ (Rests("samples") => spUp = {}) /\ ControlInit /\ BaselineInit
    /\ TuInit
    /\ IF part = "reports" THEN RaInitWith(RaRows) ELSE RaInit

\* The step of a component, with every other one at rest.
Others(name) ==
    /\ part = name
    /\ name # "mcp" => UNCHANGED mcVars
    /\ name # "store" => UNCHANGED stVars
    /\ name \notin {"lake", "backup"} => UNCHANGED lkVars
    /\ name \notin {"reads", "reports"} => UNCHANGED raVars
    /\ name \notin {"graph", "refresh"} => UNCHANGED grVars
    /\ name # "definition" => UNCHANGED dfVars
    /\ name # "samples" => UNCHANGED spVars
    /\ name # "controls" => UNCHANGED ctVars
    /\ name # "baseline" => UNCHANGED blVars
    /\ name \notin {"cluster", "host"} => UNCHANGED tgVars
    /\ name \notin {"plugins", "templates", "registry"} => UNCHANGED auVars
    /\ name # "scores" => UNCHANGED cpVars
    /\ name \notin {"history", "browser"} => UNCHANGED tuVars

Next ==
    /\ UNCHANGED part
    /\ \/ Others("mcp") /\ McNext
       \/ Others("store") /\ StNext
       \/ Others("lake") /\ LakeNext
       \/ Others("backup") /\ BackupNext
       \/ Others("reads") /\ ReadNext
       \/ Others("reports") /\ ReportNext
       \/ Others("graph") /\ MappingNext
       \/ Others("refresh") /\ RefreshNext({1})
       \/ Others("definition") /\ DfNext
       \/ Others("samples") /\ SampleNext
       \/ Others("controls") /\ ControlNext
       \/ Others("baseline") /\ BaselineNext
       \/ Others("cluster") /\ TargetsNext(TgRequests(MCClusterCalls, MCSecondCalls, {}), MCLists)
       \/ Others("host") /\ TargetsNext(TgRequests(MCHostCalls, MCHostCalls, {r \in MCHostCalls : r.plugin = "winfault"}), {})
       \/ Others("plugins") /\ PluginsNext
       \/ Others("templates") /\ TemplatesNext
       \/ Others("registry") /\ RegistryNext
       \/ Others("scores") /\ ScoresNext
       \/ Others("history") /\ HistoryNext
       \/ Others("browser") /\ BrowserNext

vars == <<part, mcVars, stVars, lkVars, raVars, grVars, dfVars, spVars, ctVars, blVars, tgVars, auVars, cpVars, tuVars>>

Spec == Init /\ [][Next]_vars
-----------------------------------------------------------------------------
(* Properties *)

(* The store and its exports survive crashes (StoreSound, SnapshotIsOneState). *)
StorageSound ==
    /\ part = "store" => StoreSound
    /\ part \in {"lake", "backup"} => SnapshotIsOneState

(* Tools and read handlers show nobody more than the credentials allow
   (McSound, ReadsScoped, ArtifactsScoped). *)
DisclosureSound ==
    /\ part = "mcp" => McSound
    /\ part = "reads" => ReadsScoped
    /\ part = "reports" => ArtifactsScoped

(* The graph is what its runs, its topology and its catalog make it. *)
KnowledgeSound == part \in {"graph", "refresh"} => GraphSound

(* What runs is what was authored and approved, and every control is told. *)
ExecutionSound ==
    /\ part = "definition" => DefinitionsSound
    /\ part = "controls" => ControlsToldAll
    /\ part \in {"plugins", "templates", "registry"} => AuthoringSound

(* What is measured is what was seen, and the scores and the documents made of
   it say what the evidence supports: the calendar, the verdicts, the trends
   and the assignments they rest on are right, and a document built from
   several queries agrees with itself while telemetry and reviews arrive; and
   one screen of the terminal shows one experiment, one order and one node. *)
EvidenceSound ==
    /\ part = "samples" => SamplesSound
    /\ part = "baseline" => BaselineSound
    /\ part \in {"history", "browser"} => ScreensSound
    /\ part = "scores" => /\ CalendarHold /\ VerdictsHold /\ TrendsHold /\ GlobsHold /\ OrgsHold
                          /\ ScoresSound /\ DocumentsSound
=============================================================================
