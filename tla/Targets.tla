------------------------------- MODULE Targets -------------------------------
(* The drivers of Kubernetes, the clouds and Windows: dispatch of a native    *)
(* function, its arguments and credentials, the requests it sends, and what   *)
(* becomes of the target while several activities and the target itself are   *)
(* at work.  An argument is [t, s, n]: a string s, or a number n.             *)
EXTENDS Integers, Sequences, FiniteSets, FiniteSetsExt, SequencesExt, Functions

CONSTANTS
    TgCalls,     \* the activities
    TgPlugins,   \* registered plugins: plugin -> its functions
    TgNodes,     \* nodes of the cluster
    TgPods,      \* pod -> [home, ds, guarded]: where it starts, of a DaemonSet, at its budget
    TgSuffixes,  \* the suffixes the clock can give an ephemeral container
    TgCredentials, \* the credential variables that are set
    TgServices   \* the Services of the cluster: [ns, name, nsRank, nameRank], in list order

TgNone == "-"

\* "-" is no name of a node, and a pod starts on one.
ASSUME TargetsAssumption ==
    /\ TgNone \notin TgNodes
    /\ \A p \in DOMAIN TgPods : TgPods[p].home \in TgNodes
    /\ TgServices \in Seq(Range(TgServices))

VARIABLES
    tgCall,     \* call -> [pc, fn, args, result, todo, failed, sent]
    tgCordoned, \* nodes that are unschedulable
    tgAt,       \* pod -> its node, TgNone while it waits to be scheduled
    tgReady,    \* the pods whose Ready condition is true
    tgGoing,    \* the pods the API has accepted to delete or to evict
    tgReplicas, \* the deployment's replicas
    tgPolicies, \* the network policies
    tgBoxes,    \* ephemeral containers, a set of [pod, name, kind, st]
    tgQdisc,    \* pods whose egress is delayed
    tgCloud,    \* experiments and instances of the clouds: name -> state
    tgRules,    \* firewall rules of the Windows host: a set of [name, match, by]
    tgDrained,  \* nodes drained without a failure, and not uncordoned since
    tgProposal  \* the proposed topology

tgVars == <<tgCall, tgCordoned, tgAt, tgReady, tgGoing, tgReplicas, tgPolicies, tgBoxes, tgQdisc, tgCloud,
            tgRules, tgDrained, tgProposal>>
clusterVars == <<tgCordoned, tgAt, tgReady, tgGoing, tgReplicas, tgPolicies, tgBoxes, tgQdisc, tgDrained, tgProposal>>

Pods == DOMAIN TgPods
TgIdle == [pc |-> "idle", fn |-> TgNone, args |-> <<>>, result |-> "none", todo |-> {}, failed |-> {},
           sent |-> {}, pod |-> TgNone]

TgInit ==
    /\ tgCall = [c \in TgCalls |-> TgIdle]
    /\ tgCordoned = {} /\ tgAt = [p \in Pods |-> TgPods[p].home] /\ tgReady = Pods /\ tgGoing = {}
    /\ tgReplicas = 2 /\ tgPolicies = {} /\ tgBoxes = {} /\ tgQdisc = {}
    /\ tgCloud = [x \in {"fis", "chaos", "vm"} |-> "up"]
    /\ tgRules = {} /\ tgDrained = {} /\ tgProposal = <<>>
-----------------------------------------------------------------------------
(* Arguments *)

Str(args, k) == k \in DOMAIN args /\ args[k].t = "str"
arg_str(args, k) == IF Str(args, k) THEN args[k].s ELSE TgNone
opt_str(args, k, default) == IF Str(args, k) THEN args[k].s ELSE default

\* A number out of the type's range counts as absent.
arg_num(args, k, max) == IF k \in DOMAIN args /\ args[k].t = "num" /\ args[k].n \in 0..max
                         THEN args[k].n ELSE -1
Num(args, k, max, default) == IF arg_num(args, k, max) < 0 THEN default ELSE arg_num(args, k, max)

U16 == 65535
U32 == 2147483647  \* bound: u32 and i32 as far as TLC's integers go

Missing(args, keys) == \E k \in keys : ~Str(args, k)

\* Exactly one of cpu_workers and mem_bytes, and not zero.
stress_kind(args) ==
    LET cpu == arg_num(args, "cpu_workers", U32)
        mem == arg_num(args, "mem_bytes", U32)
    IN  IF cpu >= 0 /\ mem >= 0 THEN "both" ELSE IF cpu < 0 /\ mem < 0 THEN "neither"
        ELSE IF cpu = 0 \/ mem = 0 THEN "zero" ELSE "one"

BadName == {"", "a b", "a;b", "a'b"}
validate_iface(s) == s \notin BadName
validate_image(s) == s \notin {"", "a b", "a'b"}

\* What pod_network_latency and pod_stress refuse before the patch.
LatencyRefused(args) ==
    \/ arg_num(args, "delay_ms", U32) <= 0 \/ Num(args, "duration_s", U32, 30) = 0
    \/ ~validate_iface(opt_str(args, "iface", "eth0")) \/ ~validate_image(opt_str(args, "image", "netshoot"))
StressRefused(args) ==
    \/ Num(args, "duration_s", U32, 30) = 0 \/ ~validate_image(opt_str(args, "image", "stress-ng"))
    \/ stress_kind(args) # "one"

\* Of a port and a host exactly one, of an image and a pid exactly one.
BlackholeTarget(port, host) ==
    CASE port >= 0 /\ host = TgNone -> <<"port", port>>
      [] port < 0 /\ host \notin {TgNone, ""} -> <<"host", host>>
      [] OTHER -> <<>>
build_taskkill_args(image, pid) ==
    CASE image \notin {TgNone, ""} /\ pid < 0 -> <<"/IM", image>>
      [] image = TgNone /\ pid >= 0 -> <<"/PID", pid>>
      [] OTHER -> <<>>

rule_name_Shared(target) == <<"tumult-blackhole">>
rule_name(target) == <<"tumult-blackhole", target>>

Required ==
    [delete_pod |-> {"namespace", "name"}, scale_deployment |-> {"namespace", "name"},
     cordon_node |-> {"name"}, uncordon_node |-> {"name"}, drain_node |-> {"name"},
     apply_network_policy |-> {"namespace"}, delete_network_policy |-> {"namespace", "name"},
     pod_network_latency |-> {"namespace"}, pod_stress |-> {"namespace"}, pod_is_ready |-> {"namespace", "name"},
     deployment_is_ready |-> {"namespace", "name"}, service_has_endpoints |-> {"namespace", "name"},
     count_pods_in_phase |-> {"namespace", "label_selector", "phase"},
     aws_fis_experiment_status |-> {"experiment_id"}, aws_ec2_terminate_instance |-> {"instance_id"},
     azure_chaos_status |-> {"subscription", "resource_group", "experiment_id"},
     all_pods_ready |-> {"namespace", "label_selector"}, node_status |-> {"name"},
     aws_fis_start_experiment |-> {"experiment_template_id"}, aws_fis_stop_experiment |-> {"experiment_id"},
     aws_ec2_stop_instance |-> {"instance_id"}, azure_chaos_start |-> {"subscription", "resource_group", "experiment_id"},
     azure_chaos_cancel |-> {"subscription", "resource_group", "experiment_id"},
     gcp_compute_stop_instance |-> {"project", "zone", "instance"},
     process_kill |-> {}, cpu_stress |-> {}, network_blackhole |-> {}, network_blackhole_rollback |-> {"rule_name"}]

Injects == {"pod_network_latency", "pod_stress"}
Aws == {"aws_fis_start_experiment", "aws_fis_stop_experiment", "aws_fis_experiment_status",
        "aws_ec2_stop_instance", "aws_ec2_terminate_instance"}
Azure == {"azure_chaos_start", "azure_chaos_cancel", "azure_chaos_status"}
Gcp == {"gcp_compute_stop_instance"}
Clouds == Aws \cup Azure \cup Gcp

\* The region is an argument or a variable; keys and tokens are variables.
Credentialed(fn, args) ==
    CASE fn \in Aws -> /\ {"AWS_ACCESS_KEY_ID", "AWS_SECRET_ACCESS_KEY"} \subseteq TgCredentials
                       /\ opt_str(args, "region", "") # "" \/ {"AWS_REGION", "AWS_DEFAULT_REGION"} \cap TgCredentials # {}
      [] fn \in Azure -> "AZURE_ACCESS_TOKEN" \in TgCredentials
      [] fn \in Gcp -> {"GOOGLE_OAUTH_ACCESS_TOKEN", "CLOUDSDK_AUTH_ACCESS_TOKEN"} \cap TgCredentials # {}
      [] OTHER -> TRUE

\* Why an execution ends before it sends anything; "-" when it goes on.
Refusal(plugin, fn, args) ==
    CASE plugin \notin DOMAIN TgPlugins -> "unknown plugin"
      [] plugin \in DOMAIN TgPlugins /\ fn \notin TgPlugins[plugin] -> "unknown function"
      [] OTHER ->
           CASE Missing(args, Required[fn]) -> "missing argument"
             [] fn = "scale_deployment" /\ arg_num(args, "replicas", U32) < 0 -> "missing argument"
             [] fn = "apply_network_policy" /\ "policy" \notin DOMAIN args -> "missing argument"
             [] fn \in Injects /\ ~Str(args, "pod") /\ ~Str(args, "label_selector") -> "missing argument"
             [] fn = "network_blackhole" /\ BlackholeTarget(arg_num(args, "port", U16),
                                                opt_str(args, "remote_host", TgNone)) = <<>> -> "invalid argument"
             [] fn = "process_kill" /\ build_taskkill_args(opt_str(args, "image", TgNone),
                                           arg_num(args, "pid", U32)) = <<>> -> "invalid argument"
             [] ~Credentialed(fn, args) -> "missing credential"
             [] OTHER -> TgNone
Refusals == {"unknown plugin", "unknown function", "missing argument", "invalid argument", "missing credential",
             "client init"}
-----------------------------------------------------------------------------
(* Calls *)

Set(c, pc, result) == tgCall' = [tgCall EXCEPT ![c].pc = pc, ![c].result = result]
Sent(c, what) == tgCall' = [tgCall EXCEPT ![c].pc = "done", ![c].result = "ok", ![c].sent = @ \cup {what}]

\* NativeExecutorRegistry::dispatch and the executor's match; the Kubernetes
\* client is built, and may fail, before the arguments are read.
dispatch(c, r) ==
    \E why \in {Refusal(r.plugin, r.fn, r.args)}
               \cup (IF r.plugin = "tumult-kubernetes" /\ r.fn \in TgPlugins[r.plugin] THEN {"client init"} ELSE {}) :
        /\ tgCall[c].pc = "idle"
        /\ tgCall' = [tgCall EXCEPT ![c].fn = r.fn, ![c].args = r.args,
                        ![c].pc = IF why # TgNone THEN "done" ELSE IF r.fn = "drain_node" THEN "cordon"
                                  ELSE IF r.fn \in Injects THEN "resolve" ELSE "send",
                        ![c].result = IF why = TgNone THEN @ ELSE why]
        /\ UNCHANGED <<clusterVars, tgCloud, tgRules>>

\* The request never arrives, or its answer is an error.
RequestFails(c) ==
    /\ tgCall[c].pc \in {"send", "cordon", "list", "resolve"}
    /\ \E kind \in {"transport", "auth", "not found", "throttled", "api"} :
          (tgCall[c].fn \in Clouds \/ kind \in {"transport", "api"}) /\ Set(c, "done", kind)
    /\ UNCHANGED <<clusterVars, tgCloud, tgRules>>

Arg(c, k) == arg_str(tgCall[c].args, k)
Call(c, fn) == tgCall[c].pc = "send" /\ tgCall[c].fn = fn

\* The API accepts; the pod runs on until its grace period is over, and nobody
\* waits for that.
delete_pod(c) ==
    LET p == Arg(c, "name")
    IN  /\ Call(c, "delete_pod") /\ p \in Pods /\ tgAt[p] # TgNone
        /\ tgGoing' = tgGoing \cup {p} /\ Sent(c, "delete")
        /\ UNCHANGED <<tgCordoned, tgAt, tgReady, tgReplicas, tgPolicies, tgBoxes, tgQdisc, tgDrained, tgProposal, tgCloud, tgRules>>

scale_deployment(c) ==
    /\ Call(c, "scale_deployment") /\ Sent(c, "scale")
    /\ tgReplicas' = arg_num(tgCall[c].args, "replicas", U32)
    /\ UNCHANGED <<tgCordoned, tgAt, tgReady, tgGoing, tgPolicies, tgBoxes, tgQdisc, tgDrained, tgProposal, tgCloud, tgRules>>

cordon_node(c) ==
    /\ Call(c, "cordon_node") /\ Arg(c, "name") \in TgNodes
    /\ tgCordoned' = tgCordoned \cup {Arg(c, "name")} /\ Sent(c, "cordon")
    /\ UNCHANGED <<tgAt, tgReady, tgGoing, tgReplicas, tgPolicies, tgBoxes, tgQdisc, tgDrained, tgProposal, tgCloud, tgRules>>

uncordon_node(c) ==
    /\ Call(c, "uncordon_node") /\ Arg(c, "name") \in TgNodes
    /\ tgCordoned' = tgCordoned \ {Arg(c, "name")} /\ tgDrained' = tgDrained \ {Arg(c, "name")}
    /\ tgCall' = [d \in TgCalls |->
          IF d = c THEN [tgCall[c] EXCEPT !.pc = "done", !.result = "ok", !.sent = @ \cup {"uncordon"}]
          ELSE IF tgCall[d].fn = "drain_node" /\ Arg(d, "name") = Arg(c, "name")
               THEN [tgCall[d] EXCEPT !.pod = "undone"] ELSE tgCall[d]]
    /\ UNCHANGED <<tgAt, tgReady, tgGoing, tgReplicas, tgPolicies, tgBoxes, tgQdisc, tgProposal, tgCloud, tgRules>>

On(n) == {p \in Pods : tgAt[p] = n}

\* A drain cordons, lists, and evicts one pod after the other.
drain_cordon_ListFirst(c) ==
    /\ tgCall[c].pc = "cordon" /\ Arg(c, "name") \in TgNodes
    /\ tgCall' = [tgCall EXCEPT ![c].pc = "list", ![c].todo = {p \in On(Arg(c, "name")) : ~TgPods[p].ds}]
    /\ UNCHANGED <<clusterVars, tgCloud, tgRules>>
drain_list_CordonLast(c) ==
    LET n == Arg(c, "name")
    IN  /\ tgCall[c].pc = "list"
        /\ tgCall' = [tgCall EXCEPT ![c].pc = "evict", ![c].sent = @ \cup {"cordon"}]
        /\ tgCordoned' = tgCordoned \cup {n}
        /\ UNCHANGED <<tgAt, tgReady, tgGoing, tgReplicas, tgPolicies, tgBoxes, tgQdisc, tgDrained, tgProposal, tgCloud, tgRules>>

drain_cordon(c) ==
    /\ tgCall[c].pc = "cordon" /\ Arg(c, "name") \in TgNodes
    /\ tgCordoned' = tgCordoned \cup {Arg(c, "name")}
    /\ tgCall' = [tgCall EXCEPT ![c].pc = "list", ![c].sent = @ \cup {"cordon"}]
    /\ UNCHANGED <<tgAt, tgReady, tgGoing, tgReplicas, tgPolicies, tgBoxes, tgQdisc, tgDrained, tgProposal, tgCloud, tgRules>>

drain_list(c) ==
    /\ tgCall[c].pc = "list"
    /\ tgCall' = [tgCall EXCEPT ![c].pc = "evict", ![c].todo = {p \in On(Arg(c, "name")) : ~TgPods[p].ds}]
    /\ UNCHANGED <<clusterVars, tgCloud, tgRules>>

\* An Eviction is refused for a budget, unless the pod is on its way already.
Evictable(p) == tgAt[p] # TgNone /\ (~TgPods[p].guarded \/ p \in tgGoing)

drain_evict(c, p) ==
    /\ tgCall[c].pc = "evict" /\ p \in tgCall[c].todo
    /\ tgCall' = [tgCall EXCEPT ![c].todo = @ \ {p},
                                ![c].failed = IF Evictable(p) THEN @ ELSE @ \cup {p},
                                ![c].sent = IF Evictable(p) THEN @ \cup {"evict"} ELSE @]
    /\ tgGoing' = IF Evictable(p) THEN tgGoing \cup {p} ELSE tgGoing
    /\ UNCHANGED <<tgCordoned, tgAt, tgReady, tgReplicas, tgPolicies, tgBoxes, tgQdisc, tgDrained, tgProposal, tgCloud, tgRules>>

drain_ends(c) ==
    LET n == Arg(c, "name")
    IN  /\ tgCall[c].pc = "evict" /\ tgCall[c].todo = {}
        /\ Set(c, "done", "ok")
        /\ tgDrained' = IF tgCall[c].failed = {} /\ tgCall[c].pod # "undone" THEN tgDrained \cup {n} ELSE tgDrained
        /\ UNCHANGED <<tgCordoned, tgAt, tgReady, tgGoing, tgReplicas, tgPolicies, tgBoxes, tgQdisc, tgProposal, tgCloud, tgRules>>

drain_node_ListFirst(c) ==
    \/ drain_cordon_ListFirst(c) \/ drain_list_CordonLast(c) \/ drain_ends(c)
    \/ \E p \in Pods : drain_evict(c, p)

drain_node(c) ==
    \/ drain_cordon(c) \/ drain_list(c) \/ drain_ends(c)
    \/ \E p \in Pods : drain_evict(c, p)

apply_network_policy(c) ==
    /\ Call(c, "apply_network_policy") /\ Sent(c, "apply")
    /\ tgPolicies' = tgPolicies \cup {opt_str(tgCall[c].args, "policy", "tumult-policy")}
    /\ UNCHANGED <<tgCordoned, tgAt, tgReady, tgGoing, tgReplicas, tgBoxes, tgQdisc, tgDrained, tgProposal, tgCloud, tgRules>>
delete_network_policy(c) ==
    /\ Call(c, "delete_network_policy") /\ Arg(c, "name") \in tgPolicies /\ Sent(c, "delete policy")
    /\ tgPolicies' = tgPolicies \ {Arg(c, "name")}
    /\ UNCHANGED <<tgCordoned, tgAt, tgReady, tgGoing, tgReplicas, tgBoxes, tgQdisc, tgDrained, tgProposal, tgCloud, tgRules>>
-----------------------------------------------------------------------------
(* Faults inside a pod *)

\* The pod that is named, or the first one the selector lists.
resolve_target_pod(c) ==
    /\ tgCall[c].pc = "resolve"
    /\ IF Arg(c, "pod") # TgNone
       THEN tgCall' = [tgCall EXCEPT ![c].pc = "inject", ![c].pod = Arg(c, "pod")]
       ELSE IF \A p \in Pods : tgAt[p] = TgNone THEN Set(c, "done", "execution")
       ELSE \E p \in Pods : tgAt[p] # TgNone /\ tgCall' = [tgCall EXCEPT ![c].pc = "inject", ![c].pod = p]
    /\ UNCHANGED <<clusterVars, tgCloud, tgRules>>

\* The patch appends a container; a name the pod already has would change one,
\* which the API refuses, as it refuses a pod that is gone.
append_ephemeral_container(c, kind) ==
    \E suffix \in TgSuffixes :
        LET name == <<kind, suffix>>
            p == tgCall[c].pod
        IN  IF tgAt[p] = TgNone \/ \E b \in tgBoxes : b.pod = p /\ b.name = name
            THEN Set(c, "done", "api") /\ UNCHANGED tgBoxes
            ELSE /\ tgBoxes' = tgBoxes \cup {[pod |-> p, name |-> name, kind |-> kind, st |-> "starts"]}
                 /\ Sent(c, "patch")

inject(c) ==
    LET latency == tgCall[c].fn = "pod_network_latency"
        refused == IF latency THEN LatencyRefused(tgCall[c].args) ELSE StressRefused(tgCall[c].args)
    IN  /\ tgCall[c].pc = "inject"
        /\ IF refused THEN Set(c, "done", "invalid argument") /\ UNCHANGED tgBoxes
           ELSE append_ephemeral_container(c, IF latency THEN "netem" ELSE "stress")
        /\ UNCHANGED <<tgCordoned, tgAt, tgReady, tgGoing, tgReplicas, tgPolicies, tgQdisc, tgDrained, tgProposal, tgCloud, tgRules>>

BoxTo(b, st) == tgBoxes' = (tgBoxes \ {b}) \cup {[b EXCEPT !.st = st]}
BoxRest == UNCHANGED <<tgCall, tgCordoned, tgAt, tgReady, tgGoing, tgReplicas, tgPolicies, tgDrained, tgProposal, tgCloud, tgRules>>

box_script_AndDel(b) ==
    /\ b.kind = "netem" /\ BoxRest
    /\ \/ /\ b.st = "starts"
          /\ IF b.pod \in tgQdisc THEN BoxTo(b, "ended") /\ UNCHANGED tgQdisc
             ELSE BoxTo(b, "sleeps") /\ tgQdisc' = tgQdisc \cup {b.pod}
       \/ b.st = "sleeps" /\ BoxTo(b, "removes") /\ UNCHANGED tgQdisc
       \/ b.st = "sleeps" /\ BoxTo(b, "ended") /\ UNCHANGED tgQdisc
       \/ b.st = "removes" /\ BoxTo(b, "ended") /\ tgQdisc' = tgQdisc \ {b.pod}

\* The script of a netem container, "add && sleep; del": the delay is removed
\* when the sleep ends, is interrupted, or the add failed.
box_script(b) ==
    /\ b.kind = "netem" /\ BoxRest
    /\ \/ /\ b.st = "starts"
          /\ IF b.pod \in tgQdisc THEN BoxTo(b, "removes") /\ UNCHANGED tgQdisc
             ELSE BoxTo(b, "sleeps") /\ tgQdisc' = tgQdisc \cup {b.pod}
       \/ b.st = "sleeps" /\ BoxTo(b, "removes") /\ UNCHANGED tgQdisc
       \/ b.st = "removes" /\ BoxTo(b, "ended") /\ tgQdisc' = tgQdisc \ {b.pod}

\* stress-ng ends by its own timeout.
stress_ends(b) ==
    /\ b.kind = "stress" /\ b.st = "starts" /\ BoxTo(b, "ended")
    /\ UNCHANGED tgQdisc /\ BoxRest

\* A pod's grace period ends: with it go its containers and its delay, and a
\* successor waits in its place.
Terminates(p) ==
    /\ p \in tgGoing /\ tgGoing' = tgGoing \ {p}
    /\ tgAt' = [tgAt EXCEPT ![p] = TgNone] /\ tgReady' = tgReady \ {p}
    /\ tgQdisc' = tgQdisc \ {p} /\ tgBoxes' = {b \in tgBoxes : b.pod # p}
    /\ UNCHANGED <<tgCall, tgCordoned, tgReplicas, tgPolicies, tgDrained, tgProposal, tgCloud, tgRules>>

\* The scheduler places a waiting pod, a DaemonSet's where it belongs though the
\* node is cordoned; a pod's readiness changes.
Schedule(p, n) ==
    /\ tgAt[p] = TgNone /\ (IF TgPods[p].ds THEN n = TgPods[p].home ELSE n \notin tgCordoned)
    /\ tgAt' = [tgAt EXCEPT ![p] = n]
    /\ UNCHANGED <<tgCall, tgCordoned, tgReady, tgGoing, tgReplicas, tgPolicies, tgBoxes, tgQdisc, tgDrained, tgProposal, tgCloud, tgRules>>
BecomesReady(p) ==
    /\ tgAt[p] # TgNone /\ p \notin tgReady /\ tgReady' = tgReady \cup {p}
    /\ UNCHANGED <<tgCall, tgCordoned, tgAt, tgGoing, tgReplicas, tgPolicies, tgBoxes, tgQdisc, tgDrained, tgProposal, tgCloud, tgRules>>
-----------------------------------------------------------------------------
(* TgProbes and discovery *)

pod_is_ready(p) == p \in tgReady
Running == {p \in Pods : tgAt[p] # TgNone}
all_pods_ready == <<Cardinality(Running), Cardinality(tgReady)>>
node_status(n) == n \notin tgCordoned
deployment_is_ready == [desired |-> tgReplicas, ready |-> Cardinality(tgReady \ tgGoing)]
service_has_endpoints == tgReady \ tgGoing # {}
count_pods_in_phase(phase) == Cardinality(IF phase = "Running" THEN Running
                                          ELSE IF phase = "Pending" THEN Pods \ Running ELSE {})

TgProbes == {"pod_is_ready", "all_pods_ready", "node_status", "deployment_is_ready", "service_has_endpoints",
           "count_pods_in_phase", "aws_fis_experiment_status", "azure_chaos_status"}

\* A probe answers what it finds and changes nothing.
Probe(c) ==
    LET fn == tgCall[c].fn
        holds == CASE fn = "pod_is_ready" -> pod_is_ready(Arg(c, "name"))
                   [] fn = "node_status" -> node_status(Arg(c, "name"))
                   [] fn = "all_pods_ready" -> all_pods_ready[1] = all_pods_ready[2]
                   [] fn = "deployment_is_ready" -> deployment_is_ready.desired = deployment_is_ready.ready
                   [] fn = "service_has_endpoints" -> service_has_endpoints
                   [] fn = "count_pods_in_phase" -> count_pods_in_phase(Arg(c, "phase")) > 0
                   [] fn = "aws_fis_experiment_status" -> tgCloud["fis"] = "running"
                   [] OTHER -> tgCloud["chaos"] = "running"
    IN  /\ tgCall[c].pc = "send" /\ fn \in TgProbes
        /\ Set(c, "done", IF holds THEN "true" ELSE "false")
        /\ UNCHANGED <<clusterVars, tgCloud, tgRules>>

proposed_topology_toml_All(found) == [i \in DOMAIN found |-> [name |-> found[i].name, ns |-> found[i].ns, active |-> TRUE]]

\* Of the services of one name only the first is active.
proposed_topology_toml(found) ==
    [i \in DOMAIN found |-> [name |-> found[i].name, ns |-> found[i].ns,
                             active |-> \A j \in 1..(i - 1) : found[j].name # found[i].name]]

\* The rank of a service in the order of namespace, then name.
ServiceRank(svc) == 10 * svc.nsRank + svc.nameRank

\* All namespaces without kube-system, or the ones asked for, without the API
\* server's own service; sorted, each service once however often it was listed.
discover_services(namespaces) ==
    LET listed == {s \in Range(TgServices) : IF namespaces = <<>> THEN s.ns # "kube-system"
                                                                 ELSE s.ns \in Range(namespaces)}
        kept == {s \in listed : ~(s.ns = "default" /\ s.name = "kubernetes")}
        before(s) == {t \in kept : ServiceRank(t) < ServiceRank(s)}
    IN  [i \in 1..Cardinality(kept) |-> CHOOSE s \in kept : Cardinality(before(s)) = i - 1]

Discover(namespaces) ==
    /\ tgProposal = <<>> /\ \A c \in TgCalls : tgCall[c].pc = "idle"
    /\ tgProposal' = proposed_topology_toml(discover_services(namespaces))
    /\ UNCHANGED <<tgCall, tgCordoned, tgAt, tgReady, tgGoing, tgReplicas, tgPolicies, tgBoxes, tgQdisc, tgDrained, tgCloud, tgRules>>
-----------------------------------------------------------------------------
(* Clouds and Windows *)

CloudStep(c, fn, thing, state) ==
    /\ Call(c, fn) /\ tgCloud' = [tgCloud EXCEPT ![thing] = state]
    /\ \/ Sent(c, fn)
       \/ tgCall' = [tgCall EXCEPT ![c].pc = "done", ![c].result = "transport", ![c].sent = @ \cup {fn}]
    /\ UNCHANGED <<clusterVars, tgRules>>

\* The provider accepts; the answer may be lost on its way.
FisClient(c) ==
    \/ CloudStep(c, "aws_fis_start_experiment", "fis", "running")
    \/ tgCloud["fis"] = "running" /\ CloudStep(c, "aws_fis_stop_experiment", "fis", "up")
Ec2Client(c) ==
    /\ tgCloud["vm"] # "gone"
    /\ \/ CloudStep(c, "aws_ec2_stop_instance", "vm", "stopped")
       \/ CloudStep(c, "aws_ec2_terminate_instance", "vm", "gone")
ChaosClient(c) ==
    \/ CloudStep(c, "azure_chaos_start", "chaos", "running")
    \/ CloudStep(c, "azure_chaos_cancel", "chaos", "up")
ComputeClient(c) == tgCloud["vm"] # "gone" /\ CloudStep(c, "gcp_compute_stop_instance", "vm", "stopped")

\* netsh add: a second rule of one name is added beside the first.
network_blackhole(c) ==
    LET args == tgCall[c].args
        target == BlackholeTarget(arg_num(args, "port", U16), opt_str(args, "remote_host", TgNone))
    IN  /\ Call(c, "network_blackhole") /\ Sent(c, "add")
        /\ tgRules' = tgRules \cup {[name |-> rule_name(target), match |-> target, by |-> c]}
        /\ UNCHANGED <<clusterVars, tgCloud>>

\* netsh delete: every rule of the name; an error when there is none.
network_blackhole_rollback(c, target) ==
    LET found == {r \in tgRules : r.name = rule_name(target)}
    IN  /\ Call(c, "network_blackhole_rollback") /\ target \in {r.match : r \in tgRules}
        /\ found # {} /\ tgRules' = tgRules \ found
        /\ tgCall' = [tgCall EXCEPT ![c].pc = "done", ![c].result = "ok", ![c].sent = {"delete"},
                                    ![c].todo = {r.match : r \in found}, ![c].failed = {target}]
        /\ UNCHANGED <<clusterVars, tgCloud>>

\* Busy threads, at most four per processor; a process that is killed.
MaxWorkers == 8
cpu_workers(args) == 1..Min({MaxWorkers, Max({1, Num(args, "workers", U32, 2)})})
cpu_stress(c) ==
    /\ Call(c, "cpu_stress")
    /\ tgCall' = [tgCall EXCEPT ![c].pc = "done", ![c].result = "ok", ![c].sent = cpu_workers(tgCall[c].args)]
    /\ UNCHANGED <<clusterVars, tgCloud, tgRules>>
process_kill(c) ==
    /\ Call(c, "process_kill") /\ Sent(c, "kill") /\ UNCHANGED <<clusterVars, tgCloud, tgRules>>

\* requests[c]: what call c may ask for; lists: the namespaces to discover.
TargetsNext(requests, lists) ==
    \/ \E c \in TgCalls : \E r \in requests[c] : (\A d \in TgCalls : d < c => tgCall[d].pc # "idle") /\ dispatch(c, r)
    \/ \E c \in TgCalls :
          \/ RequestFails(c) \/ delete_pod(c) \/ scale_deployment(c) \/ cordon_node(c) \/ uncordon_node(c)
          \/ drain_node(c) \/ apply_network_policy(c) \/ delete_network_policy(c)
          \/ resolve_target_pod(c) \/ inject(c) \/ Probe(c)
          \/ FisClient(c) \/ Ec2Client(c) \/ ChaosClient(c) \/ ComputeClient(c)
          \/ network_blackhole(c) \/ cpu_stress(c) \/ process_kill(c)
          \/ \E t \in {r.match : r \in tgRules} : network_blackhole_rollback(c, t)
    \/ \E b \in tgBoxes : box_script(b) \/ stress_ends(b)
    \/ \E ns \in lists : Discover(ns)
    \/ \E p \in Pods : BecomesReady(p) \/ Terminates(p) \/ \E n \in TgNodes : Schedule(p, n)
-----------------------------------------------------------------------------
(* Properties *)

\* A call refused for its name, arguments or credentials changed nothing, and
\* one that succeeded was accepted by its target (native.rs of the drivers).
ResultsTrue ==
    \A c \in TgCalls :
        /\ tgCall[c].result \in Refusals => tgCall[c].sent = {}
        /\ tgCall[c].result = "ok" => tgCall[c].sent # {}

\* A node that was drained without a failure, and not uncordoned since, runs
\* nothing but its DaemonSet pods and pods in their grace period (drain_node).
DrainedIsEmpty == \A n \in tgDrained : \A p \in On(n) : TgPods[p].ds \/ p \in tgGoing

\* An eviction spares DaemonSet pods and those at their disruption budget
\* (drain_node).
BudgetsKept ==
    \A p \in Pods : (TgPods[p].ds \/ TgPods[p].guarded) /\ (tgAt[p] = TgNone \/ p \in tgGoing) =>
        \E c \in TgCalls : tgCall[c].fn = "delete_pod" /\ Arg(c, "name") = p

\* No delay outlives the containers that made it, however their injections
\* overlap (inject.rs).
DelayEnds == \A p \in tgQdisc : \E b \in tgBoxes : b.pod = p /\ b.st \in {"sleeps", "removes"}

\* A rollback lifts every block of its target and of no other (commands.rs).
RollbackExact ==
    \A c \in TgCalls : tgCall[c].fn = "network_blackhole_rollback" /\ tgCall[c].result = "ok" =>
        tgCall[c].todo = tgCall[c].failed

\* A proposed topology holds no name twice (discovery.rs).
ProposalParses ==
    \A i, j \in DOMAIN tgProposal :
        /\ tgProposal[i].active /\ tgProposal[j].active /\ tgProposal[i].name = tgProposal[j].name => i = j
        /\ i < j => tgProposal[i].active \/ \E k \in 1..i : tgProposal[k].active /\ tgProposal[k].name = tgProposal[i].name

\* Drivers leave a target as they report it: a refused call sent nothing, a
\* clean drain emptied a node within its budgets, delays and blocks end with
\* what made them, and a proposal can be read back (the three drivers).
TargetsSound ==
    ResultsTrue /\ DrainedIsEmpty /\ BudgetsKept /\ DelayEnds /\ RollbackExact /\ ProposalParses
=============================================================================
