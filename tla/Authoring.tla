------------------------------ MODULE Authoring ------------------------------
(* Plugins and the ways to an experiment: discovery on the search paths, the  *)
(* fault catalog, scaffolds, templates and `tumult new`, validation, the      *)
(* registry of definitions, and the resolution of every activity when the     *)
(* document runs, while plugins come and go.  A plugin directory is a         *)
(* sequence of entries [st, name, actions, probes], in the order in which the *)
(* file system lists them.                                                    *)
EXTENDS Integers, Sequences, FiniteSets, FiniteSetsExt, SequencesExt, Functions, TLC

CONSTANTS
    AuPaths,      \* plugin search paths: 1 is ./plugins, then the home, then TUMULT_PLUGIN_PATH
    AuEntries,    \* the directories that can be installed
    AuInstalled,  \* what may be installed at the start: search path -> entries
    AuNative,     \* the composition root: native plugin -> its functions
    AuInputs,     \* what a scaffold is asked for: [plugin, action, args, expect]
    AuInjected,   \* names of the configuration that is injected, in lower case
    AuSets,       \* the --set options: sequences of [key, value, formed]
    AuMaxEdits,   \* bound: installations and removals
    AuRequests,   \* registrations
    AuTexts       \* their documents

VARIABLES
    auDirs,     \* search path -> its entries
    auVersion,  \* counts the edits of auDirs
    auNew,      \* the `tumult new` at work: [pc, doc]
    auFile,     \* the experiment file
    auWarned,   \* the last validation: [version, doc, acts], the activities it warned about
    auRun,      \* the run of the file: [next, doc, results]
    auRegistry, \* rows of run_registry: [text, seen]
    auReq       \* registration -> [pc, text, seen, registered]

ASSUME AuAssumption ==
    /\ AuPaths \subseteq Nat \ {0}
    /\ \A dirs \in AuInstalled : DOMAIN dirs = AuPaths /\ \A i \in AuPaths : dirs[i] \in Seq(Range(dirs[i]))
    /\ \A in \in AuInputs : IsFiniteSet(in.args)
    /\ \A sets \in AuSets : sets \in Seq(Range(sets))
    /\ IsFiniteSet(AuInjected)

auVars == <<auDirs, auVersion, auNew, auFile, auWarned, auRun, auRegistry, auReq>>
auPluginVars == <<auDirs, auVersion, auNew, auFile, auWarned, auRun>>

NoRoot == <<0, 0>>
NoDocument == [acts |-> <<>>, valid |-> FALSE, version |-> -1, root |-> NoRoot, vars |-> <<>>, template |-> "-"]
NoReq == [pc |-> "idle", text |-> "-", seen |-> 0, registered |-> FALSE]

AuInit ==
    /\ auDirs \in AuInstalled /\ auVersion = 0
    /\ auNew = [pc |-> "idle", doc |-> NoDocument] /\ auFile = NoDocument
    /\ auWarned = [version |-> -1, doc |-> NoDocument, acts |-> {}]
    /\ auRun = [next |-> 0, doc |-> NoDocument, results |-> <<>>]
    /\ auRegistry = <<>> /\ auReq = [r \in AuRequests |-> NoReq]
-----------------------------------------------------------------------------
(* Discovery *)

\* A root is <<path, entry>>; a link, a directory without a manifest and a
\* manifest that cannot be parsed are no plugins.
PluginRoots == UNION {{<<i, j>> : j \in DOMAIN auDirs[i]} : i \in AuPaths}
Entry(r) == auDirs[r[1]][r[2]]
discover_plugins_in_dir(i) == {r \in PluginRoots : r[1] = i /\ Entry(r).st = "plugin"}
Found == UNION {discover_plugins_in_dir(i) : i \in AuPaths}
FoundBefore(r, s) == r[1] < s[1] \/ (r[1] = s[1] /\ r[2] < s[2])

\* The first of a name wins, on the earliest path.
discover_report_with_config(name) ==
    LET of == {r \in Found : Entry(r).name = name}
    IN  IF of = {} THEN NoRoot ELSE CHOOSE r \in of : \A s \in of \ {r} : FoundBefore(r, s)
Shadowed == {r \in Found : discover_report_with_config(Entry(r).name) # r}
DiscoveryWarnings == {r \in PluginRoots : Entry(r).st = "bad"} \cup Shadowed
PluginNames == {Entry(r).name : r \in Found}
Manifest(name) == Entry(discover_report_with_config(name))

\* PluginRegistry and the native registry, as `tumult discover` lists them.
list_all_actions == UNION {{<<n, a>> : a \in Manifest(n).actions} : n \in PluginNames}
render_discover ==
    list_all_actions \cup UNION {{<<n, f>> : f \in AuNative[n]} : n \in DOMAIN AuNative}

\* The catalog holds actions before probes of the same name.
catalog_from_manifests ==
    UNION {{<<n, f>> : f \in Manifest(n).actions \cup Manifest(n).probes} : n \in PluginNames}
find_kind(plugin, action) == IF action \in Manifest(plugin).actions THEN "action" ELSE "probe"

Install(i, e) ==
    /\ auVersion < AuMaxEdits /\ Len(auDirs[i]) < 2
    /\ auDirs' = [auDirs EXCEPT ![i] = Append(@, e)] /\ auVersion' = auVersion + 1
    /\ UNCHANGED <<auNew, auFile, auWarned, auRun, auRegistry, auReq>>
Uninstall(i) ==
    /\ auVersion < AuMaxEdits /\ auDirs[i] # <<>>
    /\ auDirs' = [auDirs EXCEPT ![i] = Tail(@)] /\ auVersion' = auVersion + 1
    /\ UNCHANGED <<auNew, auFile, auWarned, auRun, auRegistry, auReq>>
-----------------------------------------------------------------------------
(* Scaffolds and templates *)

Activity(role, kind, plugin, fn, args) ==
    [role |-> role, kind |-> kind, plugin |-> plugin, fn |-> fn, args |-> args]

NATIVE_PLUGINS == {"tumult-kubernetes", "tumult-ssh", "tumult-net", "tumult-cloud", "tumult-windows"}
provider_for(plugin) == IF plugin \in NATIVE_PLUGINS THEN "native" ELSE "script"

rollback_action(plugin, action) ==
    CASE plugin = "tumult-network" /\ action \in {"add-latency", "add-packet-loss", "add-corruption"} -> "reset-tc"
      [] plugin = "tumult-network" /\ action \in {"block-dns", "redirect-dns"} -> "block-dns-rollback"
      [] plugin = "tumult-containers" /\ action = "pause-container" -> "unpause-container"
      [] plugin = "tumult-containers" /\ action = "stop-container" -> "start-container"
      [] plugin = "tumult-timewarp" /\ action \in {"skew-clock", "advance-clock-past-cert-expiry"} -> "restore-clock"
      [] plugin = "tumult-timewarp" /\ action = "entropy-drain" -> "stop-entropy-drain"
      [] OTHER -> "-"

\* A probe, the fault with its arguments and its target, and the undo.
build_experiment_unvalidated(in) ==
    LET undo == rollback_action(in.plugin, in.action)
        target == [base |-> "target", upper |-> FALSE]
        acts == <<Activity("probe", "process", "-", "-", {}),
                  Activity("method", provider_for(in.plugin), in.plugin, in.action, in.args \cup {target})>>
    IN  [NoDocument EXCEPT !.acts = IF undo = "-" THEN acts
                               ELSE Append(acts, Activity("rollback", provider_for(in.plugin), in.plugin, undo, {target})),
                      !.valid = in.expect # "[", !.version = auVersion,
                      !.root = discover_report_with_config(in.plugin)]

\* Only an action of the catalog can be scaffolded, a probe cannot.
scaffold_from_catalog_AnyKind(in) ==
    <<in.plugin, in.action>> \in catalog_from_manifests
scaffold_from_catalog(in) ==
    <<in.plugin, in.action>> \in catalog_from_manifests /\ find_kind(in.plugin, in.action) = "action"

\* REST and MCP answer with the document, valid or not; the client saves it.
scaffold(in) ==
    /\ auFile = NoDocument /\ scaffold_from_catalog(in)
    /\ auFile' = build_experiment_unvalidated(in)
    /\ UNCHANGED <<auDirs, auVersion, auNew, auWarned, auRun, auRegistry, auReq>>

\* The interactive picker shows the catalog of its start and asks for the
\* rest; what fails validation is not written.
cmd_new_interactive(in) ==
    /\ auNew.pc = "idle" /\ scaffold_from_catalog(in)
    /\ auNew' = [pc |-> IF build_experiment_unvalidated(in).valid THEN "built" ELSE "failed",
                 doc |-> build_experiment_unvalidated(in)]
    /\ UNCHANGED <<auDirs, auVersion, auFile, auWarned, auRun, auRegistry, auReq>>

\* The curated starters: the parameters of each, and the placeholders of its body.
Template(params, uses) == [params |-> params, uses |-> uses]
all_templates ==
    ("net-latency" :> Template({"target", "iface", "delay"},
        {"delay", "iface", "target"}))
    @@ ("pg-kill-connections" :> Template({"container", "pg_user", "pg_database"},
        {"container", "pg_database", "pg_user"}))
    @@ ("cpu-stress" :> Template({"target", "cpus", "duration"},
        {"cpus", "duration", "target"}))
    @@ ("memory-stress" :> Template({"target", "workers", "bytes", "duration"},
        {"bytes", "duration", "target", "workers"}))
    @@ ("redis-flush" :> Template({"container", "scratch_db"},
        {"container", "scratch_db"}))
    @@ ("container-pause" :> Template({"container"},
        {"container"}))
    @@ ("ssh-stress" :> Template({"ssh_host", "ssh_port", "ssh_user", "ssh_key", "cpus", "duration"},
        {"cpus", "duration", "ssh_host", "ssh_key", "ssh_port", "ssh_user"}))
    @@ ("k8s-pod-fault" :> Template({"namespace", "deployment", "label_selector", "replicas", "scaled_replicas"},
        {"deployment", "label_selector", "namespace", "replicas", "scaled_replicas"}))
    @@ ("clock-skew" :> Template({"target", "health_url", "health_pattern", "skew_seconds", "plugins_dir"},
        {"health_pattern", "health_url", "plugins_dir", "skew_seconds", "target"}))
    @@ ("agentic-smoke" :> Template({"scenario", "adapter", "contract"},
        {"adapter", "contract", "scenario"}))

\* The last of several values for a key wins.
parse_overrides_First(sets) == [k \in {sets[i].key : i \in DOMAIN sets} |->
    sets[Min({i \in DOMAIN sets : sets[i].key = k})].value]
parse_overrides(sets) == [k \in {sets[i].key : i \in DOMAIN sets} |->
    sets[Max({i \in DOMAIN sets : sets[i].key = k})].value]

instantiate(t, overrides) ==
    [p \in all_templates[t].params |-> IF p \in DOMAIN overrides THEN overrides[p] ELSE "default"]

cmd_new_from_template(t, sets) ==
    LET overrides == parse_overrides(sets)
        refused == \/ \E i \in DOMAIN sets : ~sets[i].formed
                   \/ ~(DOMAIN overrides \subseteq all_templates[t].params)
        vars == instantiate(t, overrides)
        bound == all_templates[t].uses \subseteq DOMAIN vars
    IN  /\ auNew.pc = "idle"
        /\ auNew' = IF refused \/ ~bound THEN [pc |-> "failed", doc |-> NoDocument]
                    ELSE [pc |-> "built", doc |-> [NoDocument EXCEPT !.valid = TRUE, !.version = auVersion,
                             !.vars = [k \in DOMAIN vars |-> <<vars[k], sets>>],
                             !.template = t]]
        /\ UNCHANGED <<auDirs, auVersion, auFile, auWarned, auRun, auRegistry, auReq>>

\* write_experiment looks for the file first, and then writes it.
write_check ==
    /\ auNew.pc = "built" /\ auNew' = [auNew EXCEPT !.pc = IF auFile = NoDocument THEN "write" ELSE "failed"]
    /\ UNCHANGED <<auDirs, auVersion, auFile, auWarned, auRun, auRegistry, auReq>>
write_experiment ==
    /\ auNew.pc = "write" /\ auNew' = [auNew EXCEPT !.pc = "written"]
    /\ auFile' = auNew.doc
    /\ UNCHANGED <<auDirs, auVersion, auWarned, auRun, auRegistry, auReq>>
\* `tumult init` writes a document of process activities.
init_at ==
    /\ auFile = NoDocument
    /\ auFile' = [NoDocument EXCEPT !.acts = <<Activity("probe", "process", "-", "-", {})>>, !.valid = TRUE, !.version = auVersion]
    /\ UNCHANGED <<auDirs, auVersion, auNew, auWarned, auRun, auRegistry, auReq>>
-----------------------------------------------------------------------------
(* Validation and execution *)

\* What `tumult validate` cannot find.
warn_on_unknown_plugin_refs_ActionsOnly(a) ==
    CASE a.kind = "native" -> a.plugin \notin DOMAIN AuNative \/ a.fn \notin AuNative[a.plugin]
      [] a.kind = "script" -> a.plugin \notin PluginNames \/ a.fn \notin Manifest(a.plugin).actions
      [] OTHER -> FALSE
warn_on_unknown_plugin_refs(a) ==
    CASE a.kind = "native" -> a.plugin \notin DOMAIN AuNative \/ a.fn \notin AuNative[a.plugin]
      [] a.kind = "script" -> \/ a.plugin \notin PluginNames
                              \/ a.fn \notin Manifest(a.plugin).actions \cup Manifest(a.plugin).probes
      [] OTHER -> FALSE

cmd_validate ==
    /\ auFile # NoDocument /\ auFile.valid /\ auRun.next = 0
    /\ auWarned' = [version |-> auVersion, doc |-> auFile,
                    acts |-> {i \in DOMAIN auFile.acts : warn_on_unknown_plugin_refs(auFile.acts[i])}]
    /\ UNCHANGED <<auDirs, auVersion, auNew, auFile, auRun, auRegistry, auReq>>

\* Injected names below declared ones; two names that differ in case alone
\* are an error of the script executor.
merged_script_arguments(args) ==
    [a \in args \cup {[base |-> b, upper |-> FALSE] : b \in AuInjected} |->
        IF a \in args THEN "declared" ELSE "injected"]
build_env_vars_Overwrites(merged) ==
    [ok |-> TRUE, env |-> [b \in {a.base : a \in DOMAIN merged} |->
        merged[CHOOSE a \in DOMAIN merged : a.base = b /\ (a.upper => [a EXCEPT !.upper = FALSE] \notin DOMAIN merged)]]]
build_env_vars(merged) ==
    IF \E a, b \in DOMAIN merged : a # b /\ a.base = b.base THEN [ok |-> FALSE, env |-> <<>>]
    ELSE [ok |-> TRUE, env |-> [b \in {a.base : a \in DOMAIN merged} |->
             merged[CHOOSE a \in DOMAIN merged : a.base = b]]]

Outcome(a, why, root, kind, env) ==
    [act |-> a, version |-> auVersion, why |-> why, root |-> root, kind |-> kind, env |-> env]
NoEnv == [ok |-> TRUE, env |-> <<>>]

\* Every script activity discovers the plugins anew; an action is looked up
\* before a probe.
execute_script_provider_ProbesFirst(a) ==
    LET root == discover_report_with_config(a.plugin)
    IN  CASE root = NoRoot -> Outcome(a, "unknown plugin", root, "-", NoEnv)
          [] root # NoRoot /\ a.fn \in Entry(root).probes ->
               Outcome(a, "-", root, "probe", build_env_vars(merged_script_arguments(a.args)))
          [] root # NoRoot /\ a.fn \in Entry(root).actions \ Entry(root).probes ->
               Outcome(a, "-", root, "action", build_env_vars(merged_script_arguments(a.args)))
          [] OTHER -> Outcome(a, "unknown action", root, "-", NoEnv)
execute_script_provider(a) ==
    LET root == discover_report_with_config(a.plugin)
    IN  CASE root = NoRoot -> Outcome(a, "unknown plugin", root, "-", NoEnv)
          [] root # NoRoot /\ a.fn \in Entry(root).actions ->
               Outcome(a, "-", root, "action", build_env_vars(merged_script_arguments(a.args)))
          [] root # NoRoot /\ a.fn \in Entry(root).probes \ Entry(root).actions ->
               Outcome(a, "-", root, "probe", build_env_vars(merged_script_arguments(a.args)))
          [] OTHER -> Outcome(a, "unknown action", root, "-", NoEnv)

execute_native(a) ==
    Outcome(a, IF a.plugin \notin DOMAIN AuNative THEN "unknown plugin"
               ELSE IF a.fn \notin AuNative[a.plugin] THEN "unknown action" ELSE "-", NoRoot, "native", NoEnv)

execute(a) ==
    CASE a.kind = "script" -> execute_script_provider(a)
      [] a.kind = "native" -> execute_native(a)
      [] OTHER -> Outcome(a, "-", NoRoot, "process", NoEnv)

StartRun ==
    /\ auRun.next = 0 /\ auFile # NoDocument /\ auFile.valid
    /\ auRun' = [next |-> 1, doc |-> auFile, results |-> <<>>]
    /\ UNCHANGED <<auDirs, auVersion, auNew, auFile, auWarned, auRegistry, auReq>>
RunActivity ==
    /\ auRun.next \in DOMAIN auRun.doc.acts
    /\ auRun' = [auRun EXCEPT !.next = @ + 1, !.results = Append(@, execute(auRun.doc.acts[auRun.next]))]
    /\ UNCHANGED <<auDirs, auVersion, auNew, auFile, auWarned, auRegistry, auReq>>
-----------------------------------------------------------------------------
(* The registry of definitions *)

RequestTo(r, pc, seen) == auReq' = [auReq EXCEPT ![r].pc = pc, ![r].seen = seen]

validate(r, text) ==
    /\ auReq[r].pc = "idle" /\ auReq' = [auReq EXCEPT ![r] = [@ EXCEPT !.pc = "lookup", !.text = text]]
    /\ UNCHANGED <<auPluginVars, auRegistry>>

register_lookup_Skipped(r) ==
    /\ auReq[r].pc = "lookup" /\ RequestTo(r, "insert", Len(auRegistry)) /\ UNCHANGED <<auPluginVars, auRegistry>>
\* A reader looks for the content's hash.
register_lookup(r) ==
    LET known == \E i \in DOMAIN auRegistry : auRegistry[i].text = auReq[r].text
    IN  /\ auReq[r].pc = "lookup"
        /\ RequestTo(r, IF known THEN "done" ELSE "insert", Len(auRegistry))
        /\ UNCHANGED <<auPluginVars, auRegistry>>

\* The writer inserts; the table has no key, so it inserts what it is given.
register_definition(r) ==
    /\ auReq[r].pc = "insert"
    /\ auRegistry' = Append(auRegistry, [text |-> auReq[r].text, seen |-> auReq[r].seen])
    /\ auReq' = [auReq EXCEPT ![r].pc = "done", ![r].registered = TRUE]
    /\ UNCHANGED auPluginVars
RegisterFails(r) ==
    /\ auReq[r].pc \in {"lookup", "insert"} /\ RequestTo(r, "failed", auReq[r].seen)
    /\ UNCHANGED <<auPluginVars, auRegistry>>

PluginsNext ==
    \/ \E i \in AuPaths : Uninstall(i) \/ \E e \in AuEntries : Install(i, e)
    \/ \E in \in AuInputs : scaffold(in) \/ cmd_new_interactive(in)
    \/ write_check \/ write_experiment \/ init_at \/ cmd_validate \/ StartRun \/ RunActivity
TemplatesNext ==
    \/ \E t \in DOMAIN all_templates, s \in AuSets : cmd_new_from_template(t, s)
    \/ write_check \/ write_experiment
RegistryNext ==
    \E r \in AuRequests :
        \/ \E text \in AuTexts : validate(r, text)
        \/ register_lookup(r) \/ register_definition(r) \/ RegisterFails(r)
-----------------------------------------------------------------------------
(* Properties *)

\* The fault that the catalog offered is the one that runs, from the same
\* plugin, while nothing was installed or removed in between (scaffold.rs,
\* script.rs); a script plugin under a native plugin's name is another matter.
AuthoredRuns ==
    \A i \in DOMAIN auRun.results :
        LET o == auRun.results[i]
        IN  o.act.role = "method" /\ o.version = auRun.doc.version /\ o.act.plugin \notin NATIVE_PLUGINS =>
                o.why = "-" /\ o.kind = "action" /\ o.root = auRun.doc.root

\* Validation warns about exactly the activities that execution cannot
\* resolve (validate.rs).
ValidationForesees ==
    \A i \in DOMAIN auRun.results :
        auRun.results[i].version = auWarned.version /\ auRun.doc = auWarned.doc =>
            (i \in auWarned.acts <=> auRun.results[i].why # "-")

\* What is listed can be executed, and nothing else as an action ("discovery
\* and execution can never disagree", validate.rs).
DiscoveryAgrees ==
    auFile = NoDocument /\ auNew.pc = "idle" =>
    \A n \in PluginNames \cup DOMAIN AuNative, f \in (UNION {e.actions \cup e.probes : e \in AuEntries}) \cup UNION Range(AuNative) :
        <<n, f>> \in render_discover <=>
            \/ execute_script_provider(Activity("method", "script", n, f, {})).kind = "action"
            \/ execute_native(Activity("method", "native", n, f, {})).why = "-"

\* A script that is started gets every argument that was declared for it
\* (tumult-exec, executor.rs).
ArgumentsArrive ==
    \A i \in DOMAIN auRun.results :
        LET o == auRun.results[i]
        IN  o.kind \in {"action", "probe"} /\ o.env.ok =>
                /\ \A a \in o.act.args : o.env.env[a.base] = "declared"
                /\ AuInjected \subseteq DOMAIN o.env.env
                /\ Cardinality(DOMAIN o.env.env) = Cardinality(o.act.args \cup {[base |-> b, upper |-> FALSE] : b \in AuInjected})

\* What `tumult new` wrote is valid, and a template is filled in with the last
\* value given for each of its parameters (templates.rs, new.rs).
WrittenIsValid ==
    auNew.pc = "written" =>
        /\ auNew.doc.valid
        /\ auNew.doc.template # "-" =>
             /\ all_templates[auNew.doc.template].uses \subseteq DOMAIN auNew.doc.vars
             /\ \A k \in DOMAIN auNew.doc.vars :
                    LET sets == auNew.doc.vars[k][2]
                    IN  \A i \in DOMAIN sets :
                            sets[i].key = k /\ (\A j \in DOMAIN sets : sets[j].key = k => j <= i) =>
                                auNew.doc.vars[k][1] = sets[i].value

\* A registration that succeeded can be looked up, and two rows of one text
\* come only from requests that overlapped (registry.rs).
RegistrySound ==
    /\ \A r \in AuRequests : auReq[r].pc = "done" => \E i \in DOMAIN auRegistry : auRegistry[i].text = auReq[r].text
    /\ \A i, j \in DOMAIN auRegistry : i < j /\ auRegistry[i].text = auRegistry[j].text => auRegistry[j].seen < i

AuthoringSound ==
    AuthoredRuns /\ ValidationForesees /\ DiscoveryAgrees /\ ArgumentsArrive /\ WrittenIsValid /\ RegistrySound
=============================================================================
