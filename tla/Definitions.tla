---------------------------- MODULE Definitions ----------------------------
(* From a definition to what is executed: resolution of configuration and     *)
(* secrets, template substitution, validation, risk tiers, approval pins,     *)
(* and the recovery plan that a restart rolls back from,                      *)
(* while the daemon's environment changes under every one of these steps.     *)
(* A hash is the value it is computed from; a value is a model string and     *)
(* DfMalformed holds the ones that are no well-formed plugin name.            *)
EXTENDS Integers, Sequences, FiniteSets, FiniteSetsExt, SequencesExt, Functions

CONSTANTS
    DfDocs,       \* the definitions
    DfValues,     \* the values the daemon's variables and files can take
    DfMalformed,  \* the values that hold separators or whitespace
    DfVars,       \* the --var maps a request may carry: placeholder -> value
    DfKeyRank,    \* the order of the configuration and secret keys
    DfEnvName,    \* the variable a key is injected as, "-" when it is no identifier
    DfMaxFaults   \* bound: changes of the host, and crashes

DfNone == "none"
DfNothing == [hash |-> <<>>, key |-> -1]
DfRedacted == "[REDACTED]"

\* A parsed definition: three lists of activities, with texts of tokens.
DfWithFields(r, fields) == Restrict(r, DOMAIN r) = r /\ fields \subseteq DOMAIN r
DfText(text) == \A i \in DOMAIN text : DfWithFields(text[i], {"t", "ns", "v"})
DfActs(acts) ==
    /\ acts \in Seq(Range(acts))
    /\ \A i \in DOMAIN acts : /\ DfWithFields(acts[i], {"name", "kind", "owner", "args"})
                               /\ DfText(acts[i].owner) /\ DfText(acts[i].args)
ASSUME DfDocsAssumption ==
    \A doc \in DfDocs : /\ DfWithFields(doc, {"method", "rollbacks", "probes", "config", "secrets"})
                        /\ DfActs(doc.method) /\ DfActs(doc.rollbacks) /\ DfActs(doc.probes)

\* The values of the host are told apart from what the definitions, the --var
\* maps and the messages say.
DfTexts(doc) == UNION {{a.owner, a.args} : a \in Range(doc.method \o doc.rollbacks \o doc.probes)}
DfInline(doc) == {k \in DOMAIN doc.config : doc.config[k].from = "inline"}
DfTokens(text) == {text[i].v : i \in DOMAIN text}
DfSaid(doc) ==
    (UNION {DfTokens(text) : text \in DfTexts(doc)}) \cup {doc.config[k].v : k \in DfInline(doc)}
DfStages == {"config", "secrets", "template", "validate", "environment", "binding", "owner",
             "changed", "preview", "refused", "dispatch"}
ASSUME DfValuesAssumption ==
    /\ \A doc \in DfDocs : DfSaid(doc) \cap DfValues = {}
    /\ \A vars \in DfVars : Range(vars) \cap DfValues = {}
    /\ DfStages \cap DfValues = {} /\ DfRedacted \notin DfValues /\ DfNone \notin DfValues

VARIABLES
    dfHost,     \* variables and files: name -> value or DfNone
    dfPolicy,   \* the bindings file and the owner: [bound, owner]
    dfKey,      \* generation of the preview key, renewed by a restart
    dfPreview,  \* the last dry run of a client: [hash, key] or DfNothing
    dfPc, dfRun,\* the run: where it stands, and its row and worker's copy
    dfDone,     \* the activities that ran: [phase, act, injected]
    dfShown,    \* the values the last answer or stored error shows
    dfFaults

dfVars == <<dfHost, dfPolicy, dfKey, dfPreview, dfPc, dfRun, dfDone, dfShown, dfFaults>>

DfHostNames == {"E", "F"}

\* The run's document and variables, the hash and tier of its row, its plan
\* and what the worker prepared from it.
DfNoRun == [doc |-> DfNone, vars |-> DfNone, hash |-> DfNone, tier |-> -1, approved |-> FALSE,
            plan |-> DfNone, exp |-> DfNone, injected |-> DfNone, i |-> 0, dispatched |-> -1,
            token |-> <<>>]

DfInit ==
    /\ dfHost \in [DfHostNames -> {CHOOSE v \in DfValues : v \notin DfMalformed}]
    /\ dfPolicy \in [bound : BOOLEAN, owner : {"nobody", "free", "scoped"}]
    /\ dfKey = 0 /\ dfPreview = DfNothing
    /\ dfPc = "idle" /\ dfRun = DfNoRun
    /\ dfDone = <<>> /\ dfShown = {} /\ dfFaults = 0
-----------------------------------------------------------------------------
(* Configuration and secrets *)

Failed(stage) == [ok |-> FALSE, stage |-> stage]
Good(v) == [ok |-> TRUE, v |-> v]

\* The value of every entry, or the failure of the first that has none.
Resolved(entries, stage) ==
    LET value(e) == IF e.from = "inline" THEN e.v ELSE dfHost[e.v]
    IN  IF \E k \in DOMAIN entries : value(entries[k]) = DfNone THEN Failed(stage)
        ELSE Good([k \in DOMAIN entries |-> value(entries[k])])

resolve_config(doc) == Resolved(doc.config, "config")
resolve_secrets(doc) == Resolved(doc.secrets, "secrets")

\* One variable per name: of the keys that become one name the first in order
\* is injected, the others and the ones that are no identifiers are skipped.
build_prefixed_env(values, prefix) ==
    LET injected == {k \in DOMAIN values : DfEnvName[k] # "-" /\ \A j \in DOMAIN values :
                        DfEnvName[j] = DfEnvName[k] => DfKeyRank[k] <= DfKeyRank[j]}
    IN  {[name |-> <<prefix, DfEnvName[k]>>, v |-> values[k]] : k \in injected}

Injected(config, secrets) ==
    build_prefixed_env(config, "TUMULT_CONFIG_") \cup build_prefixed_env(secrets, "TUMULT_SECRET_")
-----------------------------------------------------------------------------
(* Templates.  A text is a sequence of tokens: literals, placeholders         *)
(* [ns, key], and escaped placeholders.                                       *)

Lit(v) == [t |-> "lit", ns |-> DfNone, v |-> v]

lookup_var(ns, key, vars, config, secrets) ==
    IF <<ns, key>> \in DOMAIN vars THEN vars[<<ns, key>>]
    ELSE CASE ns = "config" /\ key \in DOMAIN config -> config[key]
           [] ns = "secrets" /\ key \in DOMAIN secrets -> secrets[key]
           [] OTHER -> DfNone

\* One pass: a value that looks like a placeholder is not expanded again, and
\* an escaped placeholder becomes a literal one.
substitute_vars(text, vars, config, secrets) ==
    [i \in DOMAIN text |->
        CASE text[i].t = "lit" -> text[i]
          [] text[i].t = "esc" -> [text[i] EXCEPT !.t = "raw"]
          [] text[i].t = "var" -> Lit(lookup_var(text[i].ns, text[i].v, vars, config, secrets))
          [] OTHER -> text[i]]

\* Every activity of an experiment, in the order validation visits them.
Activities(exp) == exp.method \o exp.rollbacks \o exp.probes
Texts(act) == {act.owner, act.args}

apply_template_vars(exp, vars, config, secrets) ==
    LET sub(text) == substitute_vars(text, vars, config, secrets)
        each(acts) == [i \in DOMAIN acts |->
                          [acts[i] EXCEPT !.owner = sub(@), !.args = sub(@)]]
        new == [exp EXCEPT !.method = each(@), !.rollbacks = each(@), !.probes = each(@)]
    IN  IF \E a \in Range(Activities(new)) : \E text \in Texts(a) : Lit(DfNone) \in Range(text)
        THEN Failed("template") ELSE Good(new)
-----------------------------------------------------------------------------
(* Validation *)

ToleranceFormed(tol) == tol \notin {"bad regex", "from > to"}

\* Non-empty, and no separator, "..", null byte or whitespace.
validate_script_name(text) ==
    text # <<>> /\ \A tok \in Range(text) : tok.v \notin DfMalformed

validate_experiment(exp) ==
    /\ exp.version = "v1"
    /\ exp.method # <<>>
    /\ exp.cap # 0
    /\ exp.hypothesis => exp.probes # <<>>
    /\ \A g \in Range(exp.guards) : g.min > 0 /\ g.tol # DfNone /\ ToleranceFormed(g.tol)
    /\ \A a \in Range(Activities(exp)) :
          ToleranceFormed(a.tol) /\ (a.kind = "script" => validate_script_name(a.owner))

prepare_definition_RawChecked(doc, vars, config) ==
    LET secrets == resolve_secrets(doc)
        exp == apply_template_vars(doc, vars, config, secrets.v)
    IN  CASE ~secrets.ok -> secrets
          [] secrets.ok /\ ~exp.ok -> exp
          [] secrets.ok /\ exp.ok /\ ~validate_experiment(doc) -> Failed("validate")
          [] OTHER -> Good([exp |-> exp.v, injected |-> Injected(config, secrets.v)])

prepare_definition(doc, vars, config) ==
    LET secrets == resolve_secrets(doc)
        exp == IF vars = <<>> /\ config = <<>> /\ secrets.v = <<>> THEN Good(doc)
               ELSE apply_template_vars(doc, vars, config, secrets.v)
    IN  CASE ~secrets.ok -> secrets
          [] secrets.ok /\ ~exp.ok -> exp
          [] secrets.ok /\ exp.ok /\ ~validate_experiment(exp.v) -> Failed("validate")
          [] OTHER -> Good([exp |-> exp.v, injected |-> Injected(config, secrets.v)])

prepare_run(doc, vars) ==
    LET config == resolve_config(doc)
    IN  IF ~config.ok THEN config ELSE prepare_definition(doc, vars, config.v)

preview_experiment_Resolved(doc, vars) ==
    apply_template_vars(doc, vars, resolve_config(doc).v, resolve_secrets(doc).v)

\* What a client sees of an experiment: the values of variables and files are
\* never read for it.
preview_experiment(doc, vars) ==
    LET config == [k \in DOMAIN doc.config |->
                      IF doc.config[k].from = "inline" THEN doc.config[k].v ELSE DfRedacted]
        secrets == [k \in DOMAIN doc.secrets |-> DfRedacted]
    IN  apply_template_vars(doc, vars, config, secrets)

execution_hash(p) == p

\* The text of an experiment as a set of values.
Values(exp) == UNION {{tok.v : tok \in UNION {Range(text) : text \in Texts(a)}}
                        : a \in Range(Activities(exp))}
-----------------------------------------------------------------------------
(* Risk tiers *)

introspect(exp) ==
    LET actions == {a \in Range(exp.method) : a.type = "action"}
    IN  [faults |-> actions, kinds |-> {<<a.owner, a.function>> : a \in actions},
         rollback |-> exp.rollbacks # <<>>,
         destructive |-> \E a \in actions : a.function = "kill"]

\* An environment is the sequence of its name's parts, separators included.
PRODUCTION_WORDS == {<<"prod">>, <<"production">>, <<"live">>}
STAGING_WORDS == {<<"staging">>, <<"stage">>, <<"stg">>, <<"preprod">>, <<"pre", "-", "prod">>, <<"uat">>}
matches_class_word(env, word) ==
    IsPrefix(word, env) /\ (Len(env) > Len(word) => env[Len(word) + 1] \in {"-", "_", "."})

env_class(env) ==
    CASE \E w \in PRODUCTION_WORDS : matches_class_word(env, w) -> "production"
      [] \E w \in STAGING_WORDS : matches_class_word(env, w) -> "staging"
      [] OTHER -> "other"

classify(env, shape) ==
    IF shape.faults = {} THEN 0
    ELSE CASE \/ env_class(env) = "production" \/ ~shape.rollback
              \/ Cardinality(shape.kinds) > 1 -> 3
           [] env_class(env) = "staging" \/ shape.destructive -> 2
           [] OTHER -> 1

\* dfPolicy.bound: the bindings file holds the execution for its environment.
\* An execution nobody has reviewed is of the highest tier.
classify_bound(p, env, requires) ==
    CASE env = <<>> -> Failed("environment")
      [] requires /\ ~dfPolicy.bound -> Failed("binding")
      [] env # <<>> /\ ~requires /\ ~dfPolicy.bound -> Good(3)
      [] OTHER -> Good(classify(env, introspect(p.exp)))

actor_requires_binding ==
    IF dfPolicy.owner = "disabled" THEN Failed("owner") ELSE Good(dfPolicy.owner = "scoped")
-----------------------------------------------------------------------------
(* Requests *)

Show(values) == dfShown' = values

\* POST /api/runs/dry-run: the preview and a keyed token, never the hash.
dry_run(doc, vars) ==
    LET p == prepare_run(doc, vars)
        preview == preview_experiment(doc, vars)
    IN  /\ dfPc = "idle" /\ dfPreview = DfNothing
        /\ IF ~p.ok THEN Show({p.stage}) /\ UNCHANGED dfPreview
           ELSE IF ~preview.ok THEN Show({"preview"}) /\ UNCHANGED dfPreview
           ELSE Show(Values(preview.v)) /\ dfPreview' = [hash |-> execution_hash(p.v), key |-> dfKey]
        /\ UNCHANGED <<dfHost, dfPolicy, dfKey, dfPc, dfRun, dfDone, dfFaults>>

\* POST /api/runs, first half: the inputs are resolved, compared with the
\* client's preview and classified; a client that made a dry run sends its
\* token.
create_classify(doc, vars, token) ==
    LET p == prepare_run(doc, vars)
        tier == classify_bound(p.v, doc.env, dfPolicy.owner = "scoped")
        current == [hash |-> execution_hash(p.v), key |-> dfKey]
    IN  /\ dfPc = "idle" /\ token = (dfPreview # DfNothing)
        /\ IF ~p.ok THEN Show({p.stage}) /\ UNCHANGED <<dfPc, dfRun>>
           ELSE IF (token /\ dfPreview # current) \/ ~tier.ok
                THEN Show({"refused"}) /\ UNCHANGED <<dfPc, dfRun>>
           ELSE /\ dfPc' = "classified"
                /\ dfRun' = [DfNoRun EXCEPT !.doc = doc, !.vars = vars, !.tier = tier.v,
                                !.hash = execution_hash(p.v),
                                !.token = IF token THEN dfPreview.hash ELSE <<>>]
                /\ UNCHANGED dfShown
        /\ UNCHANGED <<dfHost, dfPolicy, dfKey, dfPreview, dfDone, dfFaults>>

\* Second half, in the queue: resolved again, refused when the hash moved.
request_gated_checked ==
    LET p == prepare_run(dfRun.doc, dfRun.vars)
        tier == classify_bound(p.v, dfRun.doc.env, FALSE)
        go == p.ok /\ tier.ok /\ tier.v <= dfRun.tier /\ execution_hash(p.v) = dfRun.hash
    IN  /\ dfPc = "classified" /\ dfRun.tier > 0
        /\ dfPc' = IF go THEN "pending" ELSE "refused"
        /\ UNCHANGED <<dfHost, dfPolicy, dfKey, dfPreview, dfRun, dfDone, dfShown, dfFaults>>

enqueue_checked ==
    LET p == prepare_run(dfRun.doc, dfRun.vars)
    IN  /\ dfPc = "classified" /\ dfRun.tier = 0
        /\ dfPc' = IF p.ok /\ execution_hash(p.v) = dfRun.hash THEN "queued" ELSE "refused"
        /\ UNCHANGED <<dfHost, dfPolicy, dfKey, dfPreview, dfRun, dfDone, dfShown, dfFaults>>

\* The approvals of the tier's quorum are in.
Approve ==
    /\ dfPc = "pending" /\ dfPc' = "queued"
    /\ dfRun' = [dfRun EXCEPT !.approved = TRUE]
    /\ UNCHANGED <<dfHost, dfPolicy, dfKey, dfPreview, dfDone, dfShown, dfFaults>>
-----------------------------------------------------------------------------
(* The worker *)

\* RecoveryPlan::capture: the definition, the variables and the hash of the
\* resolved configuration; no secret.
capture(doc, vars) ==
    LET config == resolve_config(doc)
    IN  IF ~config.ok THEN config ELSE Good([doc |-> doc, vars |-> vars, config |-> config.v])

prepare_plan_Unchecked(plan) ==
    LET config == resolve_config(plan.doc)
    IN  IF ~config.ok THEN config ELSE prepare_definition(plan.doc, plan.vars, config.v)

\* RecoveryPlan::prepare: refuses a configuration that has changed.
prepare_plan(plan) ==
    LET config == resolve_config(plan.doc)
    IN  CASE ~config.ok -> config
          [] config.ok /\ config.v # plan.config -> Failed("changed")
          [] OTHER -> prepare_definition(plan.doc, plan.vars, config.v)

Fail(stage) ==
    /\ dfPc' = "failed" /\ Show({stage})
    /\ UNCHANGED <<dfHost, dfPolicy, dfKey, dfPreview, dfRun, dfDone, dfFaults>>

CapturePlan ==
    LET plan == capture(dfRun.doc, dfRun.vars)
    IN  /\ dfPc = "queued"
        /\ \/ ~plan.ok /\ Fail(plan.stage)
           \/ /\ plan.ok /\ dfPc' = "captured"
              /\ dfRun' = [dfRun EXCEPT !.plan = plan.v]
              /\ UNCHANGED <<dfHost, dfPolicy, dfKey, dfPreview, dfDone, dfShown, dfFaults>>

PrepareRun ==
    LET p == prepare_plan(dfRun.plan)
    IN  /\ dfPc = "captured"
        /\ \/ ~p.ok /\ Fail(p.stage)
           \/ /\ p.ok /\ dfPc' = "prepared"
              /\ dfRun' = [dfRun EXCEPT !.exp = p.v.exp, !.injected = p.v.injected]
              /\ UNCHANGED <<dfHost, dfPolicy, dfKey, dfPreview, dfDone, dfShown, dfFaults>>

validate_dispatch_context_TierOnly ==
    LET owner == actor_requires_binding
        p == [exp |-> dfRun.exp, injected |-> dfRun.injected]
        tier == classify_bound(p, dfRun.doc.env, owner.ok /\ owner.v)
    IN  /\ dfPc = "prepared" /\ dfPc' = "method"
        /\ owner.ok /\ tier.ok /\ tier.v <= (IF dfRun.approved THEN dfRun.tier ELSE 0)
        /\ dfRun' = [dfRun EXCEPT !.i = 1, !.dispatched = tier.v]
        /\ UNCHANGED <<dfHost, dfPolicy, dfKey, dfPreview, dfDone, dfShown, dfFaults>>

\* The owner, the hash and the tier once more; then the durable start.
validate_dispatch_context ==
    LET owner == actor_requires_binding
        trusted == dfPolicy.owner = "nobody" /\ ~dfRun.approved
        p == [exp |-> dfRun.exp, injected |-> dfRun.injected]
        tier == classify_bound(p, dfRun.doc.env, owner.ok /\ owner.v)
        approved == IF dfRun.approved THEN dfRun.tier ELSE 0
        go == /\ owner.ok /\ execution_hash(p) = dfRun.hash
              /\ trusted \/ (tier.ok /\ tier.v <= approved)
    IN  /\ dfPc = "prepared"
        /\ \/ ~go /\ Fail("dispatch")
           \/ /\ go /\ dfPc' = "method"
              /\ dfRun' = [dfRun EXCEPT !.i = 1, !.dispatched = IF trusted THEN 0 ELSE tier.v]
              /\ UNCHANGED <<dfHost, dfPolicy, dfKey, dfPreview, dfDone, dfShown, dfFaults>>
-----------------------------------------------------------------------------
(* Execution *)

Ran(phase, act) ==
    dfDone' = Append(dfDone, [phase |-> phase, act |-> act, injected |-> dfRun.injected])

ExecuteActivity ==
    LET acts == IF dfPc = "method" THEN dfRun.exp.method ELSE dfRun.exp.rollbacks
    IN  /\ dfPc \in {"method", "rollback", "recovery"}
        /\ IF dfRun.i \in DOMAIN acts
           THEN /\ Ran(dfPc, acts[dfRun.i])
                /\ dfRun' = [dfRun EXCEPT !.i = @ + 1] /\ UNCHANGED dfPc
           ELSE /\ dfPc' = IF dfPc = "method" THEN "rollback" ELSE "ended"
                /\ dfRun' = [dfRun EXCEPT !.i = 1] /\ UNCHANGED dfDone
        /\ UNCHANGED <<dfHost, dfPolicy, dfKey, dfPreview, dfShown, dfFaults>>

\* After a restart an orphan is prepared from its stored plan.
prepare_orphan ==
    LET p == prepare_plan(dfRun.plan)
    IN  /\ dfPc = "orphaned"
        /\ \/ ~p.ok /\ Fail(p.stage)
           \/ /\ p.ok /\ dfPc' = "recovery"
              /\ dfRun' = [dfRun EXCEPT !.exp = p.v.exp, !.injected = p.v.injected, !.i = 1]
              /\ UNCHANGED <<dfHost, dfPolicy, dfKey, dfPreview, dfDone, dfShown, dfFaults>>
-----------------------------------------------------------------------------
(* The host *)

HostChanges ==
    /\ dfFaults < DfMaxFaults /\ dfFaults' = dfFaults + 1
    /\ \/ /\ \E n \in DfHostNames, v \in DfValues \cup {DfNone} : dfHost' = [dfHost EXCEPT ![n] = v]
          /\ UNCHANGED dfPolicy
       \/ /\ dfPolicy' \in {[dfPolicy EXCEPT !.bound = ~@],
                           [dfPolicy EXCEPT !.owner = IF @ = "nobody" THEN @ ELSE "disabled"]}
          /\ UNCHANGED dfHost
    /\ UNCHANGED <<dfKey, dfPreview, dfPc, dfRun, dfDone, dfShown>>

\* A crash loses the worker's copy and the preview key; what had not begun is
\* requested again by its client, or dispatched again from its row.
DaemonCrashes ==
    /\ dfFaults < DfMaxFaults /\ dfFaults' = dfFaults + 1
    /\ dfKey' = dfKey + 1
    /\ dfPc' = CASE dfPc \in {"method", "rollback", "recovery"} -> "orphaned"
                 [] dfPc \in {"queued", "captured", "prepared"} -> "failed"
                 [] dfPc = "classified" -> "refused"
                 [] OTHER -> dfPc
    /\ dfRun' = [dfRun EXCEPT !.exp = DfNone, !.injected = DfNone]
    /\ UNCHANGED <<dfHost, dfPolicy, dfPreview, dfDone, dfShown>>

DfNext ==
    \/ \E doc \in DfDocs, vars \in DfVars : dry_run(doc, vars)
    \/ \E doc \in DfDocs, vars \in DfVars, token \in BOOLEAN : create_classify(doc, vars, token)
    \/ request_gated_checked \/ enqueue_checked \/ Approve
    \/ CapturePlan \/ PrepareRun \/ validate_dispatch_context
    \/ ExecuteActivity \/ prepare_orphan
    \/ HostChanges \/ DaemonCrashes
-----------------------------------------------------------------------------
(* Properties *)

Phase(p) == {d \in Range(dfDone) : d.phase = p}

\* Whatever changes on the host between preview, request, approval and
\* dispatch, the method that runs is what was hashed then, in a tier that was
\* approved (validate_dispatch_context, worker.rs).
ExecutedIsApproved ==
    \A d \in Phase("method") :
        /\ d.act \in Range(dfRun.hash.exp.method) /\ d.injected = dfRun.hash.injected
        /\ dfRun.token # <<>> => dfRun.token = dfRun.hash
        /\ dfRun.dispatched <= (IF dfRun.approved THEN dfRun.tier ELSE 0)

\* The places of a text that a secret fills.
SecretPlaces(text) == {i \in DOMAIN text : text[i].t = "var" /\ text[i].ns = "secrets"}

\* Cleanup after a restart acts on the targets the method acted on: its
\* texts are those of the execution, except where a secret was rotated
\* (recovery_plan.rs).
RecoverySameTargets ==
    LET raw == dfRun.doc.rollbacks
        old == dfRun.hash.exp.rollbacks
        same(new, was, text) == \A i \in DOMAIN text \ SecretPlaces(text) : new[i] = was[i]
    IN  \A d \in Phase("recovery") : \E j \in DOMAIN raw :
            /\ d.act.name = raw[j].name
            /\ same(d.act.owner, old[j].owner, raw[j].owner)
            /\ same(d.act.args, old[j].args, raw[j].args)

\* Nothing that runs was left unsubstituted, or names a plugin outside the
\* search path (validate_script_name).
ExecutedIsWellFormed ==
    \A d \in Range(dfDone) :
        /\ d.act.kind = "script" => validate_script_name(d.act.owner)
        /\ d.injected # {} => \A text \in Texts(d.act) : \A tok \in Range(text) : tok.t # "var"

\* No client and no stored error shows a value of a variable or a file of the
\* host (preview_experiment, prepare_for_api, preparation_error).
HostStaysHidden == dfShown \cap DfValues = {}

DefinitionsSound ==
    /\ ExecutedIsApproved
    /\ RecoverySameTargets
    /\ ExecutedIsWellFormed
    /\ HostStaysHidden
=============================================================================
