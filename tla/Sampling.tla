------------------------------ MODULE Sampling ------------------------------
(* What a run measures: the sampler thread that probes while the method runs, *)
(* the recovery window after it, the results built from the samples, the      *)
(* controls told of every step, and the baselines derived from samples.       *)
(* Probe durations and the telemetry of a sample are left out; a time is a    *)
(* whole number of intervals.                                                 *)
EXTENDS Integers, Sequences, FiniteSets, FiniteSetsExt, SequencesExt, Functions

CONSTANTS
    SpProbes,      \* the hypothesis' probes, in order, of different names
    SpMaxDuring,   \* max_during_samples
    SpTimeout,     \* recovery_timeout
    SpMaxTime,     \* bound: the clock
    SpHandlers,    \* the number of registered controls
    SpActivities,  \* the method: a sequence of [name, background]
    SpLevels,      \* the values a baseline sample can take
    SpMaxSamples   \* bound: samples of a baseline

VARIABLES
    spPc,      \* the runner: "method", "join", "post", "done"
    spThread,  \* the sampler thread: "sampling", "waiting", "ended", "panicked"
    spRound,   \* the samples of the round in progress
    spTaken,   \* the sink: probe -> samples
    spRounds,  \* rounds the thread has finished
    spUp,      \* the system: probes that would pass
    spNow,     \* the clock
    spStart,   \* when the phase started
    spCancel,  \* the caller's token
    spPost,    \* the samples of the recovery window
    spHistory, \* every probe execution of either phase, in order
    spResult   \* the during and the post result

spVars == <<spPc, spThread, spRound, spTaken, spRounds, spUp, spNow, spStart, spCancel, spPost,
            spHistory, spResult>>

Probes == Range(SpProbes)
NoResult == <<>>

SampleInit ==
    /\ spPc = "method" /\ spThread = "sampling" /\ spRound = <<>> /\ spRounds = 0
    /\ spTaken = [p \in Probes |-> <<>>] /\ spPost = [p \in Probes |-> <<>>]
    /\ spUp \in SUBSET Probes /\ spNow = 0 /\ spStart = 0 /\ spCancel = FALSE
    /\ spHistory = [during |-> <<>>, post |-> <<>>]
    /\ spResult = [during |-> NoResult, post |-> NoResult]

\* The next probe of a round; the sample passes when its outcome is within
\* tolerance.
NextSample(phase) ==
    LET p == SpProbes[Len(spRound) + 1]
        sample == [probe |-> p, ok |-> p \in spUp, at |-> spNow]
    IN  /\ Len(spRound) < Len(SpProbes)
        /\ spRound' = Append(spRound, sample)
        /\ spHistory' = [spHistory EXCEPT ![phase] = Append(@, sample)]

append_round(sink, round) ==
    [p \in Probes |-> sink[p] \o SelectSeq(round, LAMBDA s : s.probe = p)]
-----------------------------------------------------------------------------
(* The sampler thread *)

sample_probe_round ==
    /\ spThread = "sampling" /\ NextSample("during")
    /\ UNCHANGED <<spPc, spThread, spTaken, spRounds, spUp, spNow, spStart, spCancel, spPost, spResult>>

\* The executor panics inside a probe: the thread ends, the round is lost.
SamplerPanics ==
    /\ spThread = "sampling" /\ Len(spRound) < Len(SpProbes)
    /\ spThread' = "panicked"
    /\ UNCHANGED <<spPc, spRound, spTaken, spRounds, spUp, spNow, spStart, spCancel, spPost,
                   spHistory, spResult>>

\* A round reaches the sink whole; the last one ends the thread.
collect_during_samples ==
    /\ spThread = "sampling" /\ Len(spRound) = Len(SpProbes)
    /\ spTaken' = append_round(spTaken, spRound)
    /\ spRound' = <<>> /\ spRounds' = spRounds + 1
    /\ spThread' = IF spRounds' = SpMaxDuring THEN "ended" ELSE "waiting"
    /\ UNCHANGED <<spPc, spUp, spNow, spStart, spCancel, spPost, spHistory, spResult>>

\* The wait between rounds ends with the interval or with the sender.
SamplerWakes ==
    /\ spThread = "waiting"
    /\ \/ spPc = "join" /\ spThread' = "ended" /\ UNCHANGED spNow
       \/ spPc = "method" /\ spThread' = "sampling" /\ spNow < SpMaxTime /\ spNow' = spNow + 1
    /\ UNCHANGED <<spPc, spRound, spTaken, spRounds, spUp, spStart, spCancel, spPost, spHistory, spResult>>
-----------------------------------------------------------------------------
(* Results *)

Failures(samples) == {i \in DOMAIN samples : ~samples[i].ok}

build_during_result(sink) ==
    [p \in Probes |->
        [samples |-> Len(sink[p]), breach_count |-> Cardinality(Failures(sink[p])),
         breached_at |-> IF Failures(sink[p]) = {} THEN -1
                         ELSE sink[p][Min(Failures(sink[p]))].at]]

recovery_time_FirstPass(samples, start) ==
    IF Failures(samples) = {} \/ Failures(samples) = DOMAIN samples THEN 0
    ELSE samples[Min(DOMAIN samples \ Failures(samples))].at - start

\* The first passing sample after the last failure, or the last failure.
recovery_time(samples, start) ==
    LET last == Max(Failures(samples))
    IN  IF Failures(samples) = {} THEN 0
        ELSE IF last < Len(samples) THEN samples[last + 1].at - start ELSE samples[last].at - start

build_post_result(sink, start) ==
    LET back(p) == sink[p] # <<>> /\ Last(sink[p]).ok
        time == Max({recovery_time(sink[p], start) : p \in Probes} \cup {0})
    IN  [full_recovery |-> \A p \in Probes : back(p), recovery_time |-> time,
         samples |-> MapThenSumSet(LAMBDA p : Len(sink[p]), Probes),
         mttr |-> IF \A p \in Probes : back(p) THEN time ELSE -1]
-----------------------------------------------------------------------------
(* The runner *)

MethodEnds ==
    /\ spPc = "method" /\ spPc' = "join"
    /\ UNCHANGED <<spThread, spRound, spTaken, spRounds, spUp, spNow, spStart, spCancel, spPost,
                   spHistory, spResult>>

\* The thread is joined; a panic leaves what was collected.
finish_during_sampler ==
    /\ spPc = "join" /\ spThread \in {"ended", "panicked"}
    /\ spResult' = [spResult EXCEPT !.during = build_during_result(spTaken)]
    /\ spPc' = IF spCancel THEN "done" ELSE "post"
    /\ spRound' = <<>> /\ spStart' = spNow
    /\ UNCHANGED <<spThread, spTaken, spRounds, spUp, spNow, spCancel, spPost, spHistory>>

PostSample ==
    /\ spPc = "post" /\ NextSample("post")
    /\ UNCHANGED <<spPc, spThread, spTaken, spRounds, spUp, spNow, spStart, spCancel, spPost, spResult>>

\* A round of the recovery window: it ends the window when every probe passed,
\* the caller cancelled, or the next one would be late.
collect_post_samples ==
    LET recovered == \A i \in DOMAIN spRound : spRound[i].ok
        sink == append_round(spPost, spRound)
    IN  /\ spPc = "post" /\ Len(spRound) = Len(SpProbes)
        /\ spPost' = sink /\ spRound' = <<>>
        /\ IF recovered \/ spCancel \/ spNow + 1 > spStart + SpTimeout
           THEN /\ spPc' = "done" /\ UNCHANGED spNow
                /\ spResult' = [spResult EXCEPT !.post = build_post_result(sink, spStart)]
           ELSE spNow' = spNow + 1 /\ UNCHANGED <<spPc, spResult>>
        /\ UNCHANGED <<spThread, spTaken, spRounds, spUp, spStart, spCancel, spHistory>>

SystemChanges ==
    /\ spUp' \in (SUBSET Probes) \ {spUp} /\ spPc # "done"
    /\ UNCHANGED <<spPc, spThread, spRound, spTaken, spRounds, spNow, spStart, spCancel, spPost,
                   spHistory, spResult>>

\* Probes take time; the caller may cancel at any moment.
TimePasses ==
    /\ spNow < SpMaxTime /\ spNow' = spNow + 1 /\ spPc # "done"
    /\ UNCHANGED <<spPc, spThread, spRound, spTaken, spRounds, spUp, spStart, spCancel, spPost,
                   spHistory, spResult>>
CallerCancels ==
    /\ ~spCancel /\ spCancel' = TRUE /\ spPc # "done"
    /\ UNCHANGED <<spPc, spThread, spRound, spTaken, spRounds, spUp, spNow, spStart, spPost,
                   spHistory, spResult>>

SampleNext ==
    \/ sample_probe_round \/ SamplerPanics \/ collect_during_samples \/ SamplerWakes
    \/ MethodEnds \/ finish_during_sampler \/ PostSample \/ collect_post_samples
    \/ SystemChanges \/ TimePasses \/ CallerCancels
-----------------------------------------------------------------------------
(* Properties of the samples *)

Of(history, p) == SelectSeq(history, LAMBDA s : s.probe = p)

\* The during result tells of every finished round, whatever the thread died
\* of, and of no more rounds than max_during_samples (sampler.rs).
DuringIsWhole ==
    spResult.during # NoResult => \A p \in Probes :
        LET seen == SubSeq(Of(spHistory.during, p), 1, spRounds)
        IN  /\ spRounds <= SpMaxDuring
            /\ spResult.during[p].samples = spRounds
            /\ spResult.during[p].breach_count = Cardinality({i \in 1..spRounds : ~seen[i].ok})
            /\ \A i \in 1..spRounds : ~seen[i].ok =>
                  spResult.during[p].breached_at \in 0..seen[i].at

\* Full recovery is claimed exactly when the last round of the window passed,
\* and the time to it is when the last probe that failed was seen to pass
\* (phases.rs).
RecoveryIsSeen ==
    spResult.post # NoResult =>
        LET r == spResult.post
            bad == {i \in DOMAIN spHistory.post : ~spHistory.post[i].ok}
            n == Len(spHistory.post)
        IN  /\ r.full_recovery = (\A i \in DOMAIN spHistory.post : i > n - Len(SpProbes) => spHistory.post[i].ok)
            /\ r.full_recovery /\ bad # {} =>
                  \E i \in DOMAIN spHistory.post : i > Max(bad) /\ r.mttr = spHistory.post[i].at - spStart
            /\ (r.mttr >= 0) = r.full_recovery
            /\ r.samples = n
            /\ ~r.full_recovery => spCancel \/ spNow + 1 > spStart + SpTimeout

SamplesSound == DuringIsWhole /\ RecoveryIsSeen
-----------------------------------------------------------------------------
(* Controls.  The runner tells every handler of every step; a background     *)
(* activity tells them from its own thread.                                  *)

VARIABLES
    ctPc,    \* the phase the runner is in
    ctNext,  \* the method's next activity
    ctRuns,  \* activities in flight: name -> "no", "began", "over"
    ctSeen,  \* handler -> the events it was given
    ctSent   \* the events emitted

ctVars == <<ctPc, ctNext, ctRuns, ctSeen, ctSent>>

Handlers == 1..SpHandlers
Event(name, act) == <<name, act>>

ControlInit ==
    /\ ctPc = "start" /\ ctNext = 1 /\ ctSent = <<>>
    /\ ctRuns = [i \in DOMAIN SpActivities |-> "no"]
    /\ ctSeen = [h \in Handlers |-> <<>>]

emit_Uncaught(event, dies) ==
    /\ ctSent' = Append(ctSent, event)
    /\ ctSeen' = [h \in Handlers |->
          IF \E d \in dies : d < h THEN ctSeen[h] ELSE Append(ctSeen[h], event)]

\* Every handler is called, in order; one that fails or panics (dies) is
\* logged and the next one called.
emit(event, dies) ==
    /\ ctSent' = Append(ctSent, event)
    /\ ctSeen' = [h \in Handlers |-> Append(ctSeen[h], event)]

\* A phase of the runner is bracketed by a pair of events.
Bracket(from, event, to) ==
    /\ ctPc = from /\ ctPc' = to
    /\ \E dies \in SUBSET Handlers : emit(Event(event, 0), dies)
    /\ UNCHANGED <<ctNext, ctRuns>>

\* run_hypothesis_phase, and the returns before the method.
HypothesisControls ==
    \/ Bracket("start", "before_experiment", "begun")
    \/ Bracket("begun", "before_hypothesis", "hypothesis")
    \/ Bracket("hypothesis", "after_hypothesis", "checked")
    \/ \E from \in {"begun", "checked"} : Bracket(from, "before_method", "method")
    \/ Bracket("checked", "before_rollback", "rollback")
    \/ Bracket("checked", "after_experiment", "returned")

\* An activity begins in order; only a background one lets the next begin.
activity_begins ==
    /\ ctPc = "method" /\ ctNext \in DOMAIN SpActivities
    /\ \A i \in 1..(ctNext - 1) : ~SpActivities[i].background => ctRuns[i] = "over"
    /\ \E dies \in SUBSET Handlers : emit(Event("before_activity", ctNext), dies)
    /\ ctRuns' = [ctRuns EXCEPT ![ctNext] = "began"] /\ ctNext' = ctNext + 1
    /\ UNCHANGED ctPc

activity_ends(i) ==
    /\ ctRuns[i] = "began"
    /\ \E dies \in SUBSET Handlers : emit(Event("after_activity", i), dies)
    /\ ctRuns' = [ctRuns EXCEPT ![i] = "over"]
    /\ UNCHANGED <<ctPc, ctNext>>

MethodControls ==
    \/ activity_begins
    \/ \E i \in DOMAIN SpActivities : activity_ends(i)
    \/ /\ "began" \notin Range(ctRuns)
       /\ Bracket("method", "after_method", "measured")

CleanupControls ==
    \/ Bracket("measured", "before_hypothesis", "judging")
    \/ Bracket("judging", "after_hypothesis", "judged")
    \/ \E from \in {"measured", "judged"} : Bracket(from, "before_rollback", "rollback")
    \/ Bracket("rollback", "after_rollback", "cleaned")
    \/ \E from \in {"measured", "judged", "cleaned"} : Bracket(from, "after_experiment", "returned")

ControlNext == HypothesisControls \/ MethodControls \/ CleanupControls

Opening == {"before_experiment", "before_hypothesis", "before_method", "before_rollback"}

\* Every control is told of every step in the order it happened, also when
\* another one panics, and after the run has returned every activity it was
\* told of has ended inside its method (controls.rs, activity.rs).
ControlsToldAll ==
    /\ \A h \in Handlers : ctSeen[h] = ctSent
    /\ ctPc = "returned" => \A i \in DOMAIN ctSent :
          /\ ctSent[i][1] \in Opening => \E j \in (i + 1)..Len(ctSent) :
                ctSent[j][1] \in {"after_experiment", "after_hypothesis", "after_method", "after_rollback"}
          /\ ctSent[i][1] = "before_activity" => \E j \in (i + 1)..Len(ctSent) :
                /\ ctSent[j] = Event("after_activity", ctSent[i][2])
                /\ \E k \in (j + 1)..Len(ctSent) : ctSent[k][1] = "after_method"
-----------------------------------------------------------------------------
(* Baselines.  Values are whole numbers and every quantity is scaled: 100     *)
(* times a percentile, n times a mean, n - 1 times a variance.                *)

VARIABLES blValues, blErrors

blVars == <<blValues, blErrors>>

BaselineInit == blValues = <<>> /\ blErrors = 0

push_sample(v) == blValues' = Append(blValues, v) /\ UNCHANGED blErrors
push_error == blErrors' = blErrors + 1 /\ UNCHANGED blValues

BaselineNext ==
    /\ Len(blValues) + blErrors < SpMaxSamples
    /\ push_error \/ \E v \in SpLevels : push_sample(v)

Sum(s) == FoldSeq(LAMBDA x, y : x + y, 0, s)
Sorted(s) == SortSeq(s, LAMBDA x, y : x < y)

\* 100 times the percentile, interpolated between two ranks.
percentile_sorted(s, p) ==
    LET rank == p * (Len(s) - 1)
        lower == s[rank \div 100 + 1]
        upper == s[(rank + 99) \div 100 + 1]
    IN  100 * lower + (rank % 100) * (upper - lower)

percentile(s, p) == percentile_sorted(Sorted(s), p)

\* n squared times the sum of squared deviations.
Deviations(s) == Sum([i \in DOMAIN s |-> (Len(s) * s[i] - Sum(s)) * (Len(s) * s[i] - Sum(s))])

\* The coefficient of variation exceeds one half, or the range ten medians.
check_baseline_anomaly(s, min) ==
    \/ Len(s) < min
    \/ Sum(s) # 0 /\ Len(s) > 1 /\ 4 * Deviations(s) > (Len(s) - 1) * Sum(s) * Sum(s)
    \/ percentile(s, 50) > 0 /\ percentile(s, 100) - percentile(s, 0) > 10 * percentile(s, 50)

\* Bounds are the levels they contain.
\* Between the interquartile fences.
derive_iqr_bounds(s) ==
    LET q1 == percentile(s, 25)
        q3 == percentile(s, 75)
    IN  {v \in SpLevels : 2 * q1 - 3 * (q3 - q1) <= 200 * v /\ 200 * v <= 2 * q3 + 3 * (q3 - q1)}

\* At most two standard deviations from the mean; one sample has none.
derive_mean_stddev_bounds(s) ==
    {v \in SpLevels : (Len(s) - 1) * (Len(s) * v - Sum(s)) * (Len(s) * v - Sum(s)) <= 4 * Deviations(s)
                      /\ (Len(s) = 1 => v = s[1])}

derive_tolerance(s, method) ==
    CASE method = "static" -> {v \in SpLevels : v \in 0..1}
      [] method = "percentile" -> {v \in SpLevels : 0 <= v /\ 100 * v <= percentile(s, 95)}
      [] method = "mean_stddev" -> derive_mean_stddev_bounds(s)
      [] method = "iqr" -> derive_iqr_bounds(s)

recovery_index_First(s, bounds) ==
    LET inside == {i \in DOMAIN s : s[i] \in bounds}
    IN  IF inside = {} THEN 0 ELSE Min(inside)

\* The sample from which all stay within the bounds, 0 when there is none.
recovery_index(s, bounds) ==
    LET out == {i \in DOMAIN s : s[i] \notin bounds}
    IN  CASE s = <<>> -> 0
          [] s # <<>> /\ out = {} -> 1
          [] OTHER -> IF Max(out) < Len(s) THEN Max(out) + 1 ELSE 0

derive_baseline(s, method) ==
    IF s = <<>> THEN [ok |-> FALSE]
    ELSE [ok |-> TRUE, p50 |-> percentile(s, 50), p95 |-> percentile(s, 95), p99 |-> percentile(s, 99),
          min |-> Sorted(s)[1], max |-> Last(Sorted(s)), bounds |-> derive_tolerance(s, method),
          anomaly |-> check_baseline_anomaly(s, 3)]

\* A baseline's percentiles are ordered between its extremes, its bounds hold
\* at least half of the samples they were derived from, a constant probe is no
\* anomaly, and from the recovery index on, and not before, every sample is
\* within the bounds (derive.rs, tolerance.rs).
BaselineSound ==
    \A method \in {"static", "percentile", "mean_stddev", "iqr"} :
        LET b == derive_baseline(blValues, method)
            inside == {i \in DOMAIN blValues : blValues[i] \in b.bounds}
            r == recovery_index(blValues, b.bounds)
        IN  b.ok =>
            /\ 100 * b.min <= b.p50 /\ b.p50 <= b.p95 /\ b.p95 <= b.p99 /\ b.p99 <= 100 * b.max
            /\ method # "static" => 2 * Cardinality(inside) >= Len(blValues)
            /\ Cardinality(Range(blValues)) = 1 /\ Len(blValues) >= 3 => ~b.anomaly
            /\ r > 0 => r..Len(blValues) \subseteq inside /\ (r > 1 => (r - 1) \notin inside)
            /\ r = 0 => Len(blValues) \notin inside
=============================================================================
