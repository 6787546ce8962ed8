-------------------------------- MODULE Tui --------------------------------
(***************************************************************************)
(* The terminal UI over the store (tumult-tui/src): one thread that takes  *)
(* a key or, when it is live, reads the store again.  Each read opens the  *)
(* store anew, between the writers of other processes, and may be refused. *)
(* The overlay of the help, the mark of new rows, the line that says what  *)
(* failed and all drawing are left out; a refresh by the clock is one by   *)
(* key.                                                                    *)
(***************************************************************************)
EXTENDS Integers, Sequences, FiniteSets, FiniteSetsExt, SequencesExt, Functions

CONSTANTS
    TuRow,       \* experiment -> [started_at_ns, duration_ms, status, resilience, title]
    TuFirst,     \* the experiments stored when the UI starts
    TuLeaving,   \* those that a purge may take
    TuGraphs,    \* the graph after each refresh of it: kind -> its nodes in order
    TuLetters,   \* what is typed into the title filter
    TuMaxQuery,  \* bound: its length
    TuMaxKinds,  \* bound: the count of node kinds stepped through
    TuMarked     \* bound: the experiments that are marked

VARIABLES
    tuStore,  \* the store: experiments, version of the graph, whether an open is refused
    tuApp,    \* App
    tuPc      \* "keys", "neighbors" (of the node under the cursor) or "quit"

tuVars == <<tuStore, tuApp, tuPc>>

TuExperiments == DOMAIN TuRow
Tabs == <<"experiments", "analytics", "chaosgraph", "compliance">>
GraphTabs == {"chaosgraph", "compliance"}
GRAPH_KINDS == <<"experiment", "fault", "service", "journal", "coverage_gap", "compliance_article">>
COMPLIANCE_KINDS == <<"compliance_article", "coverage_gap">>
CYCLE == <<"", "pass", "deviated", "fail", "aborted">>
SortKeys == <<"time", "duration", "status", "resilience">>
Statuses == <<"aborted", "completed", "deviated", "failed", "halted", "interrupted">>

\* The one after x in a cycle.
NextIn(cycle, x) == cycle[(IndexFirstSubSeq(<<x>>, cycle) % Len(cycle)) + 1]
Wrap(at, delta, len) == (at + delta) % len
-----------------------------------------------------------------------------
(* Rows: what is listed, and in which order *)

\* The labels of the outcome classes, in the words of the status filter.
outcome_class(status) ==
    CASE status = "completed" -> "pass"
      [] status = "deviated" -> "deviated"
      [] status = "failed" -> "fail"
      [] status \in {"aborted", "halted"} -> "aborted"
      [] OTHER -> "unknown"

title_contains(title, query) ==
    \E i \in 0 .. Len(title) - Len(query) : SubSeq(title, i + 1, i + Len(query)) = query

matches_filter(e, status, query) ==
    /\ status \in {"", outcome_class(TuRow[e].status), TuRow[e].status}
    /\ title_contains(TuRow[e].title, query)

\* Which row a key puts first; equal statuses have the later one first, and a
\* missing resilience is below every score.
RowBefore(key, d, e) ==
    LET status(x) == IndexFirstSubSeq(<<TuRow[x].status>>, Statuses) IN
    CASE key = "time" -> TuRow[d].started_at_ns < TuRow[e].started_at_ns
      [] key = "duration" -> TuRow[d].duration_ms < TuRow[e].duration_ms
      [] key = "status" -> \/ status(d) < status(e)
                           \/ status(d) = status(e) /\ TuRow[d].started_at_ns > TuRow[e].started_at_ns
      [] key = "resilience" -> TuRow[d].resilience < TuRow[e].resilience

\* The sort is stable; the descending order is the ascending one reversed.
sort_experiments(rows, key, asc) ==
    LET order == SetToSortSeq(DOMAIN rows, LAMBDA i, j :
                     RowBefore(key, rows[i], rows[j]) \/ (~RowBefore(key, rows[j], rows[i]) /\ i < j))
        sorted == [i \in DOMAIN rows |-> rows[order[i]]]
    IN  IF asc THEN sorted ELSE Reverse(sorted)

filter_indices(rows, status, query) ==
    SetToSortSeq({i \in DOMAIN rows : matches_filter(rows[i], status, query)}, <)

apply_sort_filter(a) ==
    LET rows == sort_experiments(a.experiments, a.sort_key, a.sort_asc)
        shown == filter_indices(rows, a.status_filter, a.title_filter)
        at == IF shown = <<>> THEN 0 ELSE Min({a.selected, Len(shown) - 1})
    IN  [a EXCEPT !.experiments = rows, !.filtered = shown, !.selected = at,
                  !.table = IF shown = <<>> THEN -1 ELSE at]

\* The experiment under the cursor, if there is one.
selected_experiment(a) ==
    IF a.selected < Len(a.filtered) THEN <<a.experiments[a.filtered[a.selected + 1]]>> ELSE <<>>

reselect_by_id(a, was) ==
    LET at == {k \in DOMAIN a.filtered : <<a.experiments[a.filtered[k]]>> = was}
    IN  IF at = {} THEN a ELSE [a EXCEPT !.selected = Min(at) - 1, !.table = Min(at) - 1]

load_experiments(held) ==
    SetToSortSeq(held, LAMBDA d, e : TuRow[d].started_at_ns > TuRow[e].started_at_ns)

\* Mutant: the cursor keeps its place instead of its row.
refresh_KeepsPlace(a, store) ==
    IF store.busy THEN a
    ELSE apply_sort_filter([a EXCEPT !.experiments = load_experiments(store.held)])

\* A refused open leaves the old rows.
refresh(a, store) ==
    IF store.busy THEN a
    ELSE reselect_by_id(
           apply_sort_filter([a EXCEPT !.experiments = load_experiments(store.held)]),
           selected_experiment(a))
-----------------------------------------------------------------------------
(* The graph *)

graph_kind(a) ==
    LET kinds == IF a.tab = "compliance" THEN COMPLIANCE_KINDS ELSE GRAPH_KINDS
    IN  kinds[(a.kind_idx % Len(kinds)) + 1]

load_graph(a, store) ==
    LET nodes == IF store.busy THEN <<>> ELSE TuGraphs[store.graph][graph_kind(a)]
    IN  IF store.busy THEN [a EXCEPT !.graph_nodes = <<>>]
        ELSE IF nodes = <<>>
        THEN [a EXCEPT !.graph_nodes = <<>>, !.graph_state = -1, !.neighbors = <<>>]
        ELSE [a EXCEPT !.graph_nodes = nodes, !.graph_state = 0]

\* The neighbours are read by an open of their own.
ShowGraph(a) == tuApp' = a /\ tuPc' = IF a.graph_nodes = <<>> THEN "keys" ELSE "neighbors"

load_graph_neighbors ==
    LET node == tuApp.graph_nodes[tuApp.graph_state + 1]
        known == \E k \in DOMAIN TuGraphs[tuStore.graph] : node \in Range(TuGraphs[tuStore.graph][k])
    IN  /\ tuPc = "neighbors" /\ tuPc' = "keys"
        /\ tuApp' = [tuApp EXCEPT !.neighbors =
                        IF tuStore.busy \/ ~known THEN <<>> ELSE <<node, tuStore.graph>>]
        /\ UNCHANGED tuStore
-----------------------------------------------------------------------------
(* Keys *)

NewApp ==
    [experiments |-> load_experiments(TuFirst), filtered |-> <<>>, tab |-> "experiments",
     view |-> "list", selected |-> 0, table |-> -1, sort_key |-> "time", sort_asc |-> FALSE,
     status_filter |-> "", title_filter |-> <<>>, input |-> "none", detail |-> <<>>, marks |-> {},
     kind_idx |-> 0, graph_nodes |-> <<>>, graph_state |-> -1, neighbors |-> <<>>]

TuInit ==
    /\ tuStore = [held |-> TuFirst, graph |-> 1, busy |-> FALSE]
    /\ tuApp = load_graph(apply_sort_filter(NewApp), tuStore)
    /\ tuPc = IF tuApp.graph_nodes = <<>> THEN "keys" ELSE "neighbors"

\* A key outside of the title filter.
Pressed == tuPc = "keys" /\ tuApp.input = "none" /\ UNCHANGED tuStore
InList == Pressed /\ tuApp.tab = "experiments" /\ tuApp.view = "list"
InGraph == Pressed /\ tuApp.tab \in GraphTabs
Becomes(a) == tuApp' = a /\ UNCHANGED tuPc

\* `q` on a list, and Ctrl-C.
Quit == Pressed /\ tuPc' = "quit" /\ UNCHANGED tuApp

Refresh == Pressed /\ Becomes(refresh(tuApp, tuStore))

\* Esc leaves a page, or clears the filters of the list.
Escape ==
    /\ Pressed
    /\ IF tuApp.view # "list" THEN Becomes([tuApp EXCEPT !.view = "list"])
       ELSE /\ tuApp.tab = "experiments" /\ (tuApp.title_filter # <<>> \/ tuApp.status_filter # "")
            /\ Becomes(apply_sort_filter([tuApp EXCEPT !.title_filter = <<>>, !.status_filter = ""]))

\* The numbers, Tab and Shift-Tab.
switch_tab(tab) ==
    LET a == [tuApp EXCEPT !.tab = tab, !.view = "list"]
    IN  /\ Pressed
        /\ IF tab \in GraphTabs THEN ShowGraph(load_graph([a EXCEPT !.kind_idx = 0], tuStore))
           ELSE Becomes(a)

move_selection(delta) ==
    LET next == Wrap(tuApp.selected, delta, Len(tuApp.filtered))
    IN  /\ InList /\ tuApp.filtered # <<>>
        /\ Becomes([tuApp EXCEPT !.selected = next, !.table = next])

\* The activities of the experiment under the cursor, none when the store is busy.
enter_detail ==
    LET exp == selected_experiment(tuApp)
    IN  /\ InList /\ exp # <<>>
        /\ Becomes([tuApp EXCEPT !.view = "detail",
                       !.detail = IF tuStore.busy \/ exp[1] \notin tuStore.held THEN <<>> ELSE exp])

CycleSort ==
    /\ InList
    /\ \/ Becomes(apply_sort_filter([tuApp EXCEPT !.sort_key = NextIn(SortKeys, @)]))
       \/ Becomes(apply_sort_filter([tuApp EXCEPT !.sort_asc = ~@]))

cycle_status_filter ==
    InList /\ Becomes(apply_sort_filter([tuApp EXCEPT !.status_filter = NextIn(CYCLE, @)]))

toggle_mark ==
    LET exp == ToSet(selected_experiment(tuApp))
        marks == IF exp \subseteq tuApp.marks THEN tuApp.marks \ exp ELSE tuApp.marks \cup exp
    IN  InList /\ marks \subseteq TuMarked /\ Becomes([tuApp EXCEPT !.marks = marks])

Compare == InList /\ tuApp.marks # {} /\ Becomes([tuApp EXCEPT !.view = "compare"])

\* `q` and Backspace on a page.
LeavePage == Pressed /\ tuApp.view # "list" /\ Becomes([tuApp EXCEPT !.view = "list"])

\* In the title filter every key is text, or edits or ends it.
handle_title_input ==
    LET typed(query) == apply_sort_filter([tuApp EXCEPT !.title_filter = query])
        query == tuApp.title_filter
    IN  /\ tuPc = "keys" /\ tuApp.input = "title" /\ UNCHANGED tuStore
        /\ \/ Becomes([typed(<<>>) EXCEPT !.input = "none"])
           \/ Becomes([tuApp EXCEPT !.input = "none"])
           \/ Becomes(typed(IF query = <<>> THEN query ELSE Front(query)))
           \/ \E c \in TuLetters : Len(query) < TuMaxQuery /\ Becomes(typed(Append(query, c)))

Slash == InList /\ Becomes([tuApp EXCEPT !.input = "title"])

move_graph_selection(delta) ==
    LET next == Wrap(Max({tuApp.graph_state, 0}), delta, Len(tuApp.graph_nodes))
    IN  /\ InGraph
        /\ IF tuApp.graph_nodes = <<>> THEN Becomes([tuApp EXCEPT !.graph_state = -1])
           ELSE ShowGraph([tuApp EXCEPT !.graph_state = next])

\* `s` and Right, `h` and Left; to the left of the first kind is the last.
CycleKind ==
    LET last == IF tuApp.tab = "compliance" THEN 1 ELSE Len(GRAPH_KINDS) - 1
        left == IF tuApp.kind_idx = 0 THEN last ELSE tuApp.kind_idx - 1
    IN  /\ InGraph
        /\ \E k \in {tuApp.kind_idx + 1, left} :
             k < TuMaxKinds /\ ShowGraph(load_graph([tuApp EXCEPT !.kind_idx = k], tuStore))
-----------------------------------------------------------------------------
(* Other processes *)

Elsewhere == tuPc # "quit" /\ UNCHANGED <<tuApp, tuPc>>

\* A writer takes or gives back the lock of the file.
FileLocked == Elsewhere /\ tuStore' = [tuStore EXCEPT !.busy = ~@]

RowsChange ==
    /\ Elsewhere /\ ~tuStore.busy
    /\ \/ \E e \in TuExperiments \ TuFirst : tuStore' = [tuStore EXCEPT !.held = @ \cup {e}]
       \/ tuStore' = [tuStore EXCEPT !.held = @ \ TuLeaving]

GraphRefreshed ==
    Elsewhere /\ ~tuStore.busy /\ \E g \in DOMAIN TuGraphs : tuStore' = [tuStore EXCEPT !.graph = g]

\* The keys of the history and of the pages opened from it, once the graph below
\* it was read at the start.
HistoryNext ==
    \/ \E tab \in ToSet(Tabs) \ GraphTabs : switch_tab(tab)
    \/ \E delta \in {-1, 1} : move_selection(delta)
    \/ Refresh \/ Escape \/ enter_detail \/ CycleSort \/ cycle_status_filter \/ toggle_mark
    \/ Compare \/ LeavePage \/ handle_title_input \/ Slash
    \/ (tuPc = "keys" /\ FileLocked) \/ RowsChange \/ load_graph_neighbors

\* The keys of the graph.
BrowserNext ==
    \/ \E tab \in ToSet(Tabs) : switch_tab(tab)
    \/ \E delta \in {-1, 1} : move_graph_selection(delta)
    \/ CycleKind \/ Refresh \/ Quit \/ FileLocked \/ GraphRefreshed \/ load_graph_neighbors

TuSpec == TuInit /\ [][HistoryNext \/ BrowserNext]_tuVars
-----------------------------------------------------------------------------
(* Properties *)

\* The rows below the header are those the filters let through, in the order
\* the header names, and the highlighted one is the one that keys act on.
HistoryAgrees ==
    LET a == tuApp
        shown == [k \in DOMAIN a.filtered |-> a.experiments[a.filtered[k]]]
    IN  /\ \A e \in Range(a.experiments) :
             e \in Range(shown) <=> matches_filter(e, a.status_filter, a.title_filter)
        /\ \A i, j \in DOMAIN shown : i < j =>
             IF a.sort_asc THEN ~RowBefore(a.sort_key, shown[j], shown[i])
             ELSE ~RowBefore(a.sort_key, shown[i], shown[j])
        /\ a.table = IF shown = <<>> THEN -1 ELSE a.selected
        /\ shown # <<>> => a.selected \in 0 .. Len(shown) - 1

\* A refresh of a store that still has the row under the cursor stays on it,
\* wherever the row has moved to.
RefreshKeepsRow ==
    LET was == selected_experiment(tuApp)
        next == refresh(tuApp, tuStore)
    IN  was # <<>> /\ was[1] \in tuStore.held => selected_experiment(next) = was

\* A page is one of the history, which takes text only beneath a list; and the
\* detail page heads the timeline of one experiment with that experiment, as
\* long as the list has it.
PagesAgree ==
    LET a == tuApp
    IN  /\ a.view # "list" \/ a.input = "title" => a.tab = "experiments"
        /\ a.input = "title" => a.view = "list"
        /\ a.view = "detail" /\ a.detail # <<>> =>
             selected_experiment(a) = a.detail \/ a.detail[1] \notin Range(a.experiments)

\* The nodes are of the kind the title names, and the edges beside them are
\* those of the highlighted node, although both are read apart.
GraphAgrees ==
    LET a == tuApp
    IN  tuPc = "keys" /\ a.tab \in GraphTabs /\ a.graph_nodes # <<>> =>
          /\ \E g \in DOMAIN TuGraphs : a.graph_nodes = TuGraphs[g][graph_kind(a)]
          /\ a.graph_state \in 0 .. Len(a.graph_nodes) - 1
          /\ a.neighbors # <<>> => a.neighbors[1] = a.graph_nodes[a.graph_state + 1]

(* What one screen shows is of one experiment, one order and one node, whatever
   keys are pressed while other processes write: the highlighted row is the one
   that keys act on and a refresh keeps, a detail page is of the experiment that
   heads it, and the edges are those of the highlighted node (app.rs). *)
ScreensSound == HistoryAgrees /\ RefreshKeepsRow /\ PagesAgree /\ GraphAgrees
=============================================================================
