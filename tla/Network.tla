------------------------------- MODULE Network -------------------------------
(***************************************************************************)
(* The Networking page (pages/network.rs): the worker that reads the       *)
(* interface table, the snapshot that replaces the adapters and carries    *)
(* their counters and histories over, the list below the graphs that is    *)
(* rewritten only where it changed, and the graph panes with their titles  *)
(* and the scroll bar that chooses which adapters they show.               *)
(*                                                                         *)
(* A system interface is a row of the table: rows may share an interface   *)
(* index, and a row keeps its LUID, so that the row itself stands for the  *)
(* AdapterIdentity.  Rates are abstracted to the interval they cover, and  *)
(* the state and link texts to one figure.  BeginDeferWindowPos is taken   *)
(* to succeed: size_page returns early without it, when the panes are      *)
(* counted anew and neither the scroll bar nor the titles follow yet.      *)
(***************************************************************************)
EXTENDS Integers, Sequences, FiniteSets, FiniteSetsExt

CONSTANTS
    Rows,           \* interfaces, numbers
    Connected,      \* those there at first
    IndexOf,        \* InterfaceIndex, a function on Rows
    RankOf,         \* raw_adapter_rank, a function on Rows
    Heights,        \* heights the graph area may have
    MaxSamples,     \* bound: collections
    MaxFaults,      \* bound: collections that fail
    MaxChanges      \* bound: changes of the system, the window and the scroll position

VARIABLES
    present, name,  \* the interface table; the alias of each row
    clock, faults, changes,     \* counters behind the bounds
    worker,         \* at, the snapshot and its sampled_at
    adapters,       \* NetworkPageState::adapters
    lastSample,     \* last_sample_time, 0 for None
    list,           \* the list view: rows with their lParam and text
    height,         \* of the graph area
    panes,          \* graphs: the title of each pane created so far
    perPage,        \* graphs_per_page
    first,          \* first_visible_adapter
    bar             \* the scroll bar's nMax and nPos

world == <<present, name>>
layout == <<height, panes, perPage, first, bar>>
vars == <<world, clock, faults, changes, worker, adapters, lastSample, list, layout>>

Idle == [at |-> "idle", rows |-> << >>, sampled |-> 0, ok |-> TRUE, queued |-> FALSE]

Init ==
    /\ present = Connected /\ name = [r \in Rows |-> 0]
    /\ clock = 0 /\ faults = 0 /\ changes = 0
    /\ worker = Idle /\ adapters = << >> /\ lastSample = 0 /\ list = << >>
    /\ height \in Heights /\ panes = << >> /\ perPage = 0 /\ first = 0
    /\ bar = [max |-> 0, pos |-> 0]

Change == changes < MaxChanges /\ changes' = changes + 1

\* An interface comes, goes or is renamed.
SystemChanges ==
    /\ Change
    /\ \/ \E r \in Rows : present' = (present \union {r}) \ (present \intersect {r})
                          /\ UNCHANGED name
       \/ \E r \in present : name' = [name EXCEPT ![r] = 1 - @] /\ UNCHANGED present
    /\ UNCHANGED <<clock, faults, worker, adapters, lastSample, list, layout>>

-----------------------------------------------------------------------------
(* The worker.                                                             *)

\* collapse_raw_adapters: one row per interface index, the best ranked.
Collapsed(rows) ==
    {r \in rows : \A s \in rows : IndexOf[s] = IndexOf[r] => RankOf[s] <= RankOf[r]}

InOrder(rows) == [i \in 1..Cardinality(rows) |->
                    CHOOSE r \in rows : Cardinality({s \in rows : IndexOf[s] < IndexOf[r]}) = i - 1]

\* The time is taken before the table is read.
Collect ==
    /\ worker.at = "asked"
    /\ \E moved \in {{}} \union {{r} : r \in present} :
         worker' = [worker EXCEPT !.at = "done", !.sampled = clock + 1, !.ok = TRUE,
                      !.rows = [r \in present |->
                                    [name |-> name[r], figure |-> Cardinality(moved \intersect {r})]]]
    /\ clock' = clock + 1
    /\ UNCHANGED <<world, faults, changes, adapters, lastSample, list, layout>>

CollectFails ==
    /\ worker.at = "asked" /\ faults < MaxFaults
    /\ faults' = faults + 1
    /\ worker' = [worker EXCEPT !.at = "done", !.ok = FALSE, !.rows = << >>, !.sampled = clock + 1]
    /\ clock' = clock + 1
    /\ UNCHANGED <<world, changes, adapters, lastSample, list, layout>>

-----------------------------------------------------------------------------
(* Layout: size_page, label_graphs, first_visible_adapter.                 *)

MinGraphHeight == 120

GraphsPerPage(h, count) ==
    IF h <= 0 \/ count = 0 THEN 0
    ELSE LET average == Max({h \div count, MinGraphHeight})
         IN  IF h > average THEN h \div average ELSE 1

Least(a, b) == IF a < b THEN a ELSE b

\* The first adapter a pane shows; draw_graph and label_graphs ask for it.
FirstVisible(count, page, wanted) ==
    IF count = 0 \/ page = 0 THEN 0 ELSE Least(wanted, count - Least(page, count))

NoTitle == [row |-> 0, name |-> 0]
TitleOf(as, i) == IF i \in DOMAIN as THEN [row |-> as[i].row, name |-> as[i].name] ELSE NoTitle

Labelled(as, ps, page, wanted) ==
    [p \in DOMAIN ps |-> IF p <= page THEN TitleOf(as, FirstVisible(Len(as), page, wanted) + p)
                         ELSE ps[p]]

\* Panes are created as they are needed and never taken away.  The scroll bar
\* gets a new range only when it is needed; SetScrollInfo keeps its position
\* inside the range.
SizePage(h, as) ==
    LET page == GraphsPerPage(h, Len(as))
        ps == panes \o [i \in 1..(page - Len(panes)) |-> NoTitle]
    IN  /\ perPage' = page
        /\ panes' = Labelled(as, ps, page, first)
        /\ bar' = IF Len(as) > page
                  THEN [max |-> Len(as) - page, pos |-> Least(bar.pos, Len(as) - page)] ELSE bar
        /\ UNCHANGED first

-----------------------------------------------------------------------------
(* apply_adapter_snapshot.                                                 *)

Known(r) == \E i \in DOMAIN adapters : adapters[i].row = r
AdapterOf(r) == adapters[CHOOSE i \in DOMAIN adapters : adapters[i].row = r]

\* The counters advance since the adapter's previous counters, over the time
\* since the previous snapshot.
Adapter(r) ==
    LET raw == worker.rows[r] IN
    [row |-> r, name |-> raw.name, figure |-> raw.figure, read |-> worker.sampled,
     counted |-> IF Known(r) THEN AdapterOf(r).read ELSE 0,
     elapsed |-> IF Known(r) THEN lastSample ELSE 0,
     dirty |-> Known(r) => AdapterOf(r).name # raw.name \/ AdapterOf(r).figure # raw.figure]

ListRow(a) == [index |-> IndexOf[a.row], name |-> a.name, figure |-> a.figure, row |-> a.row]

\* update_listview: a row whose lParam is the adapter's index is rewritten only
\* if the adapter is dirty.
Rewritten(i, as) ==
    IF i \in DOMAIN list /\ list[i].index = IndexOf[as[i].row] /\ ~as[i].dirty THEN list[i]
    ELSE ListRow(as[i])

\* adapter_labels_changed, or another order.
LabelsChanged(as) ==
    \/ \E i \in DOMAIN as : Known(as[i].row) => AdapterOf(as[i].row).name # as[i].name
    \/ [i \in DOMAIN as |-> as[i].row] # [i \in DOMAIN adapters |-> adapters[i].row]

\* The panes follow in the layout the snapshot calls for.
ApplySnapshot ==
    LET ids == InOrder(Collapsed(DOMAIN worker.rows))
        as == [i \in DOMAIN ids |-> Adapter(ids[i])]
    IN  /\ adapters' = as
        /\ lastSample' = worker.sampled
        /\ list' = [i \in DOMAIN as |-> Rewritten(i, as)]
        /\ IF lastSample = 0 \/ Len(as) # Len(adapters) THEN SizePage(height, as)
           ELSE /\ panes' = IF LabelsChanged(as) THEN Labelled(as, panes, perPage, first) ELSE panes
                /\ UNCHANGED <<perPage, first, bar>>
        /\ UNCHANGED height

\* Mutant: the interval starts anew with a failed sample.
FailureMovesTime == lastSample' = worker.sampled /\ UNCHANGED <<adapters, list, layout>>

\* A failed sample leaves everything shown as it was.
KeepSnapshot == UNCHANGED <<lastSample, adapters, list, layout>>

Drained == IF worker.at # "done" THEN UNCHANGED <<adapters, lastSample, list, layout>>
           ELSE IF worker.ok THEN ApplySnapshot ELSE KeepSnapshot
AfterDrain == IF worker.at # "done" THEN worker
              ELSE IF worker.queued THEN [Idle EXCEPT !.at = "asked"] ELSE Idle

Complete ==
    /\ worker.at = "done"
    /\ Drained /\ worker' = AfterDrain
    /\ UNCHANGED <<world, clock, faults, changes>>

\* timer_event: drain, then ask for a collection.
TimerEvent ==
    /\ clock < MaxSamples
    /\ Drained
    /\ worker' = IF AfterDrain.at = "idle" THEN [Idle EXCEPT !.at = "asked"]
                 ELSE [AfterDrain EXCEPT !.queued = TRUE]
    /\ UNCHANGED <<world, clock, faults, changes>>

\* The window is resized, or its title is switched (apply_options).
Resize ==
    /\ Change
    /\ \E h \in Heights \ {height} : height' = h /\ SizePage(h, adapters)
    /\ UNCHANGED <<world, clock, faults, worker, adapters, lastSample, list>>

\* handle_vscroll, handle_mouse_wheel: the position stays inside the range.
Scroll ==
    /\ Change
    /\ \E pos \in 0..bar.max :
         /\ bar.pos # pos \/ first # pos
         /\ bar' = [bar EXCEPT !.pos = pos]
         /\ first' = pos
         /\ panes' = IF first = pos THEN panes ELSE Labelled(adapters, panes, perPage, pos)
    /\ UNCHANGED <<world, clock, faults, worker, adapters, lastSample, list, height, perPage>>

Next == SystemChanges \/ Collect \/ CollectFails \/ Complete \/ TimerEvent \/ Resize \/ Scroll

Spec == Init /\ [][Next]_vars

-----------------------------------------------------------------------------
\* A throughput divides bytes and seconds of the same interval, whatever
\* collections failed and whichever adapters came and went in between
\* (apply_adapter_snapshot, adapter_counter_delta).
RatesSpanOneInterval ==
    \A i \in DOMAIN adapters : adapters[i].counted = adapters[i].elapsed

\* The list shows the adapters, one row for each interface index, although only
\* rows that seem to have changed are rewritten (update_listview).
ListShowsTheAdapters ==
    /\ list = [i \in DOMAIN adapters |-> ListRow(adapters[i])]
    /\ \A i, j \in DOMAIN list : i # j => list[i].index # list[j].index

\* The title of a graph is the name of the adapter whose history it draws:
\* "the titles follow the visible adapters, and change with the scrolling"
\* (label_graphs, draw_graph).  With BeginDeferWindowPos failing they would not.
TitlesNameTheGraphs ==
    \A p \in DOMAIN panes : p <= perPage =>
      panes[p] = TitleOf(adapters, FirstVisible(Len(adapters), perPage, first) + p)
=============================================================================
