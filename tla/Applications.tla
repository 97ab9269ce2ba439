---------------------------- MODULE Applications ----------------------------
(***************************************************************************)
(* The Applications page (pages/applications): the sampler that lists the  *)
(* windows of the desktop, the second worker that collects their icons in  *)
(* batches, the pool of icon slots the rows share (icons.rs), and the page *)
(* that merges snapshots and icons into its tasks, sorts them, rewrites    *)
(* the rows of its list and lets the user act on the selected windows.     *)
(*                                                                         *)
(* A window is an identity (handle, process and thread), so that a handle  *)
(* used again is another window.  Titles are places in the alphabet, and   *)
(* the window station and desktop, never shown, are left out.  A row's     *)
(* text is asked of the page when it is painted; its image, its selection  *)
(* and its place are the list view's.  The workers' queueing is the        *)
(* subject of SingleFlight, the threads behind one batch that of IconPool.  *)
(***************************************************************************)
EXTENDS Integers, Sequences, FiniteSets, SequencesExt

CONSTANTS
    Windows,        \* numbers, by which equal keys are sorted
    Open,           \* those open at first
    TitleOf,        \* a function on Windows
    Bare,           \* windows without an icon of their own
    MaxChanges,     \* bound: what happens to the windows
    MaxClicks,      \* bound: what the user does
    MaxCollects,    \* bound: snapshots asked for
    MaxFaults       \* bound: calls that fail

VARIABLES
    open, hung,     \* the windows that are open, those that hang
    changes, clicks, collects, faults,  \* counters behind the bounds
    sampler,        \* the snapshot worker: at, what it found, a request waiting
    collector,      \* the icon worker: at, its batch, its results, the batch waiting
    page,           \* TaskPageState and its list view
    icons,          \* TaskIconStore: the images by slot, the free slots
    pending,        \* pending_icon_identities
    menu,           \* the popup menu: closed, or what it was opened for
    act,            \* the command given last and the windows it fell on
    chosen          \* the windows the user selected, a history

world == <<open, hung>>
lists == <<collector, page, icons, pending>>
vars == <<world, changes, clicks, collects, faults, sampler, lists, menu, act, chosen>>

Waiting == [at |-> "idle", rows |-> {}, ok |-> TRUE, queued |-> FALSE]
Collector == [at |-> "idle", batch |-> {}, ok |-> TRUE, found |-> {}, queue |-> {}]
NoAct == [on |-> {}, for |-> {}]

Init ==
    /\ open = Open /\ hung = {}
    /\ changes = 0 /\ clicks = 0 /\ collects = 0 /\ faults = 0
    /\ sampler = Waiting /\ collector = Collector
    /\ page = [tasks |-> << >>, displayed |-> << >>, images |-> << >>, marked |-> {},
               count |-> 0, column |-> "name", descending |-> FALSE, first |-> TRUE]
    /\ icons = [images |-> << >>, free |-> << >>] /\ pending = {}
    /\ menu = "closed" /\ act = NoAct /\ chosen = {}

Fault == faults < MaxFaults /\ faults' = faults + 1
Click == clicks < MaxClicks /\ clicks' = clicks + 1

-----------------------------------------------------------------------------
(* The desktop, and the two workers.                                       *)

WindowChanges ==
    /\ changes < MaxChanges /\ changes' = changes + 1
    /\ \E w \in Windows :
         \/ w \in open /\ open' = open \ {w} /\ hung' = hung \ {w}
         \/ w \notin open /\ open' = open \union {w} /\ UNCHANGED hung
         \/ w \in open /\ hung' = (hung \union {w}) \ (hung \intersect {w}) /\ UNCHANGED open
    /\ UNCHANGED <<clicks, collects, faults, sampler, lists, menu, act, chosen>>

\* collect_tasks_worker: a window whose process cannot be identified is left
\* out, and its error reported beside the others.
Sample ==
    /\ sampler.at = "asked"
    /\ \/ \E lost \in SUBSET open :
            /\ faults' = faults + Cardinality(lost) /\ faults' <= MaxFaults
            /\ sampler' = [sampler EXCEPT !.at = "done", !.ok = TRUE,
                             !.rows = {[w |-> w, hung |-> w \in hung] : w \in open \ lost}]
       \/ Fault /\ sampler' = [sampler EXCEPT !.at = "done", !.ok = FALSE, !.rows = {}]
    /\ UNCHANGED <<world, changes, clicks, collects, lists, menu, act, chosen>>

\* TaskIconExecutor::collect: an icon is kept when the window is still the one
\* asked for; a worker that panicked fails the batch.
CollectIcons ==
    /\ collector.at = "asked"
    /\ \/ collector' = [collector EXCEPT !.at = "done", !.ok = TRUE,
                          !.found = collector.batch \intersect open]
          /\ UNCHANGED faults
       \/ Fault /\ collector' = [collector EXCEPT !.at = "done", !.ok = FALSE, !.found = {}]
    /\ UNCHANGED <<world, changes, clicks, collects, sampler, page, icons, pending, menu, act, chosen>>

-----------------------------------------------------------------------------
(* TaskIconStore.  Slot 0 is the default icon.                             *)

\* allocate: the slot freed last, or one more.
Slot(store) == IF store.free = << >> THEN Len(store.images) + 1 ELSE Last(store.free)

\* Mutant: the slot is read from the list of free slots and not taken out of it.
AllocatedAndFree(store, w) ==
    IF w \in Bare THEN store
    ELSE IF store.free = << >> THEN [store EXCEPT !.images = Append(@, w)]
    ELSE [store EXCEPT !.images[Last(store.free)] = w]

Allocated(store, w) ==
    IF w \in Bare THEN store
    ELSE IF store.free = << >> THEN [store EXCEPT !.images = Append(@, w)]
    ELSE [images |-> [store.images EXCEPT ![Last(store.free)] = w], free |-> Front(store.free)]

\* release, in the order of the slots; a slot whose icon could not be replaced
\* is not used again.
Released(store, slots) ==
    [images |-> [s \in DOMAIN store.images |-> IF s \in slots THEN 0 ELSE store.images[s]],
     free |-> store.free \o [i \in 1..Cardinality(slots) |->
                CHOOSE s \in slots : Cardinality({t \in slots : t < s}) = i - 1]]

-----------------------------------------------------------------------------
(* The tasks and their rows.                                               *)

Marked(p) == {p.tasks[i].w : i \in p.marked \intersect DOMAIN p.tasks}

\* compare_tasks.
Key(t, column) == IF column = "name" THEN TitleOf[t.w] ELSE IF t.hung THEN 1 ELSE 0
Precedes(t, u, p) ==
    LET less == \/ Key(t, p.column) < Key(u, p.column)
                \/ Key(t, p.column) = Key(u, p.column) /\ t.w < u.w
    IN  IF p.descending THEN t # u /\ ~less ELSE less

InOrder(ts, p) == [i \in 1..Cardinality(ts) |->
                     CHOOSE t \in ts : Cardinality({u \in ts : Precedes(u, t, p)}) = i - 1]

\* resort_tasks.
Resorted(p) == [p EXCEPT !.tasks = InOrder({p.tasks[i] : i \in DOMAIN p.tasks}, p)]

\* update_task_listview: a row that shows another window is replaced, with its
\* image and its selection; a row of the same window keeps them.
UpdateListview(p, selected) ==
    LET n == Len(p.tasks)
        same(i) == i \in DOMAIN p.displayed /\ p.displayed[i] = p.tasks[i].w
        takesFirst(i) == p.first /\ selected = {} /\ i = 1 /\ p.images = << >>
        marked == {i \in 1..n : IF same(i) THEN i \in p.marked
                                ELSE p.tasks[i].w \in selected \/ takesFirst(i)}
    IN  [p EXCEPT !.images = [i \in 1..n |-> IF same(i) THEN p.images[i] ELSE p.tasks[i].slot],
                  !.displayed = [i \in 1..n |-> p.tasks[i].w],
                  !.marked = marked, !.count = Cardinality(marked), !.first = FALSE]

\* The order may have changed: a task came, went, or the sorted value changed.
SortDirty(rows, p) ==
    \/ {r.w : r \in rows} # {p.tasks[i].w : i \in DOMAIN p.tasks}
    \/ p.column = "status" /\ \E r \in rows, i \in DOMAIN p.tasks :
                                 p.tasks[i].w = r.w /\ p.tasks[i].hung # r.hung

\* apply_task_snapshot: the tasks known keep their icons, those gone return
\* their slots.  Lost are the slots that could not be released.
Merged(rows, p) ==
    LET task(r) == [w |-> r.w, hung |-> r.hung, slot |-> 0, loaded |-> FALSE]
        known(r) == {i \in DOMAIN p.tasks : p.tasks[i].w = r.w}
        ts == {IF known(r) = {} THEN task(r)
               ELSE [p.tasks[CHOOSE i \in known(r) : TRUE] EXCEPT !.hung = r.hung] : r \in rows}
        here(t) == \E r \in rows : r.w = t.w
        kept == [i \in DOMAIN p.tasks |-> CHOOSE t \in ts : t.w = p.tasks[i].w]
    IN  [p EXCEPT !.tasks = IF SortDirty(rows, p) THEN InOrder(ts, p) ELSE kept]

Gone(rows, p) == {p.tasks[i].slot : i \in {j \in DOMAIN p.tasks :
                     \A r \in rows : r.w # p.tasks[j].w}} \ {0}

\* merge_task_icon_batches.
MergedBatches(queue, batch) == queue \union batch

\* schedule_icon_collection, of the icons neither loaded nor on their way.
Schedule(c, wanted) ==
    IF wanted = {} THEN c
    ELSE IF c.at = "idle" THEN [Collector EXCEPT !.at = "asked", !.batch = wanted]
    ELSE [c EXCEPT !.queue = MergedBatches(@, wanted)]

-----------------------------------------------------------------------------
(* refresh_tasks and handle_worker_completion drain the snapshots first,   *)
(* then the icons.                                                         *)

Rested == IF sampler.at # "done" THEN sampler
          ELSE IF sampler.queued THEN [Waiting EXCEPT !.at = "asked"] ELSE Waiting

NextBatch(c) == IF c.at # "done" THEN c
                ELSE IF c.queue = {} THEN Collector
                ELSE [Collector EXCEPT !.at = "asked", !.batch = c.queue]

\* apply_task_icon_completion: a window may be asked for again.
Answered(batch) == batch

\* apply_task_icon_results: the icons of the windows still listed and still the
\* same, on the row of the task's place; a task whose icon found no slot is
\* asked for again.
WithIcon(w, state) ==
    LET i == CHOOSE j \in DOMAIN state.page.tasks : state.page.tasks[j].w = w
        slot == IF w \in Bare THEN 0 ELSE Slot(state.icons)
    IN  [page |-> [state.page EXCEPT !.tasks[i].slot = slot, !.tasks[i].loaded = TRUE,
                     !.images = [j \in DOMAIN @ |-> IF j = i THEN slot ELSE @[j]]],
         icons |-> Allocated(state.icons, w)]

Drain(p) ==
    LET fresh == sampler.at = "done" /\ sampler.ok
        gone == IF fresh THEN Gone(sampler.rows, p) ELSE {}
        shown == IF fresh THEN UpdateListview(Merged(sampler.rows, p), Marked(p)) ELSE p
        listed == {shown.tasks[i].w : i \in DOMAIN shown.tasks}
        unloaded == {shown.tasks[i].w : i \in {j \in DOMAIN shown.tasks : ~shown.tasks[j].loaded}}
        wanted == IF fresh THEN unloaded \ pending ELSE {}
        answered == collector.at = "done"
        found == IF answered /\ collector.ok THEN collector.found \intersect listed \intersect open
                 ELSE {}
    IN  \E lost \in SUBSET (gone \union found) :
          /\ faults' = faults + Cardinality(lost) /\ faults' <= MaxFaults
          /\ LET store == Released(icons, gone \ lost)
                 end == FoldSet(WithIcon, [page |-> shown, icons |-> store], found \ lost)
             IN  page' = end.page /\ icons' = end.icons
          /\ collector' = NextBatch(Schedule(collector, wanted))
          /\ pending' = (pending \union wanted)
                         \ (IF answered THEN Answered(collector.batch) ELSE {})
          /\ chosen' = IF p.first /\ fresh THEN Marked(shown) ELSE chosen

Complete ==
    /\ sampler.at = "done" \/ collector.at = "done"
    /\ Drain(page) /\ sampler' = Rested
    /\ UNCHANGED <<world, changes, clicks, collects, menu, act>>

Asked == IF Rested.at = "idle" THEN [Waiting EXCEPT !.at = "asked"]
         ELSE [Rested EXCEPT !.queued = TRUE]

\* timer_event: an open menu pauses the refreshes, not what is under way.
TimerEvent ==
    /\ menu = "closed"
    /\ collects < MaxCollects /\ collects' = collects + 1
    /\ Drain(page) /\ sampler' = Asked
    /\ UNCHANGED <<world, changes, clicks, menu, act>>

-----------------------------------------------------------------------------
(* The user.                                                               *)

SelectRows ==
    /\ menu = "closed" /\ Click
    /\ \E rows \in SUBSET DOMAIN page.tasks :
         /\ page' = [page EXCEPT !.marked = rows, !.count = Cardinality(rows)]
         /\ chosen' = {page.tasks[i].w : i \in rows}
    /\ UNCHANGED <<world, changes, collects, faults, sampler, collector, icons, pending, menu, act>>

\* LVN_COLUMNCLICK: the tasks are sorted at once, then refresh_tasks.
Turned(p, c) == Resorted([p EXCEPT !.column = c, !.descending = IF p.column = c THEN ~@ ELSE TRUE])

ColumnClick ==
    /\ menu = "closed" /\ Click /\ collects < MaxCollects /\ collects' = collects + 1
    /\ \E c \in {"name", "status"} : Drain(Turned(page, c))
    /\ sampler' = Asked
    /\ UNCHANGED <<world, changes, menu, act>>

\* show_context_menu.
OpenMenu ==
    /\ menu = "closed" /\ Click
    /\ menu' = IF page.count > 0 THEN "windows" ELSE "view"
    /\ UNCHANGED <<world, changes, collects, faults, sampler, lists, act, chosen>>

CloseMenu ==
    /\ menu # "closed" /\ menu' = "closed"
    /\ UNCHANGED <<world, changes, clicks, collects, faults, sampler, lists, act, chosen>>

\* selected_hwnds: what window_matches_actionable_identity still finds.
Targets(selectedOnly) ==
    IF selectedOnly THEN Marked(page) \intersect open
    ELSE {page.tasks[i].w : i \in DOMAIN page.tasks} \intersect open

\* handle_command: End Task and Bring To Front fall on the selected windows,
\* Switch To and Go To Process on the first of them; tiling, cascading,
\* minimizing and maximizing fall on all windows when none is selected.
Command ==
    /\ menu # "view" /\ Click
    /\ \E kind \in {"selected", "first", "arrange"} :
         LET on == Targets(kind # "arrange" \/ page.count > 0) IN
         act' = [on |-> IF kind # "first" \/ on = {} THEN on
                        ELSE {page.tasks[CHOOSE i \in page.marked :
                                \A j \in page.marked : j < i => page.tasks[j].w \notin open].w}
                          \intersect on,
                 for |-> IF menu = "windows" \/ kind # "arrange" \/ page.count > 0
                         THEN chosen ELSE Windows]
    /\ menu' = "closed"
    /\ UNCHANGED <<world, changes, collects, faults, sampler, lists, chosen>>

Next ==
    \/ WindowChanges \/ Sample \/ CollectIcons \/ Complete \/ TimerEvent
    \/ SelectRows \/ ColumnClick \/ OpenMenu \/ CloseMenu \/ Command

Spec == Init /\ [][Next]_vars

-----------------------------------------------------------------------------
\* An image slot is never shared: a task's slot holds the icon of its own
\* window and is not free, no two tasks have one slot, and no slot is free
\* twice, whatever windows came and went while their icons were collected
\* (TaskIconStore, apply_task_icon_results, remove_stale_tasks).
SlotsAreNotShared ==
    /\ \A i \in DOMAIN page.tasks : page.tasks[i].slot # 0 =>
         /\ icons.images[page.tasks[i].slot] = page.tasks[i].w
         /\ \A k \in DOMAIN icons.free : icons.free[k] # page.tasks[i].slot
    /\ \A k, l \in DOMAIN icons.free : k # l => icons.free[k] # icons.free[l]

\* A window marked pending really is on its way through the icon worker, and
\* the other way round, so that no icon is forgotten and none is collected
\* twice at a time (pending_icon_identities, merge_task_icon_batches).
PendingIconsAreOnTheWay == pending = collector.batch \union collector.queue

\* Although the tasks are sorted again only when a snapshot seems to ask for
\* it, they are in the order the user chose (apply_task_snapshot).
TasksAreSorted == page.tasks = Resorted(page).tasks

\* A command falls on windows the user selected: "the window identities are
\* saved before the list is replaced, so that the selection is not passed on"
\* (apply_task_snapshot).
ActsOnTheChosen == act.on \subseteq act.for
=============================================================================
