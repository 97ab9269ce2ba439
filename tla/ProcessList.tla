----------------------------- MODULE ProcessList -----------------------------
(***************************************************************************)
(* The list of the Processes page: the sampler that walks the processes,   *)
(* measures their CPU share and finds their account names                  *)
(* (pages/processes/sampler.rs), the rows with their cached texts and      *)
(* change marks (model.rs), and the page that merges a snapshot into its   *)
(* rows, sorts them, keeps the selection and repaints the virtual list     *)
(* (mod.rs).                                                               *)
(*                                                                         *)
(* A process is an incarnation: two of them may share a PID, one after the *)
(* other.  Three columns stand for the sixteen: the image name, which is   *)
(* always there, the account name, which is looked up, and the CPU share,  *)
(* which is a difference.  The session, which WTS compares as well once a   *)
(* former collection has left it, is left out.                             *)
(* The worker's queueing is the subject of SingleFlight.                   *)
(***************************************************************************)
EXTENDS Integers, Sequences, FiniteSets, SequencesExt

CONSTANTS
    Processes,      \* incarnations
    Running,        \* those that run at first
    PidOf, ImageOf, UserOf,     \* functions on Processes, into Nat \ {0}
    MaxCollects,    \* bound: collections begun
    MaxFaults,      \* bound: queries that fail
    MaxClicks       \* bound: clicks of the user

\* A row's identity is the PID and, when it could be read, the creation time.
Unread == "unread"
Identity(pid, created) == [pid |-> pid, created |-> created]
None == Identity(0, Unread)
Verified(id) == id.created # Unread
Columns == {"image", "user", "cpu"}

VARIABLES
    alive, past,        \* the processes that run, those that have run
    clock,              \* the system's CPU time, a number of collections
    faults, clicks,     \* counters behind the bounds
    worker,             \* where the worker is, what it has, whether a request waits
    baseline,           \* previous_samples: when each identity was sampled last
    systemTime,         \* previous_system_time, 0 for None
    names,              \* cache.metadata: identities with a resolved user
    page,               \* ProcessPageState and its list view
    header              \* how the columns were dragged since the last save

world == <<alive, past>>
sampler == <<baseline, systemTime, names>>
vars == <<world, clock, faults, clicks, worker, sampler, page, header>>

Idle == [at |-> "idle", left |-> {}, rows |-> {}, ok |-> TRUE, queued |-> FALSE]

Init ==
    /\ alive = Running /\ past = Running /\ clock = 0 /\ faults = 0 /\ clicks = 0
    /\ worker = Idle
    /\ baseline = << >> /\ systemTime = 0 /\ names = << >>
    /\ \E s \in {"pid", "cpu"} : page =
              [entries |-> << >>, displayed |-> << >>, screen |-> << >>,
               active |-> {"image", "cpu"}, sort |-> s, descending |-> s = "cpu",
               listed |-> 0, selected |-> None, find |-> None]
    /\ header = "saved"

-----------------------------------------------------------------------------
(* The processes of the machine.                                           *)

StartProcess(p) ==
    /\ p \notin past /\ \A q \in alive : PidOf[q] # PidOf[p]
    /\ alive' = alive \union {p} /\ past' = past \union {p}
    /\ UNCHANGED <<clock, faults, clicks, worker, sampler, page, header>>

ExitProcess(p) ==
    /\ p \in alive
    /\ alive' = alive \ {p}
    /\ UNCHANGED <<past, clock, faults, clicks, worker, sampler, page, header>>

-----------------------------------------------------------------------------
(* ProcWorkerState::collect, in the looks it takes at the machine: the      *)
(* snapshot of all processes, each one of them opened by its PID, and the  *)
(* account names WTS knows for the rows still without one.                 *)

Fault == faults < MaxFaults /\ faults' = faults + 1

\* The row of a process of the snapshot, with what was read of the one that then
\* had its PID.  Its share is the advance of its own CPU time over the advance of
\* the system's, each since the sample it was last part of.
Row(p, created, token, busy) ==
    LET id == Identity(PidOf[p], created)
        comparable == id \in DOMAIN baseline /\ systemTime # 0
    IN  [id |-> id, image |-> ImageOf[p],
         user |-> IF id \in DOMAIN names THEN names[id]
                  ELSE IF Verified(id) /\ token THEN UserOf[created] ELSE 0,
         cpu |-> IF comparable /\ busy THEN 1 ELSE 0,
         since |-> IF comparable THEN <<baseline[id], systemTime>> ELSE <<0, 0>>]

\* CreateToolhelp32Snapshot, after the system's time was taken: the PIDs and the
\* images of one moment.
Snapshot ==
    /\ worker.at = "asked"
    /\ worker' = [worker EXCEPT !.at = "walk", !.left = alive, !.rows = {}]
    /\ clock' = clock + 1
    /\ UNCHANGED <<world, faults, clicks, sampler, page, header>>

\* OpenProcess: who has the PID by now, if anyone has.
Holders(p) == {q \in alive : PidOf[q] = PidOf[p]}

\* A process that cannot be opened is listed by its PID alone; a token that cannot
\* be read leaves the name to WTS.
OpenRow(p) ==
    /\ worker.at = "walk" /\ p \in worker.left
    /\ \E created \in Holders(p) \union {Unread}, token, busy \in BOOLEAN :
         /\ IF Holders(p) = {} \/ (created # Unread /\ token) THEN UNCHANGED faults ELSE Fault
         /\ worker' = [worker EXCEPT !.left = @ \ {p},
                                     !.rows = @ \union {Row(p, created, token, busy)}]
    /\ UNCHANGED <<world, clock, clicks, sampler, page, header>>

Resolved(rows) == {r \in rows : Verified(r.id) /\ r.user # 0}

\* Mutant: the accounts of WTS are taken by PID alone.
MergedByPid(r, known) ==
    LET match == {q \in known : PidOf[q] = r.id.pid} IN
    IF r.user = 0 /\ match # {} THEN [r EXCEPT !.user = UserOf[CHOOSE q \in match : TRUE]]
    ELSE r

\* merge_wts_process_identity: WTS knows rows by PID, and the image must agree.
Merged(r, known) ==
    LET match == {q \in known : PidOf[q] = r.id.pid /\ ImageOf[q] = r.image} IN
    IF r.user = 0 /\ match # {} THEN [r EXCEPT !.user = UserOf[CHOOSE q \in match : TRUE]]
    ELSE r

\* The baselines and the names move on together, with the snapshot they belong
\* to.  The system's time was taken before the processes were looked at.
Merge ==
    /\ worker.at = "walk" /\ worker.left = {}
    /\ \E known \in SUBSET alive :
         /\ \/ known = alive /\ UNCHANGED faults
            \/ known = {} /\ alive # {} /\ Fault
         /\ LET rows == {Merged(r, known) : r \in worker.rows} IN
            /\ worker' = [worker EXCEPT !.at = "done", !.rows = rows, !.ok = TRUE]
            /\ names' = [id \in {r.id : r \in Resolved(rows)} |->
                           (CHOOSE r \in rows : r.id = id).user]
            /\ baseline' = [id \in {r.id : r \in {s \in rows : Verified(s.id)}} |-> clock]
    /\ systemTime' = clock
    /\ UNCHANGED <<world, clock, clicks, page, header>>

Collecting == worker.at \in {"asked", "walk"}
Failed == [worker EXCEPT !.at = "done", !.ok = FALSE, !.left = {}, !.rows = {}]

\* The system's time, the snapshot or a later entry of the walk fails: nothing
\* the next collection compares with has moved.
CollectFails ==
    /\ Collecting /\ Fault
    /\ worker' = Failed
    /\ clock' = IF worker.at = "asked" THEN clock + 1 ELSE clock
    /\ UNCHANGED <<world, clicks, sampler, page, header>>

\* A panic: the collector is rebuilt from nothing.
CollectPanics ==
    /\ Collecting /\ Fault
    /\ worker' = Failed
    /\ baseline' = << >> /\ systemTime' = 0 /\ names' = << >>
    /\ UNCHANGED <<world, clock, clicks, page, header>>

-----------------------------------------------------------------------------
(* The page.  A handler is a function of the page.                         *)

Value(e, c) == CASE c = "image" -> e.image
                 [] c = "user" -> e.user
                 [] c = "cpu" -> e.cpu + 1
                 [] c = "pid" -> e.id.pid
Blank == 0
Listed(pg) == {pg.entries[i].id : i \in DOMAIN pg.entries}
IndexIn(pg, id) == IF id \in Listed(pg)
                   THEN CHOOSE i \in DOMAIN pg.entries : pg.entries[i].id = id ELSE 0

\* current_selected_identity asks the list view for the row, and the row for
\* its identity.
CurrentSelected(pg) ==
    IF pg.listed \in DOMAIN pg.entries THEN pg.entries[pg.listed].id ELSE None
Or(a, b) == IF a # None THEN a ELSE b

Face(e) == [id |-> e.id, text |-> e.text]

Built(e, columns) == [e EXCEPT !.text = [c \in Columns |->
                        IF c \in columns THEN Value(e, c) ELSE e.text[c]]]

NewEntry(r, columns) ==
    Built([id |-> r.id, image |-> r.image, user |-> r.user, cpu |-> r.cpu,
           since |-> r.since, text |-> [c \in Columns |-> Blank],
           dirty |-> columns], columns)

Changed(e, r) == {c \in Columns : Value(e, c) # Value(r, c)}

\* Mutant: the text is rebuilt and the row is not marked for repainting.
UpdatedUnmarked(e, r, columns) ==
    Built([e EXCEPT !.image = r.image, !.user = r.user, !.cpu = r.cpu, !.since = r.since],
          Changed(e, r) \intersect columns)

\* Only the text of a shown column is rebuilt.
UpdatedEntry(e, r, columns) ==
    LET shown == Changed(e, r) \intersect columns IN
    Built([e EXCEPT !.image = r.image, !.user = r.user, !.cpu = r.cpu,
                    !.since = r.since, !.dirty = @ \union shown], shown)

\* compare_entries: the column's order, then the PID; both turn round.
Before(pg, a, b) ==
    LET x == Value(a, pg.sort) y == Value(b, pg.sort) IN
    IF pg.descending THEN x > y \/ (x = y /\ a.id.pid >= b.id.pid)
    ELSE x < y \/ (x = y /\ a.id.pid <= b.id.pid)

Resort(pg) ==
    LET es == {pg.entries[i] : i \in DOMAIN pg.entries} IN
    [pg EXCEPT !.entries = [i \in DOMAIN pg.entries |->
        CHOOSE e \in es : Cardinality({f \in es \ {e} : Before(pg, f, e)}) = i - 1]]

RowIds(pg) == [i \in DOMAIN pg.entries |-> pg.entries[i].id]

\* Mutant: the rows count as moved only when their number changed.
MovedByCount(pg) == Len(pg.screen) # Len(pg.entries)

\* structure_changed or order_changed.
RowsMoved(pg) == Len(pg.screen) # Len(pg.entries) \/ pg.displayed # RowIds(pg)

\* rebuild_listview: everything is repainted when the rows or their order
\* changed, otherwise the rows from the first to the last changed one.
Rebuild(pg) ==
    LET index == IndexIn(pg, pg.selected)
        bulk == RowsMoved(pg)
        marked == {i \in DOMAIN pg.entries : pg.entries[i].dirty # {}}
        Repainted(i) == bulk \/ \E a, b \in marked : a <= i /\ i <= b
    IN  [pg EXCEPT
          !.entries = [i \in DOMAIN @ |-> [@[i] EXCEPT !.dirty = {}]],
          !.screen = [i \in DOMAIN pg.entries |->
                        IF Repainted(i) THEN Face(pg.entries[i]) ELSE pg.screen[i]],
          !.displayed = RowIds(pg),
          !.listed = IF bulk THEN index ELSE @,
          !.selected = IF index = 0 THEN None ELSE @]

\* apply_process_snapshot.
Apply(pg, rows) ==
    LET previous == Or(CurrentSelected(pg), pg.selected)
        RowOf(id) == CHOOSE r \in rows : r.id = id
        fresh == {r \in rows : r.id \notin Listed(pg)}
        staying == {i \in DOMAIN pg.entries : \E r \in rows : r.id = pg.entries[i].id}
        kept == [i \in 1..Cardinality(staying) |-> pg.entries[
                   CHOOSE k \in staying : Cardinality({m \in staying : m < k}) = i - 1]]
        resort == \/ fresh # {} \/ Len(kept) # Len(pg.entries)
                  \/ \E i \in DOMAIN kept : pg.sort \in Changed(kept[i], RowOf(kept[i].id))
        merged == [pg EXCEPT !.entries =
                     [i \in DOMAIN kept |-> UpdatedEntry(kept[i], RowOf(kept[i].id), pg.active)]
                     \o SetToSeq({NewEntry(r, pg.active) : r \in fresh})]
        sorted == IF resort THEN Resort(merged) ELSE merged
        found == IF pg.find \in Listed(sorted) THEN pg.find ELSE None
    IN  Rebuild([sorted EXCEPT !.find = None, !.selected = Or(found, previous)])

\* drain_worker_results; a failed refresh leaves the rows alone.
Drained(pg) == IF worker.at = "done" /\ worker.ok THEN Apply(pg, worker.rows) ELSE pg

DrainedWorker == IF worker.at # "done" THEN worker
                 ELSE IF worker.queued THEN [Idle EXCEPT !.at = "asked"] ELSE Idle
Asked(w) == IF w.at = "idle" THEN [Idle EXCEPT !.at = "asked"] ELSE [w EXCEPT !.queued = TRUE]

CanAsk == clock < MaxCollects

\* refresh_processes drains, and asks for another collection.
RefreshFrom(pg) == /\ CanAsk
                   /\ page' = Drained(pg)
                   /\ worker' = Asked(DrainedWorker)

Complete ==
    /\ worker.at = "done"
    /\ page' = Drained(page) /\ worker' = DrainedWorker
    /\ UNCHANGED <<world, clock, faults, clicks, sampler, header>>

TimerEvent ==
    /\ RefreshFrom(page)
    /\ UNCHANGED <<world, clock, faults, clicks, sampler, header>>

Click == clicks < MaxClicks /\ clicks' = clicks + 1

\* LVN_ITEMCHANGED; row 0 stands for a click on no row.
SelectRow(i) ==
    /\ Click
    /\ page' = [page EXCEPT !.listed = i,
                  !.selected = IF i = 0 THEN None ELSE page.entries[i].id]
    /\ UNCHANGED <<world, clock, faults, worker, sampler, header>>

\* LVN_COLUMNCLICK: the same column turns the order round, another one is
\* sorted downwards.
ColumnClick(c) ==
    /\ Click /\ c \in page.active
    /\ RefreshFrom(Rebuild(Resort([page EXCEPT
          !.sort = c, !.descending = IF page.sort = c THEN ~@ ELSE TRUE,
          !.selected = Or(CurrentSelected(page), @)])))
    /\ UNCHANGED <<world, clock, faults, sampler, header>>

\* find_process: a process not listed yet is looked for in the next snapshot.
FindProcess(p) ==
    LET id == Identity(PidOf[p], p) IN
    /\ Click /\ p \in past
    /\ IF id \in Listed(page)
       THEN /\ page' = [page EXCEPT !.selected = id, !.listed = IndexIn(page, id)]
            /\ UNCHANGED worker
       ELSE RefreshFrom([page EXCEPT !.find = id])
    /\ UNCHANGED <<world, clock, faults, sampler, header>>

\* setup_columns repaints every row with the texts the rows have.
SetupColumns(pg, columns) ==
    [pg EXCEPT !.active = columns, !.screen = [i \in DOMAIN @ |-> Face(pg.entries[i])]]

\* The user moves a column; the image name has to stay the first to be saved.
DragColumn ==
    /\ Click
    /\ header' \in {"moved", "image moved"}
    /\ UNCHANGED <<world, clock, faults, worker, sampler, page>>

\* IDOK of the column dialog: without a valid layout it does nothing.
PickColumns(columns) ==
    /\ Click /\ header # "image moved"
    /\ RefreshFrom(SetupColumns(page, columns \union {"image"}))
    /\ header' = "saved"
    /\ UNCHANGED <<world, clock, faults, sampler>>

\* deactivate saves a moved column; apply_options, on return, finds the columns
\* changed, rebuilds all texts and marks them.
LeaveAndReturn ==
    /\ header = "moved"
    /\ header' = "saved"
    /\ page' = SetupColumns([page EXCEPT !.entries = [i \in DOMAIN @ |->
                  [Built(@[i], page.active) EXCEPT !.dirty = page.active]]], page.active)
    /\ UNCHANGED <<world, clock, faults, clicks, worker, sampler>>

UserStep == \/ \E i \in 0..Len(page.entries) : SelectRow(i)
            \/ \E p \in Processes : FindProcess(p)

Next == \/ \E p \in Processes : StartProcess(p) \/ ExitProcess(p)
        \/ Snapshot \/ (\E p \in worker.left : OpenRow(p))
        \/ Merge \/ CollectFails \/ CollectPanics
        \/ Complete \/ TimerEvent \/ UserStep
        \/ \E c \in Columns : ColumnClick(c)
        \/ \E columns \in SUBSET Columns : PickColumns(columns)
        \/ DragColumn \/ LeaveAndReturn

Spec == Init /\ [][Next]_vars

-----------------------------------------------------------------------------
\* What a row of the list shows is what the page would do it to: the row on the
\* screen and the identity remembered for it are those of the entry at its index,
\* and a repaint that was spared would not have changed a thing
\* (rebuild_listview, fill_display_info, current_selected_identity).
RowsAreWhatTheyShow ==
    /\ page.screen = [i \in DOMAIN page.entries |-> Face(page.entries[i])]
    /\ page.displayed = RowIds(page)
    /\ page.listed = IndexIn(page, page.selected)

\* The selection stays with its process through sorting, arrivals and exits: it
\* changes by the user, by a process that was looked for, or when its process
\* has left the list (rebuild_listview, apply_process_snapshot).
SelectionStaysWithItsProcess ==
    [][page'.selected # page.selected =>
         \/ UserStep
         \/ page.find # None /\ page'.selected = page.find
         \/ page'.selected = None /\ page.selected \notin Listed(page')]_vars

\* The rows are in order although most refreshes do not sort: a refresh that
\* changes the order always notices (update_process_entry, remove_stale_entries).
RowsAreSorted ==
    \A i, j \in DOMAIN page.entries : i < j => Before(page, page.entries[i], page.entries[j])

\* A CPU share divides two advances over the same time: failed collections,
\* restarts of the collector and rows that come and go never mix two intervals
\* ("CPU and per-process deltas must share the same successful snapshot
\* boundary", ProcWorkerState::collect).
SharesSpanOneInterval ==
    \A i \in DOMAIN page.entries :
      LET e == page.entries[i] IN
      /\ e.since[1] = e.since[2]
      /\ e.cpu # 0 => e.since[1] # 0

\* A row's account is that of the very process whose creation time the row has.
\* Only where that process had ended, or no time could be read, it may be the one
\* WTS named, of a process with the row's PID and image: "tied to a
\* creation-time-verified handle" and "requiring the same image"
\* (collect_process_identity_map, merge_wts_process_identity).  That the PID has
\* changed hands since the snapshot gives no process the account of another.
AccountsAreTheirOwn ==
    \A i \in DOMAIN page.entries :
      LET e == page.entries[i] IN
      e.user # 0 =>
        \/ Verified(e.id) /\ e.user = UserOf[e.id.created]
        \/ /\ Verified(e.id) => e.id.created \notin alive
           /\ \E p \in past : /\ PidOf[p] = e.id.pid /\ ImageOf[p] = e.image
                             /\ UserOf[p] = e.user

\* A row's image is that of the process whose identity it has.  The code does not
\* see to it: the image is of the snapshot, the identity of who had the PID later
\* (collect_process_entries).
ImagesAreTheirOwn ==
    \A i \in DOMAIN page.entries :
      LET e == page.entries[i] IN Verified(e.id) => e.image = ImageOf[e.id.created]

\* Every shown column shows its value: "when the columns change, rebuilding the
\* columns and the data is more reliable than patching" (apply_options).
ColumnsShowTheirValues ==
    \A i \in DOMAIN page.screen : \A c \in page.active :
      page.screen[i].text[c] = Value(page.entries[i], c)
=============================================================================
