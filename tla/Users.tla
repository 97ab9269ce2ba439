-------------------------------- MODULE Users --------------------------------
(***************************************************************************)
(* The Users page (pages/users.rs): the worker that enumerates the         *)
(* terminal sessions, the list that is updated in place, its selection and *)
(* the buttons that follow it, and the commands that act on the selected   *)
(* sessions after a dialog, while the page goes on being refreshed.        *)
(*                                                                         *)
(* A logon is a session's life: a session ID is used again by a later      *)
(* logon.  The display name and the status stand for the five columns.     *)
(* The list view is that of comctl32: it allows several selected rows, a   *)
(* row's state stays with its index, and it reports a changed row to the   *)
(* page (LVN_ITEMCHANGED) whichever part of it changed.                    *)
(***************************************************************************)
EXTENDS Integers, Sequences, FiniteSets, FiniteSetsExt

CONSTANTS
    Ids,            \* session IDs, 1..m, there at first
    Logons,         \* 1..n, in the order they begin
    UserOf,         \* the user's name, by its place in the alphabet
    MaxFaults,      \* bound: queries that fail
    MaxClicks,      \* bound: what the user does
    MaxChanges      \* bound: what happens to the sessions

\* There are finitely many session IDs, and those there at first have begun their
\* logons; names have places in the alphabet, which the list is sorted by.
ASSUME UsersAssumption ==
    /\ IsFiniteSet(Ids) /\ Ids \subseteq Int /\ Ids \subseteq Logons
    /\ \A l \in Logons : UserOf[l] \in Int

VARIABLES
    sessions,       \* by ID: the logon that has it, 0 for none
    idle,           \* the IDs of disconnected sessions
    era,            \* logons begun
    faults, clicks, changes,    \* counters behind the bounds
    worker,         \* at, the collection, whether a request waits
    page,           \* UserPageState, its list and its buttons
    command,        \* the command that runs, and how far it is
    acts,           \* what was done to which logon, a history
    chosen          \* the sessions the user selected, a history

world == <<sessions, idle, era>>
counters == <<faults, clicks, changes>>
vars == <<world, counters, worker, page, command, acts, chosen>>

NoOne == [id |-> 0, logon |-> 0, user |-> 0, domain |-> FALSE]
Verified(who) == who.logon > 0
NoCommand == [at |-> "none", kind |-> "none", who |-> << >>, seen |-> 0]
Waiting == [at |-> "idle", rows |-> {}, ok |-> TRUE, queued |-> FALSE]

Init ==
    /\ sessions = [i \in Ids |-> i] /\ era = Cardinality(Ids) /\ idle = {}
    /\ faults = 0 /\ clicks = 0 /\ changes = 0
    /\ worker = Waiting
    /\ page = [entries |-> << >>, domains |-> FALSE, column |-> "name", ascending |-> TRUE,
               selected |-> NoOne, list |-> << >>, marked |-> {},
               buttons |-> [act |-> FALSE, disconnect |-> FALSE]]
    /\ command = NoCommand /\ acts = {} /\ chosen = {}

Fault == faults < MaxFaults /\ faults' = faults + 1
Click == clicks < MaxClicks /\ clicks' = clicks + 1

-----------------------------------------------------------------------------
(* The sessions of the machine.                                            *)

SessionChanges ==
    /\ changes < MaxChanges /\ changes' = changes + 1
    /\ \E i \in Ids :
         \/ sessions[i] # 0 /\ sessions' = [sessions EXCEPT ![i] = 0]
            /\ idle' = idle \ {i} /\ UNCHANGED era
         \/ sessions[i] = 0 /\ era + 1 \in Logons /\ era' = era + 1
            /\ sessions' = [sessions EXCEPT ![i] = era'] /\ UNCHANGED idle
         \/ sessions[i] # 0 /\ idle' = (idle \union {i}) \ (idle \intersect {i})
            /\ UNCHANGED <<sessions, era>>
    /\ UNCHANGED <<faults, clicks, worker, page, command, acts, chosen>>

Present == {i \in Ids : sessions[i] # 0}
Identity(i) == [id |-> i, logon |-> sessions[i], user |-> UserOf[sessions[i]], domain |-> TRUE]

\* collect_user_sessions: a failed user name costs the row, a failed domain or
\* logon time the row's identity, never another row.
Snapshot(i, failed) ==
    [who |-> CASE failed = "none" -> Identity(i)
               [] failed = "info" -> [Identity(i) EXCEPT !.logon = 0]
               [] OTHER -> [Identity(i) EXCEPT !.logon = 0, !.domain = FALSE],
     status |-> IF i \in idle THEN "Disconnected" ELSE "Active"]

Collect ==
    /\ worker.at = "asked"
    /\ \/ /\ worker' = [worker EXCEPT !.at = "done", !.ok = TRUE,
                          !.rows = {Snapshot(i, "none") : i \in Present}]
          /\ UNCHANGED faults
       \/ /\ Fault
          /\ \E i \in Present, field \in {"user", "domain", "info"} :
               worker' = [worker EXCEPT !.at = "done", !.ok = TRUE, !.rows =
                            {Snapshot(j, "none") : j \in Present \ {i}} \union
                            (IF field = "user" THEN {} ELSE {Snapshot(i, field)})]
       \/ /\ Fault
          /\ worker' = [worker EXCEPT !.at = "done", !.ok = FALSE, !.rows = {}]
    /\ UNCHANGED <<world, clicks, changes, page, command, acts, chosen>>

-----------------------------------------------------------------------------
(* The list view and what the page reads from it.                          *)

\* format_session_display_name: with their domains, names sort otherwise.
DisplayName(who, domains) == IF domains /\ who.domain THEN 10 - who.user ELSE who.user

RowOf(e) == [id |-> e.who.id, name |-> e.name, status |-> e.status]

EntryOf(p, id) == {e.who : e \in {p.entries[i] : i \in {j \in DOMAIN p.entries : p.entries[j].who.id = id}}}

\* selected_session_identities: the sessions listed under the selected rows' IDs.
Selected(p) == UNION {EntryOf(p, p.list[i].id) : i \in p.marked}

\* current_selected_session_identity: the first of them.
FirstSelected(p) ==
    LET found == IF p.marked = {} THEN {} ELSE EntryOf(p, p.list[Min(p.marked)].id) IN
    IF found = {} THEN NoOne ELSE CHOOSE who \in found : TRUE

\* update_ui_state and update_menu_state.
ButtonsFor(p) ==
    LET who == Selected(p)
        act == who # {} /\ \A w \in who : Verified(w)
    IN  [act |-> act,
         disconnect |-> act /\ \A i \in DOMAIN p.entries :
                                  p.entries[i].who \in who => p.entries[i].status # "Disconnected"]
UiState(p) == [p EXCEPT !.buttons = ButtonsFor(p)]

\* handle_notify, LVN_ITEMCHANGED.
ItemChanged(p) == UiState([p EXCEPT !.selected = FirstSelected(p)])

\* compare_user_sessions.
Key(e, column) ==
    CASE column = "name" -> e.name
      [] column = "id" -> e.who.id
      [] column = "status" -> IF e.status = "Active" THEN 0 ELSE 1

Precedes(e, f, p) ==
    LET less == \/ Key(e, p.column) < Key(f, p.column)
                \/ Key(e, p.column) = Key(f, p.column) /\ e.who.id < f.who.id
    IN  IF p.ascending THEN less ELSE e # f /\ ~less

\* sort_sessions.
Sorted(p) ==
    LET es == {p.entries[i] : i \in DOMAIN p.entries} IN
    [p EXCEPT !.entries = [i \in DOMAIN p.entries |->
        CHOOSE e \in es : Cardinality({f \in es : Precedes(f, e, p)}) = i - 1]]

\* update_listview: a row is replaced when its ID is another's and rewritten
\* when its session is dirty; rows go and come at the end.  A changed row is
\* reported while the rows after the last session are still there.
UpdateListview(p) ==
    LET count == Len(p.entries)
        kept(i) == i \in DOMAIN p.list /\ p.list[i].id = p.entries[i].who.id /\ ~p.entries[i].dirty
        rows == [i \in 1..count |-> IF kept(i) THEN p.list[i] ELSE RowOf(p.entries[i])]
        changed == \E i \in (1..count) \intersect DOMAIN p.list :
                      <<rows[i].id, rows[i].name>> # <<p.list[i].id, p.list[i].name>>
        before == [p EXCEPT !.list = rows \o SubSeq(p.list, count + 1, Len(p.list))]
        reported == IF changed THEN ItemChanged(before) ELSE p
    IN  [reported EXCEPT !.list = rows, !.marked = @ \intersect (1..count)]

\* restore_selection: the row is selected, and reported if it was not.
Restored(p, who) ==
    LET at == {i \in DOMAIN p.entries : p.entries[i].who = who} IN
    IF at \subseteq p.marked THEN UiState(p)
    ELSE ItemChanged([p EXCEPT !.marked = @ \union at])

-----------------------------------------------------------------------------
(* apply_session_snapshot.                                                 *)

\* Mutant: a row is dirty when its session is new or its name has changed.
DirtyNames(e, p) ==
    ~\E i \in DOMAIN p.entries : p.entries[i].who = e.who /\ p.entries[i].name = e.name

Dirty(e, p) ==
    ~\E i \in DOMAIN p.entries :
        /\ p.entries[i].who = e.who
        /\ p.entries[i].name = e.name /\ p.entries[i].status = e.status

Entries(rows, p) ==
    {[e EXCEPT !.dirty = Dirty(e, p)] :
        e \in {[who |-> r.who, name |-> DisplayName(r.who, p.domains), status |-> r.status,
                dirty |-> TRUE] : r \in rows}}

\* The end of a refresh: the selection is restored, or the buttons are brought
\* up to date without one.
Reselected(p, who) == IF who = NoOne THEN UiState(p) ELSE Restored(p, who)

ApplySnapshot(rows) ==
    LET es == Entries(rows, page)
        listed == [i \in 1..Cardinality(es) |->
                     CHOOSE e \in es : Cardinality({f \in es : f.who.id < e.who.id}) = i - 1]
        shown == UpdateListview(Sorted([page EXCEPT !.entries = listed]))
        kept == IF \E e \in es : e.who = page.selected THEN page.selected ELSE NoOne
    IN  Reselected([shown EXCEPT !.selected = kept], kept)

\* drain_worker_results; a failed collection keeps the sessions.
Drained == IF worker.at = "done" /\ worker.ok THEN ApplySnapshot(worker.rows) ELSE page
AfterDrain == IF worker.at # "done" THEN worker
              ELSE IF worker.queued THEN [Waiting EXCEPT !.at = "asked"] ELSE Waiting

\* refresh: drain, then ask for another collection.
Refresh ==
    /\ page' = Drained
    /\ worker' = IF AfterDrain.at = "idle" THEN [Waiting EXCEPT !.at = "asked"]
                 ELSE [AfterDrain EXCEPT !.queued = TRUE]

\* A modal dialog of the page goes on dispatching messages; the calls on the
\* sessions do not.
Dispatching == command.at \in {"none", "asking"}

Complete ==
    /\ Dispatching /\ worker.at = "done"
    /\ page' = Drained /\ worker' = AfterDrain
    /\ UNCHANGED <<world, counters, command, acts, chosen>>

TimerEvent ==
    /\ Dispatching /\ ~worker.queued
    /\ Refresh
    /\ UNCHANGED <<world, counters, command, acts, chosen>>

-----------------------------------------------------------------------------
(* The user.                                                               *)

\* The rows clicked are selected, and no others.
SelectRows ==
    /\ command.at = "none" /\ Click
    /\ \E rows \in SUBSET DOMAIN page.list :
         /\ page' = ItemChanged([page EXCEPT !.marked = rows])
         /\ chosen' = Selected([page EXCEPT !.marked = rows])
    /\ UNCHANGED <<world, faults, changes, worker, command, acts>>

\* LVN_COLUMNCLICK.  The selection restored is the one reported last.
ColumnClick ==
    /\ command.at = "none" /\ Click
    /\ \E c \in {"name", "id", "status"} :
         LET turned == [page EXCEPT !.column = c,
                          !.ascending = IF page.column = c THEN ~@ ELSE TRUE]
             shown == UpdateListview(Sorted(turned))
         IN  page' = IF shown.selected = NoOne THEN shown ELSE Restored(shown, shown.selected)
    /\ UNCHANGED <<world, faults, changes, worker, command, acts, chosen>>

\* IDM_SHOWDOMAINNAMES, rebuild_display_names.
ShowDomainNames ==
    /\ command.at = "none" /\ Click
    /\ LET named(e) == [e EXCEPT !.name = DisplayName(e.who, ~page.domains),
                                 !.dirty = @ \/ e.name # DisplayName(e.who, ~page.domains)]
           turned == [page EXCEPT !.domains = ~@,
                        !.entries = [i \in DOMAIN page.entries |-> named(page.entries[i])]]
       IN  page' = Reselected(UpdateListview(Sorted(turned)), page.selected)
    /\ UNCHANGED <<world, faults, changes, worker, command, acts, chosen>>

\* send_message and change_session_state take the sessions in the order of
\* their rows, then open a dialog.
Ask ==
    /\ command.at = "none" /\ Click
    /\ \E kind \in {"message", "disconnect", "logoff"} :
         /\ IF kind = "disconnect" THEN page.buttons.disconnect ELSE page.buttons.act
         /\ command' = [NoCommand EXCEPT !.at = "asking", !.kind = kind,
              !.who = [i \in 1..Cardinality(page.marked) |->
                         LET row == CHOOSE m \in page.marked :
                                      Cardinality({n \in page.marked : n < m}) = i - 1
                         IN  CHOOSE w \in EntryOf(page, page.list[row].id) : TRUE]]
    /\ UNCHANGED <<world, faults, changes, worker, page, acts, chosen>>

Cancel ==
    /\ command.at = "asking"
    /\ command' = NoCommand
    /\ UNCHANGED <<world, counters, worker, page, acts, chosen>>

\* validate_session_identity.
Current(who) == Verified(who) /\ sessions[who.id] # 0 /\ Identity(who.id) = who

\* validate_session_identities, before anything is done.
Confirm ==
    /\ command.at = "asking"
    /\ \/ /\ \A i \in DOMAIN command.who : Current(command.who[i])
          /\ command' = [command EXCEPT !.at = "validate"]
          /\ UNCHANGED <<faults, worker, page>>
       \/ /\ \/ \E i \in DOMAIN command.who : ~Current(command.who[i]) /\ UNCHANGED faults
             \/ Fault
          /\ command' = NoCommand
          /\ Refresh
    /\ UNCHANGED <<world, clicks, changes, acts, chosen>>

\* The end of a command, after the last session or the first failure: what
\* changed a session asks for a refresh.
Finish ==
    /\ command' = NoCommand
    /\ IF command.kind = "message" THEN UNCHANGED <<worker, page>> ELSE Refresh

Seen == sessions[command.who[1].id]

\* Mutant: the sessions have been validated all together, that is enough.
OnceIsEnough ==
    /\ command.at = "validate"
    /\ command' = [command EXCEPT !.at = "call", !.seen = Seen]
    /\ UNCHANGED <<world, counters, worker, page, acts, chosen>>

\* Each session is validated again before its call.
Validate ==
    /\ command.at = "validate"
    /\ \/ /\ Current(command.who[1])
          /\ command' = [command EXCEPT !.at = "call", !.seen = Seen]
          /\ UNCHANGED <<faults, worker, page>>
       \/ /\ (~Current(command.who[1]) /\ UNCHANGED faults) \/ Fault
          /\ Finish
    /\ UNCHANGED <<world, clicks, changes, acts, chosen>>

\* WTSSendMessageW, WTSDisconnectSession, WTSLogoffSession: by ID.
Call ==
    /\ command.at = "call"
    /\ LET who == command.who[1] IN
       \/ /\ sessions[who.id] # 0
          /\ acts' = acts \union {[kind |-> command.kind, meant |-> who, seen |-> command.seen]}
          /\ sessions' = IF command.kind = "logoff" THEN [sessions EXCEPT ![who.id] = 0] ELSE sessions
          /\ idle' = CASE command.kind = "logoff" -> idle \ {who.id}
                       [] command.kind = "disconnect" -> idle \union {who.id}
                       [] OTHER -> idle
          /\ IF Len(command.who) > 1
             THEN /\ command' = [command EXCEPT !.at = "validate", !.who = Tail(@), !.seen = 0]
                  /\ UNCHANGED <<worker, page>>
             ELSE Finish
          /\ UNCHANGED faults
       \/ /\ (sessions[who.id] = 0 /\ UNCHANGED faults) \/ Fault
          /\ Finish
          /\ UNCHANGED <<sessions, idle, acts>>
    /\ UNCHANGED <<era, clicks, changes, chosen>>

Next ==
    \/ SessionChanges \/ Collect \/ Complete \/ TimerEvent
    \/ SelectRows \/ ColumnClick \/ ShowDomainNames
    \/ Ask \/ Cancel \/ Confirm \/ Validate \/ Call

Spec == Init /\ [][Next]_vars

-----------------------------------------------------------------------------
\* Although only rows whose session is another or seems to have changed are
\* rewritten, the list shows the sessions of the page, in their order, with
\* their names and states (update_listview, the dirty marks).
ListShowsTheSessions ==
    page.list = [i \in DOMAIN page.entries |-> RowOf(page.entries[i])]

\* The buttons offer what may be done with the sessions now under the selected
\* rows: nothing without a verified identity, no disconnection of who is
\* disconnected, whatever was refreshed, sorted or renamed since the click
\* (update_ui_state).
ButtonsFitTheSelection == page.buttons = ButtonsFor(page)

\* When a session is disconnected, logged off or sent a message, the last look
\* at it, after the confirmation and after the calls before it, found the logon
\* the user confirmed, so that only the instant of the call itself is left
\* (change_session_state, send_message, validate_session_identity).
ActsOnlyOnTheConfirmed == \A a \in acts : a.seen = a.meant.logon

\* A refresh or a new order never adds a session to the user's selection: "the
\* user list is synchronised in steps to reduce ... the loss of the selection"
\* (update_listview), and the commands act on the selection.
SelectionStaysWithTheSession == Selected(page) \subseteq chosen
=============================================================================
