-------------------------------- MODULE MCLists --------------------------------
(***************************************************************************)
(* One TLC instance of three pages that share no state and show a list     *)
(* refreshed from snapshots: the Users page (Users), the process list      *)
(* (ProcessList) and the Networking page (Network).  `which` names the     *)
(* page a behaviour is of; the others rest.                                *)
(***************************************************************************)
EXTENDS Users

CONSTANTS
    Processes, Running, PidOf, ImageOf, AccountOf, MaxCollects, MaxUserSteps,
    Rows, Connected, IndexOf, RankOf, Heights, MaxSamples

\* The interface table is finite and holds the interfaces there at first, indexes
\* and ranks are numbers, and of two interfaces with one index one is kept: of
\* equally ranked ones the first of the table, which here is a rank of its own
\* (raw_adapter_rank, collapse_raw_adapters).
ASSUME NetworkAssumption ==
    /\ IsFiniteSet(Rows) /\ Connected \subseteq Rows
    /\ \A r \in Rows : IndexOf[r] \in Int /\ RankOf[r] \in Int
    /\ \A r, s \in Rows : IndexOf[r] = IndexOf[s] /\ RankOf[r] = RankOf[s] => r = s

\* The processes have PIDs, images and accounts, numbered from 1, and those that
\* run at first run under PIDs of their own; none is the mark of a creation time
\* that could not be read.
ASSUME ProcessesAssumption ==
    /\ IsFiniteSet(Processes) /\ Running \subseteq Processes /\ "unread" \notin Processes
    /\ \A p \in Processes : /\ PidOf[p] \in Nat \ {0} /\ ImageOf[p] \in Nat \ {0}
                              /\ AccountOf[p] \in Nat \ {0}
    /\ \A p, q \in Running : PidOf[p] = PidOf[q] => p = q

VARIABLES
    which,
    \* ProcessList
    alive, past, clock, listFaults, listClicks, listWorker, baseline, systemTime,
    names, listPage, header,
    \* Network
    present, name, netClock, netFaults, netChanges, netWorker, adapters, lastSample,
    list, height, panes, perPage, first, bar

processesVars == <<alive, past, clock, listFaults, listClicks, listWorker, baseline,
                   systemTime, names, listPage, header>>
networkVars == <<present, name, netClock, netFaults, netChanges, netWorker, adapters,
                 lastSample, list, height, panes, perPage, first, bar>>

List == INSTANCE ProcessList WITH
    UserOf <- AccountOf, MaxClicks <- MaxUserSteps, faults <- listFaults,
    clicks <- listClicks, worker <- listWorker, page <- listPage
Net == INSTANCE Network WITH
    clock <- netClock, faults <- netFaults, changes <- netChanges, worker <- netWorker

-----------------------------------------------------------------------------
(* The values of the constants.                                             *)

\* Two sessions, and a third logon, without a name, that takes over an ID.
TwoIds == 1..2
ThreeLogons == 1..3
Names == [l \in ThreeLogons |-> IF l = 3 THEN 0 ELSE l]

\* Three processes, of which two share a PID, and two an image and an account.
SomeProcesses == {"a", "b", "c"}
AtFirst == {"a", "c"}
Pids == [p \in SomeProcesses |-> IF p = "c" THEN 2 ELSE 1]
Images == [p \in SomeProcesses |-> IF p = "a" THEN 2 ELSE 1]
Accounts == [p \in SomeProcesses |-> IF p = "b" THEN 2 ELSE 1]

\* Three interfaces, of which two have one index, and room for one or two graphs.
ThreeRows == 1..3
TwoRows == 1..2
Indexes == [r \in ThreeRows |-> IF r = 3 THEN 2 ELSE r]
Ranks == [r \in ThreeRows |-> r]
SomeHeights == {130, 300}

-----------------------------------------------------------------------------
\* A component at rest takes part in nothing; its variables only need a value.
Resting == Init
ListResting ==
    /\ alive = 0 /\ past = 0 /\ clock = 0 /\ listFaults = 0 /\ listClicks = 0
    /\ listWorker = 0 /\ baseline = 0 /\ systemTime = 0 /\ names = 0
    /\ listPage = [selected |-> 0] /\ header = 0
NetResting ==
    /\ present = 0 /\ name = 0 /\ netClock = 0 /\ netFaults = 0 /\ netChanges = 0
    /\ netWorker = 0 /\ adapters = 0 /\ lastSample = 0 /\ list = 0 /\ height = 0
    /\ panes = 0 /\ perPage = 0 /\ first = 0 /\ bar = 0

ListsInit ==
    \/ /\ which = "users" /\ Init
       /\ ListResting /\ NetResting
    \/ /\ which = "processes" /\ List!Init
       /\ Resting /\ NetResting
    \/ /\ which = "network" /\ Net!Init
       /\ Resting /\ ListResting

ListsNext ==
    \/ /\ which = "users" /\ Next
       /\ UNCHANGED <<which, processesVars, networkVars>>
    \/ /\ which = "processes" /\ List!Next
       /\ UNCHANGED <<which, vars, networkVars>>
    \/ /\ which = "network" /\ Net!Next
       /\ UNCHANGED <<which, vars, processesVars>>

ListsSpec ==
    ListsInit /\ [][ListsNext]_<<which, vars, processesVars, networkVars>>

-----------------------------------------------------------------------------
\* The list of the Users page shows the sessions, in their order, and its buttons
\* offer what may be done with those selected (update_listview, update_ui_state).
ScreenShowsTheSessions ==
    which = "users" => ListShowsTheSessions /\ ButtonsFitTheSelection

\* A row of the process list shows the entry at its index, under that entry's
\* identity; what is painted is the text the entry has, whichever repaints were
\* spared; and the rows are in order (rebuild_listview, update_process_entry).
RowsAreTrue ==
    which = "processes" => List!RowsAreWhatTheyShow /\ List!RowsAreSorted

\* A CPU share spans one interval, and an account is that of the process whose
\* identity the row has or, where that one had ended, of one with its PID and image
\* (ProcWorkerState::collect, merge_wts_process_identity).
SharesAndAccounts ==
    which = "processes" => List!SharesSpanOneInterval /\ List!AccountsAreTheirOwn

\* The selection stays with its process (rebuild_listview, apply_process_snapshot).
SelectionStaysWithItsProcess == List!SelectionStaysWithItsProcess

\* The Networking page shows every adapter once, each graph under its adapter's
\* name, and throughputs of one interval (apply_adapter_snapshot, update_listview,
\* label_graphs).
ScreenShowsTheAdapters ==
    which = "network" =>
      /\ Net!RatesSpanOneInterval /\ Net!ListShowsTheAdapters
      /\ Net!TitlesNameTheGraphs

-----------------------------------------------------------------------------
(* Three formulas the code does not keep, each for a configuration of its   *)
(* own that shows a behaviour against it.                                   *)

\* Of several selected sessions the same stay selected when rows move; the code
\* restores one (update_listview).
SelectionStaysWithItsSessions == which = "users" => SelectionStaysWithTheSession

\* A column that is switched on shows its values at once; the code fills it with
\* the next change of a value or the next rebuild (update_process_entry).
ColumnsShowTheirValues == which = "processes" => List!ColumnsShowTheirValues

\* The image of a row is that of the process whose identity the row has; the code
\* opens the PID after the Toolhelp snapshot (ProcWorkerState::collect).
ImagesAreTheirOwn == which = "processes" => List!ImagesAreTheirOwn
===============================================================================
