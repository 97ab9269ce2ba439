---------------------------- MODULE StoredOptions ----------------------------
(***************************************************************************)
(* The options and their registry value (config/options.rs): the envelope  *)
(* and the value of the system's Task Manager that is read once, the       *)
(* migration of older schemas, the validation and the repair, and the      *)
(* moments at which the main window loads and saves them.                  *)
(*                                                                         *)
(* One field, mode, stands for the view mode, the CPU history mode, the    *)
(* size and the flags; the window rectangle for the monitor it lies on.    *)
(* There are NumColumn process columns, 0 being the image name, and -1     *)
(* marks the end of the list and a width nobody chose.                     *)
(***************************************************************************)
EXTENDS Integers, Sequences, FiniteSets

CONSTANTS
    NumColumn,
    Found,          \* the options the registry may hold at first
    MaxChanges      \* bound: what the user and the machine do

VARIABLES
    own,            \* OptionsV1: [kind, options]
    legacy,         \* Preferences of the system's Task Manager
    monitors,       \* the monitors attached, 1 is the primary one
    reader,         \* whether a screen reader runs
    running,        \* whether the main window has loaded its options
    options,        \* App::options
    changes         \* the counter behind the bound

machine == <<monitors, reader>>
vars == <<own, legacy, machine, running, options, changes>>

Schema == 2
Nothing == [kind |-> "absent"]
Value(kind, o) == [kind |-> kind, options |-> o]

\* The pages in the order each schema numbered them, from 0.
PagesOf(schema) ==
    CASE schema = 0 -> <<"applications", "processes", "performance", "network", "users">>
      [] schema = 1 -> <<"applications", "processes", "performance", "gpu", "network", "users">>
      [] schema = Schema -> <<"applications", "processes", "performance", "cpu", "gpu",
                              "network", "users">>
PageCount == Len(PagesOf(Schema))

Speeds == {"high", "normal", "low", "paused"}
Interval == [high |-> 500, normal |-> 2000, low |-> 4000, paused |-> 0]
Modes == {"default", "chosen"}

Cell(column, width) == [column |-> column, width |-> width]
End == Cell(-1, -1)
Filled(cells) == [i \in 1..(NumColumn + 1) |-> IF i \in DOMAIN cells THEN cells[i] ELSE End]

\* Options::default and set_default_values: the window lies on the primary monitor.
Defaults ==
    [schema |-> Schema, mode |-> "default", speed |-> "normal",
     timer |-> IF reader THEN 0 ELSE Interval["normal"], page |-> -1, rect |-> 1,
     columns |-> Filled(<<Cell(0, -1), Cell(1, -1)>>)]

Init ==
    /\ \/ /\ own \in {[kind |-> k] : k \in {"absent", "garbage", "foreign", "newer"}}
                      \union {Value("ours", o) : o \in Found}
          /\ legacy = Nothing
       \/ /\ own = Nothing
          /\ legacy \in {[kind |-> "garbage"]} \union {Value("plain", o) : o \in Found}
    /\ monitors = {1, 2} /\ reader = FALSE
    /\ running = FALSE /\ options = Defaults /\ changes = 0

-----------------------------------------------------------------------------
(* Validation and repair.                                                  *)

\* process_columns_are_valid.
ColumnsAreValid(cs) ==
    LET shown == {i \in DOMAIN cs : cs[i].column # -1} IN
    /\ cs[1].column = 0
    /\ \A i \in DOMAIN cs : \A j \in 1..i : i \in shown => j \in shown
    /\ \A i \in shown : cs[i].column \in 0..(NumColumn - 1) /\ (cs[i].width = -1 \/ cs[i].width > 0)
    /\ \A i \in DOMAIN cs \ shown : cs[i].width = -1
    /\ \A i, j \in shown : i # j => cs[i].column # cs[j].column

Width(w) == IF w > 0 THEN w ELSE -1

\* normalize_process_columns: the image name first, with its width wherever it
\* is found, then the columns up to the end mark, each the first time it comes.
ImageWidth(cs) ==
    LET image == {i \in DOMAIN cs : cs[i].column = 0}
        first == CHOOSE i \in image : \A j \in image : i <= j
    IN  IF image = {} THEN -1 ELSE Width(cs[first].width)

Others(cs) ==
    {i \in DOMAIN cs :
       /\ \A j \in 1..i : cs[j].column # -1
       /\ cs[i].column \in 1..(NumColumn - 1)
       /\ \A j \in 1..(i - 1) : cs[j].column # cs[i].column}

\* The k-th of a set of places.
Nth(places, k) == CHOOSE i \in places : Cardinality({j \in places : j < i}) = k - 1

NormalizedColumns(cs) ==
    [i \in 1..(NumColumn + 1) |->
       IF i = 1 THEN Cell(0, ImageWidth(cs))
       ELSE IF i - 1 <= Cardinality(Others(cs))
       THEN LET old == cs[Nth(Others(cs), i - 1)] IN Cell(old.column, Width(old.width))
       ELSE End]

\* timer_interval_is_valid.
TimerIsValid(speed, timer) ==
    speed \in Speeds /\ (timer = Interval[speed] \/ (timer = 0 /\ reader))

\* Options::is_valid.
IsValid(o) ==
    /\ o.schema = Schema /\ o.mode \in Modes /\ o.speed \in Speeds
    /\ TimerIsValid(o.speed, o.timer)
    /\ o.page \in -1..(PageCount - 1)
    /\ o.rect \in monitors
    /\ ColumnsAreValid(o.columns)

\* Mutant: options with a fault are the defaults.
AllDefaults(o) == Defaults

\* Options::normalize.
Normalized(o) ==
    LET speed == IF o.speed \in Speeds THEN o.speed ELSE "normal" IN
    [schema |-> Schema,
     mode |-> IF o.mode \in Modes THEN o.mode ELSE Defaults.mode,
     speed |-> speed,
     timer |-> IF TimerIsValid(speed, o.timer) THEN o.timer
               ELSE IF reader THEN 0 ELSE Interval[speed],
     page |-> IF o.page \in -1..(PageCount - 1) THEN o.page ELSE Defaults.page,
     rect |-> IF o.rect \in monitors THEN o.rect ELSE Defaults.rect,
     columns |-> NormalizedColumns(o.columns)]

\* Options::migrate_schema; the caller takes the defaults for another schema.
Migrated(o) ==
    [o EXCEPT !.schema = Schema,
              !.page = CASE o.schema = 0 /\ @ = 3 -> 5
                         [] o.schema = 0 /\ @ = 4 -> 6
                         [] o.schema = 1 /\ @ \in 3..5 -> @ + 1
                         [] OTHER -> @]

\* legacy_options_is_taskmgr_rs: neither the window nor the timer matters.
IsTaskmgrRs(o) ==
    /\ o.schema = Schema /\ o.mode \in Modes /\ o.speed \in Speeds
    /\ o.page \in -1..(PageCount - 1) /\ ColumnsAreValid(o.columns)

-----------------------------------------------------------------------------
(* Loading and saving.                                                     *)

\* Save, which may fail and is only reported.
Save(o) == own' \in {own, Value("ours", o)}

\* apply_loaded_options.
ApplyLoaded(o, persist) ==
    LET m == Migrated(o)
        valid == IsValid(m)
        loaded == IF valid THEN m ELSE Normalized(m)
    IN  IF o.schema \notin 0..Schema THEN options' = Defaults /\ UNCHANGED own
        ELSE /\ options' = loaded
             /\ IF persist \/ m # o \/ o.schema # Schema \/ ~valid THEN Save(loaded)
                ELSE UNCHANGED own

TakeDefaults == options' = Defaults /\ UNCHANGED own

\* Options::load, as the main window is initialised.  A foreign or newer
\* envelope, and a value of another size, give the defaults; the registry keeps
\* what it has until the exit.
Load ==
    /\ ~running /\ running' = TRUE
    /\ CASE own.kind = "ours" -> ApplyLoaded(own.options, FALSE)
         [] own.kind \in {"foreign", "newer", "garbage"} -> TakeDefaults
         [] own.kind = "absent" ->
              IF legacy.kind = "plain" /\ IsTaskmgrRs(legacy.options)
              THEN ApplyLoaded(legacy.options, TRUE) ELSE TakeDefaults
    /\ UNCHANGED <<legacy, machine, changes>>

\* Shift, Alt and Ctrl are down, or the registry cannot be read.
LoadDefaults ==
    /\ ~running /\ running' = TRUE
    /\ TakeDefaults
    /\ UNCHANGED <<legacy, machine, changes>>

Change == changes < MaxChanges /\ changes' = changes + 1

\* What the main window and the pages write to the options.
Choose ==
    /\ running /\ Change
    /\ \/ \E s \in Speeds : options' = [options EXCEPT !.speed = s, !.timer = Interval[s]]
       \/ \E p \in 0..(PageCount - 1) : options' = [options EXCEPT !.page = p]
       \/ \E m \in monitors : options' = [options EXCEPT !.rect = m]
       \/ \E w \in {-1, 9} : options' = [options EXCEPT !.columns = Filled(<<Cell(0, w)>>)]
    /\ UNCHANGED <<own, legacy, machine, running>>

\* App::shutdown saves; a process that is killed does not.
Exit ==
    /\ running /\ running' = FALSE
    /\ Save(options)
    /\ UNCHANGED <<legacy, machine, options, changes>>

MachineChanges ==
    /\ ~running /\ Change
    /\ \/ monitors' \in {{1}, {1, 2}} \ {monitors} /\ UNCHANGED reader
       \/ reader' = ~reader /\ UNCHANGED monitors
    /\ UNCHANGED <<own, legacy, running, options>>

Next == Load \/ LoadDefaults \/ Choose \/ Exit \/ MachineChanges

Spec == Init /\ [][Next]_vars

-----------------------------------------------------------------------------
\* Whatever the registry holds, options that were damaged, written by another
\* version or on another machine, what is loaded fits this machine, so that no
\* page, column or interval taken from it is out of range (Options::load).
LoadedOptionsFit == [][running' /\ ~running => IsValid(options')]_vars

\* The options a user chose come back: from an older schema the page is the one
\* of the same name, and of a value with a fault only what is wrong is replaced
\* (migrate_schema, normalize).
SettingsComeBack ==
    [][LET o == own.options IN
       Load /\ own.kind = "ours" /\ o.schema \in 0..Schema =>
         /\ o.page + 1 \in DOMAIN PagesOf(o.schema) =>
              options'.page >= 0 /\
              PagesOf(Schema)[options'.page + 1] = PagesOf(o.schema)[o.page + 1]
         /\ o.mode \in Modes => options'.mode = o.mode
         /\ o.speed \in Speeds => options'.speed = o.speed
         /\ TimerIsValid(o.speed, o.timer) => options'.timer = o.timer
         /\ o.rect \in monitors => options'.rect = o.rect
         /\ ColumnsAreValid(o.columns) => options'.columns = o.columns
         /\ {options'.columns[i].column : i \in DOMAIN options'.columns}
              \subseteq {o.columns[i].column : i \in DOMAIN o.columns} \union {0, -1}]_vars
=============================================================================
