---------------------------- MODULE ProcessCommands ----------------------------
(***************************************************************************)
(* The commands of the Processes page that change a priority or start a    *)
(* program for the selected process (pages/processes/actions.rs):          *)
(* set_priority, attach_debugger and open_file_location.  While a command  *)
(* asks, reads the registry and starts the program, processes end and      *)
(* their PIDs go to others, and the debugger's file may go.                *)
(*                                                                         *)
(* AeDebug's command is a record: its executable (or why it is not one)    *)
(* and the pieces of its template, of which only the % sequences matter.   *)
(* A process is named by its PID and creation time, here its birth number. *)
(***************************************************************************)
EXTENDS Integers, Sequences, FiniteSets, SequencesExt

CONSTANTS
    Pids,
    Programs,       \* executables, which may be installed or not
    Templates,      \* sequences of pieces an AeDebug value may have
    MaxBorn,        \* bound: processes that start
    MaxFaults       \* bound: calls that fail

VARIABLES
    native,         \* bits of the machine: 32, 64, or 0 for one not supported
    processes,      \* by PID in use: [birth, bits, running, priority]
    born, faults,   \* counters behind the bounds
    aeDebug,        \* by registry view: the command there
    installed,      \* the Programs that exist as files
    available,      \* debugger_path is Some: the menu offers Debug
    call            \* the command and how far it is

world == <<native, processes, born, aeDebug, installed>>
vars == <<world, faults, available, call>>

Views == {"native", "32", "64"}
Absent == [exe |-> "absent", template |-> << >>]

NoCall == [at |-> "idle", command |-> "none", pid |-> 0, birth |-> 0,
           handle |-> FALSE, view |-> "none", debugger |-> Absent, event |-> FALSE,
           line |-> << >>, path |-> 0, ok |-> FALSE, done |-> {}]

Process(birth, bits) ==
    [birth |-> birth, bits |-> bits, running |-> TRUE, priority |-> "as started"]
BitsOf(machine) == IF machine = 64 THEN {32, 64} ELSE {machine}

Init ==
    /\ native \in {0, 32, 64}
    /\ \E p \in Pids, b \in BitsOf(native) : processes = [q \in {p} |-> Process(1, b)]
    /\ born = 1 /\ faults = 0
    /\ installed \in SUBSET Programs
    /\ aeDebug \in [Views -> {Absent, [exe |-> "relative", template |-> << >>]}
                      \union [exe : Programs, template : Templates]]
    /\ native # 64 => \A v \in Views : aeDebug[v] = aeDebug["native"]
    /\ native = 64 => aeDebug["64"] = aeDebug["native"]
    /\ available = FALSE /\ call = NoCall

Fault == faults < MaxFaults /\ faults' = faults + 1
NoFault == UNCHANGED faults
FailsIf(condition) == (condition /\ NoFault) \/ Fault

-----------------------------------------------------------------------------
(* The system.                                                             *)

\* A process that is held keeps its PID after it has ended.
Ends(p) ==
    /\ call.at \notin {"idle", "done"}
    /\ p \in DOMAIN processes /\ processes[p].running
    /\ processes' = IF call.handle /\ call.pid = p THEN [processes EXCEPT ![p].running = FALSE]
                    ELSE [q \in DOMAIN processes \ {p} |-> processes[q]]
    /\ UNCHANGED <<native, born, aeDebug, installed, faults, available, call>>

Starts(p, bits) ==
    /\ call.at \notin {"idle", "done"}
    /\ p \notin DOMAIN processes /\ born < MaxBorn
    /\ born' = born + 1
    /\ processes' = [q \in DOMAIN processes \union {p} |->
                       IF q = p THEN Process(born + 1, bits) ELSE processes[q]]
    /\ UNCHANGED <<native, aeDebug, installed, faults, available, call>>

Uninstalled(program) ==
    /\ call.at # "done" /\ program \in installed
    /\ installed' = installed \ {program}
    /\ UNCHANGED <<native, processes, born, aeDebug, faults, available, call>>

-----------------------------------------------------------------------------
(* The debugger's command line.                                            *)

\* The pieces of a template: "ld" takes a value, "%" is a literal percent sign,
\* "p" and "x" are sequences that are refused.
Placeholders(template) == {i \in DOMAIN template : template[i] = "ld"}

\* validate_debugger_template.
ValidTemplate(template) ==
    /\ \A i \in DOMAIN template : template[i] \notin {"p", "x"}
    /\ Cardinality(Placeholders(template)) = 2

\* format_debugger_template: the placeholders take the values in order.
Formatted(template, values) ==
    [i \in DOMAIN template |->
       IF i \in Placeholders(template)
       THEN values[Cardinality({j \in Placeholders(template) : j <= i})]
       ELSE template[i]]

\* parse_expanded_debugger_command on what the view has: nothing for no
\* absolute executable, an error for a template that cannot be formatted.
Loaded(view) ==
    LET d == aeDebug[view] IN
    IF d.exe \notin Programs THEN Absent
    ELSE IF ValidTemplate(d.template) THEN d
    ELSE [exe |-> "error", template |-> << >>]

\* load_debugger_path as the page is initialised: any view will do.
Initialize ==
    /\ call.at = "idle"
    /\ available' = (\E v \in Views : Loaded(v).exe \in installed)
    /\ call' = [call EXCEPT !.at = "page"]
    /\ UNCHANGED <<world, faults>>

\* debugger_registry_view_for_machines.
ViewFor(bits) ==
    IF native = 32 THEN "native" ELSE IF bits = 32 THEN "32" ELSE "64"

-----------------------------------------------------------------------------
(* The commands.                                                           *)

Failed == call' = [call EXCEPT !.at = "done", !.handle = FALSE, !.event = FALSE]

\* A row of the list is chosen; an unverified one offers no command.  Debug and
\* Set Priority ask first, Open File Location does not.
Choose(command) ==
    /\ call.at = "page"
    /\ command = "debug" => available
    /\ \E p \in DOMAIN processes :
         call' = [call EXCEPT !.at = IF command = "locate" THEN "open" ELSE "confirm",
                              !.command = command, !.pid = p, !.birth = processes[p].birth]
    /\ UNCHANGED <<world, faults, available>>

Confirm ==
    /\ call.at = "confirm"
    /\ call' = [call EXCEPT !.at = "open"] \/ Failed
    /\ UNCHANGED <<world, faults, available>>

\* Mutant: the PID is enough.
NamesPid(p) == p \in DOMAIN processes

\* open_process_for_identity compares the creation times.
Names(p) == p \in DOMAIN processes /\ processes[p].birth = call.birth

Open ==
    /\ call.at = "open"
    /\ \/ /\ Names(call.pid) /\ NoFault
          /\ call' = [call EXCEPT !.handle = TRUE,
                        !.at = CASE call.command = "priority" -> "set"
                                 [] call.command = "debug" -> "machine"
                                 [] call.command = "locate" -> "path"]
       \/ FailsIf(~Names(call.pid)) /\ Failed
    /\ UNCHANGED <<world, available>>

\* SetPriorityClass, then the list is refreshed.
SetPriority ==
    /\ call.at = "set"
    /\ \/ /\ processes[call.pid].running /\ NoFault
          /\ processes' = [processes EXCEPT ![call.pid].priority = "chosen"]
          /\ call' = [call EXCEPT !.at = "done", !.handle = FALSE, !.ok = TRUE,
                                  !.done = {[on |-> processes[call.pid].birth]}]
       \/ FailsIf(~processes[call.pid].running) /\ Failed /\ UNCHANGED processes
    /\ UNCHANGED <<native, born, aeDebug, installed, available>>

\* IsWow64Process2 selects the registry view, and its command is loaded.
LoadDebugger ==
    /\ call.at = "machine"
    /\ LET view == ViewFor(processes[call.pid].bits) IN
       \/ /\ native # 0 /\ Loaded(view).exe \in installed /\ NoFault
          /\ call' = [call EXCEPT !.at = "event", !.view = view, !.debugger = Loaded(view)]
       \/ FailsIf(native = 0 \/ Loaded(view).exe \notin installed) /\ Failed
    /\ UNCHANGED <<world, available>>

\* The inheritable event, the command line and the list of the one handle.
FormatLine ==
    call' = [call EXCEPT !.at = "create", !.event = TRUE,
                         !.line = Formatted(call.debugger.template, <<call.pid, "event">>)]

PrepareLaunch ==
    /\ call.at = "event"
    /\ \/ FormatLine /\ NoFault
       \/ Fault /\ Failed
    /\ UNCHANGED <<world, available>>

\* CreateProcessW starts the debugger, whose line names a PID; what has it at
\* that moment is noted.  Then the handles are released.
CreateDebugger ==
    /\ call.at = "create"
    /\ \/ /\ call.debugger.exe \in installed /\ NoFault
          /\ call' = [call EXCEPT !.at = "done", !.handle = FALSE, !.event = FALSE, !.ok = TRUE,
                        !.done = {[on |-> IF call.pid \in DOMAIN processes
                                          THEN processes[call.pid].birth ELSE 0]}]
       \/ FailsIf(call.debugger.exe \notin installed) /\ Failed
    /\ UNCHANGED <<world, available>>

\* query_process_image_path, which closes its handle; the path is the one of
\* the process, here its birth.
QueryPath ==
    /\ call.at = "path"
    /\ \/ /\ NoFault
          /\ call' = [call EXCEPT !.at = "explore", !.handle = FALSE,
                                  !.path = processes[call.pid].birth]
       \/ Fault /\ Failed
    /\ UNCHANGED <<world, available>>

\* The file exists, and Explorer is started on its path.
CreateExplorer ==
    /\ call.at = "explore"
    /\ \/ /\ NoFault
          /\ call' = [call EXCEPT !.at = "done", !.ok = TRUE, !.done = {[on |-> call.path]}]
       \/ Fault /\ Failed
    /\ UNCHANGED <<world, available>>

\* A handle that was the last one on an ended process frees the PID.
Forget(p) ==
    /\ p \in DOMAIN processes /\ ~processes[p].running /\ ~(call.handle /\ call.pid = p)
    /\ processes' = [q \in DOMAIN processes \ {p} |-> processes[q]]
    /\ UNCHANGED <<native, born, aeDebug, installed, faults, available, call>>

Next ==
    \/ \E p \in Pids : Ends(p) \/ Forget(p) \/ \E bits \in BitsOf(native) : Starts(p, bits)
    \/ \E program \in Programs : Uninstalled(program)
    \/ Initialize \/ \E c \in {"priority", "debug", "locate"} : Choose(c)
    \/ Confirm \/ Open \/ SetPriority \/ LoadDebugger \/ PrepareLaunch \/ CreateDebugger
    \/ QueryPath \/ CreateExplorer

Spec == Init /\ [][Next]_vars

-----------------------------------------------------------------------------
\* Whatever ended, started and took over PIDs since the row was chosen, a
\* priority is set, a debugger is started and a file is shown for the process of
\* the row or for none: when CreateProcessW returns, the PID in the debugger's
\* line still is that process's (attach_debugger keeps its handle until then).
DoneToTheChosen == \A d \in call.done : d.on = call.birth

LineNames(line, pid) ==
    \E i, j \in DOMAIN line :
      /\ i < j /\ line[i] = pid /\ line[j] = "event"
      /\ \A k \in DOMAIN line \ {i, j} : line[k] \notin Pids \union {"event"}

\* A debugger that was started is the one registered for programs of the
\* target's kind, and its line is the registered one with the PID and the event,
\* each once and in that order (debugger_registry_view_for_machines,
\* format_debugger_template).
DebuggerFitsTheTarget ==
    call.command = "debug" /\ call.ok =>
      /\ LineNames(call.line, call.pid)
      /\ native = 64 /\ call.pid \in DOMAIN processes /\ processes[call.pid].birth = call.birth =>
           call.view = IF processes[call.pid].bits = 32 THEN "32" ELSE "64"
=============================================================================
