------------------------------ MODULE MCServices ------------------------------
(***************************************************************************)
(* One TLC instance of the services around the pages, which share no       *)
(* state: the single instance (SingleInstance), the stored options         *)
(* (StoredOptions), the diagnostics log and its export (DiagnosticLog,     *)
(* DiagnosticsExport), the commands on one process (ProcessCommands), the  *)
(* GPU counters (GpuCounters) and the system sampler (SystemSampling).     *)
(* `which` names the component a behaviour is of; the others rest.         *)
(***************************************************************************)
EXTENDS SingleInstance, Integers, Sequences

CONSTANTS
    NumColumn, Found, MaxChanges,
    Threads, MaxRecords, RegularCap, PriorityCap, ControlCap, PartLimit, MaxFlushes,
    CommandLines, MaxClicks,
    Pids, Programs, Templates, MaxBorn,
    Displayed, Hidden, EngineReads, DedicatedReads, SharedReads, MaxRebuilds, MaxCollects,
    ProcessorCounts, MaxInstants, MaxSamplingFaults

ASSUME SamplingAssumption ==
    /\ ProcessorCounts \subseteq Nat \ {0}
    /\ MaxInstants \in Nat /\ MaxSamplingFaults \in Nat

\* There are two columns at least, and a value of the right size is read as numbers
\* (Options, StoredOptions).
ASSUME OptionsAssumption ==
    /\ NumColumn \in Nat /\ NumColumn >= 2
    /\ \A o \in Found :
         /\ o = [schema |-> o.schema, mode |-> o.mode, speed |-> o.speed, timer |-> o.timer,
                 page |-> o.page, rect |-> o.rect, columns |-> o.columns]
         /\ o.page \in Int
         /\ o.columns \in [1..(NumColumn + 1) -> [column : Int, width : Int]]

\* A command line is a sequence (Export, DiagnosticsExport).
ASSUME ExportAssumption == \A line \in CommandLines : line \in Seq({line[i] : i \in DOMAIN line})

\* Neither the thread that shuts the log down nor the place of a caller that gave
\* up is one of the threads that record.
ASSUME LogAssumption ==
    /\ IsFiniteSet(Threads)
    /\ "main" \notin Threads /\ "nobody" \notin Threads

\* A registered command is text with placeholders, and none of the values that
\* replace them; no program has a name that stands for a missing one.
ASSUME CommandsAssumption ==
    /\ \A t \in Templates : t \in Seq({t[i] : i \in DOMAIN t})
                          /\ \A i \in DOMAIN t : t[i] \notin Pids \union {"event"}
    /\ "event" \notin Pids /\ "ld" \notin Pids
    /\ {"absent", "relative", "error"} \intersect Programs = {}

\* A counter returns an array; a load or a size that is not a number of at least 0
\* was told as a value that is not valid (read_engine_values, read_memory_values).
ASSUME CountersAssumption ==
    /\ \A x \in EngineReads : x \in Seq({x[i] : i \in DOMAIN x})
                              /\ \A i \in DOMAIN x : x[i].load \in Nat
    /\ \A x \in DedicatedReads \union SharedReads :
         x \in Seq({x[i] : i \in DOMAIN x}) /\ \A i \in DOMAIN x : x[i].size \in Nat

VARIABLES
    which,
    \* StoredOptions
    own, legacy, monitors, reader, running, options, changes,
    \* DiagnosticLog
    thread, holding, built, flushes, logFaults, lane, control, command, writer,
    sink, file, sequence, dropped, droppedTotal, shutdown, reply, promised,
    \* DiagnosticsExport
    arguments, directory, level, sensitive, ever, minidump, dumps, stores, shown, enabled,
    dialog, clicks, exporting, exportThread, bundle, posted, warned, building, private,
    artifact, late, ended,
    \* ProcessCommands
    native, processes, born, commandFaults, aeDebug, installed, available, call,
    \* GpuCounters
    generation, added, ready, kinds, samples, reads, collects,
    \* SystemSampling
    procs, samplingFaults, instant, baseline, topology, published, flight, more, outcome,
    sample, fault, injected, timerOn, stats, perf, history, cpu, cpuStale, handled,
    lastSampleError, lastWorkerError

optionVars == <<own, legacy, monitors, reader, running, options, changes>>
logVars == <<thread, holding, built, flushes, logFaults, lane, control, command, writer,
             sink, file, sequence, dropped, droppedTotal, shutdown, reply, promised>>
exportVars == <<arguments, directory, level, sensitive, ever, minidump, dumps, stores, shown,
                enabled, dialog, clicks, exporting, exportThread, bundle, posted, warned,
                building, private, artifact, late, ended>>
commandVars == <<native, processes, born, commandFaults, aeDebug, installed, available, call>>
counterVars == <<generation, added, ready, kinds, samples, reads, collects>>
samplingVars == <<procs, samplingFaults, instant, baseline, topology, published, flight, more,
                  outcome, sample, fault, injected, timerOn, stats, perf, history, cpu,
                  cpuStale, handled, lastSampleError, lastWorkerError>>

Options == INSTANCE StoredOptions
Log == INSTANCE DiagnosticLog WITH faults <- logFaults
Export == INSTANCE DiagnosticsExport WITH thread <- exportThread
Commands == INSTANCE ProcessCommands WITH faults <- commandFaults
Counters == INSTANCE GpuCounters
Sampling == INSTANCE SystemSampling WITH
    Counts <- ProcessorCounts, faults <- samplingFaults, MaxFaults <- MaxSamplingFaults

-----------------------------------------------------------------------------
(* The values of the constants.                                             *)

\* Two columns, and every list of them with four lists of widths; every page of
\* each schema; each other field damaged by itself.
Cell(column, width) == [column |-> column, width |-> width]
Base == [schema |-> 2, mode |-> "chosen", speed |-> "low", timer |-> 4000, page |-> 4,
         rect |-> 2, columns |-> <<Cell(0, 7), Cell(-1, -1), Cell(-1, -1)>>]
Widths == {<<7, 7, 7>>, <<7, -1, -1>>, <<-1, 0, 7>>, <<0, -1, -1>>}
SomeOptions ==
    {[Base EXCEPT !.columns = <<Cell(a, w[1]), Cell(b, w[2]), Cell(c, w[3])>>] :
       a, b, c \in -1..2, w \in Widths}
    \union {[Base EXCEPT !.schema = s, !.page = p] : s \in 0..3, p \in -2..7}
    \union {[Base EXCEPT !.speed = s, !.timer = t] :
              s \in {"paused", "low", "unknown"}, t \in {0, 4000, 777}}
    \union {[Base EXCEPT !.mode = "unknown", !.rect = r] : r \in 1..3}

\* Level, choices and directory in different orders, some twice or not valid.
SomeLines == {<<>>, <<"sensitive", "debug">>, <<"dirA", "minidump", "dirB", "session1">>}

\* A registered debugger's line in order, without the event, and unusable.
SomeTemplates == {<<"exe", "ld", "%", "ld">>, <<"exe", "ld">>, <<"exe", "ld", "p">>}

Engine(adapter, kind, pid, load, status) ==
    [adapter |-> adapter, ordinal |-> 0, kind |-> kind, pid |-> pid,
     load |-> load, status |-> status]
A1 == Engine("a", "3d", 1, 30, "good")
A2 == Engine("a", "3d", 2, 90, "good")
ACopy == Engine("a", "copy", 1, 30, "good")
AStatus == Engine("a", "3d", 2, 0, "status")
B1 == Engine("b", "3d", 1, 30, "good")
BValue == Engine("b", "3d", 1, 0, "value")
HiddenOne == Engine("hidden", "3d", 1, 30, "good")
Unknown == Engine("unknown", "3d", 1, 30, "good")
Unread == Engine("none", "none", 0, 0, "unread")

\* One busy engine, one used by two processes, an instance that comes again, a
\* kind that changes within a reading or from one to the next, faults of the own
\* row, of another row and of no row.
SomeEngineReads ==
    {<< >>, <<A1>>, <<A1, A2>>, <<A1, A1>>, <<ACopy>>, <<A1, ACopy>>, <<A1, ACopy, A2>>,
     <<A1, AStatus>>, <<AStatus>>, <<A1, BValue>>, <<A1, B1>>, <<A1, HiddenOne>>,
     <<A1, Unknown>>, <<Unread, A1>>}

Memory(adapter, size, status) == [adapter |-> adapter, size |-> size, status |-> status]
MA == Memory("a", 1, "good")
SomeMemoryReads ==
    {<< >>, <<MA>>, <<MA, Memory("a", 2, "good")>>, <<MA, Memory("b", 0, "status")>>,
     <<Memory("a", 0, "value"), MA>>, <<MA, Memory("none", 0, "name")>>}
SomeSharedReads == {<<Memory("a", 3, "good")>>}

-----------------------------------------------------------------------------
\* A component at rest takes part in nothing; its variables only need a value.
Resting == Init /\ identity = [p \in Launches |-> CHOOSE i \in Identities : TRUE]
OptionsResting ==
    /\ own = 0 /\ legacy = 0 /\ monitors = 0 /\ reader = 0 /\ running = TRUE
    /\ options = 0 /\ changes = 0
LogResting ==
    /\ thread = 0 /\ holding = 0 /\ built = 0 /\ flushes = 0 /\ logFaults = 0
    /\ lane = 0 /\ control = 0 /\ command = 0 /\ writer = 0 /\ sink = 0 /\ file = 0
    /\ sequence = 0 /\ dropped = 0 /\ droppedTotal = 0 /\ shutdown = 0 /\ reply = 0
    /\ promised = 0
ExportResting ==
    /\ arguments = 0 /\ directory = 0 /\ level = 0 /\ sensitive = 0 /\ ever = 0
    /\ minidump = 0 /\ dumps = 0 /\ stores = 0 /\ shown = 0 /\ enabled = 0
    /\ dialog = 0 /\ clicks = 0 /\ exporting = 0 /\ exportThread = 0 /\ bundle = 0
    /\ posted = 0 /\ warned = 0 /\ building = 0 /\ private = 0 /\ artifact = 0
    /\ late = 0 /\ ended = 0
CommandsResting ==
    /\ native = 0 /\ processes = 0 /\ born = 0 /\ commandFaults = 0 /\ aeDebug = 0
    /\ installed = 0 /\ available = 0 /\ call = 0
CountersResting ==
    /\ generation = 0 /\ added = 0 /\ ready = 0 /\ kinds = 0 /\ samples = 0
    /\ reads = 0 /\ collects = 0
SamplingResting ==
    /\ procs = 0 /\ samplingFaults = 0 /\ instant = 0 /\ baseline = 0 /\ topology = 0
    /\ published = 0 /\ flight = "idle" /\ more = 0 /\ outcome = 0 /\ sample = 0 /\ fault = 0
    /\ injected = 0 /\ timerOn = 0 /\ stats = 0 /\ perf = 0 /\ history = 0 /\ cpu = 0
    /\ cpuStale = 0 /\ handled = 0 /\ lastSampleError = 0 /\ lastWorkerError = 0

ServicesInit ==
    \/ /\ which = "instance" /\ Init
       /\ OptionsResting /\ LogResting /\ ExportResting /\ CommandsResting /\ CountersResting
       /\ SamplingResting
    \/ /\ which = "options" /\ Options!Init
       /\ Resting /\ LogResting /\ ExportResting /\ CommandsResting /\ CountersResting
       /\ SamplingResting
    \/ /\ which = "log" /\ Log!Init
       /\ Resting /\ OptionsResting /\ ExportResting /\ CommandsResting /\ CountersResting
       /\ SamplingResting
    \/ /\ which = "export" /\ Export!Init
       /\ Resting /\ OptionsResting /\ LogResting /\ CommandsResting /\ CountersResting
       /\ SamplingResting
    \/ /\ which = "commands" /\ Commands!Init
       /\ Resting /\ OptionsResting /\ LogResting /\ ExportResting /\ CountersResting
       /\ SamplingResting
    \/ /\ which = "counters" /\ Counters!Init
       /\ Resting /\ OptionsResting /\ LogResting /\ ExportResting /\ CommandsResting
       /\ SamplingResting
    \/ /\ which = "sampling" /\ Sampling!Init
       /\ Resting /\ OptionsResting /\ LogResting /\ ExportResting /\ CommandsResting
       /\ CountersResting

ServicesNext ==
    \/ /\ which = "instance" /\ Next
       /\ UNCHANGED <<which, optionVars, logVars, exportVars, commandVars, counterVars,
                      samplingVars>>
    \/ /\ which = "options" /\ Options!Next
       /\ UNCHANGED <<which, vars, logVars, exportVars, commandVars, counterVars,
                      samplingVars>>
    \/ /\ which = "log" /\ Log!Next
       /\ UNCHANGED <<which, vars, optionVars, exportVars, commandVars, counterVars,
                      samplingVars>>
    \/ /\ which = "export" /\ Export!Next
       /\ UNCHANGED <<which, vars, optionVars, logVars, commandVars, counterVars,
                      samplingVars>>
    \/ /\ which = "commands" /\ Commands!Next
       /\ UNCHANGED <<which, vars, optionVars, logVars, exportVars, counterVars,
                      samplingVars>>
    \/ /\ which = "counters" /\ Counters!Next
       /\ UNCHANGED <<which, vars, optionVars, logVars, exportVars, commandVars,
                      samplingVars>>
    \/ /\ which = "sampling" /\ Sampling!Next
       /\ UNCHANGED <<which, vars, optionVars, logVars, exportVars, commandVars,
                      counterVars>>

ServicesSpec ==
    ServicesInit /\ [][ServicesNext]_<<which, vars, optionVars, logVars, exportVars,
                                       commandVars, counterVars, samplingVars>>

-----------------------------------------------------------------------------
\* The options a user chose come back, also from an older schema or a damaged
\* value, and whatever is stored, what is loaded fits this machine (Options::load,
\* migrate_schema, normalize).
OptionsComeBack == Options!LoadedOptionsFit /\ Options!SettingsComeBack

\* The log keeps what flush and shutdown promise, tells every dropped record,
\* numbers its lines without gaps and leaves no caller waiting in vain
\* (writer_loop, enqueue, write_record, shutdown).
LogKeepsItsWord ==
    which = "log" => /\ Log!FlushKeepsItsPromise /\ Log!ShutdownSavesTheLog
                     /\ Log!DropsAreTold /\ Log!SequenceFollowsTheLines
                     /\ Log!EveryWaitIsHeard

\* What leaves the machine is what the user was told: private content in a
\* bundle is announced before and named in it, dumps and sensitive fields are
\* the user's choices, and a restart keeps them (begin_export, export_bundle,
\* set_sensitive, set_minidump, detailed_restart_arguments).
ExportMeansWhatItSays ==
    which = "export" =>
      /\ Export!OnlyLateContentIsUnwarned /\ Export!ManifestTellsPrivate
      /\ Export!DumpOnlyWhenAsked /\ Export!PrivateMeansDetailed
      /\ Export!RestartKeepsTheChoices

\* No crash artifact leaves unannounced but one that came late; false.
CrashesAreAnnounced == which = "export" => Export!CrashesAreAnnounced

\* The dialog is there when its export ends, and no second one has begun
\* (diagnostics_dialog_proc).
DialogOutlivesTheExport == which = "export" => Export!DialogOutlivesTheExport

\* A priority, a debugger or a shown file is for the process of the row or for
\* none, and the debugger is the one registered for its kind of program
\* (set_priority, attach_debugger, open_file_location).
CommandsMeetTheirTarget ==
    which = "commands" => Commands!DoneToTheChosen /\ Commands!DebuggerFitsTheTarget

\* A GPU row shows what its counters returned and says where they failed, and a
\* failure stays with its counter and its adapter (assemble_counter_samples).
SamplesAreTrue ==
    which = "counters" =>
      /\ Counters!NoNumberIsInvented /\ Counters!FaultsStayWhereTheyAre
      /\ Counters!KindsFit

\* What all consumers show is one refresh, their histories do not overlap, and a
\* requested fault strikes once (apply_system_sample of the main window and of
\* both pages, ensure_history_capacity, SamplingFaultInjection).
SamplesAgree == which = "sampling" => Sampling!SamplesAgree

\* A usage spans exactly the time since the sample published before it, failed
\* collects included (SystemCollector::collect).
DeltaSpansFailures == Sampling!DeltaSpansFailures
===============================================================================
