# taskmgr-rs in TLA+

TLA+ modules for the task manager in `src/`, TLC configurations that check them
on small instances, and TLAPS proofs of the properties that carry the rest.
Paths below are relative to the crate (`app/mod.rs` is `src/src/app/mod.rs`).

Contents: 1 the system, 2 the modules, 3 the runs, 4 fairness, 5 what the
checks found in the code, 6 the proofs, 7 what is not modelled and what is
assumed, 8 the plan.

## 1. The system

The program is one window with one UI thread and a handful of worker threads.
Everything slow (native queries, PDH, DXGI, icons, session lists) runs on a
worker that publishes complete snapshots; the UI thread is the only writer of
what is on screen. Nothing is locked on the UI's path: threads meet in bounded
channels, and a posted window message tells the UI to drain them.

### Components

| component | state | operations | interacts through |
|---|---|---|---|
| background worker (`infrastructure/worker.rs`) | command and completion channels of capacity one, thread handle | spawn, send, try_recv, drop = shutdown and join | channels, `PostMessageW` |
| single-flight worker (`infrastructure/worker.rs`) | `in_flight`, `pending_request`, merge policy, the worker or none | `request`, `drain`, respawn | owned by each page; owns a background worker |
| GPU page (`pages/gpu`) | inventory, dynamic and metadata snapshots, their errors, histories, selected adapter, status; in the collectors: topology, generation counter, PDH query, cache | timer, sample and metadata notifications, selection | two single-flight workers, message ids of its own |
| system sampler (`system/sampler.rs`, `cpu_sampler.rs`) | counter baseline, cached topology, injected fault | request, collect, drain | single-flight worker; diagnostics for the fault |
| sample consumers (`app/controllers.rs`, `pages/performance`, `pages/cpu`) | statistics of tray and status bar; histories; CPU sample state and staleness | `apply_sample`, `apply_system_sample`, error reports | called in turn by the main window |
| main window (`app/mod.rs`, `page_host.rs`, `page_registry.rs`, `controllers.rs`) | options, pages, attached menu, window mode, timer, status bar, tray icon, startup phase | startup, all window messages, shutdown | owns pages; posts messages to itself |
| process commands (`pages/processes/actions.rs`, `system/process_identity.rs`) | none between commands; open handles during one | end process, end process tree, priority, affinity, debugger, location | the operating system's process table |
| CPU page details (`pages/cpu/{mod,native,firmware}.rs`) | topology key, native and firmware component states, queued refreshes, PDH baselines | sample, timer, completions | two single-flight workers, the system sample |
| process list (`pages/processes/{mod,sampler,model}.rs`) | rows by identity, CPU baselines, sort order, selection | refresh, sort, select | single-flight worker |
| applications (`pages/applications`) | task list, icon slots and image lists, generations | refresh, icon batches, window commands | two workers |
| networking (`pages/network.rs`) | adapters, counter baselines, histories | refresh, select | single-flight worker |
| users (`pages/users.rs`) | sessions, running command | refresh, disconnect, log off | two workers |
| performance drawing, UI library, GPU drawing, `ui/*` | geometry, menus, text | paint, layout | called by pages |
| single instance (`app/single_instance.rs`) | named mutex, the authenticated window of the other instance | acquire, activate, release | other processes |
| diagnostics (`infrastructure/diagnostics`) | record lanes, writer, files, drop counters, session list, sampling fault | enqueue, flush, rotate, retain, export, shutdown | every component; a writer thread |
| crash recorder (`diagnostics/crash.rs`) | once flag, preallocated record | exception filter | the dying process |
| diagnostics dialog (`app/diagnostics_dialog.rs`) | export in progress | open, export, cancel | diagnostics |
| options (`config/options.rs`) | the options record | load, migrate, validate, save | registry |
| native wrappers (`infrastructure/native`) | handles | open, close, convert errors | all |
| program entry, capabilities, build support | none | one pass each | - |

### Behaviours that are hard, and what makes each part correct

*Workers.* Panics inside a collector, threads that die, replacement threads that
do not start, notifications that are lost or meant for someone else, and drops
while all of this goes on. Correct means: one request outstanding, never a
blocked UI thread, every operation id that a caller was told accounted for and
answered once, by a snapshot that was collected for the calls it was told to,
from a collector that has not panicked.

*GPU page.* Two workers answer about hardware that changes underneath; only a
generation number ties inventory, counters and metadata together. Correct means:
what is on screen belongs to the adapters on screen, a failed refresh takes
nothing away, the status says which parts are there, and the page catches up.

*Sampling.* A usage is a difference of two readings, so a failure between them,
a collector that starts anew or a changed processor count can falsify it; three
consumers take the same sample one after the other and one of them may refuse
it. Correct means: they show one refresh, usages tile the time, sampling
recovers.

*Main window.* One thread, but handlers come in any order between posted startup
messages, and Win32 calls fail half-way through a page switch. Correct means:
one visible page, ready, with its own menu and truthful check marks; options,
timer, status bar and tab control agree; whatever happened, shutdown releases
what was acquired.

*Process commands.* The system goes on between the calls: processes exit, start,
and reuse PIDs. Correct means: only the chosen process or tree is ended, whole
families are, and the message tells what happened.

*CPU page.* Details are collected once for each topology, by two workers, while the
topology may change; the page and the collectors each keep their own account of
what has been delivered. Correct means: no detail of another topology, none lost
to a failure, a retry that survives weaker refreshes, no loading for ever.

*Lists.* Processes, users and network adapters come and go, their numbers (PIDs,
session IDs, interface indexes) go to others, and the list view keeps state by row
number. Correct means: a row, its entry and its identity are one thing, rows that
were spared a repaint would not have changed, a rate divides two advances over
the same time, and a command acts on what was selected and confirmed.

*Applications.* Icons are collected window by window by a pool of threads that may
panic or meet a dead window, and are applied to a list that has moved on, out of
image slots that are used again. Correct means: an icon reaches its own window, no
slot has two owners, a batch is answered whole and leaves nothing to the next.

*Commands on one process.* Affinity goes to each thread in turn while threads start
and end, with a rollback on failure; a debugger is started by a PID. Correct
means: all or nothing, and never another process.

*Diagnostics.* Full lanes drop records; a flush, a shutdown and a full control
channel meet in the writer; several processes prune one root; an export takes
what another thread is changing. Correct means: what was promised is on disk,
drops are told, an open log is never deleted, and nothing private leaves the
machine unannounced.

*Single instance.* Several launches search, activate, time out and create at once,
while instances close, hand over or are killed. Correct means: the mutex covers
exactly the start; an instance that answers is not joined by a second window.

*Options.* The stored value may be of an older schema, damaged, or of another
machine. Correct means: what is loaded fits, and what was chosen comes back.

The full list of hazards, each at its line, is in `PROJECT.json`.

## 2. The modules

Each module is one component as its own code sees it; one action is one handler
or, where two threads share state, one step between two shared accesses.

### SingleFlight, SingleFlightPromise

`SingleFlight` composes `SingleFlightWorker` and `BackgroundWorker`.

- UI thread: `ui` is its place in `request`, `drain`, `submit_request`,
  `ensure_worker` and `Drop`. `Coalesce` is a request during a flight (merge into
  `pending_request`), `Request` one without; `SubmitSend`, `SubmitBroken`,
  `SubmitEnsure`, `SpawnWorker`, `SpawnError` are the loop of `submit_request`;
  `Notified`, `NotifiedByOther`, `DrainEvent`, `DrainEmpty`, `DrainDisconnected`,
  `DrainEnd` are `drain`; `Close`, `SendShutdown`, `Join` are `Drop`.
- Worker thread: `thr` is its place; `ThreadStart`, `ReceiveRun`,
  `ReceiveShutdown`, `Collect`, `CollectPanic`, `SendEvent`, `SendRefused`,
  `Notify`, `NotifyFails`, `ThreadPanics`.
- Data: a payload is the set of request calls it stands for, which is what the
  three merge policies of the pages tell apart (`replace`: the later one, `keep`:
  the earlier one, `union`: both). `collector` records whether collector state
  lived through a panic; the code drops it, and the model could tell.
- History: `told` (which calls were given which operation id), `answers`, `flight`,
  `calls`, `nextOp`. The code never reads them.

`SingleFlightPromise` is the abstract specification: one operation in flight, one
waiting, answers only for the one in flight, none answered twice. `PromiseKept`
is the refinement, with `waiting` mapped to the pending request or to the
follow-up a drain holds in its hands.

The modules below use a worker only through this interface (a flight, one
follow-up, one answer per flight), so they need no threads of their own.

### GpuPage

Hardware (`hw`, its revision `hwRev`); the sampling collector (`topology`,
`pdhError`, `dynamicReady`, the per-collector generation counter); the metadata
collector (`cached`); the page (`inventory`, `dynamic`, `metadata`, `histories`,
`selected`, the two errors, `status`). A view is a generation with its adapters
and, as history, the hardware revision it was measured on: the code compares
generations only, the properties compare revisions. `CollectorPanics` throws the
collector's state away, as the worker's factory does. Actions: `Timer`, the
collects (`RebuildOk`, `RebuildFails`, `CollectFails`, `CollectBaseline`,
`CollectDynamic`), the commits (`CommitInventory`, `AwaitBaseline`,
`RefreshFails`, `CommitDynamic`), the metadata collects and `MetadataDone`,
`SelectAdapter`. PDH, DXGI and D3DKMT answers are choices.

### SystemSampling

The collector (`baseline`, `topology`), the armed fault, the worker, the update
timer and the three consumers. A value is abstracted to when it was measured: a
sample spans `from`..`to` in readings, `from = 0` being an invalid delta, which
the code shows as 0 %. Every way for a collect to end is an action
(`CollectSample`, `CollectFails`, `CollectInjected`, `CollectPanics`), and every way
for a drain to (`SampleDone`, `SampleFailed`, `SamplePanicked`,
`SampleDiscarded`); `SampleDone` contains the whole fan-out of
`apply_system_sample` with the checks that can refuse a sample on the way.

### MainWindow

`ui` is a record of what the window shows (page, menu, tab, layouts, marks,
options); the steps handlers share (`update_menu_states`, `size_active_page`,
`activate_page`) are operators on it. `phase` follows startup: pages are created
one by one, the first is activated, the timer set, the window shown, with a
failure possible at each step; `posted` is the queue of messages the window posts
to itself. `faults` counts Win32 calls that fail. The tray icon has its own: what
the controller believes (`registered`, `trayError`) and what the shell shows (`tray`)
are kept apart, the shell may refuse each call of `update_tray` (`TrayAdded`,
`TrayRefused`, `RefreshTrayIcon`, `TrayRemoved`), and `ShellRestarts` loses the
icon. `SetTimer` and `KillTimer` are modelled from their documentation: for a
window and id 0 a second `SetTimer` replaces the timer and returns some nonzero
number, and whether that number can be used to kill it (`idNamesTimer`) is the
system's choice.

### CpuPage

Each collector's `memory` (the topology it was asked about last, what is done or
failed for it, its counter query), each worker's flight and follow-up with the
page's `queued_*_refresh` (`worker`, `answer`), and the page: `key`, `component`,
`workerError`, `baseline`. A value is abstracted to the topology it was collected
for, the two times the page compares to whether a sample has passed the priming
of the counters. `ApplySample` is the whole of `apply_system_sample`: change of key,
clearing, prewarming, flush of both queues, second reading of the counters.
`TimerEvent` is the page's `timer_event` for all four kinds of refresh,
`CollectNative` and `CollectFirmware` a collection with any of its queries failing,
`Completion` a drain with its commits and what the page requests after it. `owed`
is history: workers that owe the user a refresh.

### ProcessTree

The system (`proc`, `now`, `freed`) steps between any two calls of the command:
`CreateProcess`, `Exit`, `FreePid`, `Tick`. The command is `OpenRoot`, then
`KillOne`, or `ListProcesses`, `ReadSnapshotTime`, `ValidateRoot`, the walk
(`VisitChild`, `LeaveParent`), `OpenTarget`, `TerminateTarget`, `Conclude`. Calls may
be refused. History on each process: whether it is of the selected tree (`kin`)
and whether it was started after the listing (`late`).

### GpuCounters

The PDH query under the generation of `GpuPage`: `Rebuild` adds the three counters,
of which any may be refused, `Read` is one collection of instances (what the
counters return is chosen among readings with repeated, unreadable, foreign or
contradicting instances), `SampleOf` becomes one row per adapter with its issues
(`assemble_counter_samples`). The kinds of engines are remembered within a generation.

### ProcessList, Users, Network

Three pages with one shape: a worker that collects a snapshot, an incremental
merge into the entries, rows that are rewritten only where a mark says so, a
selection, and system events between any two steps.

- `ProcessList`: a collection looks at the machine at several moments. `Snapshot` has
  the PIDs and images of one of them, `OpenRow` opens each PID later, one by one, and
  reads creation time, CPU time and token of whoever holds it then, `Merge` asks WTS
  for the accounts still missing; processes start, end and take over PIDs between
  any two of these steps. `UpdatedEntry`, `Resort`, `Rebuild`, `Apply` the merge, the dirty columns, the sort
  that is made only when one is noticed to be needed, and the virtual list;
  `FindProcess`, `ColumnClick`, `SetupColumns` what the user does. `since` on an
  entry is history: the interval its CPU share covers.
- `Users`: `Collect` with queries that fail, `ApplySnapshot` with the remembered
  identities, `UpdateListview` row by row with the notifications the control sends
  for each changed row; `Ask`, `Confirm`, `Validate`, `Call`, `Finish` are a command on
  one or several sessions behind its dialog, while refreshes go on.
- `Network`: `ApplySnapshot` matches adapters by identity, carries counters over and
  computes rates; `Labelled` and `SizePage` are the panes and the scroll bar.

### Affinity, ProcessCommands

`Affinity` is `set_affinity`: `InitialMasks`, the dialog, then `SetDefaults` or
`SetProcessMask`, `ListThreads`, `OpenThread`, `SetThread`, `ListAgain`, `VerifyThread`, and
on failure `Rollback`, `EndRollback`, `Restore`, with threads beginning and ending and
thread IDs used again by other processes between the calls. `ProcessCommands` has
Set Priority, Attach Debugger (both registry views of `AeDebug`, the template's
placeholders, the inherited handle) and Open File Location.

### Applications, IconPool

`Applications` has the window sampler, the icon worker's batch and queue
(`MergedBatches`), the image slots (`icons`: images and free slots), the page's merge
and sorting, the list view's rows with their image and selection, and a context
menu that stays open while snapshots arrive. `IconPool` has the threads behind
one batch: `Spawn`, `Dispatch`, `Gather` and the end on the collector's side, `Claim`,
`Fetch`, `Panic`, `Send` on each thread's.

### SingleInstance, StoredOptions

`SingleInstance` has any number of launches, each a process with its identity:
the mutex (abandoned by whoever dies), the search, `PWM_ACTIVATE` with its answer or
timeout, the window, the release, a restart that hands over, and a kill at any
step. `StoredOptions` is `Options::load` and what it calls, on every schema and with
each field damaged, and the moments at which the options are saved.

### DiagnosticLog, LogRetention, DiagnosticsExport

`DiagnosticLog`: recording threads (`TrySend`, `CountDrop`), callers of `flush` and
`shutdown` (`SendCommand`, `Refused`, `Answered`, `TimedOut`), and the writer, whose
biased poll is `PollControl`, `PollPriority`, `PollRegular`, `PollTicker`, followed by the
drains and the report of drops. `LogRetention`: several processes list, delete,
create and rotate in the same roots. `DiagnosticsExport`: the choices of the dialog
against recording threads, the export thread, a crash, and the restart with
detailed logging. Reading the other sessions' directories for the warning may fail, and
counts as no crash then (`NeedsWarning(unread)`), as in the code.

### Sums for TLC

`MCServices`, `MCResources` and `MCLists` each instantiate several of the
components that share no state, with `which` naming the one a behaviour is of;
the others rest in one state. The states of a sum are those of its parts added
up, not multiplied, and each property is about one part. `MCServices` has the
single instance, the options, the log, its export, the commands on one process,
the GPU counters and the sampler; `MCResources` retention, affinity, the
Applications page and the icon pool; `MCLists` the three list pages. `MCLive` has
those with liveness properties once more, on smaller instances and with
fairness (`WorkersReturn` is about the log and the icon pool, of which one is
awake). `MCGpuPage` and `MCCpuPage`, `MCMainWindow`, `MCProcessTree`, `MCSingleFlight`
give one module its constants; `MCApplications` those of the run
`applications_selection`.

### Modules of proofs

`SingleFlightProofs`, `CpuPageProofs`, `GpuPageProofs`, `MainWindowProofs` and
`ProcessTreeProofs` each extend one component; `ServicesProofs`, `ResourcesProofs` and
`ListsProofs` each a sum, since the properties of its parts are stated there. A
theorem about a part of a sum is about that part: the others stutter while it is
awake. Where a proof has to follow an enumeration, the model states it by rank or
by quantifiers (`Resort` and `kept` in `ProcessList`, the sorting of `Users` and
`Network`, `NormalizedColumns` in `StoredOptions`, `LineNames` in `ProcessCommands`,
`Parse` and `RestartArguments` in `DiagnosticsExport`) rather than by a fold or
`SelectSeq`: the element at place i is the one with i - 1 before it.

## 3. The runs

| run | question | properties | bounds |
|---|---|---|---|
| `single_flight` | Do panics, dying threads, failed respawns and lost or foreign notifications break the single-flight discipline, lose or double-answer an id, block a teardown? | `Discipline`, `SnapshotOfTheRightCall`, `PromiseKept`, `TeardownEnds`, `EveryOperationSettles` | 3 calls, 3 policies |
| `gpu_safety` | Does anything on screen belong to other hardware than the list? | `PageTellsTheHardware`, `KeepsLastValid` | 2 adapters, 2 hardware changes, 3 rebuilds |
| `main_window` | One ready page with its own, truthful menu; everything released, or known not to be. | `ShownPageIsReady`, `ScreenTellsTheState`, `AllReleased` | 2 pages, 2 faults |
| `cpu_page` | Details of the shown topology only, none lost, the user's refresh kept, nothing loading for ever. | `DetailsOfTheKey`, `UserRefreshNotLost`, `KeepsLastValid`, `DetailsSettle` | 2 topologies, 4 changes or refreshes, 1 fault |
| `process_tree` | Only the tree, all of it, and the truth about it. | `OnlyTheTree`, `EndsWhatItReports` | 4 PIDs, 3 ticks, 3 creations, 1 refusal |
| `live` | Does what has to happen happen: sampling recovers, the GPU page catches up, flushes, shutdowns and batches return? | `SamplingComesBack`, `PageCatchesUp`, `DetailsSettle`, `WorkersReturn` | sampler: 1 or 2 processors, 4 readings, 2 faults; GPU: 1 adapter, 1 change, 3 rebuilds; log: 2 threads, 1 record; pool: 2 threads, 2 requests, 2 batches, 1 panic |
| `services` | Do the services keep their promises through crashes, full lanes, reused PIDs, closed dialogs and damaged values? | `MutexCoversTheStart`, `LogKeepsItsWord`, `ExportMeansWhatItSays`, `DialogOutlivesTheExport`, `CommandsMeetTheirTarget`, `SamplesAreTrue`, `SamplesAgree`, `OptionsComeBack`, `DeltaSpansFailures` | 3 launches, 2 identities, 1 fault; log: 2 threads, 2 records, lanes of 1; export: 5 clicks; 2 PIDs, 3 births; 2 displayed adapters and 1 hidden, 2 collections; 2 columns; sampler: 1 or 2 processors, 4 readings, 2 faults |
| `resources` | Is what is taken kept or given back: open logs, a process's affinity, icon slots, batches? | `OpenLogIsKept`, `KeepsTheLimits`, `AllOrNothing`, `TasksHaveTheirIcons`, `BatchIsWhole` | 2 processes, 3 sessions, limits 2 and 3; 3 processors in 2 groups, 3 thread IDs, 2 spawns; 3 windows, 2 changes, 1 click, 2 collections; pool: 2 threads, 3 requests, 2 batches, 2 panics |
| `lists` | Do the lists show one snapshot each, row for row, and do commands act on what was confirmed? | `ScreenShowsTheSessions`, `ActsOnlyOnTheConfirmed`, `RowsAreTrue`, `SharesAndAccounts`, `ScreenShowsTheAdapters`, `SelectionStaysWithItsProcess` | 2 session IDs, 3 logons; 3 processes, two of one PID, 3 collections; 3 interfaces, two of one index, 3 samples; 1 fault, 2 clicks, 2 changes |
| `process_tree_reuse` | Is nothing but the tree ever ended? No. | `SparesTheOthers` | 3 PIDs, 3 ticks, 2 creations |
| `single_instance_answer` | Does a launch whose message was answered give way? No. | `AnsweredLaunchGivesWay` | 3 launches |
| `applications_selection` | Does a command fall on the chosen windows? No. | `ActsOnTheChosen` | 3 windows |

Why the bounds are enough to show the cases meant:

- Three calls are one in flight, one pending and one coalesced into it, or one
  made after the respawn that a drain begins; every fault can strike each of
  them, any number of times. The proofs (section 6) lift the bound for safety.
- Two adapters tell "one left", "one came" and "all gone" apart; two changes allow a
  return to the first configuration; three rebuilds are the first topology, one
  for the change and one of a rebuilt collector, which is what reuses a
  generation. The properties without `GenerationReused` in them hold with reuse.
- Four readings contain a valid usage, a failure after it, and a recovery whose
  usage spans the failure, before or after a change of the processor count. The
  reading number saturates (`Tick`), so that liveness is checked on infinite
  behaviours.
- Pages differ only in whether they always use the normal minimum size; two pages
  are one of each. Two faults are a failed activation and a failed restoration.
- Four events on the CPU page are a topology that comes, goes and comes back (or
  is replaced by the other, and back) and a refresh in between, or two refreshes
  that meet in the queue or the follow-up around one change. Refreshes the page
  asks for itself (prewarming, the second reading of the counters) are not
  counted. One fault is a query or a panic; what it can break is the source it
  strikes, and the sources do not read each other's memory.
- Two session IDs with three logons are one reuse of an ID behind an open dialog;
  three processes of which two share a PID are one reuse between the halves of a
  collection, or between two collections; three interfaces of which two share an
  index are the collapse of rows and a change of order. One fault is a query that
  fails between two good collections.
- Two threads and lanes of one record are every way to meet: a full lane, a send
  that loses against a flush, a drop that is counted late. Two writing processes
  and three sessions are the smallest root with an own, a foreign open and a
  stale session; with limits of two and three both limits bite.
- Three launches are an instance, a second one that meets it, and a third that
  meets either at its start, or the replacement of a restart.
- Three processors in two groups give a selection within one group, across both,
  and one with a single processor; two spawns are a thread that appears after the
  first listing and one after the second.
- Four PIDs are the selected process, a child, a grandchild and a stranger; three
  ticks are before, at and after the listing's time.

`gpu_safety` and `cpu_page` never stop, and in `SingleFlight` the closed state stutters
explicitly (`Closed`). The others switch TLC's deadlock check off: the window is
closed, the command has ended, the processes have exited, or the bounds on
collections and changes are used up.

Each property of a passing run is paired in `PROJECT.json` with a mutant: a definition
of the module changed as a slip in that code would change it (a policy that
keeps the wrong request, a flight not cleared by a disconnect, a generation check
left out, a baseline committed before the collect succeeds, marks not updated
before a menu is attached, an edge check without the listing's time). TLC finds
each property violated by its mutant, so none holds by the shape of the model.

## 4. Fairness

- `SingleFlight`: weak fairness of the UI thread's own steps and of the worker
  thread. The message loop runs and collectors return; `request` and `Close` are the
  page's choice and get none. `EveryOperationSettles` excepts what `Stranded`
  names: an operation whose notification was lost or whose thread died, and a
  follow-up that could not be resubmitted, where the code waits for the next
  notification or the next call (section 7).
- `GpuPage`: weak fairness of the timer, the workers and the message handlers;
  strong fairness of a rebuild, of a dynamic collect and of a commit with an
  advanced tick count: a query that can succeed is not refused each time, and
  two samples do not fall into one 10-16 ms tick of `GetTickCount64` for ever.
- `SystemSampling`: weak fairness of the timer while it is not paused, of the
  worker and of the completion handler. Failures are bounded by `MaxFaults`, so
  recovery is claimed after the last failure.
- `DiagnosticLog`: weak fairness of the writer, of a thread inside `enqueue` and of
  a caller of `flush` or `shutdown` (a send that cannot succeed ends by its
  timeout). Nobody has to log, flush or shut down; an answer need not time out.
- `IconPool`: weak fairness of the collector and of each thread; when a batch
  begins is the page's affair. A panicking thread has taken its step.
- `MCLive` states all of these (but `CpuPage`'s and `SingleFlight`'s, which have runs of
  their own) as `Fair`, each for the component that is awake.
- `CpuPage`: weak fairness of samples (with the topology as it is, newer than
  every priming: the sampler runs on the main window's timer), of collections
  and of completions. Not of the page's own timer, which runs while the page is
  the active one.
- The other modules state safety only.

## 5. What the checks found in the code

1. *The time of the process listing* (`pages/processes/actions.rs:1625`, run
   `process_tree_reuse`). It is read after the listing; a PID reused in between is
   not recognised, and its new owner is ended with the tree. `OnlyTheTree` in
   `process_tree` shows that this window and the clock tick are all there is.
2. *The answer to a second launch* (`app/mod.rs:2667`, `app/single_instance.rs:164`, run
   `single_instance_answer`). The dialog procedure returns `PWM_ACTIVATE` as its own
   value without setting `DWLP_MSGRESULT`, so that the dialog manager answers 0; the
   launch that asked takes this for no answer and opens a second window.
3. *A click on a column of the Applications page* (`pages/applications/mod.rs:401`, run
   `applications_selection`). It sorts the tasks at once, while rows and selection keep
   the former order until the next snapshot; a command in between acts on another
   window.

Eight more configurations stand beside the runs; each shows a disagreement between
the code and what its documents, or the reader, would expect:

| configuration (module) | property | what TLC shows |
|---|---|---|
| `GpuPageReuse.cfg` (`MCGpuPage`) | `RejectsStaleGenerations` | A rebuilt collector numbers from 1 again (`pages/gpu/counters.rs:225`): hardware that changed meanwhile gets a generation the page has, which compares generations only (`pages/gpu/mod.rs:607`) and keeps the former hardware's counters under the new inventory. |
| `SystemSamplingZero.cfg` (`SystemSampling`) | `KeepsLastUsage` | The first sample of a rebuilt collector has no valid delta; tray and status bar take its 0 % (`app/controllers.rs:51`), the CPU page does not. |
| `MainWindowTimer.cfg` (`MCMainWindow`) | `TimerFollowsOptions` | `SetTimer` with id 0 on a window replaces its timer; killing the "old" one (`app/mod.rs:988`) then kills the only one or fails and leaves options and timer apart. |
| `CpuPageReturn.cfg` (`MCCpuPage`) | `DetailsComeBack` | When the topology becomes unknown the page clears its details; when the same one is known again, the collectors hold it for answered (`pages/cpu/mod.rs:533`) and the page stays at "loading details". `DetailsSettle` in `cpu_page` shows that this is the only way to load for ever. |
| `ProcessColumns.cfg` (`MCLists`) | `ColumnsShowTheirValues` | A column that is switched on is not filled before the next change of its value or the next rebuild. |
| `ProcessImages.cfg` (`MCLists`) | `ImagesAreTheirOwn` | The image of a row is that of the Toolhelp snapshot, its identity, times and token those of whoever has the PID when it is opened afterwards (`pages/processes/sampler.rs:547`); a PID that changes hands in between gives a row the image of the former process. Only the WTS merge compares images. |
| `ExportUnread.cfg` (`MCServices`) | `CrashesAreAnnounced` | A session directory that cannot be read while the warning is decided counts as one without a crash (`infrastructure/diagnostics/mod.rs:1389`, `is_ok_and`, `unwrap_or(false)`); when it can be read again, the export copies the crash that was there all along, unannounced. |
| `UsersSelection.cfg` (`MCLists`) | `SelectionStaysWithItsSessions` | The list view keeps the state of selected rows by row number, and `update_listview` restores one selected session; of several, others can come to be selected when rows move. |

## 6. The proofs

`SingleFlightProofs` proves, for every number of calls, every set of merge policies
and every combination of faults, from the assumptions that `SingleFlight` names
(`PoliciesAssumption`, `MaxCallsAssumption`, `FaultAssumption`):

| theorem | statement |
|---|---|
| `TypeCorrect` | `Spec => []TypeOK` |
| `Inductive` | `Spec => []IInv` |
| `AtMostOneInFlight` | `Spec => []OneOutstanding` |
| `SubmitDoesNotBlock` | `Spec => []SubmitNeverBlocks` |
| `EveryIdAccountedFor` | `Spec => [](NoSilentLoss /\ AnsweredOnce)` |
| `RightSnapshots` | `Spec => [](SnapshotOfTheRightCall /\ NoTaintedSnapshot)` |
| `NoCircleOfWaits` | `Spec => []NeitherWaitsForTheOther` |
| `NoneForgotten` | `Spec => []NothingForgotten` |
| `Disciplined` | `Spec => []Discipline`, all of the above but the payloads |
| `DropIsShort` | `Spec => EveryStepCounts` |
| `KeepsThePromise` | `Spec => PromiseKept`: initial states map, each step maps to a step or a stutter |

None of the properties is inductive alone. `IInv` has four layers, each inductive
given the ones before it:

- `TypeOK`;
- `Pipeline`: where the one outstanding request is (command channel, thread,
  completion channel) and what the two threads can be doing then. Without it
  nothing says that a thread in its completion send finds room, or that a
  respawn during a drain does not leave two requests under way;
- `Accounts`: ids are drawn in order and each told id is in exactly one place,
  so that an id in a drain's hands is not also pending or answered. The action
  `SubmitFails`, which puts a follow-up back behind a failed respawn, is why
  the place of `arg` depends on `argFrom`;
- `Payloads`: what a request carries equals what the policy makes of the calls
  told its id, at every place it passes, and no collector that panicked is kept.
  Merging is the lemma `MergeSurvivor`; it needs that calls are numbered in the
  order they are made.

The safety core of the two liveness properties is proved too. `Waits` adds to `IInv`
that who joins has told the thread to stop, that what is in flight is somewhere
between the two threads as long as the thread is there, and that the receiver is
there until the worker is dropped. So whenever the UI waits in a submission, a drop
or a join, the thread can go on (`NoCircleOfWaits`); a thread that is being dropped has
at most four steps left, and each leaves it less (`EveryStepCounts`, with `StepsLeft`);
and when neither moves, no operation is left behind in a queue (`NoneForgotten`).
`Stranded` is the exception of the code itself: a completion whose notification
failed, or a thread that died of a panic nobody was notified of.

The refinement follows from `IInv`: `OneOutstanding` gives that a submission finds
no flight, `AnsweredOnce` that its id is fresh.

`CpuPageProofs` proves, for every set of topologies and all bounds on events and
faults, from `CpuPageAssumption` (`NoKey` is no topology, the bounds are natural):

| theorem | statement |
|---|---|
| `Inductive` | `Spec => []IInv` |
| `TypeCorrect` | `Spec => []TypeOK` |
| `OnlyDetailsOfTheKey` | `Spec => []DetailsOfTheKey` |
| `NoUserRefreshLost` | `Spec => []UserRefreshNotLost` |
| `LastValidKept` | `Spec => KeepsLastValid` |
| `NoDetailMissed` | `Spec => []RestIsSettled` |

That the page shows details of its topology only needs three links at once, and
`IInv` has them as conjuncts: a collector whose counters are primed keeps the query
of the topology it was last asked about (`PdhOfTheKey`); the values of an answer
are of the topology the answer names (`AnswersOfTheirKey`); the page takes an
answer only when it names the page's topology. `CollectionKeepsIInv` carries the
first two through a collection, `CommitSound` the third through a completion.

What is owed to the user concerns one worker at a time. `Keeps(f, k)` says that
flight `f` holds the user's refresh for topology `k`, in the page's queue, in the
request under way or in the follow-up; one lemma for each operation on a flight
(`RequestSound`, `FlushSound`, `InitialDynamicSound`, `QueuePrewarmSound`,
`DrainedSound`) shows that it goes on holding it. The first conjunct they need is
`KnownTopology`: nothing is under way for an unknown topology, so that a merge of two
requests never keeps the key of nothing. `LastValidKept` follows from `IInv` and
`CommitSound`: while the topology stays only completions change a component, and
`Apply` never empties one.

`RestIsSettled` is the safety core of `DetailsSettle`: with a topology known, a worker at
rest has nothing queued, and a detail it collects once that is not on the page failed,
went with a panic, or is `ForgottenBy` the collector. `RestInv` is inductive given `IInv`:
without a queued refresh a worker works for the page's topology and for no other
(`About`, a change of topology always queues one), and an answer is of the topology
its collector remembers, with everything collected once no longer to do. (`RestIsSettled`
and `EveryStepCounts` are theorems only; no run names them.)

`GpuPageProofs` proves, for every set of adapters and any number of hardware changes
and rebuilds, from `AdaptersAssumption` and `BoundsAssumption`: `Inductive`,
`ScreenTellsTheHardware` (`Spec => []PageTellsTheHardware`) and `LastValidKept`
(`Spec => KeepsLastValid`). The page compares generations, the property hardware;
`ViewsInv` connects them: every view anyone holds was drawn under a pair of
generation and revision in `named`, and two views of one revision list the same
adapters. `CollectorInv` says that what waits for the page is the collector's
present topology, `PageInv` that the page falls behind a collector only with an
error on record, `DetailsInv` that the metadata asked for last are those of the
adapters listed. `ReadyMeansComplete`, `SelectionIsListed` and `StatusTellsTheData` are
then inductive; `ShownDataFitsInventory` follows from `ViewsInv` and `PageInv`, and
`NoDetailsForgotten` (metadata neither shown nor under way have failed) from `DetailsInv`
and `BlankInv`.

`MainWindowProofs` proves, for any pages, commands and failed calls: `Invariance`,
`OnePageIsReady` (`Spec => []ShownPageIsReady`), `ScreenIsCurrent`
(`Spec => []ScreenTellsTheState`) and `NothingStays` (`Spec => []AllReleased`). The
invariant says, for each phase of startup, which pages exist and which messages
are still posted, and ties to the page on screen its menu, marks, layout and
options; that a close releases everything needs that every handler leaves the
timer and the menu in a state `shutdown` finds, and that the controller knows of
every icon the shell shows (`tray => registered`; the converse fails when the shell
restarts). `NothingStays` does not promise that the icon is gone, since the shell may
refuse `NIM_DELETE`: what is left then is still registered, with its error recorded
(`app/controllers.rs:124`).

`ProcessTreeProofs` proves, for every set of PIDs and any number of ticks,
creations and refusals (`ProcessTreeAssumption`): `Inductive`, `OnlyTheTreeEnds`
(`Spec => []OnlyTheTree`) and `TreeEndsAsReported` (`Spec => []EndsWhatItReports`).
The first argument is about time. `LivesInv`: a PID passes on only
in a later tick, so that whoever holds the PID of a parent and is not younger
than the child is that parent, and a child shares its kin and its lateness.
`ListInv`: the listing tells the parents of the processes it lists that are still
there. `ChosenInv`: every identity on the stack, in the order or among the handles
is `Proper` (nobody else will bear it, and who bears it may be ended) and, for a
parent, its `Heirs`, the listed processes that point to it and are not older, are
of the tree. `ChildProper` is the step where the two comparisons of
`is_valid_process_tree_edge` are needed, one for each case. `WalkInv` says that the
root is visited once and followed last, so that its handle is there to be taken
over. `TypeInv` includes that an open handle pins its process.

The second is `FamilyInv`: a process of the tree that has run since before the
listing is listed, is visited once, from its parent's frame, comes before its
parent in the order and is a target before it, or the walk has noted a failure;
the command's answer is then the truth about them.

`ServicesProofs` (assumptions `NobodyAssumption`, `SamplingAssumption`, `LogAssumption`,
`CommandsAssumption`, `CountersAssumption`, `OptionsAssumption`, `ExportAssumption`):

- `MutexCovers`: `LockInv` adds that the owner of the mutex is starting and, without
  faults, whoever is starting owns it.
- `SamplingInductive`, `OneRefreshForAll`, `UsageSpansFailures`: `BaselineInv` (a
  baseline is the last published reading, none lost in between), `SampleInv` (a
  waiting sample begins no earlier than what was handled ended, or is invalid) and
  `HistoryInv` give that usages tile the time; `FaultInv` that an armed fault has
  not struck.
- `LogIsTrue`, for any number of threads, capacities and flushes: in `LogInv` a record
  is in one place (with its thread, in a lane, with the writer, in the file, or
  dropped and counted), and what a flush was promised is in the lanes behind the
  writer or in the file already. The counts are folds; each is unfolded by an
  induction over numbers (`NumbersInduction`), which the well-founded induction of
  the library gives for a set of numbers. `HeardInv` follows a command from its sender to
  its answer: a caller's wait ends by an answer or by its timeout, and the writer a
  shutdown joins has a shutdown before it or is ending, also if the caller gave up
  waiting for the answer (`EveryWaitIsHeard`).
- `DialogStaysForTheExport`: the dialog cannot close, nor its export button be
  enabled, between the start of the thread and the handling of its message.
- `CommandsHitTheirTarget`: an open handle keeps its process and so its PID; the
  debugger's line has two placeholders and none of the values has one.
- `SamplesTell`: each property of a sample is about the collection it was made from,
  so the three are inductive together; the work is within one step. Engines of one
  name have one first place (`SameFirst`), so that the engines found of an adapter
  are told apart by name (`EnginesDiffer`) and, if every reading counts, the load at
  a first place is the load of its engine (`LoadsShown`); a sum of loads is a number
  whatever order the fold takes (`SummingIsNat`).
- `OptionsReturn`: the columns that the repair keeps are taken by their rank among the
  places kept (`RanksRise`, `RanksTaken`: the ranks of a finite set are 1 to its size,
  in order). So the repaired list is valid (`NormalizedIsValid`), a valid list is its
  own repair (`ValidIsNormal`) and no column is invented; `PagesMigrate` says that the
  renumbering keeps a page's name. The invariant (`OptionsInv`) is only about shape and
  that the primary monitor stays.
- `ExportSaysWhatItHolds`: a change of the dialog is up to three stores, made one
  after another while other threads record; each is about a name of its own, so
  that what the choices will be once all are made (`Settles`) is known throughout.
  `PrivateInv` says that sensitive content is in the log only if the flag that
  remembers it is set, or set before the content can be; `WarningInv` that the warning
  was decided on what was there then, short of sessions that could not be read: the
  theorem says that of a crash, and `ExportUnread.cfg` shows that it must. `DirectoryIsKept` and `RestartParses` follow
  the arguments that a restart keeps by their rank.

`ResourcesProofs` (`RetentionAssumption`, `ThreadsAssumption`, `PoolAssumption`,
`WindowsAssumption`):

- `OpenLogKept`, since whatever listing a cleanup works from, a deletion is refused
  by the handle of the one who holds the session.
- `LimitsKeep`: the sizes of the log are sums over sets, which the community
  module defines by folding over elements chosen one by one. `TotalRemoves`, an
  induction over numbers, makes the sum independent of that order: what is taken
  away is subtracted. `LimitsInv` then says by `Stage`, for each step of a cleanup,
  what it has reached if it ran alone and nothing was refused; its listing is
  then the disk short of its own session, and what it counts is what is there.
- `AffinityIsAllOrNothing`, where the invariant follows each thread through both
  listings, the verification and the rollback, and the default CPU sets through
  all of it.
- `BatchesAreWhole`, which counts what is dispatched, claimed and sent, so that a
  gathered batch leaves both channels empty; and, with `SpawnedInv` (every
  thread is there before the first batch), that while the caller waits some thread of
  the pool can go on (`NobodyStops`).
- `TasksHaveIcons`, from `AppsInv`. `FitStore` and `Holds`: every slot is nobody's or one
  task's, and holds the icon of that task's window. A slot that a new task takes
  is nobody's (`AllocatedFits`), the slots given back are those of the windows that
  have gone (`GoneSlotsAreTaken`, `ReleasedFits`). Icons are placed by a fold over the
  answer, in an order of the fold's choosing; `WithIconsKeep` goes through it by
  induction over numbers. `AskingKeeps` carries through a drain that the windows
  marked as asked are those of the request under way and of the queue, each in one
  of them. A merge that does not sort keeps the order because no sorted value
  changed (`SameOrderRises`).

`ListsProofs` (`UsersAssumption`, `NetworkAssumption`, `ProcessesAssumption`): a list
that is sorted, merged and repainted only in part. Common to all three is the
lemma `Ranked`: of a finite set under a strict order, the elements are at places 1
to its size, each once; from it `PlacesInOrder`, `SetIsListed` and the sorting lemmas
follow, which say of each enumeration that it loses nothing, repeats nothing and
is in order.

- `ConfirmedOnly`: `CommandInv` carries what the last look saw from `Validate` to
  `Call`. `SessionsAreShown`: the entries have IDs of their own; a row that was not
  rewritten is right because only an entry that is not marked is spared, and was
  listed under its ID before.
- `AdaptersAreShown`: one row per index survives the collapse, counters are as old
  as the last snapshot, and a graph whose title was not set again has the adapter
  it had.
- `RowsAreShown`, `AccountsAreTrue`, `SelectionStays` rest on one invariant, `ListInv`.
  Its sampler half: the processes that run have PIDs of their own, so that a
  snapshot has one process for a PID; every baseline is as old as the system's time;
  a token's account, and so a remembered name, is that of the very process whose
  creation time was read with it. WTS names only the rows still without one, by PID
  and image: it can only mean another process if the row's own has ended since it
  was opened (`Own`, `Known`), because two that run never share a PID. Its page
  half (`Displays`): each entry is `Known` in the same sense, PIDs are distinct, the
  rows are in order, and what is painted, the remembered identities and the list
  view's selected row all agree with the entries; a process looked for is never
  listed. `UnmovedIsPainted` is the reason a spared repaint is right: if no identity
  moved, an entry without a mark has the texts it had. `EntriesMerged` shows that a
  merge which does not sort keeps the order, since no value of the sorted column
  changed. `Applied` puts them together for one snapshot, and `ListSteps` goes through
  the handlers; it also gives, for each step, that the selection stayed with its
  process or the step was the user's.

Model-checked only: all liveness (`EveryOperationSettles`, `TeardownEnds`, both
`DetailsSettle`, `SamplingComesBack`, `PageCatchesUp`, `WorkersReturn`), which is out of
TLAPS's reach. Proved of it is what does not depend on fairness: that nobody waits for
who waits for him (`NoCircleOfWaits`, `BatchesAreWhole`, `LogIsTrue`), that a drop's steps
count down (`DropIsShort`), and that nothing at rest is left behind (`NoneForgotten`, `NoDetailMissed`,
`ScreenTellsTheHardware`).
Every invariant and action property that a passing run checks is
stated by a theorem.

## 7. Not modelled, and assumed

Not modelled at all: drawing, geometry, templates and texts (the CPU, GPU and
Performance pages' layout, the UI library), the native wrappers, which have no
state of their own and enter each model by what they do, the crash recorder
(one record, one flag, in the exception filter), program entry, and the build.

Left out of modelled components:

- GPU page: engine slots, history buffers' contents, layout; temperatures.
- Sampling: the arithmetic of `calculate_cpu_delta` (abstracted to the interval
  measured) and the topology's contents (abstracted to its length).
- Main window: window rectangles, hiding with the right button, popup menus,
  dialogs that commands open, commands forwarded to a page, the privilege and
  relaunch steps, and `cleanup_failed_startup` before the dialog exists.
- CPU page: what the queries return, the samples' own fields (diagnostics,
  history, the mark of a failed sample), destruction, a worker thread that dies.
- Process list: the columns that behave like the three modelled (memory, handles,
  times), the session by which WTS rows are compared as well once it is known, the column dialog, the state of the menu. Network: the scale of the
  graphs. Users: the message dialog. Applications: the view modes, the Run dialog,
  what a window does when it is told to close.
- Process commands: the controls of the affinity dialog, adjusting privileges.
- Diagnostics: encoding and redaction of a record, access control of the directories.
- Options: the binary layout of the value.
- Workers: the test-only `Disconnect` command.

Assumed:

- Operation ids are positive and distinct. `next_operation_id` returns 0 when no
  diagnostics runtime exists; nothing but the log tells ids apart then.
- A posted notification that is lost leaves the page waiting until another
  notification drains its worker: the safety properties hold with losses, and
  `EveryOperationSettles` names the case.
- `SetMenu(hwnd, null)`, on leaving a mode and at shutdown, does not fail; the code
  ignores its result.
- `BeginDeferWindowPos` in the Networking page's `size_page` does not fail. Without it
  the function returns (`pages/network.rs:588`) after the panes are counted anew and
  before the scroll bar and the titles follow; `TitlesNameTheGraphs` is not claimed then.
- A list view of comctl32 keeps the state of a row by its index, reports a changed
  item whichever part changed, and asks for texts when it paints.
- A mutex is abandoned by a process that ends and then owned by the next that
  waits. A directory in which a file is open cannot be deleted.
- A thread ID is used again only when nobody holds a handle on its thread.
- A PID is reused only in a later clock tick than the one it was freed in, and
  never while a handle to its process is open; the clock does not go back. The
  confirmation of End Process is given.
- In `ProcessTree` the failure branches of `Prepared` and `ValidateRoot` are kept
  although nothing reaches them while the root's handle is held: the code has
  them.

## 8. The plan

Done, in the order of importance: the worker every page rests on, proved; the page
with the most subtle staleness (GPU), proved; the sample every page shares,
proved; the window that hosts them; the CPU page's details, proved; the commands
that cannot be undone, with the proof that only the tree ends; then the services
(single instance, options, log, retention, export) and the lists (processes,
users, adapters, windows and their icons) with the proofs of what must never
happen there: a start outside the mutex, an open log deleted, a session acted on
unconfirmed. Then the proofs of the rest of the safety: the main window, the
order in which a tree ends, the log's promises, affinity, batches, the commands,
and that the three lists show what is there.

Left, models: window rectangles and the right button's hiding in `MainWindow`; the
tab control after a failed activation, where the `?` of
`ensure_window_minimum_size` (`app/mod.rs:1056`) leaves before the branch that moves
it back, which the model shows and no run asks about; the exception filter's own
steps; one abstract "list that follows snapshots" which `ProcessList`, `Users`,
`Network` and `Applications` would implement, and one "keyed details" for `CpuPage` and
`GpuPage`.

Left, proofs: none of safety; liveness stays with TLC.
