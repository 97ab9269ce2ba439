-------------------------------- MODULE MCLive --------------------------------
(***************************************************************************)
(* One TLC instance of four components that do not share state, checked    *)
(* for what must eventually happen: the system sampler and its consumers   *)
(* (SystemSampling), the GPU page (GpuPage, one adapter), the diagnostics  *)
(* log (DiagnosticLog, one record) and the icon pool (IconPool).  `which`  *)
(* names the component a behaviour is of; the others rest in an initial    *)
(* state of theirs.                                                        *)
(***************************************************************************)
EXTENDS SystemSampling, FiniteSets, Sequences

OneOrTwo == {1, 2}

CONSTANTS Adapters, NoAdapter, MaxChanges, MaxRebuilds,
          Threads, MaxRecords, RegularCap, PriorityCap, ControlCap, PartLimit, MaxFlushes,
          WorkerCount, MaxRequests, MaxBatches, MaxPanics

VARIABLES
    which,
    \* GpuPage
    hw, hwRev, gpuTopology, pdhError, dynamicReady, rebuilds, named,
    sampleState, sampleMore, sampleKind, sampleView,
    cached, metaState, metaRequest, metaPending, metaError, metaView,
    inventory, dynamic, metadata, histories, selected,
    lastDynamicError, lastMetadataError, status,
    \* DiagnosticLog
    thread, holding, built, flushes, logFaults, lane, control, command, writer,
    sink, file, sequence, dropped, droppedTotal, shutdown, reply, promised,
    \* IconPool
    caller, spawned, batch, size, dispatched, gathered, error, taken, next, dead,
    commands, poolThread, results, panics, struck

gpuVars == <<hw, hwRev, gpuTopology, pdhError, dynamicReady, rebuilds, named,
             sampleState, sampleMore, sampleKind, sampleView,
             cached, metaState, metaRequest, metaPending, metaError, metaView,
             inventory, dynamic, metadata, histories, selected,
             lastDynamicError, lastMetadataError, status>>
logVars == <<thread, holding, built, flushes, logFaults, lane, control, command, writer,
             sink, file, sequence, dropped, droppedTotal, shutdown, reply, promised>>
poolVars == <<caller, spawned, batch, size, dispatched, gathered, error, taken, next, dead,
              commands, poolThread, results, panics, struck>>

Gpu == INSTANCE GpuPage WITH topology <- gpuTopology
Log == INSTANCE DiagnosticLog WITH faults <- logFaults, MaxFaults <- 1
Pool == INSTANCE IconPool WITH thread <- poolThread

Resting == Init /\ procs = (CHOOSE n \in Counts : TRUE) /\ fault = "off"
GpuResting == Gpu!Init /\ hw = {}
LogResting == Log!Init /\ writer = "gone"

LiveInit ==
    \/ which = "sampling" /\ Init /\ GpuResting /\ LogResting /\ Pool!Init
    \/ which = "gpu" /\ Resting /\ Gpu!Init /\ LogResting /\ Pool!Init
    \/ which = "log" /\ Resting /\ GpuResting /\ Log!Init /\ Pool!Init
    \/ which = "pool" /\ Resting /\ GpuResting /\ LogResting /\ Pool!Init

LiveNext ==
    \/ which = "sampling" /\ Next /\ UNCHANGED <<which, gpuVars, logVars, poolVars>>
    \/ which = "gpu" /\ Gpu!Next /\ UNCHANGED <<which, vars, logVars, poolVars>>
    \/ which = "log" /\ Log!Next /\ UNCHANGED <<which, vars, gpuVars, poolVars>>
    \/ which = "pool" /\ Pool!Next /\ UNCHANGED <<which, vars, gpuVars, logVars>>

\* The fairness each component's own specification states, for the component the
\* behaviour is of.
Fair ==
    /\ WF_vars(which = "sampling" /\ TimerRefresh)
    /\ WF_vars(which = "sampling" /\ Collect)
    /\ WF_vars(which = "sampling" /\ Completion)
    /\ WF_gpuVars(which = "gpu" /\ Gpu!Timer)
    /\ WF_gpuVars(which = "gpu" /\ Gpu!Collect)
    /\ WF_gpuVars(which = "gpu" /\ Gpu!CollectMetadata)
    /\ WF_gpuVars(which = "gpu" /\ Gpu!SampleDone)
    /\ WF_gpuVars(which = "gpu" /\ Gpu!MetadataDone)
    /\ SF_gpuVars(which = "gpu" /\ Gpu!RebuildOk)
    /\ SF_gpuVars(which = "gpu" /\ Gpu!CollectDynamic)
    /\ SF_gpuVars(which = "gpu" /\ Gpu!CommitDynamicAt(TRUE))
    /\ WF_logVars(which = "log" /\ Log!WriterStep)
    /\ \A t \in Threads :
         WF_logVars(which = "log" /\ (Log!TrySend(t) \/ Log!CountDrop(t)))
    /\ \A t \in Log!Callers :
         WF_logVars(which = "log" /\ (Log!SendCommand(t) \/ Log!Refused(t) \/ Log!Answered(t)))
    /\ WF_logVars(which = "log" /\ Log!Join)
    /\ WF_poolVars(which = "pool" /\ Pool!Caller)
    /\ \A w \in Pool!Workers : WF_poolVars(which = "pool" /\ Pool!Step(w))

LiveSpec == LiveInit /\ [][LiveNext]_<<which, vars, gpuVars, logVars, poolVars>> /\ Fair

-----------------------------------------------------------------------------
\* Once the hardware stops changing the GPU page lists it, and its counters
\* arrive unless PDH is broken for that inventory (GpuCollector::collect,
\* handle_worker_completion, timer_event).
PageCatchesUp == which = "gpu" => Gpu!PageCatchesUp /\ Gpu!CountersCatchUp

\* The metadata of the GPU page's last inventory or their error arrive
\* (request_metadata, handle_metadata_worker_completion).
DetailsSettle == which = "gpu" => Gpu!DetailsSettle

\* Whoever waits for threads gets on: shutdown returns unless its command found
\* the control channel full until the timeout (diagnostics::shutdown), a batch of
\* icons is answered and its pool ends (TaskIconExecutor::collect and drop).
\* One formula for both, of which only one is awake.
WorkersReturn ==
    (thread["main"] = "command" \/ Pool!Waiting) ~>
      (thread["main"] = "stopped" \/ reply["main"] = "refused" \/ Pool!Served)

\* Sampling recovers from any finite number of failures while the timer runs
\* (SystemCollector::collect, on_timer).
SamplingComesBack == which = "sampling" => SamplingRecovers
===============================================================================
