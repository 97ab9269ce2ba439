--------------------------- MODULE SystemSampling ---------------------------
(***************************************************************************)
(* System-wide CPU and memory sampling: the collector and its cumulative   *)
(* baseline (src/system/sampler.rs), the timer and the requests of the     *)
(* main window, and the three consumers of a sample: the runtime           *)
(* statistics of tray and status bar, the Performance page and the CPU     *)
(* page.                                                                   *)
(*                                                                         *)
(* A value is abstracted to when it was measured.  Instants count the      *)
(* successful readings of the processor counters; a usage is the interval  *)
(* between two instants, an invalid delta (shown as 0 %) starts at 0.  The *)
(* worker is used through its single-flight interface (SingleFlight).      *)
(***************************************************************************)
EXTENDS Naturals

CONSTANTS
    Counts,         \* numbers of processors the system can have
    MaxInstants,    \* bound: instants told apart; the last stands for all later
    MaxFaults       \* bound: failures and processor changes

ASSUME SamplingAssumption ==
    /\ Counts \subseteq Nat \ {0}
    /\ MaxInstants \in Nat /\ MaxFaults \in Nat

Instants == 0..MaxInstants
Tick(i) == IF i < MaxInstants THEN i + 1 ELSE i

\* What a consumer shows, or a collect publishes: taken at to, its usage over
\* from..to (from 0: the delta is invalid), of n processors, described by a
\* topology of topo processors.
Samples == [from : Instants, to : Instants, n : Counts \union {0},
            topo : Counts \union {0}]
NoSample == [from |-> 0, to |-> 0, n |-> 0, topo |-> 0]

SampleErrors == {"none", "status", "invalid"}   \* NTSTATUS, ERROR_INVALID_DATA
Outcomes == {"sample", "status", "panic"}
Faults == {"off", "requested", "armed"}         \* SamplingFaultInjection

VARIABLES
    procs,          \* the processors of the system
    faults,         \* failures so far
    instant,        \* instant of the last reading
    \* SystemCollector (worker thread)
    baseline,       \* previous_cpu_times and timestamp: when, and how many
    topology,       \* processor_topology: its length; 0 is None
    published,      \* history: instant of the last sample published
    \* the sample worker
    flight, more, outcome, sample,
    \* diagnostics
    fault, injected,
    \* App and its pages (UI thread)
    timerOn, stats, perf, history, cpu, cpuStale,
    handled,        \* history: instant of the last sample handed to the pages
    lastSampleError, lastWorkerError

collectorVars == <<instant, baseline, topology, published>>
workerVars == <<flight, more, outcome, sample>>
consumers == <<stats, perf, history, cpu, handled>>
errorVars == <<cpuStale, lastSampleError, lastWorkerError>>
vars == <<procs, faults, collectorVars, workerVars, fault, injected, timerOn,
          consumers, errorVars>>

Init ==
    /\ procs \in Counts /\ faults = 0 /\ instant = 0
    /\ baseline = [at |-> 0, n |-> 0] /\ topology = 0 /\ published = 0
    /\ flight = "idle" /\ more = FALSE /\ outcome = "sample" /\ sample = NoSample
    /\ fault \in {"off", "requested"} /\ injected = 0
    /\ timerOn = TRUE
    /\ stats = NoSample /\ perf = NoSample /\ history = {} /\ cpu = NoSample
    /\ cpuStale = FALSE /\ handled = 0
    /\ lastSampleError = "none" /\ lastWorkerError = FALSE

Fails == faults < MaxFaults /\ faults' = faults + 1

-----------------------------------------------------------------------------
(* The collector.                                                           *)

\* Processors come or go (hot add, group changes).
ProcessorsChange ==
    /\ Fails
    /\ procs' \in Counts \ {procs}
    /\ UNCHANGED <<collectorVars, workerVars, fault, injected, timerOn, consumers,
                   errorVars>>

Answer(o, s) ==
    /\ flight = "busy"
    /\ flight' = "done" /\ outcome' = o /\ sample' = s
    /\ UNCHANGED <<procs, more, timerOn, consumers, errorVars>>

\* Mutant of Topology: a topology, once queried, is kept.
TopologyKept(n) == IF topology # 0 THEN topology ELSE n

\* The cached topology if its length fits the sample, else a new query (which
\* answers a topology of that length even when it fails).
Topology(n) == IF topology = n THEN topology ELSE n

\* calculate_cpu_delta: where the interval of a valid delta starts.  Without a
\* baseline of n processors, or with counters that regressed or stood still,
\* the delta is invalid.
DeltaFrom(n, good) == IF baseline.n = n /\ good THEN baseline.at ELSE 0

\* collect: both queries succeed, and the candidate becomes the baseline.
CollectSample ==
    /\ fault # "armed"
    /\ \E good \in BOOLEAN :
         /\ IF good THEN UNCHANGED faults ELSE Fails
         /\ instant' = Tick(instant)
         /\ topology' = Topology(procs)
         /\ baseline' = [at |-> instant', n |-> procs]
         /\ published' = instant'
         /\ Answer("sample", [from |-> DeltaFrom(procs, good), to |-> instant',
                              n |-> procs, topo |-> topology'])
    /\ UNCHANGED <<fault, injected>>

\* Mutant of CandidateDropped: the processor times become the baseline before
\* the second query fails.
CandidateKept == baseline' = [at |-> instant', n |-> procs]

\* A failed collect commits nothing.
CandidateDropped == UNCHANGED baseline

\* collect: a query or a conversion fails after the processors were read.
CollectFails ==
    /\ fault # "armed" /\ Fails
    /\ instant' = Tick(instant)
    /\ CandidateDropped
    /\ Answer("status", NoSample)
    /\ UNCHANGED <<topology, published, fault, injected>>

\* SamplingFaultInjection::take: an armed fault hits once.
DisarmFault == fault' = "off"

\* collect: the armed fault is taken.
CollectInjected ==
    /\ fault = "armed"
    /\ DisarmFault
    /\ injected' = injected + 1
    /\ Answer("status", NoSample)
    /\ UNCHANGED <<faults, collectorVars>>

\* The collector panics; the worker builds a new one.
CollectPanics ==
    /\ Fails
    /\ baseline' = [at |-> 0, n |-> 0] /\ topology' = 0
    /\ Answer("panic", NoSample)
    /\ UNCHANGED <<instant, published, fault, injected>>

-----------------------------------------------------------------------------
(* The main window: requests.                                               *)

\* record_system_worker_error.
WorkerError ==
    /\ cpuStale' = TRUE /\ lastWorkerError' = TRUE
    /\ UNCHANGED lastSampleError

\* request_system_sample: submitted, or kept once behind the flight; if no
\* worker thread can be started the error is recorded.
RequestSample ==
    \/ /\ IF flight = "idle" THEN flight' = "busy" /\ UNCHANGED more
                             ELSE more' = TRUE /\ UNCHANGED flight
       /\ lastWorkerError' = FALSE
       /\ UNCHANGED <<faults, cpuStale, lastSampleError>>
    \/ /\ flight = "idle" /\ Fails /\ WorkerError
       /\ UNCHANGED <<flight, more>>

\* on_timer of a WM_TIMER without Control, or the activation of a page.
PeriodicRefresh ==
    /\ RequestSample
    /\ UNCHANGED <<procs, collectorVars, outcome, sample, fault, injected, timerOn,
                   consumers>>

\* on_timer, forced: a requested fault is armed first.
ForcedRefresh ==
    /\ fault' = IF fault = "requested" THEN "armed" ELSE fault
    /\ RequestSample
    /\ UNCHANGED <<procs, collectorVars, outcome, sample, injected, timerOn, consumers>>

\* The update speed is set to paused, or back.
SetSpeed ==
    /\ Fails
    /\ timerOn' = ~timerOn
    /\ UNCHANGED <<procs, collectorVars, workerVars, fault, injected, consumers, errorVars>>

-----------------------------------------------------------------------------
(* The main window: completions.                                            *)

\* The drain takes the answer and submits the kept request.
Drain(o) ==
    /\ flight = "done" /\ outcome = o
    /\ flight' = IF more THEN "busy" ELSE "idle"
    /\ more' = FALSE
    /\ UNCHANGED <<procs, collectorVars, outcome, sample, fault, injected, timerOn>>

\* Both pages check the sample before they take any of it.
Acceptable(s) == s.n # 0 /\ s.topo = s.n

\* ensure_history_capacity: the histories start again when the number of
\* processors changes.
KeptHistory(s) == IF perf.n = s.n THEN history ELSE {}

\* What the histories of the Performance page hold after a sample; an invalid
\* delta is not pushed.
HistoryWith(s) == KeptHistory(s) \union (IF s.from # 0 THEN {s} ELSE {})

\* Mutant of CpuWith: an invalid delta is ignored with all of its sample.
CpuValidOnly(s) == IF s.from # 0 THEN s ELSE cpu

\* The CPU page keeps the usage of the last valid delta.
CpuWith(s) == IF s.from # 0 THEN s ELSE [s EXCEPT !.from = cpu.from]

\* apply_system_sample, or the pages' refusal recorded by record_system_sample_error.
SampleDone ==
    /\ Drain("sample")
    /\ handled' = sample.to
    /\ IF Acceptable(sample)
         THEN /\ perf' = sample /\ history' = HistoryWith(sample)
              /\ cpu' = CpuWith(sample) /\ stats' = sample
              /\ cpuStale' = FALSE /\ lastSampleError' = "none"
         ELSE /\ cpuStale' = TRUE /\ lastSampleError' = "invalid"
              /\ UNCHANGED <<perf, history, cpu, stats>>
    /\ lastWorkerError' = FALSE
    /\ UNCHANGED faults

\* record_system_sample_error of a failed collect.
SampleFailed ==
    /\ Drain("status")
    /\ cpuStale' = TRUE /\ lastSampleError' = "status" /\ lastWorkerError' = FALSE
    /\ UNCHANGED <<faults, consumers>>

\* SystemSampler::drain reports the panic.
SamplePanicked ==
    /\ Drain("panic")
    /\ WorkerError
    /\ UNCHANGED <<faults, consumers>>

\* SystemSampler::drain reports that the kept request could not be submitted,
\* and discards the answer with it; the request stays pending.
SampleDiscarded ==
    /\ flight = "done" /\ more /\ Fails
    /\ flight' = "idle" /\ UNCHANGED <<more, outcome, sample>>
    /\ WorkerError
    /\ UNCHANGED <<procs, collectorVars, fault, injected, timerOn, consumers>>

-----------------------------------------------------------------------------
Collect == CollectSample \/ CollectFails \/ CollectInjected \/ CollectPanics
Completion == SampleDone \/ SampleFailed \/ SamplePanicked \/ SampleDiscarded

TimerRefresh == timerOn /\ PeriodicRefresh

Next == ProcessorsChange \/ SetSpeed \/ PeriodicRefresh \/ ForcedRefresh
        \/ Collect \/ Completion

Spec == Init /\ [][Next]_vars

\* While it is not paused the timer ticks; the worker thread and the message
\* loop run.
FairSpec == /\ Spec
            /\ WF_vars(TimerRefresh) /\ WF_vars(Collect) /\ WF_vars(Completion)

-----------------------------------------------------------------------------
(* Properties.                                                              *)

\* Variables keep to their ranges: a usage lies within the readings taken, and
\* the baseline stands for a reading of one of the processor counts.
TypeOK ==
    /\ procs \in Counts /\ faults \in 0..MaxFaults /\ instant \in Instants
    /\ baseline \in [at : Instants, n : Counts \union {0}]
    /\ topology \in Counts \union {0} /\ published \in Instants
    /\ flight \in {"idle", "busy", "done"} /\ more \in BOOLEAN
    /\ outcome \in Outcomes /\ sample \in Samples
    /\ fault \in Faults /\ injected \in Nat
    /\ timerOn \in BOOLEAN
    /\ stats \in Samples /\ perf \in Samples /\ cpu \in Samples
    /\ history \subseteq Samples /\ handled \in Instants
    /\ cpuStale \in BOOLEAN /\ lastWorkerError \in BOOLEAN
    /\ lastSampleError \in SampleErrors

\* Consumers never combine values of different refreshes (sampler.rs:13): tray,
\* status bar and both pages show the sample handed over last, whatever
\* processors came or went and whichever collects failed in between.
ConsumersAgree ==
    /\ perf = stats /\ stats.to = handled
    /\ cpu.to = handled /\ cpu.n = stats.n

\* A usage spans exactly the time since the sample published before it: what
\* failed collects read in between is neither left out nor counted twice.
DeltaSpansFailures ==
    [][flight = "busy" /\ outcome' = "sample" /\ sample'.from # 0
         => sample'.from = published]_<<flight, sample>>

\* The histories of the Performance page never show the same time twice, nor
\* usages of different numbers of processors together.
HistoryDisjoint ==
    /\ \A s \in history : s.n = perf.n
    /\ \A s, t \in history : s # t => s.to <= t.from \/ t.to <= s.from

\* One forced refresh injects at most one failure (README.md:135, "injects one
\* controlled STATUS_UNSUCCESSFUL").
InjectedOnce == injected <= 1

\* What all consumers show is one refresh, their histories tile the time, and a
\* requested fault strikes once (apply_system_sample of the main window and of
\* both pages, ensure_history_capacity, SamplingFaultInjection).
SamplesAgree == TypeOK /\ ConsumersAgree /\ HistoryDisjoint /\ InjectedOnce

\* A failed refresh leaves the last valid usage on the tray and the status bar
\* instead of replacing it with zeros (README.md:9).
KeepsLastUsage == [][stats.from # 0 => stats'.from # 0]_stats

\* While the timer runs, sampling recovers from any finite number of failures:
\* the CPU page ends up not stale, showing a sample.
SamplingRecovers == <>[](handled # 0 /\ ~cpuStale) \/ ~[]<>timerOn
=============================================================================
