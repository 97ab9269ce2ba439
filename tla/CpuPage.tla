------------------------------- MODULE CpuPage -------------------------------
(***************************************************************************)
(* The details of the CPU page (src/pages/cpu): two workers, one for what  *)
(* Windows tells of topology, features and counters, one for what the      *)
(* firmware tells, each with a collector that remembers what it has done   *)
(* for the topology it was asked about last; and the page, which throws    *)
(* its details away when the sampled topology changes and queues refreshes *)
(* until a topology is known and a worker is free.                         *)
(*                                                                         *)
(* A topology is its key; no key: its query failed.  A value is abstracted *)
(* to the key it was collected for, a time to whether the last sample is   *)
(* newer than the priming of the performance counters.  Each worker is     *)
(* used through its single-flight interface (SingleFlight): a collection   *)
(* returns or panics, its thread does not die.                             *)
(***************************************************************************)
EXTENDS Naturals, FiniteSets

CONSTANTS
    Keys,                \* topologies the machine can have
    NoKey,               \* Option::None
    MaxEvents,           \* bound on topology changes and refreshes asked for
    MaxFaults            \* bound on failed queries and panics

ASSUME CpuPageAssumption ==
    NoKey \notin Keys /\ {MaxEvents, MaxFaults} \subseteq Nat

KeyOrNone == Keys \union {NoKey}

(* CpuDetailRefresh and refresh_priority; "none" is Option::None. *)
Refreshes == {"periodic", "prewarm", "activation", "user"}
Priority == [none |-> 0, periodic |-> 1, prewarm |-> 2, activation |-> 3, user |-> 4]

Workers == {"native", "firmware"}
NativeSources == {"topology", "features", "dynamic"}
Sources == NativeSources \union {"firmware"}
SourcesOf(w) == IF w = "native" THEN NativeSources ELSE {"firmware"}

Requests == [key : KeyOrNone, refresh : Refreshes \union {"none"}]
NoRequest == [key |-> NoKey, refresh |-> "none"]

(* A worker as the page uses it: its flight, its follow-up, and the page's own *)
(* queued_native_refresh or queued_firmware_refresh.                          *)
Flights == [state : {"idle", "busy", "done"}, request : Requests, pending : Requests,
            queued : Refreshes \union {"none"}]

(* A priming of the counters against the last sample: none, still as new as   *)
(* it, or passed by it.                                                       *)
Primings == {"none", "ahead", "passed"}

(* CpuComponentUpdate and what a worker publishes. *)
Updates == [kind : {"unchanged", "success", "failed"}, of : KeyOrNone]
Unchanged == [kind |-> "unchanged", of |-> NoKey]
Failed == [kind |-> "failed", of |-> NoKey]
Success(k) == [kind |-> "success", of |-> k]
NoAnswer == [panicked |-> FALSE, key |-> NoKey, primed |-> "none",
             updates |-> [s \in Sources |-> Unchanged]]
Answers == [panicked : BOOLEAN, key : KeyOrNone, primed : Primings,
            updates : [Sources -> Updates]]

(* ComponentState. *)
Components == [value : KeyOrNone, error : BOOLEAN]
Cleared == [value |-> NoKey, error |-> FALSE]

(* A collector's memory: for each source whether it is still to do, done or  *)
(* failed; for the performance counters the query, and whom it was opened    *)
(* for.                                                                      *)
Memory == [key : KeyOrNone, topology : {"todo", "done", "failed"},
           features : {"todo", "done"}, firmware : {"todo", "done", "failed"},
           pdh : {"none", "failed", "primed"}, pdhOf : KeyOrNone]
NewMemory == [key |-> NoKey, topology |-> "todo", features |-> "todo",
              firmware |-> "todo", pdh |-> "none", pdhOf |-> NoKey]

VARIABLES
    events,       \* topology changes and refreshes asked for so far
    faults,       \* failed queries and panics so far
    memory,       \* the collector of each worker
    worker,       \* the flight of each worker
    answer,       \* of each worker: the completion not yet drained
    key,          \* topology_key
    component,    \* topology, features, dynamic, firmware
    workerError,  \* native_worker_error, firmware_worker_error
    baseline,     \* pdh_baseline_timestamp_ms against last_system_sample_timestamp_ms
    owed          \* history: workers that owe the user a refresh for this key

pageVars == <<key, component, workerError, baseline>>
vars == <<events, faults, memory, worker, answer, pageVars, owed>>

Init ==
    /\ events = 0 /\ faults = 0
    /\ memory = [w \in Workers |-> NewMemory]
    /\ worker = [w \in Workers |-> [state |-> "idle", request |-> NoRequest,
                                    pending |-> NoRequest, queued |-> "none"]]
    /\ answer = [w \in Workers |-> NoAnswer]
    /\ key = NoKey
    /\ component = [s \in Sources |-> Cleared]
    /\ workerError = [w \in Workers |-> FALSE]
    /\ baseline = "none"
    /\ owed = {}

-----------------------------------------------------------------------------
(* The collectors.                                                          *)

\* Every query but the features' can fail; the bound is on failures.
Queried(oks) ==
    LET failures == Cardinality({s \in DOMAIN oks : ~oks[s]}) IN
    faults + failures <= MaxFaults /\ faults' = faults + failures

\* reset_for_topology; the first would keep the query of the counters.
ResetKeepsPdh(m, k) ==
    IF m.key = k THEN m ELSE [NewMemory EXCEPT !.key = k, !.pdh = m.pdh, !.pdhOf = m.pdhOf]

ResetForTopology(m, k) == IF m.key = k THEN m ELSE [NewMemory EXCEPT !.key = k]

\* collect: once for each topology, again only for a user after a failure.
ToDo(m, source, refresh) ==
    m[source] = "todo" \/ (refresh = "user" /\ m[source] = "failed")

Done(ok) == IF ok THEN "done" ELSE "failed"

CollectOnce(m, source, r, ok) ==
    IF ~ToDo(m, source, r.refresh) THEN Unchanged
    ELSE IF ok THEN Success(r.key) ELSE Failed

\* collect_dynamic: the query before this collection ...
PdhBefore(m, r) ==
    CASE m.pdh = "failed" /\ r.refresh = "user" -> "none"
      [] m.pdh = "primed" /\ r.refresh = "activation" -> "open"
      [] OTHER -> m.pdh

\* ... and after it.
PdhAfter(before, ok) == IF before = "failed" \/ ~ok THEN "failed" ELSE "primed"

CollectDynamic(before, of, ok) ==
    CASE before = "failed" -> Unchanged
      [] before # "failed" /\ ~ok -> Failed
      [] before = "primed" /\ ok -> Success(of)
      [] before \in {"none", "open"} /\ ok -> Unchanged

\* The worker's thread begins and ends a collection; a refresh owed to the user
\* has then been tried.
Collected(w, r) ==
    /\ worker[w].state = "busy" /\ r = worker[w].request
    /\ worker' = [worker EXCEPT ![w].state = "done", ![w].request = NoRequest]
    /\ owed' = IF r.refresh = "user" /\ r.key = key THEN owed \ {w} ELSE owed
    /\ UNCHANGED <<events, pageVars>>

\* CpuNativeCollector::collect.
CollectNative ==
    \E oks \in [{"topology", "dynamic"} -> BOOLEAN] :
        LET r == worker["native"].request
            m == ResetForTopology(memory["native"], r.key)
            before == PdhBefore(m, r)
            of == IF before = "none" THEN r.key ELSE m.pdhOf
        IN
        /\ Collected("native", r)
        /\ Queried(oks)
        /\ ~oks["topology"] => ToDo(m, "topology", r.refresh)
        /\ ~oks["dynamic"] => before # "failed"
        /\ memory' = [memory EXCEPT !["native"] =
              [m EXCEPT !.topology = IF ToDo(m, "topology", r.refresh)
                                     THEN Done(oks["topology"]) ELSE @,
                        !.features = "done",
                        !.pdh = PdhAfter(before, oks["dynamic"]),
                        !.pdhOf = of]]
        /\ answer' = [answer EXCEPT !["native"] =
              [panicked |-> FALSE, key |-> r.key,
               primed |-> IF before \in {"none", "open"} /\ oks["dynamic"]
                          THEN "ahead" ELSE "none",
               updates |-> [s \in Sources |->
                   CASE s = "topology" -> CollectOnce(m, s, r, oks["topology"])
                     [] s = "features" -> CollectOnce(m, s, r, TRUE)
                     [] s = "dynamic" -> CollectDynamic(before, of, oks["dynamic"])
                     [] OTHER -> Unchanged]]]

\* CpuFirmwareCollector::collect.  A query without a connection fails, too.
CollectFirmware ==
    \E oks \in [{"firmware"} -> BOOLEAN] :
        LET r == worker["firmware"].request
            m == ResetForTopology(memory["firmware"], r.key)
        IN
        /\ Collected("firmware", r)
        /\ Queried(oks)
        /\ ~oks["firmware"] => ToDo(m, "firmware", r.refresh)
        /\ memory' = [memory EXCEPT !["firmware"] =
              [m EXCEPT !.firmware = IF ToDo(m, "firmware", r.refresh)
                                     THEN Done(oks["firmware"]) ELSE @]]
        /\ answer' = [answer EXCEPT !["firmware"] =
              [NoAnswer EXCEPT !.key = r.key,
                               !.updates["firmware"] =
                                    CollectOnce(m, "firmware", r, oks["firmware"])]]

\* A collector panics: its worker builds a new one and reports the request.
CollectorPanics(w) ==
    /\ faults < MaxFaults /\ faults' = faults + 1
    /\ Collected(w, worker[w].request)
    /\ memory' = [memory EXCEPT ![w] = NewMemory]
    /\ answer' = [answer EXCEPT ![w] = [NoAnswer EXCEPT !.panicked = TRUE]]

-----------------------------------------------------------------------------
(* The page: requests.                                                      *)

\* queue_refresh and merge_cpu_requests keep the stronger refresh.
Latest(old, new) == new

Stronger(old, new) == IF Priority[new] > Priority[old] THEN new ELSE old

MergeRequests(old, new) ==
    IF old.key # new.key THEN new
    ELSE [old EXCEPT !.refresh = Stronger(@, new.refresh)]

\* request_native_refresh and request_firmware_refresh on the worker's record.
Request(s, k, refresh) ==
    LET r == [key |-> k, refresh |-> refresh] IN
    CASE k = NoKey -> [s EXCEPT !.queued = Stronger(@, refresh)]
      [] k # NoKey /\ s.state = "idle" -> [s EXCEPT !.state = "busy", !.request = r]
      [] k # NoKey /\ s.state # "idle" -> [s EXCEPT !.pending = MergeRequests(@, r)]

\* A queued refresh is requested as soon as the worker is not busy.
QueueStays(s, k) == s

Flush(s, k) ==
    IF s.state = "idle" /\ s.queued # "none"
    THEN Request([s EXCEPT !.queued = "none"], k, s.queued) ELSE s

\* request_initial_dynamic_if_ready.
InitialDynamic(s, k, b) ==
    IF b = "passed" /\ s.state = "idle" THEN Request(s, k, "periodic") ELSE s

\* timer_event: the timer while the page is active, activation, prewarming and
\* the user's F5.  Only a refresh by the user asks for the firmware again.
TimerEvent ==
    \E refresh \in Refreshes :
        LET asked == {"native"} \union
                     (IF refresh = "user" \/ component["firmware"] = Cleared
                      THEN {"firmware"} ELSE {})
        IN
        /\ events < MaxEvents /\ events' = events + 1
        /\ worker' = [w \in Workers |->
                        IF w \in asked THEN Request(worker[w], key, refresh) ELSE worker[w]]
        /\ owed' = IF refresh = "user" THEN owed \union asked ELSE owed
        /\ UNCHANGED <<faults, memory, answer, pageVars>>

-----------------------------------------------------------------------------
(* The page: samples.                                                       *)

\* clear_detail_components; the baseline goes with them in ApplySample.
ClearDetailComponents ==
    /\ component' = [s \in Sources |-> Cleared]
    /\ workerError' = [w \in Workers |-> FALSE]

\* Both workers are to collect for the new key.
QueuePrewarm(s, k) == IF k = NoKey THEN s ELSE [s EXCEPT !.queued = Stronger(@, "prewarm")]

\* A sample newer than a priming passes it.
Pass(priming, newer) == IF newer /\ priming = "ahead" THEN "passed" ELSE priming

\* apply_system_sample.  How new a sample is: older than every priming, newer
\* than the page's, newer than that of the answer on its way, too.  Its topology
\* can differ after the number of processors has changed or the sampler has
\* started anew: only then is it queried.  What the user asked for under the
\* former key is off.
ApplySample(sampled, age) ==
    LET change == sampled # key
        queued(w) == IF change THEN QueuePrewarm(worker[w], sampled) ELSE worker[w]
        flushed(w) == IF sampled = NoKey THEN queued(w) ELSE Flush(queued(w), sampled)
    IN
    /\ key' = sampled
    /\ change => events < MaxEvents
    /\ events' = IF change THEN events + 1 ELSE events
    /\ baseline' = IF change THEN "none" ELSE Pass(baseline, age > 0)
    /\ answer' = [answer EXCEPT !["native"].primed = Pass(@, age > 1)]
    /\ IF change THEN ClearDetailComponents ELSE UNCHANGED <<component, workerError>>
    /\ worker' = [w \in Workers |->
                    IF w = "native" /\ sampled # NoKey
                    THEN InitialDynamic(flushed(w), sampled, baseline') ELSE flushed(w)]
    /\ owed' = IF change /\ key # NoKey THEN {} ELSE owed
    /\ UNCHANGED <<faults, memory>>

-----------------------------------------------------------------------------
(* The page: completions.                                                   *)

\* ComponentState::apply: a failure leaves the value.
ApplyForgets(c, u) ==
    [value |-> IF u.kind = "unchanged" THEN c.value ELSE u.of,
     error |-> IF u.kind = "unchanged" THEN c.error ELSE u.kind = "failed"]

Apply(c, u) ==
    CASE u.kind = "unchanged" -> c
      [] u.kind = "success" -> [value |-> u.of, error |-> FALSE]
      [] u.kind = "failed" -> [c EXCEPT !.error = TRUE]

\* Snapshots of another topology are discarded.
Current(a) == ~a.panicked /\ a.key = key

\* commit_native_snapshot, commit_firmware_snapshot; or the worker's error.
Commit(w) ==
    LET a == answer[w]
        mine == Current(a) IN
    /\ component' = [s \in Sources |->
                        IF mine THEN Apply(component[s], a.updates[s]) ELSE component[s]]
    /\ workerError' = [workerError EXCEPT ![w] = IF mine THEN FALSE ELSE @ \/ a.panicked]
    /\ baseline' = IF mine /\ (a.primed # "none" \/ a.updates["dynamic"] # Unchanged)
                   THEN a.primed ELSE baseline

\* SingleFlightWorker::drain: the follow-up takes off.
Drained(s) ==
    IF s.pending = NoRequest THEN [s EXCEPT !.state = "idle"]
    ELSE [s EXCEPT !.state = "busy", !.request = s.pending, !.pending = NoRequest]

\* handle_native_worker_completion, handle_firmware_worker_completion.
Completion(w) ==
    LET s == Drained(worker[w]) IN
    /\ worker[w].state = "done"
    /\ Commit(w)
    /\ worker' = [worker EXCEPT ![w] =
                    IF s.state = "idle" /\ s.queued # "none" THEN Flush(s, key)
                    ELSE IF w = "native" THEN InitialDynamic(s, key, baseline') ELSE s]
    /\ answer' = [answer EXCEPT ![w] = NoAnswer]
    /\ UNCHANGED <<events, faults, memory, key, owed>>

-----------------------------------------------------------------------------
Next ==
    \/ TimerEvent
    \/ \E sampled \in KeyOrNone, age \in 0 .. 2 : ApplySample(sampled, age)
    \/ CollectNative \/ CollectFirmware
    \/ \E w \in Workers : CollectorPanics(w) \/ Completion(w)

Spec == Init /\ [][Next]_vars

\* Samples keep coming, with later and later times; collectors' queries return
\* and the message loop runs.  The timer's refreshes are not counted on: they
\* go to the active page only.
FairSpec ==
    /\ Spec
    /\ WF_vars(ApplySample(key, 2))
    /\ WF_vars(CollectNative) /\ WF_vars(CollectFirmware)
    /\ \A w \in Workers : WF_vars(Completion(w))

-----------------------------------------------------------------------------
(* What the page shows, and the properties.                                 *)

HasValue(s) == component[s].value # NoKey
HasDetailValues == \E s \in Sources : HasValue(s)

\* derive_status of a topology that is known while samples succeed.
Status ==
    LET missing == \E s \in Sources : component[s] = Cleared
        retained == \/ \E s \in Sources : component[s].error /\ HasValue(s)
                    \/ \E w \in Workers : workerError[w] /\ \E s \in SourcesOf(w) : HasValue(s)
        failed == (\E s \in Sources : component[s].error) \/ (\E w \in Workers : workerError[w])
    IN
    CASE key = NoKey -> "Unavailable"
      [] key # NoKey /\ retained -> "Stale"
      [] key # NoKey /\ ~retained /\ failed -> IF HasDetailValues THEN "Partial" ELSE "Failed"
      [] key # NoKey /\ ~failed /\ missing ->
            IF HasDetailValues THEN "LoadingDetails" ELSE "Loading"
      [] OTHER -> "Ready"

\* A follow-up waits only behind a flight; a request is with the worker just
\* while it is busy.
GoodFlight(f) ==
    /\ f \in Flights
    /\ f.state = "idle" => f.pending = NoRequest
    /\ f.state = "busy" <=> f.request # NoRequest

\* Every variable keeps to its range; flights are as the single-flight worker
\* makes them, an answer is there only when its flight is done, and no details
\* are shown of a machine of unknown topology.
TypeOK ==
    /\ key \in KeyOrNone
    /\ events \in 0 .. MaxEvents /\ faults \in 0 .. MaxFaults
    /\ memory \in [Workers -> Memory]
    /\ worker \in [Workers -> Flights]
    /\ answer \in [Workers -> Answers]
    /\ \A w \in Workers :
        /\ GoodFlight(worker[w])
        /\ worker[w].state # "done" => answer[w] = NoAnswer
    /\ component \in [Sources -> Components]
    /\ workerError \in [Workers -> BOOLEAN]
    /\ baseline \in Primings
    /\ owed \subseteq Workers
    /\ key = NoKey => ~HasDetailValues

\* Every detail the page shows was collected for the topology it shows: answers
\* that cross a change of the topology are discarded, and the counters of a
\* query opened for another topology are not read (commit_native_snapshot,
\* commit_firmware_snapshot, reset_for_topology).
DetailsOfTheKey == \A s \in Sources : component[s].value \in {NoKey, key}

\* As long as the topology stays, a detail once shown stays on the screen,
\* whatever fails ("keeps the last valid snapshot when a refresh fails").
KeepsLastValid ==
    [][key' = key => \A s \in Sources : HasValue(s) => component'[s].value # NoKey]_vars

\* A refresh the user asked for is not weakened by the refreshes that follow
\* it: until a collection has retried what had failed, it waits in the queue of
\* the page, as the follow-up, or is under way (queue_refresh,
\* merge_cpu_requests).
UserRefreshNotLost ==
    \A w \in owed :
        \/ worker[w].queued = "user"
        \/ \E r \in {worker[w].request, worker[w].pending} :
               r.refresh = "user" /\ r.key = key

\* A collector takes something for done for the page's topology, while the page
\* has thrown it away and no answer brings it.
ForgottenBy(w, s) ==
    /\ memory[w].key = key /\ memory[w][s] # "todo"
    /\ component[s] = Cleared
    /\ answer[w].updates[s] = Unchanged

CollectedOnce(w) == SourcesOf(w) \ {"dynamic"}

Forgotten == \E w \in Workers : \E s \in CollectedOnce(w) : ForgottenBy(w, s)

\* While a topology is known, a worker at rest has brought the page every detail
\* it collects once, or an error in its place, unless it panicked or takes for
\* done what the page threw away: no refresh stays in a queue, and no answer for
\* another topology ends the waiting (queue_refresh, apply_system_sample,
\* handle_native_worker_completion, handle_firmware_worker_completion).
RestIsSettled ==
    \A w \in Workers : key # NoKey /\ worker[w].state = "idle" =>
        /\ worker[w].queued = "none"
        /\ \A s \in CollectedOnce(w) :
              component[s] = Cleared => workerError[w] \/ ForgottenBy(w, s)

Loading == Status \in {"Loading", "LoadingDetails"}

\* When the topology has changed for the last time the page comes to show the
\* details of all four sources, or their errors, unless a collector has
\* forgotten that the page threw them away.  It does without the page's timer:
\* a prewarming waits for a topology and for a worker, and the counters are read
\* a second time once a sample has passed their priming.
DetailsSettle == <>[](Loading => Forgotten)

\* README.md: "Data sources are committed separately, so one failed query does
\* not clear an otherwise usable page": when the topology is known again after a
\* failure of its query the page comes to show its details again.
DetailsComeBack == <>[]~Loading
=============================================================================
