------------------------------- MODULE GpuPage -------------------------------
(***************************************************************************)
(* The GPU page (src/pages/gpu): a sampling collector that numbers the     *)
(* hardware topologies it finds with generations, a metadata collector     *)
(* that caches by generation, and the page, which commits what the two     *)
(* workers publish.  The hardware changes underneath; collectors panic and *)
(* are rebuilt by their worker without their state.                        *)
(*                                                                         *)
(* Each worker is used through its single-flight interface (SingleFlight): *)
(* a flight, one follow-up, one answer per flight.                         *)
(***************************************************************************)
EXTENDS Naturals, FiniteSets

CONSTANTS
    Adapters,       \* adapter identities (LUID and physical index)
    NoAdapter,      \* no adapter selected
    MaxChanges,     \* bound: hardware changes
    MaxRebuilds     \* bound: topologies queried

ASSUME AdaptersAssumption == IsFiniteSet(Adapters) /\ NoAdapter \notin Adapters
ASSUME BoundsAssumption == MaxChanges \in Nat /\ MaxRebuilds \in Nat

Generations == 0..MaxRebuilds          \* 0: no value yet
Revisions == 0..MaxChanges
Errors == {"none", "failed", "unsupported", "reused"}

\* A set of adapters as somebody saw it: under which generation, at which
\* revision of the hardware (the revision is known to the model only), and
\* whether some of the values are missing (row or metadata errors).
Views == [gen : Generations, ads : SUBSET Adapters, rev : Revisions,
          partial : BOOLEAN]
NoView == [gen |-> 0, ads |-> {}, rev |-> 0, partial |-> FALSE]

Statuses == {"Loading", "LoadingPerformance", "LoadingDetails", "Ready", "Partial",
             "NoHardware", "Unsupported", "Failed", "Stale"}

VARIABLES
    hw, hwRev,        \* the adapters present, and how often they changed
    \* GpuCollector (sample worker thread)
    topology,         \* topology and generation; NoView is topology = None
    pdhError,         \* pdh_error
    dynamicReady,     \* dynamic_ready
    rebuilds,         \* history: topologies committed by all collectors
    named,            \* history: the hardware each generation was used for
    \* the sample worker
    sampleState, sampleMore, sampleKind, sampleView,
    \* GpuMetadataCollector and the metadata worker
    cached, metaState, metaRequest, metaPending, metaError, metaView,
    \* GpuPageState (UI thread)
    inventory, dynamic, metadata, histories, selected,
    lastDynamicError, lastMetadataError, status

hwVars == <<hw, hwRev>>
collectorVars == <<topology, pdhError, dynamicReady, rebuilds, named>>
sampleVars == <<sampleState, sampleMore, sampleKind, sampleView>>
metaVars == <<cached, metaState, metaRequest, metaPending, metaError, metaView>>
pageVars == <<inventory, dynamic, metadata, histories, selected,
              lastDynamicError, lastMetadataError, status>>
vars == <<hwVars, collectorVars, sampleVars, metaVars, pageVars>>

WorkerStates == {"idle", "busy", "done"}
SampleKinds == {"inventory", "baseline", "dynamic", "failed", "unsupported"}

Init ==
    /\ hw \in SUBSET Adapters /\ hwRev = 0
    /\ topology = NoView /\ pdhError = "none" /\ dynamicReady = FALSE
    /\ rebuilds = 0 /\ named = {}
    /\ sampleState = "idle" /\ sampleMore = FALSE
    /\ sampleKind = "baseline" /\ sampleView = NoView
    /\ cached = NoView /\ metaState = "idle" /\ metaRequest = NoView
    /\ metaPending = NoView /\ metaError = "none" /\ metaView = NoView
    /\ inventory = NoView /\ dynamic = NoView /\ metadata = NoView
    /\ histories = {} /\ selected = NoAdapter
    /\ lastDynamicError = "none" /\ lastMetadataError = "none"
    /\ status = "Loading"

-----------------------------------------------------------------------------
(* The hardware and the sampling collector.                                 *)

\* An adapter comes, goes, or comes back with the same identity: the DXGI
\* factory is no longer current.
HardwareChanges ==
    /\ hwRev < MaxChanges
    /\ hw' \in SUBSET Adapters
    /\ hwRev' = hwRev + 1
    /\ UNCHANGED <<collectorVars, sampleVars, metaVars, pageVars>>

\* Mutant of TopologyStale: the topology is queried once.
TopologyMissing == topology = NoView

\* is_current: the DXGI factory still describes the hardware.
TopologyStale == topology = NoView \/ topology.rev # hwRev

NextGeneration == topology.gen + 1

\* The collector answers: the result waits for the UI.
Publish(kind, view) ==
    /\ sampleState = "busy"
    /\ sampleState' = "done" /\ sampleKind' = kind /\ sampleView' = view
    /\ UNCHANGED <<hwVars, sampleMore, metaVars, pageVars>>

\* collect, stale topology: rebuild queries the adapters, primes PDH (whose
\* error is kept for the whole generation) and draws the next generation; the
\* inventory is published.
RebuildOk ==
    /\ TopologyStale /\ rebuilds < MaxRebuilds
    /\ rebuilds' = rebuilds + 1
    /\ named' = named \union {<<NextGeneration, hwRev>>}
    /\ topology' = [gen |-> NextGeneration, ads |-> hw, rev |-> hwRev,
                    partial |-> FALSE]
    /\ pdhError' \in IF hw = {} THEN {"none"} ELSE {"none", "failed", "unsupported"}
    /\ dynamicReady' = FALSE
    /\ Publish("inventory", topology')

\* collect, stale topology: the query fails and nothing is committed.
RebuildFails ==
    /\ TopologyStale
    /\ Publish("failed", NoView)
    /\ UNCHANGED collectorVars

\* collect, current topology with adapters: PDH is broken for this generation,
\* or the collection fails now.
CollectFails ==
    /\ ~TopologyStale /\ topology.ads # {}
    /\ IF pdhError # "none" THEN Publish(pdhError, NoView) ELSE Publish("failed", NoView)
    /\ UNCHANGED collectorVars

\* collect: PDH has no second sample yet.
CollectBaseline ==
    /\ ~TopologyStale /\ topology.ads # {} /\ pdhError = "none" /\ ~dynamicReady
    /\ Publish("baseline", topology)
    /\ UNCHANGED collectorVars

\* collect: a snapshot of every adapter of the topology, some of whose values
\* may be missing.
CollectDynamic ==
    /\ ~TopologyStale
    /\ pdhError = "none"
    /\ \E p \in IF topology.ads = {} THEN {FALSE} ELSE BOOLEAN :
          Publish("dynamic", [topology EXCEPT !.partial = p])
    /\ dynamicReady' = (topology.ads # {} \/ dynamicReady)
    /\ UNCHANGED <<topology, pdhError, rebuilds, named>>

\* The collector panics: its worker reports a failure and builds a new
\* collector, which knows no topology and no generation.
CollectorPanics ==
    /\ topology' = NoView /\ pdhError' = "none" /\ dynamicReady' = FALSE
    /\ Publish("failed", NoView)
    /\ UNCHANGED <<rebuilds, named>>

-----------------------------------------------------------------------------
(* The metadata collector.                                                  *)

\* The result waits for the UI.
PublishMetadata(error, view) ==
    /\ metaState = "busy"
    /\ metaState' = "done" /\ metaError' = error /\ metaView' = view
    /\ UNCHANGED <<hwVars, collectorVars, sampleVars, metaRequest, metaPending,
                   pageVars>>

SameInventory == cached.gen = metaRequest.gen /\ cached.ads = metaRequest.ads

\* collect: the cached snapshot of this generation.
MetadataCached ==
    /\ SameInventory
    /\ PublishMetadata("none", cached)
    /\ UNCHANGED cached

\* collect: this generation had other adapters; "GPU inventory changed without
\* a new generation".
MetadataRefused ==
    /\ cached.gen = metaRequest.gen /\ ~SameInventory
    /\ PublishMetadata("reused", NoView)
    /\ UNCHANGED cached

\* collect: every adapter of the request is queried; what fails is noted per
\* adapter.
MetadataCollected ==
    /\ cached.gen # metaRequest.gen
    /\ \E p \in BOOLEAN :
          /\ cached' = [metaRequest EXCEPT !.partial = p]
          /\ PublishMetadata("none", cached')

\* The metadata collector panics and loses its cache.
MetadataPanics ==
    /\ cached' = NoView
    /\ PublishMetadata("failed", NoView)
-----------------------------------------------------------------------------
(* The page.                                                                *)

\* The details of the inventory are still under way.
DetailsPending == metaState # "idle"
                  \/ Cardinality(metadata.ads) # Cardinality(inventory.ads)

\* derive_status.
DerivedStatus ==
    IF inventory.gen = 0 THEN
        CASE lastDynamicError = "unsupported" -> "Unsupported"
          [] lastDynamicError = "none" -> "Loading"
          [] OTHER -> "Failed"
    ELSE IF inventory.ads = {} THEN "NoHardware"
    ELSE IF lastDynamicError # "none" THEN
        CASE dynamic.gen # 0 -> "Stale"
          [] lastDynamicError = "unsupported" /\ dynamic.gen = 0 -> "Unsupported"
          [] OTHER -> "Failed"
    ELSE IF dynamic.gen = 0 THEN "LoadingPerformance"
    ELSE IF lastMetadataError # "none" \/ dynamic.partial \/ metadata.partial THEN "Partial"
    ELSE IF DetailsPending THEN "LoadingDetails" ELSE "Ready"

\* status_after_refresh_error.
StatusAfterError(error) ==
    CASE dynamic.gen # 0 -> "Stale"
      [] error = "unsupported" /\ dynamic.gen = 0 -> "Unsupported"
      [] OTHER -> "Failed"

\* timer_event: request_refresh; a request during a flight is kept once.
Timer ==
    /\ sampleState' = IF sampleState = "idle" THEN "busy" ELSE sampleState
    /\ sampleMore' = (sampleState # "idle")
    /\ UNCHANGED <<hwVars, collectorVars, sampleKind, sampleView, metaVars, pageVars>>

\* handle_worker_completion: the drain takes the result and submits the kept
\* request; asked for a follow-up, the page requests one if none is in flight.
TakeSample(kind, followUp) ==
    /\ sampleState = "done" /\ sampleKind = kind
    /\ sampleState' = IF sampleMore \/ followUp THEN "busy" ELSE "idle"
    /\ sampleMore' = FALSE
    /\ UNCHANGED <<hwVars, collectorVars, sampleKind, sampleView, cached,
                   metaError, metaView>>

\* snapshot_generation_changed.
GenerationChanged == inventory.gen # 0 /\ inventory.gen # sampleView.gen

\* Mutant of RequestMetadata: a request during a flight is dropped.
RequestMetadataWhenIdle(request) ==
    IF metaState = "idle"
      THEN metaState' = "busy" /\ metaRequest' = request /\ UNCHANGED metaPending
      ELSE UNCHANGED <<metaState, metaRequest, metaPending>>

\* request_metadata: submitted, or the one pending request is replaced.
RequestMetadata(request) ==
    IF metaState = "idle"
      THEN metaState' = "busy" /\ metaRequest' = request /\ UNCHANGED metaPending
      ELSE metaPending' = request /\ UNCHANGED <<metaState, metaRequest>>

\* The selection survives its adapter only while it is listed; the first of the
\* list (any, here) replaces it.
Reselect(ads) ==
    IF selected \in ads THEN {selected} ELSE IF ads = {} THEN {NoAdapter} ELSE ads

\* commit_inventory.
CommitInventory ==
    /\ TakeSample("inventory", TRUE)
    /\ IF GenerationChanged
         THEN /\ dynamic' = NoView /\ metadata' = NoView /\ histories' = {}
              /\ lastDynamicError' = "none" /\ lastMetadataError' = "none"
         ELSE /\ histories' = histories \intersect sampleView.ads
              /\ UNCHANGED <<dynamic, metadata, lastDynamicError, lastMetadataError>>
    /\ inventory' = sampleView
    /\ selected' \in Reselect(sampleView.ads)
    /\ IF sampleView.ads # {} THEN RequestMetadata(sampleView)
                              ELSE UNCHANGED <<metaState, metaRequest, metaPending>>
    /\ status' = DerivedStatus'

\* Mutant of AfterRefreshError: the snapshot goes with the error.
AfterRefreshErrorClears(error) ==
    /\ lastDynamicError' = error
    /\ status' = StatusAfterError(error)
    /\ dynamic' = NoView
    /\ UNCHANGED histories

\* handle_dynamic_error: the last valid snapshot stays, whatever the refresh error.
AfterRefreshError(error) ==
    /\ lastDynamicError' = error
    /\ status' = StatusAfterError(error)
    /\ UNCHANGED <<dynamic, histories>>

\* AwaitingBaseline.
AwaitBaseline ==
    /\ TakeSample("baseline", FALSE)
    /\ UNCHANGED <<metaState, metaRequest, metaPending, inventory, dynamic, metadata,
                   histories, selected, lastDynamicError, lastMetadataError>>
    /\ status' = IF inventory.gen = sampleView.gen THEN DerivedStatus' ELSE status

\* handle_dynamic_error, from the collector or the completion channel.
RefreshFails ==
    /\ TakeSample(sampleKind, FALSE) /\ sampleKind \in {"failed", "unsupported"}
    /\ AfterRefreshError(sampleKind)
    /\ UNCHANGED <<metaState, metaRequest, metaPending, inventory, metadata, selected,
                   lastMetadataError>>

\* snapshot_timestamp_advances: the first snapshot always does, a later one
\* can carry the same tick count.
TimestampAdvances == IF dynamic.gen = 0 THEN {TRUE} ELSE BOOLEAN

\* A dynamic snapshot is acceptable for the inventory on screen.
Complete(view) == view.ads = inventory.ads

\* commit_dynamic_snapshot, of a snapshot whose tick count advances or not.
CommitDynamicAt(advances) ==
    /\ TakeSample("dynamic", FALSE)
    /\ UNCHANGED <<metaState, metaRequest, metaPending, inventory, metadata, selected,
                   lastMetadataError>>
    /\ CASE inventory.gen = 0 -> AfterRefreshError("failed")
         [] inventory.gen # 0 /\ sampleView.gen # inventory.gen ->
              UNCHANGED <<dynamic, histories, lastDynamicError, status>>
         [] inventory.gen # 0 /\ sampleView.gen = inventory.gen
            /\ ~(advances /\ Complete(sampleView)) -> AfterRefreshError("failed")
         [] OTHER -> /\ dynamic' = sampleView
                     /\ histories' = histories \union sampleView.ads
                     /\ lastDynamicError' = "none"
                     /\ status' = DerivedStatus'

CommitDynamic == \E advances \in TimestampAdvances : CommitDynamicAt(advances)

\* Mutant of CurrentMetadata: any generation is taken.
AnyMetadata == inventory.gen # 0

\* The metadata snapshot is of the generation on screen.
CurrentMetadata == inventory.gen # 0 /\ metaView.gen = inventory.gen

\* handle_metadata_worker_completion: the drain takes the result and submits
\* the pending request, then commit_metadata_snapshot or the error.
MetadataDone ==
    /\ metaState = "done"
    /\ IF metaPending # NoView
         THEN metaState' = "busy" /\ metaRequest' = metaPending /\ metaPending' = NoView
         ELSE metaState' = "idle" /\ UNCHANGED <<metaRequest, metaPending>>
    /\ CASE metaError # "none" -> lastMetadataError' = metaError /\ UNCHANGED metadata
         [] metaError = "none" /\ ~CurrentMetadata ->
              UNCHANGED <<metadata, lastMetadataError>>
         [] metaError = "none" /\ CurrentMetadata /\ ~Complete(metaView) ->
              lastMetadataError' = "failed" /\ UNCHANGED metadata
         [] OTHER -> metadata' = metaView /\ lastMetadataError' = "none"
    /\ UNCHANGED <<hwVars, collectorVars, sampleVars, cached, metaError, metaView,
                   inventory, dynamic, histories, selected, lastDynamicError>>
    /\ status' = DerivedStatus'

\* handle_command: the user picks an adapter of the list.
SelectAdapter ==
    /\ inventory.gen # 0
    /\ selected' \in inventory.ads
    /\ UNCHANGED <<hwVars, collectorVars, sampleVars, metaVars, inventory, dynamic,
                   metadata, histories, lastDynamicError, lastMetadataError, status>>

-----------------------------------------------------------------------------
Collect == RebuildOk \/ RebuildFails \/ CollectFails \/ CollectBaseline
           \/ CollectDynamic \/ CollectorPanics
CollectMetadata == MetadataCached \/ MetadataRefused \/ MetadataCollected
                   \/ MetadataPanics
SampleDone == CommitInventory \/ AwaitBaseline \/ RefreshFails \/ CommitDynamic

Next == HardwareChanges \/ Timer \/ SelectAdapter
        \/ Collect \/ CollectMetadata \/ SampleDone \/ MetadataDone

Spec == Init /\ [][Next]_vars

\* The timer ticks, the workers and the message loop run; a query that can
\* succeed is not refused for ever, and the tick count advances in the end.
FairSpec ==
    /\ Spec
    /\ WF_vars(Timer) /\ WF_vars(Collect) /\ WF_vars(CollectMetadata)
    /\ WF_vars(SampleDone) /\ WF_vars(MetadataDone)
    /\ SF_vars(RebuildOk) /\ SF_vars(CollectDynamic)
    /\ SF_vars(CommitDynamicAt(TRUE))

-----------------------------------------------------------------------------
(* Properties.                                                              *)

\* Variables keep to their ranges, and a follow-up waits only behind a flight.
TypeOK ==
    /\ hw \subseteq Adapters /\ hwRev \in Revisions
    /\ topology \in Views /\ pdhError \in Errors /\ dynamicReady \in BOOLEAN
    /\ rebuilds \in 0..MaxRebuilds /\ named \subseteq Generations \X Revisions
    /\ sampleState \in WorkerStates /\ sampleMore \in BOOLEAN
    /\ sampleKind \in SampleKinds /\ sampleView \in Views
    /\ cached \in Views /\ metaState \in WorkerStates
    /\ metaRequest \in Views /\ metaPending \in Views
    /\ metaError \in Errors /\ metaView \in Views
    /\ inventory \in Views /\ dynamic \in Views /\ metadata \in Views
    /\ histories \subseteq Adapters /\ selected \in Adapters \union {NoAdapter}
    /\ lastDynamicError \in Errors /\ lastMetadataError \in Errors
    /\ status \in Statuses
    /\ sampleMore => sampleState # "idle"
    /\ metaPending # NoView => metaState # "idle"

\* The data on screen was measured on the hardware of the inventory on screen
\* (README.md:162, "the UI rejects stale generations").
RejectsStaleGenerations ==
    /\ dynamic.gen # 0 => dynamic.rev = inventory.rev /\ dynamic.ads = inventory.ads
    /\ metadata.gen # 0 => metadata.rev = inventory.rev /\ metadata.ads = inventory.ads
    /\ histories \subseteq inventory.ads

\* A restarted collector used a generation again for other hardware.
GenerationReused == \E m, n \in named : m[1] = n[1] /\ m[2] # n[2]

\* Short of a generation used twice, the page rejects every stale generation,
\* in whatever order samples, metadata, panics and hardware changes arrive.
ShownDataFitsInventory == GenerationReused \/ RejectsStaleGenerations

\* Even with reused generations, "Ready" is shown only when counters and
\* metadata cover exactly the adapters listed.
ReadyMeansComplete ==
    status = "Ready" =>
        /\ dynamic.ads = inventory.ads /\ metadata.ads = inventory.ads
        /\ ~dynamic.partial /\ ~metadata.partial
        /\ lastDynamicError = "none" /\ lastMetadataError = "none"

\* The selected adapter is one of those listed, whatever comes and goes.
SelectionIsListed ==
    inventory.gen # 0 =>
        IF inventory.ads = {} THEN selected = NoAdapter ELSE selected \in inventory.ads

\* A status that says "no data" is not shown over data, nor "stale" without.
StatusTellsTheData ==
    /\ status \in {"Loading", "LoadingPerformance", "Unsupported", "Failed"}
         => dynamic.gen = 0
    /\ status \in {"Stale", "Partial", "LoadingDetails"} => dynamic.gen # 0

\* When no metadata are under way, those of the inventory on screen are there or
\* their error is: no follow-up replaced, stale answer or panic leaves the page
\* waiting for nothing.
NoDetailsForgotten ==
    metaState = "idle" /\ inventory.gen # 0 /\ inventory.ads # {} =>
        \/ metadata.gen = inventory.gen /\ metadata.ads = inventory.ads
        \/ lastMetadataError # "none"

\* What the page shows is of the hardware it lists, complete where it claims to
\* be, and described by its status; and details not shown are under way or have
\* failed (commit_inventory, commit_dynamic_snapshot, commit_metadata_snapshot,
\* derive_status).
PageTellsTheHardware ==
    /\ TypeOK
    /\ ShownDataFitsInventory /\ ReadyMeansComplete
    /\ SelectionIsListed /\ StatusTellsTheData /\ NoDetailsForgotten

\* A failed refresh leaves the last valid snapshot on screen (README.md:162):
\* within a generation, data once shown does not disappear.
KeepsLastValid ==
    [][inventory.gen = inventory'.gen =>
         /\ dynamic.gen # 0 => dynamic'.gen # 0
         /\ metadata.gen # 0 => metadata'.gen # 0
         /\ histories \intersect inventory'.ads \subseteq histories']_vars

\* The bound on topologies, not the code, keeps the collector from rebuilding.
OutOfRebuilds == rebuilds = MaxRebuilds /\ TopologyStale

\* Once the hardware stops changing the page lists it: the follow-up request
\* and the timer get every topology published.
PageCatchesUp ==
    \/ <>[](inventory.gen # 0 /\ inventory.rev = hwRev)
    \/ <>[]OutOfRebuilds

\* The counters of the inventory on screen arrive unless PDH is broken for its
\* generation.
CountersCatchUp ==
    \/ <>[](inventory.gen # 0 /\ dynamic.gen = inventory.gen /\ dynamic.rev = hwRev)
    \/ []<>(pdhError # "none")
    \/ <>[]OutOfRebuilds

\* The metadata of the last inventory is shown or its error is: no stale answer
\* replaces the request for good.
DetailsSettle ==
    <>[](inventory.ads # {} => metadata.gen = inventory.gen \/ lastMetadataError # "none")
=============================================================================
