---------------------------- MODULE GpuPageProofs ----------------------------
(***************************************************************************)
(* Proofs about GpuPage for every set of adapters and any number of        *)
(* hardware changes and rebuilds.                                          *)
(***************************************************************************)
EXTENDS GpuPage, TLAPS

Answers == {"inventory", "baseline", "dynamic"}

Seen == {topology, sampleView, cached, metaRequest, metaPending, metaView,
         inventory, dynamic, metadata}

\* Two views are of the same hardware under the same generation.
Alike(v, w) == v.gen = w.gen /\ v.ads = w.ads /\ v.rev = w.rev

\* A view was drawn from hardware under a generation, as `named` remembers, and
\* two views of one revision list the same adapters.
ViewsInv ==
    /\ \A v \in Seen : v.gen # 0 =>
         /\ <<v.gen, v.rev>> \in named
         /\ v.rev <= hwRev
         /\ v.rev = hwRev => v.ads = hw
    /\ \A v, w \in Seen : v.gen # 0 /\ w.gen # 0 /\ v.rev = w.rev => v.ads = w.ads

\* What waits for the page is the collector's present topology, and a collector
\* has drawn no more generations than there were rebuilds.
CollectorInv ==
    /\ topology.gen <= rebuilds
    /\ pdhError \in {"none", "failed", "unsupported"}
    /\ sampleState = "done" /\ sampleKind \in Answers => Alike(sampleView, topology)

\* The page falls behind a collector that numbers anew only with an error that
\* says so: without one its inventory is not newer than the collector's.
PageInv ==
    /\ dynamic.gen # 0 => dynamic.gen = inventory.gen
    /\ metadata.gen # 0 => metadata.gen = inventory.gen
    /\ histories \subseteq inventory.ads
    /\ lastDynamicError = "none" /\ dynamic.gen # 0 => dynamic.ads = inventory.ads
    /\ lastDynamicError = "none" /\ ~(sampleState = "done" /\ sampleKind \notin Answers)
         => inventory.gen <= topology.gen
    /\ lastDynamicError = "none" /\ sampleState = "done" /\ sampleKind = "inventory"
         => inventory.gen < topology.gen

\* The metadata asked for last are those of the adapters listed, and unless they
\* are under way they have come or failed.
LastRequest == IF metaPending = NoView THEN metaRequest ELSE metaPending
DetailsInv ==
    /\ metaState = "done" /\ metaError = "none" =>
         metaView.gen = metaRequest.gen /\ metaView.ads = metaRequest.ads
    /\ inventory.gen # 0 /\ inventory.ads # {} =>
         IF metaState = "idle"
         THEN metadata.ads = inventory.ads \/ lastMetadataError # "none"
         ELSE LastRequest.gen = inventory.gen /\ LastRequest.ads = inventory.ads

IInv == /\ TypeOK /\ ViewsInv /\ CollectorInv /\ PageInv /\ DetailsInv
        /\ ReadyMeansComplete /\ SelectionIsListed /\ StatusTellsTheData

-----------------------------------------------------------------------------
LEMMA NoViewIsAView == NoView \in Views
  BY BoundsAssumption DEF NoView, Views, Generations, Revisions

LEMMA InitSound == Init => IInv
<1> SUFFICES ASSUME Init PROVE IInv
  OBVIOUS
<1> USE DEF Init
<1>1. TypeOK
  <2>1. sampleMore \in BOOLEAN /\ dynamicReady \in BOOLEAN /\ sampleMore = FALSE
    OBVIOUS
  <2>2. /\ hw \subseteq Adapters /\ hwRev \in Revisions /\ rebuilds \in 0..MaxRebuilds
        /\ named \subseteq Generations \X Revisions
        /\ histories \subseteq Adapters
    BY BoundsAssumption DEF Revisions
  <2> QED
    BY <2>1, <2>2, NoViewIsAView
       DEF TypeOK, Errors, SampleKinds, WorkerStates, Statuses
<1>2. ViewsInv
  BY DEF ViewsInv, Seen, NoView
<1>3. CollectorInv
  BY DEF CollectorInv, NoView
<1>4. PageInv
  BY DEF PageInv, NoView
<1>5. DetailsInv
  BY DEF DetailsInv, NoView
<1>6. ReadyMeansComplete /\ SelectionIsListed /\ StatusTellsTheData
  BY DEF ReadyMeansComplete, SelectionIsListed, StatusTellsTheData, NoView
<1> QED
  BY <1>1, <1>2, <1>3, <1>4, <1>5, <1>6 DEF IInv

-----------------------------------------------------------------------------
(* Views: each step copies views or draws one of the hardware as it is.     *)

LEMMA ViewsKept ==
  ASSUME TypeOK, TypeOK', ViewsInv, hw' = hw, hwRev' = hwRev, named \subseteq named',
         \A v \in Seen' :
           \/ v.gen = 0
           \/ \E w \in Seen : Alike(v, w)
           \/ v.rev = hwRev /\ v.ads = hw /\ <<v.gen, v.rev>> \in named'
  PROVE  ViewsInv'
<1>1. ASSUME NEW v \in Seen', v.gen # 0
      PROVE  /\ <<v.gen, v.rev>> \in named'
             /\ v.rev <= hwRev
             /\ v.rev = hwRev => v.ads = hw
  <2>1. CASE \E w \in Seen : Alike(v, w)
    BY <1>1, <2>1 DEF ViewsInv, Alike
  <2>2. CASE v.rev = hwRev /\ v.ads = hw /\ <<v.gen, v.rev>> \in named'
    BY <2>2, BoundsAssumption DEF TypeOK, Revisions
  <2> QED
    BY <1>1, <2>1, <2>2
<1>2. ASSUME NEW v \in Seen', NEW w \in Seen', v.gen # 0, w.gen # 0, v.rev = w.rev
      PROVE  v.ads = w.ads
  <2>1. CASE \E x, y \in Seen : Alike(v, x) /\ Alike(w, y)
    BY ZenonT(60), <1>2, <2>1 DEF ViewsInv, Alike
  <2>2. CASE v.rev = hwRev
    BY <1>1, <1>2, <2>2
  <2> QED
    BY <1>2, <2>1, <2>2
<1> QED
  BY <1>1, <1>2 DEF ViewsInv

LEMMA TypeSound == IInv /\ [Next]_vars => TypeOK'
<1> SUFFICES ASSUME IInv, [Next]_vars PROVE TypeOK'
  OBVIOUS
<1> USE NoViewIsAView, BoundsAssumption DEF IInv, TypeOK, Revisions, Generations, Errors,
      SampleKinds, WorkerStates, hwVars, collectorVars, sampleVars, metaVars, pageVars
<1> DEFINE Derives == DerivedStatus' \in Statuses
<1>0. Derives
  BY DEF DerivedStatus, Statuses
<1>1. CASE HardwareChanges
  BY <1>1 DEF HardwareChanges
<1>2. CASE Timer
  BY <1>2 DEF Timer
<1>3. CASE SelectAdapter
  BY <1>3 DEF SelectAdapter, Views
<1>4. CASE RebuildOk
  <2>1. topology' \in Views
    BY <1>4 DEF RebuildOk, NextGeneration, CollectorInv, Views
  <2>2. named' \subseteq (0..MaxRebuilds) \X (0..MaxChanges)
    BY <1>4 DEF RebuildOk, NextGeneration, CollectorInv, Views
  <2>3. dynamicReady' = FALSE /\ pdhError' \in {"none", "failed", "unsupported", "reused"}
    BY <1>4 DEF RebuildOk
  <2>4. rebuilds' \in 0..MaxRebuilds
    BY <1>4 DEF RebuildOk
  <2> QED
    BY ZenonT(60), <1>4, <2>1, <2>2, <2>3, <2>4 DEF RebuildOk, Publish
<1>5. CASE RebuildFails
  BY <1>5 DEF RebuildFails, Publish
<1>6. CASE CollectFails
  BY <1>6 DEF CollectFails, Publish, CollectorInv
<1>7. CASE CollectBaseline
  BY <1>7 DEF CollectBaseline, Publish
<1>8. CASE CollectDynamic
  <2>1. \A p \in BOOLEAN : [topology EXCEPT !.partial = p] \in Views
    BY DEF Views
  <2> QED
    BY ZenonT(60), <1>8, <2>1 DEF CollectDynamic, Publish
<1>9. CASE CollectorPanics
  BY ZenonT(60), <1>9 DEF CollectorPanics, Publish
<1>10. CASE MetadataCached
  BY <1>10 DEF MetadataCached, PublishMetadata
<1>11. CASE MetadataRefused
  BY <1>11 DEF MetadataRefused, PublishMetadata
<1>12. CASE MetadataCollected
  <2>1. \A p \in BOOLEAN : [metaRequest EXCEPT !.partial = p] \in Views
    BY DEF Views
  <2> QED
    BY <1>12, <2>1 DEF MetadataCollected, PublishMetadata
<1>13. CASE MetadataPanics
  BY <1>13 DEF MetadataPanics, PublishMetadata
<1>14. CASE CommitInventory
  <2>1. selected' \in Adapters \union {NoAdapter}
    BY <1>14 DEF CommitInventory, Reselect, Views
  <2>2. histories' \subseteq Adapters /\ dynamic' \in Views /\ metadata' \in Views
    BY <1>14 DEF CommitInventory
  <2> QED
    BY ZenonT(60), <1>0, <1>14, <2>1, <2>2 DEF CommitInventory, TakeSample, RequestMetadata
<1>15. CASE AwaitBaseline
  <2>1. status' \in Statuses /\ sampleMore' \in BOOLEAN
    BY <1>0, <1>15 DEF AwaitBaseline, TakeSample
  <2> QED
    BY <1>15, <2>1 DEF AwaitBaseline, TakeSample
<1>16. CASE RefreshFails
  <2>1. status' \in Statuses
    BY <1>16 DEF RefreshFails, AfterRefreshError, StatusAfterError, Statuses
  <2>2. sampleMore' = FALSE /\ dynamicReady' \in BOOLEAN
    BY <1>16 DEF RefreshFails, TakeSample
  <2> QED
    BY ZenonT(60), <1>16, <2>1, <2>2 DEF RefreshFails, TakeSample, AfterRefreshError
<1>17. CASE CommitDynamic
  <2>1. status' \in Statuses
    BY <1>0, <1>17 DEF CommitDynamic, CommitDynamicAt, AfterRefreshError, StatusAfterError,
                       Statuses
  <2>2. /\ dynamic' \in Views /\ histories' \subseteq Adapters
        /\ lastDynamicError' \in {"none", "failed", "unsupported", "reused"}
    BY <1>17 DEF CommitDynamic, CommitDynamicAt, AfterRefreshError, Views
  <2> QED
    BY <1>17, <2>1, <2>2 DEF CommitDynamic, CommitDynamicAt, TakeSample
<1>18. CASE MetadataDone
  BY <1>0, <1>18 DEF MetadataDone
<1>19. CASE UNCHANGED vars
  BY <1>19 DEF vars
<1> QED
  BY <1>1, <1>2, <1>3, <1>4, <1>5, <1>6, <1>7, <1>8, <1>9, <1>10, <1>11, <1>12, <1>13,
     <1>14, <1>15, <1>16, <1>17, <1>18, <1>19 DEF Next, Collect, CollectMetadata, SampleDone

LEMMA ViewsSound == IInv /\ [Next]_vars => ViewsInv'
<1> SUFFICES ASSUME IInv, [Next]_vars PROVE ViewsInv'
  OBVIOUS
<1> USE DEF hwVars, collectorVars, sampleVars, metaVars, pageVars
<1>0. TypeOK /\ TypeOK' /\ ViewsInv
  BY TypeSound DEF IInv
<1> DEFINE Kept == \A v \in Seen' : v.gen = 0 \/ \E w \in Seen : Alike(v, w)
<1>K. ASSUME Kept, hw' = hw, hwRev' = hwRev, named \subseteq named' PROVE ViewsInv'
  BY <1>0, <1>K, ViewsKept
<1>1. CASE HardwareChanges
  <2>1. Seen' = Seen /\ named' = named /\ hwRev' = hwRev + 1
    BY <1>1 DEF HardwareChanges, Seen
  <2>2. hwRev \in Nat
    BY <1>0, BoundsAssumption DEF TypeOK, Revisions
  <2>3. \A v \in Seen : v.rev \in Nat
    BY <1>0, BoundsAssumption DEF TypeOK, Seen, Views, Revisions
  <2> QED
    BY <1>0, <2>1, <2>2, <2>3 DEF ViewsInv
<1>2. CASE RebuildOk
  <2>1. topology'.rev = hwRev /\ topology'.ads = hw /\ topology'.gen = NextGeneration
    BY <1>2 DEF RebuildOk
  <2>2. <<topology'.gen, topology'.rev>> \in named' /\ named \subseteq named'
    BY <1>2, <2>1 DEF RebuildOk
  <2>3. Seen' \subseteq Seen \union {topology'} /\ hw' = hw /\ hwRev' = hwRev
    BY <1>2 DEF RebuildOk, Publish, Seen
  <2> QED
    BY <1>0, <2>1, <2>2, <2>3, ViewsKept DEF Alike
<1>3. CASE CollectDynamic
  <2>1. PICK p \in BOOLEAN : sampleView' = [topology EXCEPT !.partial = p]
    BY <1>3 DEF CollectDynamic, Publish
  <2>2. Alike(sampleView', topology)
    BY <1>0, <2>1 DEF Alike, TypeOK, Views
  <2>3. Seen' \subseteq Seen \union {sampleView'} /\ topology \in Seen
    BY <1>3 DEF CollectDynamic, Publish, Seen
  <2>4. Kept
    BY <2>2, <2>3 DEF Alike
  <2> QED
    BY <1>3, <1>K, <2>4 DEF CollectDynamic, Publish
<1>4. CASE MetadataCollected
  <2>1. PICK p \in BOOLEAN : cached' = [metaRequest EXCEPT !.partial = p]
    BY <1>4 DEF MetadataCollected
  <2>2. Alike(cached', metaRequest) /\ metaView' = cached'
    BY <1>0, <1>4, <2>1 DEF MetadataCollected, PublishMetadata, Alike, TypeOK, Views
  <2>3. Seen' \subseteq Seen \union {cached'} /\ metaRequest \in Seen
    BY <1>4, <2>2 DEF MetadataCollected, PublishMetadata, Seen
  <2>4. Kept
    BY <2>2, <2>3 DEF Alike
  <2> QED
    BY <1>4, <1>K, <2>4 DEF MetadataCollected, PublishMetadata
<1> DEFINE Copied == Seen' \subseteq Seen \union {NoView} /\ hw' = hw /\ hwRev' = hwRev
                     /\ named' = named
<1>C. ASSUME Copied PROVE ViewsInv'
  <2>1. Kept
    BY <1>C DEF Alike, NoView
  <2> QED
    BY <1>C, <1>K, <2>1
<1>5. CASE Timer \/ SelectAdapter \/ UNCHANGED vars
  BY <1>5, <1>C DEF Timer, SelectAdapter, vars, Seen
<1>6. CASE RebuildFails \/ CollectFails \/ CollectBaseline \/ CollectorPanics
  BY <1>6, <1>C DEF RebuildFails, CollectFails, CollectBaseline, CollectorPanics, Publish, Seen
<1>7. CASE MetadataCached \/ MetadataRefused \/ MetadataPanics
  BY <1>7, <1>C DEF MetadataCached, MetadataRefused, MetadataPanics, PublishMetadata, Seen
<1>8. CASE CommitInventory
  BY <1>8, <1>C DEF CommitInventory, TakeSample, RequestMetadata, Seen
<1>9. CASE AwaitBaseline \/ RefreshFails
  BY <1>9, <1>C DEF AwaitBaseline, RefreshFails, TakeSample, AfterRefreshError, Seen
<1>10. CASE CommitDynamic
  BY <1>10, <1>C DEF CommitDynamic, CommitDynamicAt, TakeSample, AfterRefreshError, Seen
<1>11. CASE MetadataDone
  BY <1>11, <1>C DEF MetadataDone, Seen
<1> QED
  BY <1>1, <1>2, <1>3, <1>4, <1>5, <1>6, <1>7, <1>8, <1>9, <1>10, <1>11
     DEF Next, Collect, CollectMetadata, SampleDone

-----------------------------------------------------------------------------
LEMMA CollectorSound == IInv /\ [Next]_vars => CollectorInv'
<1> SUFFICES ASSUME IInv, [Next]_vars PROVE CollectorInv'
  OBVIOUS
<1> USE DEF hwVars, collectorVars, sampleVars, metaVars, pageVars, CollectorInv, Answers
<1>0. TypeOK /\ CollectorInv
  BY DEF IInv
<1>1. CASE RebuildOk
  <2>1. topology'.gen = topology.gen + 1 /\ rebuilds' = rebuilds + 1 /\ sampleView' = topology'
    BY <1>1 DEF RebuildOk, NextGeneration, Publish
  <2>2. topology.gen \in Nat /\ rebuilds \in Nat
    BY <1>0, BoundsAssumption DEF TypeOK, Views, Generations
  <2>3. pdhError' \in {"none", "failed", "unsupported"}
    BY <1>1 DEF RebuildOk
  <2> QED
    BY <1>0, <2>1, <2>2, <2>3 DEF Alike
<1>2. CASE RebuildFails \/ CollectFails
  BY <1>0, <1>2 DEF RebuildFails, CollectFails, Publish
<1>3. CASE CollectorPanics
  <2>1. rebuilds \in Nat
    BY <1>0, BoundsAssumption DEF TypeOK
  <2> QED
    BY <1>0, <1>3, <2>1 DEF CollectorPanics, Publish, NoView
<1>4. CASE CollectBaseline
  BY <1>0, <1>4 DEF CollectBaseline, Publish, Alike
<1>5. CASE CollectDynamic
  <2>1. PICK p \in BOOLEAN : sampleView' = [topology EXCEPT !.partial = p]
    BY <1>5 DEF CollectDynamic, Publish
  <2>2. Alike(sampleView', topology)
    BY <1>0, <2>1 DEF Alike, TypeOK, Views
  <2>3. topology' = topology /\ UNCHANGED <<pdhError, rebuilds>>
    BY <1>5 DEF CollectDynamic
  <2> QED
    BY <1>0, <2>2, <2>3 DEF Alike
<1>6. CASE Timer
  BY <1>0, <1>6 DEF Timer, TypeOK, WorkerStates, Alike
<1>7. CASE HardwareChanges \/ SelectAdapter \/ CollectMetadata \/ MetadataDone \/ UNCHANGED vars
  BY <1>0, <1>7 DEF HardwareChanges, SelectAdapter, CollectMetadata, MetadataCached,
                    MetadataRefused, MetadataCollected, MetadataPanics, PublishMetadata,
                    MetadataDone, vars, Alike
<1>8. CASE SampleDone
  <2>1. UNCHANGED collectorVars /\ sampleState' # "done"
    BY <1>8 DEF SampleDone, CommitInventory, AwaitBaseline, RefreshFails, CommitDynamic,
                CommitDynamicAt, TakeSample
  <2> QED
    BY <1>0, <2>1
<1> QED
  BY <1>1, <1>2, <1>3, <1>4, <1>5, <1>6, <1>7, <1>8 DEF Next, Collect

\* The arms of commit_metadata_snapshot.
LEMMA MetadataOutcome ==
  ASSUME MetadataDone
  PROVE  \/ metaError # "none" /\ lastMetadataError' = metaError /\ metadata' = metadata
         \/ metaError = "none" /\ ~CurrentMetadata /\ metadata' = metadata
         \/ /\ metaError = "none" /\ CurrentMetadata /\ ~Complete(metaView)
            /\ lastMetadataError' = "failed" /\ metadata' = metadata
         \/ /\ metaError = "none" /\ CurrentMetadata /\ Complete(metaView)
            /\ metadata' = metaView /\ lastMetadataError' = "none"
<1> DEFINE C == CurrentMetadata
           W == Complete(metaView)
<1>1. CASE ~(metaError # "none") /\ ~(metaError = "none" /\ ~C)
           /\ ~(metaError = "none" /\ C /\ ~W)
  <2>1. metadata' = metaView /\ lastMetadataError' = "none"
    BY <1>1 DEF MetadataDone
  <2> QED
    BY <1>1, <2>1
<1>2. CASE metaError # "none"
  BY <1>2 DEF MetadataDone
<1>3. CASE metaError = "none" /\ ~C
  BY <1>3 DEF MetadataDone
<1>4. CASE metaError = "none" /\ C /\ ~W
  BY <1>4 DEF MetadataDone
<1> QED
  BY <1>1, <1>2, <1>3, <1>4

LEMMA PageSound == IInv /\ [Next]_vars => PageInv'
<1> SUFFICES ASSUME IInv, [Next]_vars PROVE PageInv'
  OBVIOUS
<1> USE DEF hwVars, collectorVars, sampleVars, metaVars, pageVars, PageInv, Answers
<1>0. TypeOK /\ CollectorInv /\ PageInv
  BY DEF IInv
<1>N. /\ inventory.gen \in Nat /\ topology.gen \in Nat /\ sampleView.gen \in Nat
      /\ dynamic.gen \in Nat /\ metadata.gen \in Nat /\ metaView.gen \in Nat
  BY <1>0, BoundsAssumption DEF TypeOK, Views, Generations
<1>1. CASE RebuildOk
  <2>1. topology'.gen = topology.gen + 1 /\ UNCHANGED pageVars /\ sampleState = "busy"
    BY <1>1 DEF RebuildOk, NextGeneration, Publish
  <2> QED
    BY <1>0, <1>N, <2>1
<1>2. CASE RebuildFails \/ CollectFails \/ CollectBaseline \/ CollectDynamic
  <2>1. UNCHANGED <<topology, pageVars>> /\ sampleState = "busy" /\ sampleKind' # "inventory"
    BY <1>0, <1>2 DEF RebuildFails, CollectFails, CollectBaseline, CollectDynamic, Publish,
                      CollectorInv
  <2> QED
    BY <1>0, <2>1
<1>3. CASE CollectorPanics
  BY <1>0, <1>3 DEF CollectorPanics, Publish
<1>4. CASE Timer
  BY <1>0, <1>4 DEF Timer, TypeOK, WorkerStates
<1>5. CASE HardwareChanges \/ SelectAdapter \/ CollectMetadata \/ UNCHANGED vars
  BY <1>0, <1>5 DEF HardwareChanges, SelectAdapter, CollectMetadata, MetadataCached,
                    MetadataRefused, MetadataCollected, MetadataPanics, PublishMetadata, vars
<1>6. CASE CommitInventory
  <2>1. /\ sampleState = "done" /\ sampleKind = "inventory" /\ sampleState' = "busy"
        /\ inventory' = sampleView /\ topology' = topology
    BY <1>6 DEF CommitInventory, TakeSample
  <2>2. sampleView.gen = topology.gen
    BY <1>0, <2>1 DEF CollectorInv, Alike
  <2>3. CASE GenerationChanged
    <3>1. dynamic' = NoView /\ metadata' = NoView /\ histories' = {}
      BY <1>6, <2>3 DEF CommitInventory
    <3> QED
      BY <1>N, <2>1, <2>2, <3>1 DEF NoView
  <2>4. CASE ~GenerationChanged
    <3>1. /\ UNCHANGED <<dynamic, metadata, lastDynamicError>>
          /\ histories' \subseteq sampleView.ads
      BY <1>6, <2>4 DEF CommitInventory
    <3>2. inventory.gen = 0 \/ inventory.gen = sampleView.gen
      BY <2>4 DEF GenerationChanged
    <3>3. lastDynamicError = "none" => dynamic.gen = 0
      BY <1>0, <1>N, <2>1, <2>2, <3>2
    <3> QED
      BY <1>0, <1>N, <2>1, <2>2, <3>1, <3>2, <3>3
  <2> QED
    BY <2>3, <2>4
<1>7. CASE AwaitBaseline
  BY <1>0, <1>7 DEF AwaitBaseline, TakeSample
<1>8. CASE RefreshFails
  BY <1>0, <1>8 DEF RefreshFails, TakeSample, AfterRefreshError
<1>9. CASE CommitDynamic
  <2>1. /\ sampleState = "done" /\ sampleKind = "dynamic" /\ sampleState' # "done"
        /\ UNCHANGED <<topology, inventory, metadata>>
    BY <1>9 DEF CommitDynamic, CommitDynamicAt, TakeSample
  <2>2. sampleView.gen = topology.gen
    BY <1>0, <2>1 DEF CollectorInv, Alike
  <2>3. \/ lastDynamicError' = "failed" /\ UNCHANGED <<dynamic, histories>>
        \/ UNCHANGED <<dynamic, histories, lastDynamicError>>
        \/ /\ sampleView.gen = inventory.gen /\ sampleView.ads = inventory.ads
           /\ dynamic' = sampleView /\ histories' = histories \union sampleView.ads
    BY <1>9 DEF CommitDynamic, CommitDynamicAt, AfterRefreshError, Complete
  <2> QED
    BY <1>0, <1>N, <2>1, <2>2, <2>3
<1>10. CASE MetadataDone
  <2>1. UNCHANGED <<topology, sampleState, sampleKind, inventory, dynamic, histories,
                    lastDynamicError>>
    BY <1>10 DEF MetadataDone
  <2>2. metadata' = metadata \/ (metadata' = metaView /\ CurrentMetadata)
    BY <1>10, MetadataOutcome
  <2> QED
    BY <1>0, <2>1, <2>2 DEF CurrentMetadata
<1> QED
  BY <1>1, <1>2, <1>3, <1>4, <1>5, <1>6, <1>7, <1>8, <1>9, <1>10 DEF Next, Collect, SampleDone

LEMMA DetailsSound == IInv /\ [Next]_vars => DetailsInv'
<1> SUFFICES ASSUME IInv, [Next]_vars PROVE DetailsInv'
  OBVIOUS
<1> USE DEF hwVars, collectorVars, sampleVars, metaVars, pageVars, DetailsInv, LastRequest
<1>0. TypeOK /\ TypeOK' /\ DetailsInv
  BY TypeSound DEF IInv
<1>1. CASE HardwareChanges \/ Timer \/ SelectAdapter \/ Collect \/ UNCHANGED vars
  BY <1>0, <1>1 DEF HardwareChanges, Timer, SelectAdapter, vars, Collect, RebuildOk,
     RebuildFails, CollectFails, CollectBaseline, CollectDynamic, CollectorPanics, Publish
<1>2. CASE CollectMetadata
  <2>1. /\ metaState = "busy" /\ metaState' = "done"
        /\ UNCHANGED <<metaRequest, metaPending, pageVars>>
    BY <1>2 DEF CollectMetadata, MetadataCached, MetadataRefused, MetadataCollected,
                MetadataPanics, PublishMetadata
  <2>2. metaError' = "none" => metaView'.gen = metaRequest.gen /\ metaView'.ads = metaRequest.ads
    <3>1. CASE MetadataCached
      BY <3>1 DEF MetadataCached, SameInventory, PublishMetadata
    <3>2. CASE MetadataRefused \/ MetadataPanics
      BY <3>2 DEF MetadataRefused, MetadataPanics, PublishMetadata
    <3>3. CASE MetadataCollected
      <4>1. PICK p \in BOOLEAN : cached' = [metaRequest EXCEPT !.partial = p]
                                 /\ metaView' = cached'
        BY <3>3 DEF MetadataCollected, PublishMetadata
      <4> QED
        BY <1>0, <4>1 DEF TypeOK, Views
    <3> QED
      BY <1>2, <3>1, <3>2, <3>3 DEF CollectMetadata
  <2> QED
    BY <1>0, <2>1, <2>2
<1>3. CASE CommitInventory
  <2>1. inventory' = sampleView /\ UNCHANGED <<metaError, metaView>>
    BY <1>3 DEF CommitInventory, TakeSample
  <2>2. CASE sampleView.ads = {}
    <3>1. UNCHANGED <<metaState, metaRequest, metaPending>>
      BY <1>3, <2>2 DEF CommitInventory
    <3> QED
      BY <1>0, <2>1, <2>2, <3>1
  <2>3. CASE sampleView.ads # {} /\ metaState = "idle"
    <3>1. metaState' = "busy" /\ metaRequest' = sampleView /\ metaPending' = metaPending
      BY <1>3, <2>3 DEF CommitInventory, RequestMetadata
    <3>2. metaPending = NoView
      BY <1>0, <2>3 DEF TypeOK
    <3> QED
      BY <2>1, <3>1, <3>2
  <2>4. CASE sampleView.ads # {} /\ metaState # "idle"
    <3>1. UNCHANGED <<metaState, metaRequest>> /\ metaPending' = sampleView
      BY <1>3, <2>4 DEF CommitInventory, RequestMetadata
    <3>2. sampleView # NoView
      BY <2>4 DEF NoView
    <3> QED
      BY <1>0, <2>1, <2>4, <3>1, <3>2
  <2> QED
    BY <2>2, <2>3, <2>4
<1>4. CASE AwaitBaseline \/ RefreshFails \/ CommitDynamic
  <2>1. UNCHANGED <<metaState, metaRequest, metaPending, metaError, metaView, inventory,
                    metadata, lastMetadataError>>
    BY <1>4 DEF AwaitBaseline, RefreshFails, CommitDynamic, CommitDynamicAt, TakeSample
  <2> QED
    BY <1>0, <2>1
<1>5. CASE MetadataDone
  <2>1. metaState = "done" /\ UNCHANGED <<metaError, metaView, inventory>>
    BY <1>5 DEF MetadataDone
  <2>2. CASE metaPending # NoView
    <3>1. metaState' = "busy" /\ metaRequest' = metaPending /\ metaPending' = NoView
      BY <1>5, <2>2 DEF MetadataDone
    <3> QED
      BY <1>0, <2>1, <2>2, <3>1
  <2>3. CASE metaPending = NoView
    <3>1. metaState' = "idle"
      BY <1>5, <2>3 DEF MetadataDone
    <3>2. ASSUME inventory.gen # 0, inventory.ads # {}
          PROVE  metadata'.ads = inventory.ads \/ lastMetadataError' # "none"
      <4>1. metaError = "none" => metaView.gen = inventory.gen /\ metaView.ads = inventory.ads
        BY <1>0, <2>1, <2>3, <3>2
      <4>2. metaError = "none" => CurrentMetadata /\ Complete(metaView)
        BY <3>2, <4>1 DEF CurrentMetadata, Complete
      <4> QED
        BY <1>5, <4>1, <4>2, MetadataOutcome
    <3> QED
      BY <2>1, <3>1, <3>2
  <2> QED
    BY <2>2, <2>3
<1> QED
  BY <1>1, <1>2, <1>3, <1>4, <1>5 DEF Next, SampleDone

-----------------------------------------------------------------------------
(* What the status says.                                                    *)

\* derive_status answers "Ready" only when nothing is missing and no metadata
\* are under way, and says whether there are data.
LEMMA DerivedTells ==
  ASSUME inventory.gen = 0 => dynamic.gen = 0
  PROVE  /\ DerivedStatus = "Ready" =>
              /\ inventory.gen # 0 /\ inventory.ads # {} /\ dynamic.gen # 0
              /\ ~dynamic.partial /\ ~metadata.partial /\ metaState = "idle"
              /\ lastDynamicError = "none" /\ lastMetadataError = "none"
         /\ DerivedStatus \in {"Loading", "LoadingPerformance", "Unsupported", "Failed"}
              => dynamic.gen = 0
         /\ DerivedStatus \in {"Stale", "Partial", "LoadingDetails"} => dynamic.gen # 0
<1>1. CASE inventory.gen = 0
  BY <1>1 DEF DerivedStatus
<1>2. CASE inventory.gen # 0 /\ lastDynamicError # "none"
  BY <1>2 DEF DerivedStatus
<1>3. CASE inventory.gen # 0 /\ lastDynamicError = "none"
  BY <1>3 DEF DerivedStatus, DetailsPending
<1> QED
  BY <1>1, <1>2, <1>3

LEMMA ReadySound ==
  ASSUME TypeOK, PageInv, DetailsInv
  PROVE  /\ status = DerivedStatus => ReadyMeansComplete
         /\ status = DerivedStatus => StatusTellsTheData
<1>1. inventory.gen = 0 => dynamic.gen = 0
  BY DEF PageInv
<1>2. status = DerivedStatus => StatusTellsTheData
  BY <1>1, DerivedTells DEF StatusTellsTheData
<1>3. ASSUME status = DerivedStatus, status = "Ready"
      PROVE  /\ dynamic.ads = inventory.ads /\ metadata.ads = inventory.ads
             /\ ~dynamic.partial /\ ~metadata.partial
             /\ lastDynamicError = "none" /\ lastMetadataError = "none"
  BY <1>1, <1>3, DerivedTells DEF PageInv, DetailsInv
<1> QED
  BY <1>2, <1>3 DEF ReadyMeansComplete

LEMMA StatusSound == IInv /\ [Next]_vars => ReadyMeansComplete' /\ StatusTellsTheData'
<1> SUFFICES ASSUME IInv, [Next]_vars PROVE ReadyMeansComplete' /\ StatusTellsTheData'
  OBVIOUS
<1> USE DEF hwVars, collectorVars, sampleVars, metaVars, pageVars
<1>0. TypeOK' /\ PageInv' /\ DetailsInv' /\ ReadyMeansComplete /\ StatusTellsTheData
  BY TypeSound, PageSound, DetailsSound DEF IInv
<1>1. CASE status' = DerivedStatus'
  <2>1. (TypeOK /\ PageInv /\ DetailsInv /\ status = DerivedStatus
           => ReadyMeansComplete /\ StatusTellsTheData)'
    BY ReadySound, PTL
  <2> QED
    BY <1>0, <1>1, <2>1
<1>2. CASE UNCHANGED <<status, inventory, dynamic, metadata, lastDynamicError,
                       lastMetadataError>>
  BY <1>0, <1>2 DEF ReadyMeansComplete, StatusTellsTheData
<1>3. CASE /\ status' = StatusAfterError(lastDynamicError') /\ dynamic' = dynamic
           /\ lastDynamicError' \in {"failed", "unsupported"}
  BY <1>3 DEF ReadyMeansComplete, StatusTellsTheData, StatusAfterError
<1>4. CASE HardwareChanges \/ Timer \/ SelectAdapter \/ UNCHANGED vars
  BY <1>2, <1>4 DEF HardwareChanges, Timer, SelectAdapter, vars
<1>5. CASE Collect
  BY <1>2, <1>5 DEF Collect, RebuildOk, RebuildFails, CollectFails, CollectBaseline,
                    CollectDynamic, CollectorPanics, Publish
<1>6. CASE CollectMetadata
  BY <1>2, <1>6 DEF CollectMetadata, MetadataCached, MetadataRefused, MetadataCollected,
                    MetadataPanics, PublishMetadata
<1>7. CASE CommitInventory
  BY <1>1, <1>7 DEF CommitInventory
<1>8. CASE AwaitBaseline
  <2>1. status' = DerivedStatus' \/ status' = status
    BY <1>8 DEF AwaitBaseline
  <2>2. UNCHANGED <<inventory, dynamic, metadata, lastDynamicError, lastMetadataError>>
    BY <1>8 DEF AwaitBaseline
  <2> QED
    BY <1>1, <1>2, <2>1, <2>2
<1>9. CASE RefreshFails
  BY <1>3, <1>9 DEF RefreshFails, AfterRefreshError
<1>10. CASE CommitDynamic
  <2>1. UNCHANGED <<inventory, metadata, lastMetadataError>>
    BY <1>10 DEF CommitDynamic, CommitDynamicAt
  <2>2. \/ status' = DerivedStatus'
        \/ AfterRefreshError("failed")
        \/ UNCHANGED <<dynamic, lastDynamicError, status>>
    BY <1>10 DEF CommitDynamic, CommitDynamicAt
  <2> QED
    BY <1>1, <1>2, <1>3, <2>1, <2>2 DEF AfterRefreshError
<1>11. CASE MetadataDone
  BY <1>1, <1>11 DEF MetadataDone
<1> QED
  BY <1>4, <1>5, <1>6, <1>7, <1>8, <1>9, <1>10, <1>11 DEF Next, SampleDone

LEMMA SelectionSound == IInv /\ [Next]_vars => SelectionIsListed'
<1> SUFFICES ASSUME IInv, [Next]_vars PROVE SelectionIsListed'
  OBVIOUS
<1> USE DEF hwVars, collectorVars, sampleVars, metaVars, pageVars
<1>0. SelectionIsListed
  BY DEF IInv
<1>1. CASE UNCHANGED <<inventory, selected>>
  BY <1>0, <1>1 DEF SelectionIsListed
<1>2. CASE HardwareChanges \/ Timer \/ UNCHANGED vars
  BY <1>1, <1>2 DEF HardwareChanges, Timer, vars
<1>3. CASE SelectAdapter
  BY <1>3 DEF SelectAdapter, SelectionIsListed
<1>4. CASE Collect
  BY <1>1, <1>4 DEF Collect, RebuildOk, RebuildFails, CollectFails, CollectBaseline,
                    CollectDynamic, CollectorPanics, Publish
<1>5. CASE CollectMetadata
  BY <1>1, <1>5 DEF CollectMetadata, MetadataCached, MetadataRefused, MetadataCollected,
                    MetadataPanics, PublishMetadata
<1>6. CASE CommitInventory
  <2>1. inventory' = sampleView /\ selected' \in Reselect(sampleView.ads)
    BY <1>6 DEF CommitInventory
  <2> QED
    BY <2>1 DEF Reselect, SelectionIsListed
<1>7. CASE AwaitBaseline \/ RefreshFails \/ CommitDynamic
  BY <1>1, <1>7 DEF AwaitBaseline, RefreshFails, CommitDynamic, CommitDynamicAt
<1>8. CASE MetadataDone
  BY <1>1, <1>8 DEF MetadataDone
<1> QED
  BY <1>2, <1>3, <1>4, <1>5, <1>6, <1>7, <1>8 DEF Next, SampleDone

-----------------------------------------------------------------------------
\* The inductive invariant holds for every instance.
THEOREM Inductive == Spec => []IInv
<1>1. IInv /\ [Next]_vars => IInv'
  BY TypeSound, ViewsSound, CollectorSound, PageSound, DetailsSound, StatusSound,
     SelectionSound DEF IInv
<1> QED
  BY InitSound, <1>1, PTL DEF Spec

\* Unless a restarted collector used a generation again, every view on screen is
\* of the hardware that is listed.
LEMMA NothingStale == IInv => ShownDataFitsInventory
<1> SUFFICES ASSUME IInv, ~GenerationReused PROVE RejectsStaleGenerations
  BY DEF ShownDataFitsInventory
<1>1. ASSUME NEW v \in Seen, NEW w \in Seen, v.gen # 0, v.gen = w.gen
      PROVE  v.rev = w.rev /\ v.ads = w.ads
  <2>1. <<v.gen, v.rev>> \in named /\ <<w.gen, w.rev>> \in named
    BY <1>1 DEF IInv, ViewsInv
  <2>2. v.rev = w.rev
    BY <1>1, <2>1 DEF GenerationReused
  <2> QED
    BY <1>1, <2>2 DEF IInv, ViewsInv
<1> QED
  BY <1>1 DEF IInv, PageInv, Seen, RejectsStaleGenerations

\* Metadata without a generation are none.
BlankInv == metadata.gen = 0 => metadata = NoView

LEMMA BlankSound == BlankInv /\ [Next]_vars => BlankInv'
<1> SUFFICES ASSUME BlankInv, [Next]_vars PROVE BlankInv'
  OBVIOUS
<1>1. CASE metadata' = metadata
  BY <1>1 DEF BlankInv
<1>2. CASE CommitInventory
  BY <1>2 DEF CommitInventory, BlankInv
<1>3. CASE MetadataDone
  <2>1. metadata' = metadata \/ (metadata' = metaView /\ CurrentMetadata)
    BY <1>3, MetadataOutcome
  <2> QED
    BY <2>1 DEF BlankInv, CurrentMetadata
<1>4. CASE HardwareChanges \/ Timer \/ SelectAdapter \/ UNCHANGED vars
  BY <1>1, <1>4 DEF HardwareChanges, Timer, SelectAdapter, vars, pageVars
<1>5. CASE Collect \/ CollectMetadata
  BY <1>1, <1>5 DEF Collect, RebuildOk, RebuildFails, CollectFails, CollectBaseline,
       CollectDynamic, CollectorPanics, Publish, CollectMetadata, MetadataCached,
       MetadataRefused, MetadataCollected, MetadataPanics, PublishMetadata, pageVars
<1>6. CASE AwaitBaseline \/ RefreshFails \/ CommitDynamic
  BY <1>1, <1>6 DEF AwaitBaseline, RefreshFails, CommitDynamic, CommitDynamicAt
<1> QED
  BY <1>2, <1>3, <1>4, <1>5, <1>6 DEF Next, SampleDone

\* So it is throughout (commit_inventory, commit_metadata_snapshot).
THEOREM BlankIsNone == Spec => []BlankInv
<1>1. Init => BlankInv
  BY DEF Init, BlankInv
<1> QED
  BY <1>1, BlankSound, PTL DEF Spec

\* Details that are neither shown nor under way have failed.
LEMMA NothingForgotten == IInv /\ BlankInv => NoDetailsForgotten
<1> SUFFICES ASSUME IInv, BlankInv, metaState = "idle", inventory.gen # 0, inventory.ads # {},
                    lastMetadataError = "none"
             PROVE  metadata.gen = inventory.gen /\ metadata.ads = inventory.ads
  BY DEF NoDetailsForgotten
<1>1. metadata.ads = inventory.ads
  BY DEF IInv, DetailsInv
<1>2. metadata.gen # 0
  BY <1>1 DEF BlankInv, NoView
<1> QED
  BY <1>1, <1>2 DEF IInv, PageInv

\* What the page shows is of the hardware it lists, complete where it claims to
\* be, and described by its status, in whatever order answers, failures, panics
\* and changes of the hardware come (commit_inventory, commit_dynamic_snapshot,
\* commit_metadata_snapshot, derive_status).
THEOREM ScreenTellsTheHardware == Spec => []PageTellsTheHardware
<1>1. IInv /\ BlankInv => PageTellsTheHardware
  BY NothingStale, NothingForgotten DEF IInv, PageTellsTheHardware
<1> QED
  BY Inductive, BlankIsNone, <1>1, PTL

\* Within a generation no failure takes away what is shown
\* (handle_dynamic_error, commit_inventory).
THEOREM LastValidKept == Spec => KeepsLastValid
<1> DEFINE Keeps == inventory.gen = inventory'.gen =>
                      /\ dynamic.gen # 0 => dynamic'.gen # 0
                      /\ metadata.gen # 0 => metadata'.gen # 0
                      /\ histories \intersect inventory'.ads \subseteq histories'
<1>1. ASSUME IInv, [Next]_vars PROVE Keeps \/ UNCHANGED vars
  <2> USE <1>1 DEF hwVars, collectorVars, sampleVars, metaVars, pageVars
  <2>1. CASE UNCHANGED <<dynamic, metadata, histories>>
    BY <2>1
  <2>2. CASE HardwareChanges \/ Timer \/ SelectAdapter
    BY <2>1, <2>2 DEF HardwareChanges, Timer, SelectAdapter
  <2>3. CASE Collect \/ CollectMetadata
    BY <2>1, <2>3 DEF Collect, RebuildOk, RebuildFails, CollectFails, CollectBaseline,
         CollectDynamic, CollectorPanics, Publish, CollectMetadata, MetadataCached,
         MetadataRefused, MetadataCollected, MetadataPanics, PublishMetadata
  <2>4. CASE CommitInventory
    <3>1. inventory' = sampleView
      BY <2>4 DEF CommitInventory
    <3>2. CASE GenerationChanged
      BY <3>1, <3>2 DEF GenerationChanged
    <3>3. CASE ~GenerationChanged
      BY <2>4, <3>1, <3>3 DEF CommitInventory
    <3> QED
      BY <3>2, <3>3
  <2>5. CASE AwaitBaseline \/ RefreshFails
    BY <2>1, <2>5 DEF AwaitBaseline, RefreshFails, AfterRefreshError
  <2>6. CASE CommitDynamic
    <3>1. metadata' = metadata /\ inventory' = inventory
      BY <2>6 DEF CommitDynamic, CommitDynamicAt
    <3>2. \/ UNCHANGED <<dynamic, histories>>
          \/ /\ sampleView.gen = inventory.gen /\ inventory.gen # 0
             /\ dynamic' = sampleView /\ histories' = histories \union sampleView.ads
      BY <2>6 DEF CommitDynamic, CommitDynamicAt, AfterRefreshError
    <3> QED
      BY <3>1, <3>2
  <2>7. CASE MetadataDone
    <3>1. UNCHANGED <<inventory, dynamic, histories>>
      BY <2>7 DEF MetadataDone
    <3>2. metadata' = metadata \/ (metadata' = metaView /\ CurrentMetadata)
      BY <2>7, MetadataOutcome
    <3> QED
      BY <3>1, <3>2 DEF CurrentMetadata
  <2> QED
    BY <2>2, <2>3, <2>4, <2>5, <2>6, <2>7 DEF Next, SampleDone
<1>2. IInv /\ [Next]_vars => [Keeps]_vars
  BY <1>1
<1> QED
  BY Inductive, <1>2, PTL DEF Spec, KeepsLastValid
===============================================================================
