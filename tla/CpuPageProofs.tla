---------------------------- MODULE CpuPageProofs ----------------------------
(***************************************************************************)
(* Proofs about CpuPage, for every set of topologies and all bounds: types,*)
(* no detail of another topology, no refresh of the user's lost, no detail *)
(* lost while the topology stays, none missed by a worker that rests.      *)
(*                                                                         *)
(* The details are tied to their topology by three links that must hold    *)
(* together: a collector's counter query is of the topology it was asked   *)
(* about last, an answer's values are of the topology the answer names, the*)
(* page takes answers of its own topology only.  What is owed to the user  *)
(* is a matter of a single flight: the lemmas follow it through each step  *)
(* a flight can take.                                                      *)
(***************************************************************************)
EXTENDS CpuPage, FiniteSetTheorems, TLAPS

\* What waits or runs is for a known topology.
KnownTopology(f) ==
    \A r \in {f.request, f.pending} : r.refresh = "none" <=> r.key = NoKey

Sound(f) == GoodFlight(f) /\ KnownTopology(f)

\* A flight keeps a refresh of the user's for topology k.
Keeps(f, k) ==
    \/ f.queued = "user"
    \/ \E r \in {f.request, f.pending} : r.refresh = "user" /\ r.key = k

FlightsSound == \A w \in Workers : Sound(worker[w])

PdhOfTheKey == \A w \in Workers : memory[w].pdh = "primed" => memory[w].pdhOf = memory[w].key

AnswersOfTheirKey ==
    \A w \in Workers, s \in Sources :
        answer[w].updates[s].kind = "success" => answer[w].updates[s].of = answer[w].key

IInv ==
    /\ TypeOK /\ FlightsSound
    /\ PdhOfTheKey /\ AnswersOfTheirKey /\ DetailsOfTheKey
    /\ UserRefreshNotLost

-----------------------------------------------------------------------------
(* Flights.                                                                 *)

\* The stronger of two refreshes is one of them, and nothing is stronger than
\* the user's.
LEMMA StrongerUser ==
    ASSUME NEW old \in Refreshes \union {"none"}, NEW new \in Refreshes
    PROVE  /\ Stronger(old, new) \in Refreshes
           /\ old = "user" \/ new = "user" => Stronger(old, new) = "user"
  BY DEF Stronger, Priority, Refreshes

\* A request leaves a flight sound, keeps what it keeps and keeps the user's.
LEMMA RequestSound ==
    ASSUME NEW f, Sound(f), NEW k \in KeyOrNone, NEW refresh \in Refreshes
    PROVE  /\ Sound(Request(f, k, refresh))
           /\ Request(f, k, refresh).state = "done" <=> f.state = "done"
           /\ Keeps(f, k) \/ refresh = "user" => Keeps(Request(f, k, refresh), k)
  <1> DEFINE r == [key |-> k, refresh |-> refresh]
             g == Request(f, k, refresh)
  <1>0. f \in Flights /\ "none" \notin Refreshes /\ NoKey \notin Keys
    BY CpuPageAssumption DEF Sound, GoodFlight, Refreshes
  <1>1. CASE k = NoKey
    <2>1. g = [f EXCEPT !.queued = Stronger(@, refresh)]
      BY <1>1 DEF Request
    <2>2. Stronger(f.queued, refresh) \in Refreshes
          /\ (f.queued = "user" \/ refresh = "user" => Stronger(f.queued, refresh) = "user")
      BY <1>0, StrongerUser DEF Flights
    <2>3. /\ g \in Flights
          /\ g.state = f.state /\ g.request = f.request /\ g.pending = f.pending
          /\ g.queued = Stronger(f.queued, refresh)
      BY <1>0, <2>1, <2>2 DEF Flights
    <2>4. Keeps(f, k) => f.queued = "user"
      BY <1>0, <1>1 DEF Keeps, Sound, KnownTopology, Refreshes
    <2> QED
      BY <2>2, <2>3, <2>4 DEF Sound, GoodFlight, KnownTopology, Keeps
  <1>2. CASE k # NoKey /\ f.state = "idle"
    <2>1. g = [f EXCEPT !.state = "busy", !.request = r]
      BY <1>2 DEF Request
    <2>2. r \in Requests /\ r.key = k /\ r.refresh = refresh /\ r # NoRequest
      BY <1>2 DEF Requests, NoRequest
    <2>3. /\ g \in Flights
          /\ g.state = "busy" /\ g.request = r /\ g.pending = f.pending /\ g.queued = f.queued
      BY <1>0, <2>1, <2>2 DEF Flights
    <2>4. f.request = NoRequest /\ f.pending = NoRequest
      BY <1>0, <1>2 DEF Sound, GoodFlight, Flights
    <2>5. Keeps(f, k) => f.queued = "user"
      BY <2>4 DEF Keeps, NoRequest
    <2>6. KnownTopology(g)
      BY <1>0, <1>2, <2>2, <2>3, <2>4 DEF KnownTopology, NoRequest
    <2>7. GoodFlight(g)
      BY <2>2, <2>3 DEF GoodFlight
    <2> QED
      BY <1>2, <2>2, <2>3, <2>5, <2>6, <2>7 DEF Sound, Keeps
  <1>3. CASE k # NoKey /\ f.state # "idle"
    <2> DEFINE p == MergeRequests(f.pending, r)
    <2>1. g = [f EXCEPT !.pending = p]
      BY <1>3 DEF Request
    <2>2. f.pending \in Requests /\ r \in Requests
      BY <1>0, <1>3 DEF Flights, Requests
    <2>3. f.pending.refresh \in Refreshes \union {"none"} /\ r.refresh = refresh /\ r.key = k
      BY <2>2 DEF Requests
    <2>4. /\ p \in Requests /\ p.key = k /\ p.refresh \in Refreshes
          /\ (f.pending.key = k /\ f.pending.refresh = "user") \/ refresh = "user"
                => p.refresh = "user"
      <3>1. CASE f.pending.key # k
        BY <2>2, <2>3, <3>1 DEF MergeRequests
      <3>2. CASE f.pending.key = k
        <4>1. p = [f.pending EXCEPT !.refresh = Stronger(@, refresh)]
          BY <2>3, <3>2 DEF MergeRequests
        <4>2. /\ Stronger(f.pending.refresh, refresh) \in Refreshes
              /\ f.pending.refresh = "user" \/ refresh = "user"
                    => Stronger(f.pending.refresh, refresh) = "user"
          BY <2>3, StrongerUser
        <4> QED
          BY <2>2, <3>2, <4>1, <4>2 DEF Requests
      <3> QED
        BY <3>1, <3>2
    <2> HIDE DEF p
    <2>5. /\ g \in Flights
          /\ g.state = f.state /\ g.request = f.request /\ g.pending = p /\ g.queued = f.queued
      BY <1>0, <2>1, <2>4 DEF Flights
    <2>6. KnownTopology(g)
      BY <1>0, <1>3, <2>4, <2>5 DEF KnownTopology, Sound
    <2>7. GoodFlight(g)
      BY <1>3, <2>5 DEF GoodFlight, Sound
    <2>8. Keeps(f, k) \/ refresh = "user" => Keeps(g, k)
      BY <2>4, <2>5 DEF Keeps
    <2> QED
      BY <2>5, <2>6, <2>7, <2>8 DEF Sound
  <1> QED
    BY <1>1, <1>2, <1>3

\* Flushing a queue leaves a flight sound and keeps what it keeps.
LEMMA FlushSound ==
    ASSUME NEW f, Sound(f), NEW k \in KeyOrNone
    PROVE  /\ Sound(Flush(f, k))
           /\ Flush(f, k).state = "done" <=> f.state = "done"
           /\ Keeps(f, k) => Keeps(Flush(f, k), k)
  <1> DEFINE h == [f EXCEPT !.queued = "none"]
  <1>0. f \in Flights
    BY DEF Sound, GoodFlight
  <1>1. CASE f.state = "idle" /\ f.queued # "none"
    <2>1. Flush(f, k) = Request(h, k, f.queued)
      BY <1>1 DEF Flush
    <2>2. /\ h \in Flights /\ f.queued \in Refreshes
          /\ h.state = f.state /\ h.request = f.request /\ h.pending = f.pending
      BY <1>0, <1>1 DEF Flights
    <2>3. Sound(h)
      BY <2>2 DEF Sound, GoodFlight, KnownTopology
    <2>4. Keeps(f, k) => Keeps(h, k) \/ f.queued = "user"
      BY <2>2 DEF Keeps
    <2> HIDE DEF h
    <2> QED
      BY <2>1, <2>2, <2>3, <2>4, RequestSound
  <1>2. CASE ~(f.state = "idle" /\ f.queued # "none")
    BY <1>2 DEF Flush
  <1> QED
    BY <1>1, <1>2

\* So does the second reading of the counters.
LEMMA InitialDynamicSound ==
    ASSUME NEW f, Sound(f), NEW k \in KeyOrNone, NEW b
    PROVE  /\ Sound(InitialDynamic(f, k, b))
           /\ InitialDynamic(f, k, b).state = "done" <=> f.state = "done"
           /\ Keeps(f, k) => Keeps(InitialDynamic(f, k, b), k)
  <1>1. "periodic" \in Refreshes
    BY DEF Refreshes
  <1> QED
    BY <1>1, RequestSound DEF InitialDynamic

\* A prewarming leaves a flight sound; what was queued for the user before a
\* topology was known is kept for the one that has become known.
LEMMA QueuePrewarmSound ==
    ASSUME NEW f, Sound(f), NEW k \in KeyOrNone
    PROVE  /\ Sound(QueuePrewarm(f, k))
           /\ QueuePrewarm(f, k).state = f.state
           /\ Keeps(f, NoKey) => Keeps(QueuePrewarm(f, k), k)
  <1>0. f \in Flights
    BY DEF Sound, GoodFlight
  <1>1. Keeps(f, NoKey) => f.queued = "user"
    BY DEF Keeps, Sound, KnownTopology
  <1>2. CASE k = NoKey
    BY <1>2 DEF QueuePrewarm
  <1>3. CASE k # NoKey
    <2> DEFINE g == QueuePrewarm(f, k)
               q == Stronger(f.queued, "prewarm")
    <2>1. q \in Refreshes /\ (f.queued = "user" => q = "user")
      BY <1>0, StrongerUser DEF Flights, Refreshes
    <2>2. g = [f EXCEPT !.queued = q]
      BY <1>3 DEF QueuePrewarm
    <2> HIDE DEF q
    <2>3. /\ g \in Flights /\ g.queued = q
          /\ g.state = f.state /\ g.request = f.request /\ g.pending = f.pending
      BY <1>0, <2>1, <2>2 DEF Flights
    <2> QED
      BY <1>1, <2>1, <2>3 DEF Sound, GoodFlight, KnownTopology, Keeps
  <1> QED
    BY <1>2, <1>3

\* A drain ends a flight that is done, or begins the next.
LEMMA DrainedSound ==
    ASSUME NEW f, Sound(f), f.state = "done", NEW k
    PROVE  /\ Sound(Drained(f)) /\ Drained(f).state # "done"
           /\ Keeps(f, k) => Keeps(Drained(f), k)
  <1> DEFINE g == Drained(f)
  <1>0. f \in Flights /\ f.request = NoRequest
    BY DEF Sound, GoodFlight
  <1>1. CASE f.pending = NoRequest
    <2>1. /\ g \in Flights /\ g.queued = f.queued
          /\ g.state = "idle" /\ g.request = f.request /\ g.pending = f.pending
      BY <1>0, <1>1 DEF Drained, Flights
    <2> QED
      BY <1>0, <1>1, <2>1 DEF Sound, GoodFlight, KnownTopology, Keeps
  <1>2. CASE f.pending # NoRequest
    <2>0. NoRequest \in Requests
      BY DEF NoRequest, Requests, KeyOrNone
    <2>1. /\ g \in Flights /\ g.queued = f.queued
          /\ g.state = "busy" /\ g.request = f.pending /\ g.pending = NoRequest
      BY <1>0, <1>2, <2>0 DEF Drained, Flights
    <2> QED
      BY <1>0, <1>2, <2>1 DEF Sound, GoodFlight, KnownTopology, Keeps
  <1> QED
    BY <1>1, <1>2

-----------------------------------------------------------------------------
(* Collections.                                                             *)

\* Failed queries are counted up to their bound.
LEMMA QueriedInRange ==
    ASSUME NEW D, IsFiniteSet(D), NEW oks \in [D -> BOOLEAN], Queried(oks),
           faults \in 0 .. MaxFaults
    PROVE  faults' \in 0 .. MaxFaults
  <1> DEFINE failures == Cardinality({s \in D : ~oks[s]})
  <1>1. failures \in Nat
    BY FS_Subset, FS_CardinalityType, {s \in D : ~oks[s]} \subseteq D
  <1>2. faults + failures <= MaxFaults /\ faults' = faults + failures
    BY DEF Queried
  <1> HIDE DEF failures
  <1> QED
    BY <1>1, <1>2, CpuPageAssumption

\* The end of a collection: its flight is done, the others go on, and what is
\* owed for it is still owed only if it waits elsewhere.
LEMMA CollectedSound ==
    ASSUME IInv, NEW w \in Workers, NEW r, Collected(w, r)
    PROVE  /\ worker' \in [Workers -> Flights] /\ FlightsSound' /\ UserRefreshNotLost'
           /\ r \in Requests /\ r.key \in KeyOrNone /\ owed' \in SUBSET Workers
           /\ worker'[w].state = "done"
           /\ \A v \in Workers \ {w} : worker'[v] = worker[v]
  <1> DEFINE f == worker[w]
             g == [f EXCEPT !.state = "done", !.request = NoRequest]
  <1>0. worker \in [Workers -> Flights] /\ f \in Flights /\ Sound(f) /\ owed \subseteq Workers
    BY DEF IInv, TypeOK, FlightsSound
  <1>1. /\ f.state = "busy" /\ r = f.request
        /\ worker' = [worker EXCEPT ![w] = g]
        /\ owed' = IF r.refresh = "user" /\ r.key = key THEN owed \ {w} ELSE owed
        /\ key' = key
    BY <1>0 DEF Collected, pageVars
  <1>2. NoRequest \in Requests
    BY DEF NoRequest, Requests, KeyOrNone
  <1>3. /\ g \in Flights /\ g.queued = f.queued
        /\ g.state = "done" /\ g.request = NoRequest /\ g.pending = f.pending
    BY <1>0, <1>2 DEF Flights
  <1>4. Sound(g)
    BY <1>0, <1>3 DEF Sound, GoodFlight, KnownTopology, NoRequest
  <1> HIDE DEF g
  <1>5. /\ worker'[w] = g /\ \A v \in Workers \ {w} : worker'[v] = worker[v]
        /\ worker' \in [Workers -> Flights]
    BY <1>0, <1>1, <1>3
  <1>6. FlightsSound'
    BY <1>4, <1>5 DEF FlightsSound, IInv
  <1>7. UserRefreshNotLost'
    <2> SUFFICES ASSUME NEW v \in owed' PROVE Keeps(worker'[v], key)
      BY <1>1 DEF UserRefreshNotLost, Keeps
    <2>1. v \in owed /\ v \in Workers /\ Keeps(worker[v], key)
      BY <1>0, <1>1 DEF IInv, UserRefreshNotLost, Keeps
    <2>2. CASE v = w
      BY <1>1, <1>3, <1>5, <2>1, <2>2 DEF Keeps
    <2>3. CASE v # w
      BY <1>5, <2>1, <2>3
    <2> QED
      BY <2>2, <2>3
  <1>8. r \in Requests /\ r.key \in KeyOrNone
    BY <1>0, <1>1 DEF Flights, Requests
  <1> QED
    BY <1>0, <1>1, <1>3, <1>5, <1>6, <1>7, <1>8

\* What a collection must leave for the invariant to hold: the memory and the
\* answer of its worker, within their ranges and true to the topology.
LEMMA CollectionKeepsIInv ==
    ASSUME IInv, NEW w \in Workers, NEW r, Collected(w, r), faults' \in 0 .. MaxFaults,
           NEW m \in Memory, memory' = [memory EXCEPT ![w] = m],
           m.pdh = "primed" => m.pdhOf = m.key,
           NEW a \in Answers, answer' = [answer EXCEPT ![w] = a],
           \A s \in Sources : a.updates[s].kind = "success" => a.updates[s].of = a.key
    PROVE  IInv'
  <1>0. TypeOK
    BY DEF IInv
  <1>1. UNCHANGED <<events, key, component, workerError, baseline>>
    BY DEF Collected, pageVars
  <1>2. memory' \in [Workers -> Memory] /\ answer' \in [Workers -> Answers]
    BY <1>0 DEF TypeOK
  <1>3. \A v \in Workers : memory'[v] = IF v = w THEN m ELSE memory[v]
    BY <1>0 DEF TypeOK
  <1>4. \A v \in Workers : answer'[v] = IF v = w THEN a ELSE answer[v]
    BY <1>0 DEF TypeOK
  <1>5. PdhOfTheKey'
    BY <1>3 DEF PdhOfTheKey, IInv
  <1>6. AnswersOfTheirKey'
    BY <1>4 DEF AnswersOfTheirKey, IInv
  <1>7. DetailsOfTheKey'
    BY <1>1 DEF DetailsOfTheKey, IInv
  <1>8. (\A v \in Workers : worker[v].state # "done" => answer[v] = NoAnswer)'
    BY <1>0, <1>4, CollectedSound DEF TypeOK
  <1>9. TypeOK'
    BY <1>0, <1>1, <1>2, <1>8, CollectedSound
    DEF TypeOK, FlightsSound, Sound, HasDetailValues, HasValue
  <1> QED
    BY <1>5, <1>6, <1>7, <1>9, CollectedSound DEF IInv

\* A collector asked about another topology than last has forgotten the former,
\* its counter query as well.
LEMMA ResetForgets ==
    ASSUME NEW m \in Memory, m.pdh = "primed" => m.pdhOf = m.key, NEW k \in KeyOrNone
    PROVE  /\ ResetForTopology(m, k) \in Memory
           /\ ResetForTopology(m, k).key = k
           /\ ResetForTopology(m, k).pdh = "primed" => ResetForTopology(m, k).pdhOf = k
  BY DEF ResetForTopology, NewMemory, Memory, KeyOrNone

\* A source collected once answers with a value of the topology it was asked for,
\* or with none.
LEMMA CollectOnceOfTheKey ==
    ASSUME NEW m, NEW s, NEW r \in Requests, NEW ok
    PROVE  /\ CollectOnce(m, s, r, ok) \in Updates
           /\ CollectOnce(m, s, r, ok).kind = "success" => CollectOnce(m, s, r, ok).of = r.key
  BY DEF CollectOnce, Updates, Unchanged, Failed, Success, Requests, KeyOrNone

\* The counters, likewise: their query is of the topology it was opened for.
LEMMA CollectDynamicOfTheKey ==
    ASSUME NEW before \in {"none", "failed", "open", "primed"}, NEW of \in KeyOrNone,
           NEW ok \in BOOLEAN
    PROVE  /\ CollectDynamic(before, of, ok) \in Updates
           /\ CollectDynamic(before, of, ok).kind = "success"
                => CollectDynamic(before, of, ok).of = of
  BY DEF CollectDynamic, Updates, Unchanged, Failed, Success, KeyOrNone

LEMMA CollectNativeStep ==
    ASSUME IInv, CollectNative
    PROVE  IInv'
  <1> PICK oks \in [{"topology", "dynamic"} -> BOOLEAN] : CollectNative!(oks)
    BY DEF CollectNative
  <1> DEFINE r == worker["native"].request
             n == ResetForTopology(memory["native"], r.key)
             before == PdhBefore(n, r)
             of == IF before = "none" THEN r.key ELSE n.pdhOf
             m == [n EXCEPT !.topology = IF ToDo(n, "topology", r.refresh)
                                         THEN Done(oks["topology"]) ELSE @,
                            !.features = "done",
                            !.pdh = PdhAfter(before, oks["dynamic"]),
                            !.pdhOf = of]
             u == [s \in Sources |->
                      CASE s = "topology" -> CollectOnce(n, s, r, oks["topology"])
                        [] s = "features" -> CollectOnce(n, s, r, TRUE)
                        [] s = "dynamic" -> CollectDynamic(before, of, oks["dynamic"])
                        [] OTHER -> Unchanged]
             a == [panicked |-> FALSE, key |-> r.key,
                   primed |-> IF before \in {"none", "open"} /\ oks["dynamic"]
                              THEN "ahead" ELSE "none",
                   updates |-> u]
  <1>0. /\ Collected("native", r) /\ Queried(oks)
        /\ memory' = [memory EXCEPT !["native"] = m]
        /\ answer' = [answer EXCEPT !["native"] = a]
    OBVIOUS
  <1>1. "native" \in Workers /\ r \in Requests /\ r.key \in KeyOrNone
    BY <1>0, CollectedSound DEF Workers
  <1>2. faults' \in 0 .. MaxFaults
    BY <1>0, FS_EmptySet, FS_AddElement, QueriedInRange,
       {"topology", "dynamic"} = ({} \union {"topology"}) \union {"dynamic"} DEF IInv, TypeOK
  <1>3. /\ n \in Memory /\ n.key = r.key
        /\ n.pdh = "primed" => n.pdhOf = r.key
    BY SMTT(60), <1>1, ResetForgets DEF IInv, TypeOK, PdhOfTheKey
  <1>4. before \in {"none", "failed", "open", "primed"}
    BY SMTT(60), <1>3 DEF PdhBefore, Memory
  <1>5. of \in KeyOrNone /\ (before \in {"none", "open", "primed"} => of = r.key)
    BY <1>1, <1>3, <1>4 DEF PdhBefore, Memory
  <1>6. m \in Memory /\ m.key = r.key /\ (m.pdh = "primed" => m.pdhOf = m.key)
    <2>1. PdhAfter(before, oks["dynamic"]) \in {"failed", "primed"}
          /\ (PdhAfter(before, oks["dynamic"]) = "primed" => before # "failed")
      BY DEF PdhAfter
    <2>2. (IF ToDo(n, "topology", r.refresh) THEN Done(oks["topology"]) ELSE n.topology)
            \in {"todo", "done", "failed"}
      BY <1>3 DEF Done, Memory
    <2> HIDE DEF n, before, of
    <2> QED
      BY <1>3, <1>4, <1>5, <2>1, <2>2 DEF Memory
  <1>7. u \in [Sources -> Updates]
        /\ \A s \in Sources : u[s].kind = "success" => u[s].of = r.key
    <2>1. oks["dynamic"] \in BOOLEAN /\ Unchanged \in Updates /\ Unchanged.kind # "success"
      BY SMTT(60) DEF Unchanged, Updates, KeyOrNone
    <2>2. /\ CollectDynamic(before, of, oks["dynamic"]) \in Updates
          /\ CollectDynamic(before, of, oks["dynamic"]).kind = "success"
                => before # "failed" /\ CollectDynamic(before, of, oks["dynamic"]).of = of
      BY <1>4, <1>5, <2>1, CollectDynamicOfTheKey DEF CollectDynamic, Unchanged
    <2> DEFINE good(x) == x \in Updates /\ (x.kind = "success" => x.of = r.key)
    <2>3. good(CollectOnce(n, "topology", r, oks["topology"]))
      BY <1>1, CollectOnceOfTheKey
    <2>4. good(CollectOnce(n, "features", r, TRUE))
      <3> HIDE DEF n, r
      <3> QED
        BY <1>1, <2>1 DEF CollectOnce, Updates, Success
    <2>5. good(CollectDynamic(before, of, oks["dynamic"]))
      BY <1>4, <1>5, <2>2
    <2>6. good(Unchanged)
      BY <2>1
    <2>7. /\ u["topology"] = CollectOnce(n, "topology", r, oks["topology"])
          /\ u["features"] = CollectOnce(n, "features", r, TRUE)
          /\ u["dynamic"] = CollectDynamic(before, of, oks["dynamic"])
          /\ u["firmware"] = Unchanged
      <3> HIDE DEF n, before, of
      <3> QED
        BY Zenon DEF Sources, NativeSources
    <2>8. Sources = {"topology", "features", "dynamic", "firmware"}
      BY DEF Sources, NativeSources
    <2>9. DOMAIN u = Sources /\ u = [s \in Sources |-> u[s]]
      OBVIOUS
    <2> HIDE DEF n, before, of, u
    <2>10. \A s \in Sources : good(u[s])
      BY <2>3, <2>4, <2>5, <2>6, <2>7, <2>8
    <2> QED
      BY <2>9, <2>10
  <1>8. a \in Answers
        /\ \A s \in Sources : a.updates[s].kind = "success" => a.updates[s].of = a.key
    <2> HIDE DEF n, before, of, u
    <2> QED
      BY <1>1, <1>7 DEF Answers, Primings
  <1> HIDE DEF r, m, a
  <1> QED
    BY <1>0, <1>1, <1>2, <1>6, <1>8, CollectionKeepsIInv

LEMMA CollectFirmwareStep ==
    ASSUME IInv, CollectFirmware
    PROVE  IInv'
  <1> PICK oks \in [{"firmware"} -> BOOLEAN] : CollectFirmware!(oks)
    BY DEF CollectFirmware
  <1> DEFINE r == worker["firmware"].request
             n == ResetForTopology(memory["firmware"], r.key)
             m == [n EXCEPT !.firmware = IF ToDo(n, "firmware", r.refresh)
                                         THEN Done(oks["firmware"]) ELSE @]
             c == CollectOnce(n, "firmware", r, oks["firmware"])
             a == [NoAnswer EXCEPT !.key = r.key, !.updates["firmware"] = c]
  <1>0. /\ Collected("firmware", r) /\ Queried(oks)
        /\ memory' = [memory EXCEPT !["firmware"] = m]
        /\ answer' = [answer EXCEPT !["firmware"] = a]
    OBVIOUS
  <1>1. "firmware" \in Workers /\ r \in Requests /\ r.key \in KeyOrNone
    BY <1>0, CollectedSound DEF Workers
  <1>2. faults' \in 0 .. MaxFaults
    BY <1>0, FS_EmptySet, FS_AddElement, QueriedInRange,
       {"firmware"} = {} \union {"firmware"} DEF IInv, TypeOK
  <1>3. /\ n \in Memory /\ n.key = r.key
        /\ n.pdh = "primed" => n.pdhOf = r.key
    BY <1>1, ResetForgets DEF IInv, TypeOK, PdhOfTheKey
  <1>4. m \in Memory /\ (m.pdh = "primed" => m.pdhOf = m.key)
    <2>1. (IF ToDo(n, "firmware", r.refresh) THEN Done(oks["firmware"]) ELSE n.firmware)
            \in {"todo", "done", "failed"}
      BY <1>3 DEF Done, Memory
    <2> HIDE DEF n
    <2> QED
      BY <1>3, <2>1 DEF Memory
  <1>5. c \in Updates /\ (c.kind = "success" => c.of = r.key)
    BY <1>1, CollectOnceOfTheKey
  <1>6. a \in Answers
        /\ \A s \in Sources : a.updates[s].kind = "success" => a.updates[s].of = a.key
    <2> HIDE DEF c
    <2>1. Unchanged \in Updates /\ Unchanged.kind # "success"
      BY DEF Unchanged, Updates, KeyOrNone
    <2>2. NoAnswer \in Answers /\ \A s \in Sources : NoAnswer.updates[s] = Unchanged
      BY <2>1 DEF NoAnswer, Answers, Primings, KeyOrNone
    <2>3. a \in Answers /\ a.key = r.key
          /\ a.updates = [NoAnswer.updates EXCEPT !["firmware"] = c]
      BY <1>1, <1>5, <2>2 DEF Answers
    <2>4. \A s \in Sources : a.updates[s] = IF s = "firmware" THEN c ELSE Unchanged
      BY <2>2, <2>3 DEF Answers
    <2> HIDE DEF a
    <2> QED
      BY <1>5, <2>1, <2>3, <2>4
  <1> HIDE DEF r, m, a
  <1> QED
    BY <1>0, <1>1, <1>2, <1>4, <1>6, CollectionKeepsIInv

LEMMA CollectorPanicsStep ==
    ASSUME IInv, NEW w \in Workers, CollectorPanics(w)
    PROVE  IInv'
  <1> DEFINE r == worker[w].request
             a == [NoAnswer EXCEPT !.panicked = TRUE]
  <1>1. /\ Collected(w, r)
        /\ memory' = [memory EXCEPT ![w] = NewMemory]
        /\ answer' = [answer EXCEPT ![w] = a]
    BY DEF CollectorPanics
  <1>2. faults' \in 0 .. MaxFaults
    BY CpuPageAssumption DEF CollectorPanics, IInv, TypeOK
  <1>3. NewMemory \in Memory /\ NewMemory.pdh # "primed"
    BY DEF NewMemory, Memory, KeyOrNone
  <1>4. a \in Answers /\ \A s \in Sources : a.updates[s].kind # "success"
    BY DEF NoAnswer, Answers, Primings, Unchanged, Updates, KeyOrNone
  <1> HIDE DEF r, a
  <1> QED
    BY <1>1, <1>2, <1>3, <1>4, CollectionKeepsIInv

-----------------------------------------------------------------------------
(* The page.                                                                *)

LEMMA TimerEventStep ==
    ASSUME IInv, TimerEvent
    PROVE  IInv'
  <1> PICK refresh \in Refreshes : TimerEvent!(refresh)
    BY DEF TimerEvent
  <1> DEFINE asked == {"native"} \union (IF refresh = "user" \/ component["firmware"] = Cleared
                                         THEN {"firmware"} ELSE {})
             g(w) == IF w \in asked THEN Request(worker[w], key, refresh) ELSE worker[w]
  <1>0. TypeOK /\ FlightsSound
    BY DEF IInv
  <1>1. /\ events < MaxEvents /\ events' = events + 1
        /\ worker' = [w \in Workers |-> g(w)]
        /\ owed' = IF refresh = "user" THEN owed \union asked ELSE owed
        /\ UNCHANGED <<faults, memory, answer, key, component, workerError, baseline>>
    BY DEF pageVars
  <1>2. asked \subseteq Workers
    BY DEF Workers
  <1> HIDE DEF asked
  <1>3. \A w \in Workers : /\ Sound(g(w)) /\ (g(w).state = "done" <=> worker[w].state = "done")
                           /\ Keeps(worker[w], key) => Keeps(g(w), key)
                           /\ refresh = "user" /\ w \in asked => Keeps(g(w), key)
    BY <1>0, RequestSound DEF TypeOK, FlightsSound
  <1> HIDE DEF g
  <1>4. \A w \in Workers : worker'[w] = g(w)
    BY <1>1
  <1>5. FlightsSound'
    BY <1>3, <1>4 DEF FlightsSound
  <1>6. worker' \in [Workers -> Flights]
    BY <1>1, <1>3 DEF Sound, GoodFlight
  <1>7. UserRefreshNotLost'
    BY <1>0, <1>1, <1>2, <1>3, <1>4 DEF IInv, TypeOK, UserRefreshNotLost, Keeps
  <1>8. PdhOfTheKey' /\ AnswersOfTheirKey' /\ DetailsOfTheKey'
    BY <1>1 DEF IInv, PdhOfTheKey, AnswersOfTheirKey, DetailsOfTheKey
  <1>9. TypeOK'
    <2>1. events' \in 0 .. MaxEvents
      BY <1>0, <1>1, CpuPageAssumption DEF TypeOK
    <2>2. owed' \subseteq Workers
      BY <1>0, <1>1, <1>2 DEF TypeOK
    <2> QED
      BY <1>0, <1>1, <1>3, <1>4, <1>6, <2>1, <2>2
      DEF TypeOK, Sound, HasDetailValues, HasValue
  <1> QED
    BY <1>5, <1>7, <1>8, <1>9 DEF IInv

LEMMA ApplySampleStep ==
    ASSUME IInv, NEW sampled \in KeyOrNone, NEW age \in 0 .. 2, ApplySample(sampled, age)
    PROVE  IInv'
  <1> DEFINE change == sampled # key
             q(w) == IF change THEN QueuePrewarm(worker[w], sampled) ELSE worker[w]
             f(w) == IF sampled = NoKey THEN q(w) ELSE Flush(q(w), sampled)
             g(w) == IF w = "native" /\ sampled # NoKey
                     THEN InitialDynamic(f(w), sampled, baseline') ELSE f(w)
             p == Pass(answer["native"].primed, age > 1)
  <1>0. TypeOK /\ FlightsSound
    BY DEF IInv
  <1>1. /\ key' = sampled
        /\ change => events < MaxEvents
        /\ events' = IF change THEN events + 1 ELSE events
        /\ baseline' = IF change THEN "none" ELSE Pass(baseline, age > 0)
        /\ answer' = [answer EXCEPT !["native"].primed = p]
        /\ worker' = [w \in Workers |-> g(w)]
        /\ owed' = IF change /\ key # NoKey THEN {} ELSE owed
        /\ UNCHANGED <<faults, memory>>
    BY DEF ApplySample
  <1>2. IF change THEN ClearDetailComponents ELSE UNCHANGED <<component, workerError>>
    BY DEF ApplySample
  <1>3. \A w \in Workers :
           /\ Sound(q(w)) /\ (q(w).state = "done" <=> worker[w].state = "done")
           /\ Keeps(worker[w], key) /\ (change => key = NoKey) => Keeps(q(w), sampled)
    BY <1>0, QueuePrewarmSound DEF TypeOK, FlightsSound
  <1> HIDE DEF q
  <1>4. \A w \in Workers :
           /\ Sound(f(w)) /\ (f(w).state = "done" <=> worker[w].state = "done")
           /\ Keeps(worker[w], key) /\ (change => key = NoKey) => Keeps(f(w), sampled)
    BY <1>3, FlushSound
  <1> HIDE DEF f
  <1>5. \A w \in Workers :
           /\ Sound(g(w)) /\ (g(w).state = "done" <=> worker[w].state = "done")
           /\ Keeps(worker[w], key) /\ (change => key = NoKey) => Keeps(g(w), sampled)
    BY <1>4, InitialDynamicSound
  <1> HIDE DEF g
  <1>6. \A w \in Workers : worker'[w] = g(w)
    BY <1>1
  <1>7. FlightsSound' /\ worker' \in [Workers -> Flights]
    BY <1>1, <1>5, <1>6 DEF FlightsSound, Sound, GoodFlight
  <1>8. UserRefreshNotLost'
    <2> SUFFICES ASSUME NEW w \in owed' PROVE Keeps(worker'[w], sampled)
      BY <1>1 DEF UserRefreshNotLost, Keeps
    <2>1. w \in owed /\ w \in Workers /\ Keeps(worker[w], key) /\ (change => key = NoKey)
      BY <1>0, <1>1 DEF TypeOK, IInv, UserRefreshNotLost, Keeps
    <2> QED
      BY <1>5, <1>6, <2>1
  <1>9. /\ answer' \in [Workers -> Answers]
        /\ \A w \in Workers : answer'[w].key = answer[w].key /\ answer'[w].updates = answer[w].updates
        /\ \A w \in Workers : answer[w] = NoAnswer => answer'[w] = NoAnswer
    <2>1. "native" \in Workers /\ answer["native"] \in Answers
      BY <1>0 DEF TypeOK, Workers
    <2>2. p \in Primings /\ (answer["native"] = NoAnswer => p = "none")
      BY <2>1 DEF Answers, Primings, Pass, NoAnswer
    <2> DEFINE a == [answer["native"] EXCEPT !.primed = p]
    <2>3. answer' = [answer EXCEPT !["native"] = a]
      BY <1>1
    <2> HIDE DEF p
    <2>4. a \in Answers /\ a.key = answer["native"].key /\ a.updates = answer["native"].updates
      BY <2>1, <2>2 DEF Answers
    <2>5. ASSUME answer["native"] = NoAnswer PROVE a = NoAnswer
      <3>1. a = [NoAnswer EXCEPT !.primed = "none"]
        BY <2>2, <2>5
      <3>2. NoAnswer.primed = "none"
        BY DEF NoAnswer
      <3>3. NoAnswer \in Answers
        BY <2>1, <2>5
      <3>4. [NoAnswer EXCEPT !.primed = "none"] = NoAnswer
        BY <3>2, <3>3 DEF Answers
      <3> QED
        BY <3>1, <3>4
    <2> HIDE DEF a
    <2> QED
      BY <1>0, <2>1, <2>3, <2>4, <2>5 DEF TypeOK
  <1>10. PdhOfTheKey' /\ AnswersOfTheirKey'
    BY <1>1, <1>9 DEF IInv, PdhOfTheKey, AnswersOfTheirKey
  <1>11. /\ component' \in [Sources -> Components] /\ workerError' \in [Workers -> BOOLEAN]
         /\ DetailsOfTheKey' /\ (key' = NoKey => ~HasDetailValues')
    <2>1. CASE change
      <3>1. /\ component' = [s \in Sources |-> Cleared]
            /\ workerError' = [w \in Workers |-> FALSE]
        BY <1>2, <2>1 DEF ClearDetailComponents
      <3>2. Cleared \in Components /\ Cleared.value = NoKey
        BY DEF Cleared, Components, KeyOrNone
      <3>3. \A s \in Sources : component'[s].value = NoKey
        BY <3>1, <3>2
      <3> QED
        BY <3>1, <3>2, <3>3 DEF DetailsOfTheKey, HasDetailValues, HasValue
    <2>2. CASE ~change
      BY <1>0, <1>1, <1>2, <2>2 DEF IInv, TypeOK, DetailsOfTheKey, HasDetailValues, HasValue
    <2> QED
      BY <2>1, <2>2
  <1>12. /\ events' \in 0 .. MaxEvents /\ faults' \in 0 .. MaxFaults
         /\ baseline' \in Primings /\ memory' \in [Workers -> Memory] /\ owed' \subseteq Workers
    BY <1>0, <1>1, CpuPageAssumption DEF TypeOK, Primings, Pass
  <1>13. TypeOK'
    BY <1>0, <1>1, <1>5, <1>6, <1>7, <1>9, <1>11, <1>12 DEF TypeOK, Sound
  <1> QED
    BY <1>7, <1>8, <1>10, <1>11, <1>13 DEF IInv

\* An answer of the page's topology brings details of it, and takes none away.
LEMMA ApplyOfTheKey ==
    ASSUME NEW c \in Components, NEW u \in Updates, NEW k \in KeyOrNone,
           c.value \in {NoKey, k}, u.kind = "success" => u.of = k
    PROVE  /\ Apply(c, u) \in Components
           /\ Apply(c, u).value \in {NoKey, k}
           /\ c.value # NoKey => Apply(c, u).value # NoKey
  BY DEF Apply, Components, Updates

LEMMA CommitSound ==
    ASSUME IInv, NEW w \in Workers, Commit(w), key' = key
    PROVE  /\ component' \in [Sources -> Components] /\ workerError' \in [Workers -> BOOLEAN]
           /\ baseline' \in Primings
           /\ DetailsOfTheKey' /\ (key' = NoKey => ~HasDetailValues')
           /\ \A s \in Sources : HasValue(s) => component'[s].value # NoKey
  <1> DEFINE a == answer[w]
             mine == Current(a)
  <1>0. TypeOK /\ key \in KeyOrNone /\ a \in Answers /\ a.panicked \in BOOLEAN
    BY DEF IInv, TypeOK, Answers
  <1>1. /\ component' = [s \in Sources |->
                            IF mine THEN Apply(component[s], a.updates[s]) ELSE component[s]]
        /\ workerError' = [workerError EXCEPT ![w] = IF mine THEN FALSE ELSE @ \/ a.panicked]
        /\ baseline' = IF mine /\ (a.primed # "none" \/ a.updates["dynamic"] # Unchanged)
                       THEN a.primed ELSE baseline
    BY DEF Commit
  <1>2. \A s \in Sources : /\ component[s] \in Components /\ component[s].value \in {NoKey, key}
                           /\ a.updates[s] \in Updates
                           /\ mine /\ a.updates[s].kind = "success" => a.updates[s].of = key
    BY <1>0 DEF IInv, TypeOK, DetailsOfTheKey, AnswersOfTheirKey, Current, Answers
  <1>3. baseline' \in Primings
    BY <1>0, <1>1 DEF TypeOK, Answers
  <1>4. workerError' \in [Workers -> BOOLEAN]
    <2>1. (IF mine THEN FALSE ELSE workerError[w] \/ a.panicked) \in BOOLEAN
      OBVIOUS
    <2> QED
      BY <1>0, <1>1, <2>1 DEF TypeOK
  <1> HIDE DEF a, mine
  <1>5. \A s \in Sources : /\ component'[s] \in Components /\ component'[s].value \in {NoKey, key}
                           /\ component[s].value # NoKey => component'[s].value # NoKey
    BY <1>0, <1>1, <1>2, ApplyOfTheKey
  <1>6. component' \in [Sources -> Components]
    BY <1>1, <1>5
  <1>7. DetailsOfTheKey' /\ (key' = NoKey => ~HasDetailValues')
    BY <1>5 DEF DetailsOfTheKey, HasDetailValues, HasValue
  <1> QED
    BY <1>3, <1>4, <1>5, <1>6, <1>7 DEF HasValue

LEMMA CompletionStep ==
    ASSUME IInv, NEW w \in Workers, Completion(w)
    PROVE  IInv'
  <1> DEFINE s == Drained(worker[w])
             g == IF s.state = "idle" /\ s.queued # "none" THEN Flush(s, key)
                  ELSE IF w = "native" THEN InitialDynamic(s, key, baseline') ELSE s
  <1>0. TypeOK /\ FlightsSound /\ key \in KeyOrNone
    BY DEF IInv, TypeOK
  <1>1. /\ worker[w].state = "done" /\ Commit(w)
        /\ worker' = [worker EXCEPT ![w] = g]
        /\ answer' = [answer EXCEPT ![w] = NoAnswer]
        /\ UNCHANGED <<events, faults, memory, key, owed>>
    BY DEF Completion
  <1>2. Sound(s) /\ s.state # "done" /\ (Keeps(worker[w], key) => Keeps(s, key))
    BY <1>0, <1>1, DrainedSound DEF FlightsSound
  <1> HIDE DEF s
  <1>3. Sound(g) /\ g.state # "done" /\ (Keeps(worker[w], key) => Keeps(g, key))
    BY <1>0, <1>2, FlushSound, InitialDynamicSound
  <1> HIDE DEF g
  <1>4. \A v \in Workers : worker'[v] = IF v = w THEN g ELSE worker[v]
    BY <1>0, <1>1 DEF TypeOK
  <1>5. FlightsSound' /\ worker' \in [Workers -> Flights]
    BY <1>0, <1>1, <1>3, <1>4 DEF FlightsSound, TypeOK, Sound, GoodFlight
  <1>6. UserRefreshNotLost'
    BY <1>0, <1>1, <1>3, <1>4 DEF IInv, TypeOK, UserRefreshNotLost, Keeps
  <1>7. NoAnswer \in Answers /\ \A t \in Sources : NoAnswer.updates[t].kind # "success"
    BY DEF NoAnswer, Answers, Primings, Unchanged, Updates, KeyOrNone
  <1>8. \A v \in Workers : answer'[v] = IF v = w THEN NoAnswer ELSE answer[v]
    BY <1>0, <1>1 DEF TypeOK
  <1>9. answer' \in [Workers -> Answers] /\ AnswersOfTheirKey'
    BY <1>0, <1>1, <1>7, <1>8 DEF TypeOK, IInv, AnswersOfTheirKey
  <1>10. PdhOfTheKey'
    BY <1>1 DEF IInv, PdhOfTheKey
  <1>11. TypeOK'
    BY <1>0, <1>1, <1>3, <1>4, <1>5, <1>8, <1>9, CommitSound DEF TypeOK, Sound
  <1> QED
    BY <1>1, <1>5, <1>6, <1>9, <1>10, <1>11, CommitSound DEF IInv

-----------------------------------------------------------------------------
(* Rest.                                                                    *)

\* What a flight without a queued refresh is about: topology k, and nothing but.
About(f, k) ==
    f.queued = "none" =>
      /\ f.state = "busy" => f.request.key = k
      /\ f.pending # NoRequest => f.pending.key = k

\* What is done for topology k once worker w has collected for it.
Remembers(w, k) == memory[w].key = k /\ \A s \in CollectedOnce(w) : memory[w][s] # "todo"

\* An answer is of the topology that its collector remembers; with a topology
\* known, a worker without a queued refresh works for that topology alone, one
\* at rest has none queued, and what the page does not show then failed, or is
\* taken for done.
RestInv ==
    \A w \in Workers :
      /\ worker[w].state = "done" /\ ~answer[w].panicked => Remembers(w, answer[w].key)
      /\ key # NoKey =>
           /\ About(worker[w], key)
           /\ worker[w].queued = "none" /\ worker[w].state = "done" /\ ~answer[w].panicked
                => answer[w].key = key
           /\ worker[w].state = "idle" =>
                /\ worker[w].queued = "none"
                /\ \A s \in CollectedOnce(w) : component[s] = Cleared =>
                     workerError[w] \/ (memory[w].key = key /\ memory[w][s] # "todo")

\* A request for a known topology.
LEMMA RequestAbout ==
    ASSUME NEW f, Sound(f), NEW k \in Keys, NEW refresh \in Refreshes, About(f, k)
    PROVE  LET g == Request(f, k, refresh)
           IN  /\ About(g, k) /\ g.state # "idle" /\ g.queued = f.queued
               /\ g.state = "done" <=> f.state = "done"
  <1> DEFINE r == [key |-> k, refresh |-> refresh]
             g == Request(f, k, refresh)
  <1>0. f \in Flights /\ k # NoKey /\ r \in Requests /\ r.key = k /\ r # NoRequest
        /\ (f.state = "idle" => f.pending = NoRequest)
    BY CpuPageAssumption DEF Sound, GoodFlight, Requests, KeyOrNone, NoRequest
  <1>1. CASE f.state = "idle"
    <2>1. g = [f EXCEPT !.state = "busy", !.request = r]
      BY <1>0, <1>1 DEF Request
    <2>2. g.state = "busy" /\ g.request = r /\ g.pending = f.pending /\ g.queued = f.queued
      BY <1>0, <2>1 DEF Flights
    <2> HIDE DEF g, r
    <2> QED
      BY <1>0, <1>1, <2>2 DEF About, g
  <1>2. CASE f.state # "idle"
    <2> DEFINE p == MergeRequests(f.pending, r)
    <2>1. g = [f EXCEPT !.pending = p]
      BY <1>0, <1>2 DEF Request
    <2>2. p.key = k
      BY <1>0 DEF MergeRequests, Flights, Requests
    <2>3. g.state = f.state /\ g.request = f.request /\ g.pending = p /\ g.queued = f.queued
      BY <1>0, <2>1 DEF Flights
    <2> HIDE DEF g, r, p
    <2> QED
      BY <1>0, <1>2, <2>2, <2>3 DEF About, g
  <1> QED
    BY <1>1, <1>2

\* A queue is flushed: what is at rest then was, and had nothing queued.
LEMMA FlushAbout ==
    ASSUME NEW f, Sound(f), NEW k \in Keys, f.state = "idle" \/ About(f, k)
    PROVE  LET g == Flush(f, k)
           IN  /\ About(g, k)
               /\ g.state = "idle" => g = f /\ f.queued = "none"
               /\ g.state = "done" => g = f
  <1> DEFINE h == [f EXCEPT !.queued = "none"]
  <1>0. f \in Flights /\ (f.state = "idle" => f.pending = NoRequest)
    BY DEF Sound, GoodFlight
  <1>1. CASE f.state = "idle" /\ f.queued # "none"
    <2>1. Flush(f, k) = Request(h, k, f.queued)
      BY <1>1 DEF Flush
    <2>2. /\ h \in Flights /\ f.queued \in Refreshes
          /\ h.state = f.state /\ h.request = f.request /\ h.pending = f.pending
      BY <1>0, <1>1 DEF Flights
    <2>3. Sound(h) /\ About(h, k)
      BY <1>0, <1>1, <2>2 DEF Sound, GoodFlight, KnownTopology, About
    <2> HIDE DEF h
    <2> QED
      BY <1>1, <2>1, <2>2, <2>3, RequestAbout
  <1>2. CASE ~(f.state = "idle" /\ f.queued # "none")
    <2>1. Flush(f, k) = f
      BY <1>2 DEF Flush
    <2>2. About(f, k)
      BY <1>0, <1>2 DEF About
    <2> QED
      BY <1>2, <2>1, <2>2
  <1> QED
    BY <1>1, <1>2

LEMMA InitialDynamicAbout ==
    ASSUME NEW f, Sound(f), NEW k \in Keys, NEW b, About(f, k)
    PROVE  LET g == InitialDynamic(f, k, b)
           IN  /\ About(g, k)
               /\ g.state = "idle" => g = f
               /\ g.state = "done" => g = f
  <1>1. "periodic" \in Refreshes
    BY DEF Refreshes
  <1>2. CASE b = "passed" /\ f.state = "idle"
    BY <1>1, <1>2, RequestAbout DEF InitialDynamic
  <1>3. CASE ~(b = "passed" /\ f.state = "idle")
    BY <1>3 DEF InitialDynamic
  <1> QED
    BY <1>2, <1>3

\* A new topology is queued for both workers.
LEMMA QueuePrewarmAbout ==
    ASSUME NEW f, Sound(f), NEW k \in Keys
    PROVE  QueuePrewarm(f, k).queued # "none" /\ About(QueuePrewarm(f, k), k)
  <1>1. f \in Flights /\ k # NoKey /\ "none" \notin Refreshes /\ "prewarm" \in Refreshes
    BY CpuPageAssumption DEF Sound, GoodFlight, Refreshes
  <1>2. Stronger(f.queued, "prewarm") \in Refreshes
    BY <1>1, StrongerUser DEF Flights
  <1>3. QueuePrewarm(f, k).queued = Stronger(f.queued, "prewarm")
    BY <1>1 DEF QueuePrewarm, Flights
  <1> QED
    BY <1>1, <1>2, <1>3 DEF About

LEMMA DrainedAbout ==
    ASSUME NEW f, Sound(f), f.state = "done", NEW k, About(f, k)
    PROVE  About(Drained(f), k) /\ Drained(f).queued = f.queued
  <1>0. f \in Flights
    BY DEF Sound, GoodFlight
  <1>1. CASE f.pending = NoRequest
    <2>1. /\ Drained(f).queued = f.queued
          /\ Drained(f).state = "idle" /\ Drained(f).pending = NoRequest
      BY <1>0, <1>1 DEF Drained, Flights
    <2> QED
      BY <2>1 DEF About
  <1>2. CASE f.pending # NoRequest
    <2>1. /\ Drained(f).queued = f.queued
          /\ Drained(f).request = f.pending /\ Drained(f).pending = NoRequest
      BY <1>0, <1>2 DEF Drained, Flights
    <2> QED
      BY <1>2, <2>1 DEF About
  <1> QED
    BY <1>1, <1>2

-----------------------------------------------------------------------------
\* A collection leaves the invariant if its collector remembers the topology it
\* answers for, or has panicked.
LEMMA CollectedRests ==
    ASSUME IInv, RestInv, NEW w \in Workers, NEW r, Collected(w, r),
           \A v \in Workers \ {w} : memory'[v] = memory[v] /\ answer'[v] = answer[v],
           ~answer'[w].panicked =>
             /\ answer'[w].key = r.key /\ memory'[w].key = r.key
             /\ \A s \in CollectedOnce(w) : memory'[w][s] # "todo"
    PROVE  RestInv'
  <1> DEFINE f == worker[w]
             g == [f EXCEPT !.state = "done", !.request = NoRequest]
  <1>0. worker \in [Workers -> Flights] /\ f \in Flights
    BY DEF IInv, TypeOK
  <1>1. /\ f.state = "busy" /\ r = f.request
        /\ worker' = [worker EXCEPT ![w] = g]
        /\ UNCHANGED <<key, component, workerError>>
    BY DEF Collected, pageVars
  <1>2. g.state = "done" /\ g.queued = f.queued /\ g.pending = f.pending
    BY <1>0 DEF Flights
  <1> HIDE DEF g
  <1>3. worker'[w] = g /\ \A v \in Workers \ {w} : worker'[v] = worker[v]
    BY <1>0, <1>1
  <1>4. key # NoKey => About(g, key) /\ (f.queued = "none" => r.key = key)
    BY <1>1, <1>2 DEF RestInv, About
  <1> SUFFICES ASSUME NEW v \in Workers
               PROVE  RestInv!(v)'
    BY Zenon DEF RestInv
  <1>5. CASE v = w
    BY <1>1, <1>2, <1>3, <1>4, <1>5 DEF Remembers
  <1>6. CASE v # w
    <2>1. worker'[v] = worker[v] /\ memory'[v] = memory[v] /\ answer'[v] = answer[v]
      BY SMTT(60), <1>3, <1>6
    <2> QED
      BY SMTT(60), <1>1, <2>1 DEF RestInv, About, Remembers
  <1> QED
    BY <1>5, <1>6

LEMMA CollectNativeRests ==
    ASSUME IInv, RestInv, CollectNative
    PROVE  RestInv'
  <1> PICK oks \in [{"topology", "dynamic"} -> BOOLEAN] : CollectNative!(oks)
    BY DEF CollectNative
  <1> DEFINE r == worker["native"].request
             n == ResetForTopology(memory["native"], r.key)
             before == PdhBefore(n, r)
             of == IF before = "none" THEN r.key ELSE n.pdhOf
             tried == IF ToDo(n, "topology", r.refresh) THEN Done(oks["topology"])
                                                        ELSE n.topology
             m == [n EXCEPT !.topology = tried, !.features = "done",
                            !.pdh = PdhAfter(before, oks["dynamic"]), !.pdhOf = of]
             p == IF before \in {"none", "open"} /\ oks["dynamic"] THEN "ahead" ELSE "none"
             u == [s \in Sources |->
                      CASE s = "topology" -> CollectOnce(n, s, r, oks["topology"])
                        [] s = "features" -> CollectOnce(n, s, r, TRUE)
                        [] s = "dynamic" -> CollectDynamic(before, of, oks["dynamic"])
                        [] OTHER -> Unchanged]
             a == [panicked |-> FALSE, key |-> r.key, primed |-> p, updates |-> u]
  <1>0. /\ Collected("native", r)
        /\ memory' = [memory EXCEPT !["native"] = m]
        /\ answer' = [answer EXCEPT !["native"] = a]
    OBVIOUS
  <1>1. "native" \in Workers /\ "native" # "firmware"
    BY DEF Workers
  <1>2. n \in Memory /\ n.key = r.key
    BY <1>0, <1>1, ResetForgets, CollectedSound DEF IInv, TypeOK, PdhOfTheKey
  <1> HIDE DEF n, r
  <1>3. tried # "todo"
    BY DEF ToDo, Done
  <1>4. m.key = r.key /\ m.topology # "todo" /\ m.features # "todo"
    <2> HIDE DEF tried, before, of
    <2> QED BY <1>2, <1>3 DEF Memory
  <1>5. ~a.panicked /\ a.key = r.key
    <2> HIDE DEF u, p
    <2> QED OBVIOUS
  <1> HIDE DEF m, a
  <1>6. \A v \in Workers \ {"native"} : memory'[v] = memory[v] /\ answer'[v] = answer[v]
    BY <1>0 DEF IInv, TypeOK
  <1>7. memory'["native"] = m /\ answer'["native"] = a
    BY <1>0, <1>1 DEF IInv, TypeOK
  <1>8. CollectedOnce("native") = {"topology", "features"}
    BY DEF CollectedOnce, SourcesOf, NativeSources
  <1>9. memory'["native"].key = r.key
        /\ \A s \in CollectedOnce("native") : memory'["native"][s] # "todo"
    BY <1>4, <1>7, <1>8
  <1> QED
    BY <1>0, <1>1, <1>5, <1>6, <1>7, <1>9, CollectedRests

LEMMA CollectFirmwareRests ==
    ASSUME IInv, RestInv, CollectFirmware
    PROVE  RestInv'
  <1> PICK oks \in [{"firmware"} -> BOOLEAN] : CollectFirmware!(oks)
    BY DEF CollectFirmware
  <1> DEFINE r == worker["firmware"].request
             n == ResetForTopology(memory["firmware"], r.key)
             tried == IF ToDo(n, "firmware", r.refresh) THEN Done(oks["firmware"])
                                                        ELSE n.firmware
             m == [n EXCEPT !.firmware = tried]
             c == CollectOnce(n, "firmware", r, oks["firmware"])
             a == [NoAnswer EXCEPT !.key = r.key, !.updates["firmware"] = c]
  <1>0. /\ Collected("firmware", r)
        /\ memory' = [memory EXCEPT !["firmware"] = m]
        /\ answer' = [answer EXCEPT !["firmware"] = a]
    OBVIOUS
  <1>1. "firmware" \in Workers
    BY DEF Workers
  <1>2. n \in Memory /\ n.key = r.key
    BY <1>0, <1>1, ResetForgets, CollectedSound DEF IInv, TypeOK, PdhOfTheKey
  <1> HIDE DEF n, r
  <1>3. tried # "todo"
    BY DEF ToDo, Done
  <1>4. m.key = r.key /\ m.firmware # "todo"
    <2> HIDE DEF tried
    <2> QED BY <1>2, <1>3 DEF Memory
  <1>5. ~a.panicked /\ a.key = r.key
    <2> HIDE DEF c
    <2> QED BY DEF NoAnswer
  <1> HIDE DEF m, a
  <1>6. \A v \in Workers \ {"firmware"} : memory'[v] = memory[v] /\ answer'[v] = answer[v]
    BY <1>0 DEF IInv, TypeOK
  <1>7. memory'["firmware"] = m /\ answer'["firmware"] = a
    BY <1>0, <1>1 DEF IInv, TypeOK
  <1>8. CollectedOnce("firmware") = {"firmware"}
    BY DEF CollectedOnce, SourcesOf
  <1>9. memory'["firmware"].key = r.key
        /\ \A s \in CollectedOnce("firmware") : memory'["firmware"][s] # "todo"
    BY <1>4, <1>7, <1>8
  <1> QED
    BY <1>0, <1>1, <1>5, <1>6, <1>7, <1>9, CollectedRests

LEMMA CollectorPanicsRests ==
    ASSUME IInv, RestInv, NEW w \in Workers, CollectorPanics(w)
    PROVE  RestInv'
  <1>1. /\ Collected(w, worker[w].request)
        /\ memory' = [memory EXCEPT ![w] = NewMemory]
        /\ answer' = [answer EXCEPT ![w] = [NoAnswer EXCEPT !.panicked = TRUE]]
    BY DEF CollectorPanics
  <1>2. \A v \in Workers \ {w} : memory'[v] = memory[v] /\ answer'[v] = answer[v]
    BY <1>1 DEF IInv, TypeOK
  <1>3. answer'[w].panicked
    BY <1>1 DEF IInv, TypeOK, NoAnswer
  <1> QED
    BY <1>1, <1>2, <1>3, CollectedRests

\* A refresh is asked for.
LEMMA TimerEventRests ==
    ASSUME IInv, RestInv, TimerEvent
    PROVE  RestInv'
  <1> PICK refresh \in Refreshes : TimerEvent!(refresh)
    BY DEF TimerEvent
  <1>1. /\ \A w \in Workers : worker'[w] \in {worker[w], Request(worker[w], key, refresh)}
        /\ UNCHANGED <<memory, answer, key, component, workerError>>
    BY DEF pageVars
  <1> SUFFICES ASSUME NEW w \in Workers
               PROVE  RestInv!(w)'
    BY Zenon DEF RestInv
  <1>2. Sound(worker[w]) /\ key \in KeyOrNone
    BY DEF IInv, TypeOK, FlightsSound
  <1>3. CASE worker'[w] = worker[w]
    BY <1>1, <1>3 DEF RestInv, Remembers, About
  <1>4. CASE worker'[w] = Request(worker[w], key, refresh) /\ key = NoKey
    <2>1. worker'[w].state = "done" => worker[w].state = "done"
      BY <1>2, <1>4, RequestSound
    <2> QED BY <1>1, <1>4, <2>1 DEF RestInv, Remembers
  <1>5. CASE worker'[w] = Request(worker[w], key, refresh) /\ key # NoKey
    <2>1. /\ About(worker'[w], key) /\ worker'[w].state # "idle"
          /\ worker'[w].queued = worker[w].queued
          /\ worker'[w].state = "done" => worker[w].state = "done"
      <3>1. key \in Keys /\ About(worker[w], key)
        BY <1>2, <1>5 DEF RestInv, KeyOrNone
      <3> QED BY <1>2, <1>5, <3>1, RequestAbout
    <2> QED BY <1>1, <1>5, <2>1 DEF RestInv, Remembers
  <1> QED
    BY <1>1, <1>3, <1>4, <1>5

\* A sample tells the topology.
LEMMA ApplySampleRests ==
    ASSUME IInv, RestInv, NEW sampled \in KeyOrNone, NEW age \in 0 .. 2, ApplySample(sampled, age)
    PROVE  RestInv'
  <1> DEFINE change == sampled # key
             q(w) == IF change THEN QueuePrewarm(worker[w], sampled) ELSE worker[w]
             f(w) == IF sampled = NoKey THEN q(w) ELSE Flush(q(w), sampled)
             g(w) == IF w = "native" /\ sampled # NoKey
                     THEN InitialDynamic(f(w), sampled, baseline') ELSE f(w)
             p == Pass(answer["native"].primed, age > 1)
  <1>1. /\ key' = sampled
        /\ answer' = [answer EXCEPT !["native"].primed = p]
        /\ worker' = [w \in Workers |-> g(w)]
        /\ memory' = memory
    BY DEF ApplySample
  <1>2. ~change => UNCHANGED <<component, workerError>>
    BY DEF ApplySample
  <1>3. \A w \in Workers : answer'[w].key = answer[w].key /\ answer'[w].panicked = answer[w].panicked
    <2> HIDE DEF p
    <2> QED BY <1>1 DEF IInv, TypeOK, Answers
  <1> SUFFICES ASSUME NEW w \in Workers
               PROVE  RestInv!(w)'
    BY Zenon DEF RestInv
  <1>4. Sound(worker[w]) /\ key \in KeyOrNone /\ worker'[w] = g(w)
    BY <1>1 DEF IInv, TypeOK, FlightsSound
  <1>5. Sound(q(w)) /\ q(w).state = worker[w].state
    BY <1>4, QueuePrewarmSound
  <1>6. CASE sampled = NoKey
    <2>1. worker'[w].state = worker[w].state
      BY <1>4, <1>5, <1>6
    <2> HIDE DEF q, g
    <2> QED BY <1>1, <1>3, <1>6, <2>1 DEF RestInv, Remembers
  <1>7. CASE sampled # NoKey
    <2>0. sampled \in Keys
      BY <1>7 DEF KeyOrNone
    <2>1. About(q(w), sampled) /\ (change => q(w).queued # "none")
      <3>1. CASE change
        BY <1>4, <2>0, <3>1, QueuePrewarmAbout
      <3>2. CASE ~change
        BY <1>7, <3>2 DEF RestInv
      <3> QED BY <3>1, <3>2
    <2>2. ~change => q(w) = worker[w]
      OBVIOUS
    <2> HIDE DEF q
    <2>3. /\ Sound(f(w)) /\ About(f(w), sampled)
          /\ f(w).state = "idle" => f(w) = q(w) /\ q(w).queued = "none"
          /\ f(w).state = "done" => f(w) = q(w)
      BY <1>5, <1>7, <2>0, <2>1, FlushAbout, FlushSound
    <2> HIDE DEF f
    <2>4. /\ About(g(w), sampled)
          /\ g(w).state = "idle" => g(w) = f(w)
          /\ g(w).state = "done" => g(w) = f(w)
      BY <2>0, <2>3, InitialDynamicAbout
    <2> HIDE DEF g
    <2>5. worker'[w].state \in {"idle", "done"} => worker'[w] = q(w)
      BY <1>4, <2>3, <2>4
    <2>6. worker'[w].state = "idle" => q(w).queued = "none" /\ ~change /\ worker'[w] = worker[w]
      BY <1>4, <2>1, <2>2, <2>3, <2>4
    <2>7. worker'[w].state = "done" /\ worker'[w].queued = "none" => ~change /\ worker'[w] = worker[w]
      BY <2>1, <2>2, <2>5
    <2>8. worker'[w].state = "done" => worker[w].state = "done"
      BY <1>5, <2>5
    <2>9. worker'[w].state = "done" /\ ~answer'[w].panicked => Remembers(w, answer[w].key)'
      BY <1>1, <1>3, <2>8 DEF RestInv, Remembers
    <2>10. worker'[w].queued = "none" /\ worker'[w].state = "done" /\ ~answer'[w].panicked
             => answer'[w].key = key'
      BY <1>1, <1>3, <1>7, <2>7 DEF RestInv
    <2>11. worker'[w].state = "idle" =>
             /\ worker'[w].queued = "none"
             /\ \A s \in CollectedOnce(w) : component'[s] = Cleared =>
                  workerError'[w] \/ (memory'[w].key = key' /\ memory'[w][s] # "todo")
      BY <1>1, <1>2, <1>7, <2>6 DEF RestInv
    <2>12. About(worker'[w], key')
      BY <1>1, <1>4, <2>4
    <2> QED
      BY <2>9, <2>10, <2>11, <2>12
  <1> QED
    BY <1>6, <1>7

\* What an answer of the page's topology is applied to is not cleared.
LEMMA AppliedIsShown ==
    ASSUME NEW c \in Components, NEW u \in Updates, NEW k \in Keys,
           u.kind = "success" => u.of = k, Apply(c, u) = Cleared
    PROVE  c = Cleared
  <1>1. k # NoKey
    BY CpuPageAssumption
  <1>2. u.kind = "success" => Apply(c, u).value = k
    BY DEF Apply
  <1>3. u.kind = "failed" => Apply(c, u).error
    BY DEF Apply, Components
  <1>4. u.kind = "unchanged" => Apply(c, u) = c
    BY DEF Apply
  <1>5. u.kind \in {"unchanged", "success", "failed"} /\ Cleared.value = NoKey /\ Cleared.error = FALSE
    BY DEF Updates, Cleared
  <1> QED
    BY <1>1, <1>2, <1>3, <1>4, <1>5

\* An answer is committed: it brings what its collector remembers.
LEMMA CompletionRests ==
    ASSUME IInv, RestInv, NEW w \in Workers, Completion(w)
    PROVE  RestInv'
  <1> DEFINE a == answer[w]
             mine == Current(a)
             d == Drained(worker[w])
             g == IF d.state = "idle" /\ d.queued # "none" THEN Flush(d, key)
                  ELSE IF w = "native" THEN InitialDynamic(d, key, baseline') ELSE d
  <1>1. /\ worker[w].state = "done"
        /\ worker' = [worker EXCEPT ![w] = g]
        /\ answer' = [answer EXCEPT ![w] = NoAnswer]
        /\ component' = [s \in Sources |->
                            IF mine THEN Apply(component[s], a.updates[s]) ELSE component[s]]
        /\ workerError' = [workerError EXCEPT ![w] = IF mine THEN FALSE ELSE @ \/ a.panicked]
        /\ UNCHANGED <<memory, key>>
    BY DEF Completion, Commit
  <1>2. /\ Sound(worker[w]) /\ key \in KeyOrNone /\ a \in Answers
        /\ worker \in [Workers -> Flights] /\ answer \in [Workers -> Answers]
        /\ workerError \in [Workers -> BOOLEAN] /\ component \in [Sources -> Components]
    BY DEF IInv, TypeOK, FlightsSound
  <1>3. mine <=> ~a.panicked /\ a.key = key
    BY DEF Current
  <1>4. a.panicked \in BOOLEAN /\ \A s \in Sources : a.updates[s] \in Updates
    BY <1>2 DEF Answers
  <1>5. \A s \in Sources : a.updates[s].kind = "success" => a.updates[s].of = a.key
    BY DEF IInv, AnswersOfTheirKey
  <1>6. Sound(d) /\ d.state # "done"
    BY <1>1, <1>2, DrainedSound
  <1>7. key # NoKey => About(d, key) /\ d.queued = worker[w].queued
    BY <1>1, <1>2, DrainedAbout DEF RestInv
  <1> HIDE DEF a, mine, d
  <1>8. key # NoKey => \A s \in Sources : component'[s] = Cleared => component[s] = Cleared
    <2> SUFFICES ASSUME key # NoKey, NEW s \in Sources, component'[s] = Cleared
                 PROVE  component[s] = Cleared
      OBVIOUS
    <2>1. CASE ~mine
      BY <1>1, <2>1
    <2>2. CASE mine
      <3>1. /\ component[s] \in Components /\ a.updates[s] \in Updates /\ key \in Keys
            /\ a.updates[s].kind = "success" => a.updates[s].of = key
        BY <1>2, <1>3, <1>4, <1>5, <2>2 DEF KeyOrNone
      <3>2. Apply(component[s], a.updates[s]) = Cleared
        BY <1>1, <2>2
      <3> QED BY <3>1, <3>2, AppliedIsShown
    <2> QED BY <2>1, <2>2
  <1>9. g.state # "done"
    BY <1>2, <1>6, FlushSound, InitialDynamicSound
  <1>10. key # NoKey => About(g, key) /\ (g.state = "idle" => g = d /\ d.queued = "none")
    <2> SUFFICES ASSUME key # NoKey PROVE About(g, key) /\ (g.state = "idle" => g = d /\ d.queued = "none")
      OBVIOUS
    <2>1. key \in Keys /\ About(d, key)
      BY <1>2, <1>7 DEF KeyOrNone
    <2>2. CASE d.state = "idle" /\ d.queued # "none"
      BY <1>6, <2>1, <2>2, FlushAbout
    <2>3. CASE ~(d.state = "idle" /\ d.queued # "none")
      BY <1>6, <2>1, <2>3, InitialDynamicAbout
    <2> QED BY <2>2, <2>3
  <1> HIDE DEF g
  <1>11. /\ worker'[w] = g
         /\ workerError'[w] = IF mine THEN FALSE ELSE workerError[w] \/ a.panicked
         /\ \A v \in Workers \ {w} : /\ worker'[v] = worker[v] /\ answer'[v] = answer[v]
                                     /\ workerError'[v] = workerError[v]
    BY <1>1, <1>2
  <1> SUFFICES ASSUME NEW v \in Workers
               PROVE  RestInv!(v)'
    BY Zenon DEF RestInv
  <1>12. CollectedOnce(v) \subseteq Sources
    BY DEF CollectedOnce, SourcesOf, Sources
  <1>13. CASE v = w
    <2>1. ASSUME key # NoKey, g.state = "idle", NEW s \in CollectedOnce(w)
          PROVE  workerError'[w] \/ (memory[w].key = key /\ memory[w][s] # "todo")
      <3>1. worker[w].queued = "none"
        BY <1>7, <1>10, <2>1
      <3>2. a.panicked \/ (a.key = key /\ Remembers(w, a.key))
        BY <1>1, <2>1, <3>1 DEF RestInv, a
      <3> QED BY <1>3, <1>4, <1>11, <2>1, <3>2 DEF Remembers
    <2> QED
      BY <1>1, <1>7, <1>9, <1>10, <1>11, <1>13, <2>1
  <1>14. CASE v # w
    BY <1>1, <1>8, <1>11, <1>12, <1>14 DEF RestInv, About, Remembers
  <1> QED
    BY <1>13, <1>14

LEMMA InitRests == Init => RestInv
  <1> SUFFICES ASSUME Init PROVE RestInv
    OBVIOUS
  <1>1. \A w \in Workers : worker[w].state = "idle"
    BY DEF Init
  <1> QED
    BY <1>1 DEF Init, RestInv

LEMMA NextRests == IInv /\ RestInv /\ [Next]_vars => RestInv'
  <1> SUFFICES ASSUME IInv, RestInv, [Next]_vars PROVE RestInv'
    OBVIOUS
  <1>1. CASE TimerEvent
    BY <1>1, TimerEventRests
  <1>2. CASE \E sampled \in KeyOrNone, age \in 0 .. 2 : ApplySample(sampled, age)
    BY <1>2, ApplySampleRests
  <1>3. CASE CollectNative
    BY <1>3, CollectNativeRests
  <1>4. CASE CollectFirmware
    BY <1>4, CollectFirmwareRests
  <1>5. CASE \E w \in Workers : CollectorPanics(w)
    BY <1>5, CollectorPanicsRests
  <1>6. CASE \E w \in Workers : Completion(w)
    BY <1>6, CompletionRests
  <1>7. CASE UNCHANGED vars
    BY <1>7 DEF vars, pageVars, RestInv, About, Remembers
  <1> QED
    BY <1>1, <1>2, <1>3, <1>4, <1>5, <1>6, <1>7 DEF Next

-----------------------------------------------------------------------------
(* The theorems.                                                            *)

LEMMA InitIInv == Init => IInv
  <1> SUFFICES ASSUME Init PROVE IInv
    OBVIOUS
  <1>1. NoRequest \in Requests /\ NewMemory \in Memory /\ Cleared \in Components
        /\ NoAnswer \in Answers /\ (\A s \in Sources : NoAnswer.updates[s].kind # "success")
        /\ NewMemory.pdh # "primed" /\ Cleared.value = NoKey
    BY DEF NoRequest, Requests, NewMemory, Memory, Cleared, Components, NoAnswer, Answers,
           Primings, Unchanged, Updates, KeyOrNone
  <1>2. \A w \in Workers : Sound(worker[w])
    BY <1>1 DEF Init, Sound, GoodFlight, KnownTopology, Flights, NoRequest
  <1>3. TypeOK
    BY <1>1, <1>2, CpuPageAssumption
    DEF Init, TypeOK, Sound, GoodFlight, Primings, KeyOrNone, HasDetailValues, HasValue
  <1> QED
    BY <1>1, <1>2, <1>3
    DEF Init, IInv, FlightsSound, PdhOfTheKey, AnswersOfTheirKey, DetailsOfTheKey,
        UserRefreshNotLost

LEMMA NextIInv == IInv /\ [Next]_vars => IInv'
  <1> SUFFICES ASSUME IInv, [Next]_vars PROVE IInv'
    OBVIOUS
  <1>1. CASE TimerEvent
    BY <1>1, TimerEventStep
  <1>2. CASE \E sampled \in KeyOrNone, age \in 0 .. 2 : ApplySample(sampled, age)
    BY <1>2, ApplySampleStep
  <1>3. CASE CollectNative
    BY <1>3, CollectNativeStep
  <1>4. CASE CollectFirmware
    BY <1>4, CollectFirmwareStep
  <1>5. CASE \E w \in Workers : CollectorPanics(w)
    BY <1>5, CollectorPanicsStep
  <1>6. CASE \E w \in Workers : Completion(w)
    BY <1>6, CompletionStep
  <1>7. CASE UNCHANGED vars
    BY <1>7 DEF vars, pageVars, IInv, TypeOK, FlightsSound, PdhOfTheKey, AnswersOfTheirKey,
                DetailsOfTheKey, UserRefreshNotLost, HasDetailValues, HasValue
  <1> QED
    BY <1>1, <1>2, <1>3, <1>4, <1>5, <1>6, <1>7 DEF Next

\* The inductive invariant.
THEOREM Inductive == Spec => []IInv
  BY InitIInv, NextIInv, PTL DEF Spec

\* Flights, answers, memories and components keep to their ranges, and a machine
\* of unknown topology has no details on the page.
THEOREM TypeCorrect == Spec => []TypeOK
  <1>1. IInv => TypeOK
    BY DEF IInv
  <1> QED
    BY <1>1, Inductive, PTL

\* Whatever topologies come and go while collections run, every detail shown was
\* collected for the topology shown.
THEOREM OnlyDetailsOfTheKey == Spec => []DetailsOfTheKey
  <1>1. IInv => DetailsOfTheKey
    BY DEF IInv
  <1> QED
    BY <1>1, Inductive, PTL

\* A refresh of the user's waits or runs, at its strength, until it was tried.
THEOREM NoUserRefreshLost == Spec => []UserRefreshNotLost
  <1>1. IInv => UserRefreshNotLost
    BY DEF IInv
  <1> QED
    BY <1>1, Inductive, PTL

\* With a topology known, a worker at rest has answered for it: what the page does
\* not show of it has failed, or its collector takes it for done.
THEOREM NoDetailMissed == Spec => []RestIsSettled
  <1>1. IInv /\ RestInv => RestIsSettled
    <2> SUFFICES ASSUME IInv, RestInv, NEW w \in Workers, key # NoKey, worker[w].state = "idle"
                 PROVE  /\ worker[w].queued = "none"
                        /\ \A s \in CollectedOnce(w) :
                              component[s] = Cleared => workerError[w] \/ ForgottenBy(w, s)
      BY DEF RestIsSettled
    <2>1. answer[w] = NoAnswer /\ CollectedOnce(w) \subseteq Sources
      BY DEF IInv, TypeOK, CollectedOnce, SourcesOf, Sources
    <2>2. \A s \in CollectedOnce(w) : answer[w].updates[s] = Unchanged
      BY <2>1 DEF NoAnswer
    <2> QED
      BY <2>2 DEF RestInv, ForgottenBy
  <1> QED
    BY <1>1, InitRests, NextRests, Inductive, PTL DEF Spec

\* While the topology stays, no step takes a detail off the page.
THEOREM LastValidKept == Spec => KeepsLastValid
  <1> DEFINE Kept == \A s \in Sources : HasValue(s) => component'[s].value # NoKey
  <1>1. IInv /\ [Next]_vars => [key' = key => Kept]_vars
    <2> SUFFICES ASSUME IInv, Next, key' = key PROVE Kept
      BY DEF KeepsLastValid
    <2>1. CASE UNCHANGED component
      BY SMTT(60), <2>1 DEF HasValue
    <2>2. CASE TimerEvent \/ CollectNative \/ CollectFirmware \/ \E w \in Workers : CollectorPanics(w)
      BY <2>1, <2>2 DEF TimerEvent, CollectNative, CollectFirmware, CollectorPanics, Collected,
                        pageVars
    <2>3. CASE \E sampled \in KeyOrNone, age \in 0 .. 2 : ApplySample(sampled, age)
      BY <2>1, <2>3 DEF ApplySample
    <2>4. CASE \E w \in Workers : Completion(w)
      BY <2>4, CommitSound DEF Completion
    <2> QED
      BY <2>2, <2>3, <2>4 DEF Next
  <1> QED
    BY <1>1, Inductive, PTL DEF Spec, KeepsLastValid
=============================================================================
