------------------------------ MODULE GpuCounters ------------------------------
(***************************************************************************)
(* The performance counters of the GPU page (pages/gpu/counters.rs): the   *)
(* query with its three optional counters, and how a collection becomes    *)
(* one sample per adapter although counters and instances fail one by one. *)
(* GpuPage has what becomes of the sample.                                 *)
(*                                                                         *)
(* An instance is a record of what its name says.  status is "good", or    *)
(* "value" or "status" (a value or a status that is not valid), "name" (a *)
(* name that cannot be parsed) or "unread" (one that cannot be read): these *)
(* two say nothing.  Loads are percentages, sizes numbers, and Missing      *)
(* stands for None.  Temperatures, queried adapter by adapter, are left out. *)
(***************************************************************************)
EXTENDS Integers, Sequences, FiniteSets, SequencesExt, FiniteSetsExt

CONSTANTS
    Displayed,      \* the adapters of the topology that are shown
    Hidden,         \* adapters with a known LUID that are not shown
    EngineReads, DedicatedReads, SharedReads,   \* what the counters may return
    MaxRebuilds, MaxCollects                    \* bounds

Sources == {"engine", "dedicated", "shared"}
Missing == -1

VARIABLES
    generation,     \* 0 before the first rebuild
    added,          \* the counters of the query that could be added
    ready,          \* dynamic_ready
    kinds,          \* engine_kinds: by engine of this generation
    samples,        \* the last samples published, by adapter
    reads,          \* what they were made from
    collects        \* the counter behind the bound

vars == <<generation, added, ready, kinds, samples, reads, collects>>

NoReads == [s \in Sources |-> [error |-> "none", items |-> << >>]]

Init ==
    /\ generation = 0 /\ added = {} /\ ready = FALSE /\ kinds = << >>
    /\ samples = << >> /\ reads = NoReads /\ collects = 0

\* GpuCollector::rebuild of a topology with adapters: a new query, whose counters
\* are added one by one, and its first collection.
Rebuild ==
    /\ generation < MaxRebuilds
    /\ generation' = generation + 1
    /\ added' \in SUBSET Sources
    /\ ready' = FALSE /\ kinds' = << >> /\ samples' = << >>
    /\ UNCHANGED <<reads, collects>>

-----------------------------------------------------------------------------
(* From the instances to a sample.                                         *)

Named(item) == item.status \notin {"name", "unread"}
Known(item) == item.adapter \in Displayed \union Hidden

\* What an issue says of the source is noted with the adapter, if it is named
\* and shown, otherwise with all adapters (collect_counter_issues and the
\* global_issues of assemble_counter_samples).  A hidden adapter's readings are
\* passed over, but not its issues.
Bad(item) == ~Named(item) \/ item.status # "good" \/ ~Known(item)

Concerns(item, a) ==
    ~Named(item) \/ item.adapter = a \/ item.adapter \notin Displayed

Issue(read, a) ==
    read.error # "none" \/ \E i \in DOMAIN read.items :
                             Bad(read.items[i]) /\ Concerns(read.items[i], a)

\* The readings of an adapter, by place.
Of(read, a) == {i \in DOMAIN read.items : ~Bad(read.items[i]) /\ read.items[i].adapter = a}

EngineOf(item) == <<item.adapter, item.ordinal>>

FirstOf(items, mine, i) == Min({j \in mine : EngineOf(items[j]) = EngineOf(items[i])})

\* Mutant: an instance that comes again counts again.
CountsAgain(items, mine, i) == items[i].kind = items[FirstOf(items, mine, i)].kind

\* An instance that comes again (process, engine and kind), and one of another
\* kind than the engine's first, are issues of the row and do not count.
Counts(items, mine, i) ==
    /\ items[i].kind = items[FirstOf(items, mine, i)].kind
    /\ \A j \in mine : j < i =>
         <<items[j].pid, EngineOf(items[j]), items[j].kind>>
           # <<items[i].pid, EngineOf(items[i]), items[i].kind>>

Percent(load) == IF load > 100 THEN 100 ELSE load

Load(items, places) == MapThenSumSet(LAMBDA i : items[i].load, places)

\* The engines of an adapter with their kinds and loads.
EnginesOf(items, mine) ==
    {[engine |-> EngineOf(items[f]), kind |-> items[f].kind,
      load |-> Percent(Load(items, {i \in mine : FirstOf(items, mine, i) = f
                                                 /\ Counts(items, mine, i)}))]
     : f \in {FirstOf(items, mine, i) : i \in mine}}

Repeated(items, mine) == \E i \in mine : ~Counts(items, mine, i)

\* validated_engine_kinds: an engine that had another kind in this generation is
\* left out.
KindIn(known, engine) == engine.engine \in DOMAIN known => known[engine.engine] = engine.kind
Learned(known, engines) ==
    [e \in DOMAIN known \union {x.engine : x \in engines} |->
       IF e \in DOMAIN known THEN known[e]
       ELSE (CHOOSE x \in engines : x.engine = e).kind]

\* collect_memory_readings: one good instance gives the size, none or several
\* give nothing and an issue.
SizeOf(read, a) ==
    IF Cardinality(Of(read, a)) = 1 THEN read.items[CHOOSE i \in Of(read, a) : TRUE].size
    ELSE Missing

Overall(engines, complete) ==
    IF complete THEN Max({x.load : x \in engines} \union {0}) ELSE Missing

\* assemble_counter_samples and validated_engine_kinds, for one adapter.
SampleOf(r, a) ==
    LET items == r["engine"].items
        mine == Of(r["engine"], a)
        found == EnginesOf(items, mine)
        engines == {x \in found : KindIn(kinds, x)}
        complete == ~Issue(r["engine"], a) /\ ~Repeated(items, mine) /\ engines = found
    IN  [engines |-> engines,
         overall |-> Overall(engines, complete),
         dedicated |-> SizeOf(r["dedicated"], a),
         shared |-> SizeOf(r["shared"], a),
         faults |-> {s \in Sources : Issue(r[s], a)}
                    \union (IF complete THEN {} ELSE {"engine"})
                    \union {s \in {"dedicated", "shared"} : SizeOf(r[s], a) = Missing}]

-----------------------------------------------------------------------------
(* A collection.                                                           *)

\* A counter that could not be added, or an array that cannot be read, is an
\* error of its source.
Read(s, possible) ==
    IF s \in added THEN {[error |-> "none", items |-> x] : x \in possible}
                        \union {[error |-> e, items |-> << >>] : e \in {"failed", "pending"}}
    ELSE {[error |-> "absent", items |-> << >>]}

Baseline(r) ==
    /\ ~ready
    /\ \A i \in DOMAIN r.items : r.items[i].status \in {"value", "status", "unread"}
    /\ r.error = "pending" \/ \E i \in DOMAIN r.items : r.items[i].status = "status"

\* GpuCollector::collect of a current topology whose query can be collected.
Collect ==
    /\ generation > 0 /\ collects < MaxCollects /\ collects' = collects + 1
    /\ \E e \in Read("engine", EngineReads) :
         IF Baseline(e) THEN UNCHANGED <<ready, kinds, samples, reads>>
         ELSE \E d \in Read("dedicated", DedicatedReads), h \in Read("shared", SharedReads) :
                LET r == [engine |-> e, dedicated |-> d, shared |-> h]
                    published == [a \in Displayed |-> SampleOf(r, a)]
                IN  /\ reads' = r /\ samples' = published /\ ready' = TRUE
                    /\ kinds' = Learned(kinds, UNION {published[a].engines : a \in Displayed})
    /\ UNCHANGED <<generation, added>>

\* PdhCollectQueryData fails: nothing is published.
CollectFails ==
    /\ generation > 0 /\ added # {} /\ collects < MaxCollects /\ collects' = collects + 1
    /\ UNCHANGED <<generation, added, ready, kinds, samples, reads>>

Next == Rebuild \/ Collect \/ CollectFails

Spec == Init /\ [][Next]_vars

-----------------------------------------------------------------------------
\* No number is made up: a load is shown only if everything that was returned
\* for the engines, and may be the adapter's, was understood, and then it is the
\* load of its busiest engine; a size only if it is the one that was returned.
\* Where a number is missing, the row tells why ("without inventing zero
\* samples", counters.rs).
NoNumberIsInvented ==
    \A a \in DOMAIN samples :
      LET s == samples[a]
          items == reads["engine"].items
          mine == {i \in DOMAIN items : Named(items[i]) /\ items[i].adapter = a}
          load(e) == Percent(Load(items, {i \in mine : EngineOf(items[i]) = e}))
      IN  /\ s.overall # Missing =>
               /\ reads["engine"].error = "none"
               /\ \A i \in DOMAIN items : Named(items[i]) /\ Known(items[i])
               /\ \A i \in mine : items[i].status = "good"
               /\ \A i, j \in mine : EngineOf(items[i]) = EngineOf(items[j]) =>
                    items[i].kind = items[j].kind /\ (items[i].pid = items[j].pid => i = j)
               /\ s.overall = Max({load(EngineOf(items[i])) : i \in mine} \union {0})
          /\ \A m \in {"dedicated", "shared"} : s[m] # Missing =>
               \E x \in ToSet(reads[m].items) :
                 x.adapter = a /\ x.status = "good" /\ s[m] = x.size
          /\ s.overall = Missing <=> "engine" \in s.faults
          /\ \A m \in {"dedicated", "shared"} : s[m] = Missing => m \in s.faults

\* A fault stays where it is: a counter that fails takes nothing from the other
\* two, and a named instance of one adapter takes nothing from another adapter
\* (partial_failure_tests of counters.rs).
FaultsStayWhereTheyAre ==
    \A a \in DOMAIN samples :
      LET s == samples[a]
          items == reads["engine"].items
          mine == {i \in DOMAIN items : items[i].adapter = a}
          goodSizes(m) == {i \in DOMAIN reads[m].items :
                             reads[m].items[i].adapter = a /\ reads[m].items[i].status = "good"}
      IN  /\ \A m \in {"dedicated", "shared"} : Cardinality(goodSizes(m)) = 1 => s[m] # Missing
          /\ /\ reads["engine"].error = "none"
             /\ \A i \in DOMAIN items : Named(items[i]) /\ Known(items[i])
             /\ \A i \in DOMAIN items \ mine :
                  items[i].adapter \in Hidden => items[i].status = "good"
             /\ \A i \in mine : items[i].status = "good" /\ kinds[EngineOf(items[i])] = items[i].kind
             /\ \A i, j \in mine : EngineOf(items[i]) = EngineOf(items[j])
                                     /\ items[i].pid = items[j].pid => i = j
             => s.overall # Missing

\* Within a generation an engine is shown with the kind it was first seen with
\* (validated_engine_kinds).
KindsFit ==
    \A a \in DOMAIN samples : \A x \in samples[a].engines :
      x.engine \in DOMAIN kinds /\ x.kind = kinds[x.engine]
=============================================================================
