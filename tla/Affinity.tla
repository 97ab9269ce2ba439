------------------------------- MODULE Affinity -------------------------------
(***************************************************************************)
(* Set Affinity (set_affinity in pages/processes/actions.rs, and the CPU   *)
(* Set topology of system/cpu_sets.rs): the masks the dialog starts from,  *)
(* and the sequence of calls that gives a selection to a process whose     *)
(* threads begin and end meanwhile, with its rollback.                     *)
(*                                                                         *)
(* A processor is a pair of group and number, so that a CPU Set ID, or a   *)
(* mask with its group, is a set of processors.  A thread has the          *)
(* processors of its affinity, all of one group.  A thread's ID may be     *)
(* used again, by any process, as soon as nobody holds a handle on it.     *)
(***************************************************************************)
EXTENDS Integers, Sequences, FiniteSets, SequencesExt

CONSTANTS
    Processors,     \* pairs <<group, number>>
    Tids,           \* thread IDs, numbers
    MaxSpawns,      \* bound: threads that begin
    MaxFaults       \* bound: calls that fail

VARIABLES
    cpus,           \* the processors of this machine
    assignable,     \* those not allocated to another process
    alive,          \* whether the process of the dialog runs
    mask,           \* by thread of the process: its affinity
    foreign,        \* the threads of other processes among Tids
    allowed,        \* the process's own affinity
    defaults,       \* its default CPU Sets, none if empty
    spawns, faults, \* counters behind the bounds
    call,           \* the command and how far it is
    before          \* a history: the affinity each thread began or was found
                    \* with, the default CPU Sets, and the threads that came last

process == <<alive, mask, foreign, allowed, defaults>>
machine == <<cpus, assignable>>
vars == <<machine, process, spawns, faults, call, before>>

GroupsOf(cs) == {c[1] : c \in cs}
InGroup(cs, g) == {c \in cs : c[1] = g}

NoCall == [at |-> "start", selected |-> {}, original |-> {}, todo |-> << >>,
           open |-> 0, index |-> 0, changed |-> << >>, ok |-> FALSE, lost |-> FALSE]

Init ==
    /\ \E gs \in SUBSET GroupsOf(Processors) :
         gs # {} /\ cpus = {c \in Processors : c[1] \in gs}
    /\ assignable \in SUBSET cpus \ {{}}
    /\ allowed \in {cpus} \union {InGroup(cpus, g) : g \in GroupsOf(cpus)}
                   \union {{c} : c \in cpus}
    /\ defaults \in {{}} \union {{c} : c \in cpus}
    /\ alive = TRUE /\ foreign = {}
    /\ \E g \in GroupsOf(allowed) : mask = [t \in {1} |-> InGroup(allowed, g)]
    /\ spawns = 0 /\ faults = 0
    /\ call = NoCall
    /\ before = [mask |-> mask, defaults |-> defaults, late |-> {}]

Fault == faults < MaxFaults /\ faults' = faults + 1
Threads == DOMAIN mask
Without(f, t) == [u \in DOMAIN f \ {t} |-> f[u]]
With(f, t, value) == [u \in DOMAIN f \union {t} |-> IF u = t THEN value ELSE f[u]]

\* A thread whose handle is open keeps its ID.
Changed == {call.changed[i].tid : i \in DOMAIN call.changed}
Held == {call.open} \union Changed

-----------------------------------------------------------------------------
(* The process, while the command is under way.                            *)

Running == call.at # "done"

\* A thread begins on a group of a running thread, with what the process is
\* allowed there.
ThreadBegins ==
    /\ alive /\ Running /\ spawns < MaxSpawns /\ spawns' = spawns + 1
    /\ \E t \in Tids \ (Threads \union foreign \union Held), u \in Threads :
         LET m == InGroup(allowed, (CHOOSE c \in mask[u] : TRUE)[1]) IN
         /\ m # {}
         /\ mask' = With(mask, t, m)
         /\ before' = [before EXCEPT !.mask = With(@, t, m), !.late = @ \union {t}]
    /\ UNCHANGED <<machine, alive, foreign, allowed, defaults, faults, call>>

ThreadEnds(t) ==
    /\ Running /\ t \in Threads /\ Cardinality(Threads) > 1
    /\ mask' = Without(mask, t)
    /\ before' = [before EXCEPT !.mask = Without(@, t)]
    /\ UNCHANGED <<machine, alive, foreign, allowed, defaults, spawns, faults, call>>

ForeignThread(t) ==
    /\ Running /\ spawns < MaxSpawns /\ spawns' = spawns + 1
    /\ t \notin Threads \union foreign \union Held
    /\ foreign' = foreign \union {t}
    /\ UNCHANGED <<machine, alive, mask, allowed, defaults, faults, call, before>>

ProcessExits ==
    /\ alive /\ Running
    /\ alive' = FALSE /\ mask' = << >>
    /\ before' = [before EXCEPT !.mask = << >>]
    /\ UNCHANGED <<machine, foreign, allowed, defaults, spawns, faults, call>>

-----------------------------------------------------------------------------
(* The dialog.                                                             *)

\* initial_affinity_masks: the default CPU Sets if there are any, everything
\* for a process in several groups, else the process's mask.  {} is an error.
InitialMasks ==
    IF defaults # {} THEN IF defaults \subseteq assignable THEN defaults ELSE {}
    ELSE IF Cardinality(GroupsOf(cpus)) > 1 /\ Cardinality(GroupsOf(allowed)) > 1 THEN assignable
    ELSE allowed \intersect assignable

OpenDialog ==
    /\ call.at = "start"
    /\ \/ /\ alive /\ InitialMasks # {}
          /\ call' = [call EXCEPT !.at = "dialog", !.original = defaults]
          /\ UNCHANGED faults
       \/ /\ \/ (~alive \/ InitialMasks = {}) /\ UNCHANGED faults
             \/ Fault
          /\ call' = [call EXCEPT !.at = "done"]
    /\ UNCHANGED <<machine, process, spawns, before>>

\* IDOK refuses a selection without a processor; only assignable ones can be
\* checked.
Accept ==
    /\ call.at = "dialog"
    /\ \/ \E s \in SUBSET assignable \ {{}} :
            call' = [call EXCEPT !.at = "defaults", !.selected = s]
       \/ call' = [call EXCEPT !.at = "done"]
    /\ UNCHANGED <<machine, process, spawns, faults, before>>

-----------------------------------------------------------------------------
(* apply_affinity_selection.                                               *)

SingleGroup == Cardinality(GroupsOf(cpus)) = 1

\* The selection is taken apart by group; thread i gets the i-th one in turn.
SelectedGroups == SetToSortSeq(GroupsOf(call.selected), LAMBDA g, h : g < h)
TargetOf(index) ==
    InGroup(call.selected, SelectedGroups[(index % Len(SelectedGroups)) + 1])

SetDefaults ==
    /\ call.at = "defaults"
    /\ \/ /\ alive
          /\ defaults' = IF SingleGroup THEN {} ELSE call.selected
          /\ call' = [call EXCEPT !.at = IF SingleGroup THEN "mask" ELSE "list"]
          /\ UNCHANGED faults
       \/ /\ \/ ~alive /\ UNCHANGED faults
             \/ Fault
          /\ call' = [call EXCEPT !.at = "done"]
          /\ UNCHANGED defaults
    /\ UNCHANGED <<machine, alive, mask, foreign, allowed, spawns, before>>

\* SetProcessAffinityMask gives the mask to every thread of the process.
SetProcessMask ==
    /\ call.at = "mask"
    /\ \/ /\ alive
          /\ allowed' = call.selected
          /\ mask' = [t \in Threads |-> call.selected]
          /\ call' = [call EXCEPT !.at = "done", !.ok = TRUE]
          /\ UNCHANGED faults
       \/ /\ \/ ~alive /\ UNCHANGED faults
             \/ Fault
          /\ call' = [call EXCEPT !.at = "restore"]
          /\ UNCHANGED <<allowed, mask>>
    /\ UNCHANGED <<machine, alive, foreign, defaults, spawns, before>>

Failing == [call EXCEPT !.at = "rollback", !.open = 0, !.todo = << >>]

\* enumerate_process_threads: each ID once, and in order.
Listings(ids) == {s \in [1..Cardinality(ids) -> ids] :
                    ToSet(s) = ids /\ \A i, j \in DOMAIN s : i < j => s[i] < s[j]}

\* The threads there are, of apply_thread_group_affinities.
ListThreads ==
    /\ call.at = "list"
    /\ \/ /\ \E s \in Listings(Threads) : call' = [call EXCEPT !.at = "open", !.todo = s]
          /\ UNCHANGED faults
       \/ Fault /\ call' = Failing
    /\ UNCHANGED <<machine, process, spawns, before>>

\* A thread that is gone is passed over; one of another process is an error.
OpenThread ==
    /\ call.at = "open" /\ call.todo # << >>
    /\ LET t == Head(call.todo)
           next == [call EXCEPT !.todo = Tail(@)]
       IN  \/ /\ t \in Threads
              /\ call' = [next EXCEPT !.at = "set", !.open = t, !.index = @ + 1]
              /\ UNCHANGED faults
           \/ t \notin Threads \union foreign /\ call' = next /\ UNCHANGED faults
           \/ t \in foreign /\ call' = Failing /\ UNCHANGED faults
           \/ Fault /\ call' = Failing
    /\ UNCHANGED <<machine, process, spawns, before>>

\* SetThreadGroupAffinity, which tells the affinity before.  On a thread that
\* has ended meanwhile it fails in one way or another.
SetThread ==
    /\ call.at = "set"
    /\ LET t == call.open
           next == [call EXCEPT !.at = "open", !.open = 0]
       IN  \/ /\ t \in Threads
              /\ mask' = [mask EXCEPT ![t] = TargetOf(call.index - 1)]
              /\ call' = [next EXCEPT !.changed = Append(@, [tid |-> t, previous |-> mask[t]])]
              /\ UNCHANGED faults
           \/ t \notin Threads /\ call' \in {next, Failing} /\ UNCHANGED <<mask, faults>>
           \/ Fault /\ call' = Failing /\ UNCHANGED mask
    /\ UNCHANGED <<machine, alive, foreign, allowed, defaults, spawns, before>>

\* verify_racing_thread_affinities looks at the threads a second time.
ListAgain ==
    /\ call.at = "open" /\ call.todo = << >>
    /\ \/ /\ call.changed # << >>
          /\ \E s \in Listings(Threads \ Changed) : call' = [call EXCEPT !.at = "verify", !.todo = s]
          /\ before' = [before EXCEPT !.late = {}]
          /\ UNCHANGED faults
       \/ /\ \/ call.changed = << >> /\ UNCHANGED faults
             \/ Fault
          /\ call' = Failing
          /\ UNCHANGED before
    /\ UNCHANGED <<machine, process, spawns>>

\* Mutant: a thread on a selected group is fine.
WithinTheGroups(m) == GroupsOf(m) \subseteq GroupsOf(call.selected)

\* affinity_is_within_selection.
WithinSelection(m) == m \subseteq call.selected

VerifyThread ==
    /\ call.at = "verify" /\ call.todo # << >>
    /\ LET t == Head(call.todo)
           next == [call EXCEPT !.todo = Tail(@)]
       IN  \/ /\ t \in Threads
              /\ call' = IF WithinSelection(mask[t]) THEN next ELSE Failing
              /\ UNCHANGED faults
           \/ t \notin Threads \union foreign /\ call' = next /\ UNCHANGED faults
           \/ t \in foreign /\ call' = Failing /\ UNCHANGED faults
           \/ Fault /\ call' = Failing
    /\ UNCHANGED <<machine, process, spawns, before>>

Succeed ==
    /\ call.at = "verify" /\ call.todo = << >>
    /\ call' = [call EXCEPT !.at = "done", !.ok = TRUE, !.changed = << >>]
    /\ UNCHANGED <<machine, process, spawns, faults, before>>

\* The threads changed get back what they had, from the last to the first, by
\* handles that are still open.
Rollback ==
    /\ call.at = "rollback" /\ call.changed # << >>
    /\ LET last == Last(call.changed)
           next == [call EXCEPT !.changed = Front(@)]
       IN  \/ /\ call' = next
              /\ mask' = IF last.tid \in Threads
                         THEN [mask EXCEPT ![last.tid] = last.previous] ELSE mask
              /\ UNCHANGED faults
           \/ Fault /\ call' = [next EXCEPT !.lost = TRUE] /\ UNCHANGED mask
    /\ UNCHANGED <<machine, alive, foreign, allowed, defaults, spawns, before>>

AfterRollback == "restore"

EndRollback ==
    /\ call.at = "rollback" /\ call.changed = << >>
    /\ call' = [call EXCEPT !.at = AfterRollback]
    /\ UNCHANGED <<machine, process, spawns, faults, before>>

Restore ==
    /\ call.at = "restore"
    /\ \/ alive /\ defaults' = call.original /\ call' = [call EXCEPT !.at = "done"]
          /\ UNCHANGED faults
       \/ ~alive /\ call' = [call EXCEPT !.at = "done"] /\ UNCHANGED <<defaults, faults>>
       \/ Fault /\ call' = [call EXCEPT !.at = "done", !.lost = TRUE] /\ UNCHANGED defaults
    /\ UNCHANGED <<machine, alive, mask, foreign, allowed, spawns, before>>

Next ==
    \/ ThreadBegins \/ ProcessExits
    \/ \E t \in Tids : ThreadEnds(t) \/ ForeignThread(t)
    \/ OpenDialog \/ Accept \/ SetDefaults \/ SetProcessMask
    \/ ListThreads \/ OpenThread \/ SetThread \/ ListAgain \/ VerifyThread \/ Succeed
    \/ Rollback \/ EndRollback \/ Restore

Spec == Init /\ [][Next]_vars

-----------------------------------------------------------------------------
\* When Set Affinity reports success, every thread that was there when it looked
\* for the last time runs inside the selection, and what begins later has it as
\* the process's mask or default, although threads began and ended and IDs were
\* used again all along: "so an old per-thread affinity cannot keep using a CPU
\* the user just deselected" (apply_affinity_selection).
SelectionHolds ==
    call.at = "done" /\ call.ok /\ alive =>
      /\ \A t \in Threads \ before.late : mask[t] \subseteq call.selected
      /\ IF SingleGroup THEN defaults = {} /\ allowed = call.selected
         ELSE defaults = call.selected

\* When it reports a failure, the process is as it was: each thread has the
\* affinity it began or was found with and the default CPU Sets are the old
\* ones, unless a call of the rollback itself failed
\* (apply_thread_group_affinities, apply_affinity_selection).
FailureRestores ==
    call.at = "done" /\ ~call.ok /\ ~call.lost /\ alive =>
      mask = before.mask /\ defaults = before.defaults
=============================================================================
