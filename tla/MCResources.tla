------------------------------ MODULE MCResources ------------------------------
(***************************************************************************)
(* One TLC instance of four components that share no state and whose       *)
(* subject is what is taken and has to be kept or given back: the sessions *)
(* of the log (LogRetention), the affinity of a process (Affinity), the    *)
(* Applications page (Applications) and the threads behind its icons       *)
(* (IconPool).  `which` names the component a behaviour is of; the others  *)
(* rest.                                                                   *)
(***************************************************************************)
EXTENDS LogRetention, Integers, Sequences

CONSTANTS
    Processors, Tids, MaxSpawns,
    Windows, Open, TitleOf, Bare, MaxChanges, MaxClicks, MaxCollects,
    WorkerCount, MaxRequests, MaxBatches, MaxPanics

\* The first thread of a process has the ID 1.
ASSUME ThreadsAssumption == Tids \subseteq Nat /\ 1 \in Tids
ASSUME PoolAssumption ==
    /\ WorkerCount \in Nat \ {0} /\ MaxRequests \in Nat /\ MaxBatches \in Nat
    /\ MaxPanics \in Nat
ASSUME WindowsAssumption ==
    /\ Windows \subseteq Int /\ IsFiniteSet(Windows) /\ Open \subseteq Windows
    /\ TitleOf \in [Windows -> Int]

VARIABLES
    which,
    \* Affinity
    cpus, assignable, alive, mask, foreign, allowed, defaults, spawns, affinityFaults,
    call, before,
    \* Applications
    open, hung, changes, clicks, collects, windowFaults, sampler, collector, page,
    icons, pending, menu, act, chosen,
    \* IconPool
    caller, spawned, batch, size, dispatched, gathered, error, taken, next, dead,
    commands, thread, results, panics, struck

affinityVars == <<cpus, assignable, alive, mask, foreign, allowed, defaults, spawns,
                  affinityFaults, call, before>>
applicationsVars == <<open, hung, changes, clicks, collects, windowFaults, sampler,
                      collector, page, icons, pending, menu, act, chosen>>
poolVars == <<caller, spawned, batch, size, dispatched, gathered, error, taken, next,
              dead, commands, thread, results, panics, struck>>

Affine == INSTANCE Affinity WITH faults <- affinityFaults
Apps == INSTANCE Applications WITH faults <- windowFaults
Pool == INSTANCE IconPool

-----------------------------------------------------------------------------
(* The values of the constants.                                             *)

\* Two groups, the first with two processors.
SomeProcessors == {<<1, 1>>, <<1, 2>>, <<2, 1>>}

\* Three windows, two of them open at first, two with one title, one without an
\* icon of its own.
Three == 1..3
Two == {1, 2}
Titles == [w \in Three |-> CASE w = 1 -> 2 [] w = 2 -> 1 [] w = 3 -> 2]
Plain == {2}

-----------------------------------------------------------------------------
\* A component at rest takes part in nothing; its variables only need a value.
Resting == Init
AffineResting ==
    /\ cpus = 0 /\ assignable = 0 /\ alive = 0 /\ mask = 0 /\ foreign = 0
    /\ allowed = 0 /\ defaults = 0 /\ spawns = 0 /\ affinityFaults = 0 /\ call = 0
    /\ before = 0
AppsResting ==
    /\ open = 0 /\ hung = 0 /\ changes = 0 /\ clicks = 0 /\ collects = 0
    /\ windowFaults = 0 /\ sampler = 0 /\ collector = 0 /\ page = 0 /\ icons = 0
    /\ pending = 0 /\ menu = 0 /\ act = 0 /\ chosen = 0
PoolResting ==
    /\ caller = 0 /\ spawned = 0 /\ batch = 0 /\ size = 0 /\ dispatched = 0
    /\ gathered = 0 /\ error = 0 /\ taken = 0 /\ next = 0 /\ dead = 0 /\ commands = 0
    /\ thread = 0 /\ results = 0 /\ panics = 0 /\ struck = 0

ResourcesInit ==
    \/ /\ which = "retention" /\ Init
       /\ AffineResting /\ AppsResting /\ PoolResting
    \/ /\ which = "affinity" /\ Affine!Init
       /\ Resting /\ AppsResting /\ PoolResting
    \/ /\ which = "applications" /\ Apps!Init
       /\ Resting /\ AffineResting /\ PoolResting
    \/ /\ which = "pool" /\ Pool!Init
       /\ Resting /\ AffineResting /\ AppsResting

ResourcesNext ==
    \/ /\ which = "retention" /\ Next
       /\ UNCHANGED <<which, affinityVars, applicationsVars, poolVars>>
    \/ /\ which = "affinity" /\ Affine!Next
       /\ UNCHANGED <<which, vars, applicationsVars, poolVars>>
    \/ /\ which = "applications" /\ Apps!Next
       /\ UNCHANGED <<which, vars, affinityVars, poolVars>>
    \/ /\ which = "pool" /\ Pool!Next
       /\ UNCHANGED <<which, vars, affinityVars, applicationsVars>>

ResourcesSpec ==
    ResourcesInit /\ [][ResourcesNext]_<<which, vars, affinityVars, applicationsVars, poolVars>>

-----------------------------------------------------------------------------
\* A process that runs alone keeps within the limits from its start on, and gives
\* up its log only when its own session leaves no room (prepare_directories,
\* rotate, cleanup_retention_in).
KeepsTheLimits == AloneWithinTheLimits /\ AloneNeverLosesTheLog

\* Set Affinity confines every thread and all to come, or it changes nothing
\* (apply_affinity_selection, apply_thread_group_affinities).
AllOrNothing == which = "affinity" => Affine!SelectionHolds /\ Affine!FailureRestores

\* Every task has the icon of its own window, every missing icon is under way,
\* and the tasks are in the user's order (TaskIconStore, apply_task_snapshot,
\* apply_task_icon_results).
TasksHaveTheirIcons ==
    which = "applications" =>
      /\ Apps!SlotsAreNotShared /\ Apps!PendingIconsAreOnTheWay
      /\ Apps!TasksAreSorted

\* A batch of icons is answered whole or with an error, and leaves nothing in the
\* pool for the next one; while it is waited for, some thread goes on
\* (TaskIconExecutor::collect).
BatchIsWhole ==
    which = "pool" => Pool!BatchIsWhole /\ Pool!NothingIsLeft /\ Pool!SomebodyWorks
===============================================================================
