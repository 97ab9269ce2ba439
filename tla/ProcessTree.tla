---------------------------- MODULE ProcessTree ----------------------------
(***************************************************************************)
(* End Process and End Process Tree of the Processes page                  *)
(* (src/pages/processes/actions.rs, src/system/process_identity.rs),       *)
(* against a system whose processes start, exit and reuse each other's     *)
(* PIDs between any two of the calls the page makes.                       *)
(*                                                                         *)
(* A process is named by its PID and its creation time.  The clock stamps  *)
(* creation times and is coarse: several calls and several creations share *)
(* a tick.  A PID is handed out again only in a later tick than the one in *)
(* which it was freed, and never while a handle to its process is open; so *)
(* PID and creation time do name one process.                              *)
(***************************************************************************)
EXTENDS Naturals, Sequences

CONSTANTS
    Pids,           \* process identifiers, model values
    Root,           \* the PID of the selected row
    NoPid,          \* a parent that is outside Pids
    MaxTime,        \* bound: ticks of the clock
    MaxBorn,        \* bound: processes created during the command
    MaxRefusals     \* bound: calls the system refuses (access denied)

ASSUME ProcessTreeAssumption ==
    /\ Root \in Pids /\ NoPid \notin Pids
    /\ MaxTime \in Nat \ {0, 1} /\ MaxBorn \in Nat /\ MaxRefusals \in Nat

Times == 1..MaxTime
\* ProcIdentity; creation 0 is pid_only, a row whose creation time is unknown.
Identities == [pid : Pids \union {NoPid}, creation : 0..MaxTime]
Unverified(i) == i.creation = 0

\* A process: who created it, whether it descends from the selected process
\* (or is it), and whether it was created after the tree was listed.
Processes == [creation : Times, parent : Identities, kin : BOOLEAN,
              late : BOOLEAN, running : BOOLEAN]

VARIABLES
    now,            \* the system clock
    proc,           \* the processes of the system, by PID in use
    freed,          \* PIDs freed in this tick
    born,           \* processes created so far
    refusals,       \* calls refused so far
    \* the command, on the UI thread
    pc, command, root,
    rootHeld,       \* root_handle is Some
    listed,         \* child_map: the parent's PID of every listed PID
    snapshotTime,
    stack,          \* the recursion: a parent and its children to visit
    visited, order,
    next,           \* the next of order to open
    targets,        \* identities with an open handle, in order
    outcome,        \* ProcessTreeTerminationOutcome
    report,         \* what the user is told; "none" while it runs
    refreshed,      \* refresh_processes was called
    killed          \* history: processes ended by TerminateProcess

system == <<now, proc, freed, born>>
walk == <<listed, snapshotTime, stack, visited, order, next>>
selection == <<command, root>>
result == <<outcome, report, refreshed, killed>>
vars == <<system, refusals, pc, selection, rootHeld, walk, targets, result>>

IdentityOf(p) == [pid |-> p, creation |-> proc[p].creation]
Running(i) == /\ i.pid \in DOMAIN proc
              /\ IdentityOf(i.pid) = i
              /\ proc[i.pid].running

NoOutcome == [success |-> FALSE, completed |-> FALSE, failure |-> FALSE,
              rootError |-> FALSE]

\* The selected process, and another one that is not its descendant: it may be
\* the child of a former process with the PID of the selected one.
Init ==
    /\ now = 2 /\ freed = {} /\ born = 0 /\ refusals = 0
    /\ \E other \in Pids \ {Root}, c \in [{1, 2} -> Times], p \in {NoPid, Root} :
        /\ c[1] <= now /\ c[2] <= now
        /\ p = Root => c[2] < c[1]
        /\ proc = [q \in {Root, other} |->
                     IF q = Root
                     THEN [creation |-> c[1], kin |-> TRUE, late |-> FALSE,
                           parent |-> [pid |-> NoPid, creation |-> 0],
                           running |-> TRUE]
                     ELSE [creation |-> c[2], kin |-> FALSE, late |-> FALSE,
                           parent |-> [pid |-> p, creation |-> 0],
                           running |-> TRUE]]
        /\ root \in {[pid |-> Root, creation |-> c[1]], [pid |-> Root, creation |-> 0]}
    /\ pc = "confirm" /\ command \in {"Terminate", "TerminateTree"}
    /\ rootHeld = FALSE /\ targets = <<>>
    /\ listed = <<>> /\ snapshotTime = 0 /\ stack = <<>> /\ visited = {}
    /\ order = <<>> /\ next = 1
    /\ outcome = NoOutcome /\ report = "none" /\ refreshed = FALSE /\ killed = {}

-----------------------------------------------------------------------------
(* The rest of the system, followed until the command has ended. *)

InCommand == pc # "done"

\* Handles keep a process object, and with it its PID, after the process ends.
HeldPids == (IF rootHeld THEN {root.pid} ELSE {})
              \union {targets[i].pid : i \in 1..Len(targets)}

Tick ==
    /\ InCommand /\ now < MaxTime
    /\ now' = now + 1 /\ freed' = {}
    /\ UNCHANGED <<proc, born, refusals, pc, selection, rootHeld, walk, targets, result>>

CreateProcess(creator, p) ==
    /\ InCommand /\ born < MaxBorn
    /\ creator \in DOMAIN proc /\ proc[creator].running
    /\ p \in Pids \ (DOMAIN proc \union freed)
    /\ born' = born + 1
    /\ proc' = [q \in DOMAIN proc \union {p} |->
                  IF q = p
                  THEN [creation |-> now, parent |-> IdentityOf(creator),
                        kin |-> proc[creator].kin,
                        late |-> pc \notin {"confirm", "snapshot"},
                        running |-> TRUE]
                  ELSE proc[q]]
    /\ UNCHANGED <<now, freed, refusals, pc, selection, rootHeld, walk, targets, result>>

Exit(p) ==
    /\ InCommand /\ proc[p].running
    /\ proc' = [proc EXCEPT ![p].running = FALSE]
    /\ UNCHANGED <<now, freed, born, refusals, pc, selection, rootHeld, walk, targets, result>>

\* The last handle to an ended process is closed: its PID is free.
FreePid(p) ==
    /\ InCommand /\ ~proc[p].running /\ p \notin HeldPids
    /\ proc' = [q \in DOMAIN proc \ {p} |-> proc[q]]
    /\ freed' = freed \union {p}
    /\ UNCHANGED <<now, born, refusals, pc, selection, rootHeld, walk, targets, result>>

-----------------------------------------------------------------------------
(* Opening a process. *)

\* OpenProcess is refused, for the process or for the access asked for.
Refuse ==
    /\ refusals < MaxRefusals
    /\ refusals' = refusals + 1
Accept == UNCHANGED refusals

\* open_process_for_identity: the PID is in use and by the process named.
Opens(i) ==
    /\ ~Unverified(i)
    /\ i.pid \in DOMAIN proc
    /\ proc[i.pid].creation = i.creation

\* The command ends: its handles are closed, the user is told.
Report(what) ==
    /\ pc' = "done" /\ report' = what
    /\ rootHeld' = FALSE /\ targets' = <<>>

\* quick_confirm is answered at leisure; then the selected process is opened.
OpenRoot ==
    /\ pc = "confirm"
    /\ \/ /\ Opens(root) /\ Accept
          /\ rootHeld' = TRUE
          /\ pc' = IF command = "Terminate" THEN "kill" ELSE "snapshot"
          /\ UNCHANGED <<targets, report>>
       \/ /\ ~Opens(root) /\ Accept /\ Report("cantKill")
       \/ /\ Opens(root) /\ Refuse /\ Report("cantKill")
    /\ UNCHANGED <<system, selection, walk, outcome, refreshed, killed>>

\* TerminateProcess succeeds.
Kill(p) ==
    /\ proc' = [proc EXCEPT ![p].running = FALSE]
    /\ killed' = killed \union {[who |-> IdentityOf(p), kin |-> proc[p].kin,
                                late |-> proc[p].late]}

\* kill_process: the process may have ended since it was opened.
KillOne ==
    /\ pc = "kill"
    /\ \/ /\ proc[root.pid].running /\ Accept
          /\ Kill(root.pid)
          /\ refreshed' = TRUE
          /\ Report("ok")
       \/ /\ IF proc[root.pid].running THEN Refuse ELSE Accept
          /\ Report("cantKill")
          /\ UNCHANGED <<proc, killed, refreshed>>
    /\ UNCHANGED <<now, freed, born, selection, walk, outcome>>

-----------------------------------------------------------------------------
(* collect_process_tree_termination_order. *)

\* CreateToolhelp32Snapshot, Process32FirstW and Process32NextW; an ended
\* process whose object lives on may still be listed.
ListProcesses ==
    /\ pc = "snapshot"
    /\ \/ /\ \E shown \in SUBSET {p \in DOMAIN proc : ~proc[p].running} :
                listed' = [p \in {q \in DOMAIN proc : proc[q].running} \union shown |->
                             proc[p].parent.pid]
          /\ pc' = "time" /\ Accept
          /\ UNCHANGED <<rootHeld, targets, report>>
       \/ /\ Refuse /\ Report("treeFailed") /\ UNCHANGED listed
    /\ UNCHANGED <<system, selection, snapshotTime, stack, visited, order,
                   next, outcome, refreshed, killed>>

\* GetSystemTimeAsFileTime, after the snapshot is taken.
ReadSnapshotTime ==
    /\ pc = "time"
    /\ snapshotTime' = now
    /\ pc' = "validate"
    /\ UNCHANGED <<system, refusals, selection, rootHeld, listed, stack, visited,
                   order, next, targets, result>>

ChildrenOf(p) == {q \in DOMAIN listed : listed[q] = p}

\* Entering collect_verified_process_tree_children for a parent.
Descend(i) ==
    /\ stack' = Append(stack, [parent |-> i, children |-> ChildrenOf(i.pid)])
    /\ visited' = visited \union {i.pid}

\* validate_snapshot_root_identity: the root is opened a second time.
ValidateRoot ==
    /\ pc = "validate"
    /\ \/ /\ Accept
          /\ IF IdentityOf(root.pid) = root
             THEN /\ Descend(root)
                  /\ pc' = "walk"
                  /\ UNCHANGED <<rootHeld, targets, report>>
             ELSE Report("treeFailed") /\ UNCHANGED <<stack, visited>>
       \/ /\ Refuse /\ Report("treeFailed") /\ UNCHANGED <<stack, visited>>
    /\ UNCHANGED <<system, selection, listed, snapshotTime, order, next,
                   outcome, refreshed, killed>>

\* Mutant: the parent's creation time is not compared.
EdgeOfAnyAge(parent, child) == child.creation <= snapshotTime
\* is_valid_process_tree_edge
ValidEdge(parent, child) ==
    /\ parent.creation <= child.creation
    /\ child.creation <= snapshotTime

Top == stack[Len(stack)]

\* The child's PID is not visited yet and in use by a process that can be its
\* child; otherwise it is passed over (GoneOrReused).
VerifiedChild(c) ==
    /\ c \in DOMAIN proc \ visited
    /\ ValidEdge(Top.parent, IdentityOf(c))

\* The next child of the parent on top: passed over, descended into, or a fatal
\* error.
VisitChild(c) ==
    LET rest == [stack EXCEPT ![Len(stack)].children = @ \ {c}] IN
    /\ pc = "walk" /\ c \in Top.children
    /\ \/ /\ Accept /\ ~VerifiedChild(c)
          /\ stack' = rest
          /\ UNCHANGED <<visited, pc, report, rootHeld, targets>>
       \/ /\ Accept /\ VerifiedChild(c)
          /\ stack' = Append(rest, [parent |-> IdentityOf(c), children |-> ChildrenOf(c)])
          /\ visited' = visited \union {c}
          /\ UNCHANGED <<pc, report, rootHeld, targets>>
       \/ /\ Refuse /\ c \in DOMAIN proc \ visited
          /\ Report("treeFailed")
          /\ UNCHANGED <<stack, visited>>
    /\ UNCHANGED <<system, selection, listed, snapshotTime, order, next,
                   outcome, refreshed, killed>>

\* A parent follows its descendants in the order of termination.
LeaveParent ==
    /\ pc = "walk" /\ Top.children = {}
    /\ order' = Append(order, Top.parent)
    /\ stack' = SubSeq(stack, 1, Len(stack) - 1)
    /\ IF Len(stack) = 1
       THEN pc' = "open" /\ listed' = <<>> /\ visited' = {}     \* locals of the walk
       ELSE UNCHANGED <<pc, listed, visited>>
    /\ UNCHANGED <<system, refusals, selection, rootHeld, snapshotTime, next,
                   targets, result>>

-----------------------------------------------------------------------------
(* prepare_process_tree_termination, its second half, and the termination. *)

\* The next identity of order: the root's handle is taken over, a descendant
\* is opened; one that is gone or reused is left out, a refusal ends the
\* command before anything is terminated.
OpenTarget ==
    /\ pc = "open" /\ next <= Len(order)
    /\ \/ /\ order[next] = root \/ Opens(order[next])
          /\ Accept
          /\ targets' = Append(targets, order[next])
          /\ rootHeld' = (rootHeld /\ order[next] # root)
          /\ next' = next + 1
          /\ UNCHANGED <<pc, report>>
       \/ /\ order[next] # root /\ ~Opens(order[next])
          /\ Accept
          /\ next' = next + 1
          /\ UNCHANGED <<targets, rootHeld, pc, report>>
       \/ /\ order[next] # root /\ Opens(order[next])
          /\ Refuse /\ Report("treeFailed")
          /\ UNCHANGED next
    /\ UNCHANGED <<system, selection, listed, snapshotTime, stack, visited, order,
                   outcome, refreshed, killed>>

Prepared ==
    /\ pc = "open" /\ next > Len(order)
    /\ IF rootHeld THEN Report("treeFailed")
       ELSE pc' = "terminate" /\ UNCHANGED <<report, rootHeld, targets>>
    /\ UNCHANGED <<system, refusals, selection, walk, outcome, refreshed, killed>>

\* TerminateProcess on the next handle, which is then closed.  A process that
\* had ended by itself (WAIT_OBJECT_0) counts as completed.
TerminateTarget ==
    /\ pc = "terminate" /\ targets # <<>>
    /\ LET t == Head(targets) IN
       \/ /\ proc[t.pid].running /\ Accept
          /\ Kill(t.pid)
          /\ outcome' = [outcome EXCEPT !.success = TRUE, !.completed = TRUE]
       \/ /\ ~proc[t.pid].running /\ Accept
          /\ outcome' = [outcome EXCEPT !.completed = TRUE]
          /\ UNCHANGED <<killed, proc>>
       \/ /\ proc[t.pid].running /\ Refuse
          /\ outcome' = [outcome EXCEPT !.failure = TRUE,
                                        !.rootError = @ \/ t.pid = root.pid]
          /\ UNCHANGED <<killed, proc>>
    /\ targets' = Tail(targets)
    /\ UNCHANGED <<now, freed, born, pc, selection, rootHeld, walk,
                   report, refreshed>>

\* Mutant: the root's error is reported even if a descendant was ended.
VerdictOnTheRoot == IF outcome.rootError THEN "cantKill"
                    ELSE IF outcome.failure THEN "partial" ELSE "ok"
Verdict == IF outcome.rootError /\ ~outcome.success THEN "cantKill"
           ELSE IF outcome.failure THEN "partial" ELSE "ok"

\* The rest of kill_process_tree.
Conclude ==
    /\ pc = "terminate" /\ targets = <<>>
    /\ refreshed' = outcome.completed
    /\ Report(Verdict)
    /\ UNCHANGED <<system, refusals, selection, walk, outcome, killed>>

System == \/ Tick
          \/ \E c \in DOMAIN proc, p \in Pids : CreateProcess(c, p)
          \/ \E p \in DOMAIN proc : Exit(p)
          \/ \E p \in DOMAIN proc : FreePid(p)

Command == \/ OpenRoot \/ KillOne
           \/ ListProcesses \/ ReadSnapshotTime \/ ValidateRoot
           \/ \E c \in Pids : VisitChild(c)
           \/ LeaveParent
           \/ OpenTarget \/ Prepared \/ TerminateTarget \/ Conclude

Next == System \/ Command

Spec == Init /\ [][Next]_vars

-----------------------------------------------------------------------------
(* Properties. *)

\* Type invariant.  It includes what the handles are for: as long as one is
\* open, its PID belongs to the very process whose identity was verified.
TypeOK ==
    /\ now \in Times /\ freed \subseteq Pids /\ born \in 0..MaxBorn
    /\ refusals \in 0..MaxRefusals
    /\ DOMAIN proc \subseteq Pids /\ \A p \in DOMAIN proc : proc[p] \in Processes
    /\ pc \in {"confirm", "kill", "snapshot", "time", "validate", "walk", "open",
               "terminate", "done"}
    /\ report \in {"none", "ok", "cantKill", "treeFailed", "partial"}
    /\ (report = "none") = (pc # "done")
    /\ root \in Identities /\ rootHeld \in BOOLEAN /\ refreshed \in BOOLEAN
    /\ visited \subseteq Pids /\ next \in Nat /\ snapshotTime \in 0..MaxTime
    /\ \A p \in DOMAIN listed : p \in Pids /\ listed[p] \in Pids \union {NoPid}
    /\ \A i \in 1..Len(order) : order[i] \in Identities
    /\ rootHeld => root.pid \in DOMAIN proc /\ IdentityOf(root.pid) = root
    /\ \A i \in 1..Len(targets) : /\ targets[i].pid \in DOMAIN proc
                                  /\ IdentityOf(targets[i].pid) = targets[i]

\* Nothing is ended but the selected process and, for the tree, its
\* descendants, however PIDs were reused since the row was drawn.  Excepted is
\* a process started between the listing and the reading of its time, or in
\* that tick: its creation time cannot tell it from a listed one.
OnlyTheTree ==
    \A k \in killed :
        \/ k.who = root
        \/ /\ command = "TerminateTree"
           /\ k.kin \/ (k.late /\ k.who.creation <= snapshotTime)

\* "Leaves first", and whole families: a child of an ended process that runs on
\* was started after the listing, or the user is told of a failure.
FamiliesEndTogether ==
    command = "TerminateTree" =>
        \A p \in DOMAIN proc :
            LET parent == proc[p].parent IN
            /\ proc[p].running /\ ~proc[p].late
            /\ \/ \E k \in killed : k.who = parent
               \/ report = "ok" /\ \E i \in 1..Len(order) : order[i] = parent
            => outcome.failure

\* What the user sees is true: no message only if everything chosen has ended,
\* a failed preparation only if nothing was ended, and a refreshed list
\* whenever something was.
HonestReport ==
    /\ report = "ok" => /\ ~Running(root)
                        /\ \A i \in 1..Len(order) : ~Running(order[i])
    /\ report \in {"cantKill", "treeFailed"} => killed = {}
    /\ (report # "none" /\ killed # {}) => refreshed

\* Whole families end, leaves first, and the user is told what happened
\* (terminate_prepared_process_tree and its caller).
EndsWhatItReports == TypeOK /\ FamiliesEndTogether /\ HonestReport

\* "A descendant that disappeared or changed identity is no longer an
\* actionable target" (actions.rs, prepare_process_tree_termination): only the
\* selected process and its descendants are ever ended.
SparesTheOthers == \A k \in killed : k.kin

=============================================================================
