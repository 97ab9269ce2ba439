-------------------------- MODULE ProcessTreeProofs --------------------------
(***************************************************************************)
(* Proofs about ProcessTree for every set of PIDs and any number of ticks, *)
(* processes and refusals.                                                 *)
(***************************************************************************)
EXTENDS ProcessTree, SequenceTheorems, TLAPS

Frames == [parent : Identities, children : SUBSET Pids]
Outcomes == [success : BOOLEAN, completed : BOOLEAN, failure : BOOLEAN, rootError : BOOLEAN]

TypeInv ==
    /\ TypeOK
    /\ command \in {"Terminate", "TerminateTree"} /\ outcome \in Outcomes
    /\ stack \in Seq(Frames) /\ order \in Seq(Identities) /\ targets \in Seq(Identities)

\* Processes and their parents: a PID passes on only in a later tick, so that
\* whoever has the PID of a parent and is not younger than the child is that
\* parent, from whom the child has its kin and whose lateness it shares.
LivesInv ==
    /\ snapshotTime <= now
    /\ \A c \in DOMAIN proc :
         /\ proc[c].creation <= now
         /\ proc[c].late => pc \notin {"confirm", "snapshot"}
         /\ proc[c].parent.creation <= proc[c].creation
         /\ proc[c].parent.pid \in Pids \ (DOMAIN proc \union freed) => proc[c].creation < now
    /\ \A c \in DOMAIN proc : \A p \in DOMAIN proc : proc[c].parent.pid = p =>
         /\ proc[p].creation <= proc[c].creation => proc[c].parent = IdentityOf(p)
         /\ proc[c].parent = IdentityOf(p) =>
              (proc[p].kin => proc[c].kin) /\ (proc[p].late => proc[c].late)

\* The process an identity names may be ended, and no other will bear that name.
Good(p) == proc[p].kin \/ (proc[p].late /\ proc[p].creation <= snapshotTime)
Proper(i) ==
    /\ i.creation <= now
    /\ i.creation = now => i.pid \in DOMAIN proc \union freed
    /\ i.pid \in DOMAIN proc /\ proc[i.pid].creation = i.creation => Good(i.pid)

\* The processes there were when the tree was listed, of the PID of i and not
\* older than it, are of the tree.
Heirs(i) ==
    \A c \in DOMAIN proc :
      ~proc[c].late /\ proc[c].parent.pid = i.pid /\ i.creation <= proc[c].creation
        => proc[c].kin

ChosenInv ==
    /\ Proper(root)
    /\ \A j \in 1..Len(stack) : Proper(stack[j].parent) /\ Heirs(stack[j].parent)
    /\ \A j \in 1..Len(order) : Proper(order[j])
    /\ \A j \in 1..Len(targets) : Proper(targets[j])

\* The listing tells the parents of the processes it lists.
ListInv ==
    /\ pc \in {"confirm", "snapshot"} => DOMAIN listed = {}
    /\ \A c \in DOMAIN listed : c \in DOMAIN proc /\ ~proc[c].late
                                  => listed[c] = proc[c].parent.pid
    /\ \A j \in 1..Len(stack) : \A c \in stack[j].children :
         c \in DOMAIN listed /\ listed[c] = stack[j].parent.pid

\* The selected process is visited once and followed last, so that its handle is
\* there to be taken over.
WalkInv ==
    /\ pc \in {"kill", "snapshot", "time", "validate", "walk"} => rootHeld
    /\ pc \in {"confirm", "kill", "snapshot", "time", "validate"} =>
         stack = << >> /\ order = << >> /\ next = 1 /\ targets = << >>
    /\ pc = "walk" =>
         /\ Len(stack) > 0 /\ stack[1].parent = root /\ root.pid \in visited
         /\ next = 1 /\ targets = << >>
         /\ \A j \in 2..Len(stack) : stack[j].parent.pid # root.pid
         /\ \A j \in 1..Len(order) : order[j].pid # root.pid
    /\ pc = "open" =>
         /\ stack = << >> /\ Len(order) > 0 /\ order[Len(order)] = root
         /\ \A j \in 1..Len(order) - 1 : order[j] # root
         /\ next >= 1 /\ (next <= Len(order) => rootHeld)
    /\ pc \in {"snapshot", "time", "validate", "walk", "open", "terminate"} =>
         command = "TerminateTree"
    /\ killed # {} => pc \in {"terminate", "done"}

IInv == TypeInv /\ LivesInv /\ ListInv /\ ChosenInv /\ WalkInv /\ OnlyTheTree

-----------------------------------------------------------------------------
LEMMA InitSound == Init => IInv
<1> SUFFICES ASSUME Init PROVE IInv
  OBVIOUS
<1>1. PICK other \in Pids \ {Root}, c \in [{1, 2} -> Times], p \in {NoPid, Root} :
        /\ c[1] <= now /\ c[2] <= now
        /\ p = Root => c[2] < c[1]
        /\ proc = [q \in {Root, other} |->
                     IF q = Root
                     THEN [creation |-> c[1], kin |-> TRUE, late |-> FALSE,
                           parent |-> [pid |-> NoPid, creation |-> 0],
                           running |-> TRUE]
                     ELSE [creation |-> c[2], kin |-> FALSE, late |-> FALSE,
                           parent |-> [pid |-> p, creation |-> 0],
                           running |-> TRUE]]
        /\ root \in {[pid |-> Root, creation |-> c[1]], [pid |-> Root, creation |-> 0]}
  BY DEF Init
<1>2. /\ DOMAIN proc = {Root, other} /\ Root # other /\ Root \in Pids /\ other \in Pids
      /\ NoPid \notin Pids
      /\ now = 2 /\ c[1] \in Times /\ c[2] \in Times
      /\ proc[Root] = [creation |-> c[1], kin |-> TRUE, late |-> FALSE,
                       parent |-> [pid |-> NoPid, creation |-> 0], running |-> TRUE]
      /\ proc[other] = [creation |-> c[2], kin |-> FALSE, late |-> FALSE,
                        parent |-> [pid |-> p, creation |-> 0], running |-> TRUE]
  BY <1>1, ProcessTreeAssumption DEF Init
<1>3. /\ pc = "confirm" /\ stack = << >> /\ order = << >> /\ targets = << >> /\ next = 1
      /\ DOMAIN listed = {} /\ snapshotTime = 0 /\ killed = {} /\ freed = {}
      /\ Len(stack) = 0 /\ Len(order) = 0 /\ Len(targets) = 0
  BY DEF Init
<1>4. TypeInv
  <2>1. proc[Root] \in Processes /\ proc[other] \in Processes
    BY <1>1, <1>2, ProcessTreeAssumption DEF Processes, Identities, Times
  <2>2. root \in Identities
    BY <1>1, <1>2, ProcessTreeAssumption DEF Identities, Times
  <2>3. now \in Times /\ snapshotTime \in 0..MaxTime
    BY <1>2, <1>3, ProcessTreeAssumption DEF Times
  <2>4. outcome \in Outcomes
    BY DEF Init, NoOutcome, Outcomes
  <2>5. /\ report = "none" /\ visited = {} /\ born = 0 /\ refusals = 0
        /\ command \in {"Terminate", "TerminateTree"}
    BY DEF Init
  <2>7. rootHeld = FALSE /\ refreshed = FALSE
    BY DEF Init
  <2>8. born \in 0..MaxBorn /\ refusals \in 0..MaxRefusals
    BY <2>5, ProcessTreeAssumption
  <2>6. TypeOK
    <3>1. rootHeld \in BOOLEAN /\ refreshed \in BOOLEAN /\ ~rootHeld
      BY <2>7
    <3>2. (report = "none") = (pc # "done")
      BY <1>3, <2>5
    <3>3. /\ freed \subseteq Pids /\ visited \subseteq Pids /\ next \in Nat
          /\ \A q \in DOMAIN listed : q \in Pids /\ listed[q] \in Pids \union {NoPid}
          /\ \A j \in 1..Len(order) : order[j] \in Identities
          /\ \A j \in 1..Len(targets) : /\ targets[j].pid \in DOMAIN proc
                                        /\ IdentityOf(targets[j].pid) = targets[j]
      BY <1>3, <2>5
    <3> QED
      BY <1>2, <1>3, <2>1, <2>2, <2>3, <2>5, <2>8, <3>1, <3>2, <3>3 DEF TypeOK
  <2> QED
    BY <1>3, <2>4, <2>5, <2>6 DEF TypeInv
<1>5. LivesInv
  <2>1. c[1] \in Nat /\ c[2] \in Nat
    BY <1>2, ProcessTreeAssumption DEF Times
  <2> QED
    BY <1>1, <1>2, <1>3, <2>1 DEF LivesInv, IdentityOf
<1>6. ChosenInv
  <2>1. root.pid = Root /\ root.creation <= now
    BY <1>1, <1>2
  <2>2. Proper(root)
    BY <1>2, <2>1 DEF Proper, Good
  <2> QED
    BY <1>3, <2>2 DEF ChosenInv
<1>7. ListInv /\ WalkInv /\ OnlyTheTree
  BY <1>3 DEF ListInv, WalkInv, OnlyTheTree
<1> QED
  BY <1>4, <1>5, <1>6, <1>7 DEF IInv

-----------------------------------------------------------------------------
(* What a step does to the processes: a tick, a new process, a PID freed, or *)
(* processes that end, which changes nothing else about them.                *)

SameLives ==
    /\ now' = now /\ freed' = freed /\ DOMAIN proc' = DOMAIN proc
    /\ \A p \in DOMAIN proc :
         /\ proc'[p] \in Processes
         /\ proc'[p].creation = proc[p].creation /\ proc'[p].parent = proc[p].parent
         /\ proc'[p].kin = proc[p].kin /\ proc'[p].late = proc[p].late

OwnSteps == {"confirm", "kill", "snapshot", "time", "validate", "walk", "open", "terminate"}

LEMMA EndedAlone ==
  ASSUME TypeInv, NEW p \in DOMAIN proc, proc' = [proc EXCEPT ![p].running = FALSE],
         now' = now, freed' = freed
  PROVE  SameLives
<1>1. \A q \in DOMAIN proc : proc[q] \in Processes
  BY DEF TypeInv, TypeOK
<1>2. DOMAIN proc' = DOMAIN proc
  OBVIOUS
<1>3. ASSUME NEW q \in DOMAIN proc
      PROVE  /\ proc'[q] \in Processes
             /\ proc'[q].creation = proc[q].creation /\ proc'[q].parent = proc[q].parent
             /\ proc'[q].kin = proc[q].kin /\ proc'[q].late = proc[q].late
  <2>1. CASE q # p
    BY <1>1, <2>1
  <2>2. CASE q = p
    <3>1. proc'[q] = [proc[q] EXCEPT !.running = FALSE]
      BY <2>2
    <3> QED
      BY <1>1, <3>1 DEF Processes
  <2> QED
    BY <2>1, <2>2
<1> QED
  BY <1>2, <1>3 DEF SameLives

\* The processes of the command's own steps.
LEMMA CommandLives ==
  ASSUME IInv, Command
  PROVE  SameLives /\ born' = born
<1> USE DEF system
<1>0. TypeInv
  BY DEF IInv
<1>1. CASE UNCHANGED system
  <2>1. \A p \in DOMAIN proc : proc[p] \in Processes
    BY <1>0 DEF TypeInv, TypeOK
  <2> QED
    BY <1>1, <2>1 DEF SameLives
<1>2. CASE KillOne
  <2>1. now' = now /\ freed' = freed /\ born' = born
    BY <1>2 DEF KillOne
  <2>2. CASE proc' = proc
    BY <1>1, <2>1, <2>2
  <2>3. CASE Kill(root.pid)
    <3>1. root.pid \in DOMAIN proc
      BY <1>2 DEF IInv, WalkInv, TypeInv, TypeOK, KillOne
    <3> QED
      BY <1>0, <2>1, <2>3, <3>1, EndedAlone DEF Kill
  <2> QED
    BY <1>2, <2>2, <2>3 DEF KillOne
<1>3. CASE TerminateTarget
  <2>1. now' = now /\ freed' = freed /\ born' = born
    BY <1>3 DEF TerminateTarget
  <2>2. CASE proc' = proc
    BY <1>1, <2>1, <2>2
  <2>3. CASE Kill(Head(targets).pid)
    <3>1. targets # << >> /\ targets \in Seq(Identities)
      BY <1>0, <1>3 DEF TypeInv, TerminateTarget
    <3>2. Head(targets) = targets[1] /\ 1 \in 1..Len(targets)
      BY <3>1
    <3>3. Head(targets).pid \in DOMAIN proc
      BY <1>0, <3>2 DEF TypeInv, TypeOK
    <3> QED
      BY <1>0, <2>1, <2>3, <3>3, EndedAlone DEF Kill
  <2> QED
    BY <1>3, <2>2, <2>3 DEF TerminateTarget
<1>4. CASE OpenRoot \/ ListProcesses \/ ReadSnapshotTime \/ ValidateRoot \/ LeaveParent
           \/ OpenTarget \/ Prepared \/ Conclude \/ \E c \in Pids : VisitChild(c)
  BY <1>1, <1>4 DEF OpenRoot, ListProcesses, ReadSnapshotTime, ValidateRoot, LeaveParent,
                    OpenTarget, Prepared, Conclude, VisitChild
<1> QED
  BY <1>2, <1>3, <1>4 DEF Command

LEMMA NewProcess ==
  ASSUME TypeInv, NEW creator \in DOMAIN proc, NEW p \in Pids, CreateProcess(creator, p)
  PROVE  /\ p \notin DOMAIN proc /\ p \notin freed /\ DOMAIN proc' = DOMAIN proc \union {p}
         /\ proc'[p] \in Processes
         /\ proc'[p].creation = now /\ proc'[p].parent = IdentityOf(creator)
         /\ proc'[p].kin = proc[creator].kin
         /\ proc'[p].late = (pc \notin {"confirm", "snapshot"})
         /\ \A q \in DOMAIN proc : proc'[q] = proc[q]
         /\ now' = now /\ freed' = freed
<1>1. /\ p \notin DOMAIN proc /\ p \notin freed /\ DOMAIN proc' = DOMAIN proc \union {p}
      /\ \A q \in DOMAIN proc : proc'[q] = proc[q]
      /\ now' = now /\ freed' = freed
  BY DEF CreateProcess
<1>2. proc'[p] = [creation |-> now, parent |-> IdentityOf(creator),
                  kin |-> proc[creator].kin,
                  late |-> (pc \notin {"confirm", "snapshot"}), running |-> TRUE]
  BY DEF CreateProcess
<1>3. /\ now \in Times /\ proc[creator] \in Processes /\ creator \in Pids
  BY DEF TypeInv, TypeOK
<1>4. IdentityOf(creator) \in Identities
  BY <1>3, ProcessTreeAssumption DEF IdentityOf, Identities, Processes, Times
<1>5. proc[creator].kin \in BOOLEAN
  BY <1>3 DEF Processes
<1>6. proc'[p] \in Processes
  BY <1>2, <1>3, <1>4, <1>5 DEF Processes
<1> QED
  BY <1>1, <1>2, <1>6

LEMMA SystemTypes ==
  ASSUME IInv, [Next]_vars
  PROVE  /\ now' \in Times /\ freed' \subseteq Pids /\ born' \in 0..MaxBorn
         /\ refusals' \in 0..MaxRefusals
         /\ DOMAIN proc' \subseteq Pids /\ \A p \in DOMAIN proc' : proc'[p] \in Processes
<1>0. TypeInv
  BY DEF IInv
<1> USE ProcessTreeAssumption, <1>0 DEF system, TypeInv, TypeOK, Times
<1>1. CASE Tick
  BY <1>1 DEF Tick
<1>2. ASSUME NEW c \in DOMAIN proc, NEW p \in Pids, CreateProcess(c, p)
      PROVE  /\ now' \in Times /\ freed' \subseteq Pids /\ born' \in 0..MaxBorn
             /\ refusals' \in 0..MaxRefusals
             /\ DOMAIN proc' \subseteq Pids /\ \A q \in DOMAIN proc' : proc'[q] \in Processes
  <2>1. \A q \in DOMAIN proc : proc[q] \in Processes /\ q \in Pids
    OBVIOUS
  <2>3. /\ DOMAIN proc' = DOMAIN proc \union {p} /\ proc'[p] \in Processes
        /\ \A q \in DOMAIN proc : proc'[q] = proc[q]
    BY <1>2, <1>0, NewProcess
  <2>2. born' \in 0..MaxBorn /\ UNCHANGED <<now, freed, refusals>>
    BY <1>2 DEF CreateProcess
  <2> QED
    BY <2>1, <2>2, <2>3
<1>3. ASSUME NEW p \in DOMAIN proc, Exit(p)
      PROVE  SameLives /\ born' = born /\ refusals' = refusals
  BY <1>0, <1>3, EndedAlone DEF Exit
<1>4. ASSUME NEW p \in DOMAIN proc, FreePid(p)
      PROVE  /\ freed' \subseteq Pids /\ UNCHANGED <<now, born, refusals>>
             /\ DOMAIN proc' \subseteq Pids /\ \A q \in DOMAIN proc' : proc'[q] \in Processes
  BY <1>4 DEF FreePid
<1>5. CASE Command
  <2>1. refusals' \in 0..MaxRefusals
    <3>1. CASE OpenRoot \/ KillOne \/ ListProcesses \/ ValidateRoot
      BY <3>1 DEF OpenRoot, KillOne, ListProcesses, ValidateRoot, Refuse, Accept
    <3>2. CASE \E c \in Pids : VisitChild(c)
      BY <3>2 DEF VisitChild, Refuse, Accept
    <3>3. CASE OpenTarget
      BY <3>3 DEF OpenTarget, Refuse, Accept
    <3>4. CASE TerminateTarget
      BY <3>4 DEF TerminateTarget, Refuse, Accept
    <3>5. CASE ReadSnapshotTime \/ LeaveParent \/ Prepared \/ Conclude
      BY <3>5 DEF ReadSnapshotTime, LeaveParent, Prepared, Conclude
    <3> QED
      BY <1>5, <3>1, <3>2, <3>3, <3>4, <3>5 DEF Command
  <2> QED
    BY <1>5, <2>1, CommandLives DEF SameLives
<1>6. CASE UNCHANGED vars
  BY <1>6 DEF vars
<1> QED
  BY <1>1, <1>2, <1>3, <1>4, <1>5, <1>6 DEF Next, System, SameLives

-----------------------------------------------------------------------------
(* The command's own variables and its handles.                             *)

Resting == UNCHANGED <<pc, selection, rootHeld, walk, targets, result>>

LEMMA SystemRests ==
  ASSUME System \/ UNCHANGED vars PROVE Resting
BY DEF System, Tick, CreateProcess, Exit, FreePid, vars, Resting

Walked ==
    /\ root \in Identities /\ command \in {"Terminate", "TerminateTree"}
    /\ visited \subseteq Pids /\ next \in Nat /\ snapshotTime \in 0..MaxTime
    /\ \A p \in DOMAIN listed : p \in Pids /\ listed[p] \in Pids \union {NoPid}
    /\ stack \in Seq(Frames) /\ order \in Seq(Identities)

\* A child leaves the frame on top.
LEMMA RestOfTop ==
  ASSUME stack \in Seq(Frames), Len(stack) > 0, NEW c, NEW rest,
         rest = [stack EXCEPT ![Len(stack)].children = @ \ {c}]
  PROVE  /\ rest \in Seq(Frames) /\ Len(rest) = Len(stack)
         /\ \A j \in 1..Len(stack) : /\ rest[j].parent = stack[j].parent
                                     /\ rest[j].children \subseteq stack[j].children
<1> DEFINE top == stack[Len(stack)]
           lesser == [top EXCEPT !.children = @ \ {c}]
<1>1. Len(stack) \in 1..Len(stack) /\ top \in Frames
  OBVIOUS
<1>2. lesser \in Frames /\ lesser.parent = top.parent /\ lesser.children = top.children \ {c}
  BY <1>1 DEF Frames
<1>3. rest = [stack EXCEPT ![Len(stack)] = lesser]
  BY <1>1
<1> HIDE DEF lesser
<1>4. /\ rest \in Seq(Frames) /\ Len(rest) = Len(stack)
      /\ \A j \in 1..Len(stack) : rest[j] = IF j = Len(stack) THEN lesser ELSE stack[j]
  <2>1. /\ [stack EXCEPT ![Len(stack)] = lesser] \in Seq(Frames)
        /\ Len([stack EXCEPT ![Len(stack)] = lesser]) = Len(stack)
        /\ \A j \in 1..Len(stack) : [stack EXCEPT ![Len(stack)] = lesser][j]
                                       = IF j = Len(stack) THEN lesser ELSE stack[j]
    BY <1>1, <1>2, ExceptSeq
  <2> QED
    BY <1>3, <2>1
<1> QED
  BY <1>2, <1>4

LEMMA WalkedSound == IInv /\ [Next]_vars => Walked'
<1> SUFFICES ASSUME IInv, [Next]_vars PROVE Walked'
  OBVIOUS
<1> USE DEF selection, walk, result, system
<1>0. TypeInv /\ Walked
  BY DEF IInv, TypeInv, TypeOK, Walked
<1>1. CASE UNCHANGED <<selection, walk>>
  BY <1>0, <1>1 DEF Walked
<1>2. CASE System \/ UNCHANGED vars
  BY <1>1, <1>2, SystemRests DEF Resting
<1>3. CASE OpenRoot \/ KillOne \/ Prepared \/ TerminateTarget \/ Conclude
  BY <1>1, <1>3 DEF OpenRoot, KillOne, Prepared, TerminateTarget, Conclude
<1>4. CASE ListProcesses
  <2>1. UNCHANGED <<selection, snapshotTime, stack, visited, order, next>>
    BY <1>4 DEF ListProcesses
  <2>2. \A p \in DOMAIN listed' : p \in Pids /\ listed'[p] \in Pids \union {NoPid}
    <3>1. CASE listed' = listed
      BY <1>0, <3>1 DEF Walked
    <3>2. ASSUME NEW shown \in SUBSET {p \in DOMAIN proc : ~proc[p].running},
                 listed' = [p \in {q \in DOMAIN proc : proc[q].running} \union shown |->
                              proc[p].parent.pid]
          PROVE  \A p \in DOMAIN listed' : p \in Pids /\ listed'[p] \in Pids \union {NoPid}
      <4>1. \A p \in DOMAIN proc : p \in Pids /\ proc[p].parent.pid \in Pids \union {NoPid}
        BY <1>0 DEF TypeInv, TypeOK, Processes, Identities
      <4> QED
        BY <3>2, <4>1
    <3> QED
      BY <1>4, <3>1, <3>2 DEF ListProcesses
  <2> QED
    BY <1>0, <2>1, <2>2 DEF Walked
<1>5. CASE ReadSnapshotTime
  <2>1. now \in 0..MaxTime
    BY <1>0, ProcessTreeAssumption DEF TypeInv, TypeOK, Times
  <2> QED
    BY <1>0, <1>5, <2>1 DEF Walked, ReadSnapshotTime
<1>6. CASE ValidateRoot
  <2>1. UNCHANGED <<selection, listed, snapshotTime, order, next>>
    BY <1>6 DEF ValidateRoot
  <2>2. UNCHANGED <<stack, visited>> \/ Descend(root)
    BY <1>6 DEF ValidateRoot
  <2>3. CASE Descend(root)
    <3>1. root \in Identities /\ IInv /\ pc = "validate"
      BY <1>0, <1>6 DEF Walked, ValidateRoot
    <3>2. root.pid \in Pids
      BY <1>0, <3>1 DEF IInv, WalkInv, TypeInv, TypeOK
    <3>3. ChildrenOf(root.pid) \subseteq Pids
      BY <1>0 DEF Walked, ChildrenOf
    <3>4. [parent |-> root, children |-> ChildrenOf(root.pid)] \in Frames
      BY <3>1, <3>3 DEF Frames
    <3> QED
      BY <1>0, <2>1, <2>3, <3>2, <3>4 DEF Walked, Descend
  <2> QED
    BY <1>0, <2>1, <2>2, <2>3 DEF Walked
<1>7. ASSUME NEW c \in Pids, VisitChild(c) PROVE Walked'
  <2>1. UNCHANGED <<selection, listed, snapshotTime, order, next>>
    BY <1>7 DEF VisitChild
  <2>2. Len(stack) \in Nat /\ Len(stack) > 0 /\ Top \in Frames
    BY <1>0, <1>7 DEF VisitChild, Walked, IInv, WalkInv, Top
  <2> DEFINE rest == [stack EXCEPT ![Len(stack)].children = @ \ {c}]
  <2>3. rest \in Seq(Frames)
    BY <1>0, <2>2, RestOfTop DEF Walked
  <2> HIDE DEF rest
  <2>4. CASE stack' = rest /\ visited' = visited
    BY <1>0, <2>1, <2>3, <2>4 DEF Walked
  <2>5. CASE /\ VerifiedChild(c) /\ visited' = visited \union {c}
             /\ stack' = Append(rest, [parent |-> IdentityOf(c), children |-> ChildrenOf(c)])
    <3>1. proc[c] \in Processes
      BY <1>0, <2>5 DEF VerifiedChild, TypeInv, TypeOK
    <3>2. IdentityOf(c) \in Identities
      BY <3>1, ProcessTreeAssumption DEF IdentityOf, Identities, Processes, Times
    <3>3. ChildrenOf(c) \subseteq Pids
      BY <1>0 DEF Walked, ChildrenOf
    <3>4. [parent |-> IdentityOf(c), children |-> ChildrenOf(c)] \in Frames
      BY <3>2, <3>3 DEF Frames
    <3> QED
      BY <1>0, <2>1, <2>3, <2>5, <3>4 DEF Walked
  <2>6. CASE UNCHANGED <<stack, visited>>
    BY <1>0, <2>1, <2>6 DEF Walked
  <2> QED
    BY <1>7, <2>4, <2>5, <2>6 DEF VisitChild, rest
<1>8. CASE LeaveParent
  <2>1. Len(stack) \in Nat /\ Len(stack) > 0 /\ Top \in Frames /\ pc = "walk"
    BY <1>0, <1>8 DEF LeaveParent, Walked, IInv, WalkInv, Top
  <2>2. order' \in Seq(Identities)
    BY <1>0, <1>8, <2>1 DEF LeaveParent, Walked, Frames
  <2>3. stack' \in Seq(Frames)
    BY <1>0, <1>8, <2>1 DEF LeaveParent, Walked
  <2>4. \/ UNCHANGED <<listed, visited>>
        \/ listed' = << >> /\ visited' = {}
    BY <1>8 DEF LeaveParent
  <2>5. UNCHANGED <<selection, snapshotTime, next>>
    BY <1>8 DEF LeaveParent
  <2> QED
    BY <1>0, <2>2, <2>3, <2>4, <2>5 DEF Walked
<1>9. CASE OpenTarget
  <2>1. UNCHANGED <<selection, listed, snapshotTime, stack, visited, order>>
    BY <1>9 DEF OpenTarget
  <2>2. next' \in Nat
    BY <1>0, <1>9 DEF OpenTarget, Walked
  <2> QED
    BY <1>0, <2>1, <2>2 DEF Walked
<1> QED
  BY <1>2, <1>3, <1>4, <1>5, <1>6, <1>7, <1>8, <1>9 DEF Next, Command

Told ==
    /\ pc \in OwnSteps \union {"done"}
    /\ report \in {"none", "ok", "cantKill", "treeFailed", "partial"}
    /\ report = "none" <=> pc # "done"
    /\ rootHeld \in BOOLEAN /\ refreshed \in BOOLEAN /\ outcome \in Outcomes

LEMMA ToldSound == IInv /\ [Next]_vars => Told'
<1> SUFFICES ASSUME IInv, [Next]_vars PROVE Told'
  OBVIOUS
<1> USE DEF selection, walk, result, system, OwnSteps
<1>0. TypeInv /\ Told
  BY DEF IInv, TypeInv, TypeOK, Told
<1>1. CASE System \/ UNCHANGED vars
  BY <1>0, <1>1, SystemRests DEF Resting, Told
<1>2. ASSUME NEW what \in {"ok", "cantKill", "treeFailed", "partial"}, Report(what),
             refreshed' \in BOOLEAN, outcome' \in Outcomes
      PROVE  Told'
  BY <1>2 DEF Report, Told
<1>3. ASSUME pc # "done", pc' \in OwnSteps, report' = report, rootHeld' \in BOOLEAN,
             refreshed' \in BOOLEAN, outcome' \in Outcomes
      PROVE  Told'
  BY <1>0, <1>3 DEF Told
<1>4. refreshed' = refreshed => refreshed' \in BOOLEAN
  BY <1>0 DEF Told
<1>5. outcome' = outcome => outcome' \in Outcomes
  BY <1>0 DEF Told
<1>6. rootHeld' = rootHeld => rootHeld' \in BOOLEAN
  BY <1>0 DEF Told
<1>7. CASE OpenRoot
  BY <1>2, <1>3, <1>4, <1>5, <1>7 DEF OpenRoot
<1>8. CASE KillOne
  <2>1. refreshed' \in BOOLEAN
    BY <1>4, <1>8 DEF KillOne
  <2> QED
    BY <1>2, <1>5, <1>8, <2>1 DEF KillOne
<1>9. CASE ListProcesses
  BY <1>2, <1>3, <1>4, <1>5, <1>6, <1>9 DEF ListProcesses
<1>10. CASE ReadSnapshotTime
  BY <1>3, <1>4, <1>5, <1>6, <1>10 DEF ReadSnapshotTime
<1>11. CASE ValidateRoot
  BY <1>2, <1>3, <1>4, <1>5, <1>6, <1>11 DEF ValidateRoot
<1>12. ASSUME NEW c \in Pids, VisitChild(c) PROVE Told'
  <2>1. pc = "walk" /\ UNCHANGED <<outcome, refreshed>>
    BY <1>12 DEF VisitChild
  <2>2. UNCHANGED <<pc, report, rootHeld>> \/ Report("treeFailed")
    BY <1>12 DEF VisitChild
  <2> QED
    BY <1>2, <1>3, <1>4, <1>5, <1>6, <2>1, <2>2
<1>13. CASE LeaveParent
  <2>1. pc = "walk" /\ pc' \in OwnSteps /\ UNCHANGED <<report, rootHeld, outcome, refreshed>>
    BY <1>13 DEF LeaveParent
  <2> QED
    BY <1>3, <1>4, <1>5, <1>6, <2>1
<1>14. CASE OpenTarget
  <2>1. pc = "open" /\ UNCHANGED <<outcome, refreshed>>
    BY <1>14 DEF OpenTarget
  <2>2. \/ UNCHANGED <<pc, report, rootHeld>>
        \/ UNCHANGED <<pc, report>> /\ rootHeld' = (rootHeld /\ order[next] # root)
        \/ Report("treeFailed")
    BY <1>14 DEF OpenTarget
  <2>3. rootHeld' = (rootHeld /\ order[next] # root) => rootHeld' \in BOOLEAN
    OBVIOUS
  <2> QED
    BY <1>2, <1>3, <1>4, <1>5, <1>6, <2>1, <2>2, <2>3
<1>15. CASE Prepared
  BY <1>2, <1>3, <1>4, <1>5, <1>6, <1>15 DEF Prepared
<1>16. CASE TerminateTarget
  <2>1. pc = "terminate" /\ UNCHANGED <<pc, report, rootHeld, refreshed>>
    BY <1>16 DEF TerminateTarget
  <2>2. \/ outcome' = [outcome EXCEPT !.success = TRUE, !.completed = TRUE]
        \/ outcome' = [outcome EXCEPT !.completed = TRUE]
        \/ outcome' = [outcome EXCEPT !.failure = TRUE,
                                      !.rootError = @ \/ Head(targets).pid = root.pid]
    BY <1>16 DEF TerminateTarget
  <2>3. outcome' \in Outcomes
    <3>1. outcome \in Outcomes
      BY <1>0 DEF Told
    <3>2. [outcome EXCEPT !.success = TRUE, !.completed = TRUE] \in Outcomes
      BY <3>1 DEF Outcomes
    <3>3. [outcome EXCEPT !.completed = TRUE] \in Outcomes
      BY <3>1 DEF Outcomes
    <3>4. [outcome EXCEPT !.failure = TRUE,
                          !.rootError = @ \/ Head(targets).pid = root.pid] \in Outcomes
      BY <3>1 DEF Outcomes
    <3> QED
      BY <2>2, <3>2, <3>3, <3>4
  <2> QED
    BY <1>3, <1>4, <1>6, <2>1, <2>3
<1>17. CASE Conclude
  <2>1. refreshed' \in BOOLEAN
    <3>1. outcome.completed \in BOOLEAN
      BY <1>0 DEF Told, Outcomes
    <3> QED
      BY <1>17, <3>1 DEF Conclude
  <2>2. Verdict \in {"ok", "cantKill", "treeFailed", "partial"}
    BY DEF Verdict
  <2> QED
    BY <1>2, <1>5, <1>17, <2>1, <2>2 DEF Conclude
<1> QED
  BY <1>1, <1>7, <1>8, <1>9, <1>10, <1>11, <1>12, <1>13, <1>14, <1>15, <1>16, <1>17
     DEF Next, Command

-----------------------------------------------------------------------------
\* A handle keeps the process it was opened for.
Handles ==
    /\ rootHeld => root.pid \in DOMAIN proc /\ IdentityOf(root.pid) = root
    /\ targets \in Seq(Identities)
    /\ \A i \in 1..Len(targets) : targets[i].pid \in DOMAIN proc
                                  /\ IdentityOf(targets[i].pid) = targets[i]

LEMMA HandlesSound == IInv /\ [Next]_vars => Handles'
<1> SUFFICES ASSUME IInv, [Next]_vars PROVE Handles'
  OBVIOUS
<1> USE DEF selection, walk, result, system
<1>0. TypeInv /\ Handles
  BY DEF IInv, TypeInv, TypeOK, Handles
<1>R. root' = root
  BY SystemRests DEF Resting, Next, Command, OpenRoot, KillOne, ListProcesses, ReadSnapshotTime,
     ValidateRoot, VisitChild, LeaveParent, OpenTarget, Prepared, TerminateTarget, Conclude
<1> DEFINE Stays == \A p \in HeldPids : p \in DOMAIN proc'
                       /\ proc'[p].creation = proc[p].creation
       Kept(i) == i.pid \in DOMAIN proc' /\ [pid |-> i.pid, creation |-> proc'[i.pid].creation] = i
<1>S. ASSUME NEW i, i.pid \in HeldPids, IdentityOf(i.pid) = i, Stays
      PROVE  Kept(i)
  BY <1>S DEF IdentityOf
<1>1. Stays
  <2>0. HeldPids \subseteq DOMAIN proc
    BY <1>0 DEF HeldPids, Handles
  <2>1. CASE Tick \/ UNCHANGED vars
    BY <2>0, <2>1 DEF Tick, vars
  <2>2. ASSUME NEW c \in DOMAIN proc, NEW p \in Pids, CreateProcess(c, p) PROVE Stays
    BY <1>0, <2>0, <2>2, NewProcess
  <2>3. ASSUME NEW p \in DOMAIN proc, Exit(p) PROVE Stays
    BY <1>0, <2>0, <2>3, EndedAlone DEF Exit, SameLives
  <2>4. ASSUME NEW p \in DOMAIN proc, FreePid(p) PROVE Stays
    BY <2>0, <2>4 DEF FreePid
  <2>5. CASE Command
    BY <2>0, <2>5, CommandLives DEF SameLives
  <2> QED
    BY <2>1, <2>2, <2>3, <2>4, <2>5 DEF Next, System
<1>2. rootHeld => Kept(root)
  BY <1>0, <1>1, <1>S DEF Handles, HeldPids
<1>3. \A j \in 1..Len(targets) : Kept(targets[j])
  <2> SUFFICES ASSUME NEW j \in 1..Len(targets) PROVE Kept(targets[j])
    OBVIOUS
  <2>1. targets[j].pid \in HeldPids /\ IdentityOf(targets[j].pid) = targets[j]
    BY <1>0 DEF Handles, HeldPids
  <2> QED
    BY <1>1, <1>S, <2>1
<1> HIDE DEF Stays
<1>4. CASE (rootHeld' => rootHeld) /\ targets' = targets
  BY <1>0, <1>R, <1>2, <1>3, <1>4 DEF Handles, IdentityOf
<1>5. CASE ~rootHeld' /\ targets' = << >>
  BY <1>5 DEF Handles
<1>6. CASE System \/ UNCHANGED vars
  BY <1>4, <1>6, SystemRests DEF Resting
<1>7. CASE OpenRoot
  <2>1. CASE Opens(root) /\ rootHeld' = TRUE /\ UNCHANGED <<proc, targets>>
    <3>1. root \in Identities
      BY <1>0 DEF TypeInv, TypeOK
    <3>2. IdentityOf(root.pid) = root /\ root.pid \in DOMAIN proc
      BY <2>1, <3>1 DEF Opens, IdentityOf, Identities
    <3> QED
      BY <1>0, <1>R, <1>3, <2>1, <3>2 DEF Handles, IdentityOf
  <2>2. CASE Report("cantKill")
    BY <1>5, <2>2 DEF Report
  <2> QED
    BY <1>7, <2>1, <2>2 DEF OpenRoot
<1>8. CASE KillOne \/ Conclude
  BY <1>5, <1>8 DEF KillOne, Conclude, Report
<1>9. CASE ListProcesses \/ ReadSnapshotTime \/ ValidateRoot \/ LeaveParent \/ Prepared
  BY <1>4, <1>5, <1>9 DEF ListProcesses, ReadSnapshotTime, ValidateRoot, LeaveParent,
                          Prepared, Report
<1>10. ASSUME NEW c \in Pids, VisitChild(c) PROVE Handles'
  BY <1>4, <1>5, <1>10 DEF VisitChild, Report
<1>11. CASE OpenTarget
  <2>1. CASE UNCHANGED <<targets, rootHeld>>
    BY <1>4, <2>1
  <2>2. CASE Report("treeFailed")
    BY <1>5, <2>2 DEF Report
  <2>3. CASE /\ order[next] = root \/ Opens(order[next])
             /\ targets' = Append(targets, order[next])
             /\ rootHeld' = (rootHeld /\ order[next] # root)
    <3>1. pc = "open" /\ next \in 1..Len(order) /\ proc' = proc
      BY <1>0, <1>11 DEF OpenTarget, IInv, WalkInv, TypeInv, TypeOK
    <3>2. order[next] \in Identities
      BY <1>0, <3>1 DEF TypeInv
    <3>3. order[next].pid \in DOMAIN proc /\ IdentityOf(order[next].pid) = order[next]
      <4>1. CASE order[next] = root
        BY <1>0, <3>1, <4>1 DEF IInv, WalkInv, Handles
      <4>2. CASE Opens(order[next])
        BY <3>2, <4>2 DEF Opens, IdentityOf, Identities
      <4> QED
        BY <2>3, <4>1, <4>2
    <3>4. rootHeld' => rootHeld
      BY <2>3
    <3>5. targets \in Seq(Identities) /\ targets' \in Seq(Identities)
          /\ Len(targets') = Len(targets) + 1
      BY <1>0, <2>3, <3>2 DEF Handles
    <3>6. ASSUME NEW j \in 1..Len(targets') PROVE targets'[j].pid \in DOMAIN proc
                                                  /\ IdentityOf(targets'[j].pid) = targets'[j]
      BY <1>0, <2>3, <3>3, <3>5 DEF Handles
    <3> QED
      BY <1>R, <1>2, <3>1, <3>4, <3>5, <3>6 DEF Handles, IdentityOf
  <2> QED
    BY <1>11, <2>1, <2>2, <2>3 DEF OpenTarget
<1>12. CASE TerminateTarget
  <2>1. targets # << >> /\ targets' = Tail(targets) /\ rootHeld' = rootHeld
    BY <1>12 DEF TerminateTarget
  <2>2. targets \in Seq(Identities) /\ targets' \in Seq(Identities)
        /\ Len(targets') = Len(targets) - 1
    BY <1>0, <2>1 DEF Handles
  <2>3. \A j \in 1..Len(targets') : j + 1 \in 1..Len(targets) /\ targets'[j] = targets[j + 1]
    BY <2>1, <2>2
  <2> QED
    BY <1>R, <1>2, <1>3, <2>1, <2>2, <2>3 DEF Handles, IdentityOf
<1> QED
  BY <1>6, <1>7, <1>8, <1>9, <1>10, <1>11, <1>12 DEF Next, Command

LEMMA TypeSound == IInv /\ [Next]_vars => TypeInv'
<1> SUFFICES ASSUME IInv, [Next]_vars PROVE TypeInv'
  OBVIOUS
<1>1. Walked' /\ Told' /\ Handles'
  BY WalkedSound, ToldSound, HandlesSound
<1>2. /\ now' \in Times /\ freed' \subseteq Pids /\ born' \in 0..MaxBorn
      /\ refusals' \in 0..MaxRefusals
      /\ DOMAIN proc' \subseteq Pids /\ \A p \in DOMAIN proc' : proc'[p] \in Processes
  BY SystemTypes
<1>3. \A j \in 1..Len(order') : order'[j] \in Identities
  BY <1>1 DEF Walked
<1>4. (report' = "none") = (pc' # "done")
  BY <1>1 DEF Told
<1>5. rootHeld' \in BOOLEAN /\ refreshed' \in BOOLEAN /\ outcome' \in Outcomes
  BY <1>1 DEF Told
<1>6. TypeOK'
  BY <1>1, <1>2, <1>3, <1>4, <1>5 DEF TypeOK, Walked, Told, Handles, OwnSteps
<1> QED
  BY <1>1, <1>5, <1>6 DEF TypeInv, Walked, Handles

-----------------------------------------------------------------------------
(* PIDs and parents.                                                        *)

Early == {"confirm", "snapshot"}

LEMMA Onward ==
  ASSUME IInv, [Next]_vars
  PROVE  /\ root' = root /\ command' = command
         /\ pc' \in Early => pc \in Early
         /\ snapshotTime' = snapshotTime \/ snapshotTime' = now
<1> USE DEF selection, walk, result, system, Early
<1>1. CASE System \/ UNCHANGED vars
  BY <1>1, SystemRests DEF Resting
<1>2. CASE OpenRoot \/ KillOne \/ ListProcesses \/ ReadSnapshotTime \/ ValidateRoot
  BY <1>2 DEF OpenRoot, KillOne, ListProcesses, ReadSnapshotTime, ValidateRoot, Report
<1>3. CASE (\E c \in Pids : VisitChild(c)) \/ LeaveParent
  BY <1>3 DEF VisitChild, LeaveParent, Report
<1>4. CASE OpenTarget \/ Prepared \/ TerminateTarget \/ Conclude
  BY <1>4 DEF OpenTarget, Prepared, TerminateTarget, Conclude, Report
<1> QED
  BY <1>1, <1>2, <1>3, <1>4 DEF Next, Command

\* The four ways processes change.
LEMMA Ways ==
  ASSUME IInv, [Next]_vars
  PROVE  \/ Tick
         \/ \E c \in DOMAIN proc, p \in Pids : CreateProcess(c, p)
         \/ \E p \in DOMAIN proc : FreePid(p)
         \/ SameLives
<1>0. TypeInv
  BY DEF IInv
<1>1. ASSUME NEW p \in DOMAIN proc, Exit(p) PROVE SameLives
  BY <1>0, <1>1, EndedAlone DEF Exit
<1>2. CASE UNCHANGED vars
  BY <1>0, <1>2 DEF vars, system, SameLives, TypeInv, TypeOK
<1> QED
  BY <1>1, <1>2, CommandLives DEF Next, System

LEMMA LivesSound == IInv /\ [Next]_vars => LivesInv'
<1> SUFFICES ASSUME IInv, [Next]_vars PROVE LivesInv'
  OBVIOUS
<1>0. TypeInv /\ LivesInv /\ TypeInv'
  BY TypeSound DEF IInv
<1>N. /\ now \in Nat /\ now' \in Nat /\ snapshotTime \in Nat /\ snapshotTime' \in Nat
      /\ \A p \in DOMAIN proc : /\ proc[p].creation \in Nat /\ proc[p].parent.creation \in Nat
                                /\ proc[p].kin \in BOOLEAN /\ proc[p].late \in BOOLEAN
                                /\ proc[p].parent \in Identities /\ p \in Pids
  BY SMTT(60), <1>0, ProcessTreeAssumption DEF TypeInv, TypeOK, Times, Processes, Identities
<1>O. (pc' \in Early => pc \in Early) /\ (snapshotTime' = snapshotTime \/ snapshotTime' = now)
  BY Onward
<1>T. now <= now' => snapshotTime' <= now'
  BY <1>0, <1>N, <1>O DEF LivesInv
<1>1. CASE SameLives
  BY <1>0, <1>N, <1>O, <1>T, <1>1 DEF SameLives, LivesInv, IdentityOf, Early
<1>2. CASE Tick
  <2>1. now' = now + 1 /\ proc' = proc /\ freed' = {} /\ pc' = pc
    BY <1>2 DEF Tick
  <2> QED
    BY <1>0, <1>N, <1>T, <2>1 DEF LivesInv, IdentityOf
<1>3. ASSUME NEW p \in DOMAIN proc, FreePid(p) PROVE LivesInv'
  <2>1. /\ now' = now /\ freed' = freed \union {p} /\ pc' = pc
        /\ DOMAIN proc' = DOMAIN proc \ {p} /\ \A q \in DOMAIN proc' : proc'[q] = proc[q]
    BY <1>3 DEF FreePid
  <2> QED
    BY <1>0, <1>N, <1>T, <2>1 DEF LivesInv, IdentityOf
<1>4. ASSUME NEW creator \in DOMAIN proc, NEW p \in Pids, CreateProcess(creator, p)
      PROVE  LivesInv'
  <2>1. /\ p \notin DOMAIN proc /\ p \notin freed /\ DOMAIN proc' = DOMAIN proc \union {p}
        /\ proc'[p].creation = now /\ proc'[p].parent = IdentityOf(creator)
        /\ proc'[p].kin = proc[creator].kin
        /\ proc'[p].late = (pc \notin Early)
        /\ \A q \in DOMAIN proc : proc'[q] = proc[q]
        /\ now' = now /\ freed' = freed
    BY <1>0, <1>4, NewProcess DEF Early
  <2>2. pc' = pc
    BY <1>4 DEF CreateProcess
  <2>3. ASSUME NEW c \in DOMAIN proc'
        PROVE  /\ proc'[c].creation <= now
               /\ proc'[c].late => pc \notin Early
               /\ proc'[c].parent.creation <= proc'[c].creation
               /\ proc'[c].parent.pid \in Pids \ (DOMAIN proc' \union freed)
                    => proc'[c].creation < now
    <3>1. CASE c = p
      <4>1. proc[creator].creation <= now
        BY <1>0 DEF LivesInv
      <4>2. proc'[c].parent.pid = creator /\ proc'[c].parent.creation = proc[creator].creation
        BY <2>1, <3>1 DEF IdentityOf
      <4>3. proc'[c].late => pc \notin Early
        BY <2>1, <3>1
      <4> QED
        BY <1>N, <2>1, <3>1, <4>1, <4>2, <4>3
    <3>2. CASE c # p
      BY <1>0, <1>N, <2>1, <3>2 DEF LivesInv, Early
    <3> QED
      BY <3>1, <3>2
  <2>4. ASSUME NEW c \in DOMAIN proc', NEW x \in DOMAIN proc', proc'[c].parent.pid = x
        PROVE  LET i == [pid |-> x, creation |-> proc'[x].creation] IN
               /\ proc'[x].creation <= proc'[c].creation => proc'[c].parent = i
               /\ proc'[c].parent = i =>
                    (proc'[x].kin => proc'[c].kin) /\ (proc'[x].late => proc'[c].late)
    <3>1. CASE c = p
      <4>1. x = creator /\ x # p
        BY <2>1, <2>4, <3>1 DEF IdentityOf
      <4>2. proc[x].late => pc \notin Early
        BY <1>0, <4>1 DEF LivesInv, Early
      <4> QED
        BY <2>1, <3>1, <4>1, <4>2 DEF IdentityOf
    <3>2. CASE c # p /\ x = p
      <4>1. proc[c].creation < now /\ proc[c].parent.creation <= proc[c].creation
        BY <1>0, <2>1, <2>4, <3>2 DEF LivesInv
      <4> QED
        BY <1>N, <2>1, <3>2, <4>1
    <3>3. CASE c # p /\ x # p
      BY <1>0, <2>1, <2>4, <3>3 DEF LivesInv, IdentityOf
    <3> QED
      BY <3>1, <3>2, <3>3
  <2> QED
    BY <1>T, <1>N, <2>1, <2>2, <2>3, <2>4 DEF LivesInv, IdentityOf, Early
<1> QED
  BY <1>1, <1>2, <1>3, <1>4, Ways

-----------------------------------------------------------------------------
(* What was found proper to end stays so.                                   *)

LEMMA ProperKept ==
  ASSUME IInv, [Next]_vars, NEW i \in Identities, Proper(i)
  PROVE  LET age == i.creation IN
         /\ age <= now'
         /\ age = now' => i.pid \in DOMAIN proc' \union freed'
         /\ i.pid \in DOMAIN proc' /\ proc'[i.pid].creation = age =>
              \/ proc'[i.pid].kin
              \/ proc'[i.pid].late /\ proc'[i.pid].creation <= snapshotTime'
<1>0. TypeInv /\ LivesInv /\ TypeInv'
  BY TypeSound DEF IInv
<1>N. /\ now \in Nat /\ now' \in Nat /\ snapshotTime \in Nat /\ snapshotTime' \in Nat
      /\ i.creation \in Nat /\ \A p \in DOMAIN proc : proc[p].creation \in Nat
  BY SMTT(60), <1>0, ProcessTreeAssumption DEF TypeInv, TypeOK, Times, Processes, Identities
<1>O. snapshotTime <= snapshotTime'
  BY <1>0, <1>N, Onward DEF LivesInv
<1>P. /\ i.creation <= now
      /\ i.creation = now => i.pid \in DOMAIN proc \union freed
      /\ i.pid \in DOMAIN proc /\ proc[i.pid].creation = i.creation =>
           proc[i.pid].kin \/ (proc[i.pid].late /\ proc[i.pid].creation <= snapshotTime)
  BY DEF Proper, Good
<1>1. CASE SameLives
  BY <1>N, <1>O, <1>P, <1>1 DEF SameLives
<1>2. CASE Tick
  <2>1. now' = now + 1 /\ proc' = proc
    BY <1>2 DEF Tick
  <2> QED
    BY <1>N, <1>O, <1>P, <2>1
<1>3. ASSUME NEW p \in DOMAIN proc, FreePid(p)
      PROVE  /\ now' = now /\ freed' = freed \union {p}
             /\ DOMAIN proc' = DOMAIN proc \ {p} /\ \A q \in DOMAIN proc' : proc'[q] = proc[q]
  BY <1>3 DEF FreePid
<1>4. CASE \E p \in DOMAIN proc : FreePid(p)
  <2>1. PICK p \in DOMAIN proc :
          /\ now' = now /\ freed' = freed \union {p}
          /\ DOMAIN proc' = DOMAIN proc \ {p} /\ \A q \in DOMAIN proc' : proc'[q] = proc[q]
    BY <1>3, <1>4
  <2>2. i.creation <= now' /\ (i.creation = now' => i.pid \in DOMAIN proc' \union freed')
    BY <1>P, <2>1
  <2>3. CASE i.pid \in DOMAIN proc'
    <3>1. i.pid \in DOMAIN proc /\ proc'[i.pid] = proc[i.pid]
      BY <2>1, <2>3
    <3> QED
      BY <1>N, <1>O, <1>P, <2>2, <3>1
  <2> QED
    BY <2>2, <2>3
<1>5. ASSUME NEW creator \in DOMAIN proc, NEW p \in Pids, CreateProcess(creator, p)
      PROVE  /\ p \notin DOMAIN proc /\ p \notin freed /\ DOMAIN proc' = DOMAIN proc \union {p}
             /\ proc'[p].creation = now /\ \A q \in DOMAIN proc : proc'[q] = proc[q]
             /\ now' = now /\ freed' = freed
  BY <1>0, <1>5, NewProcess
<1>6. CASE \E creator \in DOMAIN proc, p \in Pids : CreateProcess(creator, p)
  <2>1. PICK p : /\ p \notin DOMAIN proc /\ p \notin freed /\ DOMAIN proc' = DOMAIN proc \union {p}
                 /\ proc'[p].creation = now /\ \A q \in DOMAIN proc : proc'[q] = proc[q]
                 /\ now' = now /\ freed' = freed
    BY <1>5, <1>6
  <2>2. CASE i.pid = p
    BY <1>N, <1>O, <1>P, <2>1, <2>2
  <2>3. CASE i.pid # p
    BY <1>N, <1>O, <1>P, <2>1, <2>3
  <2> QED
    BY <2>2, <2>3
<1> QED
  BY <1>1, <1>2, <1>4, <1>6, Ways

LEMMA HeirsKept ==
  ASSUME IInv, [Next]_vars, pc \notin Early, NEW i, Heirs(i)
  PROVE  \A c \in DOMAIN proc' :
           ~proc'[c].late /\ proc'[c].parent.pid = i.pid /\ i.creation <= proc'[c].creation
             => proc'[c].kin
<1>0. TypeInv
  BY DEF IInv
<1>1. CASE SameLives
  BY <1>1 DEF SameLives, Heirs
<1>2. CASE Tick
  BY <1>2 DEF Tick, Heirs
<1>3. CASE \E p \in DOMAIN proc : FreePid(p)
  BY <1>3 DEF FreePid, Heirs
<1>4. ASSUME NEW creator \in DOMAIN proc, NEW p \in Pids, CreateProcess(creator, p)
      PROVE  /\ DOMAIN proc' = DOMAIN proc \union {p} /\ proc'[p].late
             /\ \A q \in DOMAIN proc : proc'[q] = proc[q]
  BY <1>0, <1>4, NewProcess DEF Early
<1>5. CASE \E creator \in DOMAIN proc, p \in Pids : CreateProcess(creator, p)
  BY <1>4, <1>5 DEF Heirs
<1> QED
  BY <1>1, <1>2, <1>3, <1>5, Ways

-----------------------------------------------------------------------------
(* The listing and the walk.                                                *)

\* The frame on top is left.
LEMMA TopLeft ==
  ASSUME stack \in Seq(Frames), Len(stack) > 0, NEW less,
         less = SubSeq(stack, 1, Len(stack) - 1)
  PROVE  /\ Len(less) = Len(stack) - 1
         /\ \A j \in 1..Len(stack) - 1 : less[j] = stack[j]
<1>1. Len(stack) \in Nat /\ Len(stack) - 1 \in Int /\ 1 \in Int
  OBVIOUS
<1>2. \A j \in 1..Len(stack) - 1 : stack[j] \in Frames
  BY <1>1
<1> DEFINE m == Len(stack) - 1
<1>3. /\ Len(SubSeq(stack, 1, m)) = IF 1 <= m THEN m - 1 + 1 ELSE 0
      /\ \A j \in 1..m - 1 + 1 : SubSeq(stack, 1, m)[j] = stack[1 + j - 1]
  <2>1. m \in Int /\ \A j \in 1..m : stack[j] \in Frames
    BY <1>1, <1>2
  <2> HIDE DEF m
  <2> QED
    BY <2>1, SubSeqProperties
<1>4. Len(less) = Len(stack) - 1
  <2>1. m \in Nat
    BY <1>1
  <2>2. Len(less) = IF 1 <= m THEN m - 1 + 1 ELSE 0
    BY <1>3
  <2>3. Len(less) = m
    <3> HIDE DEF m
    <3> QED
      BY <2>1, <2>2
  <2> QED
    BY <2>3
<1>5. ASSUME NEW j \in 1..Len(stack) - 1 PROVE less[j] = stack[j]
  <2>1. j \in 1..m - 1 + 1 /\ 1 + j - 1 = j
    BY <1>1
  <2> QED
    BY <1>3, <2>1
<1> QED
  BY <1>4, <1>5

Listing ==
    \A c \in DOMAIN listed : c \in DOMAIN proc /\ ~proc[c].late
                               => listed[c] = proc[c].parent.pid
Frame(f) == \A c \in f.children : c \in DOMAIN listed /\ listed[c] = f.parent.pid

LEMMA ListSound == IInv /\ [Next]_vars => ListInv'
<1> SUFFICES ASSUME IInv, [Next]_vars PROVE ListInv'
  OBVIOUS
<1> USE DEF selection, walk, result, system
<1>0. /\ TypeInv /\ ListInv /\ WalkInv /\ Listing /\ TypeInv'
      /\ \A j \in 1..Len(stack) : Frame(stack[j])
  BY TypeSound DEF IInv, ListInv, Listing, Frame
<1>E. (pc' \in Early => pc \in Early) /\ (pc \in Early => DOMAIN listed = {})
  BY <1>0, Onward DEF ListInv, Early
<1>L. listed' = listed => Listing'
  <2> SUFFICES ASSUME listed' = listed PROVE Listing'
    OBVIOUS
  <2>1. CASE SameLives
    BY <1>0, <2>1 DEF SameLives, Listing
  <2>2. CASE Tick
    BY <1>0, <2>2 DEF Tick, Listing
  <2>3. CASE \E p \in DOMAIN proc : FreePid(p)
    BY <1>0, <2>3 DEF FreePid, Listing
  <2>4. ASSUME NEW creator \in DOMAIN proc, NEW p \in Pids, CreateProcess(creator, p)
        PROVE  Listing'
    <3>1. /\ DOMAIN proc' = DOMAIN proc \union {p} /\ proc'[p].late = (pc \notin Early)
          /\ \A q \in DOMAIN proc : proc'[q] = proc[q]
      BY <1>0, <2>4, NewProcess DEF Early
    <3>2. CASE pc \in Early
      BY <1>E, <3>2 DEF Listing
    <3>3. CASE pc \notin Early
      <4>1. proc'[p].late
        BY <3>1, <3>3
      <4> QED
        BY <1>0, <3>1, <4>1 DEF Listing
    <3> QED
      BY <3>2, <3>3
  <2> QED
    BY <2>1, <2>2, <2>3, <2>4, Ways
<1>1. CASE UNCHANGED <<listed, stack>>
  BY <1>0, <1>1, <1>E, <1>L DEF ListInv, Listing, Frame, Early
<1>2. CASE System \/ UNCHANGED vars
  BY <1>1, <1>2, SystemRests DEF Resting
<1>3. CASE OpenRoot \/ KillOne \/ ReadSnapshotTime \/ OpenTarget \/ Prepared \/ TerminateTarget
           \/ Conclude
  BY <1>1, <1>3 DEF OpenRoot, KillOne, ReadSnapshotTime, OpenTarget, Prepared,
                    TerminateTarget, Conclude
<1>4. CASE ListProcesses
  <2>1. pc = "snapshot" /\ stack' = stack /\ stack = << >> /\ proc' = proc
    BY <1>0, <1>4 DEF ListProcesses, WalkInv
  <2>2. CASE listed' = listed
    BY <1>1, <2>1, <2>2
  <2>3. ASSUME NEW shown \in SUBSET {p \in DOMAIN proc : ~proc[p].running},
               listed' = [p \in {q \in DOMAIN proc : proc[q].running} \union shown |->
                            proc[p].parent.pid],
               pc' = "time"
        PROVE  ListInv'
    BY <2>1, <2>3 DEF ListInv
  <2> QED
    BY <1>4, <2>2, <2>3 DEF ListProcesses
<1>5. CASE ValidateRoot
  <2>1. pc = "validate" /\ listed' = listed /\ stack = << >>
    BY <1>0, <1>5 DEF ValidateRoot, WalkInv
  <2>2. CASE stack' = stack
    BY <1>1, <2>1, <2>2
  <2>3. CASE Descend(root)
    <3>1. /\ stack' = <<[parent |-> root, children |-> ChildrenOf(root.pid)]>>
          /\ Len(stack') = 1
      BY <2>1, <2>3 DEF Descend
    <3>2. \A c \in ChildrenOf(root.pid) : c \in DOMAIN listed /\ listed[c] = root.pid
      BY DEF ChildrenOf
    <3>3. \A j \in 1..Len(stack') : \A c \in stack'[j].children :
            c \in DOMAIN listed' /\ listed'[c] = stack'[j].parent.pid
      BY <2>1, <3>1, <3>2
    <3> QED
      BY <1>E, <1>L, <2>1, <3>3 DEF ListInv, Listing, Early
  <2> QED
    BY <1>5, <2>2, <2>3 DEF ValidateRoot
<1>6. ASSUME NEW c \in Pids, VisitChild(c) PROVE ListInv'
  <2>1. pc = "walk" /\ listed' = listed /\ Len(stack) > 0 /\ stack \in Seq(Frames)
    BY <1>0, <1>6 DEF VisitChild, WalkInv, TypeInv
  <2> DEFINE rest == [stack EXCEPT ![Len(stack)].children = @ \ {c}]
  <2>2. /\ rest \in Seq(Frames) /\ Len(rest) = Len(stack)
        /\ \A j \in 1..Len(stack) : /\ rest[j].parent = stack[j].parent
                                    /\ rest[j].children \subseteq stack[j].children
    BY <2>1, RestOfTop
  <2>3. \/ stack' = rest
        \/ stack' = Append(rest, [parent |-> IdentityOf(c), children |-> ChildrenOf(c)])
        \/ stack' = stack
    BY <1>6 DEF VisitChild
  <2> HIDE DEF rest
  <2>4. \A j \in 1..Len(rest) : Frame(rest[j])
    BY <1>0, <2>2 DEF Frame
  <2>5. \A d \in ChildrenOf(c) : d \in DOMAIN listed /\ listed[d] = c
    BY DEF ChildrenOf
  <2>6. Frame([parent |-> IdentityOf(c), children |-> ChildrenOf(c)])
    BY <2>5 DEF Frame, IdentityOf
  <2>7. \A j \in 1..Len(stack') : Frame(stack'[j])
    <3>1. CASE stack' = rest \/ stack' = stack
      BY <1>0, <2>4, <3>1
    <3>2. CASE stack' = Append(rest, [parent |-> IdentityOf(c), children |-> ChildrenOf(c)])
      <4>1. /\ Len(stack') = Len(rest) + 1
            /\ \A j \in 1..Len(rest) : stack'[j] = rest[j]
            /\ stack'[Len(rest) + 1] = [parent |-> IdentityOf(c), children |-> ChildrenOf(c)]
        BY <2>2, <3>2
      <4>2. Len(rest) \in Nat
        BY <2>2
      <4> QED
        BY <2>4, <2>6, <4>1, <4>2
    <3> QED
      BY <2>3, <3>1, <3>2
  <2> QED
    BY <1>E, <1>L, <2>1, <2>7 DEF ListInv, Listing, Early, Frame
<1>7. CASE LeaveParent
  <2>1. pc = "walk" /\ Len(stack) > 0 /\ stack \in Seq(Frames) /\ pc' \notin Early
    BY <1>0, <1>7 DEF LeaveParent, WalkInv, TypeInv, Early
  <2>2. stack' = SubSeq(stack, 1, Len(stack) - 1)
    BY <1>7 DEF LeaveParent
  <2>3. Len(stack') = Len(stack) - 1 /\ \A j \in 1..Len(stack') : stack'[j] = stack[j]
    BY <2>1, <2>2, TopLeft
  <2>4. CASE Len(stack) = 1
    <3>1. listed' = << >> /\ Len(stack') = 0
      BY <1>7, <2>3, <2>4 DEF LeaveParent
    <3> QED
      BY <2>1, <3>1 DEF ListInv, Early
  <2>5. CASE Len(stack) # 1
    <3>1. listed' = listed
      BY <1>7, <2>5 DEF LeaveParent
    <3>2. \A j \in 1..Len(stack') : Frame(stack'[j])
      BY <1>0, <2>1, <2>3
    <3> QED
      BY <1>L, <2>1, <3>1, <3>2 DEF ListInv, Listing, Early, Frame
  <2> QED
    BY <2>4, <2>5
<1> QED
  BY <1>2, <1>3, <1>4, <1>5, <1>6, <1>7 DEF Next, Command

LEMMA WalkSound == IInv /\ [Next]_vars => WalkInv'
<1> SUFFICES ASSUME IInv, [Next]_vars PROVE WalkInv'
  OBVIOUS
<1> USE DEF selection, walk, result, system
<1>0. TypeInv /\ WalkInv
  BY DEF IInv
<1>R. root' = root /\ command' = command
  BY Onward
<1>D. pc' = "done" => WalkInv'
  BY DEF WalkInv
<1>1. CASE System \/ UNCHANGED vars
  BY <1>0, <1>1, SystemRests DEF Resting, WalkInv
<1>2. CASE OpenRoot
  <2>1. CASE Report("cantKill")
    BY <1>D, <2>1 DEF Report
  <2>2. CASE /\ rootHeld' = TRUE /\ pc' = IF command = "Terminate" THEN "kill" ELSE "snapshot"
             /\ targets' = targets
    <3>1. pc = "confirm" /\ UNCHANGED <<walk, killed>>
      BY <1>2 DEF OpenRoot
    <3>2. pc' = "kill" \/ (pc' = "snapshot" /\ command = "TerminateTree")
      BY <1>0, <2>2 DEF TypeInv
    <3> QED
      BY <1>0, <1>R, <2>2, <3>1, <3>2 DEF WalkInv
  <2> QED
    BY <1>2, <2>1, <2>2 DEF OpenRoot
<1>3. CASE KillOne \/ Conclude
  BY <1>3, <1>D DEF KillOne, Conclude, Report
<1>4. CASE ListProcesses
  BY <1>0, <1>4, <1>D, <1>R DEF ListProcesses, Report, WalkInv
<1>5. CASE ReadSnapshotTime
  BY <1>0, <1>5, <1>R DEF ReadSnapshotTime, WalkInv
<1>6. CASE ValidateRoot
  <2>1. CASE Report("treeFailed")
    BY <1>D, <2>1 DEF Report
  <2>2. CASE Descend(root) /\ pc' = "walk" /\ UNCHANGED <<rootHeld, targets>>
    <3>1. pc = "validate" /\ UNCHANGED <<order, next, killed>>
      BY <1>6 DEF ValidateRoot
    <3>2. /\ stack = << >> /\ order = << >> /\ next = 1 /\ targets = << >> /\ rootHeld
          /\ command = "TerminateTree" /\ killed = {}
      BY <1>0, <3>1 DEF WalkInv
    <3>3. Len(stack') = 1 /\ stack'[1].parent = root /\ root.pid \in visited'
      BY <2>2, <3>2 DEF Descend
    <3> QED
      BY <1>R, <2>2, <3>1, <3>2, <3>3 DEF WalkInv
  <2> QED
    BY <1>6, <2>1, <2>2 DEF ValidateRoot
<1>7. ASSUME NEW c \in Pids, VisitChild(c) PROVE WalkInv'
  <2>1. /\ pc = "walk" /\ UNCHANGED <<order, next, killed>>
    BY <1>7 DEF VisitChild
  <2>2. /\ rootHeld /\ Len(stack) > 0 /\ stack[1].parent = root /\ root.pid \in visited
        /\ next = 1 /\ targets = << >> /\ command = "TerminateTree" /\ killed = {}
        /\ \A j \in 2..Len(stack) : stack[j].parent.pid # root.pid
        /\ \A j \in 1..Len(order) : order[j].pid # root.pid
        /\ stack \in Seq(Frames)
    BY <1>0, <2>1 DEF WalkInv, TypeInv
  <2> DEFINE rest == [stack EXCEPT ![Len(stack)].children = @ \ {c}]
  <2>3. /\ rest \in Seq(Frames) /\ Len(rest) = Len(stack)
        /\ \A j \in 1..Len(stack) : rest[j].parent = stack[j].parent
    BY <2>2, RestOfTop
  <2>4. CASE Report("treeFailed")
    BY <1>D, <2>4 DEF Report
  <2>5. CASE stack' = rest /\ UNCHANGED <<visited, pc, rootHeld, targets>>
    <3>1. 1 \in 1..Len(stack) /\ 2..Len(stack) \subseteq 1..Len(stack)
      BY <2>2
    <3> HIDE DEF rest
    <3> QED
      BY <1>R, <2>1, <2>2, <2>3, <2>5, <3>1 DEF WalkInv
  <2>6. CASE /\ VerifiedChild(c) /\ UNCHANGED <<pc, rootHeld, targets>>
             /\ stack' = Append(rest, [parent |-> IdentityOf(c), children |-> ChildrenOf(c)])
             /\ visited' = visited \union {c}
    <3>1. c # root.pid
      BY <2>2, <2>6 DEF VerifiedChild
    <3> HIDE DEF rest
    <3>2. /\ Len(stack') = Len(stack) + 1
          /\ \A j \in 1..Len(stack) : stack'[j].parent = stack[j].parent
          /\ stack'[Len(stack) + 1].parent.pid # root.pid
      BY <2>3, <2>6, <3>1 DEF IdentityOf
    <3>3. Len(stack') > 0 /\ stack'[1].parent = root
      BY <2>2, <3>2
    <3>4. ASSUME NEW j \in 2..Len(stack') PROVE stack'[j].parent.pid # root.pid
      BY <2>2, <3>2
    <3> QED
      BY <1>R, <2>1, <2>2, <2>6, <3>3, <3>4 DEF WalkInv
  <2> QED
    BY <1>7, <2>4, <2>5, <2>6 DEF VisitChild
<1>8. CASE LeaveParent
  <2>1. /\ pc = "walk" /\ UNCHANGED <<next, killed, rootHeld, targets>>
        /\ order' = Append(order, Top.parent)
        /\ stack' = SubSeq(stack, 1, Len(stack) - 1)
    BY <1>8 DEF LeaveParent
  <2>2. /\ rootHeld /\ Len(stack) > 0 /\ stack[1].parent = root /\ root.pid \in visited
        /\ next = 1 /\ targets = << >> /\ command = "TerminateTree" /\ killed = {}
        /\ \A j \in 2..Len(stack) : stack[j].parent.pid # root.pid
        /\ \A j \in 1..Len(order) : order[j].pid # root.pid
        /\ stack \in Seq(Frames) /\ order \in Seq(Identities)
    BY <1>0, <2>1 DEF WalkInv, TypeInv
  <2>3. /\ Len(stack') = Len(stack) - 1 /\ \A j \in 1..Len(stack') : stack'[j] = stack[j]
        /\ Len(order') = Len(order) + 1 /\ \A j \in 1..Len(order) : order'[j] = order[j]
        /\ order'[Len(order) + 1] = Top.parent
    <3>1. Len(stack') = Len(stack) - 1 /\ \A j \in 1..Len(stack') : stack'[j] = stack[j]
      BY <2>1, <2>2, TopLeft
    <3>2. /\ Len(order') = Len(order) + 1 /\ \A j \in 1..Len(order) : order'[j] = order[j]
          /\ order'[Len(order) + 1] = Top.parent
      BY <2>1, <2>2
    <3> QED
      BY <3>1, <3>2
  <2>4. CASE Len(stack) = 1
    <3>1. pc' = "open" /\ stack' = << >> /\ Top.parent = root
      BY <1>8, <2>1, <2>2, <2>3, <2>4 DEF LeaveParent, Top
    <3>2. \A j \in 1..Len(order') - 1 : order'[j] # root
      BY <2>2, <2>3
    <3>3. Len(order') > 0 /\ order'[Len(order')] = root
      BY <2>2, <2>3, <3>1
    <3> QED
      BY <1>R, <2>1, <2>2, <3>1, <3>2, <3>3 DEF WalkInv
  <2>5. CASE Len(stack) # 1
    <3>0. Len(stack) \in 2..Len(stack)
      <4> DEFINE n == Len(stack)
      <4>1. n \in Nat /\ n > 0 /\ n # 1
        BY <2>2, <2>5
      <4>2. n \in 2..n
        <5> HIDE DEF n
        <5> QED
          BY <4>1
      <4> QED
        BY <4>2
    <3>1. UNCHANGED <<pc, visited>> /\ Top.parent.pid # root.pid
      <4>1. UNCHANGED <<pc, visited>>
        BY <1>8, <2>5 DEF LeaveParent
      <4>2. Top.parent.pid # root.pid
        BY <2>2, <3>0 DEF Top
      <4> QED
        BY <4>1, <4>2
    <3>2. \A j \in 1..Len(order') : order'[j].pid # root.pid
      BY <2>2, <2>3, <3>1
    <3>3. /\ Len(stack') > 0 /\ stack'[1].parent = root
          /\ \A j \in 2..Len(stack') : stack'[j].parent.pid # root.pid
      <4> DEFINE n == Len(stack)
      <4>1. Len(stack') = n - 1 /\ n \in 2..n /\ n \in Nat
        BY <2>2, <2>3, <3>0
      <4> HIDE DEF n
      <4>2. 1 \in 1..Len(stack') /\ Len(stack') > 0
        BY <4>1
      <4>3. stack'[1] = stack[1]
        BY <2>3, <4>2
      <4>4. \A j \in 2..Len(stack') : j \in 1..Len(stack') /\ j \in 2..n
        BY <4>1
      <4>5. \A j \in 2..Len(stack') : stack'[j] = stack[j] /\ stack[j].parent.pid # root.pid
        BY <2>2, <2>3, <4>4 DEF n
      <4> QED
        BY <2>2, <4>2, <4>3, <4>5
    <3> QED
      BY <1>R, <2>1, <2>2, <3>1, <3>2, <3>3 DEF WalkInv
  <2> QED
    BY <2>4, <2>5
<1>9. CASE OpenTarget
  <2>1. /\ pc = "open" /\ next <= Len(order) /\ UNCHANGED <<stack, order, visited, killed>>
    BY <1>9 DEF OpenTarget
  <2>2. /\ stack = << >> /\ Len(order) > 0 /\ order[Len(order)] = root
        /\ \A j \in 1..Len(order) - 1 : order[j] # root
        /\ next >= 1 /\ rootHeld /\ command = "TerminateTree" /\ killed = {}
        /\ order \in Seq(Identities) /\ next \in Nat
    BY <1>0, <2>1 DEF WalkInv, TypeInv, TypeOK
  <2>3. CASE Report("treeFailed")
    BY <1>D, <2>3 DEF Report
  <2>4. CASE next' = next + 1 /\ pc' = pc /\ rootHeld' = (rootHeld /\ order[next] # root)
    <3>1. next' <= Len(order) => rootHeld'
      <4>1. next' <= Len(order) => next \in 1..Len(order) - 1
        BY <2>1, <2>2, <2>4
      <4>2. next' <= Len(order) => order[next] # root
        BY <2>2, <4>1
      <4> QED
        BY <2>2, <2>4, <4>2
    <3> QED
      BY <1>R, <2>1, <2>2, <2>4, <3>1 DEF WalkInv
  <2>5. CASE next' = next + 1 /\ pc' = pc /\ rootHeld' = rootHeld
    BY <1>R, <2>1, <2>2, <2>5 DEF WalkInv
  <2> QED
    BY <1>9, <2>3, <2>4, <2>5 DEF OpenTarget
<1>10. CASE Prepared
  BY <1>0, <1>10, <1>D, <1>R DEF Prepared, Report, WalkInv
<1>11. CASE TerminateTarget
  BY <1>0, <1>11, <1>R DEF TerminateTarget, WalkInv
<1> QED
  BY <1>1, <1>2, <1>3, <1>4, <1>5, <1>6, <1>7, <1>8, <1>9, <1>10, <1>11 DEF Next, Command

-----------------------------------------------------------------------------
(* Whom the command may end.                                                *)

\* Proper and Heirs in the next state, of the same identity.
StillProper(i) ==
    /\ i.creation <= now'
    /\ i.creation = now' => i.pid \in DOMAIN proc' \union freed'
    /\ i.pid \in DOMAIN proc' /\ proc'[i.pid].creation = i.creation =>
         \/ proc'[i.pid].kin
         \/ proc'[i.pid].late /\ proc'[i.pid].creation <= snapshotTime'
StillHeirs(i) ==
    \A c \in DOMAIN proc' :
      ~proc'[c].late /\ proc'[c].parent.pid = i.pid /\ i.creation <= proc'[c].creation
        => proc'[c].kin

LEMMA HeirsOf ==
  ASSUME IInv, NEW p \in DOMAIN proc, Good(p) PROVE Heirs(IdentityOf(p))
<1>1. LivesInv
  BY DEF IInv
<1>2. ASSUME NEW c \in DOMAIN proc, ~proc[c].late, proc[c].parent.pid = p,
             proc[p].creation <= proc[c].creation
      PROVE  proc[c].kin
  <2>1. proc[c].parent = IdentityOf(p)
    BY <1>1, <1>2 DEF LivesInv
  <2>2. (proc[p].kin => proc[c].kin) /\ (proc[p].late => proc[c].late)
    BY <1>1, <1>2, <2>1 DEF LivesInv
  <2> QED
    BY <1>2, <2>2 DEF Good
<1> QED
  BY <1>2 DEF Heirs, IdentityOf

\* A child that is descended into was listed under its parent and is not older,
\* or started after the listing in time to look so.
LEMMA ChildProper ==
  ASSUME IInv, NEW c \in Pids, VisitChild(c), VerifiedChild(c)
  PROVE  Proper(IdentityOf(c)) /\ Heirs(IdentityOf(c)) /\ IdentityOf(c) \in Identities
<1>0. TypeInv /\ LivesInv /\ ListInv /\ ChosenInv /\ WalkInv
  BY DEF IInv
<1>1. c \in DOMAIN proc /\ c \in Top.children /\ pc = "walk"
  BY DEF VerifiedChild, VisitChild
<1>2. /\ Top.parent.creation <= proc[c].creation
      /\ proc[c].creation <= snapshotTime
  BY DEF VerifiedChild, ValidEdge, IdentityOf
<1>3. Len(stack) \in 1..Len(stack)
  <2> DEFINE n == Len(stack)
  <2>1. n \in Nat /\ n > 0
    BY <1>0, <1>1 DEF TypeInv, WalkInv
  <2>2. n \in 1..n
    <3> HIDE DEF n
    <3> QED
      BY <2>1
  <2> QED
    BY <2>2
<1>4. Heirs(Top.parent) /\ c \in DOMAIN listed /\ listed[c] = Top.parent.pid
  BY <1>0, <1>1, <1>3 DEF ChosenInv, ListInv, Top
<1>5. Good(c)
  <2>1. CASE proc[c].late
    BY <1>2, <2>1 DEF Good
  <2>2. CASE ~proc[c].late
    <3>1. proc[c].parent.pid = Top.parent.pid
      BY <1>0, <1>1, <1>4, <2>2 DEF ListInv
    <3> QED
      BY <1>1, <1>2, <1>4, <2>2, <3>1 DEF Heirs, Good
  <2> QED
    BY <2>1, <2>2
<1>6. Proper(IdentityOf(c))
  BY <1>0, <1>1, <1>5 DEF Proper, IdentityOf, LivesInv
<1>7. IdentityOf(c) \in Identities
  <2>1. proc[c] \in Processes
    BY <1>0, <1>1 DEF TypeInv, TypeOK
  <2> QED
    BY <2>1, ProcessTreeAssumption DEF IdentityOf, Identities, Processes, Times
<1> QED
  BY <1>1, <1>5, <1>6, <1>7, HeirsOf

LEMMA ChosenSound == IInv /\ [Next]_vars => ChosenInv'
<1> SUFFICES ASSUME IInv, [Next]_vars PROVE ChosenInv'
  OBVIOUS
<1> USE DEF selection, walk, result, system
<1>0. TypeInv /\ ChosenInv /\ WalkInv
  BY DEF IInv
<1>P. \A i \in Identities : Proper(i) => StillProper(i)
  BY ProperKept DEF StillProper
<1>H. pc \notin Early => \A i \in Identities : Heirs(i) => StillHeirs(i)
  BY HeirsKept DEF StillHeirs
<1>I. /\ root \in Identities
      /\ \A j \in 1..Len(stack) : stack[j].parent \in Identities
      /\ \A j \in 1..Len(order) : order[j] \in Identities
      /\ \A j \in 1..Len(targets) : targets[j] \in Identities
  <2>1. root \in Identities
    BY <1>0 DEF TypeInv, TypeOK
  <2>2. \A j \in 1..Len(stack) : stack[j] \in Frames
    BY <1>0 DEF TypeInv
  <2>3. \A j \in 1..Len(stack) : stack[j].parent \in Identities
    BY <2>2 DEF Frames
  <2>4. /\ \A j \in 1..Len(order) : order[j] \in Identities
        /\ \A j \in 1..Len(targets) : targets[j] \in Identities
    BY <1>0 DEF TypeInv
  <2> QED
    BY <2>1, <2>3, <2>4
<1>E. pc \in Early => Len(stack) = 0
  BY <1>0 DEF Early, WalkInv
<1> DEFINE Stacked == \A j \in 1..Len(stack') :
                        StillProper(stack'[j].parent) /\ StillHeirs(stack'[j].parent)
           Ordered == \A j \in 1..Len(order') : StillProper(order'[j])
           Opened == \A j \in 1..Len(targets') : StillProper(targets'[j])
<1>S. \A j \in 1..Len(stack) : StillProper(stack[j].parent) /\ StillHeirs(stack[j].parent)
  BY <1>0, <1>P, <1>H, <1>I, <1>E DEF ChosenInv
<1>O. \A j \in 1..Len(order) : StillProper(order[j])
  BY <1>0, <1>P, <1>I DEF ChosenInv
<1>T. \A j \in 1..Len(targets) : StillProper(targets[j])
  BY <1>0, <1>P, <1>I DEF ChosenInv
<1>S1. stack' = stack => Stacked
  BY <1>S
<1>O1. order' = order => Ordered
  BY <1>O
<1>T1. targets' = targets \/ targets' = << >> => Opened
  BY <1>T
<1>R. StillProper(root) /\ root' = root
  BY <1>0, <1>P, <1>I, Onward DEF ChosenInv
<1>Q. Stacked /\ Ordered /\ Opened => ChosenInv'
  BY <1>R DEF ChosenInv, Proper, Good, Heirs, StillProper, StillHeirs
<1> HIDE DEF Stacked, Ordered, Opened
<1>1. CASE System \/ UNCHANGED vars
  BY <1>1, <1>S1, <1>O1, <1>T1, <1>Q, SystemRests DEF Resting
<1>2. CASE OpenRoot \/ KillOne \/ ListProcesses \/ ReadSnapshotTime \/ Prepared \/ Conclude
  BY <1>2, <1>S1, <1>O1, <1>T1, <1>Q
     DEF OpenRoot, KillOne, ListProcesses, ReadSnapshotTime, Prepared, Conclude, Report
<1>3. CASE ValidateRoot
  <2>1. pc = "validate" /\ order' = order /\ (targets' = targets \/ targets' = << >>)
    BY <1>3 DEF ValidateRoot, Report
  <2>2. stack' = stack \/ Descend(root)
    BY <1>3 DEF ValidateRoot
  <2>3. CASE Descend(root)
    <3>1. stack = << >> /\ rootHeld
      BY <1>0, <2>1 DEF WalkInv
    <3>2. root.pid \in DOMAIN proc /\ IdentityOf(root.pid) = root
      BY <1>0, <3>1 DEF TypeInv, TypeOK
    <3>3. Good(root.pid)
      <4>1. proc[root.pid].creation = root.creation
        BY <3>2 DEF IdentityOf
      <4> QED
        BY <1>0, <3>2, <4>1 DEF ChosenInv, Proper
    <3>4. Heirs(root)
      BY <3>2, <3>3, HeirsOf
    <3>5. StillHeirs(root)
      BY <1>H, <1>I, <2>1, <3>4 DEF Early
    <3>6. stack' = <<[parent |-> root, children |-> ChildrenOf(root.pid)]>>
      BY <2>3, <3>1 DEF Descend
    <3>7. \A j \in 1..Len(stack') : stack'[j].parent = root
      BY <3>6
    <3>8. Stacked
      BY <1>R, <3>5, <3>7 DEF Stacked
    <3> QED
      BY <1>O1, <1>T1, <1>Q, <2>1, <3>8
  <2> QED
    BY <1>S1, <1>O1, <1>T1, <1>Q, <2>1, <2>2, <2>3
<1>4. ASSUME NEW c \in Pids, VisitChild(c) PROVE ChosenInv'
  <2>1. pc = "walk" /\ order' = order /\ (targets' = targets \/ targets' = << >>)
    BY <1>4 DEF VisitChild, Report
  <2>2. stack \in Seq(Frames) /\ Len(stack) > 0
    BY <1>0, <2>1 DEF WalkInv, TypeInv
  <2> DEFINE rest == [stack EXCEPT ![Len(stack)].children = @ \ {c}]
             below == [parent |-> IdentityOf(c), children |-> ChildrenOf(c)]
  <2>3. /\ rest \in Seq(Frames) /\ Len(rest) = Len(stack)
        /\ \A j \in 1..Len(stack) : rest[j].parent = stack[j].parent
    BY <2>2, RestOfTop
  <2>4. \/ stack' = rest \/ stack' = stack
        \/ VerifiedChild(c) /\ stack' = Append(rest, below)
    BY <1>4 DEF VisitChild
  <2> HIDE DEF rest
  <2>5. CASE stack' = rest
    <3>1. Stacked
      BY <1>S, <2>3, <2>5 DEF Stacked
    <3> QED
      BY <1>O1, <1>T1, <1>Q, <2>1, <3>1
  <2>6. CASE VerifiedChild(c) /\ stack' = Append(rest, below)
    <3>1. Proper(IdentityOf(c)) /\ Heirs(IdentityOf(c)) /\ IdentityOf(c) \in Identities
      BY <1>4, <2>6, ChildProper
    <3>2. StillProper(IdentityOf(c)) /\ StillHeirs(IdentityOf(c))
      BY <1>P, <1>H, <2>1, <3>1 DEF Early
    <3>3. /\ Len(stack') = Len(stack) + 1
          /\ \A j \in 1..Len(stack) : stack'[j].parent = stack[j].parent
          /\ stack'[Len(stack) + 1].parent = IdentityOf(c)
      BY <2>3, <2>6
    <3>4. Len(stack) \in Nat
      BY <2>2
    <3>5. Stacked
      BY <1>S, <3>2, <3>3, <3>4 DEF Stacked
    <3> QED
      BY <1>O1, <1>T1, <1>Q, <2>1, <3>5
  <2> QED
    BY <1>S1, <1>O1, <1>T1, <1>Q, <2>1, <2>4, <2>5, <2>6
<1>5. CASE LeaveParent
  <2>1. /\ pc = "walk" /\ targets' = targets /\ order' = Append(order, Top.parent)
        /\ stack' = SubSeq(stack, 1, Len(stack) - 1)
    BY <1>5 DEF LeaveParent
  <2>2. stack \in Seq(Frames) /\ Len(stack) > 0 /\ order \in Seq(Identities)
    BY <1>0, <2>1 DEF WalkInv, TypeInv
  <2>3. Len(stack') = Len(stack) - 1 /\ \A j \in 1..Len(stack) - 1 : stack'[j] = stack[j]
    BY <2>1, <2>2, TopLeft
  <2>N. Len(stack) \in Nat /\ Len(order) \in Nat
    BY <2>2
  <2>4. Stacked
    BY <1>S, <2>3, <2>N DEF Stacked
  <2>5. StillProper(Top.parent)
    <3> DEFINE n == Len(stack)
    <3>1. n \in Nat /\ n > 0
      BY <2>2
    <3>2. n \in 1..n
      <4> HIDE DEF n
      <4> QED
        BY <3>1
    <3> QED
      BY <1>S, <3>2 DEF Top
  <2>6. /\ Len(order') = Len(order) + 1 /\ \A j \in 1..Len(order) : order'[j] = order[j]
        /\ order'[Len(order) + 1] = Top.parent
    BY <2>1, <2>2
  <2>7. Ordered
    BY <1>O, <2>5, <2>6, <2>N DEF Ordered
  <2> QED
    BY <1>T1, <1>Q, <2>1, <2>4, <2>7
<1>6. CASE OpenTarget
  <2>1. /\ pc = "open" /\ next <= Len(order) /\ stack' = stack /\ order' = order
    BY <1>6 DEF OpenTarget
  <2>2. CASE targets' = targets \/ targets' = << >>
    BY <1>S1, <1>O1, <1>T1, <1>Q, <2>1, <2>2
  <2>3. CASE targets' = Append(targets, order[next])
    <3>1. next \in Nat /\ next >= 1 /\ targets \in Seq(Identities)
      BY <1>0, <2>1 DEF WalkInv, TypeInv, TypeOK
    <3>2. Len(order) \in Nat
      BY <1>0 DEF TypeInv
    <3>3. next \in 1..Len(order)
      BY <2>1, <3>1, <3>2
    <3>4. StillProper(order[next])
      BY <1>O, <3>3
    <3>5. /\ Len(targets') = Len(targets) + 1
          /\ \A j \in 1..Len(targets) : targets'[j] = targets[j]
          /\ targets'[Len(targets) + 1] = order[next] /\ Len(targets) \in Nat
      BY <2>3, <3>1
    <3>6. Opened
      BY <1>T, <3>4, <3>5 DEF Opened
    <3> QED
      BY <1>S1, <1>O1, <1>Q, <2>1, <3>6
  <2> QED
    BY <1>6, <2>2, <2>3 DEF OpenTarget, Report
<1>7. CASE TerminateTarget
  <2>1. stack' = stack /\ order' = order /\ targets' = Tail(targets) /\ targets # << >>
    BY <1>7 DEF TerminateTarget
  <2>2. targets \in Seq(Identities)
    BY <1>0 DEF TypeInv
  <2>3. /\ Len(targets') = Len(targets) - 1 /\ Len(targets) \in Nat
        /\ \A j \in 1..Len(targets') : targets'[j] = targets[j + 1]
    BY <2>1, <2>2
  <2>4. Opened
    BY <1>T, <2>3 DEF Opened
  <2> QED
    BY <1>S1, <1>O1, <1>Q, <2>1, <2>4
<1> QED
  BY <1>1, <1>2, <1>3, <1>4, <1>5, <1>6, <1>7 DEF Next, Command

LEMMA OnlySound == IInv /\ [Next]_vars => OnlyTheTree'
<1> SUFFICES ASSUME IInv, [Next]_vars PROVE OnlyTheTree'
  OBVIOUS
<1> USE DEF selection, walk, result, system
<1>0. TypeInv /\ ChosenInv /\ WalkInv /\ OnlyTheTree
  BY DEF IInv
<1>R. root' = root /\ command' = command
  BY Onward
<1>1. CASE killed' = killed /\ (snapshotTime' = snapshotTime \/ killed = {})
  BY <1>0, <1>R, <1>1 DEF OnlyTheTree
<1>2. CASE System \/ UNCHANGED vars
  BY <1>1, <1>2, SystemRests DEF Resting
<1>3. CASE OpenRoot \/ ListProcesses \/ ValidateRoot \/ LeaveParent \/ OpenTarget \/ Prepared
           \/ Conclude \/ \E c \in Pids : VisitChild(c)
  BY <1>1, <1>3 DEF OpenRoot, ListProcesses, ValidateRoot, LeaveParent, OpenTarget, Prepared,
                    Conclude, VisitChild
<1>4. CASE ReadSnapshotTime
  <2>1. killed' = killed /\ killed = {}
    BY <1>0, <1>4 DEF ReadSnapshotTime, WalkInv
  <2> QED
    BY <1>1, <2>1
<1>5. CASE KillOne
  <2>1. pc = "kill" /\ snapshotTime' = snapshotTime
    BY <1>5 DEF KillOne
  <2>2. CASE Kill(root.pid)
    <3>1. rootHeld /\ killed = {}
      BY <1>0, <2>1 DEF WalkInv
    <3>2. IdentityOf(root.pid) = root
      BY <1>0, <3>1 DEF TypeInv, TypeOK
    <3>3. \A k \in killed' : k.who = root
      BY <2>2, <3>1, <3>2 DEF Kill
    <3> QED
      BY <1>R, <3>3 DEF OnlyTheTree
  <2> QED
    BY <1>1, <1>5, <2>1, <2>2 DEF KillOne
<1>6. CASE TerminateTarget
  <2>1. pc = "terminate" /\ snapshotTime' = snapshotTime /\ command = "TerminateTree"
    BY <1>0, <1>6 DEF TerminateTarget, WalkInv
  <2> DEFINE t == Head(targets)
  <2>2. CASE Kill(t.pid)
    <3>1. targets # << >> /\ targets \in Seq(Identities)
      BY <1>0, <1>6 DEF TypeInv, TerminateTarget
    <3>2. t = targets[1] /\ 1 \in 1..Len(targets)
      BY <3>1
    <3>3. t.pid \in DOMAIN proc /\ IdentityOf(t.pid) = t /\ Proper(t)
      BY <1>0, <3>2 DEF TypeInv, TypeOK, ChosenInv
    <3>4. Good(t.pid)
      <4>1. proc[t.pid].creation = t.creation
        BY <3>3 DEF IdentityOf
      <4> QED
        BY <3>3, <4>1 DEF Proper
    <3> HIDE DEF t
    <3>5. killed' = killed \union {[who |-> IdentityOf(t.pid), kin |-> proc[t.pid].kin,
                                    late |-> proc[t.pid].late]}
      BY <2>2 DEF Kill
    <3>6. IdentityOf(t.pid).creation = proc[t.pid].creation
      BY DEF IdentityOf
    <3>7. ASSUME NEW k \in killed'
          PROVE  k.who = root \/ k.kin \/ (k.late /\ k.who.creation <= snapshotTime)
      <4>1. CASE k \in killed
        BY <1>0, <4>1 DEF OnlyTheTree
      <4>2. CASE k = [who |-> IdentityOf(t.pid), kin |-> proc[t.pid].kin,
                      late |-> proc[t.pid].late]
        <5>1. k.kin \/ (k.late /\ k.who.creation <= snapshotTime)
          BY <3>4, <3>6, <4>2 DEF Good
        <5> QED
          BY <5>1
      <4> QED
        BY <3>5, <4>1, <4>2
    <3> QED
      BY <1>R, <2>1, <3>7 DEF OnlyTheTree
  <2>3. killed' = killed \/ Kill(t.pid)
    BY <1>6 DEF TerminateTarget
  <2> QED
    BY <1>1, <2>1, <2>2, <2>3
<1> QED
  BY <1>2, <1>3, <1>4, <1>5, <1>6 DEF Next, Command

-----------------------------------------------------------------------------
\* The invariant is kept by every step of the command and of the system.
THEOREM Inductive == Spec => []IInv
<1>1. IInv /\ [Next]_vars => IInv'
  BY TypeSound, LivesSound, ListSound, ChosenSound, WalkSound, OnlySound DEF IInv
<1> QED
  BY <1>1, InitSound, PTL DEF Spec

\* Nothing is ended but the selected process and, for the tree, its descendants,
\* however PIDs were reused since the row was drawn (actions.rs, kill_process and
\* kill_process_tree), for any number of processes, ticks and refusals.
THEOREM OnlyTheTreeEnds == Spec => []OnlyTheTree
<1>1. IInv => OnlyTheTree
  BY DEF IInv
<1> QED
  BY <1>1, Inductive, PTL

-----------------------------------------------------------------------------
(* Whole families.  A process that runs since before the listing is in it, is *)
(* visited from its own parent and so precedes it among the targets.         *)

Unwalked == {"confirm", "snapshot", "time", "validate"}
Old(p) == p \in DOMAIN proc /\ proc[p].running /\ ~proc[p].late
InOrder(i) == \E k \in 1..Len(order) : order[k] = i
IsTarget(i) == \E j \in 1..Len(targets) : targets[j] = i

\* What the listing and its time say of the processes that run since before;
\* the selected process is nobody's child.
SeenInv ==
    /\ pc \in {"time", "validate", "walk"} => \A p \in Pids : Old(p) => p \in DOMAIN listed
    /\ pc \in {"validate", "walk"} => \A p \in Pids : Old(p) => proc[p].creation <= snapshotTime
    /\ root.pid \in DOMAIN proc /\ IdentityOf(root.pid) = root
         => proc[root.pid].parent.pid = NoPid

\* A child is visited once, from the frame of the PID it was listed under.
Walking ==
    /\ \A v \in visited : v # root.pid => v \in DOMAIN listed /\ listed[v] \in visited
    /\ \A j \in 1..Len(stack) :
         /\ stack[j].parent.pid \in visited
         /\ \A k \in 1..Len(stack) : stack[k].parent.pid = stack[j].parent.pid => k = j
         /\ \A c \in stack[j].children : c \in visited => c = root.pid
VisitInv ==
    /\ pc \in Unwalked => visited = {}
    /\ pc = "walk" => Walking

\* A child of a frame is still to be visited, being followed or in the order.
ChildrenInv == pc = "walk" =>
    \A j \in 1..Len(stack) : \A p \in Pids : Old(p) /\ proc[p].parent = stack[j].parent =>
      \/ p \in stack[j].children \/ InOrder(IdentityOf(p))
      \/ j < Len(stack) /\ stack[j + 1].parent = IdentityOf(p)

LeavesFirst == pc \in {"walk", "open", "terminate"} =>
    \A i \in 1..Len(order) : \A p \in Pids : Old(p) /\ proc[p].parent = order[i] =>
      \E k \in 1..i - 1 : order[k] = IdentityOf(p)

\* What runs of the order is a target or will be, children before parents, or
\* ending it has failed.
TargetsInv == pc \in {"open", "terminate"} =>
    /\ Len(order) > 0 /\ order[Len(order)] = root
    /\ \A i \in 1..Len(order) : (pc = "open" => i < next) /\ Running(order[i]) =>
         outcome.failure \/ IsTarget(order[i])
    /\ \A j \in 1..Len(targets) : \A p \in Pids : Old(p) /\ proc[p].parent = targets[j] =>
         outcome.failure \/ \E i \in 1..j - 1 : targets[i] = IdentityOf(p)

EndedInv ==
    /\ pc = "kill" => command = "Terminate"
    /\ pc = "terminate" /\ killed # {} => outcome.success /\ outcome.completed

FamilyInv == SeenInv /\ VisitInv /\ ChildrenInv /\ LeavesFirst /\ TargetsInv /\ EndedInv
               /\ FamiliesEndTogether /\ HonestReport

-----------------------------------------------------------------------------
\* Nothing that has ended runs again.
LEMMA EndedForGood ==
  ASSUME IInv, [Next]_vars
  PROVE  \A p \in DOMAIN proc \intersect DOMAIN proc' : proc'[p].running => proc[p].running
<1> USE DEF system
<1>0. /\ TypeInv /\ \A p \in DOMAIN proc : p \in Pids /\ proc[p] \in Processes
  BY DEF IInv, TypeInv, TypeOK
<1>1. ASSUME NEW q \in DOMAIN proc, proc' = [proc EXCEPT ![q].running = FALSE]
      PROVE  \A p \in DOMAIN proc \intersect DOMAIN proc' : proc'[p].running => proc[p].running
  <2>1. ASSUME NEW p \in DOMAIN proc, p # q PROVE proc'[p] = proc[p]
    BY <1>1, <2>1
  <2>2. proc'[q] = [proc[q] EXCEPT !.running = FALSE]
    BY <1>1
  <2>3. ~proc'[q].running
    BY <1>0, <2>2 DEF Processes
  <2> QED BY <2>1, <2>3
<1>2. CASE UNCHANGED proc
  BY <1>2
<1>3. CASE \E q \in DOMAIN proc : Exit(q)
  BY <1>1, <1>3 DEF Exit
<1>4. CASE KillOne
  <2>1. root.pid \in DOMAIN proc
    BY <1>4 DEF IInv, WalkInv, TypeInv, TypeOK, KillOne
  <2> QED BY <1>1, <1>2, <1>4, <2>1 DEF KillOne, Kill
<1>5. CASE TerminateTarget
  <2>1. targets # << >> /\ targets \in Seq(Identities)
    BY <1>0, <1>5 DEF TypeInv, TerminateTarget
  <2>2. Head(targets) = targets[1] /\ 1 \in 1..Len(targets)
    BY <2>1
  <2>3. Head(targets).pid \in DOMAIN proc
    BY <1>0, <2>2 DEF TypeInv, TypeOK
  <2> QED BY <1>1, <1>2, <1>5, <2>3 DEF TerminateTarget, Kill
<1>6. CASE \E q \in DOMAIN proc : FreePid(q)
  BY <1>6 DEF FreePid
<1>7. CASE \E c \in DOMAIN proc, q \in Pids : CreateProcess(c, q)
  <2>1. PICK c \in DOMAIN proc, q \in Pids : CreateProcess(c, q)
    BY <1>7
  <2>2. \A p \in DOMAIN proc : proc'[p] = proc[p]
    BY <1>0, <2>1, NewProcess
  <2> QED BY <2>2
<1>8. CASE Tick \/ UNCHANGED vars
  BY <1>2, <1>8 DEF Tick, vars
<1>9. CASE OpenRoot \/ ListProcesses \/ ReadSnapshotTime \/ ValidateRoot \/ LeaveParent
           \/ OpenTarget \/ Prepared \/ Conclude \/ \E c \in Pids : VisitChild(c)
  BY <1>2, <1>9 DEF OpenRoot, ListProcesses, ReadSnapshotTime, ValidateRoot, LeaveParent,
                    OpenTarget, Prepared, Conclude, VisitChild
<1> QED
  BY <1>3, <1>4, <1>5, <1>6, <1>7, <1>8, <1>9 DEF Next, System, Command

\* Who runs since before the listing did so a step before.
LEMMA OldBefore ==
  ASSUME IInv, [Next]_vars, pc \notin Early, NEW p \in DOMAIN proc', proc'[p].running, ~proc'[p].late
  PROVE  /\ Old(p) /\ proc'[p].creation = proc[p].creation /\ proc'[p].parent = proc[p].parent
<1>0. TypeInv
  BY DEF IInv
<1>1. CASE SameLives
  BY <1>1, EndedForGood DEF SameLives, Old
<1>2. CASE Tick
  BY <1>2 DEF Tick, Old
<1>3. CASE \E q \in DOMAIN proc : FreePid(q)
  BY <1>3 DEF FreePid, Old
<1>4. CASE \E c \in DOMAIN proc, q \in Pids : CreateProcess(c, q)
  <2>1. PICK c \in DOMAIN proc, q \in Pids : CreateProcess(c, q)
    BY <1>4
  <2>2. /\ DOMAIN proc' = DOMAIN proc \union {q} /\ proc'[q].late
        /\ \A r \in DOMAIN proc : proc'[r] = proc[r]
    BY <1>0, <2>1, NewProcess DEF Early
  <2> QED BY <2>2 DEF Old
<1> QED BY <1>1, <1>2, <1>3, <1>4, Ways

\* A process that has ended or is gone does not come back under its identity.
LEMMA RunningBefore ==
  ASSUME IInv, [Next]_vars, NEW i \in Identities, Proper(i),
         i.pid \in DOMAIN proc', proc'[i.pid].creation = i.creation
  PROVE  /\ i.pid \in DOMAIN proc /\ proc[i.pid].creation = i.creation
         /\ proc'[i.pid].parent = proc[i.pid].parent
         /\ proc'[i.pid].running => proc[i.pid].running
<1>0. TypeInv
  BY DEF IInv
<1> DEFINE P == i.pid
<1>1. /\ i.creation = now => P \in DOMAIN proc \union freed
  BY DEF Proper
<1>2. /\ P \in DOMAIN proc /\ proc[P].creation = i.creation
      /\ proc'[P].parent = proc[P].parent
  <2>1. CASE SameLives
    BY <2>1 DEF SameLives
  <2>2. CASE Tick
    BY <2>2 DEF Tick
  <2>3. CASE \E q \in DOMAIN proc : FreePid(q)
    BY <2>3 DEF FreePid
  <2>4. CASE \E c \in DOMAIN proc, q \in Pids : CreateProcess(c, q)
    <3>1. PICK c \in DOMAIN proc, q \in Pids : CreateProcess(c, q)
      BY <2>4
    <3>2. /\ DOMAIN proc' = DOMAIN proc \union {q} /\ q \notin DOMAIN proc /\ q \notin freed
          /\ proc'[q].creation = now
          /\ \A r \in DOMAIN proc : proc'[r] = proc[r]
      BY <1>0, <3>1, NewProcess
    <3>3. P # q
      BY <1>1, <3>2
    <3> QED BY <3>2, <3>3
  <2> QED BY <2>1, <2>2, <2>3, <2>4, Ways
<1> QED BY <1>2, EndedForGood

\* Before the command nothing is listed, visited or ended.
LEMMA FamiliesStart == Init => FamilyInv
<1> SUFFICES ASSUME Init PROVE FamilyInv
  OBVIOUS
<1>1. /\ pc = "confirm" /\ killed = {} /\ report = "none"
  BY DEF Init
<1>3. visited = {}
  BY DEF Init
<1>2. root.pid \in DOMAIN proc /\ IdentityOf(root.pid) = root => proc[root.pid].parent.pid = NoPid
  <2>1. PICK other \in Pids \ {Root}, c \in [{1, 2} -> Times], p \in {NoPid, Root} :
        /\ proc = [q \in {Root, other} |->
                     IF q = Root
                     THEN [creation |-> c[1], kin |-> TRUE, late |-> FALSE,
                           parent |-> [pid |-> NoPid, creation |-> 0],
                           running |-> TRUE]
                     ELSE [creation |-> c[2], kin |-> FALSE, late |-> FALSE,
                           parent |-> [pid |-> p, creation |-> 0],
                           running |-> TRUE]]
        /\ root \in {[pid |-> Root, creation |-> c[1]], [pid |-> Root, creation |-> 0]}
    BY DEF Init
  <2>2. root.pid = Root
    BY <2>1
  <2>3. proc[Root].parent = [pid |-> NoPid, creation |-> 0]
    BY <2>1
  <2> QED BY <2>2, <2>3
<1> QED
  BY <1>1, <1>2, <1>3
     DEF FamilyInv, SeenInv, VisitInv, Unwalked, ChildrenInv, LeavesFirst, TargetsInv, EndedInv,
         FamiliesEndTogether, HonestReport

\* Where a step can come from.
LEMMA ComesFrom ==
  ASSUME IInv, [Next]_vars
  PROVE  /\ pc' = "time" => pc = "time" \/ ListProcesses
         /\ pc' = "validate" => pc = "validate" \/ (pc = "time" /\ ReadSnapshotTime)
         /\ pc' = "walk" => pc = "walk" \/ (pc = "validate" /\ ValidateRoot /\ Descend(root))
         /\ pc' = "open" => pc = "open" \/ (pc = "walk" /\ LeaveParent)
         /\ pc' = "terminate" => pc = "terminate" \/ (pc = "open" /\ Prepared)
<1> USE DEF selection, walk, result, system
<1>1. CASE System \/ UNCHANGED vars
  BY <1>1, SystemRests DEF Resting
<1>2. CASE OpenRoot \/ KillOne \/ ListProcesses \/ ReadSnapshotTime \/ ValidateRoot
  BY <1>2 DEF OpenRoot, KillOne, ListProcesses, ReadSnapshotTime, ValidateRoot, Report
<1>3. CASE (\E c \in Pids : VisitChild(c)) \/ LeaveParent
  BY <1>3 DEF VisitChild, LeaveParent, Report
<1>4. CASE OpenTarget \/ Prepared \/ TerminateTarget \/ Conclude
  BY <1>4 DEF OpenTarget, Prepared, TerminateTarget, Conclude, Report
<1> QED
  BY <1>1, <1>2, <1>3, <1>4 DEF Next, Command

\* The steps that change the listing, its time, the walk and the targets.
LEMMA ListingRests ==
  ASSUME IInv, [Next]_vars
  PROVE  /\ pc \in {"time", "validate", "walk"} /\ pc' \in {"time", "validate", "walk"} =>
              listed' = listed
         /\ pc \in {"validate", "walk"} => snapshotTime' = snapshotTime
<1> USE DEF selection, walk, result, system
<1>1. CASE System \/ UNCHANGED vars
  BY <1>1, SystemRests DEF Resting
<1>2. CASE OpenRoot \/ KillOne \/ ListProcesses \/ ReadSnapshotTime \/ ValidateRoot
  BY <1>2 DEF OpenRoot, KillOne, ListProcesses, ReadSnapshotTime, ValidateRoot, Report
<1>3. CASE (\E c \in Pids : VisitChild(c)) \/ LeaveParent
  BY <1>3 DEF VisitChild, LeaveParent, Report
<1>4. CASE OpenTarget \/ Prepared \/ TerminateTarget \/ Conclude
  BY <1>4 DEF OpenTarget, Prepared, TerminateTarget, Conclude, Report
<1> QED
  BY <1>1, <1>2, <1>3, <1>4 DEF Next, Command

\* The listing has whoever runs since before, and its time is not before them.
LEMMA SeenSound == IInv /\ SeenInv /\ [Next]_vars => SeenInv'
<1> SUFFICES ASSUME IInv, SeenInv, [Next]_vars PROVE SeenInv'
  OBVIOUS
<1>0. TypeInv /\ LivesInv /\ ChosenInv /\ TypeInv'
  BY TypeSound DEF IInv
<1>1. ASSUME pc' \in {"time", "validate", "walk"}, NEW p \in Pids, Old(p)' PROVE p \in DOMAIN listed'
  <2>1. CASE pc \in {"time", "validate", "walk"}
    <3>1. Old(p)
      BY <1>1, <2>1, OldBefore DEF Old, Early
    <3> QED BY <1>1, <2>1, <3>1, ListingRests DEF SeenInv
  <2>2. CASE ListProcesses
    <3>1. PICK shown \in SUBSET {q \in DOMAIN proc : ~proc[q].running} :
            listed' = [q \in {r \in DOMAIN proc : proc[r].running} \union shown |->
                         proc[q].parent.pid]
      BY <1>1, <2>2 DEF ListProcesses, Report
    <3>2. proc' = proc
      BY <2>2 DEF ListProcesses, system
    <3> QED BY <1>1, <3>1, <3>2 DEF Old
  <2> QED BY <1>1, <2>1, <2>2, ComesFrom
<1>2. ASSUME pc' \in {"validate", "walk"}, NEW p \in Pids, Old(p)'
      PROVE  proc'[p].creation <= snapshotTime'
  <2>1. CASE pc \in {"validate", "walk"}
    <3>1. Old(p) /\ proc'[p].creation = proc[p].creation
      BY <1>2, <2>1, OldBefore DEF Old, Early
    <3> QED BY <2>1, <3>1, ListingRests DEF SeenInv
  <2>2. CASE ReadSnapshotTime
    <3>1. proc' = proc /\ snapshotTime' = now
      BY <2>2 DEF ReadSnapshotTime, system
    <3> QED BY <1>0, <1>2, <3>1 DEF Old, LivesInv
  <2> QED BY <1>2, <2>1, <2>2, ComesFrom
<1>3. ASSUME root'.pid \in DOMAIN proc', IdentityOf(root.pid)' = root'
      PROVE  proc'[root'.pid].parent.pid = NoPid
  <2>1. root' = root /\ root \in Identities /\ Proper(root)
    BY <1>0, Onward DEF TypeInv, TypeOK, ChosenInv
  <2>2. root.pid \in DOMAIN proc' /\ proc'[root.pid].creation = root.creation
    BY <1>3, <2>1 DEF IdentityOf
  <2>3. /\ root.pid \in DOMAIN proc /\ proc[root.pid].creation = root.creation
        /\ proc'[root.pid].parent = proc[root.pid].parent
    BY <2>1, <2>2, RunningBefore
  <2>4. IdentityOf(root.pid) = root
    BY <2>1, <2>3 DEF IdentityOf, Identities
  <2> QED BY <2>1, <2>3, <2>4 DEF SeenInv
<1> QED BY <1>1, <1>2, <1>3 DEF SeenInv

\* The frame on top without a child.
LEMMA TopLess ==
  ASSUME stack \in Seq(Frames), Len(stack) > 0, NEW c, NEW rest,
         rest = [stack EXCEPT ![Len(stack)].children = @ \ {c}]
  PROVE  /\ rest \in Seq(Frames) /\ Len(rest) = Len(stack)
         /\ \A j \in 1..Len(stack) : j # Len(stack) => rest[j] = stack[j]
         /\ \A j \in 1..Len(stack) : rest[j].parent = stack[j].parent
         /\ \A j \in 1..Len(stack) : j = Len(stack) => rest[j].children = stack[j].children \ {c}
<1>1. rest \in Seq(Frames) /\ Len(rest) = Len(stack)
      /\ \A j \in 1..Len(stack) : rest[j].parent = stack[j].parent
  BY RestOfTop
<1>2. Len(stack) \in 1..Len(stack) /\ stack[Len(stack)] \in Frames
  OBVIOUS
<1>3. \A j \in 1..Len(stack) : j # Len(stack) => rest[j] = stack[j]
  OBVIOUS
<1> DEFINE top == stack[Len(stack)]
           lesser == [top EXCEPT !.children = @ \ {c}]
<1>4. rest = [stack EXCEPT ![Len(stack)] = lesser]
  BY <1>2
<1>5. rest[Len(stack)].children = stack[Len(stack)].children \ {c}
  <2>1. lesser.children = top.children \ {c}
    BY <1>2 DEF Frames
  <2>2. Len(stack) \in DOMAIN stack
    BY <1>2
  <2> HIDE DEF lesser
  <2>3. rest[Len(stack)] = lesser
    BY <1>4, <2>2
  <2> QED BY <2>1, <2>3
<1> QED BY <1>1, <1>3, <1>5

\* How the walk goes on.
LEMMA WalkSteps ==
  ASSUME IInv, [Next]_vars, pc = "walk"
  PROVE  \/ UNCHANGED <<stack, visited, order>> /\ pc' \in {"walk", "done"}
         \/ (\E c \in Pids : VisitChild(c)) /\ pc' \in {"walk", "done"}
         \/ LeaveParent
<1> USE DEF selection, walk, result, system
<1>1. CASE System \/ UNCHANGED vars
  BY <1>1, SystemRests DEF Resting
<1>2. CASE \E c \in Pids : VisitChild(c)
  BY <1>2 DEF VisitChild, Report
<1>3. CASE OpenRoot \/ KillOne \/ ListProcesses \/ ReadSnapshotTime \/ ValidateRoot
           \/ OpenTarget \/ Prepared \/ TerminateTarget \/ Conclude
  BY <1>3 DEF OpenRoot, KillOne, ListProcesses, ReadSnapshotTime, ValidateRoot,
              OpenTarget, Prepared, TerminateTarget, Conclude
<1> QED
  BY <1>1, <1>2, <1>3 DEF Next, Command

\* Nothing is visited before the walk.
LEMMA Unvisited ==
  ASSUME IInv, [Next]_vars, pc' \in Unwalked
  PROVE  pc \in Unwalked /\ visited' = visited
<1> USE DEF selection, walk, result, system, Unwalked
<1>1. CASE System \/ UNCHANGED vars
  BY <1>1, SystemRests DEF Resting
<1>2. CASE OpenRoot \/ KillOne \/ ListProcesses \/ ReadSnapshotTime \/ ValidateRoot
  BY <1>2 DEF OpenRoot, KillOne, ListProcesses, ReadSnapshotTime, ValidateRoot, Report
<1>3. CASE (\E c \in Pids : VisitChild(c)) \/ LeaveParent
  BY <1>3 DEF VisitChild, LeaveParent, Report
<1>4. CASE OpenTarget \/ Prepared \/ TerminateTarget \/ Conclude
  BY <1>4 DEF OpenTarget, Prepared, TerminateTarget, Conclude, Report
<1> QED
  BY <1>1, <1>2, <1>3, <1>4 DEF Next, Command

\* The shapes of the stack after a step of the walk.
LEMMA VisitShapes ==
  ASSUME IInv, pc = "walk", NEW c \in Pids, VisitChild(c), pc' = "walk"
  PROVE  \E rest \in Seq(Frames) :
           /\ Len(rest) = Len(stack)
           /\ \A j \in 1..Len(stack) :
                /\ j # Len(stack) => rest[j] = stack[j]
                /\ rest[j].parent = stack[j].parent
                /\ j = Len(stack) => rest[j].children = stack[j].children \ {c}
           /\ \/ ~VerifiedChild(c) /\ stack' = rest /\ visited' = visited
              \/ /\ VerifiedChild(c) /\ visited' = visited \union {c}
                 /\ Len(stack') = Len(stack) + 1
                 /\ \A j \in 1..Len(stack) : stack'[j] = rest[j]
                 /\ stack'[Len(stack) + 1] = [parent |-> IdentityOf(c), children |-> ChildrenOf(c)]
<1>1. stack \in Seq(Frames) /\ Len(stack) > 0
  BY DEF IInv, WalkInv, TypeInv
<1> DEFINE rest == [stack EXCEPT ![Len(stack)].children = @ \ {c}]
           below == [parent |-> IdentityOf(c), children |-> ChildrenOf(c)]
<1>2. /\ rest \in Seq(Frames) /\ Len(rest) = Len(stack)
      /\ \A j \in 1..Len(stack) : j # Len(stack) => rest[j] = stack[j]
      /\ \A j \in 1..Len(stack) : rest[j].parent = stack[j].parent
      /\ \A j \in 1..Len(stack) : j = Len(stack) => rest[j].children = stack[j].children \ {c}
  BY <1>1, TopLess
<1>3. \/ ~VerifiedChild(c) /\ stack' = rest /\ visited' = visited
      \/ VerifiedChild(c) /\ stack' = Append(rest, below) /\ visited' = visited \union {c}
  BY DEF VisitChild, Report
<1> HIDE DEF rest, below
<1>4. stack' = Append(rest, below) =>
                 /\ Len(stack') = Len(stack) + 1
                 /\ \A j \in 1..Len(stack) : stack'[j] = rest[j]
                 /\ stack'[Len(stack) + 1] = below
  BY <1>2
<1> QED BY <1>2, <1>3, <1>4 DEF below

\* What the walk may rely on.
LEMMA WalkBasics ==
  ASSUME IInv, pc = "walk"
  PROVE  /\ stack \in Seq(Frames) /\ Len(stack) \in Nat /\ Len(stack) > 0
         /\ order \in Seq(Identities) /\ Len(order) \in Nat
         /\ root.pid \in visited /\ Len(stack) \in 1..Len(stack)
         /\ rootHeld /\ root.pid \in DOMAIN proc /\ IdentityOf(root.pid) = root
         /\ \A j \in 1..Len(stack) : stack[j].parent \in Identities
         /\ \A j \in 1..Len(stack) : \A c \in stack[j].children :
              c \in DOMAIN listed /\ listed[c] = stack[j].parent.pid
         /\ \A c \in DOMAIN listed : c \in DOMAIN proc /\ ~proc[c].late
                                       => listed[c] = proc[c].parent.pid
<1>1. stack \in Seq(Frames) /\ Len(stack) \in Nat /\ Len(stack) > 0
  BY DEF IInv, WalkInv, TypeInv
<1>2. \A j \in 1..Len(stack) : stack[j] \in Frames
  BY <1>1
<1>3. \A j \in 1..Len(stack) : stack[j].parent \in Identities
  BY <1>2 DEF Frames
<1>4. order \in Seq(Identities) /\ Len(order) \in Nat
  BY DEF IInv, TypeInv
<1>5. rootHeld /\ root.pid \in DOMAIN proc /\ IdentityOf(root.pid) = root /\ root.pid \in visited
  BY DEF IInv, WalkInv, TypeInv, TypeOK
<1>6. Len(stack) \in 1..Len(stack)
  <2> DEFINE n == Len(stack)
  <2>1. n \in Nat /\ n > 0
    BY <1>1
  <2> HIDE DEF n
  <2>2. n \in 1..n
    BY <2>1
  <2> QED BY <2>2 DEF n
<1> QED BY <1>1, <1>3, <1>4, <1>5, <1>6 DEF IInv, ListInv

\* The stack and the order after a parent is left.
LEMMA LeaveShapes ==
  ASSUME IInv, pc = "walk", LeaveParent
  PROVE  /\ stack[Len(stack)].children = {}
         /\ Len(stack') = Len(stack) - 1
         /\ \A j \in 1..Len(stack) - 1 : stack'[j] = stack[j]
         /\ Len(order') = Len(order) + 1 /\ \A k \in 1..Len(order) : order'[k] = order[k]
         /\ order'[Len(order) + 1] = stack[Len(stack)].parent
         /\ pc' = "walk" => visited' = visited /\ listed' = listed
<1>1. /\ stack \in Seq(Frames) /\ Len(stack) > 0 /\ order \in Seq(Identities)
  BY WalkBasics
<1>2. /\ order' = Append(order, Top.parent) /\ Top.children = {}
      /\ stack' = SubSeq(stack, 1, Len(stack) - 1)
      /\ pc' = "walk" => visited' = visited /\ listed' = listed
  BY DEF LeaveParent
<1>3. Len(stack') = Len(stack) - 1 /\ \A j \in 1..Len(stack) - 1 : stack'[j] = stack[j]
  BY <1>1, <1>2, TopLeft
<1>4. /\ Len(order') = Len(order) + 1 /\ \A k \in 1..Len(order) : order'[k] = order[k]
      /\ order'[Len(order) + 1] = Top.parent
  BY <1>1, <1>2
<1> QED BY <1>2, <1>3, <1>4 DEF Top

\* A child is visited once, under the parent it is listed with.
LEMMA VisitSound == IInv /\ VisitInv /\ [Next]_vars => VisitInv'
<1> SUFFICES ASSUME IInv, VisitInv, [Next]_vars PROVE VisitInv'
  OBVIOUS
<1>R. root' = root
  BY Onward
<1>1. pc' \in Unwalked => visited' = {}
  BY Unvisited DEF VisitInv
<1>2. ASSUME pc' = "walk", pc = "walk" PROVE Walking'
  <2>0. Walking /\ listed' = listed
    BY <1>2, ListingRests DEF VisitInv
  <2>1. CASE UNCHANGED <<stack, visited, order>>
    BY <1>R, <2>0, <2>1 DEF Walking
  <2>2. CASE \E c \in Pids : VisitChild(c)
    <3>1. PICK c \in Pids : VisitChild(c)
      BY <2>2
    <3> DEFINE n == Len(stack)
    <3>2. PICK rest \in Seq(Frames) :
           /\ Len(rest) = n
           /\ \A j \in 1..n :
                /\ j # n => rest[j] = stack[j]
                /\ rest[j].parent = stack[j].parent
                /\ j = n => rest[j].children = stack[j].children \ {c}
           /\ \/ ~VerifiedChild(c) /\ stack' = rest /\ visited' = visited
              \/ /\ VerifiedChild(c) /\ visited' = visited \union {c}
                 /\ Len(stack') = n + 1
                 /\ \A j \in 1..n : stack'[j] = rest[j]
                 /\ stack'[n + 1] = [parent |-> IdentityOf(c), children |-> ChildrenOf(c)]
      BY <1>2, <3>1, VisitShapes
    <3>3. /\ n \in Nat /\ n > 0 /\ n \in 1..n /\ root.pid \in visited
          /\ \A j \in 1..n : \A d \in stack[j].children :
               d \in DOMAIN listed /\ listed[d] = stack[j].parent.pid
      BY <1>2, WalkBasics
    <3>4. \A j \in 1..n : rest[j].children \subseteq stack[j].children
      BY <3>2
    <3>5. CASE stack' = rest /\ visited' = visited
      <4>1. Len(stack') = n /\ \A j \in 1..n : /\ stack'[j].parent = stack[j].parent
                                              /\ stack'[j].children \subseteq stack[j].children
        BY <3>2, <3>4, <3>5
      <4> HIDE DEF n
      <4> QED BY <1>R, <2>0, <3>5, <4>1 DEF Walking, n
    <3>6. CASE /\ VerifiedChild(c) /\ visited' = visited \union {c} /\ Len(stack') = n + 1
               /\ \A j \in 1..n : stack'[j] = rest[j]
               /\ stack'[n + 1] = [parent |-> IdentityOf(c), children |-> ChildrenOf(c)]
      <4>1. c \notin visited /\ c \in stack[n].children
        BY <3>1, <3>6 DEF VerifiedChild, VisitChild, Top
      <4>2. c \in DOMAIN listed /\ listed[c] = stack[n].parent.pid
        BY <3>3, <4>1
      <4>3. listed[c] \in visited
        BY <2>0, <3>3, <4>2 DEF Walking
      <4>4. \A v \in visited' : v # root.pid => v \in DOMAIN listed' /\ listed'[v] \in visited'
        BY <2>0, <3>6, <4>2, <4>3 DEF Walking
      <4>5. stack'[n + 1].parent.pid = c /\ stack'[n + 1].children = ChildrenOf(c)
        BY <3>6 DEF IdentityOf
      <4>6. ASSUME NEW d \in ChildrenOf(c), d \in visited' PROVE d = root.pid
        <5>1. d \in DOMAIN listed /\ listed[d] = c
          BY <4>6 DEF ChildrenOf
        <5>2. d # c
          BY <4>1, <4>3, <5>1
        <5> QED BY <2>0, <3>6, <4>1, <4>6, <5>1, <5>2 DEF Walking
      <4>7. ASSUME NEW j \in 1..n
            PROVE  /\ stack'[j].parent = stack[j].parent
                   /\ stack[j].parent.pid \in visited
                   /\ \A d \in stack'[j].children : d \in visited' => d = root.pid
        <5>1. stack'[j].parent = stack[j].parent /\ stack'[j].children \subseteq stack[j].children
          BY <3>2, <3>4, <3>6
        <5>2. stack[j].parent.pid \in visited
          BY <2>0 DEF Walking
        <5>3. c \notin stack'[j].children
          <6>1. CASE j = n
            BY <3>2, <3>6, <6>1
          <6>2. CASE j # n
            <7>1. c \in stack[j].children => stack[j].parent.pid = stack[n].parent.pid
              BY <3>3, <4>2
            <7>2. c \notin stack[j].children
              BY <2>0, <3>3, <6>2, <7>1 DEF Walking
            <7> QED BY <5>1, <7>2
          <6> QED BY <6>1, <6>2
        <5> QED BY <2>0, <3>6, <5>1, <5>2, <5>3 DEF Walking
      <4>8. ASSUME NEW j \in 1..Len(stack'), NEW k \in 1..Len(stack'),
                   stack'[k].parent.pid = stack'[j].parent.pid
            PROVE  k = j
        <5>1. j \in 1..n \/ j = n + 1
          BY <3>3, <3>6
        <5>2. k \in 1..n \/ k = n + 1
          BY <3>3, <3>6
        <5> HIDE DEF n
        <5>3. CASE j \in 1..n /\ k \in 1..n
          BY <2>0, <4>7, <4>8, <5>3 DEF Walking, n
        <5> QED BY <4>1, <4>5, <4>7, <4>8, <5>1, <5>2, <5>3
      <4>9. ASSUME NEW j \in 1..Len(stack')
            PROVE  /\ stack'[j].parent.pid \in visited'
                   /\ \A d \in stack'[j].children : d \in visited' => d = root.pid
        <5>1. j \in 1..n \/ j = n + 1
          BY <3>3, <3>6
        <5> HIDE DEF n
        <5> QED BY <3>6, <4>5, <4>6, <4>7, <5>1
      <4> QED BY <1>R, <4>4, <4>8, <4>9 DEF Walking
    <3> QED BY <3>2, <3>5, <3>6
  <2>3. CASE LeaveParent
    <3>1. /\ Len(stack') = Len(stack) - 1 /\ \A j \in 1..Len(stack) - 1 : stack'[j] = stack[j]
          /\ visited' = visited /\ Len(stack) \in Nat
      BY <1>2, <2>3, LeaveShapes, WalkBasics
    <3>2. \A j \in 1..Len(stack') : j \in 1..Len(stack) /\ stack'[j] = stack[j]
      BY <3>1
    <3> QED BY <1>R, <2>0, <3>1, <3>2 DEF Walking
  <2> QED BY <1>2, <2>1, <2>2, <2>3, WalkSteps
<1>3. ASSUME pc' = "walk", pc = "validate", ValidateRoot, Descend(root) PROVE Walking'
  <2>1. stack = << >> /\ visited = {} /\ listed' = listed
    BY <1>3 DEF IInv, WalkInv, VisitInv, Unwalked, ValidateRoot
  <2>2. /\ stack' = <<[parent |-> root, children |-> ChildrenOf(root.pid)]>>
        /\ visited' = {root.pid}
    BY <1>3, <2>1 DEF Descend
  <2>3. Len(stack') = 1 /\ stack'[1].parent = root
    BY <2>2
  <2>4. \A j \in 1..Len(stack') : j = 1
    BY <2>3
  <2>5. \A v \in visited' : v = root.pid
    BY <2>2
  <2> HIDE DEF ChildrenOf
  <2> QED BY <1>R, <2>2, <2>3, <2>4, <2>5 DEF Walking
<1> QED BY <1>1, <1>2, <1>3, ComesFrom DEF VisitInv

\* A process that runs since before the listing is a child of its parent's frame.
LEMMA ListedUnderParent ==
  ASSUME IInv, SeenInv, pc \in {"time", "validate", "walk"}, NEW p \in Pids, Old(p)
  PROVE  p \in ChildrenOf(proc[p].parent.pid)
BY DEF IInv, ListInv, SeenInv, Old, ChildrenOf

\* Such a child is not passed over.
LEMMA OldIsVerified ==
  ASSUME IInv, SeenInv, VisitInv, pc = "walk", NEW c \in Pids, VisitChild(c), Old(c),
         proc[c].parent = Top.parent
  PROVE  VerifiedChild(c)
<1>1. Top.parent.pid \in visited /\ c \in Top.children /\ visited \subseteq Pids
  <2>1. visited \subseteq Pids
    BY DEF IInv, TypeInv, TypeOK
  <2> QED BY <2>1, WalkBasics DEF VisitInv, Walking, VisitChild, Top
<1>2. c \notin visited
  <2>1. c \in visited => c = root.pid
    BY <1>1, WalkBasics DEF VisitInv, Walking, Top
  <2>2. c # root.pid
    <3>1. proc[root.pid].parent.pid = NoPid
      BY WalkBasics DEF SeenInv
    <3> QED BY <1>1, <3>1, ProcessTreeAssumption
  <2> QED BY <2>1, <2>2
<1>3. /\ proc[c].parent.creation <= proc[c].creation
      /\ proc[c].creation <= snapshotTime
  BY DEF IInv, LivesInv, SeenInv, Old
<1> QED BY <1>2, <1>3 DEF VerifiedChild, ValidEdge, IdentityOf, Old

\* A step of the walk loses no child that runs since before.
LEMMA ChildrenSound ==
  ASSUME IInv, SeenInv, VisitInv, ChildrenInv, [Next]_vars
  PROVE  ChildrenInv'
<1> SUFFICES ASSUME pc' = "walk", NEW j \in 1..Len(stack'), NEW p \in Pids, Old(p)',
                    proc'[p].parent = stack'[j].parent
             PROVE  \/ p \in stack'[j].children \/ InOrder(IdentityOf(p))'
                    \/ j < Len(stack') /\ stack'[j + 1].parent = IdentityOf(p)'
  BY DEF ChildrenInv
<1>0. pc \notin Early
  BY ComesFrom DEF Early
<1>1. /\ Old(p) /\ proc'[p].parent = proc[p].parent /\ proc'[p].creation = proc[p].creation
  BY <1>0, OldBefore DEF Old
<1>2. IdentityOf(p)' = IdentityOf(p)
  BY <1>1 DEF IdentityOf
<1> DEFINE n == Len(stack)
           Kept(i) == \/ p \in stack[i].children \/ InOrder(IdentityOf(p))
                      \/ i < n /\ stack[i + 1].parent = IdentityOf(p)
<1>3. pc = "walk" => \A i \in 1..n : proc[p].parent = stack[i].parent => Kept(i)
  BY <1>1 DEF ChildrenInv
<1>4. order' = order => InOrder(IdentityOf(p))' = InOrder(IdentityOf(p))
  BY <1>2 DEF InOrder
<1>5. CASE pc = "walk" /\ UNCHANGED <<stack, visited, order>>
  BY <1>1, <1>2, <1>3, <1>4, <1>5
<1>6. CASE pc = "walk" /\ \E c \in Pids : VisitChild(c)
  <2>1. PICK c \in Pids : VisitChild(c)
    BY <1>6
  <2>2. PICK rest \in Seq(Frames) :
         /\ Len(rest) = n
         /\ \A i \in 1..n :
              /\ i # n => rest[i] = stack[i]
              /\ rest[i].parent = stack[i].parent
              /\ i = n => rest[i].children = stack[i].children \ {c}
         /\ \/ ~VerifiedChild(c) /\ stack' = rest /\ visited' = visited
            \/ /\ VerifiedChild(c) /\ visited' = visited \union {c}
               /\ Len(stack') = n + 1
               /\ \A i \in 1..n : stack'[i] = rest[i]
               /\ stack'[n + 1] = [parent |-> IdentityOf(c), children |-> ChildrenOf(c)]
    BY <1>6, <2>1, VisitShapes
  <2>3. n \in Nat /\ n > 0 /\ n \in 1..n
    BY <1>6, WalkBasics
  <2>4. order' = order
    BY <2>1 DEF VisitChild
  <2>5. CASE ~VerifiedChild(c) /\ stack' = rest
    <3>1. Len(stack') = n /\ j \in 1..n /\ stack'[j].parent = stack[j].parent
      BY <2>2, <2>5
    <3>2. Kept(j)
      BY <1>1, <1>3, <1>6, <3>1
    <3>3. ~(p = c /\ j = n)
      BY <1>1, <1>6, <2>1, <2>5, <3>1, OldIsVerified DEF Top
    <3>4. p \in stack[j].children => p \in stack'[j].children
      BY <2>2, <2>5, <3>1, <3>3
    <3>5. j < n => stack'[j + 1].parent = stack[j + 1].parent
      <4>1. j < n => j + 1 \in 1..n
        BY <2>3, <3>1
      <4> QED BY <2>2, <2>5, <4>1
    <3> HIDE DEF n
    <3> QED BY <1>2, <1>4, <2>4, <3>1, <3>2, <3>4, <3>5
  <2>6. CASE VerifiedChild(c) /\ Len(stack') = n + 1
             /\ (\A i \in 1..n : stack'[i] = rest[i])
             /\ stack'[n + 1] = [parent |-> IdentityOf(c), children |-> ChildrenOf(c)]
    <3>1. CASE j \in 1..n
      <4>1. stack'[j].parent = stack[j].parent
        BY <2>2, <2>6, <3>1
      <4>2. Kept(j)
        BY <1>1, <1>3, <1>6, <3>1, <4>1
      <4>3. p \in stack[j].children /\ ~(p = c /\ j = n) => p \in stack'[j].children
        BY <2>2, <2>6, <3>1
      <4>4. j < n => stack'[j + 1].parent = stack[j + 1].parent
        <5>1. j < n => j + 1 \in 1..n
          BY <2>3, <3>1
        <5> QED BY <2>2, <2>6, <5>1
      <4>5. stack'[n + 1].parent = IdentityOf(c)
        BY <2>6
      <4>6. j < Len(stack')
        BY <2>3, <2>6, <3>1
      <4> HIDE DEF n
      <4> QED BY <1>2, <1>4, <2>4, <4>2, <4>3, <4>4, <4>5, <4>6
    <3>2. CASE j = n + 1
      <4>1. proc[p].parent.pid = c
        <5>1. stack'[j].parent = IdentityOf(c)
          BY <2>6, <3>2
        <5>2. IdentityOf(c).pid = c
          BY DEF IdentityOf
        <5> QED BY <1>1, <5>1, <5>2
      <4>2. p \in ChildrenOf(c)
        BY <1>1, <1>6, <4>1, ListedUnderParent
      <4> QED BY <2>6, <3>2, <4>2
    <3> QED BY <2>3, <2>6, <3>1, <3>2
  <2> QED BY <2>2, <2>5, <2>6
<1>7. CASE pc = "walk" /\ LeaveParent
  <2>1. /\ stack[n].children = {}
        /\ Len(stack') = n - 1
        /\ \A i \in 1..n - 1 : stack'[i] = stack[i]
        /\ Len(order') = Len(order) + 1 /\ \A k \in 1..Len(order) : order'[k] = order[k]
        /\ order'[Len(order) + 1] = stack[n].parent
        /\ n \in Nat /\ n > 0 /\ Len(order) \in Nat
    BY <1>7, LeaveShapes, WalkBasics
  <2>2. j \in 1..n /\ j # n /\ stack'[j] = stack[j]
    BY <2>1
  <2>3. Kept(j)
    BY <1>1, <1>3, <1>7, <2>2
  <2>4. InOrder(IdentityOf(p)) => InOrder(IdentityOf(p))'
    <3>1. \A k \in 1..Len(order) : k \in 1..Len(order')
      BY <2>1
    <3> QED BY <1>2, <2>1, <3>1 DEF InOrder
  <2>5. j + 1 = n /\ stack[j + 1].parent = IdentityOf(p) => InOrder(IdentityOf(p))'
    <3>1. Len(order) + 1 \in 1..Len(order')
      BY <2>1
    <3> QED BY <1>2, <2>1, <3>1 DEF InOrder
  <2>6. j + 1 # n => j < Len(stack') /\ stack'[j + 1] = stack[j + 1]
    BY SMTT(60), <2>1, <2>2
  <2> HIDE DEF n
  <2> QED BY <1>2, <2>2, <2>3, <2>4, <2>5, <2>6
<1>8. CASE pc = "validate" /\ ValidateRoot /\ Descend(root)
  <2>1. stack = << >> /\ proc' = proc
    BY <1>8 DEF IInv, WalkInv, ValidateRoot, system
  <2>2. stack' = <<[parent |-> root, children |-> ChildrenOf(root.pid)]>>
    BY <1>8, <2>1 DEF Descend
  <2>3. j = 1 /\ stack'[j].parent = root /\ stack'[j].children = ChildrenOf(root.pid)
    BY <2>2
  <2> QED BY <1>1, <1>8, <2>3, ListedUnderParent
<1> QED BY <1>5, <1>6, <1>7, <1>8, ComesFrom, WalkSteps

\* The order stays once the walk has ended.
LEMMA OrderRests ==
  ASSUME IInv, [Next]_vars, pc \in {"open", "terminate"}
  PROVE  order' = order
<1> USE DEF selection, walk, result, system
<1>1. CASE System \/ UNCHANGED vars
  BY <1>1, SystemRests DEF Resting
<1>2. CASE OpenRoot \/ KillOne \/ ListProcesses \/ ReadSnapshotTime \/ ValidateRoot
  BY <1>2 DEF OpenRoot, KillOne, ListProcesses, ReadSnapshotTime, ValidateRoot, Report
<1>3. CASE (\E c \in Pids : VisitChild(c)) \/ LeaveParent
  BY <1>3 DEF VisitChild, LeaveParent, Report
<1>4. CASE OpenTarget \/ Prepared \/ TerminateTarget \/ Conclude
  BY <1>4 DEF OpenTarget, Prepared, TerminateTarget, Conclude, Report
<1> QED
  BY <1>1, <1>2, <1>3, <1>4 DEF Next, Command

\* Children precede their parents in the order.
LEMMA LeavesSound ==
  ASSUME IInv, ChildrenInv, LeavesFirst, [Next]_vars
  PROVE  LeavesFirst'
<1> SUFFICES ASSUME pc' \in {"walk", "open", "terminate"}, NEW i \in 1..Len(order'), NEW p \in Pids,
                    Old(p)', proc'[p].parent = order'[i]
             PROVE  \E k \in 1..i - 1 : order'[k] = IdentityOf(p)'
  BY DEF LeavesFirst
<1>0. pc \notin Early
  BY ComesFrom DEF Early
<1>1. /\ Old(p) /\ proc'[p].parent = proc[p].parent /\ proc'[p].creation = proc[p].creation
  BY <1>0, OldBefore DEF Old
<1>2. IdentityOf(p)' = IdentityOf(p)
  BY <1>1 DEF IdentityOf
<1>3. CASE pc \in {"walk", "open", "terminate"} /\ order' = order
  BY <1>1, <1>2, <1>3 DEF LeavesFirst
<1>4. CASE pc = "walk" /\ LeaveParent
  <2> DEFINE n == Len(stack)
             m == Len(order)
  <2>1. /\ stack[n].children = {}
        /\ Len(order') = m + 1 /\ \A k \in 1..m : order'[k] = order[k]
        /\ order'[m + 1] = stack[n].parent
        /\ n \in 1..n /\ n \in Nat /\ m \in Nat
    BY <1>4, LeaveShapes, WalkBasics
  <2>2. CASE i \in 1..m
    <3>1. PICK k \in 1..i - 1 : order[k] = IdentityOf(p)
      BY <1>1, <1>4, <2>1, <2>2 DEF LeavesFirst
    <3>2. k \in 1..m
      BY <2>1, <2>2
    <3> QED BY <1>2, <2>1, <3>1, <3>2
  <2>3. CASE i = m + 1
    <3>1. proc[p].parent = stack[n].parent
      BY <1>1, <2>1, <2>3
    <3>2. InOrder(IdentityOf(p))
      BY <1>1, <1>4, <2>1, <3>1 DEF ChildrenInv
    <3>3. PICK k \in 1..m : order[k] = IdentityOf(p)
      BY <3>2 DEF InOrder
    <3>4. k \in 1..i - 1 /\ order'[k] = IdentityOf(p)
      BY <2>1, <2>3, <3>3
    <3> QED BY <1>2, <3>4
  <2> QED BY <2>1, <2>2, <2>3
<1>5. CASE pc = "validate" /\ ValidateRoot
  <2>1. order' = << >>
    BY <1>5 DEF IInv, WalkInv, ValidateRoot
  <2> QED BY <2>1
<1>6. pc = "walk" => order' = order \/ LeaveParent
  BY WalkSteps DEF VisitChild
<1> QED BY <1>3, <1>4, <1>5, <1>6, ComesFrom, OrderRests

\* The steps of the targets.
LEMMA TargetSteps ==
  ASSUME IInv, [Next]_vars, pc \in {"open", "terminate"}
  PROVE  \/ UNCHANGED <<pc, targets, next, outcome, killed>>
         \/ OpenTarget \/ TerminateTarget \/ Prepared \/ Conclude
<1> USE DEF selection, walk, result, system
<1>1. CASE System \/ UNCHANGED vars
  BY <1>1, SystemRests DEF Resting
<1>2. CASE OpenRoot \/ KillOne \/ ListProcesses \/ ReadSnapshotTime \/ ValidateRoot
  BY <1>2 DEF OpenRoot, KillOne, ListProcesses, ReadSnapshotTime, ValidateRoot
<1>3. CASE (\E c \in Pids : VisitChild(c)) \/ LeaveParent
  BY <1>3 DEF VisitChild, LeaveParent
<1> QED
  BY <1>1, <1>2, <1>3 DEF Next, Command

RootLast == Len(order) > 0 /\ order[Len(order)] = root
Done(i) == Running(order[i]) => outcome.failure \/ IsTarget(order[i])
AllTargets == \A i \in 1..Len(order) : (pc = "open" => i < next) => Done(i)
ChildrenFirst ==
    \A j \in 1..Len(targets) : \A p \in Pids : Old(p) /\ proc[p].parent = targets[j] =>
      outcome.failure \/ \E i \in 1..j - 1 : targets[i] = IdentityOf(p)

\* What runs of the order ran before.
LEMMA OrderRan ==
  ASSUME IInv, [Next]_vars, NEW i \in 1..Len(order), Running(order[i])',
         order' = order
  PROVE  Running(order[i])
<1>1. order[i] \in Identities /\ Proper(order[i])
  <2>1. order \in Seq(Identities)
    BY DEF IInv, TypeInv
  <2> QED BY <2>1 DEF IInv, ChosenInv
<1>2. order'[i].pid \in DOMAIN proc' /\ proc'[order'[i].pid].creation = order'[i].creation
      /\ proc'[order'[i].pid].running
  BY DEF Running, IdentityOf
<1>3. order[i].pid \in DOMAIN proc /\ proc[order[i].pid].creation = order[i].creation
      /\ proc[order[i].pid].running
  BY <1>1, <1>2, RunningBefore
<1> QED BY <1>1, <1>3 DEF Running, IdentityOf, Identities

\* A step that is not about the targets leaves what they are for.
LEMMA TargetsKept ==
  ASSUME IInv, TargetsInv, [Next]_vars, pc \in {"open", "terminate"}, pc' = pc,
         UNCHANGED <<targets, next, outcome>>
  PROVE  RootLast' /\ AllTargets' /\ ChildrenFirst'
<1>1. order' = order /\ root' = root
  BY OrderRests, Onward
<1>2. RootLast'
  BY <1>1 DEF TargetsInv, RootLast
<1>3. AllTargets'
  <2> SUFFICES ASSUME NEW i \in 1..Len(order), pc = "open" => i < next, Running(order[i])'
               PROVE  outcome.failure \/ IsTarget(order[i])
    BY <1>1 DEF AllTargets, Done, IsTarget
  <2>1. Running(order[i])
    BY <1>1, OrderRan
  <2> QED BY <2>1 DEF TargetsInv
<1>4. ChildrenFirst'
  <2> SUFFICES ASSUME NEW j \in 1..Len(targets), NEW p \in Pids, Old(p)', proc'[p].parent = targets[j]
               PROVE  outcome.failure \/ \E i \in 1..j - 1 : targets[i] = IdentityOf(p)'
    BY DEF ChildrenFirst
  <2>1. /\ Old(p) /\ proc'[p].parent = proc[p].parent /\ proc'[p].creation = proc[p].creation
    BY OldBefore DEF Old, Early
  <2> QED BY <2>1 DEF TargetsInv, IdentityOf
<1> QED BY <1>2, <1>3, <1>4

\* A target is opened after its children.
LEMMA TargetOpened ==
  ASSUME IInv, TargetsInv, LeavesFirst, OpenTarget, [Next]_vars, pc' = "open"
  PROVE  RootLast' /\ AllTargets' /\ ChildrenFirst'
<1>1. /\ pc = "open" /\ next <= Len(order) /\ UNCHANGED <<proc, order, outcome>>
      /\ next \in Nat /\ next >= 1 /\ Len(order) \in Nat /\ next' = next + 1
      /\ targets \in Seq(Identities) /\ Len(targets) \in Nat /\ root' = root
      /\ order \in Seq(Identities)
  <2>1. /\ pc = "open" /\ next <= Len(order) /\ UNCHANGED <<proc, order, outcome>>
        /\ next' = next + 1 /\ root' = root
    BY DEF OpenTarget, Report, system, selection
  <2> QED BY <2>1 DEF IInv, WalkInv, TypeInv, TypeOK
<1>2. next \in 1..Len(order)
  BY <1>1
<1>3. RootLast'
  BY <1>1 DEF TargetsInv, RootLast
<1>4. Running(order[next]) /\ order[next] # root => Opens(order[next])
  <2>1. order[next].creation # 0 \/ ~Running(order[next])
    <3>1. \A p \in DOMAIN proc : proc[p].creation # 0
      BY ProcessTreeAssumption DEF IInv, TypeInv, TypeOK, Processes, Times
    <3> QED BY <3>1 DEF Running, IdentityOf
  <2> QED BY <2>1 DEF Running, Opens, Unverified, IdentityOf
<1>5. \/ targets' = Append(targets, order[next])
      \/ targets' = targets /\ ~Running(order[next])
  BY <1>4 DEF OpenTarget, Report
<1>6. \A i \in Identities : Running(i)' = Running(i)
  BY <1>1 DEF Running, IdentityOf
<1>7. CASE targets' = targets /\ ~Running(order[next])
  <2>1. AllTargets'
    <3> SUFFICES ASSUME NEW i \in 1..Len(order), i < next + 1, Running(order[i])
                 PROVE  outcome.failure \/ IsTarget(order[i])
      BY <1>1, <1>6, <1>7 DEF AllTargets, Done, IsTarget
    <3>1. i < next
      BY <1>1, <1>7
    <3> QED BY <1>1, <3>1 DEF TargetsInv
  <2>2. ChildrenFirst'
    BY <1>1, <1>7 DEF TargetsInv, ChildrenFirst, Old, IdentityOf
  <2> QED BY <1>3, <2>1, <2>2
<1>8. CASE targets' = Append(targets, order[next])
  <2> DEFINE n == Len(targets)
  <2>1. /\ Len(targets') = n + 1 /\ targets'[n + 1] = order[next]
        /\ \A j \in 1..n : targets'[j] = targets[j]
    BY <1>1, <1>8
  <2>2. \A j \in 1..n : j \in 1..Len(targets')
    BY <1>1, <2>1
  <2> DEFINE Opened(x) == \E j \in 1..Len(targets') : targets'[j] = x
  <2>3. \A x : IsTarget(x) => Opened(x)
    BY <2>1, <2>2 DEF IsTarget
  <2>4. Opened(order[next])
    <3>1. n + 1 \in 1..Len(targets')
      BY <1>1, <2>1
    <3> QED BY <2>1, <3>1
  <2>5. AllTargets'
    <3> SUFFICES ASSUME NEW i \in 1..Len(order), i < next + 1, Running(order[i])
                 PROVE  outcome.failure \/ Opened(order[i])
      BY <1>1 DEF AllTargets, Done, IsTarget, Running, IdentityOf
    <3>1. i < next \/ i = next
      <4>1. i \in Nat /\ next \in Nat
        BY <1>1
      <4> QED BY <4>1
    <3> HIDE DEF Opened
    <3> QED BY <1>1, <2>3, <2>4, <3>1 DEF TargetsInv
  <2>6. ChildrenFirst'
    <3> SUFFICES ASSUME NEW j \in 1..Len(targets'), NEW p \in Pids, Old(p), proc[p].parent = targets'[j]
                 PROVE  outcome.failure \/ \E i \in 1..j - 1 : targets'[i] = IdentityOf(p)
      BY <1>1 DEF ChildrenFirst, Old, IdentityOf
    <3>1. CASE j \in 1..n
      <4>1. outcome.failure \/ \E i \in 1..j - 1 : targets[i] = IdentityOf(p)
        BY <1>1, <2>1, <3>1 DEF TargetsInv
      <4>2. \A i \in 1..j - 1 : i \in 1..n
        BY <1>1, <3>1
      <4> QED BY <2>1, <4>1, <4>2
    <3>2. CASE j = n + 1
      <4>1. PICK k \in 1..next - 1 : order[k] = IdentityOf(p)
        BY <1>1, <1>2, <2>1, <3>2 DEF LeavesFirst
      <4>2. k \in 1..Len(order) /\ k < next
        BY <1>1
      <4>3. Running(order[k])
        <5>1. IdentityOf(p).pid = p
          BY DEF IdentityOf
        <5> QED BY <4>1, <5>1 DEF Running, Old
      <4>4. outcome.failure \/ IsTarget(order[k])
        BY <1>1, <4>2, <4>3 DEF TargetsInv
      <4>5. IsTarget(order[k]) => \E i \in 1..j - 1 : targets'[i] = IdentityOf(p)
        <5>1. j - 1 = n
          BY <1>1, <3>2
        <5> QED BY <2>1, <4>1, <5>1 DEF IsTarget
      <4> QED BY <4>4, <4>5
    <3> QED BY <1>1, <2>1, <3>1, <3>2
  <2> QED BY <1>3, <2>5, <2>6
<1> QED BY <1>5, <1>7, <1>8

\* The first target has ended, or its termination failed.
LEMMA HeadEnds ==
  ASSUME IInv, TerminateTarget
  PROVE  /\ pc = "terminate" /\ pc' = pc /\ order' = order /\ root' = root /\ report' = report
         /\ Len(targets) \in Nat /\ Len(targets) > 0
         /\ Len(targets') = Len(targets) - 1
         /\ \A j \in 1..Len(targets') : targets'[j] = targets[j + 1]
         /\ targets[1].pid \in DOMAIN proc /\ IdentityOf(targets[1].pid) = targets[1]
         /\ outcome.failure => outcome'.failure
         /\ ~outcome'.failure => ~(proc[targets[1].pid].running /\ proc'[targets[1].pid].running)
         /\ \/ killed' = killed
            \/ /\ outcome'.success /\ outcome'.completed
               /\ \A k \in killed' : k \in killed \/ k.who = targets[1]
         /\ outcome.success => outcome'.success
         /\ outcome.completed => outcome'.completed
<1> USE DEF selection, walk
<1>1. /\ pc = "terminate" /\ pc' = pc /\ order' = order /\ root' = root /\ report' = report
      /\ targets # << >> /\ targets' = Tail(targets)
  BY DEF TerminateTarget
<1>2. targets \in Seq(Identities)
  BY DEF IInv, TypeInv
<1>3. /\ Len(targets) \in Nat /\ Len(targets) > 0 /\ Len(targets') = Len(targets) - 1
      /\ \A j \in 1..Len(targets') : targets'[j] = targets[j + 1]
      /\ Head(targets) = targets[1] /\ 1 \in 1..Len(targets)
  BY <1>1, <1>2
<1>4. targets[1].pid \in DOMAIN proc /\ IdentityOf(targets[1].pid) = targets[1]
  BY <1>3 DEF IInv, TypeInv, TypeOK
<1> DEFINE P == targets[1].pid
<1>5. outcome \in Outcomes /\ proc[P] \in Processes
  BY <1>4 DEF IInv, TypeInv, TypeOK
<1>6. \/ /\ Kill(P) /\ outcome' = [outcome EXCEPT !.success = TRUE, !.completed = TRUE]
      \/ /\ ~proc[P].running /\ outcome' = [outcome EXCEPT !.completed = TRUE]
         /\ UNCHANGED <<killed, proc>>
      \/ /\ outcome' = [outcome EXCEPT !.failure = TRUE, !.rootError = @ \/ P = root.pid]
         /\ UNCHANGED <<killed, proc>>
  BY <1>3 DEF TerminateTarget
<1>7. /\ outcome.failure => outcome'.failure
      /\ outcome.success => outcome'.success
      /\ outcome.completed => outcome'.completed
  BY <1>5, <1>6 DEF Outcomes
<1>8. CASE Kill(P) /\ outcome' = [outcome EXCEPT !.success = TRUE, !.completed = TRUE]
  <2>1. outcome'.success /\ outcome'.completed
    BY <1>5, <1>8 DEF Outcomes
  <2>2. proc' = [proc EXCEPT ![P].running = FALSE]
    BY <1>8 DEF Kill
  <2>3. proc'[P] = [proc[P] EXCEPT !.running = FALSE]
    BY <1>4, <2>2
  <2>4. ~proc'[P].running
    BY <1>5, <2>3 DEF Processes
  <2>5. \A k \in killed' : k \in killed \/ k.who = targets[1]
    BY <1>4, <1>8 DEF Kill
  <2> QED BY <1>1, <1>3, <1>4, <1>7, <2>1, <2>4, <2>5
<1>9. CASE /\ ~proc[P].running /\ outcome' = [outcome EXCEPT !.completed = TRUE]
           /\ UNCHANGED <<killed, proc>>
  BY <1>1, <1>3, <1>4, <1>7, <1>9
<1>10. CASE /\ outcome' = [outcome EXCEPT !.failure = TRUE, !.rootError = @ \/ P = root.pid]
            /\ UNCHANGED <<killed, proc>>
  <2>1. outcome'.failure
    BY <1>5, <1>10 DEF Outcomes
  <2> QED BY <1>1, <1>3, <1>4, <1>7, <1>10, <2>1
<1> QED BY <1>6, <1>8, <1>9, <1>10

\* The first target is terminated before its parent.
LEMMA TargetTerminated ==
  ASSUME IInv, TargetsInv, TerminateTarget, [Next]_vars
  PROVE  RootLast' /\ AllTargets' /\ ChildrenFirst'
<1> DEFINE n == Len(targets)
           t == targets[1]
<1>1. /\ pc = "terminate" /\ pc' = pc /\ order' = order /\ root' = root
      /\ n \in Nat /\ n > 0 /\ Len(targets') = n - 1
      /\ \A j \in 1..Len(targets') : targets'[j] = targets[j + 1]
      /\ t.pid \in DOMAIN proc /\ IdentityOf(t.pid) = t
      /\ outcome.failure => outcome'.failure
      /\ ~outcome'.failure => ~(proc[t.pid].running /\ proc'[t.pid].running)
  BY HeadEnds
<1> HIDE DEF t
<1>2. RootLast'
  BY <1>1 DEF TargetsInv, RootLast
<1>3. ASSUME NEW x, NEW j \in 1..n, targets[j] = x, j # 1
      PROVE  j - 1 \in 1..Len(targets') /\ targets'[j - 1] = x
  <2>1. j - 1 \in 1..Len(targets') /\ j - 1 + 1 = j
    BY <1>1, <1>3
  <2>2. targets'[j - 1] = targets[j - 1 + 1]
    BY <1>1, <2>1
  <2> QED BY <1>3, <2>1, <2>2
<1> DEFINE Still(x) == \E j \in 1..Len(targets') : targets'[j] = x
<1>4. AllTargets'
  <2> SUFFICES ASSUME NEW i \in 1..Len(order), Running(order[i])'
               PROVE  outcome'.failure \/ Still(order[i])
    BY <1>1 DEF AllTargets, Done, IsTarget
  <2>1. Running(order[i])
    BY <1>1, OrderRan
  <2>2. outcome.failure \/ IsTarget(order[i])
    BY <1>1, <2>1 DEF TargetsInv
  <2>3. ASSUME ~outcome.failure PROVE outcome'.failure \/ Still(order[i])
    <3>1. PICK j \in 1..n : targets[j] = order[i]
      BY <2>2, <2>3 DEF IsTarget
    <3>2. CASE j = 1
      <4>1. order[i] = t
        BY <3>1, <3>2 DEF t
      <4>2. proc[t.pid].running /\ proc'[t.pid].running
        <5>1. order'[i] = t
          BY <1>1, <4>1
        <5> QED BY <2>1, <4>1, <5>1 DEF Running
      <4> QED BY <1>1, <4>2
    <3>3. CASE j # 1
      BY <1>3, <3>1, <3>3
    <3> QED BY <3>2, <3>3
  <2> QED BY <1>1, <2>3
<1>5. ChildrenFirst'
  <2> SUFFICES ASSUME NEW j \in 1..Len(targets'), NEW p \in Pids, Old(p)', proc'[p].parent = targets'[j]
               PROVE  outcome'.failure \/ \E i \in 1..j - 1 : targets'[i] = IdentityOf(p)'
    BY DEF ChildrenFirst
  <2>1. /\ Old(p) /\ proc'[p].parent = proc[p].parent /\ proc'[p].creation = proc[p].creation
    BY <1>1, OldBefore DEF Old, Early
  <2>2. IdentityOf(p)' = IdentityOf(p)
    BY <2>1 DEF IdentityOf
  <2>3. j + 1 \in 1..n /\ proc[p].parent = targets[j + 1] /\ j + 1 - 1 = j /\ j \in Nat
    <3>1. j + 1 \in 1..n /\ j + 1 - 1 = j /\ j \in Nat
      BY <1>1
    <3>2. targets'[j] = targets[j + 1]
      BY <1>1
    <3> QED BY <2>1, <3>1, <3>2
  <2>4. outcome.failure \/ \E i \in 1..j + 1 - 1 : targets[i] = IdentityOf(p)
    BY <1>1, <2>1, <2>3 DEF TargetsInv
  <2>5. ASSUME ~outcome.failure PROVE outcome'.failure \/ \E i \in 1..j - 1 : targets'[i] = IdentityOf(p)
    <3>1. PICK i \in 1..j : targets[i] = IdentityOf(p)
      BY <2>3, <2>4, <2>5
    <3>2. i \in 1..n
      BY <2>3, <1>1
    <3>3. CASE i = 1
      <4>1. IdentityOf(p) = t
        BY <3>1, <3>3 DEF t
      <4>2. t.pid = p
        BY <4>1 DEF IdentityOf
      <4>3. proc[p].running /\ proc'[p].running
        BY <2>1 DEF Old
      <4> QED BY <1>1, <4>2, <4>3
    <3>4. CASE i # 1
      <4>1. targets'[i - 1] = IdentityOf(p)
        BY <1>3, <3>1, <3>2, <3>4
      <4>2. i - 1 \in 1..j - 1
        BY <2>3, <3>4
      <4> QED BY <4>1, <4>2
    <3> QED BY <3>3, <3>4
  <2> QED BY <1>1, <2>2, <2>5
<1> QED BY <1>2, <1>4, <1>5

\* What runs of the order is a target or will be, or a failure is noted.
LEMMA TargetsSound ==
  ASSUME IInv, TargetsInv, LeavesFirst, [Next]_vars
  PROVE  TargetsInv'
<1> SUFFICES ASSUME pc' \in {"open", "terminate"} PROVE RootLast' /\ AllTargets' /\ ChildrenFirst'
  BY DEF TargetsInv, RootLast, AllTargets, Done, ChildrenFirst
<1>1. CASE pc = "walk" /\ LeaveParent /\ pc' = "open"
  <2>1. /\ Len(stack) = 1 /\ targets = << >> /\ targets' = targets /\ next = 1 /\ next' = next
        /\ stack[1].parent = root /\ root' = root
    BY <1>1 DEF LeaveParent, IInv, WalkInv, selection
  <2>2. /\ Len(order') = Len(order) + 1 /\ Len(order) \in Nat
        /\ order'[Len(order) + 1] = root
    BY <1>1, <2>1, LeaveShapes, WalkBasics
  <2>3. RootLast'
    BY <2>1, <2>2 DEF RootLast
  <2>4. AllTargets'
    <3>1. \A i \in 1..Len(order') : ~(i < next')
      BY <2>1, <2>2
    <3> QED BY <1>1, <3>1 DEF AllTargets
  <2>5. ChildrenFirst'
    <3>1. Len(targets') = 0
      BY <2>1
    <3> QED BY <3>1 DEF ChildrenFirst
  <2> QED BY <2>3, <2>4, <2>5
<1>2. CASE pc = "open" /\ Prepared /\ pc' = "terminate"
  <2>1. /\ next > Len(order) /\ UNCHANGED <<proc, order, targets, outcome, root>>
        /\ next \in Nat /\ Len(order) \in Nat
    <3>1. next > Len(order) /\ UNCHANGED <<proc, order, targets, outcome, root>>
      BY <1>2 DEF Prepared, Report, system, walk, selection
    <3>2. order \in Seq(Identities) /\ next \in Nat
      BY DEF IInv, TypeInv, TypeOK
    <3> QED BY <3>1, <3>2
  <2>2. \A i \in 1..Len(order) : i < next
    BY <2>1
  <2>3. AllTargets'
    BY <1>2, <2>1, <2>2 DEF TargetsInv, AllTargets, Done, Running, IsTarget, IdentityOf
  <2>4. RootLast' /\ ChildrenFirst'
    BY <1>2, <2>1 DEF TargetsInv, RootLast, ChildrenFirst, Old, IdentityOf
  <2> QED BY <2>3, <2>4
<1>3. ASSUME pc \in {"open", "terminate"}, pc' = pc PROVE RootLast' /\ AllTargets' /\ ChildrenFirst'
  <2>1. CASE UNCHANGED <<targets, next, outcome>>
    BY <1>3, <2>1, TargetsKept
  <2>2. CASE OpenTarget
    BY <1>3, <2>2, TargetOpened DEF OpenTarget
  <2>3. CASE TerminateTarget
    BY <2>3, TargetTerminated
  <2>4. ~Conclude /\ ~(Prepared)
    BY <1>3 DEF Conclude, Prepared, Report
  <2> QED BY <1>3, <2>1, <2>2, <2>3, <2>4, TargetSteps
<1>4. pc' = "terminate" /\ pc = "open" => Prepared
  BY TargetSteps DEF OpenTarget, TerminateTarget, Conclude, Report
<1>5. pc' = "open" => pc # "terminate"
  BY TargetSteps DEF OpenTarget, TerminateTarget, Prepared, Conclude, Report
<1> QED BY <1>1, <1>2, <1>3, <1>4, <1>5, ComesFrom

\* What the other steps leave of the verdict: nothing more has been ended, and
\* the user is told at most of a failure.
Quiet == killed' = killed /\ outcome' = outcome /\ refreshed' = refreshed
           /\ (report' = report \/ (report' \in {"cantKill", "treeFailed"} /\ killed = {}))

LEMMA QuietSteps ==
  ASSUME IInv, [Next]_vars
  PROVE  Quiet \/ KillOne \/ TerminateTarget \/ Conclude
<1> USE DEF selection, walk, result, system, Quiet
<1>0. pc \notin {"terminate", "done"} => killed = {}
  BY DEF IInv, WalkInv
<1>1. CASE System \/ UNCHANGED vars
  BY <1>1, SystemRests DEF Resting, vars
<1>2. CASE OpenRoot \/ ListProcesses \/ ReadSnapshotTime \/ ValidateRoot
  BY <1>0, <1>2 DEF OpenRoot, ListProcesses, ReadSnapshotTime, ValidateRoot, Report
<1>3. CASE (\E c \in Pids : VisitChild(c)) \/ LeaveParent
  BY <1>0, <1>3 DEF VisitChild, LeaveParent, Report
<1>4. CASE OpenTarget \/ Prepared
  BY <1>0, <1>4 DEF OpenTarget, Prepared, Report
<1> QED
  BY <1>1, <1>2, <1>3, <1>4 DEF Next, Command

\* After the end nothing happens.
LEMMA Over ==
  ASSUME IInv, [Next]_vars, pc = "done" PROVE UNCHANGED vars
BY DEF Next, System, Command, InCommand, Tick, CreateProcess, Exit, FreePid, OpenRoot, KillOne,
       ListProcesses, ReadSnapshotTime, ValidateRoot, VisitChild, LeaveParent, OpenTarget,
       Prepared, TerminateTarget, Conclude

\* What was ended is noted in the outcome.
LEMMA EndedSound ==
  ASSUME IInv, EndedInv, [Next]_vars PROVE EndedInv'
<1>1. pc' = "kill" => command' = "Terminate"
  <2>1. pc' = "kill" => pc = "kill" \/ (OpenRoot /\ command = "Terminate")
    <3> USE DEF selection, walk, result, system
    <3>1. CASE System \/ UNCHANGED vars
      BY <3>1, SystemRests DEF Resting
    <3>2. CASE OpenRoot
      BY <3>2 DEF OpenRoot, Report, IInv, TypeInv
    <3>3. CASE KillOne \/ ListProcesses \/ ReadSnapshotTime \/ ValidateRoot
      BY <3>3 DEF KillOne, ListProcesses, ReadSnapshotTime, ValidateRoot, Report
    <3>4. CASE (\E c \in Pids : VisitChild(c)) \/ LeaveParent
      BY <3>4 DEF VisitChild, LeaveParent, Report
    <3>5. CASE OpenTarget \/ Prepared \/ TerminateTarget \/ Conclude
      BY <3>5 DEF OpenTarget, Prepared, TerminateTarget, Conclude, Report
    <3> QED BY <3>1, <3>2, <3>3, <3>4, <3>5 DEF Next, Command
  <2> QED BY <2>1, Onward DEF EndedInv
<1>2. ASSUME pc' = "terminate", killed' # {} PROVE outcome'.success /\ outcome'.completed
  <2>1. CASE Quiet
    <3>1. killed # {} /\ outcome' = outcome
      BY <1>2, <2>1 DEF Quiet
    <3>2. pc = "terminate"
      BY <1>2, <3>1, ComesFrom DEF IInv, WalkInv
    <3> QED BY <3>1, <3>2 DEF EndedInv
  <2>2. CASE TerminateTarget
    BY <1>2, <2>2, HeadEnds DEF EndedInv
  <2>3. CASE KillOne \/ Conclude
    BY <1>2, <2>3 DEF KillOne, Conclude, Report
  <2> QED BY <2>1, <2>2, <2>3, QuietSteps
<1> QED BY <1>1, <1>2 DEF EndedInv

\* Families end together.
LEMMA FamiliesSound ==
  ASSUME IInv, LeavesFirst, TargetsInv, EndedInv, FamiliesEndTogether, [Next]_vars
  PROVE  FamiliesEndTogether'
<1> SUFFICES ASSUME command' = "TerminateTree", NEW p \in DOMAIN proc',
                    proc'[p].running, ~proc'[p].late,
                    \/ \E k \in killed' : k.who = proc'[p].parent
                    \/ report' = "ok" /\ \E i \in 1..Len(order') : order'[i] = proc'[p].parent
             PROVE  outcome'.failure
  BY DEF FamiliesEndTogether
<1>C. command = "TerminateTree"
  BY Onward
<1>1. CASE pc = "done"
  <2>1. UNCHANGED vars
    BY <1>1, Over
  <2>2. UNCHANGED <<proc, killed, report, order, outcome>>
    BY <2>1 DEF vars, system, walk, result
  <2> QED BY <1>C, <2>2 DEF FamiliesEndTogether
<1>N. pc # "done" => report = "none"
  BY DEF IInv, TypeInv, TypeOK
<1>P. \A q \in DOMAIN proc : q \in Pids
  BY DEF IInv, TypeInv, TypeOK
<1>2. CASE pc # "done" /\ Quiet
  <2>1. killed' = killed /\ killed # {} /\ outcome' = outcome
    BY <1>2, <1>N DEF Quiet
  <2>2. pc \notin Early
    BY <1>2, <2>1 DEF IInv, WalkInv, Early
  <2>3. Old(p) /\ proc'[p].parent = proc[p].parent
    BY <2>2, OldBefore
  <2>4. \E k \in killed : k.who = proc[p].parent
    BY <1>2, <1>N, <2>1, <2>3 DEF Quiet
  <2> QED BY <1>C, <2>1, <2>3, <2>4 DEF FamiliesEndTogether, Old
<1>3. CASE KillOne
  BY <1>C, <1>3 DEF KillOne, EndedInv
<1>4. CASE TerminateTarget
  <2>1. /\ pc = "terminate" /\ report' = "none"
        /\ Len(targets) \in Nat /\ Len(targets) > 0
        /\ outcome.failure => outcome'.failure
        /\ \A k \in killed' : k \in killed \/ k.who = targets[1]
    BY <1>4, <1>N, HeadEnds
  <2>2. Old(p) /\ proc'[p].parent = proc[p].parent /\ p \in Pids
    BY <1>P, <2>1, OldBefore DEF Early, Old
  <2>3. PICK k \in killed' : k.who = proc[p].parent
    BY <2>1, <2>2
  <2>4. CASE k \in killed
    BY <1>C, <2>1, <2>2, <2>3, <2>4 DEF FamiliesEndTogether, Old
  <2>5. CASE k.who = targets[1]
    <3>1. 1 \in 1..Len(targets) /\ ~\E i \in 1..1 - 1 : TRUE
      BY <2>1
    <3>2. outcome.failure \/ \E i \in 1..1 - 1 : targets[i] = IdentityOf(p)
      BY <2>1, <2>2, <2>3, <2>5, <3>1 DEF TargetsInv
    <3> QED BY <2>1, <3>1, <3>2
  <2> QED BY <2>1, <2>4, <2>5
<1>5. CASE Conclude
  <2>1. /\ pc = "terminate" /\ targets = << >> /\ UNCHANGED <<proc, order, killed, outcome>>
        /\ report' = Verdict
    BY <1>5 DEF Conclude, Report, system, walk
  <2>2. Old(p) /\ p \in Pids
    BY <1>P, <2>1 DEF Old
  <2>3. CASE \E k \in killed : k.who = proc[p].parent
    BY <1>C, <2>1, <2>2, <2>3 DEF FamiliesEndTogether, Old
  <2>4. CASE \E i \in 1..Len(order) : order[i] = proc[p].parent
    <3>1. PICK i \in 1..Len(order) : order[i] = proc[p].parent
      BY <2>4
    <3>2. PICK k \in 1..i - 1 : order[k] = IdentityOf(p)
      BY <2>1, <2>2, <3>1 DEF LeavesFirst
    <3>3. k \in 1..Len(order)
      <4>1. Len(order) \in Nat
        BY DEF IInv, TypeInv
      <4> QED BY <4>1
    <3>4. Running(order[k])
      <4>1. IdentityOf(p).pid = p
        BY DEF IdentityOf
      <4> QED BY <2>2, <3>2, <4>1 DEF Running, Old
    <3>5. outcome.failure \/ IsTarget(order[k])
      BY <2>1, <3>3, <3>4 DEF TargetsInv
    <3>6. ~IsTarget(order[k])
      BY <2>1 DEF IsTarget
    <3> QED BY <2>1, <3>5, <3>6
  <2> QED BY <2>1, <2>3, <2>4
<1> QED BY <1>1, <1>2, <1>3, <1>4, <1>5, QuietSteps

\* The report is true.
LEMMA ReportSound ==
  ASSUME IInv, TargetsInv, EndedInv, HonestReport, [Next]_vars
  PROVE  HonestReport'
<1>1. CASE pc = "done"
  <2>1. UNCHANGED <<proc, killed, report, order, outcome, root, refreshed>>
    BY <1>1, Over DEF vars, system, walk, result, selection
  <2> QED BY <2>1 DEF HonestReport, Running, IdentityOf
<1>N. pc # "done" => report = "none"
  BY DEF IInv, TypeInv, TypeOK
<1>2. CASE pc # "done" /\ Quiet
  BY <1>2, <1>N DEF Quiet, HonestReport
<1>3. CASE KillOne
  <2>1. /\ killed = {} /\ order' = << >> /\ pc = "kill" /\ root' = root
    BY <1>3 DEF KillOne, IInv, WalkInv, walk, selection
  <2>2. CASE Kill(root.pid) /\ refreshed' = TRUE /\ report' = "ok"
    <3>1. root.pid \in DOMAIN proc /\ proc[root.pid] \in Processes
      BY <1>3 DEF IInv, WalkInv, TypeInv, TypeOK, KillOne
    <3>2. proc' = [proc EXCEPT ![root.pid].running = FALSE]
      BY <2>2 DEF Kill
    <3>3. proc'[root.pid] = [proc[root.pid] EXCEPT !.running = FALSE]
      BY <3>1, <3>2
    <3>4. ~proc'[root.pid].running
      BY <3>1, <3>3 DEF Processes
    <3>5. ~Running(root)'
      BY <2>1, <3>4 DEF Running
    <3> QED BY <2>1, <2>2, <3>5 DEF HonestReport
  <2>3. CASE report' = "cantKill" /\ killed' = killed
    BY <2>1, <2>3 DEF HonestReport
  <2> QED BY <1>3, <2>2, <2>3 DEF KillOne, Report
<1>4. CASE TerminateTarget
  <2>1. report' = "none"
    BY <1>4, <1>N, HeadEnds
  <2> QED BY <2>1 DEF HonestReport
<1>5. CASE Conclude
  <2>1. /\ pc = "terminate" /\ targets = << >> /\ UNCHANGED <<proc, order, killed, outcome, root>>
        /\ report' = Verdict /\ refreshed' = outcome.completed
    BY <1>5 DEF Conclude, Report, system, walk, selection
  <2>2. ~outcome.failure => \A i \in 1..Len(order) : ~Running(order[i])
    BY <2>1 DEF TargetsInv, IsTarget
  <2>3. ~outcome.failure => ~Running(root)
    <3>1. Len(order) \in Nat
      BY DEF IInv, TypeInv
    <3>2. Len(order) > 0 /\ order[Len(order)] = root
      BY <2>1 DEF TargetsInv
    <3> DEFINE m == Len(order)
    <3>3. m \in 1..m
      <4>1. m \in Nat /\ m > 0
        BY <3>1, <3>2
      <4> HIDE DEF m
      <4> QED BY <4>1
    <3> QED BY <2>2, <3>2, <3>3
  <2>4. report' = "ok" => ~outcome.failure
    BY <2>1 DEF Verdict
  <2>5. report' \in {"cantKill", "treeFailed"} => killed' = {}
    BY <2>1 DEF Verdict, EndedInv
  <2>6. killed' # {} => refreshed'
    BY <2>1 DEF EndedInv
  <2>7. \A i \in 1..Len(order) : Running(order[i])' = Running(order[i])
    BY <2>1 DEF Running, IdentityOf
  <2>8. Running(root)' = Running(root)
    BY <2>1 DEF Running, IdentityOf
  <2>9. report' = "ok" => ~Running(root)' /\ \A i \in 1..Len(order) : ~Running(order[i])'
    BY <2>2, <2>3, <2>4, <2>7, <2>8
  <2> QED BY <2>1, <2>5, <2>6, <2>9 DEF HonestReport
<1> QED BY <1>1, <1>2, <1>3, <1>4, <1>5, QuietSteps

\* Whole families end, leaves first, and the user is told what happened: no
\* message only if everything chosen has ended, a failed preparation only if
\* nothing was ended, a refreshed list whenever something was
\* (prepare_process_tree_termination, terminate_prepared_process_tree and
\* their caller), for any number of processes, ticks and refusals.
THEOREM TreeEndsAsReported == Spec => []EndsWhatItReports
<1>1. IInv /\ FamilyInv /\ [Next]_vars => FamilyInv'
  BY SeenSound, VisitSound, ChildrenSound, LeavesSound, TargetsSound, EndedSound,
     FamiliesSound, ReportSound DEF FamilyInv
<1>2. IInv /\ FamilyInv => EndsWhatItReports
  BY DEF IInv, TypeInv, FamilyInv, EndsWhatItReports
<1> QED
  BY <1>1, <1>2, Inductive, FamiliesStart, PTL DEF Spec
===============================================================================
