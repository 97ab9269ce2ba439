---------------------------- MODULE ResourcesProofs ----------------------------
(***************************************************************************)
(* Proofs about the components of MCResources, for any values of their     *)
(* constants.                                                              *)
(***************************************************************************)
EXTENDS MCResources, FunctionTheorems, FiniteSetTheorems, SequenceTheorems,
        WellFoundedInduction, TLAPS

-----------------------------------------------------------------------------
(* The sessions of the log.  The only step that takes a session from the    *)
(* disk asks whether somebody holds it at that moment; the listing it works *)
(* from may be as old as it likes.                                          *)


Places == {"none", "root", "clean-before", "create", "list", "clean-after", "open", "run",
           "clean-rotate", "size"}
Record == [pc : Places, root : Roots, own : Sessions \union {None},
           holds : BOOLEAN, bytes : Nat, failed : BOOLEAN]

\* The listings and the disk may be anything here.
TypeInv ==
    /\ process \in [Processes -> Record]
    /\ \A p \in Processes : ~Live(p) => ~process[p].holds

IInv == TypeInv /\ OpenLogIsKept

\* A step that takes nothing from the disk keeps every open log.
LEMMA NothingTaken ==
  ASSUME IInv, NEW p \in Processes, NEW to, Become(p, to), TypeInv',
         DOMAIN fs \subseteq DOMAIN fs',
         to.holds => to.own \in DOMAIN fs'
  PROVE  IInv'
<1> SUFFICES ASSUME NEW q \in Processes, process'[q].holds
             PROVE  process'[q].own \in DOMAIN fs'
  BY DEF IInv, OpenLogIsKept
<1>1. CASE q = p
  BY <1>1 DEF IInv, TypeInv, Become
<1>2. CASE q # p
  BY <1>2 DEF IInv, TypeInv, OpenLogIsKept, Become
<1> QED
  BY <1>1, <1>2

\* What follows a cleanup holds no more than what went before.
LEMMA AfterHolds ==
  ASSUME TypeInv, NEW p \in Processes, Cleaning(p), NEW ok \in BOOLEAN
  PROVE  /\ After(p, ok) \in Record
         /\ After(p, ok).own = process[p].own
         /\ After(p, ok).holds => process[p].holds
         /\ After(p, ok).pc # "none"
  BY DEF TypeInv, Cleaning, After, At, Record, Places

\* Each step of a process keeps every open log.
LEMMA StepKeeps ==
  ASSUME IInv, NEW p \in Processes, Step(p)
  PROVE  IInv'
<1> USE DEF Roots, Places, Record
\* The type of the processes follows from that of the one that moves.
<1>0. ASSUME NEW to \in Record, Become(p, to), to.pc = "none" => ~to.holds
      PROVE  TypeInv'
  BY <1>0 DEF IInv, TypeInv, Become, Live
<1>r. process[p] \in Record
  BY DEF IInv, TypeInv
<1>k. process[p].holds => process[p].own \in DOMAIN fs
  BY DEF IInv, OpenLogIsKept
<1>1. CASE Start(p)
  <2> DEFINE to == [NoProcess EXCEPT !.pc = "root"]
  <2>1. to \in Record /\ ~to.holds
    BY DEF NoProcess
  <2>2. Become(p, to) /\ UNCHANGED fs
    BY <1>1 DEF Start
  <2> HIDE DEF to
  <2> QED
    BY <2>1, <2>2, <1>0, NothingTaken
<1>2. CASE OpenRoot(p)
  <2>1. ASSUME List(p, RootLimit, "clean-before") PROVE IInv'
    <3> DEFINE to == [process[p] EXCEPT !.pc = "clean-before"]
    <3>1. to \in Record /\ to.pc # "none" /\ to.own = process[p].own /\ to.holds = process[p].holds
      BY <1>r
    <3>2. Become(p, to) /\ UNCHANGED fs
      BY <1>2, <2>1 DEF OpenRoot, List
    <3> HIDE DEF to
    <3> QED
      BY <3>1, <3>2, <1>0, <1>k, NothingTaken
  <2>2. ASSUME Become(p, NextRoot(p)) PROVE IInv'
    <3> DEFINE to == NextRoot(p)
    <3>1. to \in Record /\ to.pc # "none" /\ to.own = process[p].own /\ to.holds = process[p].holds
      BY <1>r DEF NextRoot
    <3>2. Become(p, to) /\ UNCHANGED fs
      BY <1>2, <2>2 DEF OpenRoot
    <3> HIDE DEF to
    <3> QED
      BY <3>1, <3>2, <1>0, <1>k, NothingTaken
  <2> QED
    BY <1>2, <2>1, <2>2 DEF OpenRoot
<1>3. CASE CleanDone(p)
  <2>1. Become(p, After(p, TRUE)) /\ UNCHANGED fs /\ Cleaning(p)
    BY <1>3 DEF CleanDone
  <2> QED
    BY <2>1, <1>0, <1>k, AfterHolds, NothingTaken DEF IInv
<1>4. CASE SkipOwn(p)
  BY <1>4 DEF SkipOwn, IInv, TypeInv, Live, OpenLogIsKept
\* The session taken is held by nobody, so that it is not an open log.
<1>5. CASE DeleteOldest(p)
  <2> DEFINE s == Oldest(work[p]).name
  <2>1. CASE CanDelete(s)
    <3>1. UNCHANGED process /\ DOMAIN fs' = DOMAIN fs \ {s}
      BY <1>5, <2>1 DEF DeleteOldest
    <3>2. \A q \in Processes : process[q].holds => process[q].own # s
      BY <2>1 DEF CanDelete, Held
    <3> QED
      BY <3>1, <3>2 DEF IInv, TypeInv, Live, OpenLogIsKept
  <2>2. CASE ~CanDelete(s)
    <3>1. Become(p, After(p, FALSE)) /\ UNCHANGED fs /\ Cleaning(p)
      BY <1>5, <2>2 DEF DeleteOldest
    <3> QED
      BY <3>1, <1>0, <1>k, AfterHolds, NothingTaken DEF IInv
  <2> QED
    BY <2>1, <2>2
<1>6. CASE CleanFails(p)
  <2>1. Become(p, After(p, FALSE)) /\ UNCHANGED fs /\ Cleaning(p)
    BY <1>6 DEF CleanFails
  <2> QED
    BY <2>1, <1>0, <1>k, AfterHolds, NothingTaken DEF IInv
<1>7. CASE CreateSession(p)
  <2>1. ASSUME NEW s \in Sessions,
               DOMAIN fs' = DOMAIN fs \union {s},
               Become(p, [process[p] EXCEPT !.pc = "list", !.own = s, !.holds = TRUE])
        PROVE  IInv'
    <3> DEFINE to == [process[p] EXCEPT !.pc = "list", !.own = s, !.holds = TRUE]
    <3>1. to \in Record /\ to.pc # "none" /\ to.own = s
      BY <1>r
    <3>2. Become(p, to)
      BY <2>1
    <3> HIDE DEF to
    <3> QED
      BY <3>1, <3>2, <2>1, <1>0, NothingTaken
  <2>2. ASSUME Become(p, NextRoot(p)), UNCHANGED fs PROVE IInv'
    <3> DEFINE to == NextRoot(p)
    <3>1. to \in Record /\ to.pc # "none" /\ to.own = process[p].own /\ to.holds = process[p].holds
      BY <1>r DEF NextRoot
    <3>2. Become(p, to)
      BY <2>2
    <3> HIDE DEF to
    <3> QED
      BY <3>1, <3>2, <2>2, <1>0, <1>k, NothingTaken
  <2>3. CASE \E s \in Sessions \ used :
            /\ fs' = [t \in DOMAIN fs \union {s} |->
                        IF t = s THEN [root |-> process[p].root, size |-> 0, stamp |-> clock]
                        ELSE fs[t]]
            /\ Become(p, [process[p] EXCEPT !.pc = "list", !.own = s, !.holds = TRUE])
    <3>1. PICK s \in Sessions \ used :
            /\ fs' = [t \in DOMAIN fs \union {s} |->
                        IF t = s THEN [root |-> process[p].root, size |-> 0, stamp |-> clock]
                        ELSE fs[t]]
            /\ Become(p, [process[p] EXCEPT !.pc = "list", !.own = s, !.holds = TRUE])
      BY <2>3
    <3>2. DOMAIN fs' = DOMAIN fs \union {s} /\ s \in Sessions
      BY <3>1
    <3> QED
      BY <3>1, <3>2, <2>1
  <2> QED
    BY <1>7, <2>2, <2>3 DEF CreateSession
<1>8. CASE ListAfter(p)
  <2> DEFINE to == [process[p] EXCEPT !.pc = "clean-after"]
  <2>1. to \in Record /\ to.pc # "none" /\ to.own = process[p].own /\ to.holds = process[p].holds
    BY <1>r
  <2>2. Become(p, to) /\ UNCHANGED fs
    BY <1>8 DEF ListAfter, List
  <2> HIDE DEF to
  <2> QED
    BY <2>1, <2>2, <1>0, <1>k, NothingTaken
<1>9. CASE OpenSink(p)
  <2>1. ASSUME process[p].own \in DOMAIN fs,
               Become(p, [process[p] EXCEPT !.pc = "run", !.holds = TRUE])
        PROVE  IInv'
    <3> DEFINE to == [process[p] EXCEPT !.pc = "run", !.holds = TRUE]
    <3>1. to \in Record /\ to.pc # "none" /\ to.own = process[p].own
      BY <1>r
    <3>2. Become(p, to) /\ UNCHANGED fs
      BY <1>9, <2>1 DEF OpenSink
    <3> HIDE DEF to
    <3> QED
      BY <3>1, <3>2, <2>1, <1>0, NothingTaken
  <2>2. ASSUME Become(p, [process[p] EXCEPT !.pc = "run", !.failed = TRUE]) PROVE IInv'
    <3> DEFINE to == [process[p] EXCEPT !.pc = "run", !.failed = TRUE]
    <3>1. to \in Record /\ to.pc # "none" /\ to.own = process[p].own /\ to.holds = process[p].holds
      BY <1>r
    <3>2. Become(p, to) /\ UNCHANGED fs
      BY <1>9, <2>2 DEF OpenSink
    <3> HIDE DEF to
    <3> QED
      BY <3>1, <3>2, <1>0, <1>k, NothingTaken
  <2> QED
    BY <1>9, <2>1, <2>2 DEF OpenSink
<1>10. CASE Write(p)
  <2> DEFINE to == [process[p] EXCEPT !.bytes = @ + 1]
  <2>0. process[p].pc = "run" /\ process[p].bytes + 1 \in Nat
    BY <1>r, <1>10 DEF Write, At
  <2>1. to \in Record /\ to.pc = "run" /\ to.own = process[p].own /\ to.holds = process[p].holds
    BY <1>r, <2>0
  <2>2. Become(p, to) /\ DOMAIN fs' = DOMAIN fs
    BY <1>10 DEF Write
  <2> HIDE DEF to
  <2> QED
    BY <2>1, <2>2, <1>0, <1>k, NothingTaken
<1>11. CASE BeginRotate(p)
  <2> DEFINE to == [process[p] EXCEPT !.pc = "clean-rotate"]
  <2>1. to \in Record /\ to.pc # "none" /\ to.own = process[p].own /\ to.holds = process[p].holds
    BY <1>r
  <2>2. Become(p, to) /\ UNCHANGED fs
    BY <1>11 DEF BeginRotate, List
  <2> HIDE DEF to
  <2> QED
    BY <2>1, <2>2, <1>0, <1>k, NothingTaken
<1>12. CASE FinishRotate(p)
  <2>1. ASSUME Become(p, [process[p] EXCEPT !.pc = "run", !.bytes = 0]), DOMAIN fs' = DOMAIN fs
        PROVE  IInv'
    <3> DEFINE to == [process[p] EXCEPT !.pc = "run", !.bytes = 0]
    <3>1. to \in Record /\ to.pc # "none" /\ to.own = process[p].own /\ to.holds = process[p].holds
      BY <1>r
    <3>2. Become(p, to)
      BY <2>1
    <3> HIDE DEF to
    <3> QED
      BY <3>1, <3>2, <2>1, <1>0, <1>k, NothingTaken
  <2>2. ASSUME Become(p, [process[p] EXCEPT !.pc = "run", !.holds = FALSE, !.failed = TRUE]),
               UNCHANGED fs
        PROVE  IInv'
    <3> DEFINE to == [process[p] EXCEPT !.pc = "run", !.holds = FALSE, !.failed = TRUE]
    <3>1. to \in Record /\ to.pc # "none" /\ ~to.holds
      BY <1>r
    <3>2. Become(p, to)
      BY <2>2
    <3> HIDE DEF to
    <3> QED
      BY <3>1, <3>2, <2>2, <1>0, NothingTaken
  <2>3. CASE SizeOf(Snapshot(process[p].root)) <= RootLimit - PartLimit
    <3>1. DOMAIN fs' = DOMAIN fs
      BY <1>12, <2>3 DEF FinishRotate
    <3> QED
      BY <1>12, <2>1, <2>3, <3>1 DEF FinishRotate
  <2>4. CASE ~(SizeOf(Snapshot(process[p].root)) <= RootLimit - PartLimit)
    BY <1>12, <2>2, <2>4 DEF FinishRotate
  <2> QED
    BY <2>3, <2>4
<1>13. CASE Exit(p)
  <2> DEFINE to == NoProcess
  <2>1. to \in Record /\ ~to.holds
    BY DEF NoProcess
  <2>2. Become(p, to) /\ UNCHANGED fs
    BY <1>13 DEF Exit
  <2> HIDE DEF to
  <2> QED
    BY <2>1, <2>2, <1>0, NothingTaken
<1> QED
  BY <1>1, <1>2, <1>3, <1>4, <1>5, <1>6, <1>7, <1>8, <1>9, <1>10, <1>11, <1>12, <1>13
  DEF Step

\* No cleanup, of its own process or of another, deletes the session of an open
\* log (cleanup_retention_in, SecureDirectory, FileSink).
THEOREM OpenLogKept == Spec => []OpenLogIsKept
<1>1. Init => IInv
  BY DEF Init, IInv, TypeInv, OpenLogIsKept, NoProcess, Live, Roots, Places, Record
<1>2. IInv /\ [Next]_vars => IInv'
  <2>1. IInv /\ UNCHANGED vars => IInv'
    BY DEF vars, IInv, TypeInv, Live, OpenLogIsKept
  <2> QED
    BY <2>1, StepKeeps DEF Next
<1>3. IInv => OpenLogIsKept
  BY DEF IInv
<1> QED
  BY <1>1, <1>2, <1>3, PTL DEF Spec

-----------------------------------------------------------------------------
(* The limits of the log.  First the sum of the sizes in a listing, which   *)
(* the community modules define by a fold in an order of their choice; then *)
(* what a process that runs alone has reached at each of its steps.         *)

\* Induction over the numbers, for a set of them.
LEMMA NumbersInduction ==
  ASSUME NEW S, 0 \in S, \A n \in Nat : n \in S => n + 1 \in S
  PROVE  Nat \subseteq S
<1> SUFFICES ASSUME NEW m \in Nat, m \notin S PROVE FALSE
  OBVIOUS
<1> DEFINE T == {1..n : n \in Nat \ S}
           R == StrictSubsetOrdering(Nat)
<1>1. T \subseteq FiniteSubsetsOf(Nat) /\ T # {}
  <2>1. \A n \in Nat : 1..n \subseteq Nat /\ IsFiniteSet(1..n)
    BY FS_Interval
  <2> QED BY <2>1 DEF FiniteSubsetsOf
<1>2. PICK x \in T : \A y \in T : <<y, x>> \notin R
  <2> HIDE DEF T, R
  <2>1. IsWellFoundedOn(R, FiniteSubsetsOf(Nat))
    BY FS_StrictSubsetOrderingWellFounded DEF R
  <2> QED BY <1>1, <2>1, WFMin
<1>3. PICK n \in Nat \ S : x = 1..n
  OBVIOUS
<1>4. n # 0 /\ n - 1 \in Nat /\ (n - 1) + 1 = n
  OBVIOUS
<1>5. n - 1 \notin S
  BY <1>4
<1>6. 1..(n - 1) \in T /\ 1..(n - 1) \subseteq x /\ 1..(n - 1) # x
  BY <1>3, <1>4, <1>5
<1>7. 1..(n - 1) \in SUBSET Nat /\ x \in SUBSET Nat
  BY <1>3
<1> QED BY <1>2, <1>6, <1>7 DEF StrictSubsetOrdering

\* What a listing has of a session.
Item == [name : Sessions, size : Nat, stamp : Nat]
Lists == {t \in SUBSET Item : IsFiniteSet(t)}

\* The fold of the community modules, on every subset of a listing.
Some(t) == CHOOSE x \in t : TRUE
Adding(f, t) == f = [s \in SUBSET t |-> IF s = {} THEN 0 ELSE Some(s).size + f[s \ {Some(s)}]]
Total(t) == (CHOOSE f : Adding(f, t))[t]

LEMMA SizeOfIsTotal == \A t : SizeOf(t) = Total(t)
  BY DEF SizeOf, MapThenSumSet, MapThenFoldSet, Some, Adding, Total

\* Some element of a set that has one is in it.
LEMMA SomeIsIn ==
  ASSUME NEW t, t # {}
  PROVE  Some(t) \in t
  BY DEF Some

\* A subset of a listing is a listing.
LEMMA PartOfList ==
  ASSUME NEW t \in Lists, NEW s \in SUBSET t
  PROVE  s \in Lists
  BY FS_Subset DEF Lists

\* The rest of a listing is one shorter.
LEMMA RestIsShorter ==
  ASSUME NEW t \in Lists, NEW x \in t
  PROVE  /\ t \ {x} \in Lists /\ Cardinality(t \ {x}) + 1 = Cardinality(t)
         /\ Cardinality(t) \in Nat /\ Cardinality(t \ {x}) \in Nat
         /\ x.size \in Nat /\ x \in Item
<1>1. IsFiniteSet(t) /\ t \in SUBSET Item
  BY DEF Lists
<1>2. IsFiniteSet(t \ {x}) /\ Cardinality(t \ {x}) = Cardinality(t) - 1
  BY <1>1, FS_RemoveElement
<1>3. Cardinality(t) \in Nat /\ Cardinality(t \ {x}) \in Nat
  BY <1>1, <1>2, FS_CardinalityType
<1> QED BY <1>1, <1>2, <1>3 DEF Lists, Item

\* Only the empty listing has no element.
LEMMA NothingListed ==
  /\ {} \in Lists
  /\ \A t \in Lists : Cardinality(t) \in Nat /\ (Cardinality(t) = 0 <=> t = {})
  BY FS_EmptySet, FS_CardinalityType DEF Lists

\* The parts of a listing with up to k elements.
Parts(t, k) == {s \in SUBSET t : Cardinality(s) <= k}
AddingParts(f, t, k) ==
  f \in [Parts(t, k) -> Nat] /\
  \A s \in Parts(t, k) : f[s] = IF s = {} THEN 0 ELSE Some(s).size + f[s \ {Some(s)}]

\* The fold's function exists on a listing.
LEMMA AddingExists ==
  ASSUME NEW t \in Lists
  PROVE  \E f \in [SUBSET t -> Nat] : Adding(f, t)
<1> DEFINE Has(k) == \E f : AddingParts(f, t, k)
           S == {k \in Nat : Has(k)}
<1>1. 0 \in S
  <2> DEFINE f == [s \in Parts(t, 0) |-> 0]
  <2>1. \A s \in Parts(t, 0) : s = {}
    <3> TAKE s \in Parts(t, 0)
    <3>1. s \in Lists /\ Cardinality(s) <= 0
      BY PartOfList DEF Parts
    <3> QED BY <3>1, NothingListed
  <2>2. AddingParts(f, t, 0)
    BY <2>1 DEF AddingParts
  <2> QED BY <2>2
<1>2. ASSUME NEW k \in Nat, k \in S PROVE k + 1 \in S
  <2>1. PICK f : AddingParts(f, t, k)
    BY <1>2
  <2> DEFINE g == [s \in Parts(t, k + 1) |-> IF s = {} THEN 0 ELSE Some(s).size + f[s \ {Some(s)}]]
  <2>2. ASSUME NEW s \in Parts(t, k + 1), s # {}
        PROVE  /\ s \ {Some(s)} \in Parts(t, k) /\ s \ {Some(s)} \in Parts(t, k + 1)
               /\ Some(s).size \in Nat
    <3>1. s \in Lists /\ Cardinality(s) <= k + 1 /\ s \in SUBSET t
      BY PartOfList DEF Parts
    <3>2. Some(s) \in s
      BY <2>2, SomeIsIn
    <3> DEFINE r == s \ {Some(s)}
    <3>3. /\ Cardinality(r) + 1 = Cardinality(s) /\ Cardinality(s) \in Nat
          /\ Cardinality(r) \in Nat /\ Some(s).size \in Nat
      BY <3>1, <3>2, RestIsShorter
    <3>4. r \in SUBSET t
      BY <3>1
    <3> HIDE DEF r
    <3>5. Cardinality(r) <= k /\ Cardinality(r) <= k + 1
      BY <3>1, <3>3
    <3>6. r \in Parts(t, k) /\ r \in Parts(t, k + 1)
      BY <3>4, <3>5 DEF Parts
    <3> QED BY <3>3, <3>6 DEF r
  <2>3. \A s \in Parts(t, k) : s \in Parts(t, k + 1) /\ g[s] = f[s]
    <3> TAKE s \in Parts(t, k)
    <3>1. s \in Lists /\ Cardinality(s) <= k /\ s \in SUBSET t
      BY PartOfList DEF Parts
    <3>2. Cardinality(s) \in Nat
      BY <3>1, NothingListed
    <3>3. s \in Parts(t, k + 1)
      BY <3>1, <3>2 DEF Parts
    <3> QED BY <2>1, <3>3 DEF AddingParts
  <2>4. \A s \in Parts(t, k + 1) : g[s] \in Nat
    BY <2>1, <2>2 DEF AddingParts
  <2>5. \A s \in Parts(t, k + 1) : g[s] = IF s = {} THEN 0 ELSE Some(s).size + g[s \ {Some(s)}]
    BY <2>2, <2>3
  <2>6. AddingParts(g, t, k + 1)
    <3>1. g = [s \in Parts(t, k + 1) |-> g[s]]
      OBVIOUS
    <3> HIDE DEF g
    <3>2. g \in [Parts(t, k + 1) -> Nat]
      BY <2>4, <3>1
    <3> QED BY <2>5, <3>2 DEF AddingParts
  <2> HIDE DEF g
  <2> QED BY <2>6
<1> DEFINE n == Cardinality(t)
<1>3. n \in S
  <2>1. n \in Nat
    BY NothingListed
  <2> HIDE DEF S, n
  <2> QED BY <1>1, <1>2, <2>1, NumbersInduction
<1>4. PICK f : AddingParts(f, t, n)
  BY <1>3
<1>5. Parts(t, n) = SUBSET t
  BY FS_Subset DEF Parts, Lists
<1>6. f \in [SUBSET t -> Nat]
  BY <1>4, <1>5 DEF AddingParts
<1>7. Adding(f, t)
  BY <1>4, <1>5 DEF AddingParts, Adding
<1> QED BY <1>6, <1>7

\* What every such function says of a listing in both domains.
LEMMA AddingAgrees ==
  ASSUME NEW t, NEW u, NEW f, NEW g, Adding(f, t), Adding(g, u)
  PROVE  \A s \in Lists : s \in SUBSET t /\ s \in SUBSET u => f[s] = g[s]
<1> DEFINE S == {k \in Nat : \A s \in Lists :
                   (Cardinality(s) = k /\ s \in SUBSET t /\ s \in SUBSET u) => f[s] = g[s]}
<1>0. /\ \A s \in SUBSET t : f[s] = IF s = {} THEN 0 ELSE Some(s).size + f[s \ {Some(s)}]
      /\ \A s \in SUBSET u : g[s] = IF s = {} THEN 0 ELSE Some(s).size + g[s \ {Some(s)}]
  BY DEF Adding
<1>1. 0 \in S
  BY <1>0, NothingListed
<1>2. ASSUME NEW k \in Nat, k \in S PROVE k + 1 \in S
  <2> SUFFICES ASSUME NEW s \in Lists, Cardinality(s) = k + 1, s \in SUBSET t, s \in SUBSET u
               PROVE  f[s] = g[s]
    OBVIOUS
  <2>1. s # {}
    BY NothingListed
  <2>2. Some(s) \in s
    BY <2>1, SomeIsIn
  <2>3. s \ {Some(s)} \in Lists /\ Cardinality(s \ {Some(s)}) = k
    BY <2>2, RestIsShorter
  <2>4. f[s \ {Some(s)}] = g[s \ {Some(s)}]
    BY <1>2, <2>3
  <2> QED BY <1>0, <2>1, <2>4
<1> SUFFICES ASSUME NEW s \in Lists, s \in SUBSET t, s \in SUBSET u PROVE f[s] = g[s]
  OBVIOUS
<1>3. Cardinality(s) \in Nat
  BY NothingListed
<1>4. Cardinality(s) \in S
  <2> HIDE DEF S
  <2> QED BY <1>1, <1>2, <1>3, NumbersInduction
<1> QED BY <1>4

\* The total by the fold's own choice.
LEMMA TotalUnfolds ==
  /\ Total({}) = 0
  /\ \A t \in Lists : Total(t) \in Nat
  /\ \A t \in Lists : t # {} => Total(t) = Some(t).size + Total(t \ {Some(t)})
<1> DEFINE Fold(t) == CHOOSE f : Adding(f, t)
<1>1. \A t \in Lists : Adding(Fold(t), t) /\ Total(t) = Fold(t)[t]
  BY AddingExists DEF Total
<1>2. \A t \in Lists : \A s \in SUBSET t :
        Fold(t)[s] = IF s = {} THEN 0 ELSE Some(s).size + Fold(t)[s \ {Some(s)}]
  <2> TAKE t \in Lists
  <2> DEFINE f == Fold(t)
  <2>1. Adding(f, t)
    BY <1>1
  <2> HIDE DEF f
  <2>2. \A s \in SUBSET t : f[s] = IF s = {} THEN 0 ELSE Some(s).size + f[s \ {Some(s)}]
    BY <2>1 DEF Adding
  <2> QED BY <2>2 DEF f
<1>3. \A t \in Lists : Total(t) \in Nat
  <2> TAKE t \in Lists
  <2>1. PICK f \in [SUBSET t -> Nat] : Adding(f, t)
    BY AddingExists
  <2>2. t \in SUBSET t
    OBVIOUS
  <2> HIDE DEF Fold
  <2>3. f[t] = Fold(t)[t]
    BY <1>1, <2>1, <2>2, AddingAgrees
  <2> QED BY <1>1, <2>1, <2>2, <2>3
<1>4. ASSUME NEW t \in Lists, t # {} PROVE Total(t) = Some(t).size + Total(t \ {Some(t)})
  <2>1. Some(t) \in t
    BY <1>4, SomeIsIn
  <2> DEFINE r == t \ {Some(t)}
  <2>2. r \in Lists /\ r \in SUBSET t /\ r \in SUBSET r
    BY <2>1, RestIsShorter
  <2> HIDE DEF Fold, r
  <2>3. Fold(t)[r] = Fold(r)[r]
    BY <1>1, <2>2, AddingAgrees
  <2>4. Fold(t)[t] = Some(t).size + Fold(t)[r]
    BY <1>2, <1>4 DEF r
  <2> QED BY <1>1, <2>2, <2>3, <2>4 DEF r
<1>5. Total({}) = 0
  BY <1>1, <1>2, NothingListed
<1> QED BY <1>3, <1>4, <1>5

\* The total does not depend on the order in which the sizes are added.
LEMMA TotalRemoves ==
  ASSUME NEW t \in Lists, NEW x \in t
  PROVE  Total(t) = x.size + Total(t \ {x})
<1> DEFINE S == {k \in Nat : \A s \in Lists : \A y \in s :
                   Cardinality(s) = k => Total(s) = y.size + Total(s \ {y})}
<1>1. 0 \in S
  BY NothingListed
<1>2. ASSUME NEW k \in Nat, k \in S PROVE k + 1 \in S
  <2> SUFFICES ASSUME NEW s \in Lists, NEW y \in s, Cardinality(s) = k + 1
               PROVE  Total(s) = y.size + Total(s \ {y})
    OBVIOUS
  <2> DEFINE c == Some(s)
  <2>1. c \in s
    BY SomeIsIn
  <2>2. Total(s) = c.size + Total(s \ {c})
    BY TotalUnfolds
  <2> HIDE DEF c
  <2>3. CASE c = y
    BY <2>2, <2>3
  <2>4. CASE c # y
    <3>1. /\ s \ {c} \in Lists /\ Cardinality(s \ {c}) = k
          /\ s \ {y} \in Lists /\ Cardinality(s \ {y}) = k
          /\ c.size \in Nat /\ y.size \in Nat
      <4>1. s \ {c} \in Lists /\ Cardinality(s \ {c}) = k /\ c.size \in Nat
        BY <2>1, RestIsShorter
      <4>2. s \ {y} \in Lists /\ Cardinality(s \ {y}) = k /\ y.size \in Nat
        BY RestIsShorter
      <4> QED BY <4>1, <4>2
    <3>2. c \in s \ {y} /\ y \in s \ {c}
      BY <2>1, <2>4
    <3>3. (s \ {c}) \ {y} = (s \ {y}) \ {c} /\ (s \ {y}) \ {c} \in Lists
      BY <3>1, <3>2, RestIsShorter
    <3>4. Total(s \ {c}) = y.size + Total((s \ {c}) \ {y})
      BY <1>2, <3>1, <3>2
    <3>5. Total(s \ {y}) = c.size + Total((s \ {y}) \ {c})
      BY <1>2, <3>1, <3>2
    <3>6. Total((s \ {y}) \ {c}) \in Nat
      BY <3>3, TotalUnfolds
    <3> DEFINE a == Total(s) b == Total(s \ {c}) d == Total(s \ {y}) e == Total((s \ {y}) \ {c})
    <3>7. a = c.size + b /\ b = y.size + e /\ d = c.size + e /\ e \in Nat
      BY <2>2, <3>3, <3>4, <3>5, <3>6
    <3> HIDE DEF a, b, d, e
    <3>8. a = y.size + d
      BY <3>1, <3>7
    <3> QED BY <3>8 DEF a, d
  <2> QED BY <2>3, <2>4
<1>3. Cardinality(t) \in Nat
  BY NothingListed
<1>4. Cardinality(t) \in S
  <2> HIDE DEF S
  <2> QED BY <1>1, <1>2, <1>3, NumbersInduction
<1> QED BY <1>4

\* An item more adds its size, and one in place of another the difference.
LEMMA TotalAdds ==
  ASSUME NEW t \in Lists, NEW x \in Item, x \notin t
  PROVE  t \union {x} \in Lists /\ Total(t \union {x}) = Total(t) + x.size
<1>1. t \union {x} \in Lists
  BY FS_AddElement DEF Lists
<1>2. Total(t \union {x}) = x.size + Total((t \union {x}) \ {x})
  BY <1>1, TotalRemoves
<1>3. (t \union {x}) \ {x} = t
  OBVIOUS
<1>4. Total(t) \in Nat /\ x.size \in Nat
  BY TotalUnfolds DEF Item
<1>5. Total(t \union {x}) = x.size + Total(t)
  BY <1>2, <1>3
<1> QED BY <1>1, <1>4, <1>5

\* A listing with an element has an oldest one.
LEMMA OldestIsOne ==
  ASSUME NEW t \in SUBSET Item, t # {}
  PROVE  \E s \in t : \A u \in t : s.stamp <= u.stamp
<1> DEFINE Has(w) == \E s \in w : \A u \in w : s.stamp <= u.stamp
           S == {k \in Nat : \A w \in SUBSET Item : (\E i \in w : i.stamp <= k) => Has(w)}
<1>0. \A i \in Item : i.stamp \in Nat
  BY DEF Item
<1>1. 0 \in S
  BY <1>0
<1>2. ASSUME NEW k \in Nat, k \in S PROVE k + 1 \in S
  <2> SUFFICES ASSUME NEW w \in SUBSET Item, NEW i \in w, i.stamp <= k + 1 PROVE Has(w)
    OBVIOUS
  <2>1. CASE \E j \in w : j.stamp <= k
    BY <1>2, <2>1
  <2>2. CASE ~\E j \in w : j.stamp <= k
    <3>1. \A u \in w : i.stamp <= u.stamp
      BY <1>0, <2>2
    <3> QED BY <3>1
  <2> QED BY <2>1, <2>2
<1>3. PICK i \in t : TRUE
  OBVIOUS
<1>4. i.stamp \in Nat /\ i.stamp <= i.stamp
  BY <1>0
<1>5. i.stamp \in S
  <2> HIDE DEF S
  <2> QED BY <1>1, <1>2, <1>4, NumbersInduction
<1> QED BY <1>4, <1>5
\* A disk, its sessions in a root and what a listing has of each.
File == [root : Roots, size : Nat, stamp : Nat]
Disk(d) == d \in [DOMAIN d -> File] /\ DOMAIN d \subseteq Sessions /\ IsFiniteSet(DOMAIN d)
In(d, r) == {s \in DOMAIN d : d[s].root = r}
ItemOf(d, s) == [name |-> s, size |-> d[s].size, stamp |-> d[s].stamp]
ItemsOf(d, r) == {ItemOf(d, s) : s \in In(d, r)}

LEMMA SnapshotIsItems ==
  \A r : /\ Snapshot(r) = ItemsOf(fs, r) /\ Snapshot(r)' = ItemsOf(fs', r)
         /\ InRoot(r) = In(fs, r)
  BY DEF Snapshot, InRoot, ItemsOf, ItemOf, In

\* The total of a listing is the sum of its sizes, in whatever order.
LEMMA SizeOfParts ==
  /\ SizeOf({}) = 0
  /\ \A t \in Lists : SizeOf(t) \in Nat
  /\ \A t \in Lists : \A x \in t : SizeOf(t) = x.size + SizeOf(t \ {x})
<1>1. ASSUME NEW t \in Lists, NEW x \in t PROVE SizeOf(t) = x.size + SizeOf(t \ {x})
  <2>1. Total(t) = x.size + Total(t \ {x})
    BY TotalRemoves
  <2> QED BY <2>1, SizeOfIsTotal
<1>2. \A t \in Lists : SizeOf(t) \in Nat
  BY TotalUnfolds, SizeOfIsTotal
<1>3. SizeOf({}) = 0
  BY TotalUnfolds, SizeOfIsTotal
<1> QED BY <1>1, <1>2, <1>3

\* A listing of a disk is finite and has one item for every session.
LEMMA ItemsListed ==
  ASSUME NEW d, Disk(d), NEW r
  PROVE  /\ ItemsOf(d, r) \in Lists
         /\ Cardinality(ItemsOf(d, r)) = Cardinality(In(d, r)) /\ Cardinality(In(d, r)) \in Nat
<1>1. IsFiniteSet(In(d, r))
  BY FS_Subset DEF Disk, In
<1> DEFINE f == [s \in In(d, r) |-> ItemOf(d, s)]
<1>2. f \in Bijection(In(d, r), ItemsOf(d, r))
  <2>1. f \in [In(d, r) -> ItemsOf(d, r)]
    BY DEF ItemsOf
  <2>2. \A s, t \in In(d, r) : f[s] = f[t] => s = t
    BY DEF ItemOf
  <2>3. \A i \in ItemsOf(d, r) : \E s \in In(d, r) : f[s] = i
    BY DEF ItemsOf
  <2> HIDE DEF f
  <2> QED BY <2>1, <2>2, <2>3 DEF Bijection, Injection, Surjection, IsInjective
<1>3. ExistsBijection(In(d, r), ItemsOf(d, r))
  BY <1>2 DEF ExistsBijection
<1>4. IsFiniteSet(ItemsOf(d, r)) /\ Cardinality(ItemsOf(d, r)) = Cardinality(In(d, r))
  BY <1>1, <1>3, FS_Bijection
<1>5. ItemsOf(d, r) \in SUBSET Item
  <2> SUFFICES ASSUME NEW s \in In(d, r) PROVE ItemOf(d, s) \in Item
    BY DEF ItemsOf
  <2>1. s \in Sessions /\ d[s] \in File
    BY DEF Disk, In
  <2> QED BY <2>1 DEF ItemOf, Item, File
<1> QED BY <1>1, <1>4, <1>5, FS_CardinalityType DEF Lists

\* The item of a session that is listed.
LEMMA ItemIsItsSession ==
  ASSUME NEW d, NEW r, NEW i \in ItemsOf(d, r)
  PROVE  i.name \in DOMAIN d /\ d[i.name].root = r /\ i = ItemOf(d, i.name)
         /\ i.size = d[i.name].size
<1>1. PICK s \in In(d, r) : i = ItemOf(d, s)
  BY DEF ItemsOf
<1> QED BY <1>1 DEF In, ItemOf

\* A deleted session is gone from the listing, and nothing else is.
LEMMA SessionDeleted ==
  ASSUME NEW d, Disk(d), NEW r, NEW i \in ItemsOf(d, r), NEW e,
         e = [t \in DOMAIN d \ {i.name} |-> d[t]]
  PROVE  /\ Disk(e) /\ ItemsOf(e, r) = ItemsOf(d, r) \ {i}
         /\ Cardinality(ItemsOf(e, r)) = Cardinality(ItemsOf(d, r)) - 1
         /\ SizeOf(ItemsOf(e, r)) = SizeOf(ItemsOf(d, r)) - i.size
<1>0. i.name \in DOMAIN d /\ i = ItemOf(d, i.name)
  BY ItemIsItsSession
<1>1. Disk(e)
  <2>1. DOMAIN e = DOMAIN d \ {i.name} /\ IsFiniteSet(DOMAIN d \ {i.name})
    BY FS_RemoveElement DEF Disk
  <2> QED BY <2>1 DEF Disk
<1>2. ItemsOf(e, r) = ItemsOf(d, r) \ {i}
  <2>1. In(e, r) = In(d, r) \ {i.name}
    BY DEF In
  <2>2. \A s \in In(e, r) : ItemOf(e, s) = ItemOf(d, s)
    BY DEF In, ItemOf
  <2>3. \A s \in In(e, r) : ItemOf(d, s) # i
    BY <2>1 DEF ItemOf
  <2>4. \A s \in In(d, r) : ItemOf(d, s) # i => s \in In(e, r)
    BY <1>0, <2>1
  <2>5. In(e, r) \subseteq In(d, r)
    BY <2>1
  <2> QED BY <2>2, <2>3, <2>4, <2>5 DEF ItemsOf
<1>3. ItemsOf(d, r) \in Lists
  BY ItemsListed
<1>4. /\ Cardinality(ItemsOf(d, r) \ {i}) + 1 = Cardinality(ItemsOf(d, r))
      /\ Cardinality(ItemsOf(d, r)) \in Nat /\ Cardinality(ItemsOf(d, r) \ {i}) \in Nat
      /\ ItemsOf(d, r) \ {i} \in Lists /\ i.size \in Nat
  BY <1>3, RestIsShorter
<1>5. /\ SizeOf(ItemsOf(d, r)) = i.size + SizeOf(ItemsOf(d, r) \ {i})
      /\ SizeOf(ItemsOf(d, r)) \in Nat /\ SizeOf(ItemsOf(d, r) \ {i}) \in Nat
  BY <1>3, <1>4, SizeOfParts
<1> DEFINE rest == ItemsOf(d, r) \ {i}
<1>r. ItemsOf(e, r) = rest
  BY <1>2
<1>c. Cardinality(rest) + 1 = Cardinality(ItemsOf(d, r)) /\ Cardinality(rest) \in Nat
  BY <1>4
<1>t. SizeOf(ItemsOf(d, r)) = i.size + SizeOf(rest) /\ SizeOf(rest) \in Nat
  BY <1>5
<1> HIDE DEF rest
<1>6. Cardinality(ItemsOf(e, r)) = Cardinality(ItemsOf(d, r)) - 1
  BY <1>r, <1>c
<1>7. SizeOf(ItemsOf(e, r)) = SizeOf(ItemsOf(d, r)) - i.size
  BY <1>r, <1>t, <1>4
<1> QED BY <1>1, <1>2, <1>6, <1>7

\* A session with another size counts with it.
LEMMA SessionChanged ==
  ASSUME NEW d, Disk(d), NEW s \in DOMAIN d, NEW n \in Nat, NEW at \in Nat, NEW e,
         e = [t \in DOMAIN d |->
                IF t = s THEN [root |-> d[s].root, size |-> n, stamp |-> at] ELSE d[t]]
  PROVE  /\ Disk(e)
         /\ Cardinality(ItemsOf(e, d[s].root)) = Cardinality(ItemsOf(d, d[s].root))
         /\ SizeOf(ItemsOf(e, d[s].root)) = (SizeOf(ItemsOf(d, d[s].root)) - d[s].size) + n
<1> DEFINE r == d[s].root
           new == [root |-> r, size |-> n, stamp |-> at]
<1>0. d[s] \in File /\ new \in File
  <2>1. d[s] \in File
    BY DEF Disk
  <2> QED BY <2>1 DEF File
<1> DEFINE i == ItemOf(d, s)
           j == [name |-> s, size |-> n, stamp |-> at]
           rest == ItemsOf(d, r) \ {i}
<1>1. DOMAIN e = DOMAIN d /\ e[s] = new /\ (\A t \in DOMAIN d : t # s => e[t] = d[t])
      /\ e \in [DOMAIN d -> File]
  <2>1. \A t \in DOMAIN d : d[t] \in File
    BY DEF Disk
  <2> QED BY <1>0, <2>1
<1>2. Disk(e)
  BY <1>1 DEF Disk
<1>3. e[s].root = r /\ e[s].size = n /\ e[s].stamp = at
  BY <1>1
<1> HIDE DEF new
<1>4. In(e, r) = In(d, r) /\ s \in In(d, r)
  <2>1. \A t \in DOMAIN d : e[t].root = d[t].root
    BY <1>1, <1>3
  <2> QED BY <1>1, <2>1 DEF In
<1>5. ItemOf(e, s) = j
  BY <1>3 DEF ItemOf
<1>6. \A t \in In(d, r) : t # s => ItemOf(e, t) = ItemOf(d, t)
  BY <1>1 DEF ItemOf, In
<1>7. i \in ItemsOf(d, r) /\ ItemsOf(d, r) \in Lists /\ ItemsOf(e, r) \in Lists
      /\ i.size = d[s].size
  <2>1. i \in ItemsOf(d, r)
    BY <1>4 DEF ItemsOf
  <2>2. ItemsOf(d, r) \in Lists /\ ItemsOf(e, r) \in Lists
    BY <1>2, ItemsListed
  <2>3. i.size = d[s].size
    BY DEF ItemOf
  <2> QED BY <2>1, <2>2, <2>3
<1>8. \A t \in In(d, r) : t # s <=> ItemOf(d, t) # i
  BY DEF ItemOf
<1>9. ItemsOf(e, r) = rest \union {j} /\ j \notin rest
  <2>1. j \notin rest
    <3> SUFFICES ASSUME NEW t \in In(d, r), ItemOf(d, t) # i PROVE ItemOf(d, t) # j
      BY DEF ItemsOf
    <3> QED BY <1>8 DEF ItemOf
  <2>2. rest = {ItemOf(d, t) : t \in In(d, r) \ {s}}
    BY <1>8 DEF ItemsOf
  <2>3. ItemsOf(e, r) = {ItemOf(e, t) : t \in In(d, r)}
    BY <1>4 DEF ItemsOf
  <2>4. {ItemOf(e, t) : t \in In(d, r) \ {s}} = {ItemOf(d, t) : t \in In(d, r) \ {s}}
    BY <1>6
  <2>5. {ItemOf(e, t) : t \in In(d, r)} = {ItemOf(e, t) : t \in In(d, r) \ {s}} \union {j}
    BY <1>4, <1>5
  <2> QED BY <2>1, <2>2, <2>3, <2>4, <2>5
<1>10. rest \in Lists /\ i.size \in Nat /\ SizeOf(ItemsOf(d, r)) = i.size + SizeOf(rest)
       /\ SizeOf(rest) \in Nat
  BY <1>7, RestIsShorter, SizeOfParts
<1>11. SizeOf(ItemsOf(e, r)) = j.size + SizeOf(rest)
  <2>1. ItemsOf(e, r) \ {j} = rest /\ j \in ItemsOf(e, r)
    BY <1>9
  <2> QED BY <1>7, <2>1, SizeOfParts
<1>12. Cardinality(ItemsOf(e, r)) = Cardinality(ItemsOf(d, r))
  BY <1>2, <1>4, ItemsListed
<1>13. j.size = n
  OBVIOUS
<1> HIDE DEF rest, i, j
<1> DEFINE a == SizeOf(ItemsOf(d, r)) b == SizeOf(ItemsOf(e, r)) c == SizeOf(rest) m == d[s].size
<1>14. a = m + c /\ b = n + c /\ c \in Nat /\ m \in Nat
  BY <1>7, <1>10, <1>11, <1>13
<1> HIDE DEF a, b, c, m
<1>15. b = (a - m) + n
  BY <1>14
<1> QED BY <1>2, <1>12, <1>15 DEF a, b, m

\* A listing of one session only is as large as it.
LEMMA OneSession ==
  ASSUME NEW d, Disk(d), NEW r, NEW s \in DOMAIN d, d[s].root = r,
         \A i \in ItemsOf(d, r) : i.name = s
  PROVE  Cardinality(ItemsOf(d, r)) = 1 /\ SizeOf(ItemsOf(d, r)) = d[s].size
         /\ d[s].size \in Nat
<1> DEFINE i == ItemOf(d, s)
<1>1. ItemsOf(d, r) = {i}
  <2>1. i \in ItemsOf(d, r)
    BY DEF ItemsOf, In
  <2>2. \A k \in ItemsOf(d, r) : k = i
    BY ItemIsItsSession
  <2> QED BY <2>1, <2>2
<1>2. ItemsOf(d, r) \in Lists /\ i.size = d[s].size
  BY ItemsListed DEF ItemOf
<1> HIDE DEF i
<1>3. Cardinality({i}) = 1
  BY FS_Singleton
<1>4. SizeOf({i}) = i.size + SizeOf({i} \ {i}) /\ i.size \in Nat
  BY <1>1, <1>2, SizeOfParts, RestIsShorter
<1>5. {i} \ {i} = {}
  OBVIOUS
<1>6. SizeOf({i}) = i.size + 0
  BY <1>4, <1>5, SizeOfParts
<1> QED BY <1>1, <1>2, <1>3, <1>4, <1>6
Shaped(w) == w = [todo |-> w.todo, count |-> w.count, total |-> w.total, limit |-> w.limit]
DiskTyped ==
    /\ fs \in [DOMAIN fs -> File] /\ DOMAIN fs \subseteq used /\ used \subseteq Sessions
    /\ IsFiniteSet(DOMAIN fs) /\ clock \in Nat /\ faults \in Nat
    /\ DOMAIN work = Processes /\ \A p \in Processes : Shaped(work[p])
    /\ alone \in [Processes -> BOOLEAN]

\* The sessions in the root of a process, and its own one.
Files(p) == Snapshot(process[p].root)
OwnOnDisk(p) ==
    process[p].own \in DOMAIN fs /\ fs[process[p].own].root = process[p].root

\* The listing a cleanup works from is the disk, but for the own session when the
\* cleanup has come past it.
ListIsTrue(p) ==
    /\ work[p].todo \subseteq Files(p)
    /\ \A i \in Files(p) \ work[p].todo : i.name = process[p].own
    /\ work[p].count = Cardinality(Files(p)) /\ work[p].total = SizeOf(Files(p))
    /\ work[p].limit = RootLimit - PartLimit

\* What a process that runs alone and without a fault has reached, step by step.
Stage(p) ==
    /\ process[p].pc \in {"root", "clean-before", "create", "list", "clean-after", "open"} =>
         process[p].bytes = 0
    /\ process[p].pc \in {"list", "clean-after", "open"} =>
         OwnOnDisk(p) /\ fs[process[p].own].size = 0
    /\ process[p].pc \in {"clean-after", "clean-rotate"} => ListIsTrue(p)
    /\ At(p, "open") => /\ Cardinality(Files(p)) <= SessionLimit
                        /\ SizeOf(Files(p)) <= RootLimit - PartLimit
    /\ At(p, "run") /\ process[p].holds =>
         /\ OwnOnDisk(p) /\ process[p].bytes <= PartLimit
         /\ Cardinality(Files(p)) <= SessionLimit
         /\ SizeOf(Files(p)) <= (RootLimit - PartLimit) + process[p].bytes
    /\ process[p].pc \in {"clean-rotate", "size"} => OwnOnDisk(p)
    /\ At(p, "size") => /\ Cardinality(Files(p)) <= SessionLimit
                        /\ \/ SizeOf(Files(p)) <= RootLimit - PartLimit
                           \/ \A i \in Files(p) : i.name = process[p].own
    /\ process[p].failed =>
         /\ At(p, "run") /\ ~process[p].holds /\ process[p].own \in DOMAIN fs
         /\ fs[process[p].own].size + PartLimit > RootLimit

AloneIsAlone == \A p, o \in Processes : alone[p] /\ o # p => ~Live(o)
StagesReached == \A p \in Processes : alone[p] /\ faults = 0 => Stage(p)
LimitsInv == IInv /\ DiskTyped /\ AloneIsAlone /\ StagesReached

-----------------------------------------------------------------------------
\* What the types say of the disk.
LEMMA DiskOfTypes == DiskTyped => Disk(fs)
  BY DEF DiskTyped, Disk
LEMMA DiskOfTypesNext == DiskTyped' => Disk(fs')
  BY DEF DiskTyped, Disk

\* What a cleanup does to its listing keeps its shape.
LEMMA ShapedTodo ==
  ASSUME NEW w, NEW x, Shaped(w)
  PROVE  [w EXCEPT !.todo = x] = [todo |-> x, count |-> w.count, total |-> w.total, limit |-> w.limit]
<1> DEFINE b == w.count c == w.total d == w.limit
<1>1. PICK a : w = [todo |-> a, count |-> b, total |-> c, limit |-> d]
  BY DEF Shaped
<1> HIDE DEF b, c, d
<1>2. [w EXCEPT !.todo = x] = [todo |-> x, count |-> b, total |-> c, limit |-> d]
  BY <1>1
<1> QED BY <1>2 DEF b, c, d

Taken(w, x, y, z) == [w EXCEPT !.todo = x, !.count = y, !.total = z]
LEMMA ShapedTaken ==
  ASSUME NEW w, NEW x, NEW y, NEW z, Shaped(w)
  PROVE  Taken(w, x, y, z) = [todo |-> x, count |-> y, total |-> z, limit |-> w.limit]
<1> DEFINE b == w.count c == w.total d == w.limit
<1>1. PICK a : w = [todo |-> a, count |-> b, total |-> c, limit |-> d]
  BY DEF Shaped
<1> HIDE DEF b, c, d
<1>2. PICK r : r = [w EXCEPT !.todo = x]
  OBVIOUS
<1>3. r = [todo |-> x, count |-> b, total |-> c, limit |-> d]
  BY <1>1, <1>2
<1>4. PICK s : s = [r EXCEPT !.count = y]
  OBVIOUS
<1>5. s = [todo |-> x, count |-> y, total |-> c, limit |-> d]
  BY <1>3, <1>4
<1>6. [s EXCEPT !.total = z] = [todo |-> x, count |-> y, total |-> z, limit |-> d]
  BY <1>5
<1>7. Taken(w, x, y, z) = [[[w EXCEPT !.todo = x] EXCEPT !.count = y] EXCEPT !.total = z]
  BY DEF Taken
<1>8. Taken(w, x, y, z) = [s EXCEPT !.total = z]
  BY <1>2, <1>4, <1>7, Zenon
<1> QED BY <1>6, <1>8 DEF d

\* A process becomes what it is set to.
LEMMA Became ==
  ASSUME TypeInv, NEW p \in Processes, NEW to, Become(p, to)
  PROVE  process'[p] = to /\ \A q \in Processes : q # p => process'[q] = process[q]
  BY DEF TypeInv, Become

\* A step keeps the types of the disk and the listings.
LEMMA DiskKept ==
  ASSUME IInv, DiskTyped, NEW p \in Processes, Step(p)
  PROVE  DiskTyped'
<1> USE DEF DiskTyped, None
<1>0. alone' \in [Processes -> BOOLEAN]
  BY DEF Step, Start, OpenRoot, CleanDone, SkipOwn, DeleteOldest, CleanFails, CreateSession,
         ListAfter, OpenSink, Write, BeginRotate, FinishRotate, Exit
<1>w. DOMAIN work' = Processes /\ \A q \in Processes : Shaped(work'[q])
  <2>1. ASSUME NEW w, Shaped(w), work' = [work EXCEPT ![p] = w]
        PROVE  DOMAIN work' = Processes /\ \A q \in Processes : Shaped(work'[q])
    BY <2>1
  <2> DEFINE w == work[p] o == Oldest(work[p])
  <2>2. Shaped(w)
    OBVIOUS
  <2>4. ASSUME UNCHANGED work PROVE DOMAIN work' = Processes /\ \A q \in Processes : Shaped(work'[q])
    BY <2>4
  <2>5. Shaped(NoWork)
    BY DEF Shaped, NoWork
  <2>6. ASSUME NEW limit, NEW place, List(p, limit, place) PROVE \E v : Shaped(v) /\ work' = [work EXCEPT ![p] = v]
    <3> DEFINE all == Snapshot(process[p].root)
               v == [todo |-> all, count |-> Cardinality(all), total |-> SizeOf(all), limit |-> limit]
    <3>1. work' = [work EXCEPT ![p] = v]
      BY <2>6 DEF List
    <3>2. Shaped(v)
      BY DEF Shaped
    <3> QED BY <3>1, <3>2
  <2>7. ASSUME work' = [work EXCEPT ![p].todo = @ \ {o}] PROVE \E v : Shaped(v) /\ work' = [work EXCEPT ![p] = v]
    <3> DEFINE v == [todo |-> w.todo \ {o}, count |-> w.count, total |-> w.total, limit |-> w.limit]
    <3>1. v = [w EXCEPT !.todo = @ \ {o}]
      BY <2>2, ShapedTodo
    <3>2. work' = [work EXCEPT ![p] = v]
      BY <2>7, <3>1
    <3>3. Shaped(v)
      BY DEF Shaped
    <3> QED BY <3>2, <3>3
  <2>8. ASSUME work' = [work EXCEPT ![p].todo = @ \ {o}, ![p].count = @ - 1, ![p].total = @ - o.size]
        PROVE \E v : Shaped(v) /\ work' = [work EXCEPT ![p] = v]
    <3> DEFINE x == w.todo \ {o} y == w.count - 1 z == w.total - o.size
               v == [todo |-> x, count |-> y, total |-> z, limit |-> w.limit]
    <3>1. v = [w EXCEPT !.todo = @ \ {o}, !.count = @ - 1, !.total = @ - o.size]
      <4>1. Taken(w, x, y, z) = [w EXCEPT !.todo = @ \ {o}, !.count = @ - 1, !.total = @ - o.size]
        BY DEF Taken
      <4> HIDE DEF x, y, z
      <4>2. Taken(w, x, y, z) = v
        BY <2>2, ShapedTaken
      <4> QED BY <4>1, <4>2
    <3>2. work' = [work EXCEPT ![p] = v]
      BY <2>8, <3>1
    <3>3. Shaped(v)
      BY DEF Shaped
    <3> QED BY <3>2, <3>3
  <2>9. \/ UNCHANGED work
        \/ work' = [work EXCEPT ![p] = NoWork]
        \/ \E limit, place : List(p, limit, place)
        \/ work' = [work EXCEPT ![p].todo = @ \ {o}]
        \/ work' = [work EXCEPT ![p].todo = @ \ {o}, ![p].count = @ - 1, ![p].total = @ - o.size]
    BY DEF Step, Start, OpenRoot, CleanDone, SkipOwn, DeleteOldest, CleanFails, CreateSession,
           ListAfter, OpenSink, Write, BeginRotate, FinishRotate, Exit
  <2> HIDE DEF o, w
  <2> QED BY <2>1, <2>4, <2>5, <2>6, <2>7, <2>8, <2>9
<1> USE <1>0, <1>w
<1>1. CASE Start(p)
  BY <1>1 DEF Start
<1>2. CASE OpenRoot(p)
  BY <1>2 DEF OpenRoot, List, Fault
<1>3. CASE CleanDone(p)
  BY <1>3 DEF CleanDone
<1>4. CASE SkipOwn(p)
  BY <1>4 DEF SkipOwn
<1>5. CASE DeleteOldest(p)
  <2> DEFINE s == Oldest(work[p]).name
  <2>1. CASE CanDelete(s)
    <3>1. fs' = [t \in DOMAIN fs \ {s} |-> fs[t]] /\ DOMAIN work' = Processes
          /\ UNCHANGED <<used, clock, faults>>
      BY <1>5, <2>1 DEF DeleteOldest
    <3> HIDE DEF s
    <3>2. DOMAIN fs' = DOMAIN fs \ {s} /\ IsFiniteSet(DOMAIN fs \ {s})
      BY <3>1, FS_RemoveElement
    <3>3. fs' \in [DOMAIN fs' -> File]
      BY <3>1, <3>2
    <3> QED BY <3>1, <3>2, <3>3
  <2>2. CASE ~CanDelete(s)
    BY <1>5, <2>2 DEF DeleteOldest
  <2> QED BY <2>1, <2>2
<1>6. CASE CleanFails(p)
  BY <1>6 DEF CleanFails, Fault
<1>7. CASE CreateSession(p)
  <2>1. ASSUME NEW s \in Sessions \ used,
               fs' = [t \in DOMAIN fs \union {s} |->
                        IF t = s THEN [root |-> process[p].root, size |-> 0, stamp |-> clock]
                        ELSE fs[t]],
               used' = used \union {s}, clock' = clock + 1, UNCHANGED <<faults, work>>
        PROVE  DiskTyped'
    <3> DEFINE new == [root |-> process[p].root, size |-> 0, stamp |-> clock]
    <3>1. new \in File
      BY DEF IInv, TypeInv, Record, File
    <3> HIDE DEF new
    <3>2. DOMAIN fs' = DOMAIN fs \union {s} /\ IsFiniteSet(DOMAIN fs \union {s})
      BY <2>1, FS_AddElement
    <3>3. fs' = [t \in DOMAIN fs \union {s} |-> IF t = s THEN new ELSE fs[t]]
      BY <2>1 DEF new
    <3>4. fs' \in [DOMAIN fs' -> File]
      BY <3>1, <3>2, <3>3
    <3> QED BY <2>1, <3>2, <3>4
  <2>2. ASSUME Fault, UNCHANGED <<fs, used, clock, work>> PROVE DiskTyped'
    BY <2>2 DEF Fault
  <2>3. CASE \E s \in Sessions \ used :
               /\ fs' = [t \in DOMAIN fs \union {s} |->
                        IF t = s THEN [root |-> process[p].root, size |-> 0, stamp |-> clock]
                        ELSE fs[t]]
               /\ used' = used \union {s} /\ clock' = clock + 1 /\ UNCHANGED <<faults, work>>
    BY <2>1, <2>3
  <2> QED BY <1>7, <2>2, <2>3 DEF CreateSession
<1>8. CASE ListAfter(p)
  BY <1>8 DEF ListAfter, List
<1>9. CASE OpenSink(p)
  BY <1>9 DEF OpenSink, Fault
<1>10. CASE Write(p)
  <2> DEFINE s == process[p].own
  <2>1. fs' = [fs EXCEPT ![s].size = @ + 1] /\ s \in DOMAIN fs /\ UNCHANGED <<used, clock, faults, work>>
    BY <1>10 DEF Write, IInv, OpenLogIsKept
  <2>2. fs[s] \in File /\ fs \in [DOMAIN fs -> File]
    BY <2>1
  <2> HIDE DEF s
  <2>3. [fs[s] EXCEPT !.size = @ + 1] \in File
    BY <2>2 DEF File
  <2>4. fs' \in [DOMAIN fs -> File] /\ DOMAIN fs' = DOMAIN fs
    BY <2>1, <2>2, <2>3
  <2> QED BY <2>1, <2>4
<1>11. CASE BeginRotate(p)
  BY <1>11 DEF BeginRotate, List
<1>12. CASE FinishRotate(p)
  <2> DEFINE s == process[p].own
  <2>1. CASE fs' = [fs EXCEPT ![s].stamp = clock]
    <3>1. fs \in [DOMAIN fs -> File] /\ \A t \in DOMAIN fs : [fs[t] EXCEPT !.stamp = clock] \in File
      BY DEF File
    <3>2. clock' \in Nat /\ UNCHANGED <<used, faults, work>>
      BY <1>12 DEF FinishRotate
    <3> HIDE DEF s
    <3>3. fs' \in [DOMAIN fs -> File] /\ DOMAIN fs' = DOMAIN fs
      BY <2>1, <3>1
    <3> QED BY <3>2, <3>3
  <2>2. CASE UNCHANGED <<fs, clock>>
    BY <1>12, <2>2 DEF FinishRotate
  <2> QED BY <1>12, <2>1, <2>2 DEF FinishRotate
<1>13. CASE Exit(p)
  BY <1>13 DEF Exit
<1> QED
  BY <1>1, <1>2, <1>3, <1>4, <1>5, <1>6, <1>7, <1>8, <1>9, <1>10, <1>11, <1>12, <1>13
  DEF Step

\* Only a process that starts takes away from another that it is alone, and only
\* one that lives makes any other step.
LEMMA WhoSteps ==
  ASSUME IInv, DiskTyped, AloneIsAlone, NEW q \in Processes, Step(q)
  PROVE  /\ AloneIsAlone'
         /\ \A p \in Processes : alone'[p] => p = q /\ (alone[p] \/ Start(p))
<1>0. process \in [Processes -> Record]
  BY DEF IInv, TypeInv
<1>1. CASE Start(q)
  <2> DEFINE to == [NoProcess EXCEPT !.pc = "root"]
  <2>1. \A o \in Processes : o # q => process'[o] = process[o]
    BY <1>0, <1>1 DEF Start, Become
  <2>2. \A p \in Processes : alone'[p] <=> p = q /\ \A o \in Processes \ {q} : ~Live(o)
    BY <1>1 DEF Start
  <2>3. AloneIsAlone'
    BY <2>1, <2>2 DEF AloneIsAlone, Live
  <2> QED BY <1>1, <2>2, <2>3
<1>2. CASE ~Start(q)
  <2>1. Live(q)
    BY <1>2 DEF Step, OpenRoot, CleanDone, SkipOwn, DeleteOldest, CleanFails, CreateSession,
                ListAfter, OpenSink, Write, BeginRotate, FinishRotate, Exit, At, Cleaning, Live
  <2>2. \A o \in Processes : o # q => process'[o] = process[o]
    <3>1. \/ UNCHANGED process
          \/ \E to : Become(q, to)
      BY <1>2 DEF Step, OpenRoot, CleanDone, SkipOwn, DeleteOldest, CleanFails, CreateSession,
                  ListAfter, OpenSink, Write, BeginRotate, FinishRotate, Exit, List
    <3>2. ASSUME NEW to, Become(q, to), NEW o \in Processes, o # q
          PROVE  process'[o] = process[o]
      <4>1. process' = [process EXCEPT ![q] = to]
        BY <3>2, Zenon DEF Become
      <4> QED BY <3>2, <4>1
    <3> QED BY <3>1, <3>2, Zenon
  <2>3. \/ UNCHANGED alone
        \/ alone' = [alone EXCEPT ![q] = FALSE]
    BY <1>2 DEF Step, OpenRoot, CleanDone, SkipOwn, DeleteOldest, CleanFails, CreateSession,
                ListAfter, OpenSink, Write, BeginRotate, FinishRotate, Exit
  <2>4. ASSUME NEW p \in Processes, alone'[p] PROVE alone[p] /\ p = q
    BY <2>1, <2>3, <2>4 DEF AloneIsAlone, DiskTyped
  <2>5. AloneIsAlone'
    BY <2>2, <2>4 DEF AloneIsAlone, Live
  <2> QED BY <2>4, <2>5
<1> QED BY <1>1, <1>2

\* The sessions of a process are those of the disk in its root.
LEMMA FilesAreItems ==
  \A p : /\ Files(p) = ItemsOf(fs, process[p].root)
         /\ Files(p)' = ItemsOf(fs', process'[p].root)
  BY DEF Files, Snapshot, InRoot, ItemsOf, ItemOf, In

\* Where a process is says nothing about its sessions.
LEMMA SameFiles ==
  ASSUME TypeInv, NEW p \in Processes, NEW to, Become(p, to), UNCHANGED fs,
         to.root = process[p].root, to.own = process[p].own
  PROVE  /\ process'[p] = to /\ Files(p)' = Files(p)
         /\ OwnOnDisk(p)' <=> OwnOnDisk(p)
         /\ fs'[process'[p].own] = fs[process[p].own]
<1>1. process'[p] = to
  BY Became
<1>2. Files(p)' = Files(p)
  BY <1>1, FilesAreItems
<1> QED BY <1>1, <1>2 DEF OwnOnDisk

\* A listing that was just made is true.
LEMMA ListedIsTrue ==
  ASSUME TypeInv, DiskTyped, NEW p \in Processes, NEW place, UNCHANGED fs,
         List(p, RootLimit - PartLimit, place)
  PROVE  ListIsTrue(p)'
<1>1. process'[p] = [process[p] EXCEPT !.pc = place] /\ process[p] \in Record
  BY Became DEF List, TypeInv
<1>2. process'[p].root = process[p].root
  BY <1>1 DEF Record
<1>3. Files(p)' = Files(p) /\ Files(p) = Snapshot(process[p].root)
  BY <1>2, FilesAreItems DEF Files
<1>4. work'[p] = [todo |-> Files(p), count |-> Cardinality(Files(p)),
                  total |-> SizeOf(Files(p)), limit |-> RootLimit - PartLimit]
  BY <1>3 DEF List, DiskTyped
<1>5. SizeOf(Files(p)') = SizeOf(Files(p)) /\ Cardinality(Files(p)') = Cardinality(Files(p))
  BY <1>3
<1> QED BY <1>3, <1>4, <1>5 DEF ListIsTrue

\* The oldest session of a listing that is true is on the disk.
LEMMA OldestListed ==
  ASSUME DiskTyped, NEW p \in Processes, ListIsTrue(p), work[p].todo # {}
  PROVE  Oldest(work[p]) \in work[p].todo /\ Oldest(work[p]) \in Files(p)
<1>1. Files(p) \in Lists
  BY DiskOfTypes, FilesAreItems, ItemsListed
<1>2. work[p].todo \in SUBSET Item
  BY <1>1 DEF ListIsTrue, Lists
<1>3. \E s \in work[p].todo : \A t \in work[p].todo : s.stamp <= t.stamp
  BY <1>2, OldestIsOne
<1>4. Oldest(work[p]) \in work[p].todo
  BY <1>3 DEF Oldest
<1> QED BY <1>4 DEF ListIsTrue

\* A cleanup that has come to its end leaves few enough sessions, small enough
\* ones or only the own one.
LEMMA CleanedUp ==
  ASSUME DiskTyped, NEW p \in Processes, ListIsTrue(p), OwnOnDisk(p),
         Enough(work[p]) \/ work[p].todo = {}
  PROVE  /\ Cardinality(Files(p)) <= SessionLimit
         /\ \/ SizeOf(Files(p)) <= RootLimit - PartLimit
            \/ \A i \in Files(p) : i.name = process[p].own
<1>1. CASE Enough(work[p])
  BY <1>1 DEF Enough, ListIsTrue
<1>2. CASE work[p].todo = {}
  <2>1. \A i \in Files(p) : i.name = process[p].own
    BY <1>2 DEF ListIsTrue
  <2>2. Cardinality(Files(p)) = 1
    BY <2>1, DiskOfTypes, FilesAreItems, OneSession DEF OwnOnDisk
  <2> QED BY <2>1, <2>2, RetentionAssumption
<1> QED BY <1>1, <1>2

\* Each step of a process that is alone and without a fault reaches its stage.
LEMMA StageKept ==
  ASSUME IInv, DiskTyped, DiskTyped', AloneIsAlone, NEW p \in Processes, Step(p), faults' = 0,
         Start(p) \/ (alone[p] /\ Stage(p))
  PROVE  Stage(p)'
<1>r. process[p] \in Record /\ faults \in Nat
  BY DEF IInv, TypeInv, DiskTyped
<1>n. ~Fault
  BY <1>r DEF Fault
<1>t. TypeInv
  BY DEF IInv
<1> USE DEF At
<1>1. CASE Start(p)
  <2>1. process'[p] = [NoProcess EXCEPT !.pc = "root"]
    BY <1>1, <1>t, Became DEF Start
  <2> QED BY <2>1 DEF Stage, NoProcess
<1>a. CASE ~Start(p)
  <2>s. alone[p] /\ Stage(p)
    BY <1>a
  <2>2. CASE OpenRoot(p)
    <3>1. process'[p] = [process[p] EXCEPT !.pc = "clean-before"] /\ process[p].pc = "root"
      BY <1>n, <1>t, <2>2, Became DEF OpenRoot, List
    <3> QED BY <1>r, <2>s, <3>1 DEF Stage, Record
  <2>3. CASE CleanDone(p)
    <3> DEFINE to == After(p, TRUE)
    <3>1. /\ Become(p, to) /\ UNCHANGED fs /\ Cleaning(p)
          /\ Enough(work[p]) \/ work[p].todo = {}
      BY <2>3 DEF CleanDone
    <3>2. /\ to.root = process[p].root /\ to.own = process[p].own
          /\ to.bytes = process[p].bytes /\ to.failed = process[p].failed
      BY <1>r, <3>1 DEF After, Cleaning, Record
    <3>3. /\ process[p].pc = "clean-before" => to.pc = "create"
          /\ process[p].pc = "clean-after" => to.pc = "open"
          /\ process[p].pc = "clean-rotate" => to.pc = "size"
      BY <1>r, <3>1 DEF After, Cleaning, Record
    <3> HIDE DEF to
    <3>4. /\ process'[p] = to /\ Files(p)' = Files(p)
          /\ OwnOnDisk(p)' <=> OwnOnDisk(p)
          /\ fs'[process'[p].own] = fs[process[p].own]
      BY <1>t, <3>1, <3>2, SameFiles
    <3>5. ~to.failed
      BY <2>s, <3>1, <3>2 DEF Stage, Cleaning
    <3>6. CASE process[p].pc = "clean-before"
      <4>1. to.bytes = 0
        BY <2>s, <3>2, <3>6 DEF Stage
      <4> QED BY <3>3, <3>4, <3>5, <3>6, <4>1 DEF Stage
    <3>7. CASE process[p].pc = "clean-after"
      <4>1. /\ ListIsTrue(p) /\ OwnOnDisk(p) /\ fs[process[p].own].size = 0
            /\ process[p].bytes = 0
        BY <2>s, <3>7 DEF Stage
      <4>2. /\ Cardinality(Files(p)) <= SessionLimit
            /\ \/ SizeOf(Files(p)) <= RootLimit - PartLimit
               \/ \A i \in Files(p) : i.name = process[p].own
        BY <3>1, <4>1, CleanedUp
      <4>3. ASSUME \A i \in Files(p) : i.name = process[p].own
            PROVE  SizeOf(Files(p)) <= RootLimit - PartLimit
        <5>1. SizeOf(Files(p)) = 0
          BY <4>1, <4>3, DiskOfTypes, FilesAreItems, OneSession DEF OwnOnDisk
        <5> QED BY <5>1, RetentionAssumption
      <4> QED BY <3>2, <3>3, <3>4, <3>5, <3>7, <4>1, <4>2, <4>3 DEF Stage
    <3>8. CASE process[p].pc = "clean-rotate"
      <4>1. ListIsTrue(p) /\ OwnOnDisk(p)
        BY <2>s, <3>8 DEF Stage
      <4>2. /\ Cardinality(Files(p)) <= SessionLimit
            /\ \/ SizeOf(Files(p)) <= RootLimit - PartLimit
               \/ \A i \in Files(p) : i.name = process[p].own
        BY <3>1, <4>1, CleanedUp
      <4> QED BY <3>2, <3>3, <3>4, <3>5, <3>8, <4>1, <4>2 DEF Stage
    <3> QED BY <3>1, <3>6, <3>7, <3>8 DEF Cleaning
  <2>4. CASE SkipOwn(p)
    <3>1. /\ UNCHANGED <<fs, process>> /\ Cleaning(p) /\ work[p].todo # {}
          /\ work' = [work EXCEPT ![p].todo = @ \ {Oldest(work[p])}]
          /\ Oldest(work[p]).name = process[p].own
      BY <2>4 DEF SkipOwn, Skip
    <3>2. /\ Files(p)' = Files(p) /\ (OwnOnDisk(p)' <=> OwnOnDisk(p))
          /\ process'[p] = process[p] /\ fs' = fs
      BY <3>1, FilesAreItems DEF OwnOnDisk
    <3>3. ASSUME ListIsTrue(p) PROVE ListIsTrue(p)'
      <4> DEFINE o == Oldest(work[p]) w == work[p]
      <4>1. work'[p] = [w EXCEPT !.todo = @ \ {o}]
        BY <3>1 DEF DiskTyped
      <4> HIDE DEF o, w
      <4>w. Shaped(w)
        BY DEF DiskTyped, w
      <4>2. /\ work'[p].todo = w.todo \ {o}
            /\ work'[p].count = w.count /\ work'[p].total = w.total
            /\ work'[p].limit = w.limit
        BY <4>1, <4>w DEF Shaped
      <4>3. /\ w.todo \subseteq Files(p)
            /\ \A i \in Files(p) \ w.todo : i.name = process[p].own
            /\ w.count = Cardinality(Files(p)) /\ w.total = SizeOf(Files(p))
            /\ w.limit = RootLimit - PartLimit /\ o.name = process[p].own
        BY <3>1, <3>3 DEF ListIsTrue, w, o
      <4>4. /\ work'[p].todo \subseteq Files(p)
            /\ \A i \in Files(p) \ work'[p].todo : i.name = process[p].own
        BY <4>2, <4>3
      <4> QED BY <3>2, <4>2, <4>3, <4>4 DEF ListIsTrue
    <3> QED BY <2>s, <3>1, <3>2, <3>3 DEF Stage, Cleaning
  <2>5. CASE DeleteOldest(p)
    <3> DEFINE s == Oldest(work[p])
    <3>1. Cleaning(p) /\ work[p].todo # {} /\ s.name # process[p].own
      BY <2>5 DEF DeleteOldest, Skip
    <3>2. CASE process[p].pc = "clean-before"
      <4>1. CASE CanDelete(s.name)
        <5>1. UNCHANGED process
          BY <2>5, <4>1 DEF DeleteOldest
        <5> QED BY <2>s, <3>2, <5>1 DEF Stage
      <4>2. CASE ~CanDelete(s.name)
        <5>1. process'[p] = [process[p] EXCEPT !.pc = "create"]
          BY <1>t, <2>5, <3>2, <4>2, Became DEF DeleteOldest, After
        <5> QED BY <1>r, <2>s, <3>2, <5>1 DEF Stage, Record
      <4> QED BY <4>1, <4>2
    <3>3. CASE process[p].pc \in {"clean-after", "clean-rotate"}
      <4>1. ListIsTrue(p) /\ OwnOnDisk(p) /\ ~process[p].failed
        BY <2>s, <3>3 DEF Stage
      <4>2. s \in work[p].todo /\ s \in Files(p)
        BY <3>1, <4>1, OldestListed
      <4> HIDE DEF s
      <4>3. s \in ItemsOf(fs, process[p].root)
        BY <4>2, FilesAreItems
      <4>4. s.name \in DOMAIN fs /\ s.size = fs[s.name].size
        BY <4>3, ItemIsItsSession
      <4>5. CanDelete(s.name)
        <5>1. \A o \in Processes : o # p => ~process[o].holds
          BY <2>s DEF AloneIsAlone, IInv, TypeInv
        <5> QED BY <3>1, <4>4, <5>1 DEF CanDelete, Held, s
      <4>6. /\ fs' = [t \in DOMAIN fs \ {s.name} |-> fs[t]] /\ UNCHANGED process
            /\ work' = [work EXCEPT ![p].todo = @ \ {s}, ![p].count = @ - 1,
                                    ![p].total = @ - s.size]
        BY <2>5, <4>5 DEF DeleteOldest, s
      <4>7. /\ Files(p)' = Files(p) \ {s}
            /\ Cardinality(Files(p)') = Cardinality(Files(p)) - 1
            /\ SizeOf(Files(p)') = SizeOf(Files(p)) - s.size
        <5> DEFINE r == process[p].root
        <5>1. Disk(fs) /\ Files(p) = ItemsOf(fs, r) /\ Files(p)' = ItemsOf(fs', r)
              /\ s \in ItemsOf(fs, r)
          BY <4>3, <4>6, DiskOfTypes, FilesAreItems
        <5> HIDE DEF r
        <5>2. /\ ItemsOf(fs', r) = ItemsOf(fs, r) \ {s}
              /\ Cardinality(ItemsOf(fs', r)) = Cardinality(ItemsOf(fs, r)) - 1
              /\ SizeOf(ItemsOf(fs', r)) = SizeOf(ItemsOf(fs, r)) - s.size
          BY <4>6, <5>1, SessionDeleted
        <5> QED BY <5>1, <5>2
      <4>8. process[p].own \in DOMAIN fs' /\ fs'[process[p].own] = fs[process[p].own]
        BY <3>1, <4>1, <4>6 DEF OwnOnDisk, s
      <4>9. process'[p] = process[p] /\ OwnOnDisk(p)'
        BY <4>1, <4>6, <4>8 DEF OwnOnDisk
      <4>10. ListIsTrue(p)'
        <5> DEFINE w == work[p]
        <5>1. work'[p] = [w EXCEPT !.todo = @ \ {s}, !.count = @ - 1, !.total = @ - s.size]
          BY <4>6 DEF DiskTyped
        <5>2. /\ w.todo \subseteq Files(p)
              /\ \A i \in Files(p) \ w.todo : i.name = process[p].own
              /\ w.count = Cardinality(Files(p)) /\ w.total = SizeOf(Files(p))
              /\ w.limit = RootLimit - PartLimit /\ Shaped(w)
          BY <4>1 DEF ListIsTrue, DiskTyped
        <5> HIDE DEF w
        <5>3. /\ work'[p].todo = w.todo \ {s} /\ work'[p].count = w.count - 1
              /\ work'[p].total = w.total - s.size /\ work'[p].limit = w.limit
          BY <5>1, <5>2 DEF Shaped
        <5>4. /\ work'[p].todo \subseteq Files(p) \ {s}
              /\ \A i \in (Files(p) \ {s}) \ work'[p].todo : i.name = process[p].own
          BY <5>2, <5>3
        <5> QED BY <4>7, <4>9, <5>2, <5>3, <5>4 DEF ListIsTrue
      <4> QED BY <2>s, <3>3, <4>1, <4>8, <4>9, <4>10 DEF Stage
    <3> QED BY <3>1, <3>2, <3>3 DEF Cleaning
  <2>6. CASE CleanFails(p)
    BY <1>n, <2>6 DEF CleanFails
  <2>7. CASE CreateSession(p)
    <3>1. PICK s \in Sessions \ used :
            /\ fs' = [t \in DOMAIN fs \union {s} |->
                        IF t = s THEN [root |-> process[p].root, size |-> 0, stamp |-> clock]
                        ELSE fs[t]]
            /\ Become(p, [process[p] EXCEPT !.pc = "list", !.own = s, !.holds = TRUE])
      BY <1>n, <2>7 DEF CreateSession
    <3>2. process'[p] = [process[p] EXCEPT !.pc = "list", !.own = s, !.holds = TRUE]
      BY <1>t, <3>1, Became
    <3>3. /\ process'[p].pc = "list" /\ process'[p].own = s /\ process'[p].root = process[p].root
          /\ process'[p].bytes = process[p].bytes /\ process'[p].failed = process[p].failed
      BY <1>r, <3>2 DEF Record
    <3>4. s \in DOMAIN fs' /\ fs'[s] = [root |-> process[p].root, size |-> 0, stamp |-> clock]
      BY <3>1
    <3>5. process[p].pc = "create" /\ ~process[p].failed
      BY <2>s, <2>7 DEF Stage, CreateSession
    <3>6. process[p].bytes = 0
      BY <2>s, <3>5 DEF Stage
    <3> QED BY <3>3, <3>4, <3>5, <3>6 DEF Stage, OwnOnDisk
  <2>8. CASE ListAfter(p)
    <3>1. /\ process[p].pc = "list" /\ List(p, RootLimit - PartLimit, "clean-after")
          /\ UNCHANGED fs
      BY <2>8 DEF ListAfter
    <3>2. ListIsTrue(p)'
      BY <1>t, <3>1, ListedIsTrue
    <3> DEFINE to == [process[p] EXCEPT !.pc = "clean-after"]
    <3>3. /\ to.pc = "clean-after" /\ to.own = process[p].own /\ to.root = process[p].root
          /\ to.bytes = process[p].bytes /\ to.failed = process[p].failed
      BY <1>r DEF Record
    <3>4. Become(p, to)
      BY <3>1 DEF List
    <3> HIDE DEF to
    <3>5. /\ process'[p] = to /\ Files(p)' = Files(p) /\ (OwnOnDisk(p)' <=> OwnOnDisk(p))
          /\ fs'[process'[p].own] = fs[process[p].own]
      BY <1>t, <3>1, <3>3, <3>4, SameFiles
    <3> QED BY <2>s, <3>1, <3>2, <3>3, <3>5 DEF Stage
  <2>9. CASE OpenSink(p)
    <3>1. process[p].pc = "open" /\ UNCHANGED fs
      BY <2>9 DEF OpenSink
    <3>2. /\ OwnOnDisk(p) /\ process[p].bytes = 0 /\ ~process[p].failed
          /\ Cardinality(Files(p)) <= SessionLimit /\ SizeOf(Files(p)) <= RootLimit - PartLimit
      BY <2>s, <3>1 DEF Stage
    <3> DEFINE to == [process[p] EXCEPT !.pc = "run", !.holds = TRUE]
    <3>3. Become(p, to)
      BY <1>n, <2>9, <3>2 DEF OpenSink, OwnOnDisk
    <3>4. /\ to.pc = "run" /\ to.own = process[p].own /\ to.root = process[p].root
          /\ to.bytes = process[p].bytes /\ to.failed = process[p].failed
      BY <1>r DEF Record
    <3> HIDE DEF to
    <3>5. /\ process'[p] = to /\ Files(p)' = Files(p) /\ (OwnOnDisk(p)' <=> OwnOnDisk(p))
      BY <1>t, <3>1, <3>3, <3>4, SameFiles
    <3>6. SizeOf(Files(p)) <= (RootLimit - PartLimit) + 0 /\ 0 <= PartLimit
      BY <3>2, RetentionAssumption
    <3> QED BY <3>2, <3>4, <3>5, <3>6 DEF Stage
  <2>10. CASE Write(p)
    <3> DEFINE s == process[p].own r == process[p].root
    <3>1. /\ process[p].pc = "run" /\ process[p].holds /\ process[p].bytes < PartLimit
          /\ fs' = [fs EXCEPT ![s].size = @ + 1]
          /\ Become(p, [process[p] EXCEPT !.bytes = @ + 1])
      BY <2>10 DEF Write
    <3>2. /\ OwnOnDisk(p) /\ ~process[p].failed
          /\ Cardinality(Files(p)) <= SessionLimit
          /\ SizeOf(Files(p)) <= (RootLimit - PartLimit) + process[p].bytes
      BY <2>s, <3>1 DEF Stage
    <3>3. process'[p] = [process[p] EXCEPT !.bytes = @ + 1]
      BY <1>t, <3>1, Became
    <3>4. /\ process'[p].pc = "run" /\ process'[p].own = s /\ process'[p].root = r
          /\ process'[p].bytes = process[p].bytes + 1 /\ ~process'[p].failed
      BY <1>r, <3>1, <3>2, <3>3 DEF Record
    <3>5. s \in DOMAIN fs /\ fs[s].root = r /\ fs[s] \in File /\ Disk(fs)
      BY <3>2, DiskOfTypes DEF OwnOnDisk, DiskTyped
    <3> HIDE DEF s, r
    <3>6. fs' = [t \in DOMAIN fs |-> IF t = s THEN [root |-> fs[s].root, size |-> fs[s].size + 1, stamp |-> fs[s].stamp]
                                     ELSE fs[t]]
      <4> DEFINE new == [root |-> fs[s].root, size |-> fs[s].size + 1, stamp |-> fs[s].stamp]
      <4>1. new = [fs[s] EXCEPT !.size = @ + 1]
        BY <3>5 DEF File
      <4>2. fs = [t \in DOMAIN fs |-> fs[t]]
        BY DEF DiskTyped
      <4> HIDE DEF new
      <4>3. fs' = [t \in DOMAIN fs |-> IF t = s THEN new ELSE fs[t]]
        BY <3>1, <3>5, <4>1, <4>2
      <4> QED BY <4>3 DEF new
    <3>7. fs[s].size \in Nat /\ fs[s].size + 1 \in Nat /\ fs[s].stamp \in Nat
      BY <3>5 DEF File
    <3>8. /\ Cardinality(ItemsOf(fs', fs[s].root)) = Cardinality(ItemsOf(fs, fs[s].root))
          /\ SizeOf(ItemsOf(fs', fs[s].root)) = (SizeOf(ItemsOf(fs, fs[s].root)) - fs[s].size) + (fs[s].size + 1)
      <4> DEFINE n == fs[s].size + 1 at == fs[s].stamp
      <4>1. n \in Nat /\ at \in Nat
        BY <3>7
      <4>2. fs' = [t \in DOMAIN fs |-> IF t = s THEN [root |-> fs[s].root, size |-> n, stamp |-> at]
                                     ELSE fs[t]]
        BY <3>6
      <4> HIDE DEF n, at
      <4>3. /\ Cardinality(ItemsOf(fs', fs[s].root)) = Cardinality(ItemsOf(fs, fs[s].root))
            /\ SizeOf(ItemsOf(fs', fs[s].root)) = (SizeOf(ItemsOf(fs, fs[s].root)) - fs[s].size) + n
        BY <3>5, <4>1, <4>2, SessionChanged
      <4> QED BY <4>3 DEF n
    <3>9. Files(p) = ItemsOf(fs, r) /\ Files(p)' = ItemsOf(fs', r) /\ SizeOf(ItemsOf(fs, r)) \in Nat
      <4>1. Files(p) = ItemsOf(fs, r) /\ Files(p)' = ItemsOf(fs', r)
        BY <3>4, FilesAreItems DEF r
      <4>2. ItemsOf(fs, r) \in Lists
        BY <3>5, ItemsListed
      <4> QED BY <4>1, <4>2, SizeOfParts
    <3>10. /\ Cardinality(Files(p)') <= SessionLimit
           /\ SizeOf(Files(p)') <= (RootLimit - PartLimit) + (process[p].bytes + 1)
           /\ process[p].bytes + 1 <= PartLimit
      <4>1. SizeOf(Files(p)') = SizeOf(Files(p)) + 1 /\ Cardinality(Files(p)') = Cardinality(Files(p))
        BY <3>5, <3>7, <3>8, <3>9
      <4>2. process[p].bytes \in Nat
        BY <1>r DEF Record
      <4>3. SizeOf(Files(p)) \in Nat
        BY <3>9
      <4> DEFINE a == SizeOf(Files(p)') b == SizeOf(Files(p)) c == process[p].bytes
      <4>4. a = b + 1 /\ b <= (RootLimit - PartLimit) + c /\ b \in Nat /\ c \in Nat /\ c < PartLimit
        BY <3>1, <3>2, <4>1, <4>2, <4>3
      <4> HIDE DEF a, b, c
      <4>5. a <= (RootLimit - PartLimit) + (c + 1) /\ c + 1 <= PartLimit
        BY <4>4, RetentionAssumption
      <4> QED BY <3>2, <4>1, <4>5 DEF a, c
    <3>11. OwnOnDisk(p)'
      BY <3>4, <3>5, <3>6 DEF OwnOnDisk
    <3> QED BY <3>4, <3>10, <3>11 DEF Stage
  <2>11. CASE BeginRotate(p)
    <3>1. /\ process[p].pc = "run" /\ List(p, RootLimit - PartLimit, "clean-rotate")
          /\ UNCHANGED fs /\ process[p].holds
      BY <2>11 DEF BeginRotate
    <3>2. ListIsTrue(p)'
      BY <1>t, <3>1, ListedIsTrue
    <3> DEFINE to == [process[p] EXCEPT !.pc = "clean-rotate"]
    <3>3. /\ to.pc = "clean-rotate" /\ to.own = process[p].own /\ to.root = process[p].root
          /\ to.bytes = process[p].bytes /\ to.failed = process[p].failed
      BY <1>r DEF Record
    <3>4. Become(p, to)
      BY <3>1 DEF List
    <3> HIDE DEF to
    <3>5. /\ process'[p] = to /\ Files(p)' = Files(p) /\ (OwnOnDisk(p)' <=> OwnOnDisk(p))
          /\ fs'[process'[p].own] = fs[process[p].own]
      BY <1>t, <3>1, <3>3, <3>4, SameFiles
    <3> QED BY <2>s, <3>1, <3>2, <3>3, <3>5 DEF Stage
  <2>12. CASE FinishRotate(p)
    <3> DEFINE s == process[p].own r == process[p].root
    <3>1. process[p].pc = "size"
      BY <2>12 DEF FinishRotate
    <3>2. /\ OwnOnDisk(p) /\ ~process[p].failed
          /\ Cardinality(Files(p)) <= SessionLimit
          /\ \/ SizeOf(Files(p)) <= RootLimit - PartLimit
             \/ \A i \in Files(p) : i.name = process[p].own
      BY <2>s, <3>1 DEF Stage
    <3>3. s \in DOMAIN fs /\ fs[s].root = r /\ fs[s] \in File /\ Disk(fs)
          /\ Files(p) = ItemsOf(fs, r) /\ Files(p) = Snapshot(r)
      BY <3>2, DiskOfTypes, FilesAreItems DEF OwnOnDisk, DiskTyped, Files
    <3>4. CASE SizeOf(Files(p)) <= RootLimit - PartLimit
      <4>1. /\ Become(p, [process[p] EXCEPT !.pc = "run", !.bytes = 0])
            /\ fs' = [fs EXCEPT ![s].stamp = clock]
        BY <2>12, <3>3, <3>4 DEF FinishRotate
      <4>2. process'[p] = [process[p] EXCEPT !.pc = "run", !.bytes = 0]
        BY <1>t, <4>1, Became
      <4>3. /\ process'[p].pc = "run" /\ process'[p].own = s /\ process'[p].root = r
            /\ process'[p].bytes = 0 /\ ~process'[p].failed
        BY <1>r, <3>2, <4>2 DEF Record
      <4> HIDE DEF s, r
      <4> DEFINE n == fs[s].size at == clock
      <4>4. n \in Nat /\ at \in Nat
        BY <3>3 DEF File, DiskTyped
      <4>5. fs' = [t \in DOMAIN fs |-> IF t = s THEN [root |-> fs[s].root, size |-> n, stamp |-> at]
                                       ELSE fs[t]]
        <5> DEFINE new == [root |-> fs[s].root, size |-> n, stamp |-> at]
        <5>1. new = [fs[s] EXCEPT !.stamp = at]
          BY <3>3 DEF File
        <5>2. fs = [t \in DOMAIN fs |-> fs[t]]
          BY DEF DiskTyped
        <5> HIDE DEF new
        <5>3. fs' = [t \in DOMAIN fs |-> IF t = s THEN new ELSE fs[t]]
          BY <3>3, <4>1, <5>1, <5>2
        <5> QED BY <5>3 DEF new
      <4> HIDE DEF n, at
      <4>6. /\ Cardinality(ItemsOf(fs', fs[s].root)) = Cardinality(ItemsOf(fs, fs[s].root))
            /\ SizeOf(ItemsOf(fs', fs[s].root)) = (SizeOf(ItemsOf(fs, fs[s].root)) - fs[s].size) + n
        BY <3>3, <4>4, <4>5, SessionChanged, ZenonT(60)
      <4>7. Files(p)' = ItemsOf(fs', r) /\ SizeOf(ItemsOf(fs, r)) \in Nat
        <5>1. Files(p)' = ItemsOf(fs', r)
          BY <4>3, FilesAreItems DEF r
        <5>2. ItemsOf(fs, r) \in Lists
          BY <3>3, ItemsListed
        <5> QED BY <5>1, <5>2, SizeOfParts
      <4>8. SizeOf(Files(p)') = SizeOf(Files(p)) /\ Cardinality(Files(p)') = Cardinality(Files(p))
        BY <3>3, <4>4, <4>6, <4>7 DEF n
      <4>9. SizeOf(Files(p)') <= (RootLimit - PartLimit) + 0 /\ 0 <= PartLimit
            /\ Cardinality(Files(p)') <= SessionLimit
        <5>1. SizeOf(Files(p)) \in Nat
          BY <3>3, <4>7
        <5> QED BY <3>2, <3>4, <4>8, <5>1, RetentionAssumption
      <4>10. OwnOnDisk(p)'
        BY <3>3, <4>3, <4>5 DEF OwnOnDisk
      <4> QED BY <4>3, <4>9, <4>10 DEF Stage
    <3>5. CASE ~(SizeOf(Files(p)) <= RootLimit - PartLimit)
      <4>1. Become(p, [process[p] EXCEPT !.pc = "run", !.holds = FALSE, !.failed = TRUE]) /\ UNCHANGED fs
        BY <2>12, <3>3, <3>5 DEF FinishRotate
      <4> DEFINE to == [process[p] EXCEPT !.pc = "run", !.holds = FALSE, !.failed = TRUE]
      <4>2. to.pc = "run" /\ to.own = s /\ ~to.holds
        BY <1>r DEF Record
      <4>0. Become(p, to)
        BY <4>1
      <4> HIDE DEF to
      <4>3. process'[p] = to
        BY <1>t, <4>0, Became
      <4>4. SizeOf(Files(p)) = fs[s].size /\ fs[s].size \in Nat
        <5>1. \A i \in ItemsOf(fs, r) : i.name = s
          BY <3>2, <3>3, <3>5
        <5> HIDE DEF s, r
        <5>2. SizeOf(ItemsOf(fs, r)) = fs[s].size /\ fs[s].size \in Nat
          BY <3>3, <5>1, OneSession
        <5> QED BY <3>3, <5>2
      <4>5. fs[s].size + PartLimit > RootLimit
        BY <3>5, <4>4, RetentionAssumption
      <4> QED BY <3>3, <4>1, <4>2, <4>3, <4>5 DEF Stage
    <3> QED BY <3>4, <3>5
  <2>13. CASE Exit(p)
    <3>1. process'[p] = NoProcess
      BY <1>t, <2>13, Became DEF Exit
    <3> QED BY <3>1 DEF Stage, NoProcess
  <2> QED
    BY <1>a, <2>2, <2>3, <2>4, <2>5, <2>6, <2>7, <2>8, <2>9, <2>10, <2>11, <2>12, <2>13
    DEF Step
<1> QED BY <1>1, <1>a

\* The invariant is kept.
LEMMA LimitsKept ==
  ASSUME LimitsInv, [Next]_vars
  PROVE  LimitsInv'
<1>1. CASE UNCHANGED vars
  <2>1. IInv' /\ DiskTyped' /\ AloneIsAlone'
    BY <1>1 DEF vars, LimitsInv, IInv, TypeInv, Live, OpenLogIsKept, DiskTyped, AloneIsAlone
  <2>2. ASSUME NEW p \in Processes PROVE Stage(p)' <=> Stage(p)
    <3>1. /\ UNCHANGED <<fs, work>> /\ process'[p] = process[p]
          /\ Files(p)' = Files(p) /\ (OwnOnDisk(p)' <=> OwnOnDisk(p))
      BY <1>1, FilesAreItems DEF vars, OwnOnDisk
    <3>2. ListIsTrue(p)' <=> ListIsTrue(p)
      BY <3>1 DEF ListIsTrue
    <3> QED BY <3>1, <3>2 DEF Stage, At
  <2>3. UNCHANGED <<alone, faults>>
    BY <1>1 DEF vars
  <2> QED BY <2>1, <2>2, <2>3 DEF LimitsInv, StagesReached
<1>2. ASSUME NEW q \in Processes, Step(q) PROVE LimitsInv'
  <2>1. IInv /\ DiskTyped /\ AloneIsAlone /\ StagesReached
    BY DEF LimitsInv
  <2>2. IInv'
    BY <1>2, <2>1, StepKeeps
  <2>3. DiskTyped'
    BY <1>2, <2>1, DiskKept
  <2>4. AloneIsAlone' /\ \A p \in Processes : alone'[p] => p = q /\ (alone[p] \/ Start(p))
    BY <1>2, <2>1, WhoSteps
  <2>5. ASSUME NEW p \in Processes, alone'[p], faults' = 0 PROVE Stage(p)'
    <3>1. p = q /\ (alone[p] \/ Start(p))
      BY <2>4, <2>5
    <3>2. faults = 0
      <4>1. faults \in Nat /\ (faults' = faults \/ faults' = faults + 1)
        BY <1>2, <2>1 DEF DiskTyped, Step, Start, OpenRoot, CleanDone, SkipOwn, DeleteOldest, CleanFails,
               CreateSession, ListAfter, OpenSink, Write, BeginRotate, FinishRotate, Exit, Fault
      <4> QED BY SMTT(60), <2>5, <4>1
    <3>3. Start(p) \/ (alone[p] /\ Stage(p))
      BY <2>1, <3>1, <3>2 DEF StagesReached
    <3> QED BY <1>2, <2>1, <2>3, <2>5, <3>1, <3>3, StageKept
  <2>6. StagesReached'
    BY <2>5 DEF StagesReached
  <2> QED BY <2>2, <2>3, <2>4, <2>6 DEF LimitsInv
<1> QED BY <1>1, <1>2 DEF Next

\* A process that runs alone keeps the number and the size of the sessions within
\* the limits while it writes, and gives its log up only when its own session leaves
\* no room for a part (prepare_directories, cleanup_retention_in, rotate).
THEOREM LimitsKeep == Spec => []KeepsTheLimits
<1>1. Init => LimitsInv
  <2> SUFFICES ASSUME Init PROVE LimitsInv
    OBVIOUS
  <2>1. IInv
    BY DEF Init, IInv, TypeInv, OpenLogIsKept, NoProcess, Live, Roots, Places, Record
  <2>2. fs = <<>> /\ DOMAIN fs = {} /\ IsFiniteSet({})
    BY FS_EmptySet DEF Init
  <2>3. DiskTyped
    BY <2>2 DEF Init, DiskTyped, Shaped, NoWork
  <2>4. \A p \in Processes : ~alone[p]
    BY DEF Init
  <2> QED BY <2>1, <2>3, <2>4 DEF LimitsInv, AloneIsAlone, StagesReached
<1>2. LimitsInv /\ [Next]_vars => LimitsInv'
  BY LimitsKept
<1>3. LimitsInv => KeepsTheLimits
  <2> SUFFICES ASSUME LimitsInv, NEW p \in Processes, alone[p], faults = 0
               PROVE  /\ At(p, "run") /\ process[p].holds =>
                           /\ Cardinality(InRoot(process[p].root)) <= SessionLimit
                           /\ SizeOf(Snapshot(process[p].root)) <= RootLimit
                      /\ process[p].failed => fs[process[p].own].size + PartLimit > RootLimit
    BY DEF KeepsTheLimits, AloneWithinTheLimits, AloneNeverLosesTheLog
  <2>1. Stage(p) /\ DiskTyped /\ TypeInv
    BY DEF LimitsInv, StagesReached, IInv
  <2>2. ASSUME At(p, "run"), process[p].holds
        PROVE  /\ Cardinality(InRoot(process[p].root)) <= SessionLimit
               /\ SizeOf(Snapshot(process[p].root)) <= RootLimit
    <3> DEFINE r == process[p].root
    <3>1. /\ process[p].bytes <= PartLimit /\ process[p].bytes \in Nat
          /\ Cardinality(Files(p)) <= SessionLimit
          /\ SizeOf(Files(p)) <= (RootLimit - PartLimit) + process[p].bytes
      BY <2>1, <2>2 DEF Stage, TypeInv, Record
    <3>2. Disk(fs) /\ Files(p) = ItemsOf(fs, r) /\ Snapshot(r) = Files(p) /\ InRoot(r) = In(fs, r)
      BY <2>1, DiskOfTypes, FilesAreItems, SnapshotIsItems DEF Files
    <3> HIDE DEF r
    <3>3. Files(p) \in Lists /\ Cardinality(Files(p)) = Cardinality(InRoot(r))
      BY <3>2, ItemsListed
    <3>4. SizeOf(Files(p)) \in Nat
      BY <3>3, SizeOfParts
    <3>5. SizeOf(Files(p)) <= RootLimit
      BY <3>1, <3>4, RetentionAssumption
    <3>6. SizeOf(Snapshot(r)) <= RootLimit /\ Cardinality(InRoot(r)) <= SessionLimit
      BY <3>1, <3>2, <3>3, <3>5
    <3> QED BY <3>6 DEF r
  <2>3. process[p].failed => fs[process[p].own].size + PartLimit > RootLimit
    BY <2>1 DEF Stage
  <2> QED BY <2>2, <2>3
<1> QED
  BY <1>1, <1>2, <1>3, PTL DEF Spec

-----------------------------------------------------------------------------
(* The icon pool.  What a thread is worth to the batch is in one of four    *)
(* places: with the thread, in the result channel, with the collector or    *)
(* lost to a panic.  The invariant counts the answers and follows every     *)
(* request through them.                                                    *)

WorkPlaces == {"wait", "next", "fetch", "send", "fail", "ended"}
Icon == Nat \X Nat \X Pool!Workers
PoolThreads == [at : WorkPlaces, batch : 0..MaxBatches, request : Nat, found : SUBSET Icon]
Answers == [failed : BOOLEAN, found : SUBSET Icon]

PoolTyped ==
    /\ caller \in {"new", "idle", "dispatch", "gather", "join", "gone"}
    /\ spawned \in Nat /\ batch \in 0..MaxBatches /\ size \in 0..MaxRequests
    /\ dispatched \in 0..WorkerCount /\ gathered \in Nat /\ error \in BOOLEAN
    /\ taken \in SUBSET Icon
    /\ next \in [1..MaxBatches -> Nat] /\ dead \in SUBSET Nat
    /\ commands \in [Pool!Workers -> {"none", "run", "shutdown"}]
    /\ thread \in [Pool!Workers -> PoolThreads]
    /\ results \in Seq(Answers) /\ panics \in Nat /\ struck \in SUBSET (1..batch)

\* What a channel holds, whatever its order.
Sent(s) == {s[i] : i \in 1..Len(s)}

\* The threads that work on the batch, or have been told to.
AtWork(w) == thread[w].at \in {"next", "fetch", "send", "fail"}
Busy == {w \in Pool!Workers : commands[w] = "run" \/ AtWork(w)}

\* The collector hands out the batch, then takes the answers: none is missing and
\* none too many.
AnswersCounted ==
    /\ caller = "dispatch" => dispatched < Pool!Active /\ gathered = 0
    /\ caller = "gather" => dispatched = Pool!Active /\ gathered < dispatched
    /\ caller \in {"dispatch", "gather"} =>
         /\ batch # 0 /\ size # 0
         /\ gathered + Len(results) + Cardinality(Busy) = dispatched
         /\ \A w \in Busy : w <= dispatched
    /\ gathered = 0 => taken = {} /\ ~error
    /\ caller \notin {"dispatch", "gather"} => results = <<>> /\ Busy = {}

\* A thread works on the last batch only; one without work has nothing of it.
ThreadsOfTheBatch ==
    \A w \in Pool!Workers :
      /\ AtWork(w) => thread[w].batch = batch /\ commands[w] = "none" /\ batch # 0
      /\ thread[w].at = "wait" => thread[w] = Pool!Idle
      /\ thread[w].at = "ended" => thread[w].found = {}
      /\ caller \notin {"join", "gone"} => thread[w].at # "ended" /\ commands[w] # "shutdown"

\* Where the icons of the batch are.
WorkHeld == {t \in Icon : \/ t \in taken
                          \/ \E a \in Sent(results) : t \in a.found
                          \/ \E w \in Pool!Workers : t \in thread[w].found}
Fetching(w, r) == thread[w].at = "fetch" /\ thread[w].request = r

\* Every icon is of the batch and of a request that was claimed; no request was
\* claimed twice.
EachOnce ==
    /\ \A b \in 1..MaxBatches : b > batch => next[b] = 0
    /\ \A t \in WorkHeld : /\ t[1] = batch /\ t[2] \in 1..size /\ batch # 0
                       /\ t[2] <= next[batch]
    /\ \A t, u \in WorkHeld : t[2] = u[2] => t = u
    /\ \A w \in Pool!Workers : thread[w].at = "fetch" =>
         /\ thread[w].request \in 1..size /\ thread[w].request <= next[batch]
         /\ \A t \in WorkHeld : t[2] # thread[w].request
         /\ \A v \in Pool!Workers : Fetching(v, thread[w].request) => v = w

\* A panic of the batch is known to whoever answers, or has been reported.
PanicsReported ==
    /\ error => batch \in struck
    /\ \A a \in Sent(results) : a.failed => batch \in struck
    /\ \A w \in Pool!Workers : thread[w].at = "fail" => batch \in struck
    /\ batch \in struck => \/ error \/ (\E a \in Sent(results) : a.failed)
                           \/ \E w \in Pool!Workers : thread[w].at = "fail"

\* No claimed request of a living window is forgotten without a panic, and a thread
\* only answers well when all have been claimed.
NoneForgotten ==
    batch # 0 =>
      /\ \A r \in 1..size : r <= next[batch] =>
           \/ r \in dead \/ batch \in struck
           \/ \E t \in WorkHeld : t[2] = r
           \/ \E w \in Pool!Workers : Fetching(w, r)
      /\ \A w \in Pool!Workers : thread[w].at = "send" => next[batch] > size
      /\ \A a \in Sent(results) : a.failed \/ next[batch] > size
      /\ gathered > 0 => error \/ next[batch] > size
      /\ caller \notin {"dispatch", "gather"} => (size = 0 \/ gathered > 0)

PoolInv == /\ PoolTyped /\ AnswersCounted /\ ThreadsOfTheBatch /\ EachOnce /\ PanicsReported
           /\ NoneForgotten

\* Taking the first of what a channel holds, and adding to it.
LEMMA TailSent ==
  ASSUME NEW S, NEW s \in Seq(S), s # <<>>
  PROVE  /\ Head(s) \in S /\ Tail(s) \in Seq(S) /\ Len(Tail(s)) = Len(s) - 1
         /\ Sent(s) = {Head(s)} \union Sent(Tail(s))
<1>1. /\ Len(s) \in Nat /\ Len(s) > 0 /\ Head(s) = s[1] /\ Head(s) \in S
      /\ Tail(s) \in Seq(S) /\ Len(Tail(s)) = Len(s) - 1
      /\ \A i \in 1..Len(s) - 1 : Tail(s)[i] = s[i + 1]
  BY HeadTailProperties, EmptySeq
<1> DEFINE n == Len(s)
<1>2. ASSUME NEW x \in Sent(s) PROVE x \in {Head(s)} \union Sent(Tail(s))
  <2>1. PICK i \in 1..n : x = s[i]
    BY <1>2 DEF Sent
  <2>2. CASE i = 1
    BY <1>1, <2>1, <2>2
  <2>3. CASE i # 1
    <3>1. i - 1 \in 1..n - 1 /\ (i - 1) + 1 = i
      BY <1>1, <2>1, <2>3
    <3>2. Tail(s)[i - 1] = x
      BY <1>1, <2>1, <3>1
    <3> QED BY <1>1, <3>1, <3>2 DEF Sent
  <2> QED BY <2>2, <2>3
<1>3. ASSUME NEW x \in {Head(s)} \union Sent(Tail(s)) PROVE x \in Sent(s)
  <2>1. CASE x = Head(s)
    BY <1>1, <2>1 DEF Sent
  <2>2. CASE x \in Sent(Tail(s))
    <3>1. PICK i \in 1..n - 1 : x = Tail(s)[i]
      BY <1>1, <2>2 DEF Sent
    <3>2. i + 1 \in 1..n /\ x = s[i + 1]
      BY <1>1, <3>1
    <3> QED BY <3>2 DEF Sent
  <2> QED BY <1>3, <2>1, <2>2
<1> QED BY <1>1, <1>2, <1>3

\* An answer added is one more sent.
LEMMA AppendSent ==
  ASSUME NEW S, NEW s \in Seq(S), NEW x \in S
  PROVE  /\ Append(s, x) \in Seq(S) /\ Len(Append(s, x)) = Len(s) + 1
         /\ Sent(Append(s, x)) = Sent(s) \union {x}
<1>1. /\ Len(s) \in Nat /\ Append(s, x) \in Seq(S) /\ Len(Append(s, x)) = Len(s) + 1
      /\ \A i \in 1..Len(s) : Append(s, x)[i] = s[i]
      /\ Append(s, x)[Len(s) + 1] = x
  BY AppendProperties
<1> DEFINE n == Len(s)
           z == Append(s, x)
<1> HIDE DEF n, z
<1>2. 1..n + 1 = 1..n \union {n + 1} /\ n \in Nat
  BY <1>1 DEF n
<1>3. Sent(z) = {z[i] : i \in 1..n + 1} /\ Sent(s) = {s[i] : i \in 1..n}
  BY <1>1 DEF Sent, n, z
<1>4. z[n + 1] = x /\ \A i \in 1..n : z[i] = s[i]
  BY <1>1 DEF n, z
<1>5. Sent(z) = Sent(s) \union {x}
  BY <1>2, <1>3, <1>4
<1> QED BY <1>1, <1>5 DEF z

\* An empty channel holds nothing.
LEMMA NothingSent == Sent(<<>>) = {}
BY DEF Sent

-----------------------------------------------------------------------------
(* The steps.                                                               *)

\* Init.
LEMMA PoolStart == Pool!Init => PoolInv
<1> SUFFICES ASSUME Pool!Init PROVE PoolInv
  OBVIOUS
<1>1. /\ Pool!Idle \in PoolThreads /\ Pool!Idle.at = "wait" /\ Pool!Idle.found = {}
      /\ \A w \in Pool!Workers : thread[w] = Pool!Idle /\ commands[w] = "none"
      /\ Sent(results) = {}
  BY PoolAssumption, NothingSent DEF Pool!Init, Pool!Idle, PoolThreads, WorkPlaces
<1>2. PoolTyped
  <2>1. thread \in [Pool!Workers -> PoolThreads] /\ commands \in [Pool!Workers -> {"none", "run", "shutdown"}]
    BY <1>1 DEF Pool!Init
  <2>2. results \in Seq(Answers)
    BY DEF Pool!Init
  <2>3. next \in [1..MaxBatches -> Nat] /\ dead \in SUBSET Nat /\ struck \in SUBSET (1..batch)
    BY DEF Pool!Init
  <2>4. /\ batch \in 0..MaxBatches /\ size \in 0..MaxRequests /\ dispatched \in 0..WorkerCount
        /\ spawned \in Nat /\ gathered \in Nat /\ panics \in Nat
    BY PoolAssumption DEF Pool!Init
  <2>5. taken \in SUBSET Icon /\ error \in BOOLEAN
    BY DEF Pool!Init
  <2> QED BY <2>1, <2>2, <2>3, <2>4, <2>5 DEF Pool!Init, PoolTyped
<1>3. Busy = {} /\ WorkHeld = {}
  BY <1>1 DEF Busy, AtWork, WorkHeld, Pool!Init
<1>4. AnswersCounted
  BY <1>3 DEF AnswersCounted, Pool!Init
<1>5. ThreadsOfTheBatch
  BY <1>1 DEF ThreadsOfTheBatch, AtWork, Pool!Init
<1>6. EachOnce
  BY <1>1, <1>3, PoolAssumption DEF EachOnce, Pool!Init
<1>7. PanicsReported /\ NoneForgotten
  BY <1>1, PoolAssumption DEF PanicsReported, NoneForgotten, Pool!Init
<1> QED BY <1>2, <1>4, <1>5, <1>6, <1>7 DEF PoolInv

\* A pool at rest holds nothing but what the collector has.
LEMMA AtRest ==
  ASSUME PoolInv, caller \notin {"dispatch", "gather"}
  PROVE  /\ results = <<>> /\ Busy = {} /\ Sent(results) = {} /\ WorkHeld = taken
         /\ \A w \in Pool!Workers : thread[w].at \in {"wait", "ended"} /\ thread[w].found = {}
<1>1. results = <<>> /\ Busy = {}
  BY DEF PoolInv, AnswersCounted
<1>2. Sent(results) = {}
  BY <1>1, NothingSent
<1>3. ASSUME NEW w \in Pool!Workers PROVE thread[w].at \in {"wait", "ended"} /\ thread[w].found = {}
  <2>1. ~AtWork(w) /\ thread[w] \in PoolThreads
    BY <1>1 DEF Busy, PoolInv, PoolTyped
  <2>2. thread[w].at \in {"wait", "ended"}
    BY <2>1 DEF AtWork, PoolThreads, WorkPlaces
  <2>3. thread[w].found = {}
    BY <2>2 DEF PoolInv, ThreadsOfTheBatch, Pool!Idle
  <2> QED BY <2>2, <2>3
<1>4. WorkHeld = taken
  BY <1>2, <1>3 DEF WorkHeld, PoolInv, PoolTyped
<1> QED BY <1>1, <1>2, <1>3, <1>4

\* The threads are finitely many, and so are those at work.
LEMMA BusyFinite ==
  /\ IsFiniteSet(Pool!Workers) /\ Cardinality(Pool!Workers) = WorkerCount
  /\ \A S \in SUBSET Pool!Workers : IsFiniteSet(S) /\ Cardinality(S) \in Nat
<1>1. IsFiniteSet(Pool!Workers) /\ Cardinality(Pool!Workers) = WorkerCount
  BY PoolAssumption, FS_Interval DEF Pool!Workers
<1> QED BY <1>1, FS_Subset, FS_CardinalityType

\* new, and the steps of the collector between two batches or after the last.
LEMMA RestKeeps ==
  ASSUME PoolInv, Pool!Spawn \/ Pool!SpawnFails \/ Pool!Drop \/ Pool!Join
  PROVE  PoolInv'
<1>1. caller \notin {"dispatch", "gather"} /\ caller' \in {"new", "idle", "join", "gone"}
  BY DEF Pool!Spawn, Pool!SpawnFails, Pool!Drop, Pool!Join
<1>2. UNCHANGED <<Pool!collect, next, dead, thread, results, panics, struck>>
  BY DEF Pool!Spawn, Pool!SpawnFails, Pool!Drop, Pool!Join, Pool!pool
<1>3. /\ spawned' \in Nat /\ commands' \in [Pool!Workers -> {"none", "run", "shutdown"}]
      /\ \A w \in Pool!Workers : commands'[w] = "run" => commands[w] = "run"
  BY DEF Pool!Spawn, Pool!SpawnFails, Pool!Drop, Pool!Join, Pool!pool, PoolInv, PoolTyped
<1>4. PoolTyped'
  BY <1>1, <1>2, <1>3 DEF PoolInv, PoolTyped, Pool!collect
<1>5. Busy' = {} /\ results' = <<>>
  BY <1>1, <1>2, <1>3, AtRest DEF Busy, AtWork
<1>6. AnswersCounted'
  BY <1>1, <1>2, <1>5 DEF PoolInv, AnswersCounted, Pool!collect
<1>7. ThreadsOfTheBatch'
  <2>1. ASSUME NEW w \in Pool!Workers PROVE ~AtWork(w)' /\ thread'[w] = thread[w]
    BY <1>2, <1>5 DEF Busy
  <2>2. ASSUME NEW w \in Pool!Workers, caller' \notin {"join", "gone"}
        PROVE  thread[w].at # "ended" /\ commands'[w] # "shutdown"
    BY <1>1, <2>2 DEF Pool!Spawn, Pool!SpawnFails, Pool!Drop, Pool!Join, Pool!pool, PoolInv, ThreadsOfTheBatch
  <2> QED BY <2>1, <2>2 DEF PoolInv, ThreadsOfTheBatch
<1>8. WorkHeld' = WorkHeld
  BY <1>2 DEF WorkHeld, Pool!collect
<1>9. EachOnce'
  BY <1>2, <1>8 DEF PoolInv, EachOnce, Fetching, Pool!collect
<1>10. PanicsReported' /\ NoneForgotten'
  BY <1>1, <1>2, <1>8 DEF PoolInv, PanicsReported, NoneForgotten, Fetching, Pool!collect
<1> QED BY <1>4, <1>6, <1>7, <1>9, <1>10 DEF PoolInv

\* collect begins: the pool has nothing left of the last batch.
LEMMA BeginKeeps ==
  ASSUME PoolInv, NEW n \in 0..MaxRequests, Pool!Begin(n)
  PROVE  PoolInv'
<1>1. /\ caller = "idle" /\ batch < MaxBatches /\ batch' = batch + 1 /\ size' = n /\ dead' = {}
      /\ dispatched' = 0 /\ gathered' = 0 /\ error' = FALSE /\ taken' = {}
      /\ caller' = (IF n = 0 THEN "idle" ELSE "dispatch")
      /\ UNCHANGED <<spawned, next, commands, thread, results, panics, struck>>
  BY DEF Pool!Begin
<1>2. /\ results = <<>> /\ Busy = {} /\ Sent(results) = {}
      /\ \A w \in Pool!Workers : thread[w].at \in {"wait", "ended"} /\ thread[w].found = {}
  BY <1>1, AtRest
<1>3. PoolTyped'
  <2>1. /\ batch' \in 0..MaxBatches /\ size' \in 0..MaxRequests /\ dispatched' \in 0..WorkerCount
        /\ 1..batch \subseteq 1..batch'
    BY <1>1, PoolAssumption DEF PoolInv, PoolTyped
  <2>2. struck' \in SUBSET (1..batch')
    BY <1>1, <2>1 DEF PoolInv, PoolTyped
  <2> QED BY <1>1, <2>1, <2>2 DEF PoolInv, PoolTyped
<1>4. Busy' = {} /\ WorkHeld' = {} /\ Sent(results)' = {}
  BY <1>1, <1>2 DEF Busy, AtWork, WorkHeld
<1>5. Cardinality({}) = 0
  BY FS_EmptySet
<1>6. AnswersCounted'
  <2>1. n # 0 => Pool!Active' > 0
    BY <1>1, PoolAssumption DEF Pool!Active
  <2>2. batch \in Nat
    BY DEF PoolInv, PoolTyped
  <2> QED BY <1>1, <1>2, <1>4, <1>5, <2>1, <2>2 DEF AnswersCounted
<1>7. ThreadsOfTheBatch'
  BY <1>1, <1>2, <1>4 DEF PoolInv, ThreadsOfTheBatch, AtWork, Busy
<1>8. batch' \in 1..MaxBatches /\ next[batch'] = 0 /\ batch' \notin struck
  BY <1>1, PoolAssumption DEF PoolInv, PoolTyped, EachOnce
<1>9. EachOnce'
  BY <1>1, <1>2, <1>4, <1>8 DEF PoolInv, PoolTyped, EachOnce
<1>10. PanicsReported'
  BY <1>1, <1>2, <1>8 DEF PanicsReported
<1>11. NoneForgotten'
  BY <1>1, <1>2, <1>8 DEF NoneForgotten
<1> QED BY <1>3, <1>6, <1>7, <1>9, <1>10, <1>11 DEF PoolInv

\* collect sends Run to the next thread.
LEMMA DispatchKeeps ==
  ASSUME PoolInv, Pool!Dispatch
  PROVE  PoolInv'
<1> DEFINE w == dispatched + 1
<1>1. /\ caller = "dispatch" /\ commands[w] = "none"
      /\ commands' = [commands EXCEPT ![w] = "run"] /\ dispatched' = w
      /\ caller' = (IF w = Pool!Active THEN "gather" ELSE "dispatch")
      /\ UNCHANGED <<batch, size, gathered, error, taken, spawned, next, dead, thread, results,
                     panics, struck>>
  BY DEF Pool!Dispatch
<1>2. /\ dispatched \in Nat /\ dispatched < Pool!Active /\ gathered = 0 /\ batch # 0 /\ size # 0
      /\ gathered + Len(results) + Cardinality(Busy) = dispatched
      /\ \A v \in Busy : v <= dispatched
  BY <1>1 DEF PoolInv, AnswersCounted, PoolTyped
<1>3. w \in Pool!Workers /\ w \notin Busy /\ Pool!Active' = Pool!Active /\ Pool!Active <= WorkerCount /\ Pool!Active \in Nat
  BY <1>1, <1>2, PoolAssumption DEF Pool!Active, Pool!Workers, PoolInv, PoolTyped
<1>4. PoolTyped'
  BY <1>1, <1>2, <1>3, PoolAssumption DEF PoolInv, PoolTyped
<1>5. Busy' = Busy \union {w}
  BY <1>1, <1>3 DEF Busy, AtWork, PoolInv, PoolTyped
<1>6. Cardinality(Busy') = Cardinality(Busy) + 1 /\ Cardinality(Busy) \in Nat
  <2>1. IsFiniteSet(Busy) /\ Cardinality(Busy) \in Nat
    BY BusyFinite DEF Busy
  <2> QED BY <1>3, <1>5, <2>1, FS_AddElement
<1>7. AnswersCounted'
  <2>1. Len(results) \in Nat /\ gathered \in Nat
    BY DEF PoolInv, PoolTyped
  <2>2. gathered' + Len(results') + Cardinality(Busy') = dispatched'
    BY <1>1, <1>2, <1>6, <2>1
  <2>3. \A v \in Busy' : v <= dispatched'
    BY <1>1, <1>2, <1>5 DEF Busy, Pool!Workers
  <2>4. /\ caller' = "dispatch" => dispatched' < Pool!Active /\ gathered' = 0
        /\ caller' = "gather" => dispatched' = Pool!Active /\ gathered' < dispatched'
    BY <1>1, <1>2, <1>3
  <2> QED BY <1>1, <1>2, <1>3, <2>2, <2>3, <2>4 DEF AnswersCounted, PoolInv
<1>8. ThreadsOfTheBatch'
  BY <1>1, <1>3 DEF PoolInv, PoolTyped, ThreadsOfTheBatch, AtWork, Busy
<1>9. WorkHeld' = WorkHeld
  BY <1>1 DEF WorkHeld
<1>10. EachOnce'
  BY <1>1, <1>9 DEF PoolInv, EachOnce, Fetching
<1>11. PanicsReported' /\ NoneForgotten'
  BY <1>1, <1>9 DEF PoolInv, PanicsReported, NoneForgotten, Fetching
<1> QED BY <1>4, <1>7, <1>8, <1>10, <1>11 DEF PoolInv

\* collect takes one answer: an icon goes to the collector, or its thread failed.
LEMMA GatherKeeps ==
  ASSUME PoolInv, Pool!Gather
  PROVE  PoolInv'
<1> DEFINE h == Head(results)
<1>1. /\ caller = "gather" /\ results # <<>>
      /\ error' = (error \/ h.failed)
      /\ taken' = (IF h.failed THEN taken ELSE taken \union h.found)
      /\ results' = Tail(results) /\ gathered' = gathered + 1
      /\ caller' = (IF gathered' = dispatched THEN "idle" ELSE "gather")
      /\ UNCHANGED <<batch, size, dispatched, spawned, next, dead, commands, thread, panics, struck>>
  BY DEF Pool!Gather, Pool!GatherDone
<1>2. /\ h \in Answers /\ results' \in Seq(Answers) /\ Len(results') = Len(results) - 1
      /\ Sent(results) = {h} \union Sent(results)'
  BY <1>1, TailSent DEF PoolInv, PoolTyped
<1>3. h.failed \in BOOLEAN /\ h.found \in SUBSET Icon
  BY <1>2 DEF Answers
<1> HIDE DEF h
<1>4. /\ dispatched = Pool!Active /\ gathered < dispatched /\ batch # 0 /\ size # 0
      /\ gathered + Len(results) + Cardinality(Busy) = dispatched
      /\ \A v \in Busy : v <= dispatched
      /\ gathered \in Nat /\ dispatched \in Nat /\ Len(results') \in Nat
      /\ IsFiniteSet(Busy) /\ Cardinality(Busy) \in Nat
  BY <1>1, <1>2, BusyFinite DEF PoolInv, AnswersCounted, PoolTyped, Busy
<1>5. PoolTyped'
  BY <1>1, <1>2, <1>3 DEF PoolInv, PoolTyped
<1>6. Busy' = Busy /\ Pool!Active' = Pool!Active
  BY <1>1 DEF Busy, AtWork, Pool!Active
<1>7. AnswersCounted'
  <2>1. gathered' + Len(results') + Cardinality(Busy') = dispatched'
    BY <1>1, <1>2, <1>4, <1>6
  <2>2. caller' = "idle" => results' = <<>> /\ Busy' = {}
    <3> SUFFICES ASSUME caller' = "idle" PROVE results' = <<>> /\ Busy' = {}
      OBVIOUS
    <3>1. gathered' = dispatched /\ dispatched' = dispatched
      BY <1>1
    <3>2. gathered' + Len(results') + Cardinality(Busy) = dispatched
      BY <1>6, <2>1, <3>1
    <3>3. Len(results') = 0 /\ Cardinality(Busy) = 0
      BY <1>4, <3>1, <3>2
    <3>4. results' = <<>>
      BY <1>2, <3>3, EmptySeq
    <3> QED BY <1>4, <1>6, <3>3, <3>4, FS_EmptySet
  <2>3. gathered' # 0 /\ gathered' <= dispatched'
    BY <1>1, <1>4
  <2> QED BY <1>1, <1>4, <1>6, <2>1, <2>2, <2>3 DEF AnswersCounted
<1>8. ThreadsOfTheBatch'
  BY <1>1 DEF PoolInv, ThreadsOfTheBatch, AtWork
<1>9. /\ \A t \in WorkHeld' : t \in WorkHeld
      /\ ~h.failed => \A t \in WorkHeld : t \in WorkHeld'
  BY <1>1, <1>2, <1>3 DEF WorkHeld
<1>10. EachOnce'
  BY <1>1, <1>9 DEF PoolInv, EachOnce, Fetching
<1>11. PanicsReported'
  BY <1>1, <1>2 DEF PoolInv, PanicsReported
<1>12. NoneForgotten'
  <2>1. h.failed => batch \in struck
    BY <1>2 DEF PoolInv, PanicsReported
  <2>2. ~h.failed => next[batch] > size
    BY <1>2, <1>4 DEF PoolInv, NoneForgotten
  <2>3. gathered' > 0
    BY <1>1, <1>4
  <2>4. ASSUME NEW r \in 1..size, r <= next[batch]
        PROVE  \/ r \in dead \/ batch \in struck
               \/ \E t \in WorkHeld' : t[2] = r
               \/ \E w \in Pool!Workers : Fetching(w, r)
    BY <1>4, <1>9, <2>1, <2>4 DEF PoolInv, NoneForgotten
  <2>5. \A a \in Sent(results)' : a.failed \/ next[batch] > size
    BY <1>2, <1>4 DEF PoolInv, NoneForgotten
  <2>6. \A w \in Pool!Workers : thread[w].at = "send" => next[batch] > size
    BY <1>4 DEF PoolInv, NoneForgotten
  <2> QED BY <1>1, <2>2, <2>3, <2>4, <2>5, <2>6 DEF NoneForgotten, Fetching
<1> QED BY <1>5, <1>7, <1>8, <1>10, <1>11, <1>12 DEF PoolInv

\* A thread takes its command.
LEMMA ReceiveKeeps ==
  ASSUME PoolInv, NEW w \in Pool!Workers, Pool!Receive(w) \/ Pool!Disconnected(w)
  PROVE  PoolInv'
<1>1. /\ thread[w].at = "wait"
      /\ UNCHANGED <<caller, Pool!collect, spawned, next, dead, results, panics, struck>>
  BY DEF Pool!Receive, Pool!Disconnected, Pool!Is
<1>2. PICK t : thread' = [thread EXCEPT ![w] = t]
  BY DEF Pool!Receive, Pool!Disconnected
<1>3. thread[w] = Pool!Idle /\ thread[w] \in PoolThreads /\ batch \in 0..MaxBatches
  BY <1>1 DEF PoolInv, ThreadsOfTheBatch, PoolTyped
<1>4. thread'[w] = t /\ \A v \in Pool!Workers : v # w => thread'[v] = thread[v]
  BY <1>2 DEF PoolInv, PoolTyped
<1>5. \/ /\ commands[w] = "run" /\ t = [Pool!Idle EXCEPT !.at = "next", !.batch = batch]
      \/ t = [Pool!Idle EXCEPT !.at = "ended"] /\ (commands[w] = "shutdown" \/ caller = "join")
         /\ commands[w] # "run"
  BY <1>3, <1>4 DEF Pool!Receive, Pool!Disconnected, PoolInv, PoolTyped
<1>6. /\ commands' \in [Pool!Workers -> {"none", "run", "shutdown"}] /\ commands'[w] = "none"
      /\ \A v \in Pool!Workers : v # w => commands'[v] = commands[v]
  BY DEF Pool!Receive, Pool!Disconnected, PoolInv, PoolTyped
<1>7. /\ t \in PoolThreads /\ t.found = {} /\ t.at \in {"next", "ended"}
      /\ t.at = "next" => commands[w] = "run" /\ t.batch = batch
      /\ t.at = "ended" => commands[w] # "run" /\ (commands[w] = "shutdown" \/ caller = "join")
  BY <1>3, <1>5 DEF Pool!Idle, PoolThreads, WorkPlaces
<1> HIDE DEF Pool!Idle
<1>8. PoolTyped'
  BY <1>1, <1>2, <1>6, <1>7 DEF PoolInv, PoolTyped, Pool!collect
<1>9. Busy' = Busy
  <2>1. w \in Busy <=> commands[w] = "run"
    BY <1>1 DEF Busy, AtWork
  <2>2. w \in Busy' <=> t.at = "next"
    BY <1>4, <1>6, <1>7 DEF Busy, AtWork
  <2>3. \A v \in Pool!Workers : v # w => (v \in Busy <=> v \in Busy')
    BY <1>4, <1>6 DEF Busy, AtWork
  <2>4. w \in Busy <=> w \in Busy'
    BY <1>7, <2>1, <2>2
  <2> QED BY <2>3, <2>4 DEF Busy
<1>10. AnswersCounted'
  BY <1>1, <1>9 DEF PoolInv, AnswersCounted, Pool!collect, Pool!Active
<1>11. ThreadsOfTheBatch'
  <2>1. t.at = "next" => batch # 0
    <3>1. t.at = "next" => w \in Busy
      BY <1>7 DEF Busy
    <3> QED BY <3>1 DEF PoolInv, AnswersCounted
  <2>2. t.at = "ended" => caller \in {"join", "gone"}
    BY <1>7 DEF PoolInv, ThreadsOfTheBatch
  <2> QED
    BY <1>1, <1>4, <1>6, <1>7, <2>1, <2>2 DEF PoolInv, ThreadsOfTheBatch, AtWork, Pool!collect
<1>12. WorkHeld' = WorkHeld
  <2>1. thread[w].found = {} /\ thread'[w].found = {}
    BY <1>3, <1>4, <1>7 DEF Pool!Idle
  <2> QED BY <1>1, <1>4, <2>1 DEF WorkHeld, Pool!collect
<1>13. \A v \in Pool!Workers : \A p \in {"fetch", "fail", "send"} : thread'[v].at = p <=> (thread[v].at = p /\ v # w)
  BY <1>1, <1>4, <1>7
<1>14. EachOnce'
  BY <1>1, <1>4, <1>12, <1>13 DEF PoolInv, EachOnce, Fetching, Pool!collect
<1>15. PanicsReported'
  BY <1>1, <1>13 DEF PoolInv, PanicsReported, Pool!collect
<1>16. NoneForgotten'
  BY <1>1, <1>4, <1>12, <1>13 DEF PoolInv, NoneForgotten, Fetching, Pool!collect
<1> QED BY <1>8, <1>10, <1>11, <1>14, <1>15, <1>16 DEF PoolInv

\* A thread that goes on with its work changes nothing in the channels.
LEMMA WorkGoesOn ==
  ASSUME PoolInv, NEW w \in Pool!Workers, AtWork(w),
         NEW t \in PoolThreads, thread' = [thread EXCEPT ![w] = t],
         t.at \in {"next", "fetch", "send", "fail"}, t.batch = thread[w].batch,
         UNCHANGED <<caller, Pool!collect, spawned, commands, results>>
  PROVE  AnswersCounted' /\ ThreadsOfTheBatch'
<1>1. thread'[w] = t /\ \A v \in Pool!Workers : v # w => thread'[v] = thread[v]
  BY DEF PoolInv, PoolTyped
<1>2. Busy' = Busy
  BY <1>1 DEF Busy, AtWork
<1>3. AnswersCounted'
  BY <1>2 DEF PoolInv, AnswersCounted, Pool!collect, Pool!Active
<1>4. ThreadsOfTheBatch'
  BY <1>1 DEF PoolInv, ThreadsOfTheBatch, AtWork, Pool!collect
<1> QED BY <1>3, <1>4

\* What a thread at work knows.
LEMMA Worker ==
  ASSUME PoolInv, NEW w \in Pool!Workers, AtWork(w)
  PROVE  /\ thread[w] \in PoolThreads /\ thread[w].batch = batch /\ batch \in 1..MaxBatches
         /\ next[batch] \in Nat /\ size \in Nat /\ caller \in {"dispatch", "gather"}
<1>1. thread[w] \in PoolThreads /\ thread[w].batch = batch /\ batch # 0
  BY DEF PoolInv, PoolTyped, ThreadsOfTheBatch
<1>2. batch \in 1..MaxBatches
  BY <1>1 DEF PoolInv, PoolTyped
<1>3. w \in Busy
  BY DEF Busy
<1> QED BY <1>1, <1>2, <1>3 DEF PoolInv, PoolTyped, AnswersCounted

\* fetch_add: the claimed request is new.
LEMMA ClaimKeeps ==
  ASSUME PoolInv, NEW w \in Pool!Workers, Pool!Claim(w)
  PROVE  PoolInv'
<1> DEFINE r == next[batch] + 1
           t == [thread[w] EXCEPT !.request = r,
                   !.at = IF r > size THEN "send" ELSE IF r \in dead THEN "next" ELSE "fetch"]
<1>1. AtWork(w) /\ thread[w].at = "next"
  BY DEF Pool!Claim, Pool!Is, AtWork
<1>2. /\ thread[w] \in PoolThreads /\ thread[w].batch = batch /\ batch \in 1..MaxBatches
      /\ next[batch] \in Nat /\ size \in Nat
  BY <1>1, Worker
<1>3. /\ next' = [next EXCEPT ![batch] = r] /\ thread' = [thread EXCEPT ![w] = t]
      /\ UNCHANGED <<caller, Pool!collect, spawned, dead, commands, results, panics, struck>>
  BY <1>2 DEF Pool!Claim, PoolThreads
<1>4. /\ t \in PoolThreads /\ t.batch = batch /\ t.request = r /\ t.found = thread[w].found
      /\ t.at = (IF r > size THEN "send" ELSE IF r \in dead THEN "next" ELSE "fetch")
  <2> DEFINE p == IF r > size THEN "send" ELSE IF r \in dead THEN "next" ELSE "fetch"
  <2>1. r \in Nat /\ p \in WorkPlaces
    BY <1>2 DEF WorkPlaces
  <2> HIDE DEF r, p
  <2>2. t = [thread[w] EXCEPT !.request = r, !.at = p]
    BY DEF p
  <2>3. t \in PoolThreads /\ t.batch = batch /\ t.request = r /\ t.found = thread[w].found /\ t.at = p
    BY <1>2, <2>1, <2>2 DEF PoolThreads
  <2> QED BY <2>3 DEF p
<1> HIDE DEF t
<1>5. thread'[w] = t /\ \A v \in Pool!Workers : v # w => thread'[v] = thread[v]
  BY <1>3 DEF PoolInv, PoolTyped
<1>6. PoolTyped'
  BY <1>2, <1>3, <1>4 DEF PoolInv, PoolTyped, Pool!collect
<1>7. AnswersCounted' /\ ThreadsOfTheBatch'
  BY <1>1, <1>2, <1>3, <1>4, WorkGoesOn
<1>8. WorkHeld' = WorkHeld
  BY <1>3, <1>4, <1>5 DEF WorkHeld, Pool!collect
<1>9. next'[batch] = r /\ \A b \in 1..MaxBatches : b # batch => next'[b] = next[b]
  BY <1>2, <1>3 DEF PoolInv, PoolTyped
<1> HIDE DEF r
<1>10. r \in Nat /\ r > next[batch] /\ \A q \in Nat : q <= next[batch] <=> q < r
  BY <1>2 DEF r
<1>11. ASSUME NEW u \in WorkHeld PROVE u[2] \in Nat /\ u[2] <= next[batch] /\ u[2] # r /\ u[2] <= r
  BY <1>2, <1>10 DEF PoolInv, EachOnce
<1>12. ASSUME NEW v \in Pool!Workers, v # w, thread[v].at = "fetch"
       PROVE  thread[v].request \in Nat /\ thread[v].request <= next[batch]
              /\ thread[v].request # r /\ thread[v].request <= r
  <2>1. thread[v].request \in 1..size /\ thread[v].request <= next[batch]
    BY <1>12 DEF PoolInv, EachOnce
  <2> QED BY <1>2, <1>10, <2>1
<1>13. UNCHANGED <<batch, size, taken, error, gathered>>
  BY <1>3 DEF Pool!collect
<1>14. EachOnce'
  <2>1. \A b \in 1..MaxBatches : b > batch => next'[b] = 0
    BY <1>9, <1>2 DEF PoolInv, EachOnce
  <2>2. \A u \in WorkHeld' : u[1] = batch /\ u[2] \in 1..size /\ batch # 0 /\ u[2] <= next'[batch]
    BY <1>8, <1>9, <1>11 DEF PoolInv, EachOnce
  <2>3. \A u, v \in WorkHeld' : u[2] = v[2] => u = v
    BY <1>8 DEF PoolInv, EachOnce
  <2>4. ASSUME NEW v \in Pool!Workers, thread'[v].at = "fetch"
        PROVE  /\ thread'[v].request \in 1..size /\ thread'[v].request <= next'[batch]
               /\ \A u \in WorkHeld' : u[2] # thread'[v].request
               /\ \A x \in Pool!Workers : Fetching(x, thread[v].request)' => x = v
    <3>1. CASE v = w
      <4>1. thread'[v].request = r /\ r \in 1..size
        BY <1>2, <1>4, <1>5, <1>10, <2>4, <3>1 DEF r
      <4>2. \A x \in Pool!Workers : thread'[x].at = "fetch" /\ thread'[x].request = r => x = w
        BY <1>5, <1>12
      <4> QED BY <1>8, <1>9, <1>10, <1>11, <3>1, <4>1, <4>2 DEF Fetching
    <3>2. CASE v # w
      <4>1. thread'[v] = thread[v] /\ thread[v].at = "fetch"
        BY <1>5, <2>4, <3>2
      <4>2. \A x \in Pool!Workers : thread'[x].at = "fetch" /\ thread'[x].request = thread[v].request => x = v
        BY <1>4, <1>5, <1>12, <3>2, <4>1 DEF PoolInv, EachOnce, Fetching
      <4> QED BY <1>8, <1>9, <1>12, <3>2, <4>1, <4>2 DEF PoolInv, EachOnce, Fetching
    <3> QED BY <3>1, <3>2
  <2> QED BY <1>13, <2>1, <2>2, <2>3, <2>4 DEF EachOnce
<1>15. PanicsReported'
  BY <1>1, <1>3, <1>4, <1>5, <1>13 DEF PoolInv, PanicsReported
<1>16. NoneForgotten'
  <2>1. ASSUME NEW q \in 1..size, q <= next'[batch]
        PROVE  \/ q \in dead \/ batch \in struck
               \/ \E u \in WorkHeld' : u[2] = q
               \/ \E v \in Pool!Workers : Fetching(v, q)'
    <3>1. CASE q = r
      BY <1>2, <1>4, <1>5, <3>1 DEF Fetching
    <3>2. CASE q # r
      <4>1. q <= next[batch]
        BY <1>2, <1>9, <2>1, <3>2 DEF r
      <4>2. \/ q \in dead \/ batch \in struck
            \/ \E u \in WorkHeld : u[2] = q
            \/ \E v \in Pool!Workers : Fetching(v, q)
        BY <1>2, <4>1 DEF PoolInv, NoneForgotten
      <4>3. \A v \in Pool!Workers : Fetching(v, q) => Fetching(v, q)'
        BY <1>1, <1>5 DEF Fetching
      <4> QED BY <1>8, <4>2, <4>3
    <3> QED BY <3>1, <3>2
  <2>2. \A v \in Pool!Workers : thread'[v].at = "send" => next'[batch] > size
    BY <1>2, <1>4, <1>5, <1>9, <1>10 DEF PoolInv, NoneForgotten
  <2>3. \A a \in Sent(results) : a.failed \/ next'[batch] > size
    BY <1>2, <1>9, <1>10 DEF PoolInv, NoneForgotten
  <2>4. gathered > 0 => error \/ next'[batch] > size
    BY <1>2, <1>9, <1>10 DEF PoolInv, NoneForgotten
  <2> QED BY <1>2, <1>3, <1>13, <2>1, <2>2, <2>3, <2>4 DEF PoolInv, NoneForgotten
<1> QED BY <1>6, <1>7, <1>14, <1>15, <1>16 DEF PoolInv

\* The icons of a window are there, or its thread panics, or it goes on to answer.
LEMMA FetchKeeps ==
  ASSUME PoolInv, NEW w \in Pool!Workers, Pool!Fetch(w)
  PROVE  PoolInv'
<1> DEFINE q == thread[w].request
           i == <<batch, q, w>>
           t == [thread[w] EXCEPT !.at = "next",
                   !.found = IF q \in dead THEN thread[w].found ELSE thread[w].found \union {i}]
<1>1. AtWork(w) /\ thread[w].at = "fetch"
  BY DEF Pool!Fetch, Pool!Is, AtWork
<1>2. /\ thread[w] \in PoolThreads /\ thread[w].batch = batch /\ batch \in 1..MaxBatches
      /\ next[batch] \in Nat /\ size \in Nat
  BY <1>1, Worker
<1>3. /\ thread' = [thread EXCEPT ![w] = t]
      /\ UNCHANGED <<caller, Pool!collect, spawned, next, dead, commands, results, panics, struck>>
  BY <1>2 DEF Pool!Fetch, PoolThreads
<1>4. q \in 1..size /\ q <= next[batch] /\ \A u \in WorkHeld : u[2] # q
  BY <1>1 DEF PoolInv, EachOnce
<1>5. i \in Icon /\ i[1] = batch /\ i[2] = q
  BY <1>2, <1>4 DEF Icon
<1> HIDE DEF i
<1>6. /\ t \in PoolThreads /\ t.batch = batch /\ t.at = "next"
      /\ t.found = (IF q \in dead THEN thread[w].found ELSE thread[w].found \union {i})
  BY <1>2, <1>5 DEF PoolThreads, WorkPlaces
<1> HIDE DEF t
<1>7. thread'[w] = t /\ \A v \in Pool!Workers : v # w => thread'[v] = thread[v]
  BY <1>3 DEF PoolInv, PoolTyped
<1>8. PoolTyped'
  BY <1>3, <1>6 DEF PoolInv, PoolTyped, Pool!collect
<1>9. AnswersCounted' /\ ThreadsOfTheBatch'
  BY <1>1, <1>2, <1>3, <1>6, WorkGoesOn
<1>10. UNCHANGED <<batch, size, taken, error, gathered>>
  BY <1>3 DEF Pool!collect
<1>11. WorkHeld' = IF q \in dead THEN WorkHeld ELSE WorkHeld \union {i}
  BY <1>3, <1>5, <1>6, <1>7, <1>10 DEF WorkHeld
<1>12. \A v \in Pool!Workers : \A p \in {"fetch", "fail", "send"} :
         thread'[v].at = p <=> (thread[v].at = p /\ v # w) \/ (p # "fetch" /\ thread[v].at = p)
  BY <1>1, <1>6, <1>7
<1> HIDE DEF q
<1>13. EachOnce'
  <2>1. \A u \in WorkHeld' : u[1] = batch /\ u[2] \in 1..size /\ batch # 0 /\ u[2] <= next[batch]
    BY <1>2, <1>4, <1>5, <1>11 DEF PoolInv, EachOnce
  <2>2. \A u, v \in WorkHeld' : u[2] = v[2] => u = v
    BY <1>4, <1>5, <1>11 DEF PoolInv, EachOnce
  <2>3. ASSUME NEW v \in Pool!Workers, thread'[v].at = "fetch"
        PROVE  /\ thread'[v].request \in 1..size /\ thread'[v].request <= next[batch]
               /\ \A u \in WorkHeld' : u[2] # thread'[v].request
               /\ \A x \in Pool!Workers : Fetching(x, thread[v].request)' => x = v
    <3>1. v # w /\ thread'[v] = thread[v] /\ thread[v].at = "fetch"
      BY <1>6, <1>7, <2>3
    <3>2. thread[v].request # q
      BY <1>1, <3>1 DEF PoolInv, EachOnce, Fetching, q
    <3>3. \A x \in Pool!Workers : thread'[x].at = "fetch" /\ thread'[x].request = thread[v].request => x = v
      BY <1>6, <1>7, <3>1 DEF PoolInv, EachOnce, Fetching
    <3> QED BY <1>5, <1>11, <3>1, <3>2, <3>3 DEF PoolInv, EachOnce, Fetching
  <2> QED BY <1>3, <1>10, <2>1, <2>2, <2>3 DEF EachOnce, PoolInv
<1>14. PanicsReported'
  BY <1>3, <1>10, <1>12 DEF PoolInv, PanicsReported
<1>15. NoneForgotten'
  <2>1. ASSUME NEW p \in 1..size, p <= next[batch]
        PROVE  \/ p \in dead \/ batch \in struck
               \/ \E u \in WorkHeld' : u[2] = p
               \/ \E v \in Pool!Workers : Fetching(v, p)'
    <3>1. CASE p = q
      BY <1>5, <1>11, <3>1
    <3>2. CASE p # q
      <4>1. \/ p \in dead \/ batch \in struck
            \/ \E u \in WorkHeld : u[2] = p
            \/ \E v \in Pool!Workers : Fetching(v, p)
        BY <1>2, <2>1 DEF PoolInv, NoneForgotten
      <4>2. \A v \in Pool!Workers : Fetching(v, p) => Fetching(v, p)'
        BY <1>7, <3>2 DEF Fetching, q
      <4> QED BY <1>11, <4>1, <4>2
    <3> QED BY <3>1, <3>2
  <2> QED BY <1>2, <1>3, <1>10, <1>12, <2>1 DEF PoolInv, NoneForgotten
<1> QED BY <1>8, <1>9, <1>13, <1>14, <1>15 DEF PoolInv

\* A thread that panics keeps what it found, for the answer that tells of it.
LEMMA PanicKeeps ==
  ASSUME PoolInv, NEW w \in Pool!Workers, Pool!Panic(w)
  PROVE  PoolInv'
<1> DEFINE t == [thread[w] EXCEPT !.at = "fail"]
<1>1. AtWork(w) /\ thread[w].at = "fetch"
  BY DEF Pool!Panic, Pool!Is, AtWork
<1>2. /\ thread[w] \in PoolThreads /\ thread[w].batch = batch /\ batch \in 1..MaxBatches
      /\ next[batch] \in Nat /\ size \in Nat
  BY <1>1, Worker
<1>3. /\ thread' = [thread EXCEPT ![w] = t] /\ panics' = panics + 1 /\ struck' = struck \union {batch}
      /\ UNCHANGED <<caller, Pool!collect, spawned, next, dead, commands, results>>
  BY <1>2 DEF Pool!Panic, PoolThreads
<1>4. t \in PoolThreads /\ t.batch = batch /\ t.at = "fail" /\ t.found = thread[w].found
  BY <1>2 DEF PoolThreads, WorkPlaces
<1> HIDE DEF t
<1>5. thread'[w] = t /\ \A v \in Pool!Workers : v # w => thread'[v] = thread[v]
  BY <1>3 DEF PoolInv, PoolTyped
<1>6. UNCHANGED <<batch, size, taken, error, gathered>>
  BY <1>3 DEF Pool!collect
<1>7. PoolTyped'
  BY <1>2, <1>3, <1>4 DEF PoolInv, PoolTyped, Pool!collect
<1>8. AnswersCounted' /\ ThreadsOfTheBatch'
  BY <1>1, <1>2, <1>3, <1>4, WorkGoesOn
<1>9. WorkHeld' = WorkHeld
  BY <1>3, <1>4, <1>5, <1>6 DEF WorkHeld
<1>10. \A v \in Pool!Workers : thread'[v].at \in {"fetch", "send"} => thread'[v] = thread[v]
  BY <1>4, <1>5
<1>11. EachOnce'
  BY <1>3, <1>6, <1>9, <1>10 DEF PoolInv, EachOnce, Fetching
<1>12. PanicsReported'
  BY <1>3, <1>4, <1>5, <1>6 DEF PanicsReported
<1>13. NoneForgotten'
  BY <1>3, <1>6, <1>10 DEF PoolInv, NoneForgotten
<1> QED BY <1>7, <1>8, <1>11, <1>12, <1>13 DEF PoolInv

\* What a thread found goes from the thread to the channel.
LEMMA SendKeeps ==
  ASSUME PoolInv, NEW w \in Pool!Workers, Pool!Send(w)
  PROVE  PoolInv'
<1> DEFINE a == [failed |-> thread[w].at = "fail", found |-> thread[w].found]
<1>1. AtWork(w) /\ thread[w].at \in {"send", "fail"}
  BY DEF Pool!Send, Pool!Is, AtWork
<1>2. /\ thread[w] \in PoolThreads /\ thread[w].batch = batch /\ batch \in 1..MaxBatches
      /\ next[batch] \in Nat /\ size \in Nat /\ caller \in {"dispatch", "gather"}
  BY <1>1, Worker
<1>3. /\ thread' = [thread EXCEPT ![w] = Pool!Idle] /\ results' = Append(results, a)
      /\ UNCHANGED <<caller, Pool!collect, spawned, next, dead, commands, panics, struck>>
  BY DEF Pool!Send
<1>4. a \in Answers /\ a.found = thread[w].found /\ (a.failed <=> thread[w].at = "fail")
  BY <1>2 DEF Answers, PoolThreads
<1> HIDE DEF a
<1>5. /\ results' \in Seq(Answers) /\ Len(results') = Len(results) + 1 /\ Len(results) \in Nat
      /\ Sent(results)' = Sent(results) \union {a}
  BY <1>3, <1>4, AppendSent DEF PoolInv, PoolTyped
<1>6. Pool!Idle \in PoolThreads /\ Pool!Idle.at = "wait" /\ Pool!Idle.found = {}
  BY PoolAssumption DEF Pool!Idle, PoolThreads, WorkPlaces
<1>7. thread'[w] = Pool!Idle /\ \A v \in Pool!Workers : v # w => thread'[v] = thread[v]
  BY <1>3 DEF PoolInv, PoolTyped
<1>8. UNCHANGED <<batch, size, taken, error, gathered, dispatched>>
  BY <1>3 DEF Pool!collect
<1>9. PoolTyped'
  BY <1>3, <1>5, <1>6, <1>8 DEF PoolInv, PoolTyped
<1>10. commands[w] = "none"
  BY <1>1 DEF PoolInv, ThreadsOfTheBatch
<1>11. w \in Busy /\ Busy' = Busy \ {w}
  <2>1. w \in Busy
    BY <1>1 DEF Busy
  <2>2. \A v \in Pool!Workers : v \in Busy' <=> v \in Busy /\ v # w
    BY <1>3, <1>6, <1>7, <1>10 DEF Busy, AtWork
  <2> QED BY <2>1, <2>2 DEF Busy
<1>12. /\ Cardinality(Busy') = Cardinality(Busy) - 1 /\ Cardinality(Busy) \in Nat
  <2>1. IsFiniteSet(Busy) /\ Cardinality(Busy) \in Nat
    BY BusyFinite DEF Busy
  <2> QED BY <1>11, <2>1, FS_RemoveElement
<1>13. AnswersCounted'
  <2>1. gathered \in Nat /\ gathered + Len(results) + Cardinality(Busy) = dispatched
    BY <1>2 DEF PoolInv, PoolTyped, AnswersCounted
  <2>2. gathered' + Len(results') + Cardinality(Busy') = dispatched'
    BY <1>5, <1>8, <1>12, <2>1
  <2> QED BY <1>2, <1>3, <1>8, <1>11, <2>2 DEF PoolInv, AnswersCounted, Pool!Active
<1>14. ThreadsOfTheBatch'
  <2>1. ASSUME NEW v \in Pool!Workers
        PROVE  /\ AtWork(v)' => thread'[v].batch = batch /\ commands[v] = "none" /\ batch # 0
               /\ thread'[v].at = "wait" => thread'[v] = Pool!Idle
               /\ thread'[v].at = "ended" => thread'[v].found = {}
               /\ caller \notin {"join", "gone"} => thread'[v].at # "ended" /\ commands[v] # "shutdown"
    <3>1. CASE v = w
      BY <1>2, <1>6, <1>7, <1>10, <3>1 DEF AtWork
    <3>2. CASE v # w
      BY <1>7, <3>2 DEF PoolInv, ThreadsOfTheBatch, AtWork
    <3> QED BY <3>1, <3>2
  <2> QED BY <1>3, <1>8, <2>1 DEF ThreadsOfTheBatch
<1>15. WorkHeld' = WorkHeld
  <2>1. ASSUME NEW x \in Icon PROVE x \in WorkHeld <=> x \in WorkHeld'
    <3>1. (\E v \in Pool!Workers : x \in thread[v].found)
            <=> (x \in a.found \/ \E v \in Pool!Workers : x \in thread'[v].found)
      BY <1>4, <1>6, <1>7
    <3> QED BY <1>5, <1>8, <3>1 DEF WorkHeld
  <2> QED BY <2>1 DEF WorkHeld
<1>16. \A v \in Pool!Workers : thread'[v].at \in {"fetch", "fail", "send"} => thread'[v] = thread[v] /\ v # w
  BY <1>6, <1>7
<1>17. EachOnce'
  BY <1>3, <1>8, <1>15, <1>16 DEF PoolInv, EachOnce, Fetching
<1>18. PanicsReported'
  <2>1. a.failed => batch \in struck
    BY <1>4 DEF PoolInv, PanicsReported
  <2>2. ASSUME batch \in struck
        PROVE  \/ error \/ (\E b \in Sent(results)' : b.failed)
               \/ \E v \in Pool!Workers : thread'[v].at = "fail"
    <3>1. CASE error
      BY <3>1
    <3>2. CASE \E b \in Sent(results) : b.failed
      BY <1>5, <3>2
    <3>3. CASE \E v \in Pool!Workers : thread[v].at = "fail"
      <4>1. PICK v \in Pool!Workers : thread[v].at = "fail"
        BY <3>3
      <4>2. CASE v = w
        BY <1>4, <1>5, <4>1, <4>2
      <4>3. CASE v # w
        BY <1>7, <4>1, <4>3
      <4> QED BY <4>2, <4>3
    <3> QED BY <2>2, <3>1, <3>2, <3>3 DEF PoolInv, PanicsReported
  <2>3. /\ error => batch \in struck
        /\ \A b \in Sent(results)' : b.failed => batch \in struck
        /\ \A v \in Pool!Workers : thread'[v].at = "fail" => batch \in struck
    BY <1>5, <1>16, <2>1 DEF PoolInv, PanicsReported
  <2> QED BY <1>3, <1>8, <2>2, <2>3 DEF PanicsReported
<1>19. NoneForgotten'
  <2>1. ASSUME NEW p \in 1..size, p <= next[batch]
        PROVE  \/ p \in dead \/ batch \in struck
               \/ \E u \in WorkHeld' : u[2] = p
               \/ \E v \in Pool!Workers : Fetching(v, p)'
    <3>1. \/ p \in dead \/ batch \in struck
          \/ \E u \in WorkHeld : u[2] = p
          \/ \E v \in Pool!Workers : Fetching(v, p)
      BY <1>2, <2>1 DEF PoolInv, NoneForgotten
    <3>2. \A v \in Pool!Workers : Fetching(v, p) => Fetching(v, p)'
      BY <1>1, <1>7 DEF Fetching
    <3> QED BY <1>15, <3>1, <3>2
  <2>2. a.failed \/ next[batch] > size
    BY <1>1, <1>2, <1>4 DEF PoolInv, NoneForgotten
  <2>3. \A b \in Sent(results)' : b.failed \/ next[batch] > size
    BY <1>2, <1>5, <2>2 DEF PoolInv, NoneForgotten
  <2> QED BY <1>2, <1>3, <1>8, <1>16, <2>1, <2>3 DEF PoolInv, NoneForgotten
<1> QED BY <1>9, <1>13, <1>14, <1>17, <1>18, <1>19 DEF PoolInv

\* A window asked for its icon dies.
LEMMA DeathKeeps ==
  ASSUME PoolInv, NEW r \in 1..MaxRequests, Pool!WindowDies(r)
  PROVE  PoolInv'
<1>1. /\ dead' = dead \union {r}
      /\ UNCHANGED <<caller, Pool!collect, spawned, next, commands, thread, results, panics, struck>>
  BY DEF Pool!WindowDies
<1>2. PoolTyped'
  BY <1>1 DEF PoolInv, PoolTyped, Pool!collect
<1>3. WorkHeld' = WorkHeld /\ Busy' = Busy
  BY <1>1 DEF WorkHeld, Busy, AtWork, Pool!collect
<1>4. AnswersCounted' /\ ThreadsOfTheBatch'
  BY <1>1, <1>3 DEF PoolInv, AnswersCounted, Pool!Active, ThreadsOfTheBatch, AtWork, Pool!collect
<1>5. EachOnce' /\ PanicsReported'
  BY <1>1, <1>3 DEF PoolInv, EachOnce, Fetching, PanicsReported, Pool!collect
<1>6. NoneForgotten'
  BY <1>1, <1>3 DEF PoolInv, NoneForgotten, Fetching, Pool!collect
<1> QED BY <1>2, <1>4, <1>5, <1>6 DEF PoolInv

\* Every step.
LEMMA PoolNextKeeps == PoolInv /\ [Pool!Next]_(Pool!vars) => PoolInv'
<1> SUFFICES ASSUME PoolInv, [Pool!Next]_(Pool!vars) PROVE PoolInv'
  OBVIOUS
<1>1. CASE Pool!Spawn \/ Pool!SpawnFails \/ Pool!Drop \/ Pool!Join
  BY <1>1, RestKeeps
<1>2. ASSUME NEW n \in 0..MaxRequests, Pool!Begin(n) PROVE PoolInv'
  BY <1>2, BeginKeeps
<1>3. CASE Pool!Dispatch
  BY <1>3, DispatchKeeps
<1>4. CASE Pool!Gather
  BY <1>4, GatherKeeps
<1>5. ASSUME NEW w \in Pool!Workers, Pool!Step(w) PROVE PoolInv'
  BY <1>5, ReceiveKeeps, ClaimKeeps, FetchKeeps, PanicKeeps, SendKeeps DEF Pool!Step
<1>6. ASSUME NEW r \in 1..MaxRequests, Pool!WindowDies(r) PROVE PoolInv'
  BY <1>6, DeathKeeps
<1>7. CASE UNCHANGED Pool!vars
  BY <1>7 DEF Pool!vars, Pool!collect, Pool!pool, PoolInv, PoolTyped, AnswersCounted, Pool!Active, ThreadsOfTheBatch,
              AtWork, Busy, WorkHeld, EachOnce, Fetching, PanicsReported, NoneForgotten
<1> QED
  BY <1>1, <1>2, <1>3, <1>4, <1>5, <1>6, <1>7 DEF Pool!Next, Pool!Caller

\* What the invariant says of a batch that is answered, and of a pool between two.
LEMMA PoolInvSuffices == PoolInv => Pool!BatchIsWhole /\ Pool!NothingIsLeft
<1> SUFFICES ASSUME PoolInv PROVE Pool!BatchIsWhole /\ Pool!NothingIsLeft
  OBVIOUS
<1>1. Pool!BatchIsWhole
  <2> SUFFICES ASSUME caller = "idle", batch # 0
               PROVE  /\ error <=> batch \in struck
                      /\ ~error => \A r \in 1..size \ dead : \E t \in taken : t[2] = r
                      /\ \A t \in taken : t[1] = batch /\ t[2] \in 1..size
                      /\ \A t, u \in taken : t[2] = u[2] => t = u
    BY DEF Pool!BatchIsWhole, Pool!Answered
  <2>1. /\ Sent(results) = {} /\ WorkHeld = taken
        /\ \A w \in Pool!Workers : thread[w].at \in {"wait", "ended"}
    BY AtRest
  <2>2. error <=> batch \in struck
    BY <2>1 DEF PoolInv, PoolTyped, PanicsReported
  <2>3. ASSUME ~error, NEW r \in 1..size \ dead PROVE \E t \in taken : t[2] = r
    <3>1. next[batch] > size /\ next[batch] \in Nat /\ size \in Nat
      BY <2>3 DEF PoolInv, PoolTyped, NoneForgotten
    <3>2. r <= next[batch]
      BY <3>1
    <3> QED BY <2>1, <2>2, <2>3, <3>2 DEF PoolInv, NoneForgotten, Fetching
  <2> QED BY <2>1, <2>2, <2>3 DEF PoolInv, EachOnce
<1>2. ASSUME caller = "idle"
      PROVE  results = <<>> /\ \A w \in Pool!Workers : thread[w] = Pool!Idle /\ commands[w] = "none"
  <2>1. ASSUME NEW w \in Pool!Workers PROVE thread[w] = Pool!Idle /\ commands[w] = "none"
    <3>1. thread[w].at \in {"wait", "ended"} /\ w \notin Busy
      BY <1>2, AtRest
    <3>2. thread[w].at # "ended" /\ commands[w] # "shutdown"
      BY <1>2 DEF PoolInv, ThreadsOfTheBatch
    <3> QED BY <3>1, <3>2 DEF PoolInv, PoolTyped, ThreadsOfTheBatch, Busy
  <2> QED BY <1>2, <2>1, AtRest
<1>3. ASSUME NEW w \in Pool!Workers, thread[w].at \in {"send", "fail"} PROVE Len(results) < WorkerCount
  <2>1. w \in Busy /\ caller \in {"dispatch", "gather"}
    BY <1>3, Worker DEF Busy, AtWork
  <2>2. /\ gathered + Len(results) + Cardinality(Busy) = dispatched
        /\ gathered \in Nat /\ Len(results) \in Nat /\ dispatched \in 0..WorkerCount
    BY <2>1 DEF PoolInv, PoolTyped, AnswersCounted
  <2>3. Cardinality(Busy) \in Nat /\ Cardinality(Busy) # 0
    BY <2>1, BusyFinite, FS_EmptySet DEF Busy
  <2> QED BY <2>2, <2>3, PoolAssumption
<1> QED BY <1>1, <1>2, <1>3 DEF Pool!NothingIsLeft

\* How many threads there are.
SpawnedInv ==
    /\ spawned \in 0..WorkerCount
    /\ caller = "new" => spawned < WorkerCount
    /\ caller \in {"idle", "dispatch", "gather"} => spawned = WorkerCount

LEMMA SpawnedStart == Pool!Init => SpawnedInv
  BY PoolAssumption DEF Pool!Init, SpawnedInv

LEMMA SpawnedKeeps == SpawnedInv /\ [Pool!Next]_(Pool!vars) => SpawnedInv'
<1> SUFFICES ASSUME SpawnedInv, [Pool!Next]_(Pool!vars) PROVE SpawnedInv'
  OBVIOUS
<1> USE PoolAssumption DEF SpawnedInv
<1>1. CASE Pool!Spawn
  BY <1>1 DEF Pool!Spawn
<1>2. CASE Pool!SpawnFails \/ Pool!Drop \/ Pool!Join
  BY <1>2 DEF Pool!SpawnFails, Pool!Drop, Pool!Join, Pool!pool
<1>3. ASSUME NEW n \in 0..MaxRequests, Pool!Begin(n) PROVE SpawnedInv'
  BY <1>3 DEF Pool!Begin
<1>4. CASE Pool!Dispatch
  BY <1>4 DEF Pool!Dispatch
<1>5. CASE Pool!Gather
  BY <1>5 DEF Pool!Gather
<1>6. ASSUME NEW w \in Pool!Workers, Pool!Step(w) PROVE SpawnedInv'
  BY <1>6 DEF Pool!Step, Pool!Receive, Pool!Disconnected, Pool!Claim, Pool!Fetch, Pool!Panic,
              Pool!Send
<1>7. ASSUME NEW r \in 1..MaxRequests, Pool!WindowDies(r) PROVE SpawnedInv'
  BY <1>7 DEF Pool!WindowDies
<1>8. CASE UNCHANGED Pool!vars
  BY <1>8 DEF Pool!vars, Pool!pool
<1> QED
  BY <1>1, <1>2, <1>3, <1>4, <1>5, <1>6, <1>7, <1>8 DEF Pool!Next, Pool!Caller

\* A thread that owes an answer, or is to end, is not one that waits.
LEMMA NobodyStops == PoolInv /\ SpawnedInv => Pool!SomebodyWorks
<1> SUFFICES ASSUME PoolInv, SpawnedInv, Pool!CallerWaits
             PROVE  \E w \in 1..spawned : ~Pool!ThreadWaits(w)
  BY DEF Pool!SomebodyWorks
<1>0. \A w \in 1..spawned : w \in Pool!Workers
  BY PoolAssumption DEF SpawnedInv, Pool!Workers
<1>1. ASSUME NEW w \in Busy PROVE w \in 1..spawned /\ ~Pool!ThreadWaits(w)
  <2>1. caller \in {"dispatch", "gather"} /\ w \in Pool!Workers
    BY <1>1 DEF PoolInv, AnswersCounted, Busy
  <2>2. w \in 1..spawned
    BY <2>1 DEF SpawnedInv, Pool!Workers
  <2>3. /\ thread[w].at # "ended"
        /\ thread[w].at \in {"wait", "next", "fetch", "send", "fail"}
    BY <2>1 DEF PoolInv, PoolTyped, PoolThreads, WorkPlaces, ThreadsOfTheBatch
  <2>4. commands[w] = "run" \/ thread[w].at # "wait"
    BY <1>1, <2>3 DEF Busy, AtWork
  <2>5. thread[w].at \in {"send", "fail"} => Len(results) < WorkerCount
    BY <2>1, PoolInvSuffices DEF Pool!NothingIsLeft
  <2>6. Len(results) \in Nat
    BY DEF PoolInv, PoolTyped
  <2> QED BY <2>2, <2>3, <2>4, <2>5, <2>6, PoolAssumption DEF Pool!ThreadWaits
<1>2. CASE caller = "dispatch" /\ commands[dispatched + 1] # "none"
  <2>1. dispatched + 1 \in Pool!Workers
    BY <1>2, PoolAssumption DEF PoolInv, PoolTyped, AnswersCounted, Pool!Active, Pool!Workers
  <2>2. commands[dispatched + 1] = "run"
    BY <1>2, <2>1 DEF PoolInv, PoolTyped, ThreadsOfTheBatch
  <2> QED BY <1>1, <2>1, <2>2 DEF Busy
<1>3. CASE caller = "gather" /\ results = <<>>
  <2>1. /\ gathered + Len(results) + Cardinality(Busy) = dispatched /\ gathered < dispatched
        /\ gathered \in Nat /\ dispatched \in Nat /\ Len(results) = 0
    BY <1>3 DEF PoolInv, PoolTyped, AnswersCounted
  <2>2. Busy # {}
    BY <2>1, FS_EmptySet
  <2> QED BY <1>1, <2>2
<1>4. CASE caller = "join" /\ \E w \in 1..spawned : thread[w].at # "ended"
  <2>1. PICK w \in 1..spawned : thread[w].at # "ended"
    BY <1>4
  <2>2. thread[w].at = "wait"
    BY <1>0, <1>4, <2>1, AtRest
  <2> QED BY <1>4, <2>2 DEF Pool!ThreadWaits
<1> QED BY <1>2, <1>3, <1>4 DEF Pool!CallerWaits

\* A batch of icons is answered whole or with an error, and leaves nothing in the
\* pool for the next one, for any number of threads and of windows and whichever
\* threads panic; no thread of the pool and its caller wait for each other
\* (TaskIconExecutor::collect).
THEOREM BatchesAreWhole == ResourcesSpec => []BatchIsWhole
<1> DEFINE Kept == which = "pool" => PoolInv /\ SpawnedInv
<1>1. ResourcesInit => Kept
  BY PoolStart, SpawnedStart DEF ResourcesInit
<1>2. Kept /\ [ResourcesNext]_<<which, vars, affinityVars, applicationsVars, poolVars>> => Kept'
  <2> SUFFICES ASSUME which = "pool", which' = "pool", PoolInv, SpawnedInv,
                      [Pool!Next]_(Pool!vars)
               PROVE  (PoolInv /\ SpawnedInv)'
    BY DEF ResourcesNext, poolVars, Pool!vars, Pool!collect, Pool!pool
  <2> QED
    BY PoolNextKeeps, SpawnedKeeps
<1>3. Kept => BatchIsWhole
  BY PoolInvSuffices, NobodyStops DEF BatchIsWhole
<1> QED
  BY <1>1, <1>2, <1>3, PTL DEF ResourcesSpec

-----------------------------------------------------------------------------
(* Set Affinity.  What the rollback would give back is what each thread     *)
(* began with, because a thread whose handle is held keeps its ID, and none *)
(* is changed twice; what the second look has still to see is all that      *)
(* could be outside the selection.                                          *)

Masks == SUBSET Processors
Stages == {"start", "dialog", "defaults", "mask", "list", "open", "set", "verify", "rollback",
           "restore", "done"}
Entry == [tid : Tids, previous : Masks]
Calls == [at : Stages, selected : Masks, original : Masks, todo : Seq(Tids),
          open : Tids \union {0}, index : Nat, changed : Seq(Entry),
          ok : BOOLEAN, lost : BOOLEAN]

AffineTyped ==
    /\ mask \in [DOMAIN mask -> Masks] /\ DOMAIN mask \subseteq Tids
    /\ IsFiniteSet(DOMAIN mask)
    /\ before = [mask |-> before.mask, defaults |-> before.defaults, late |-> before.late]
    /\ before.mask \in [DOMAIN mask -> Masks] /\ before.defaults \in Masks
    /\ allowed \in Masks /\ assignable \in Masks
    /\ call \in Calls

\* How the stages of the command follow each other, and what the default CPU Sets
\* are meanwhile.
AffineOrder ==
    /\ call.at # "done" => ~call.ok
    /\ call.at \notin {"rollback", "restore", "done"} => ~call.lost
    /\ call.at \notin {"open", "set", "verify", "rollback"} => call.changed = <<>>
    /\ call.at \in {"start", "dialog", "defaults"} => defaults = before.defaults
    /\ call.at \notin {"start", "done"} => call.original = before.defaults
    /\ call.at = "mask" => Affine!SingleGroup /\ defaults = {}
    /\ call.at \in {"list", "open", "set", "verify"} => ~Affine!SingleGroup /\ defaults = call.selected
    /\ call.at = "done" /\ ~call.ok /\ ~call.lost /\ alive => defaults = before.defaults

Entries == DOMAIN call.changed

\* No thread is changed twice.
AffineOnce ==
    /\ \A i, j \in Entries : i # j => call.changed[i].tid # call.changed[j].tid
    /\ call.at \in {"open", "set"} =>
         /\ \A i \in Entries, k \in DOMAIN call.todo : call.changed[i].tid # call.todo[k]
         /\ \A k, l \in DOMAIN call.todo : k # l => call.todo[k] # call.todo[l]
    /\ call.at = "set" =>
         /\ \A i \in Entries : call.changed[i].tid # call.open
         /\ \A k \in DOMAIN call.todo : call.todo[k] # call.open

\* A thread has what it began with, or the rollback knows it.
AffineRestorable ==
    /\ \A i \in Entries : call.changed[i].tid \in DOMAIN mask =>
         before.mask[call.changed[i].tid] = call.changed[i].previous
    /\ ~call.ok /\ ~call.lost =>
         \A t \in DOMAIN mask : mask[t] = before.mask[t] \/ \E i \in Entries : call.changed[i].tid = t

\* A thread changed is inside the selection, and so is one verified.
AffineConfined ==
    /\ call.at \in {"open", "set", "verify"} =>
         \A i \in Entries : call.changed[i].tid \in DOMAIN mask =>
           mask[call.changed[i].tid] \subseteq call.selected
    /\ call.at = "verify" =>
         \A t \in DOMAIN mask \ before.late :
           mask[t] \subseteq call.selected \/ \E k \in DOMAIN call.todo : call.todo[k] = t

AffineInv == /\ AffineTyped /\ AffineOrder /\ AffineOnce /\ AffineRestorable /\ AffineConfined
             /\ Affine!SelectionHolds

AffineRest == UNCHANGED <<cpus, assignable, alive, mask, allowed, defaults, before>>

\* Init.
LEMMA AffineStart == Affine!Init => AffineInv
<1> SUFFICES ASSUME Affine!Init PROVE AffineInv
  OBVIOUS
<1>1. PICK g \in Affine!GroupsOf(allowed) : mask = [t \in {1} |-> Affine!InGroup(allowed, g)]
  BY DEF Affine!Init
<1>2. cpus \in Masks
  BY DEF Affine!Init, Masks
<1>3. assignable \in Masks /\ defaults \in Masks /\ allowed \in Masks
  BY <1>2 DEF Affine!Init, Masks, Affine!InGroup
<1>4. mask \in [{1} -> Masks] /\ DOMAIN mask = {1}
  BY <1>1, <1>3 DEF Affine!InGroup, Masks
<1>5. before = [mask |-> mask, defaults |-> defaults, late |-> {}]
  BY DEF Affine!Init
<1>6. /\ call.at = "start" /\ call.selected = {} /\ call.original = {} /\ call.todo = <<>>
      /\ call.open = 0 /\ call.index = 0 /\ call.changed = <<>> /\ call.ok = FALSE /\ call.lost = FALSE
  BY DEF Affine!Init, Affine!NoCall
<1>7. call \in Calls
  BY DEF Affine!Init, Affine!NoCall, Calls, Stages, Masks
<1>8. AffineTyped
  BY <1>3, <1>4, <1>5, <1>7, FS_Singleton, ThreadsAssumption DEF AffineTyped
<1>9. AffineOrder /\ AffineOnce /\ AffineConfined /\ Affine!SelectionHolds
  BY <1>5, <1>6 DEF AffineOrder, AffineOnce, AffineConfined, Affine!SelectionHolds, Entries
<1>10. AffineRestorable
  BY <1>4, <1>5, <1>6 DEF AffineRestorable, Entries
<1> QED BY <1>8, <1>9, <1>10 DEF AffineInv

\* The threads of the process come and go while the command is under way.
LEMMA ThreadBeginsKeeps == AffineInv /\ Affine!ThreadBegins => AffineInv'
<1> SUFFICES ASSUME AffineInv, Affine!ThreadBegins PROVE AffineInv'
  BY SMTT(60)
<1>1. PICK t \in Tids \ (DOMAIN mask \union foreign \union Affine!Held), u \in DOMAIN mask :
         LET m == Affine!InGroup(allowed, (CHOOSE c \in mask[u] : TRUE)[1]) IN
         /\ m # {}
         /\ mask' = Affine!With(mask, t, m)
         /\ before' = [before EXCEPT !.mask = Affine!With(@, t, m), !.late = @ \union {t}]
  BY DEF Affine!ThreadBegins, Affine!Threads
<1> DEFINE m == Affine!InGroup(allowed, (CHOOSE c \in mask[u] : TRUE)[1])
<1>2. m \in Masks
  BY DEF AffineInv, AffineTyped, Masks, Affine!InGroup
<1>3. /\ mask' = Affine!With(mask, t, m)
      /\ before'.mask = Affine!With(before.mask, t, m)
      /\ before'.late = before.late \union {t} /\ before'.defaults = before.defaults
      /\ before' = [mask |-> before'.mask, defaults |-> before'.defaults, late |-> before'.late]
  BY <1>1 DEF AffineInv, AffineTyped
<1> HIDE DEF m
<1>4. /\ DOMAIN mask' = DOMAIN mask \union {t} /\ mask'[t] = m
      /\ \A v \in DOMAIN mask : mask'[v] = mask[v]
      /\ mask' \in [DOMAIN mask' -> Masks]
  BY <1>1, <1>2, <1>3 DEF Affine!With, AffineInv, AffineTyped
<1>5. /\ before'.mask[t] = m
      /\ \A v \in DOMAIN mask : before'.mask[v] = before.mask[v]
      /\ before'.mask \in [DOMAIN mask' -> Masks]
  BY <1>1, <1>2, <1>3, <1>4 DEF Affine!With, AffineInv, AffineTyped
<1>6. UNCHANGED <<cpus, assignable, alive, allowed, defaults, call>> /\ call.at # "done"
  BY DEF Affine!ThreadBegins, Affine!machine, Affine!Running
<1>7. \A i \in Entries : call.changed[i].tid # t
  BY <1>1 DEF Affine!Held, Affine!Changed, Entries
<1>8. t \notin DOMAIN mask
  BY <1>1
<1>f. IsFiniteSet(DOMAIN mask')
  BY <1>4, FS_AddElement DEF AffineInv, AffineTyped
<1>9. AffineTyped'
  BY <1>1, <1>3, <1>4, <1>5, <1>6, <1>f DEF AffineInv, AffineTyped
<1>10. AffineOrder' /\ AffineOnce'
  BY <1>3, <1>6 DEF AffineInv, AffineOrder, AffineOnce, Entries, Affine!SingleGroup
<1>11. AffineRestorable'
  BY <1>4, <1>5, <1>6, <1>7 DEF AffineInv, AffineRestorable, Entries
<1>12. AffineConfined'
  BY <1>3, <1>4, <1>6, <1>7 DEF AffineInv, AffineConfined, Entries
<1>13. Affine!SelectionHolds'
  BY <1>6 DEF Affine!SelectionHolds
<1> QED BY <1>9, <1>10, <1>11, <1>12, <1>13 DEF AffineInv

\* Without some of its threads everything still holds of those left.
LEMMA ThreadsGone ==
  ASSUME AffineInv, call.at # "done", DOMAIN mask' \subseteq DOMAIN mask,
         mask' = [v \in DOMAIN mask' |-> mask[v]],
         before' = [before EXCEPT !.mask = [v \in DOMAIN mask' |-> before.mask[v]]],
         UNCHANGED <<cpus, assignable, allowed, defaults, call>>
  PROVE  AffineInv'
<1>1. /\ before'.mask = [v \in DOMAIN mask' |-> before.mask[v]]
      /\ before'.late = before.late /\ before'.defaults = before.defaults
      /\ before' = [mask |-> before'.mask, defaults |-> before'.defaults, late |-> before'.late]
  BY DEF AffineInv, AffineTyped
<1>2. \A v \in DOMAIN mask' : mask'[v] = mask[v] /\ before'.mask[v] = before.mask[v]
  BY <1>1
<1>3. mask' \in [DOMAIN mask' -> Masks] /\ before'.mask \in [DOMAIN mask' -> Masks]
  BY <1>1 DEF AffineInv, AffineTyped
<1>4. AffineTyped'
  BY <1>1, <1>3, FS_Subset DEF AffineInv, AffineTyped
<1>5. AffineOrder' /\ AffineOnce'
  BY <1>1 DEF AffineInv, AffineOrder, AffineOnce, Entries, Affine!SingleGroup
<1>6. AffineRestorable'
  BY <1>2 DEF AffineInv, AffineRestorable, Entries
<1>7. AffineConfined'
  BY <1>1, <1>2 DEF AffineInv, AffineConfined, Entries
<1>8. Affine!SelectionHolds'
  BY DEF Affine!SelectionHolds
<1> QED BY <1>4, <1>5, <1>6, <1>7, <1>8 DEF AffineInv

LEMMA ThreadEndsKeeps ==
  ASSUME AffineInv, NEW t, Affine!ThreadEnds(t)
  PROVE  AffineInv'
<1>1. mask' = [v \in DOMAIN mask \ {t} |-> mask[v]] /\ call.at # "done"
      /\ UNCHANGED <<cpus, assignable, allowed, defaults, call>>
  BY DEF Affine!ThreadEnds, Affine!Without, Affine!machine, Affine!Running
<1>2. before' = [before EXCEPT !.mask = [v \in DOMAIN mask \ {t} |-> before.mask[v]]]
  BY DEF Affine!ThreadEnds, Affine!Without, AffineInv, AffineTyped
<1> QED BY <1>1, <1>2, ThreadsGone

LEMMA ProcessExitsKeeps == AffineInv /\ Affine!ProcessExits => AffineInv'
<1> SUFFICES ASSUME AffineInv, Affine!ProcessExits PROVE AffineInv'
  OBVIOUS
<1>1. call.at # "done" /\ UNCHANGED <<cpus, assignable, allowed, defaults, call>>
      /\ mask' = <<>> /\ before' = [before EXCEPT !.mask = <<>>]
  BY DEF Affine!ProcessExits, Affine!machine, Affine!Running
<1>2. DOMAIN mask' = {} /\ <<>> = [v \in {} |-> mask[v]] /\ <<>> = [v \in {} |-> before.mask[v]]
  BY <1>1
<1> QED BY <1>1, <1>2, ThreadsGone

\* The steps that change no thread and lead to no list of them.
LEMMA AffineQuiet ==
  ASSUME AffineInv, UNCHANGED <<mask, before, allowed, assignable>>,
         call' \in Calls, call'.changed = call.changed, ~call.ok, ~call'.ok,
         call.lost => call'.lost, call'.at \notin {"open", "set", "verify"},
         AffineOrder'
  PROVE  AffineInv'
<1>1. AffineTyped'
  BY DEF AffineInv, AffineTyped
<1>2. AffineOnce' /\ AffineConfined' /\ Affine!SelectionHolds'
  BY DEF AffineInv, AffineOnce, AffineConfined, Affine!SelectionHolds, Entries
<1>3. AffineRestorable'
  BY DEF AffineInv, AffineRestorable, Entries
<1> QED BY <1>1, <1>2, <1>3 DEF AffineInv

LEMMA FailingKeeps ==
  ASSUME AffineInv, AffineRest, call' = Affine!Failing,
         call.at \in {"list", "open", "set", "verify"}
  PROVE  AffineInv'
<1>1. call' = [at |-> "rollback", selected |-> call.selected, original |-> call.original,
               todo |-> <<>>, open |-> 0, index |-> call.index, changed |-> call.changed,
               ok |-> call.ok, lost |-> call.lost]
  BY DEF Affine!Failing, AffineInv, AffineTyped, Calls
<1>2. call' \in Calls
  BY <1>1 DEF AffineInv, AffineTyped, Calls, Stages
<1>3. ~call.ok /\ ~call.lost /\ call.original = before.defaults
  BY DEF AffineInv, AffineOrder
<1>4. AffineOrder'
  BY <1>1, <1>3 DEF AffineOrder, AffineRest
<1> QED BY <1>1, <1>2, <1>3, <1>4, AffineQuiet DEF AffineRest

LEMMA DialogKeeps ==
  ASSUME AffineInv, Affine!OpenDialog \/ Affine!Accept
  PROVE  AffineInv'
<1>1. AffineRest /\ call.changed = <<>> /\ ~call.ok /\ ~call.lost /\ defaults = before.defaults
  BY DEF Affine!OpenDialog, Affine!Accept, Affine!machine, Affine!process, AffineRest, AffineInv,
     AffineOrder
<1>t. call \in Calls /\ defaults \in Masks /\ assignable \in Masks /\ call.at \in Stages
  BY <1>1 DEF AffineInv, AffineTyped, Calls
<1>2. CASE call' = [call EXCEPT !.at = "dialog", !.original = defaults]
  <2>1. call' \in Calls
    BY <1>2, <1>t DEF Calls, Stages
  <2>2. /\ call'.at = "dialog" /\ call'.original = defaults /\ call'.changed = call.changed
        /\ call'.ok = call.ok /\ call'.lost = call.lost
    BY <1>2, <1>t DEF Calls
  <2>3. AffineOrder'
    BY <1>1, <2>2 DEF AffineOrder, AffineRest
  <2> QED BY <1>1, <2>1, <2>2, <2>3, AffineQuiet DEF AffineRest
<1>3. CASE call' = [call EXCEPT !.at = "done"]
  <2>1. call' \in Calls
    BY <1>3, <1>t DEF Calls, Stages
  <2>2. /\ call'.at = "done" /\ call'.original = call.original /\ call'.changed = call.changed
        /\ call'.ok = call.ok /\ call'.lost = call.lost
    BY <1>3, <1>t DEF Calls
  <2>3. AffineOrder'
    BY <1>1, <2>2 DEF AffineOrder, AffineRest
  <2> QED BY <1>1, <2>1, <2>2, <2>3, AffineQuiet DEF AffineRest
<1>4. ASSUME NEW s \in SUBSET assignable \ {{}}, call.at = "dialog",
             call' = [call EXCEPT !.at = "defaults", !.selected = s]
      PROVE  AffineInv'
  <2>1. call' \in Calls
    BY <1>4, <1>t DEF Calls, Stages, Masks
  <2>2. /\ call'.at = "defaults" /\ call'.original = call.original /\ call'.changed = call.changed
        /\ call'.ok = call.ok /\ call'.lost = call.lost
    BY <1>4, <1>t DEF Calls
  <2>3. call.original = before.defaults
    BY <1>4 DEF AffineInv, AffineOrder
  <2>4. AffineOrder'
    BY <1>1, <2>2, <2>3 DEF AffineOrder, AffineRest
  <2> QED BY <1>1, <2>1, <2>2, <2>4, AffineQuiet DEF AffineRest
<1> QED BY <1>2, <1>3, <1>4 DEF Affine!OpenDialog, Affine!Accept

LEMMA SetDefaultsKeeps == AffineInv /\ Affine!SetDefaults => AffineInv'
<1> SUFFICES ASSUME AffineInv, Affine!SetDefaults PROVE AffineInv'
  OBVIOUS
<1> DEFINE to == IF Affine!SingleGroup THEN "mask" ELSE "list"
<1>1. /\ call.at = "defaults" /\ call.changed = <<>> /\ ~call.ok /\ ~call.lost
      /\ call.original = before.defaults /\ defaults = before.defaults /\ call \in Calls
      /\ UNCHANGED <<cpus, assignable, alive, mask, allowed, before>>
  BY DEF Affine!SetDefaults, Affine!machine, AffineInv, AffineOrder, AffineTyped
<1>2. CASE call' = [call EXCEPT !.at = to]
           /\ defaults' = IF Affine!SingleGroup THEN {} ELSE call.selected
  <2>0. to \in {"mask", "list"} /\ (to = "mask" <=> Affine!SingleGroup)
    OBVIOUS
  <2> HIDE DEF to
  <2>1. call' \in Calls
    BY <1>1, <1>2, <2>0 DEF Calls, Stages
  <2>2. /\ call'.at = to /\ call'.original = call.original /\ call'.changed = call.changed
        /\ call'.ok = call.ok /\ call'.lost = call.lost /\ call'.selected = call.selected
    BY <1>1, <1>2 DEF Calls
  <2>3. AffineOrder'
    BY <1>1, <1>2, <2>0, <2>2 DEF AffineOrder, Affine!SingleGroup
  <2> QED BY <1>1, <2>0, <2>1, <2>2, <2>3, AffineQuiet
<1>3. CASE call' = [call EXCEPT !.at = "done"] /\ defaults' = defaults
  <2>1. call' \in Calls
    BY <1>1, <1>3 DEF Calls, Stages
  <2>2. /\ call'.at = "done" /\ call'.changed = call.changed
        /\ call'.ok = call.ok /\ call'.lost = call.lost
    BY <1>1, <1>3 DEF Calls
  <2>3. AffineOrder'
    BY <1>1, <1>3, <2>2 DEF AffineOrder
  <2> QED BY <1>1, <2>1, <2>2, <2>3, AffineQuiet
<1> QED BY <1>2, <1>3 DEF Affine!SetDefaults

LEMMA SetProcessMaskKeeps == AffineInv /\ Affine!SetProcessMask => AffineInv'
<1> SUFFICES ASSUME AffineInv, Affine!SetProcessMask PROVE AffineInv'
  OBVIOUS
<1>1. /\ call.at = "mask" /\ call.changed = <<>> /\ ~call.ok /\ ~call.lost
      /\ call.original = before.defaults /\ defaults = {} /\ Affine!SingleGroup /\ call \in Calls
      /\ UNCHANGED <<cpus, assignable, alive, defaults, before>>
  BY DEF Affine!SetProcessMask, Affine!machine, AffineInv, AffineOrder, AffineTyped
<1>2. CASE /\ allowed' = call.selected /\ mask' = [t \in DOMAIN mask |-> call.selected]
           /\ call' = [call EXCEPT !.at = "done", !.ok = TRUE]
  <2>1. call' \in Calls
    BY <1>1, <1>2 DEF Calls, Stages
  <2>2. /\ call'.at = "done" /\ call'.ok /\ call'.changed = <<>> /\ call'.lost = call.lost
        /\ call'.selected = call.selected
    BY <1>1, <1>2 DEF Calls
  <2>3. call.selected \in Masks
    BY <1>1 DEF Calls
  <2>4. DOMAIN mask' = DOMAIN mask /\ mask' \in [DOMAIN mask -> Masks]
        /\ \A t \in DOMAIN mask' : mask'[t] = call.selected
    BY <1>2, <2>3
  <2>f. IsFiniteSet(DOMAIN mask')
    BY <2>4 DEF AffineInv, AffineTyped
  <2>5. AffineTyped'
    BY <1>1, <1>2, <2>1, <2>3, <2>4, <2>f DEF AffineInv, AffineTyped
  <2>6. AffineOrder' /\ AffineOnce' /\ AffineConfined' /\ AffineRestorable'
    BY <1>1, <2>2 DEF AffineOrder, AffineOnce, AffineConfined, AffineRestorable, Entries
  <2>7. Affine!SelectionHolds'
    BY <1>1, <1>2, <2>2, <2>4 DEF Affine!SelectionHolds, Affine!SingleGroup, Affine!Threads
  <2> QED BY <2>5, <2>6, <2>7 DEF AffineInv
<1>3. CASE call' = [call EXCEPT !.at = "restore"] /\ UNCHANGED <<allowed, mask>>
  <2>1. call' \in Calls
    BY <1>1, <1>3 DEF Calls, Stages
  <2>2. /\ call'.at = "restore" /\ call'.changed = call.changed /\ call'.original = call.original
        /\ call'.ok = call.ok /\ call'.lost = call.lost
    BY <1>1, <1>3 DEF Calls
  <2>3. AffineOrder'
    BY <1>1, <1>3, <2>2 DEF AffineOrder
  <2> QED BY <1>1, <1>3, <2>1, <2>2, <2>3, AffineQuiet
<1> QED BY <1>2, <1>3 DEF Affine!SetProcessMask, Affine!Threads

\* A listing has every ID once.
LEMMA ListingOnce ==
  ASSUME NEW ids \in SUBSET Tids, IsFiniteSet(ids), NEW s \in Affine!Listings(ids)
  PROVE  /\ s \in Seq(Tids)
         /\ \A t \in ids : \E k \in DOMAIN s : s[k] = t
         /\ \A k \in DOMAIN s : s[k] \in ids
         /\ \A k, l \in DOMAIN s : k # l => s[k] # s[l]
<1>0. Affine!Cardinality(ids) = Cardinality(ids)
  BY DEF Affine!Cardinality, Cardinality
<1>1. s \in [1..Cardinality(ids) -> ids] /\ Cardinality(ids) \in Nat /\ Affine!ToSet(s) = ids
  BY <1>0, FS_CardinalityType DEF Affine!Listings
<1>2. s \in Seq(Tids) /\ DOMAIN s = 1..Cardinality(ids)
  BY <1>1
<1>3. \A k, l \in DOMAIN s : k < l => s[k] < s[l]
  BY DEF Affine!Listings
<1>4. ASSUME NEW k \in DOMAIN s, NEW l \in DOMAIN s, k < l PROVE s[k] # s[l]
  <2>1. s[k] < s[l]
    BY <1>3, <1>4
  <2>2. s[k] \in Nat
    BY <1>1, <1>2, ThreadsAssumption
  <2> QED BY <2>1, <2>2
<1>5. \A k, l \in DOMAIN s : k # l => s[k] # s[l]
  BY <1>2, <1>4
<1> QED BY <1>1, <1>2, <1>5 DEF Affine!ToSet

LEMMA ListThreadsKeeps == AffineInv /\ Affine!ListThreads => AffineInv'
<1> SUFFICES ASSUME AffineInv, Affine!ListThreads PROVE AffineInv'
  OBVIOUS
<1>1. /\ call.at = "list" /\ call.changed = <<>> /\ ~call.ok /\ ~call.lost /\ call \in Calls
      /\ call.original = before.defaults /\ ~Affine!SingleGroup /\ defaults = call.selected
      /\ AffineRest
  BY DEF Affine!ListThreads, Affine!machine, Affine!process, AffineInv, AffineOrder, AffineTyped,
     AffineRest
<1>2. ASSUME NEW s \in Affine!Listings(DOMAIN mask), call' = [call EXCEPT !.at = "open", !.todo = s]
      PROVE  AffineInv'
  <2>1. s \in Seq(Tids) /\ \A k, l \in DOMAIN s : k # l => s[k] # s[l]
    BY ListingOnce DEF AffineInv, AffineTyped
  <2>2. call' \in Calls
    BY <1>1, <1>2, <2>1 DEF Calls, Stages
  <2>3. /\ call'.at = "open" /\ call'.changed = <<>> /\ call'.todo = s /\ call'.ok = call.ok
        /\ call'.lost = call.lost /\ call'.selected = call.selected /\ call'.original = call.original
    BY <1>1, <1>2 DEF Calls
  <2>4. AffineTyped'
    BY <1>1, <2>2 DEF AffineInv, AffineTyped, AffineRest
  <2>5. AffineOrder'
    BY <1>1, <2>3 DEF AffineOrder, AffineRest, Affine!SingleGroup
  <2>6. AffineOnce' /\ AffineConfined' /\ Affine!SelectionHolds'
    BY <2>1, <2>3 DEF AffineOnce, AffineConfined, Entries, Affine!SelectionHolds
  <2>7. AffineRestorable'
    BY <1>1, <2>3 DEF AffineInv, AffineRestorable, Entries, AffineRest
  <2> QED BY <2>4, <2>5, <2>6, <2>7 DEF AffineInv
<1> QED BY <1>1, <1>2, FailingKeeps DEF Affine!ListThreads, Affine!Threads

\* The steps that take the next of a list of threads.
LEMMA NextThreadKeeps ==
  ASSUME AffineInv, AffineRest, call.at \in {"open", "verify"}, call.todo # <<>>,
         call'.todo = Tail(call.todo),
         call' \in Calls, call'.changed = call.changed, call'.ok = call.ok, call'.lost = call.lost,
         call'.selected = call.selected, call'.original = call.original,
         \/ call'.at = call.at
         \/ call.at = "open" /\ call'.at = "set" /\ call'.open = Head(call.todo),
         call.at = "verify" /\ Head(call.todo) \in DOMAIN mask =>
           mask[Head(call.todo)] \subseteq call.selected
  PROVE  AffineInv'
<1> DEFINE todo == call.todo
<1>1. /\ todo \in Seq(Tids) /\ Len(todo) \in Nat /\ todo # <<>>
      /\ DOMAIN todo = 1..Len(todo)
  BY DEF AffineInv, AffineTyped, Calls
<1>2. /\ Head(todo) = todo[1] /\ 1 \in DOMAIN todo
      /\ DOMAIN Tail(todo) = 1..(Len(todo) - 1)
      /\ \A k \in DOMAIN Tail(todo) : Tail(todo)[k] = todo[k + 1] /\ k + 1 \in DOMAIN todo
  <2>1. Head(todo) = todo[1] /\ Len(todo) >= 1
    BY <1>1
  <2>2. Tail(todo) \in Seq(Tids) /\ Len(Tail(todo)) = Len(todo) - 1
        /\ \A k \in 1..(Len(todo) - 1) : Tail(todo)[k] = todo[k + 1]
    BY <1>1, HeadTailProperties
  <2>3. DOMAIN Tail(todo) = 1..(Len(todo) - 1)
    BY <2>2
  <2> QED BY <1>1, <2>1, <2>2, <2>3
<1>3. \A k \in DOMAIN todo : k = 1 \/ (k - 1 \in DOMAIN Tail(todo) /\ Tail(todo)[k - 1] = todo[k])
  <2> SUFFICES ASSUME NEW k \in DOMAIN todo, k # 1
               PROVE  k - 1 \in DOMAIN Tail(todo) /\ Tail(todo)[k - 1] = todo[k]
    OBVIOUS
  <2>0. k \in 1..Len(todo) /\ Len(todo) \in Nat
    BY <1>1
  <2>1. k \in 1..Len(todo) /\ k - 1 \in 1..(Len(todo) - 1) /\ (k - 1) + 1 = k
    BY <2>0
  <2> QED BY <1>2, <2>1
<1>4. AffineTyped'
  BY DEF AffineInv, AffineTyped, AffineRest
<1>5. AffineOrder'
  BY DEF AffineInv, AffineOrder, AffineRest, Affine!SingleGroup
<1>6. AffineOnce'
  <2>1. \A i, j \in Entries : i # j => call.changed[i].tid # call.changed[j].tid
    BY DEF AffineInv, AffineOnce
  <2>2. ASSUME call.at = "open"
        PROVE  /\ \A i \in Entries, k \in DOMAIN Tail(todo) : call.changed[i].tid # Tail(todo)[k]
               /\ \A k, l \in DOMAIN Tail(todo) : k # l => Tail(todo)[k] # Tail(todo)[l]
               /\ \A i \in Entries : call.changed[i].tid # Head(todo)
               /\ \A k \in DOMAIN Tail(todo) : Tail(todo)[k] # Head(todo)
    <3>1. /\ \A i \in Entries, k \in DOMAIN todo : call.changed[i].tid # todo[k]
          /\ \A k, l \in DOMAIN todo : k # l => todo[k] # todo[l]
      BY <2>2 DEF AffineInv, AffineOnce
    <3>2. \A k \in DOMAIN Tail(todo) : k \in Int /\ k + 1 # 1
      BY <1>1, <1>2
    <3>3. \A k, l \in DOMAIN Tail(todo) : k # l => k + 1 # l + 1
      BY <1>1, <1>2
    <3> QED BY <1>2, <3>1, <3>2, <3>3
  <2> QED BY <2>1, <2>2 DEF AffineOnce, Entries
<1>7. AffineRestorable'
  BY DEF AffineInv, AffineRestorable, Entries, AffineRest
<1>8. AffineConfined'
  <2>1. call'.at \in {"open", "set", "verify"} =>
          \A i \in Entries : call.changed[i].tid \in DOMAIN mask =>
            mask[call.changed[i].tid] \subseteq call.selected
    BY DEF AffineInv, AffineConfined
  <2>2. ASSUME call.at = "verify", NEW t \in DOMAIN mask \ before.late,
               ~(mask[t] \subseteq call.selected)
        PROVE  \E k \in DOMAIN Tail(todo) : Tail(todo)[k] = t
    <3>1. PICK k \in DOMAIN todo : todo[k] = t
      BY <2>2 DEF AffineInv, AffineConfined
    <3>2. k # 1
      BY <1>2, <2>2, <3>1
    <3> QED BY <1>3, <3>1, <3>2
  <2> QED BY <2>1, <2>2 DEF AffineConfined, Entries, AffineRest
<1>9. Affine!SelectionHolds'
  BY DEF Affine!SelectionHolds
<1> QED BY <1>4, <1>5, <1>6, <1>7, <1>8, <1>9 DEF AffineInv

LEMMA OpenThreadKeeps == AffineInv /\ Affine!OpenThread => AffineInv'
<1> SUFFICES ASSUME AffineInv, Affine!OpenThread PROVE AffineInv'
  OBVIOUS
<1> DEFINE t == Head(call.todo)
           after == [call EXCEPT !.todo = Tail(@)]
<1>1. /\ call.at = "open" /\ call.todo # <<>> /\ call \in Calls /\ AffineRest
  BY DEF Affine!OpenThread, Affine!machine, Affine!process, AffineInv, AffineTyped, AffineRest
<1>2. t \in Tids /\ Tail(call.todo) \in Seq(Tids)
  BY <1>1, HeadTailProperties DEF Calls
<1>3. after \in Calls /\ after.todo = Tail(call.todo) /\ after.at = "open"
  BY <1>1, <1>2 DEF Calls
<1>4. /\ after.changed = call.changed /\ after.ok = call.ok /\ after.lost = call.lost
      /\ after.selected = call.selected /\ after.original = call.original
  BY <1>1 DEF Calls
<1>5. CASE call' = after
  BY <1>1, <1>3, <1>4, <1>5, NextThreadKeeps
<1>6. CASE call' = [after EXCEPT !.at = "set", !.open = t, !.index = @ + 1]
  <2> HIDE DEF after, t
  <2>0. call' = [after EXCEPT !.at = "set", !.open = t, !.index = after.index + 1]
    BY <1>6
  <2>i. after.index + 1 \in Nat /\ "set" \in Stages /\ t \in Tids \union {0}
    BY <1>2, <1>3 DEF Calls, Stages
  <2>1. call' \in Calls
    BY <1>3, <2>0, <2>i DEF Calls
  <2>2. /\ call'.todo = after.todo /\ call'.at = "set" /\ call'.open = t
        /\ call'.changed = after.changed /\ call'.ok = after.ok /\ call'.lost = after.lost
        /\ call'.selected = after.selected /\ call'.original = after.original
    BY <1>3, <1>6 DEF Calls
  <2> QED BY <1>1, <1>3, <1>4, <2>1, <2>2, NextThreadKeeps DEF t
<1>7. CASE call' = Affine!Failing
  BY <1>1, <1>7, FailingKeeps
<1> QED BY <1>5, <1>6, <1>7 DEF Affine!OpenThread

LEMMA VerifyThreadKeeps == AffineInv /\ Affine!VerifyThread => AffineInv'
<1> SUFFICES ASSUME AffineInv, Affine!VerifyThread PROVE AffineInv'
  OBVIOUS
<1> DEFINE t == Head(call.todo)
           after == [call EXCEPT !.todo = Tail(@)]
<1>1. /\ call.at = "verify" /\ call.todo # <<>> /\ call \in Calls /\ AffineRest
  BY DEF Affine!VerifyThread, Affine!machine, Affine!process, AffineInv, AffineTyped, AffineRest
<1>2. t \in Tids /\ Tail(call.todo) \in Seq(Tids)
  BY <1>1, HeadTailProperties DEF Calls
<1>3. after \in Calls /\ after.todo = Tail(call.todo) /\ after.at = "verify"
  BY <1>1, <1>2 DEF Calls
<1>4. /\ after.changed = call.changed /\ after.ok = call.ok /\ after.lost = call.lost
      /\ after.selected = call.selected /\ after.original = call.original
  BY <1>1 DEF Calls
<1>5. CASE call' = after /\ (t \in DOMAIN mask => Affine!WithinSelection(mask[t]))
  BY <1>1, <1>3, <1>4, <1>5, NextThreadKeeps DEF Affine!WithinSelection
<1>6. CASE call' = Affine!Failing
  BY <1>1, <1>6, FailingKeeps
<1> QED BY <1>5, <1>6 DEF Affine!VerifyThread, Affine!Threads

\* The thread moved joins those the rollback knows, with the affinity it had.
LEMMA SetThreadKeeps == AffineInv /\ Affine!SetThread => AffineInv'
<1> SUFFICES ASSUME AffineInv, Affine!SetThread PROVE AffineInv'
  OBVIOUS
<1> DEFINE t == call.open
           after == [call EXCEPT !.at = "open", !.open = 0]
           entry == [tid |-> t, previous |-> mask[t]]
           target == Affine!TargetOf(call.index - 1)
<1>1. /\ call.at = "set" /\ call \in Calls /\ ~call.ok /\ ~call.lost
      /\ call.original = before.defaults /\ ~Affine!SingleGroup /\ defaults = call.selected
      /\ UNCHANGED <<cpus, assignable, alive, allowed, defaults, before>>
  BY DEF Affine!SetThread, Affine!machine, AffineInv, AffineOrder, AffineTyped
<1>2. /\ after \in Calls /\ after.at = "open" /\ after.todo = call.todo /\ after.changed = call.changed
      /\ after.ok = call.ok /\ after.lost = call.lost /\ after.selected = call.selected
      /\ after.original = call.original
  BY <1>1 DEF Calls, Stages
<1>3. /\ \A i, j \in Entries : i # j => call.changed[i].tid # call.changed[j].tid
      /\ \A i \in Entries, k \in DOMAIN call.todo : call.changed[i].tid # call.todo[k]
      /\ \A k, l \in DOMAIN call.todo : k # l => call.todo[k] # call.todo[l]
      /\ \A i \in Entries : call.changed[i].tid # t
      /\ \A k \in DOMAIN call.todo : call.todo[k] # t
  BY <1>1 DEF AffineInv, AffineOnce
<1>4. ASSUME t \in DOMAIN mask, mask' = [mask EXCEPT ![t] = target],
             call' = [after EXCEPT !.changed = Append(@, entry)]
      PROVE  AffineInv'
  <2>1. target \in Masks /\ target \subseteq call.selected
    BY <1>1 DEF Affine!TargetOf, Affine!InGroup, Calls, Masks
  <2>2. entry \in Entry
    BY <1>4 DEF AffineInv, AffineTyped, Entry
  <2> HIDE DEF after, target
  <2>3. /\ DOMAIN mask' = DOMAIN mask /\ mask'[t] = target
        /\ \A u \in DOMAIN mask : u # t => mask'[u] = mask[u]
        /\ mask' \in [DOMAIN mask -> Masks]
    BY <1>4, <2>1 DEF AffineInv, AffineTyped
  <2>4. /\ call' \in Calls /\ call'.changed = Append(call.changed, entry)
        /\ call'.at = "open" /\ call'.todo = call.todo /\ call'.ok = call.ok
        /\ call'.lost = call.lost /\ call'.selected = call.selected
        /\ call'.original = call.original
    <3>1. after.changed \in Seq(Entry)
      BY <1>2 DEF Calls
    <3>2. Append(after.changed, entry) \in Seq(Entry)
      BY <2>2, <3>1, AppendProperties
    <3> HIDE DEF entry
    <3> QED BY <1>2, <1>4, <3>2 DEF Calls
  <2>5. PICK n \in Nat : n = Len(call.changed) /\ Entries = 1..n
    BY <1>1 DEF Calls, Entries
  <2>6. /\ Entries' = 1..(n + 1) /\ call'.changed[n + 1] = entry
        /\ \A i \in Entries : call'.changed[i] = call.changed[i]
    <3>1. call.changed \in Seq(Entry)
      BY <1>1 DEF Calls
    <3> HIDE DEF entry
    <3> QED BY <2>2, <2>4, <2>5, <3>1, AppendProperties DEF Entries
  <2>7. \A i \in Entries' : i = n + 1 \/ i \in Entries
    BY <2>5, <2>6
  <2>e. entry.tid = t /\ entry.previous = mask[t]
    OBVIOUS
  <2> HIDE DEF entry
  <2>f. IsFiniteSet(DOMAIN mask')
    BY <2>3 DEF AffineInv, AffineTyped
  <2>8. AffineTyped'
    BY <1>1, <2>3, <2>4, <2>f DEF AffineInv, AffineTyped
  <2>9. AffineOrder'
    BY <1>1, <2>4 DEF AffineOrder, Affine!SingleGroup
  <2>10. AffineOnce'
    <3>1. \A i, j \in Entries' : i # j => call'.changed[i].tid # call'.changed[j].tid
      BY <1>3, <2>6, <2>7, <2>e
    <3>2. \A i \in Entries', k \in DOMAIN call.todo : call'.changed[i].tid # call.todo[k]
      BY <1>3, <2>6, <2>7, <2>e
    <3> QED BY <1>3, <2>4, <3>1, <3>2 DEF AffineOnce
  <2>11. AffineRestorable'
    <3>1. mask[t] = before.mask[t]
      BY <1>1, <1>3, <1>4 DEF AffineInv, AffineRestorable
    <3>2. \A i \in Entries' : call'.changed[i].tid \in DOMAIN mask =>
            before.mask[call'.changed[i].tid] = call'.changed[i].previous
      BY <2>6, <2>7, <2>e, <3>1 DEF AffineInv, AffineRestorable
    <3>3. n + 1 \in Entries'
      BY <2>6
    <3>4. \A i \in Entries : i \in Entries'
      BY <2>5, <2>6
    <3>5. ASSUME NEW u \in DOMAIN mask, u # t, mask[u] # before.mask[u]
          PROVE  \E i \in Entries' : call'.changed[i].tid = u
      <4>1. PICK i \in Entries : call.changed[i].tid = u
        BY <1>1, <3>5 DEF AffineInv, AffineRestorable
      <4> QED BY <2>6, <3>4, <4>1
    <3>6. \A u \in DOMAIN mask : mask'[u] = before.mask[u] \/ \E i \in Entries' : call'.changed[i].tid = u
      BY <2>3, <2>6, <2>e, <3>3, <3>5
    <3> QED BY <1>1, <2>3, <3>2, <3>6 DEF AffineRestorable
  <2>12. AffineConfined'
    <3>1. \A i \in Entries' : call'.changed[i].tid \in DOMAIN mask =>
            mask'[call'.changed[i].tid] \subseteq call.selected
      BY <1>1, <2>1, <2>3, <2>6, <2>7, <2>e DEF AffineInv, AffineConfined
    <3> QED BY <2>3, <2>4, <3>1 DEF AffineConfined
  <2>13. Affine!SelectionHolds'
    BY <2>4 DEF Affine!SelectionHolds
  <2> QED BY <2>8, <2>9, <2>10, <2>11, <2>12, <2>13 DEF AffineInv
<1>5. ASSUME mask' = mask, call' = after PROVE AffineInv'
  <2> HIDE DEF after
  <2>1. AffineTyped'
    BY <1>1, <1>2, <1>5 DEF AffineInv, AffineTyped
  <2>2. AffineOrder'
    BY <1>1, <1>2, <1>5 DEF AffineOrder, Affine!SingleGroup
  <2>3. AffineOnce'
    BY <1>2, <1>3, <1>5 DEF AffineOnce, Entries
  <2>4. AffineRestorable'
    BY <1>1, <1>2, <1>5 DEF AffineInv, AffineRestorable, Entries
  <2>5. AffineConfined' /\ Affine!SelectionHolds'
    BY <1>1, <1>2, <1>5 DEF AffineInv, AffineConfined, Entries, Affine!SelectionHolds
  <2> QED BY <2>1, <2>2, <2>3, <2>4, <2>5 DEF AffineInv
<1>6. ASSUME mask' = mask, call' = Affine!Failing PROVE AffineInv'
  BY <1>1, <1>6, FailingKeeps DEF AffineRest
<1> QED BY <1>4, <1>5, <1>6 DEF Affine!SetThread, Affine!Threads

\* The second look has still to see every thread that was not changed and has not
\* come since.
LEMMA ListAgainKeeps == AffineInv /\ Affine!ListAgain => AffineInv'
<1> SUFFICES ASSUME AffineInv, Affine!ListAgain PROVE AffineInv'
  OBVIOUS
<1>1. /\ call.at = "open" /\ call \in Calls /\ ~call.ok /\ ~call.lost
      /\ call.original = before.defaults /\ ~Affine!SingleGroup /\ defaults = call.selected
      /\ UNCHANGED <<cpus, assignable, alive, mask, allowed, defaults>>
  BY DEF Affine!ListAgain, Affine!machine, Affine!process, AffineInv, AffineOrder, AffineTyped
<1>2. ASSUME NEW s \in Affine!Listings(DOMAIN mask \ Affine!Changed),
             call' = [call EXCEPT !.at = "verify", !.todo = s],
             before' = [before EXCEPT !.late = {}]
      PROVE  AffineInv'
  <2>0. DOMAIN mask \ Affine!Changed \in SUBSET Tids /\ IsFiniteSet(DOMAIN mask \ Affine!Changed)
    BY FS_Subset DEF AffineInv, AffineTyped
  <2>1. s \in Seq(Tids) /\ \A t \in DOMAIN mask \ Affine!Changed : \E k \in DOMAIN s : s[k] = t
    BY <2>0, ListingOnce
  <2>2. call' \in Calls
    BY <1>1, <1>2, <2>1 DEF Calls, Stages
  <2>3. /\ call'.at = "verify" /\ call'.todo = s /\ call'.changed = call.changed
        /\ call'.ok = call.ok /\ call'.lost = call.lost /\ call'.selected = call.selected
        /\ call'.original = call.original
    BY <1>1, <1>2 DEF Calls
  <2>4. /\ before'.mask = before.mask /\ before'.defaults = before.defaults /\ before'.late = {}
        /\ before' = [mask |-> before'.mask, defaults |-> before'.defaults, late |-> before'.late]
    BY <1>2 DEF AffineInv, AffineTyped
  <2>5. AffineTyped'
    BY <1>1, <2>2, <2>4 DEF AffineInv, AffineTyped
  <2>6. AffineOrder'
    BY <1>1, <2>3, <2>4 DEF AffineOrder, Affine!SingleGroup
  <2>7. AffineOnce' /\ Affine!SelectionHolds'
    BY <2>3 DEF AffineInv, AffineOnce, Entries, Affine!SelectionHolds
  <2>8. AffineRestorable'
    BY <1>1, <2>3, <2>4 DEF AffineInv, AffineRestorable, Entries
  <2>9. AffineConfined'
    <3>1. \A i \in Entries : call.changed[i].tid \in DOMAIN mask =>
            mask[call.changed[i].tid] \subseteq call.selected
      BY <1>1 DEF AffineInv, AffineConfined
    <3>2. ASSUME NEW t \in DOMAIN mask, ~(mask[t] \subseteq call.selected)
          PROVE  \E k \in DOMAIN s : s[k] = t
      <4>1. t \notin Affine!Changed
        BY <3>1, <3>2 DEF Affine!Changed, Entries
      <4> QED BY <2>1, <4>1
    <3> QED BY <1>1, <2>3, <2>4, <3>1, <3>2 DEF AffineConfined, Entries
  <2> QED BY <2>5, <2>6, <2>7, <2>8, <2>9 DEF AffineInv
<1>3. ASSUME before' = before, call' = Affine!Failing PROVE AffineInv'
  BY <1>1, <1>3, FailingKeeps DEF AffineRest
<1> QED BY <1>2, <1>3 DEF Affine!ListAgain, Affine!Threads

LEMMA SucceedKeeps == AffineInv /\ Affine!Succeed => AffineInv'
<1> SUFFICES ASSUME AffineInv, Affine!Succeed PROVE AffineInv'
  OBVIOUS
<1>1. /\ call.at = "verify" /\ call \in Calls /\ ~call.lost /\ call.todo = <<>>
      /\ ~Affine!SingleGroup /\ defaults = call.selected /\ AffineRest
  BY DEF Affine!Succeed, Affine!machine, Affine!process, AffineInv, AffineOrder, AffineTyped,
     AffineRest
<1>2. call' = [call EXCEPT !.at = "done", !.ok = TRUE, !.changed = <<>>]
  BY DEF Affine!Succeed
<1>3. call' \in Calls
  <2>1. <<>> \in Seq(Entry) /\ "done" \in Stages
    BY DEF Stages
  <2> QED BY <1>1, <1>2, <2>1 DEF Calls
<1>4. /\ call'.at = "done" /\ call'.ok /\ call'.changed = <<>> /\ call'.selected = call.selected
  BY <1>1, <1>2 DEF Calls
<1>5. AffineTyped'
  BY <1>1, <1>3 DEF AffineInv, AffineTyped, AffineRest
<1>6. AffineOrder' /\ AffineOnce' /\ AffineRestorable' /\ AffineConfined'
  BY <1>4 DEF AffineOrder, AffineOnce, AffineRestorable, AffineConfined, Entries
<1>7. \A t \in DOMAIN mask \ before.late : mask[t] \subseteq call.selected
  BY <1>1 DEF AffineInv, AffineConfined
<1>8. Affine!SelectionHolds'
  BY <1>1, <1>4, <1>7 DEF Affine!SelectionHolds, Affine!SingleGroup, Affine!Threads, AffineRest
<1> QED BY <1>5, <1>6, <1>8 DEF AffineInv

\* The last thread changed has again what it had, which is what it began with.
LEMMA RollbackKeeps == AffineInv /\ Affine!Rollback => AffineInv'
<1> SUFFICES ASSUME AffineInv, Affine!Rollback PROVE AffineInv'
  OBVIOUS
<1> DEFINE last == Affine!Last(call.changed)
           after == [call EXCEPT !.changed = Affine!Front(@)]
<1>1. /\ call.at = "rollback" /\ call \in Calls /\ ~call.ok /\ call.changed # <<>>
      /\ call.original = before.defaults
      /\ UNCHANGED <<cpus, assignable, alive, allowed, defaults, before>>
  BY DEF Affine!Rollback, Affine!machine, AffineInv, AffineOrder, AffineTyped
<1>2. PICK n \in Nat : n = Len(call.changed) /\ Entries = 1..n /\ n # 0
  BY <1>1 DEF Calls, Entries
<1>3. /\ Affine!Front(call.changed) \in Seq(Entry) /\ Len(Affine!Front(call.changed)) = n - 1
      /\ \A i \in 1..(n - 1) : Affine!Front(call.changed)[i] = call.changed[i]
  <2>1. Affine!Front(call.changed) = SubSeq(call.changed, 1, n - 1)
    BY <1>2 DEF Affine!Front
  <2>2. call.changed \in Seq(Entry)
    BY <1>1 DEF Calls
  <2> HIDE DEF last, after
  <2>3. \A i \in 1..(n - 1) : call.changed[i] \in Entry
    BY <1>2, <2>2
  <2> QED BY <1>2, <2>1, <2>2, <2>3, SubSeqProperties
<1>4. last = call.changed[n] /\ n \in Entries
  BY <1>2 DEF Affine!Last
<1>5. /\ after \in Calls /\ after.at = "rollback" /\ after.changed = Affine!Front(call.changed)
      /\ after.ok = call.ok /\ after.lost = call.lost /\ after.original = call.original
  BY <1>1, <1>3 DEF Calls
<1>6. last \in Entry
  <2>1. call.changed \in Seq(Entry) /\ n \in 1..Len(call.changed)
    BY <1>1, <1>2 DEF Calls
  <2> QED BY <1>4, <2>1
<1> HIDE DEF after, last
<1>7. ASSUME call'.changed = after.changed
      PROVE  /\ DOMAIN call'.changed = 1..(n - 1) /\ DOMAIN call'.changed \subseteq Entries
             /\ \A i \in DOMAIN call'.changed : call'.changed[i] = call.changed[i] /\ i # n
             /\ \A i \in Entries : i # n => i \in DOMAIN call'.changed
  BY <1>2, <1>3, <1>5, <1>7
<1>8. \A i, j \in Entries : i # j => call.changed[i].tid # call.changed[j].tid
  BY DEF AffineInv, AffineOnce
<1>9. /\ \A i \in Entries : call.changed[i].tid \in DOMAIN mask =>
           before.mask[call.changed[i].tid] = call.changed[i].previous
      /\ ~call.lost =>
           \A t \in DOMAIN mask : mask[t] = before.mask[t] \/ \E i \in Entries : call.changed[i].tid = t
  BY <1>1 DEF AffineInv, AffineRestorable
<1>10. ASSUME call' \in Calls, call'.at = "rollback", call'.changed = after.changed, ~call'.ok,
              call'.original = call.original,
              mask' \in [DOMAIN mask -> Masks], DOMAIN mask' = DOMAIN mask,
              ~call'.lost => \A t \in DOMAIN mask :
                mask'[t] = before.mask[t] \/ \E i \in DOMAIN call'.changed : call'.changed[i].tid = t
       PROVE  AffineInv'
  <2>f. IsFiniteSet(DOMAIN mask')
    BY <1>10 DEF AffineInv, AffineTyped
  <2>1. AffineTyped'
    BY <1>1, <1>10, <2>f DEF AffineInv, AffineTyped
  <2>2. AffineOrder' /\ AffineConfined' /\ Affine!SelectionHolds'
    BY <1>1, <1>10 DEF AffineOrder, AffineConfined, Affine!SelectionHolds
  <2>3. AffineOnce'
    BY <1>7, <1>8, <1>10 DEF AffineOnce, Entries
  <2>4. AffineRestorable'
    BY <1>1, <1>7, <1>9, <1>10 DEF AffineRestorable, Entries
  <2> QED BY <2>1, <2>2, <2>3, <2>4 DEF AffineInv
<1>11. ASSUME call' = after,
              mask' = IF last.tid \in DOMAIN mask
                      THEN [mask EXCEPT ![last.tid] = last.previous] ELSE mask
       PROVE  AffineInv'
  <2>1. /\ mask' \in [DOMAIN mask -> Masks] /\ DOMAIN mask' = DOMAIN mask
        /\ last.tid \in DOMAIN mask => mask'[last.tid] = last.previous
        /\ \A t \in DOMAIN mask : t # last.tid => mask'[t] = mask[t]
    BY <1>6, <1>11 DEF Entry, AffineInv, AffineTyped
  <2>2. ASSUME ~call.lost, NEW t \in DOMAIN mask, mask'[t] # before.mask[t]
        PROVE  \E i \in DOMAIN call'.changed : call'.changed[i].tid = t
    <3>1. t # last.tid
      BY <1>4, <1>9, <2>1, <2>2
    <3>2. PICK i \in Entries : call.changed[i].tid = t
      BY <1>9, <2>1, <2>2, <3>1
    <3> QED BY <1>4, <1>7, <1>11, <3>1, <3>2
  <2> QED BY <1>1, <1>5, <1>10, <1>11, <2>1, <2>2
<1>12. ASSUME call' = [after EXCEPT !.lost = TRUE], mask' = mask
       PROVE  AffineInv'
  <2>1. call' \in Calls
    BY <1>5, <1>12 DEF Calls
  <2>2. /\ call'.at = "rollback" /\ call'.changed = after.changed /\ ~call'.ok /\ call'.lost
        /\ call'.original = call.original
    BY <1>1, <1>5, <1>12 DEF Calls
  <2> QED BY <1>10, <1>12, <2>1, <2>2 DEF AffineInv, AffineTyped
<1> QED BY <1>11, <1>12 DEF Affine!Rollback, Affine!Threads, after, last

LEMMA RestoreKeeps ==
  ASSUME AffineInv, Affine!EndRollback \/ Affine!Restore
  PROVE  AffineInv'
<1>1. /\ call.at \in {"rollback", "restore"} /\ call \in Calls /\ ~call.ok /\ call.changed = <<>>
      /\ call.original = before.defaults
      /\ UNCHANGED <<cpus, assignable, alive, mask, allowed, before>>
  BY DEF Affine!EndRollback, Affine!Restore, Affine!machine, Affine!process, AffineInv, AffineOrder,
     AffineTyped
<1>2. CASE Affine!EndRollback
  <2>1. call' = [call EXCEPT !.at = "restore"]
    BY <1>2 DEF Affine!EndRollback, Affine!AfterRollback
  <2>2. call' \in Calls
    BY <1>1, <2>1 DEF Calls, Stages
  <2>3. /\ call'.at = "restore" /\ call'.changed = call.changed /\ call'.ok = call.ok
        /\ call'.lost = call.lost /\ call'.original = call.original
    BY <1>1, <2>1 DEF Calls
  <2>4. AffineOrder'
    BY <1>1, <2>3 DEF AffineOrder
  <2> QED BY <1>1, <2>2, <2>3, <2>4, AffineQuiet
<1>3. CASE Affine!Restore
  <2>1. \/ call' = [call EXCEPT !.at = "done"] /\ (alive => defaults' = call.original)
        \/ call' = [call EXCEPT !.at = "done", !.lost = TRUE]
    BY <1>3 DEF Affine!Restore
  <2>2. call' \in Calls
    BY <1>1, <2>1 DEF Calls, Stages
  <2>3. /\ call'.at = "done" /\ call'.changed = call.changed /\ call'.ok = call.ok
        /\ call.lost => call'.lost
        /\ alive /\ ~call'.lost => defaults' = call.original
    BY <1>1, <2>1 DEF Calls
  <2>4. AffineOrder'
    BY <1>1, <2>3 DEF AffineOrder
  <2> QED BY <1>1, <2>2, <2>3, <2>4, AffineQuiet
<1> QED BY <1>2, <1>3

LEMMA AffineNextKeeps == AffineInv /\ [Affine!Next]_(Affine!vars) => AffineInv'
<1> SUFFICES ASSUME AffineInv, [Affine!Next]_(Affine!vars) PROVE AffineInv'
  OBVIOUS
<1> DEFINE still == UNCHANGED <<cpus, assignable, alive, mask, allowed, defaults, call, before>>
<1>1. CASE still
  BY <1>1 DEF AffineInv, AffineTyped, AffineOrder, AffineOnce, AffineRestorable, AffineConfined,
     Entries, Affine!SelectionHolds, Affine!SingleGroup, Affine!Threads
<1>2. ASSUME NEW t, Affine!ThreadEnds(t) PROVE AffineInv'
  BY <1>2, ThreadEndsKeeps
<1>3. ASSUME NEW t, Affine!ForeignThread(t) PROVE still
  BY <1>3 DEF Affine!ForeignThread, Affine!machine
<1>4. UNCHANGED Affine!vars => still
  BY DEF Affine!vars, Affine!machine, Affine!process
<1> HIDE DEF still
<1> QED BY <1>1, <1>2, <1>3, <1>4, ThreadBeginsKeeps, ProcessExitsKeeps, DialogKeeps,
        SetDefaultsKeeps, SetProcessMaskKeeps, ListThreadsKeeps, OpenThreadKeeps, SetThreadKeeps,
        ListAgainKeeps, VerifyThreadKeeps, SucceedKeeps, RollbackKeeps, RestoreKeeps
        DEF Affine!Next

\* When the command has failed, the rollback has nothing left to give back.
LEMMA AffineFailure == AffineInv => Affine!FailureRestores
<1> SUFFICES ASSUME AffineInv, call.at = "done", ~call.ok, ~call.lost, alive
             PROVE  mask = before.mask /\ defaults = before.defaults
  BY DEF Affine!FailureRestores
<1>1. call.changed = <<>> /\ defaults = before.defaults
  BY DEF AffineInv, AffineOrder
<1>2. \A t \in DOMAIN mask : mask[t] = before.mask[t]
  BY <1>1 DEF AffineInv, AffineRestorable, Entries
<1>3. mask \in [DOMAIN mask -> Masks] /\ before.mask \in [DOMAIN mask -> Masks]
  BY DEF AffineInv, AffineTyped
<1> QED BY <1>1, <1>2, <1>3

\* Set Affinity confines every thread and all to come, or it changes nothing, for
\* any processors and groups, however many threads begin and end, whoever uses
\* their IDs again and whichever calls fail (apply_affinity_selection,
\* apply_thread_group_affinities, verify_racing_thread_affinities).
THEOREM AffinityIsAllOrNothing == ResourcesSpec => []AllOrNothing
<1> DEFINE Kept == which = "affinity" => AffineInv
<1>1. ResourcesInit => Kept
  BY AffineStart DEF ResourcesInit
<1>2. Kept /\ [ResourcesNext]_<<which, vars, affinityVars, applicationsVars, poolVars>> => Kept'
  <2> SUFFICES ASSUME which = "affinity", which' = "affinity", AffineInv,
                      [Affine!Next]_(Affine!vars)
               PROVE  AffineInv'
    BY DEF ResourcesNext, affinityVars, Affine!vars, Affine!machine, Affine!process
  <2> QED
    BY AffineNextKeeps
<1>3. Kept => AllOrNothing
  BY AffineFailure DEF AllOrNothing, AffineInv
<1> QED
  BY <1>1, <1>2, <1>3, PTL DEF ResourcesSpec

-----------------------------------------------------------------------------
(* Elements of a finite set by their place in an order.                     *)

\* The place of an element of a set in an order: how many elements are before it.
Place(S, R, x) == Cardinality({y \in S : <<y, x>> \in R})

\* A relation, a set of pairs, is a strict total order of a set.
Orders(R, S) ==
    /\ \A x, y \in S : x = y \/ <<x, y>> \in R \/ <<y, x>> \in R
    /\ \A x \in S : <<x, x>> \notin R
    /\ \A x, y, z \in S : <<x, y>> \in R /\ <<y, z>> \in R => <<x, z>> \in R

\* A sequence has at each index the element with that place, if there is one.
Enumerates(f, S, R) ==
    /\ f = [i \in 1..Cardinality(S) |-> f[i]]
    /\ \A i \in 1..Cardinality(S) :
         (\E x \in S : Place(S, R, x) = i - 1) => f[i] \in S /\ Place(S, R, f[i]) = i - 1

\* In a strict total order of a finite set a place is below the set's size, and a
\* later element has a higher one.
LEMMA PlacesRise ==
  ASSUME NEW S, IsFiniteSet(S), NEW R, Orders(R, S)
  PROVE  /\ Cardinality(S) \in Nat
         /\ \A x \in S : Place(S, R, x) \in Nat /\ Place(S, R, x) + 1 <= Cardinality(S)
         /\ \A x, z \in S : <<x, z>> \in R => Place(S, R, x) < Place(S, R, z)
<1> DEFINE Before(x) == {y \in S : <<y, x>> \in R}
           n == Cardinality(S)
<1>0. /\ \A x, y \in S : x = y \/ <<x, y>> \in R \/ <<y, x>> \in R
      /\ \A x \in S : <<x, x>> \notin R
      /\ \A x, y, z \in S : <<x, y>> \in R /\ <<y, z>> \in R => <<x, z>> \in R
  BY DEF Orders
<1>1. n \in Nat
  BY FS_CardinalityType
<1>2. \A x \in S : IsFiniteSet(Before(x)) /\ Cardinality(Before(x)) \in Nat
  <2> TAKE x \in S
  <2>1. Before(x) \in SUBSET S
    OBVIOUS
  <2> HIDE DEF Before
  <2> QED
    BY <2>1, FS_Subset, FS_CardinalityType
<1>3. ASSUME NEW x \in S
      PROVE  Cardinality(Before(x)) + 1 <= n
  <2>1. Before(x) \in SUBSET (S \ {x})
    BY <1>0
  <2>2. IsFiniteSet(S \ {x}) /\ Cardinality(S \ {x}) = n - 1
    BY FS_RemoveElement
  <2> HIDE DEF Before
  <2>3. Cardinality(Before(x)) <= Cardinality(S \ {x})
    BY <2>1, <2>2, FS_Subset
  <2> HIDE DEF n
  <2> QED
    BY <1>1, <1>2, <2>2, <2>3
<1>4. ASSUME NEW x \in S, NEW z \in S, <<x, z>> \in R
      PROVE  Cardinality(Before(x)) < Cardinality(Before(z))
  <2>1. Before(x) \union {x} \in SUBSET Before(z) /\ x \notin Before(x)
    BY <1>0, <1>4
  <2> HIDE DEF Before
  <2>2. IsFiniteSet(Before(x) \union {x})
        /\ Cardinality(Before(x) \union {x}) = Cardinality(Before(x)) + 1
    BY <1>2, <2>1, FS_AddElement
  <2>3. Cardinality(Before(x) \union {x}) <= Cardinality(Before(z))
    BY <1>2, <2>1, FS_Subset
  <2> QED
    BY <1>2, <2>2, <2>3
<1> QED
  BY <1>1, <1>2, <1>3, <1>4 DEF Place

\* In such an order every element has a place of its own, and every place is
\* taken.
LEMMA Ranked ==
  ASSUME NEW S, IsFiniteSet(S), NEW R, Orders(R, S)
  PROVE  /\ Cardinality(S) \in Nat
         /\ \A i \in 1..Cardinality(S) :
              \E x \in S : Place(S, R, x) = i - 1
         /\ \A x, z \in S : Place(S, R, x) = Place(S, R, z) => x = z
<1> DEFINE n == Cardinality(S)
           f == [x \in S |-> Place(S, R, x) + 1]
<1>1. /\ n \in Nat
      /\ \A x \in S : Place(S, R, x) \in Nat /\ Place(S, R, x) + 1 <= n
      /\ \A x, z \in S : <<x, z>> \in R => Place(S, R, x) < Place(S, R, z)
  BY PlacesRise
<1>2. ASSUME NEW x \in S, NEW z \in S, Place(S, R, x) = Place(S, R, z)
      PROVE  x = z
  <2>1. <<x, z>> \notin R /\ <<z, x>> \notin R
    BY <1>1, <1>2
  <2> QED
    BY <2>1 DEF Orders
<1>3. f \in Injection(S, 1..n)
  <2> HIDE DEF n
  <2>1. f \in [S -> 1..n]
    BY <1>1
  <2>2. ASSUME NEW x \in S, NEW z \in S, f[x] = f[z]
        PROVE  x = z
    <3>1. Place(S, R, x) + 1 = Place(S, R, z) + 1
      BY <2>2
    <3>2. Place(S, R, x) = Place(S, R, z)
      BY <1>1, <3>1
    <3> QED
      BY <1>2, <3>2
  <2> QED
    BY <2>1, <2>2, Fun_IsInj
<1>4. IsFiniteSet(1..n) /\ Cardinality(1..n) = n
  <2> HIDE DEF n
  <2> QED
    BY <1>1, FS_Interval
<1>5. f \in Surjection(S, 1..n)
  BY <1>3, <1>4, FS_Injection
<1>6. ASSUME NEW i \in 1..n
      PROVE  \E x \in S : Place(S, R, x) = i - 1
  <2>1. PICK x \in S : f[x] = i
    BY <1>5 DEF Surjection
  <2>2. Place(S, R, x) + 1 = i
    BY <2>1
  <2> HIDE DEF n, f
  <2> QED
    BY <1>1, <2>2
<1> QED
  BY <1>1, <1>2, <1>6

\* A function on 1..n is a sequence of length n.
LEMMA FunctionIsSequence ==
  ASSUME NEW n \in Nat, NEW f, f = [i \in 1..n |-> f[i]]
  PROVE  /\ Len(f) = n /\ DOMAIN f = 1..n
         /\ \A S : (\A i \in 1..n : f[i] \in S) => f \in Seq(S)
<1>1. \A S : (\A i \in 1..n : f[i] \in S) => f \in Seq(S)
  <2> TAKE S
  <2> HAVE \A i \in 1..n : f[i] \in S
  <2>1. f \in [1..n -> S]
    OBVIOUS
  <2> QED
    BY <2>1, SeqDef
<1>2. f \in Seq({f[i] : i \in 1..n})
  BY <1>1
<1>3. DOMAIN f = 1..n
  OBVIOUS
<1>4. Len(f) \in Nat /\ DOMAIN f = 1..Len(f)
  BY <1>2, LenProperties
<1> QED
  BY <1>1, <1>3, <1>4

\* The elements of a finite set in the order of a relation.
LEMMA Enumerated ==
  ASSUME NEW S, IsFiniteSet(S), NEW R, Orders(R, S), NEW f, Enumerates(f, S, R)
  PROVE  /\ Cardinality(S) \in Nat /\ Len(f) = Cardinality(S)
         /\ f = [i \in 1..Cardinality(S) |-> f[i]]
         /\ \A i \in 1..Cardinality(S) : f[i] \in S
         /\ \A i, j \in 1..Cardinality(S) : f[i] = f[j] => i = j
<1> DEFINE n == Cardinality(S)
<1>1. n \in Nat /\ \A i \in 1..n : \E x \in S : Place(S, R, x) = i - 1
  BY Ranked
<1>3. /\ f = [i \in 1..n |-> f[i]]
      /\ \A i \in 1..n : (\E x \in S : Place(S, R, x) = i - 1)
                         => f[i] \in S /\ Place(S, R, f[i]) = i - 1
  BY DEF Enumerates
<1> HIDE DEF n
<1>4. \A i \in 1..n : f[i] \in S /\ Place(S, R, f[i]) = i - 1
  BY <1>1, <1>3
<1>5. \A i, j \in 1..n : f[i] = f[j] => i = j
  <2> TAKE i, j \in 1..n
  <2> HAVE f[i] = f[j]
  <2>1. i - 1 = j - 1
    BY <1>4
  <2> QED
    BY <1>1, <2>1
<1>6. Len(f) = n
  BY <1>1, <1>3, FunctionIsSequence
<1> QED
  BY <1>1, <1>3, <1>4, <1>5, <1>6 DEF n

-----------------------------------------------------------------------------
(* The Applications page: whose icon a slot holds, which icons are under    *)
(* way, and in which order the tasks are.                                   *)

\* A task has a window, and tasks have one each.
FitTask(t) ==
    /\ t = [w |-> t.w, hung |-> t.hung, slot |-> t.slot, loaded |-> t.loaded]
    /\ t.w \in Windows /\ t.slot \in Nat
FitTasks(ts) ==
    /\ Len(ts) \in Nat /\ ts = [i \in 1..Len(ts) |-> ts[i]]
    /\ \A i \in 1..Len(ts) : FitTask(ts[i])
    /\ \A i, j \in 1..Len(ts) : ts[i].w = ts[j].w => i = j

\* Tasks in the order the user chose.
Rises(ts, p) == \A i, j \in 1..Len(ts) : i < j => Apps!Precedes(ts[i], ts[j], p)

\* The page, whatever its list view shows.
FieldsOf(p) ==
    [tasks |-> p.tasks, displayed |-> p.displayed, images |-> p.images, marked |-> p.marked,
     count |-> p.count, column |-> p.column, descending |-> p.descending, first |-> p.first]
FitView(p) ==
    /\ p = FieldsOf(p) /\ p.column \in {"name", "status"}
    /\ FitTasks(p.tasks) /\ Rises(p.tasks, p)

\* The slots: those free are there and are different, and that of a task holds
\* the icon of its window and is not free.
FitStore(s) ==
    /\ s = [images |-> s.images, free |-> s.free]
    /\ s.images \in Seq(Int) /\ s.free \in Seq(Nat)
    /\ \A k \in 1..Len(s.free) : s.free[k] \in 1..Len(s.images)
    /\ \A k, l \in 1..Len(s.free) : s.free[k] = s.free[l] => k = l
Holds(s, t) ==
    t.slot # 0 => /\ t.slot \in 1..Len(s.images) /\ s.images[t.slot] = t.w
                  /\ \A k \in 1..Len(s.free) : s.free[k] # t.slot
HoldsAll(s, ts) == \A i \in 1..Len(ts) : Holds(s, ts[i])

\* What the workers have: a snapshot has a row for a window at most; a batch is
\* with the icon worker, another waits only behind it, and none is in both.
FitRows(rows) ==
    /\ \A r \in rows : r = [w |-> r.w, hung |-> r.hung] /\ r.w \in Windows
    /\ \A r, q \in rows : r.w = q.w => r = q
FitSampler(s) ==
    /\ s = [at |-> s.at, rows |-> s.rows, ok |-> s.ok, queued |-> s.queued]
    /\ FitRows(s.rows)
FitCollector(c) ==
    /\ c = [at |-> c.at, batch |-> c.batch, ok |-> c.ok, found |-> c.found, queue |-> c.queue]
    /\ c.at = "idle" => c.batch = {} /\ c.queue = {}
    /\ c.batch \intersect c.queue = {}

AppsInv ==
    /\ open \subseteq Windows
    /\ FitView(page) /\ FitStore(icons) /\ HoldsAll(icons, page.tasks)
    /\ FitSampler(sampler) /\ FitCollector(collector)
    /\ pending = collector.batch \union collector.queue

-----------------------------------------------------------------------------
(* Sorting the tasks.                                                       *)

\* The tasks that come before one another, as a relation.
Before(ts, p) == {q \in ts \X ts : Apps!Precedes(q[1], q[2], p)}

\* Tasks of a window each.
Apart(ts) ==
    /\ \A t \in ts : FitTask(t)
    /\ \A t, u \in ts : t.w = u.w => t = u

LEMMA BeforeMeans ==
  ASSUME NEW ts, NEW p
  PROVE  \A t, u \in ts : <<t, u>> \in Before(ts, p) <=> Apps!Precedes(t, u, p)
  BY DEF Before

\* compare_tasks is a strict order of tasks that have a window each.
LEMMA TasksAreOrdered ==
  ASSUME NEW p, NEW ts, Apart(ts)
  PROVE  Orders(Before(ts, p), ts)
<1> DEFINE less(t, u) == \/ Apps!Key(t, p.column) < Apps!Key(u, p.column)
                         \/ Apps!Key(t, p.column) = Apps!Key(u, p.column) /\ t.w < u.w
<1>0. \A t \in ts : FitTask(t) /\ \A u \in ts : t.w = u.w => t = u
  BY DEF Apart
<1>1. \A t \in ts : Apps!Key(t, p.column) \in Int /\ t.w \in Int
  BY <1>0, WindowsAssumption DEF Apps!Key, FitTask
<1>2. /\ \A t, u \in ts : t = u \/ less(t, u) \/ less(u, t)
      /\ \A t \in ts : ~less(t, t)
      /\ \A t, u, v \in ts : less(t, u) /\ less(u, v) => less(t, v)
  <2>1. \A t, u \in ts : t = u \/ less(t, u) \/ less(u, t)
    BY <1>0, <1>1
  <2>2. \A t \in ts : ~less(t, t)
    BY <1>1
  <2>3. \A t, u, v \in ts : less(t, u) /\ less(u, v) => less(t, v)
    BY <1>1
  <2> QED BY <2>1, <2>2, <2>3
<1>3. \A t, u : Apps!Precedes(t, u, p) <=> IF p.descending THEN t # u /\ ~less(t, u) ELSE less(t, u)
  BY DEF Apps!Precedes
<1> HIDE DEF less
<1>4. /\ \A t, u \in ts : t = u \/ Apps!Precedes(t, u, p) \/ Apps!Precedes(u, t, p)
      /\ \A t \in ts : ~Apps!Precedes(t, t, p)
      /\ \A t, u, v \in ts : Apps!Precedes(t, u, p) /\ Apps!Precedes(u, v, p) => Apps!Precedes(t, v, p)
  <2>1. CASE ~p.descending
    BY <1>2, <1>3, <2>1
  <2>2. CASE p.descending
    <3>1. \A t, u \in ts : Apps!Precedes(t, u, p) <=> less(u, t)
      BY <1>2, <1>3, <2>2
    <3> QED BY <1>2, <3>1
  <2> QED BY <2>1, <2>2
<1> QED BY <1>4, BeforeMeans DEF Orders

\* The place that InOrder looks for.
LEMMA PlaceOfTask ==
  ASSUME NEW p, NEW ts, NEW t \in ts
  PROVE  Apps!Cardinality({u \in ts : Apps!Precedes(u, t, p)}) = Place(ts, Before(ts, p), t)
<1>1. {u \in ts : Apps!Precedes(u, t, p)} = {y \in ts : <<y, t>> \in Before(ts, p)}
  BY BeforeMeans
<1> QED BY <1>1 DEF Apps!Cardinality, Cardinality, Place

\* InOrder puts each task at its place.
LEMMA InOrderEnumerates ==
  ASSUME NEW p, NEW ts
  PROVE  Enumerates(Apps!InOrder(ts, p), ts, Before(ts, p))
<1> DEFINE R == Before(ts, p)
           f == Apps!InOrder(ts, p)
           Low(t) == Apps!Cardinality({u \in ts : Apps!Precedes(u, t, p)})
<1>1. \A t \in ts : Low(t) = Place(ts, R, t)
  BY PlaceOfTask
<1>2. f = [i \in 1..Cardinality(ts) |-> CHOOSE t \in ts : Low(t) = i - 1]
  BY DEF Apps!InOrder, Apps!Cardinality, Cardinality
<1> HIDE DEF f, Low, R
<1>3. f = [i \in 1..Cardinality(ts) |-> f[i]]
  BY <1>2
<1>4. ASSUME NEW i \in 1..Cardinality(ts), NEW t \in ts, Place(ts, R, t) = i - 1
      PROVE  f[i] \in ts /\ Place(ts, R, f[i]) = i - 1
  <2>1. f[i] = CHOOSE u \in ts : Low(u) = i - 1
    BY <1>2
  <2>2. Low(t) = i - 1
    BY <1>1, <1>4
  <2>3. f[i] \in ts /\ Low(f[i]) = i - 1
    BY <2>1, <2>2
  <2> QED BY <1>1, <2>3
<1> QED BY <1>3, <1>4 DEF Enumerates, f, R

\* So the tasks of a finite set are all listed, in their order.
OrderedOf(us, ts, p) ==
    /\ FitTasks(us) /\ Rises(us, p)
    /\ \A i \in 1..Len(us) : us[i] \in ts
    /\ \A t \in ts : \E i \in 1..Len(us) : us[i] = t

LEMMA InOrderIsOrdered ==
  ASSUME NEW p, NEW ts, IsFiniteSet(ts), Apart(ts)
  PROVE  OrderedOf(Apps!InOrder(ts, p), ts, p)
<1> DEFINE R == Before(ts, p)
           f == Apps!InOrder(ts, p)
           n == Cardinality(ts)
<1>1. Orders(R, ts) /\ Enumerates(f, ts, R)
  BY TasksAreOrdered, InOrderEnumerates
<1>b. \A t, u \in ts : <<t, u>> \in R <=> Apps!Precedes(t, u, p)
  BY BeforeMeans
<1> HIDE DEF R, f
<1>2. /\ n \in Nat /\ Len(f) = n /\ f = [i \in 1..n |-> f[i]]
      /\ \A i \in 1..n : f[i] \in ts
      /\ \A i, j \in 1..n : f[i] = f[j] => i = j
  BY <1>1, Enumerated
<1>3. /\ \A i \in 1..n : \E x \in ts : Place(ts, R, x) = i - 1
      /\ \A x, z \in ts : Place(ts, R, x) = Place(ts, R, z) => x = z
      /\ \A x \in ts : Place(ts, R, x) \in Nat /\ Place(ts, R, x) + 1 <= n
      /\ \A x, z \in ts : <<x, z>> \in R => Place(ts, R, x) < Place(ts, R, z)
  BY <1>1, Ranked, PlacesRise
<1>4. \A i \in 1..n : Place(ts, R, f[i]) = i - 1
  BY <1>1, <1>3 DEF Enumerates
<1> HIDE DEF n
<1>5. FitTasks(f)
  <2>1. \A i \in 1..n : FitTask(f[i])
    BY <1>2 DEF Apart
  <2>2. \A i, j \in 1..n : f[i].w = f[j].w => i = j
    BY <1>2 DEF Apart
  <2> QED BY <1>2, <2>1, <2>2 DEF FitTasks
<1>6. Rises(f, p)
  <2> SUFFICES ASSUME NEW i \in 1..n, NEW j \in 1..n, i < j PROVE Apps!Precedes(f[i], f[j], p)
    BY <1>2 DEF Rises
  <2>1. f[i] \in ts /\ f[j] \in ts /\ f[i] # f[j]
    BY <1>2
  <2>2. <<f[j], f[i]>> \notin R
    <3> SUFFICES ASSUME <<f[j], f[i]>> \in R PROVE FALSE
      OBVIOUS
    <3>1. Place(ts, R, f[j]) < Place(ts, R, f[i])
      BY <1>3, <2>1
    <3>2. j - 1 < i - 1
      BY <1>4, <3>1
    <3> QED BY <1>2, <3>2
  <2>3. <<f[i], f[j]>> \in R
    BY <1>1, <2>1, <2>2 DEF Orders
  <2> QED BY <1>b, <2>1, <2>3
<1>7. \A t \in ts : \E i \in 1..n : f[i] = t
  <2> TAKE t \in ts
  <2> DEFINE k == Place(ts, R, t) + 1
  <2>1. k \in 1..n /\ k - 1 = Place(ts, R, t)
    BY <1>2, <1>3
  <2> HIDE DEF k
  <2>2. f[k] \in ts /\ Place(ts, R, f[k]) = Place(ts, R, t)
    BY <1>2, <1>4, <2>1
  <2>3. f[k] = t
    BY <1>3, <2>2
  <2> QED BY <2>1, <2>3
<1> QED BY <1>2, <1>5, <1>6, <1>7 DEF OrderedOf, f

\* The first tasks of a list are as many as their places.
Firsts(ts, n) == {ts[i] : i \in 1..n}
LEMMA FirstsAreCounted ==
  ASSUME NEW ts, FitTasks(ts), NEW n \in 0..Len(ts)
  PROVE  IsFiniteSet(Firsts(ts, n)) /\ Cardinality(Firsts(ts, n)) = n
<1> DEFINE f == [i \in 1..n |-> ts[i]]
<1>0. n \in Nat /\ \A i \in 1..n : i \in 1..Len(ts)
  BY DEF FitTasks
<1>1. \A i, j \in 1..n : ts[i] = ts[j] => i = j
  BY <1>0 DEF FitTasks
<1>2. f \in Bijection(1..n, Firsts(ts, n))
  <2>1. f \in [1..n -> Firsts(ts, n)]
    BY DEF Firsts
  <2>2. \A i, j \in 1..n : f[i] = f[j] => i = j
    BY <1>1
  <2>3. \A t \in Firsts(ts, n) : \E i \in 1..n : f[i] = t
    BY DEF Firsts
  <2> QED BY <2>1, <2>2, <2>3, Fun_IsBij
<1>3. ExistsBijection(1..n, Firsts(ts, n))
  BY <1>2 DEF ExistsBijection
<1> QED BY <1>0, <1>3, FS_NatBijection, FS_CountingElements

\* A list in order is what sorting its tasks gives.
LEMMA RisingIsSorted ==
  ASSUME NEW p, NEW ts, FitTasks(ts), Rises(ts, p)
  PROVE  ts = Apps!InOrder(Firsts(ts, Len(ts)), p)
<1> DEFINE S == Firsts(ts, Len(ts))
           R == Before(S, p)
           f == Apps!InOrder(S, p)
           n == Len(ts)
<1>0. n \in Nat /\ ts = [i \in 1..n |-> ts[i]] /\ \A i \in 1..n : ts[i] \in S
  BY DEF FitTasks, Firsts
<1>1. Apart(S)
  BY DEF Apart, FitTasks, Firsts
<1>2. IsFiniteSet(S) /\ Cardinality(S) = n
  BY <1>0, FirstsAreCounted
<1>3. Orders(R, S) /\ Enumerates(f, S, R)
  BY <1>1, TasksAreOrdered, InOrderEnumerates
<1>b. \A t, u \in S : <<t, u>> \in R <=> Apps!Precedes(t, u, p)
  BY BeforeMeans
<1>4. ASSUME NEW i \in 1..n PROVE Place(S, R, ts[i]) = i - 1
  <2>1. {y \in S : <<y, ts[i]>> \in R} = Firsts(ts, i - 1)
    <3>1. ASSUME NEW j \in 1..n PROVE <<ts[j], ts[i]>> \in R <=> j < i
      <4>1. j < i => <<ts[j], ts[i]>> \in R
        BY <1>0, <1>b DEF Rises
      <4>2. i < j => <<ts[i], ts[j]>> \in R
        BY <1>0, <1>b DEF Rises
      <4> HIDE DEF R, S
      <4>3. <<ts[i], ts[i]>> \notin R /\ ~(<<ts[i], ts[j]>> \in R /\ <<ts[j], ts[i]>> \in R)
        BY <1>0, <1>3 DEF Orders
      <4>4. i < j \/ i = j \/ j < i
        OBVIOUS
      <4> QED BY <1>0, <4>1, <4>2, <4>3, <4>4
    <3>2. ASSUME NEW y \in S, <<y, ts[i]>> \in R PROVE y \in Firsts(ts, i - 1)
      <4>1. PICK j \in 1..n : y = ts[j]
        BY DEF Firsts
      <4>2. j \in 1..(i - 1)
        BY <3>1, <3>2, <4>1
      <4> QED BY <4>1, <4>2 DEF Firsts
    <3>3. ASSUME NEW y \in Firsts(ts, i - 1) PROVE y \in S /\ <<y, ts[i]>> \in R
      <4>1. PICK j \in 1..(i - 1) : y = ts[j]
        BY DEF Firsts
      <4>2. j \in 1..n /\ j < i
        BY <1>0
      <4> QED BY <1>0, <3>1, <4>1, <4>2
    <3> QED BY <3>2, <3>3
  <2>2. i - 1 \in 0..n
    BY <1>0
  <2>3. Cardinality(Firsts(ts, i - 1)) = i - 1
    BY <2>2, FirstsAreCounted
  <2> QED BY <2>1, <2>3 DEF Place
<1> HIDE DEF R, S, f
<1>5. \A x, z \in S : Place(S, R, x) = Place(S, R, z) => x = z
  BY <1>2, <1>3, Ranked
<1>6. f = [i \in 1..n |-> f[i]]
  BY <1>2, <1>3 DEF Enumerates
<1>7. \A i \in 1..n : f[i] = ts[i]
  <2> TAKE i \in 1..n
  <2>1. ts[i] \in S /\ Place(S, R, ts[i]) = i - 1
    BY <1>0, <1>4
  <2>2. f[i] \in S /\ Place(S, R, f[i]) = i - 1
    BY <1>2, <1>3, <2>1 DEF Enumerates
  <2> QED BY <1>5, <2>1, <2>2
<1>8. ts = f
  BY <1>0, <1>6, <1>7
<1> QED BY <1>8 DEF f, S

\* Tasks at the same places with the same keys are in the same order.
SameOrder(ts, us, p) ==
    /\ Len(us) = Len(ts)
    /\ \A i \in 1..Len(ts) : us[i].w = ts[i].w /\ Apps!Key(us[i], p.column) = Apps!Key(ts[i], p.column)

LEMMA SameOrderRises ==
  ASSUME NEW ts, NEW us, NEW p, NEW q, FitTasks(ts), FitTasks(us), SameOrder(ts, us, p),
         q.column = p.column, q.descending = p.descending, Rises(ts, p)
  PROVE  Rises(us, q)
<1> SUFFICES ASSUME NEW i \in 1..Len(us), NEW j \in 1..Len(us), i < j
             PROVE  Apps!Precedes(us[i], us[j], q)
  BY DEF Rises
<1>1. i \in 1..Len(ts) /\ j \in 1..Len(ts) /\ i # j
  BY DEF SameOrder, FitTasks
<1>2. Apps!Precedes(ts[i], ts[j], p)
  BY <1>1 DEF Rises
<1>3. us[i] # us[j] /\ ts[i] # ts[j]
  BY <1>1 DEF FitTasks
<1>4. /\ us[i].w = ts[i].w /\ Apps!Key(us[i], p.column) = Apps!Key(ts[i], p.column)
      /\ us[j].w = ts[j].w /\ Apps!Key(us[j], p.column) = Apps!Key(ts[j], p.column)
  BY <1>1 DEF SameOrder
<1> QED BY <1>2, <1>3, <1>4 DEF Apps!Precedes

-----------------------------------------------------------------------------
(* The slots of the icons.                                                  *)

\* Released takes the slots by their rank.
Lower(t) == {q \in t \X t : q[1] < q[2]}
InTurn(t) == [i \in 1..Cardinality(t) |->
                CHOOSE x \in t : Cardinality({y \in t : y < x}) = i - 1]

LEMMA InTurnLists ==
  ASSUME NEW t \in SUBSET Nat, IsFiniteSet(t)
  PROVE  /\ Cardinality(t) \in Nat /\ InTurn(t) \in Seq(Nat) /\ Len(InTurn(t)) = Cardinality(t)
         /\ \A i \in 1..Cardinality(t) : InTurn(t)[i] \in t
         /\ \A i, j \in 1..Cardinality(t) : InTurn(t)[i] = InTurn(t)[j] => i = j
<1> DEFINE R == Lower(t)
           f == InTurn(t)
           Rank(x) == Cardinality({y \in t : y < x})
           n == Cardinality(t)
<1>1. \A x, y \in t : <<x, y>> \in R <=> x < y
  BY DEF Lower
<1>2. \A x \in t : Rank(x) = Place(t, R, x)
  <2> TAKE x \in t
  <2>1. {y \in t : y < x} = {y \in t : <<y, x>> \in R}
    BY <1>1
  <2> QED BY <2>1 DEF Place
<1>3. f = [i \in 1..n |-> CHOOSE x \in t : Rank(x) = i - 1]
  BY DEF InTurn
<1> HIDE DEF R, f, Rank
<1>4. Orders(R, t)
  BY <1>1 DEF Orders
<1>5. Enumerates(f, t, R)
  <2>1. f = [i \in 1..n |-> f[i]]
    BY <1>3
  <2>2. ASSUME NEW i \in 1..n, NEW x \in t, Place(t, R, x) = i - 1
        PROVE  f[i] \in t /\ Place(t, R, f[i]) = i - 1
    <3>1. f[i] = CHOOSE y \in t : Rank(y) = i - 1
      BY <1>3
    <3>2. Rank(x) = i - 1
      BY <1>2, <2>2
    <3>3. f[i] \in t /\ Rank(f[i]) = i - 1
      BY <3>1, <3>2
    <3> QED BY <1>2, <3>3
  <2> QED BY <2>1, <2>2 DEF Enumerates
<1>6. /\ n \in Nat /\ Len(f) = n /\ f = [i \in 1..n |-> f[i]]
      /\ \A i \in 1..n : f[i] \in t
      /\ \A i, j \in 1..n : f[i] = f[j] => i = j
  BY <1>4, <1>5, Enumerated
<1> HIDE DEF n
<1>7. f \in Seq(Nat)
  <2>1. \A i \in 1..n : f[i] \in Nat
    BY <1>6
  <2> QED BY <1>6, <2>1, FunctionIsSequence
<1> QED BY <1>6, <1>7 DEF f, n

\* One list of slots behind another.
LEMMA SlotsJoin ==
  ASSUME NEW f \in Seq(Nat), NEW g \in Seq(Nat)
  PROVE  /\ f \o g \in Seq(Nat) /\ Len(f \o g) = Len(f) + Len(g)
         /\ \A i \in 1..(Len(f) + Len(g)) : (f \o g)[i] = IF i <= Len(f) THEN f[i] ELSE g[i - Len(f)]
<1>1. /\ f \o g \in Seq(Nat) /\ Len(f \o g) = Len(f) + Len(g)
      /\ \A i \in 1..Len(f) + Len(g) : (f \o g)[i] = IF i <= Len(f) THEN f[i] ELSE g[i - Len(f)]
  BY ConcatProperties, Zenon
<1> QED BY <1>1

\* A store whose slots were given back: nothing else is lost or shared.
GivenBack(q, s, slots) ==
    /\ FitStore(q)
    /\ \A t : Holds(s, t) /\ t.slot \notin slots => Holds(q, t)

LEMMA ReleasedFits ==
  ASSUME NEW s, FitStore(s), NEW slots \in SUBSET (1..Len(s.images)),
         \A k \in 1..Len(s.free) : s.free[k] \notin slots
  PROVE  GivenBack(Apps!Released(s, slots), s, slots)
<1> DEFINE a == [k \in DOMAIN s.images |-> IF k \in slots THEN 0 ELSE s.images[k]]
           b == InTurn(slots)
           c == s.free \o b
           n == Len(s.images)
           m == Len(s.free)
           r == Cardinality(slots)
<1>0. /\ s.images \in Seq(Int) /\ s.free \in Seq(Nat) /\ n \in Nat /\ m \in Nat
      /\ \A k \in 1..m : s.free[k] \in 1..n
      /\ \A k, l \in 1..m : s.free[k] = s.free[l] => k = l
  BY DEF FitStore
<1>1. /\ r \in Nat /\ b \in Seq(Nat) /\ Len(b) = r
      /\ \A i \in 1..r : b[i] \in slots
      /\ \A i, j \in 1..r : b[i] = b[j] => i = j
  <2>1. IsFiniteSet(slots) /\ slots \in SUBSET Nat
    <3>1. IsFiniteSet(1..n) /\ slots \in SUBSET (1..n)
      BY <1>0, FS_Interval
    <3>2. \A k \in slots : k \in Nat
      BY <1>0
    <3> HIDE DEF n
    <3> QED BY <3>1, <3>2, FS_Subset
  <2> QED BY <2>1, InTurnLists
<1>2. Apps!Released(s, slots) = [images |-> a, free |-> c]
  BY DEF Apps!Released, Apps!Cardinality, Cardinality, InTurn
<1>3. a \in Seq(Int) /\ Len(a) = n /\ \A k \in 1..n : a[k] = IF k \in slots THEN 0 ELSE s.images[k]
  <2>1. DOMAIN s.images = 1..n /\ \A k \in 1..n : s.images[k] \in Int
    BY <1>0
  <2>2. a = [k \in 1..n |-> a[k]] /\ \A k \in 1..n : a[k] = IF k \in slots THEN 0 ELSE s.images[k]
    BY <2>1
  <2> HIDE DEF a, n
  <2>3. \A k \in 1..n : a[k] \in Int
    BY <2>1, <2>2
  <2> QED BY <1>0, <2>2, <2>3, FunctionIsSequence
<1>4. /\ c \in Seq(Nat) /\ Len(c) = m + r
      /\ \A i \in 1..(m + r) : c[i] = IF i <= m THEN s.free[i] ELSE b[i - m]
  <2> HIDE DEF b, r
  <2>1. /\ s.free \o b \in Seq(Nat) /\ Len(s.free \o b) = Len(s.free) + Len(b)
        /\ \A i \in 1..(Len(s.free) + Len(b)) :
             (s.free \o b)[i] = IF i <= Len(s.free) THEN s.free[i] ELSE b[i - Len(s.free)]
    BY <1>0, <1>1, SlotsJoin
  <2>2. Len(s.free) = m /\ Len(b) = r
    BY <1>1
  <2> HIDE DEF m
  <2> QED BY <2>1, <2>2
<1>s. \A k \in slots : k \in 1..n
  OBVIOUS
<1> HIDE DEF a, b, c, n, m, r
<1>5. \A i \in 1..(m + r) : \/ i \in 1..m /\ c[i] = s.free[i]
                            \/ i - m \in 1..r /\ c[i] = b[i - m] /\ i \notin 1..m
  BY <1>0, <1>1, <1>4
<1>6. \A i \in 1..(m + r) : c[i] \in 1..n
  BY <1>0, <1>1, <1>5, <1>s
<1>7. \A i, j \in 1..(m + r) : c[i] = c[j] => i = j
  <2> TAKE i, j \in 1..(m + r)
  <2> HAVE c[i] = c[j]
  <2>1. CASE i \in 1..m /\ j \in 1..m
    BY <1>0, <1>5, <2>1
  <2>2. CASE i \notin 1..m /\ j \notin 1..m
    <3>1. i - m = j - m
      BY <1>1, <1>5, <2>2
    <3> QED BY <1>0, <1>1, <3>1
  <2>3. \A k \in 1..m, l \in 1..r : s.free[k] # b[l]
    BY <1>1 DEF m
  <2> QED BY <1>5, <2>1, <2>2, <2>3
<1> DEFINE q == [images |-> a, free |-> c]
<1>8. q = [images |-> q.images, free |-> q.free] /\ q.images = a /\ q.free = c
  OBVIOUS
<1> HIDE DEF q
<1>9. FitStore(q)
  BY <1>3, <1>4, <1>6, <1>7, <1>8 DEF FitStore
<1>10. ASSUME NEW t, Holds(s, t), t.slot \notin slots PROVE Holds(q, t)
  <2> SUFFICES ASSUME t.slot # 0
               PROVE  /\ t.slot \in 1..n /\ a[t.slot] = t.w
                      /\ \A k \in 1..(m + r) : c[k] # t.slot
    BY <1>3, <1>4, <1>8 DEF Holds
  <2>1. /\ t.slot \in 1..n /\ s.images[t.slot] = t.w
        /\ \A k \in 1..m : s.free[k] # t.slot
    BY <1>10 DEF Holds, n, m
  <2>2. a[t.slot] = t.w
    BY <1>3, <1>10, <2>1
  <2>3. \A k \in 1..(m + r) : c[k] # t.slot
    BY <1>1, <1>5, <1>10, <2>1
  <2> QED BY <2>1, <2>2, <2>3
<1> QED BY <1>2, <1>9, <1>10 DEF GivenBack, q

\* A slot taken for a window: it holds the window's icon, and no task had it.
TakenFor(q, s, w, slot) ==
    /\ FitStore(q)
    /\ slot \in Nat /\ \A t : t.slot = slot /\ t.w = w => Holds(q, t)
    /\ \A t : Holds(s, t) => Holds(q, t)

LEMMA AllocatedFits ==
  ASSUME NEW s, FitStore(s), NEW w \in Windows
  PROVE  TakenFor(Apps!Allocated(s, w), s, w, IF w \in Bare THEN 0 ELSE Apps!Slot(s))
<1> DEFINE n == Len(s.images)
           m == Len(s.free)
<1>0. /\ s = [images |-> s.images, free |-> s.free]
      /\ s.images \in Seq(Int) /\ s.free \in Seq(Nat) /\ n \in Nat /\ m \in Nat /\ w \in Int
      /\ \A k \in 1..m : s.free[k] \in 1..n
      /\ \A k, l \in 1..m : s.free[k] = s.free[l] => k = l
  BY WindowsAssumption DEF FitStore
<1>1. CASE w \in Bare
  BY <1>1 DEF Apps!Allocated, TakenFor, Holds
\* What has to be shown of the images and the free slots there are then.
<1>2. ASSUME NEW a \in Seq(Int), NEW c \in Seq(Nat), NEW x \in 1..Len(a),
             \A k \in 1..n : k \in 1..Len(a) /\ (k # x => a[k] = s.images[k]),
             a[x] = w, \A t : Holds(s, t) /\ t.slot # 0 => t.slot # x,
             \A k \in 1..Len(c) : k \in 1..m /\ c[k] = s.free[k] /\ c[k] # x
      PROVE  TakenFor([images |-> a, free |-> c], s, w, x)
  <2> DEFINE q == [images |-> a, free |-> c]
  <2>1. q = [images |-> q.images, free |-> q.free] /\ q.images = a /\ q.free = c
    OBVIOUS
  <2> HIDE DEF q
  <2>2. FitStore(q)
    <3>1. \A k \in 1..Len(c) : c[k] \in 1..Len(a)
      BY <1>0, <1>2
    <3>2. \A k, l \in 1..Len(c) : c[k] = c[l] => k = l
      BY <1>0, <1>2
    <3> QED BY <2>1, <3>1, <3>2 DEF FitStore
  <2>3. x \in Nat /\ \A t : t.slot = x /\ t.w = w => Holds(q, t)
    BY <1>2, <2>1 DEF Holds
  <2>4. ASSUME NEW t, Holds(s, t) PROVE Holds(q, t)
    <3> SUFFICES ASSUME t.slot # 0 PROVE Holds(q, t)
      BY DEF Holds
    <3>1. /\ t.slot \in 1..n /\ s.images[t.slot] = t.w /\ t.slot # x
          /\ \A k \in 1..m : s.free[k] # t.slot
      BY <1>2, <2>4 DEF Holds
    <3> QED BY <1>2, <2>1, <3>1 DEF Holds
  <2> QED BY <2>2, <2>3, <2>4 DEF TakenFor, q
<1>3. CASE w \notin Bare /\ s.free = << >>
  <2> DEFINE a == Append(s.images, w)
             x == n + 1
  <2>1. Apps!Allocated(s, w) = [images |-> a, free |-> s.free] /\ Apps!Slot(s) = x
    BY <1>0, <1>3 DEF Apps!Allocated, Apps!Slot
  <2>2. /\ a \in Seq(Int) /\ Len(a) = n + 1 /\ a[n + 1] = w
        /\ \A k \in 1..n : a[k] = s.images[k]
    BY <1>0, AppendProperties
  <2>3. Len(s.free) = 0
    BY <1>3
  <2>4. \A t : Holds(s, t) /\ t.slot # 0 => t.slot # x
    BY <1>0 DEF Holds
  <2> HIDE DEF a, n
  <2>5. x \in 1..Len(a) /\ \A k \in 1..n : k \in 1..Len(a) /\ (k # x => a[k] = s.images[k])
    BY <1>0, <2>2
  <2>6. a[x] = w
    BY <2>2
  <2>7. \A k \in 1..Len(s.free) : k \in 1..m /\ s.free[k] = s.free[k] /\ s.free[k] # x
    BY <2>3
  <2> HIDE DEF x
  <2>8. TakenFor([images |-> a, free |-> s.free], s, w, x)
    BY <1>0, <1>2, <2>2, <2>4, <2>5, <2>6, <2>7
  <2> QED BY <1>3, <2>1, <2>8
<1>4. CASE w \notin Bare /\ s.free # << >>
  <2> DEFINE x == s.free[m]
             a == [s.images EXCEPT ![x] = w]
             c == SubSeq(s.free, 1, m - 1)
  <2>0. m \in 1..m /\ m # 0
    BY <1>0, <1>4, EmptySeq
  <2>1. Apps!Allocated(s, w) = [images |-> a, free |-> c] /\ Apps!Slot(s) = x
    BY <1>0, <1>4 DEF Apps!Allocated, Apps!Slot, Apps!Last, Apps!Front
  <2>2. x \in 1..n
    BY <1>0, <2>0
  <2>3. a \in Seq(Int) /\ Len(a) = n /\ a[x] = w /\ \A k \in 1..n : k # x => a[k] = s.images[k]
    <3> HIDE DEF x
    <3> QED BY <1>0, <2>2
  <2>4. c \in Seq(Nat) /\ Len(c) = m - 1 /\ \A k \in 1..(m - 1) : c[k] = s.free[k]
    <3>1. m - 1 \in Int /\ 1 \in Int /\ \A k \in 1..(m - 1) : s.free[k] \in Nat
      BY <1>0, <2>0
    <3>2. /\ SubSeq(s.free, 1, m - 1) \in Seq(Nat)
          /\ Len(SubSeq(s.free, 1, m - 1)) = IF 1 <= m - 1 THEN (m - 1) - 1 + 1 ELSE 0
          /\ \A i \in 1..((m - 1) - 1 + 1) : SubSeq(s.free, 1, m - 1)[i] = s.free[1 + i - 1]
      BY <3>1, SubSeqProperties
    <3> HIDE DEF m
    <3> QED BY <1>0, <2>0, <3>2
  <2>5. \A t : Holds(s, t) /\ t.slot # 0 => t.slot # x
    BY <2>0 DEF Holds
  <2>6. \A k \in 1..Len(c) : k \in 1..m /\ c[k] = s.free[k] /\ c[k] # x
    <3> HIDE DEF m, c
    <3> TAKE k \in 1..Len(c)
    <3>1. k \in 1..m /\ k # m /\ c[k] = s.free[k]
      BY <1>0, <2>0, <2>4
    <3> QED BY <1>0, <2>0, <3>1
  <2> HIDE DEF x, a, c
  <2>7. x \in 1..Len(a) /\ \A k \in 1..n : k \in 1..Len(a) /\ (k # x => a[k] = s.images[k])
    BY <2>2, <2>3
  <2>8. TakenFor([images |-> a, free |-> c], s, w, x)
    BY <1>2, <2>3, <2>4, <2>5, <2>6, <2>7
  <2> QED BY <1>4, <2>1, <2>8
<1> QED BY <1>1, <1>3, <1>4

-----------------------------------------------------------------------------
(* The icons that arrive, one after another.                                *)

\* A page like another but for the icons, and slots that fit its tasks.
LikeTasks(ts, us) ==
    /\ Len(us) = Len(ts)
    /\ \A i \in 1..Len(ts) : us[i].w = ts[i].w /\ us[i].hung = ts[i].hung
Iconized(st, v) ==
    /\ st = [page |-> st.page, icons |-> st.icons]
    /\ st.page = FieldsOf(st.page)
    /\ st.page.column = v.column /\ st.page.descending = v.descending
    /\ FitTasks(st.page.tasks) /\ LikeTasks(v.tasks, st.page.tasks)
    /\ FitStore(st.icons) /\ HoldsAll(st.icons, st.page.tasks)

\* A window that is listed.
Listed(w, ts) == w \in Windows /\ \E i \in 1..Len(ts) : ts[i].w = w

\* The tasks with the icon of one of them.
Iconed(ts, i, slot) ==
    [j \in 1..Len(ts) |-> IF j = i THEN [w |-> ts[i].w, hung |-> ts[i].hung, slot |-> slot, loaded |-> TRUE]
                          ELSE ts[j]]

LEMMA IconedFits ==
  ASSUME NEW ts, FitTasks(ts), NEW i \in 1..Len(ts), NEW slot \in Nat
  PROVE  FitTasks(Iconed(ts, i, slot)) /\ LikeTasks(ts, Iconed(ts, i, slot))
<1> DEFINE us == Iconed(ts, i, slot)
           n == Len(ts)
<1>0. n \in Nat /\ \A j \in 1..n : FitTask(ts[j])
  BY DEF FitTasks
<1>1. us = [j \in 1..n |-> us[j]] /\ \A j \in 1..n : j # i => us[j] = ts[j]
  BY DEF Iconed
<1>2. us[i] = [w |-> ts[i].w, hung |-> ts[i].hung, slot |-> slot, loaded |-> TRUE]
  BY DEF Iconed
<1>3. \A j \in 1..n : us[j].w = ts[j].w /\ us[j].hung = ts[j].hung
  BY <1>1, <1>2
<1> HIDE DEF us
<1>4. Len(us) = n
  <2> HIDE DEF n
  <2> QED BY <1>0, <1>1, FunctionIsSequence
<1>5. \A j \in 1..n : FitTask(us[j])
  <2>1. FitTask(us[i])
    <3> DEFINE t == us[i]
    <3>1. t = [w |-> ts[i].w, hung |-> ts[i].hung, slot |-> slot, loaded |-> TRUE]
      BY <1>2
    <3> HIDE DEF t
    <3>2. t.w = ts[i].w /\ t = [w |-> t.w, hung |-> t.hung, slot |-> t.slot, loaded |-> t.loaded]
          /\ t.slot = slot
      BY <3>1
    <3>3. ts[i].w \in Windows
      BY <1>0 DEF FitTask
    <3>4. FitTask(t)
      BY <3>2, <3>3 DEF FitTask
    <3> QED BY <3>4 DEF t
  <2>2. \A j \in 1..n : j # i => FitTask(us[j])
    BY <1>0, <1>1
  <2> QED BY <2>1, <2>2
<1>6. \A j, k \in 1..n : us[j].w = us[k].w => j = k
  BY <1>3 DEF FitTasks
<1>7. FitTasks(us)
  BY <1>0, <1>1, <1>4, <1>5, <1>6 DEF FitTasks
<1> QED BY <1>3, <1>4, <1>7 DEF LikeTasks, us

LEMMA WithIconIs ==
  ASSUME NEW st, NEW v, Iconized(st, v), NEW w, Listed(w, v.tasks)
  PROVE  \E i \in 1..Len(st.page.tasks) :
           /\ st.page.tasks[i].w = w
           /\ LET slot == IF w \in Bare THEN 0 ELSE Apps!Slot(st.icons)
                  q == Apps!WithIcon(w, st)
              IN  /\ q = [page |-> q.page, icons |-> Apps!Allocated(st.icons, w)]
                  /\ q.page = FieldsOf(q.page) /\ q.page.tasks = Iconed(st.page.tasks, i, slot)
                  /\ q.page.column = v.column /\ q.page.descending = v.descending
<1> DEFINE ts == st.page.tasks
           slot == IF w \in Bare THEN 0 ELSE Apps!Slot(st.icons)
           q == Apps!WithIcon(w, st)
           i == CHOOSE j \in DOMAIN ts : ts[j].w = w
<1>1. /\ st.page = FieldsOf(st.page) /\ FitTasks(ts) /\ LikeTasks(v.tasks, ts)
      /\ st.page.column = v.column /\ st.page.descending = v.descending
  BY DEF Iconized
<1>2. DOMAIN ts = 1..Len(ts) /\ ts = [j \in 1..Len(ts) |-> ts[j]] /\ Len(ts) \in Nat
  BY <1>1 DEF FitTasks
<1>3. \E j \in DOMAIN ts : ts[j].w = w
  BY <1>1, <1>2 DEF Listed, LikeTasks
<1>4. i \in 1..Len(ts) /\ ts[i].w = w
  <2> HIDE DEF ts, slot, q
  <2> QED BY SMTT(60), <1>2, <1>3
<1>t. ts[i] = [w |-> ts[i].w, hung |-> ts[i].hung, slot |-> ts[i].slot, loaded |-> ts[i].loaded]
  BY <1>1, <1>4 DEF FitTasks, FitTask
<1>5. q = [page |-> [st.page EXCEPT !.tasks[i].slot = slot, !.tasks[i].loaded = TRUE,
                       !.images = [j \in DOMAIN @ |-> IF j = i THEN slot ELSE @[j]]],
           icons |-> Apps!Allocated(st.icons, w)]
  BY DEF Apps!WithIcon
<1> HIDE DEF q, slot, i
<1>6. q = [page |-> q.page, icons |-> Apps!Allocated(st.icons, w)] /\ q.page = FieldsOf(q.page)
      /\ q.page.column = st.page.column /\ q.page.descending = st.page.descending
  BY <1>1, <1>5 DEF FieldsOf
<1>7. q.page.tasks = [[ts EXCEPT ![i].slot = slot] EXCEPT ![i].loaded = TRUE]
  BY <1>1, <1>5 DEF FieldsOf
<1>8. q.page.tasks = Iconed(ts, i, slot)
  <2> HIDE DEF ts
  <2>1. \A j \in 1..Len(ts) : q.page.tasks[j] = Iconed(ts, i, slot)[j]
    BY <1>2, <1>4, <1>7, <1>t DEF Iconed
  <2>2. DOMAIN q.page.tasks = 1..Len(ts) /\ q.page.tasks = [j \in 1..Len(ts) |-> q.page.tasks[j]]
    BY <1>2, <1>7
  <2>3. Iconed(ts, i, slot) = [j \in 1..Len(ts) |-> Iconed(ts, i, slot)[j]]
    BY DEF Iconed
  <2> QED BY <2>1, <2>2, <2>3
<1> QED BY <1>1, <1>4, <1>6, <1>8 DEF q, slot

\* apply_task_icon_results, for one icon.
LEMMA WithIconKeeps ==
  ASSUME NEW st, NEW v, Iconized(st, v), NEW w, Listed(w, v.tasks)
  PROVE  Iconized(Apps!WithIcon(w, st), v)
<1> DEFINE ts == st.page.tasks
           slot == IF w \in Bare THEN 0 ELSE Apps!Slot(st.icons)
           q == Apps!WithIcon(w, st)
<1>1. PICK i \in 1..Len(ts) :
        /\ ts[i].w = w
        /\ q = [page |-> q.page, icons |-> Apps!Allocated(st.icons, w)]
        /\ q.page = FieldsOf(q.page) /\ q.page.tasks = Iconed(ts, i, slot)
        /\ q.page.column = v.column /\ q.page.descending = v.descending
  BY WithIconIs
<1>2. TakenFor(Apps!Allocated(st.icons, w), st.icons, w, slot)
  BY AllocatedFits DEF Iconized, Listed
<1>3. FitTasks(ts) /\ LikeTasks(v.tasks, ts) /\ HoldsAll(st.icons, ts)
  BY DEF Iconized
<1> HIDE DEF q, slot
<1>4. slot \in Nat /\ FitStore(q.icons)
      /\ (\A t : t.slot = slot /\ t.w = w => Holds(q.icons, t))
      /\ (\A t : Holds(st.icons, t) => Holds(q.icons, t))
  <2>1. q.icons = Apps!Allocated(st.icons, w)
    BY <1>1
  <2> QED BY <1>2, <2>1 DEF TakenFor
<1> HIDE DEF ts
<1>5. FitTasks(q.page.tasks) /\ LikeTasks(ts, q.page.tasks)
  BY <1>1, <1>3, <1>4, IconedFits
<1>6. LikeTasks(v.tasks, q.page.tasks)
  BY <1>3, <1>5 DEF LikeTasks
<1>7. HoldsAll(q.icons, q.page.tasks)
  <2> SUFFICES ASSUME NEW j \in 1..Len(q.page.tasks) PROVE Holds(q.icons, q.page.tasks[j])
    BY DEF HoldsAll
  <2>1. j \in 1..Len(ts)
    BY <1>5 DEF LikeTasks
  <2>2. CASE j # i
    <3>1. q.page.tasks[j] = ts[j]
      BY <1>1, <2>1, <2>2 DEF Iconed
    <3> QED BY <1>3, <1>4, <2>1, <3>1 DEF HoldsAll
  <2>3. CASE j = i
    <3>1. q.page.tasks[j].slot = slot /\ q.page.tasks[j].w = w
      BY <1>1, <2>1, <2>3 DEF Iconed
    <3> QED BY <1>4, <3>1
  <2> QED BY <2>2, <2>3
<1>8. q = [page |-> q.page, icons |-> q.icons]
  BY <1>1
<1> QED BY <1>1, <1>4, <1>5, <1>6, <1>7, <1>8 DEF Iconized, q

\* The fold of the community modules, over the windows of a set.
Iconing(f, s0, P) ==
    f = [s \in P |-> IF s = {} THEN s0 ELSE Apps!WithIcon(Some(s), f[s \ {Some(s)}])]
WithIcons(s0, ws) == (CHOOSE f : Iconing(f, s0, SUBSET ws))[ws]

LEMMA IconingExists ==
  ASSUME NEW ws, IsFiniteSet(ws), NEW s0
  PROVE  \E f : Iconing(f, s0, SUBSET ws)
<1> DEFINE Has(k) == \E f : Iconing(f, s0, Parts(ws, k))
           S == {k \in Nat : Has(k)}
<1>0. \A s \in SUBSET ws : IsFiniteSet(s) /\ Cardinality(s) \in Nat /\ (Cardinality(s) = 0 <=> s = {})
  BY FS_Subset, FS_CardinalityType, FS_EmptySet
<1>1. 0 \in S
  <2> DEFINE f == [s \in Parts(ws, 0) |-> s0]
  <2>1. \A s \in Parts(ws, 0) : s = {}
    BY <1>0 DEF Parts
  <2>2. Iconing(f, s0, Parts(ws, 0))
    BY <2>1 DEF Iconing
  <2> HIDE DEF f
  <2> QED BY <2>2
<1>2. ASSUME NEW k \in Nat, k \in S PROVE k + 1 \in S
  <2>1. PICK f : Iconing(f, s0, Parts(ws, k))
    BY <1>2
  <2> DEFINE g == [s \in Parts(ws, k + 1) |->
                     IF s = {} THEN s0 ELSE Apps!WithIcon(Some(s), f[s \ {Some(s)}])]
  <2>2. ASSUME NEW s \in Parts(ws, k + 1), s # {} PROVE s \ {Some(s)} \in Parts(ws, k)
    <3>1. s \in SUBSET ws /\ Cardinality(s) <= k + 1 /\ Some(s) \in s
      BY <2>2, SomeIsIn DEF Parts
    <3>2. Cardinality(s \ {Some(s)}) = Cardinality(s) - 1 /\ Cardinality(s) \in Nat
      BY <1>0, <3>1, FS_RemoveElement
    <3>3. Cardinality(s \ {Some(s)}) <= k
      BY <3>1, <3>2
    <3> QED BY <3>1, <3>3 DEF Parts
  <2>3. \A s \in Parts(ws, k) : s \in Parts(ws, k + 1) /\ g[s] = f[s]
    <3> TAKE s \in Parts(ws, k)
    <3>1. s \in Parts(ws, k + 1)
      BY <1>0 DEF Parts
    <3> QED BY <2>1, <3>1 DEF Iconing
  <2>4. \A s \in Parts(ws, k + 1) :
          g[s] = IF s = {} THEN s0 ELSE Apps!WithIcon(Some(s), g[s \ {Some(s)}])
    BY <2>2, <2>3
  <2>5. Iconing(g, s0, Parts(ws, k + 1))
    <3>1. g = [s \in Parts(ws, k + 1) |-> g[s]]
      OBVIOUS
    <3> HIDE DEF g
    <3> QED BY <2>4, <3>1 DEF Iconing
  <2> HIDE DEF g
  <2> QED BY <2>5
<1>3. Parts(ws, Cardinality(ws)) = SUBSET ws
  BY FS_Subset DEF Parts
<1>4. Cardinality(ws) \in S
  <2>1. Cardinality(ws) \in Nat
    BY FS_CardinalityType
  <2> HIDE DEF S
  <2> QED BY <1>1, <1>2, <2>1, NumbersInduction
<1> QED BY <1>3, <1>4

\* apply_task_icon_results, for all icons that arrived.
LEMMA WithIconsKeep ==
  ASSUME NEW ws, IsFiniteSet(ws), NEW s0, NEW v, Iconized(s0, v),
         \A w \in ws : Listed(w, v.tasks)
  PROVE  Iconized(WithIcons(s0, ws), v)
<1> DEFINE f == CHOOSE g : Iconing(g, s0, SUBSET ws)
<1>1. Iconing(f, s0, SUBSET ws)
  BY IconingExists
<1>2. WithIcons(s0, ws) = f[ws]
  BY DEF WithIcons
<1> HIDE DEF f
<1>3. \A s \in SUBSET ws :
        f[s] = IF s = {} THEN s0 ELSE Apps!WithIcon(Some(s), f[s \ {Some(s)}])
  BY <1>1 DEF Iconing
<1>0. \A s \in SUBSET ws : IsFiniteSet(s) /\ Cardinality(s) \in Nat /\ (Cardinality(s) = 0 <=> s = {})
  BY FS_Subset, FS_CardinalityType, FS_EmptySet
<1> DEFINE S == {k \in Nat : \A s \in SUBSET ws : Cardinality(s) = k => Iconized(f[s], v)}
<1>4. 0 \in S
  BY <1>0, <1>3
<1>5. ASSUME NEW k \in Nat, k \in S PROVE k + 1 \in S
  <2> SUFFICES ASSUME NEW s \in SUBSET ws, Cardinality(s) = k + 1 PROVE Iconized(f[s], v)
    OBVIOUS
  <2>1. s # {} /\ Some(s) \in s
    BY <1>0, SomeIsIn
  <2>2. Cardinality(s \ {Some(s)}) = k /\ s \ {Some(s)} \in SUBSET ws
    <3>1. IsFiniteSet(s)
      BY <1>0
    <3>2. Cardinality(s \ {Some(s)}) = Cardinality(s) - 1
      BY <2>1, <3>1, FS_RemoveElement
    <3> QED BY <3>2
  <2>3. Iconized(f[s \ {Some(s)}], v) /\ Listed(Some(s), v.tasks)
    BY <1>5, <2>1, <2>2
  <2> QED BY <1>3, <2>1, <2>3, WithIconKeeps
<1>6. Cardinality(ws) \in S
  <2>1. Cardinality(ws) \in Nat
    BY <1>0
  <2> HIDE DEF S
  <2> QED BY <1>4, <1>5, <2>1, NumbersInduction
<1> QED BY <1>2, <1>6

-----------------------------------------------------------------------------
(* A snapshot is merged.                                                    *)

\* Tasks of a window each are finitely many.
LEMMA ApartIsFinite ==
  ASSUME NEW ts, Apart(ts)
  PROVE  IsFiniteSet(ts)
<1> DEFINE ws == {t.w : t \in ts}
           f == [w \in ws |-> CHOOSE t \in ts : t.w = w]
<1>1. IsFiniteSet(ws)
  <2>1. ws \in SUBSET Windows
    BY DEF Apart, FitTask
  <2> QED BY <2>1, WindowsAssumption, FS_Subset
<1>2. \A t \in ts : t.w \in ws /\ f[t.w] = t
  BY DEF Apart
<1>3. f \in Surjection(ws, ts)
  <2>1. \A w \in ws : f[w] \in ts
    OBVIOUS
  <2>2. f \in [ws -> ts]
    BY <2>1
  <2> HIDE DEF f, ws
  <2>3. \A t \in ts : \E w \in ws : f[w] = t
    BY <1>2
  <2> QED BY <2>2, <2>3, Fun_IsSurj
<1> QED BY <1>1, <1>3, FS_Surjection

\* The tasks of a list have a window each.
LEMMA ListIsApart ==
  ASSUME NEW ts, FitTasks(ts), NEW n \in 0..Len(ts)
  PROVE  Apart(Firsts(ts, n)) /\ IsFiniteSet(Firsts(ts, n))
<1>1. \A t \in Firsts(ts, n) : \E i \in 1..Len(ts) : t = ts[i]
  BY DEF Firsts, FitTasks
<1>2. Apart(Firsts(ts, n))
  BY <1>1 DEF FitTasks, Apart
<1> QED BY <1>2, ApartIsFinite

\* The task of a row, known or new.
Known(r, p) == {i \in DOMAIN p.tasks : p.tasks[i].w = r.w}
TaskOf(r, p) ==
    IF Known(r, p) = {} THEN [w |-> r.w, hung |-> r.hung, slot |-> 0, loaded |-> FALSE]
    ELSE [p.tasks[CHOOSE i \in Known(r, p) : TRUE] EXCEPT !.hung = r.hung]
Made(rows, p) == {TaskOf(r, p) : r \in rows}
Keeping(rows, p) == [i \in DOMAIN p.tasks |-> CHOOSE t \in Made(rows, p) : t.w = p.tasks[i].w]

LEMMA MergedIs ==
  ASSUME NEW p, NEW rows
  PROVE  Apps!Merged(rows, p) =
           [p EXCEPT !.tasks = IF Apps!SortDirty(rows, p) THEN Apps!InOrder(Made(rows, p), p)
                               ELSE Keeping(rows, p)]
  BY DEF Apps!Merged, Made, TaskOf, Known, Keeping

\* A task that has no slot yet, or that of its window's task before.
Inherits(t, ts) == t.slot = 0 \/ \E j \in 1..Len(ts) : ts[j].slot = t.slot /\ ts[j].w = t.w

LEMMA TaskIsMade ==
  ASSUME NEW p, FitTasks(p.tasks), NEW rows, FitRows(rows), NEW r \in rows
  PROVE  /\ FitTask(TaskOf(r, p)) /\ TaskOf(r, p).w = r.w /\ TaskOf(r, p).hung = r.hung
         /\ Inherits(TaskOf(r, p), p.tasks)
<1> DEFINE t == TaskOf(r, p)
           ts == p.tasks
<1>0. r.w \in Windows /\ DOMAIN ts = 1..Len(ts)
  BY DEF FitRows, FitTasks
<1>1. CASE Known(r, p) = {}
  <2>1. t = [w |-> r.w, hung |-> r.hung, slot |-> 0, loaded |-> FALSE]
    BY <1>1 DEF TaskOf
  <2> HIDE DEF t
  <2>2. /\ t.w = r.w /\ t.hung = r.hung /\ t.slot = 0
        /\ t = [w |-> t.w, hung |-> t.hung, slot |-> t.slot, loaded |-> t.loaded]
    BY <2>1
  <2>3. FitTask(t)
    BY <1>0, <2>2 DEF FitTask
  <2> QED BY <2>2, <2>3 DEF Inherits, t
<1>2. CASE Known(r, p) # {}
  <2> DEFINE i == CHOOSE j \in Known(r, p) : TRUE
  <2>1. i \in 1..Len(ts) /\ ts[i].w = r.w
    BY <1>0, <1>2 DEF Known
  <2>2. t = [ts[i] EXCEPT !.hung = r.hung]
    BY <1>2 DEF TaskOf
  <2> HIDE DEF t, i
  <2>3. FitTask(ts[i])
    BY <2>1 DEF FitTasks
  <2>4. /\ t.w = ts[i].w /\ t.hung = r.hung /\ t.slot = ts[i].slot
        /\ t = [w |-> t.w, hung |-> t.hung, slot |-> t.slot, loaded |-> t.loaded]
    BY <2>2, <2>3 DEF FitTask
  <2>5. FitTask(t)
    BY <2>3, <2>4 DEF FitTask
  <2> QED BY <2>1, <2>4, <2>5 DEF Inherits, t
<1> QED BY <1>1, <1>2

LEMMA MadeIsApart ==
  ASSUME NEW p, FitTasks(p.tasks), NEW rows, FitRows(rows)
  PROVE  /\ Apart(Made(rows, p)) /\ IsFiniteSet(Made(rows, p))
         /\ \A t \in Made(rows, p) : /\ Inherits(t, p.tasks)
                                     /\ \E r \in rows : r.w = t.w /\ r.hung = t.hung
         /\ \A r \in rows : \E t \in Made(rows, p) : t.w = r.w
<1>1. \A t \in Made(rows, p) : \E r \in rows : t = TaskOf(r, p)
  BY DEF Made
<1>2. \A t \in Made(rows, p) : FitTask(t) /\ Inherits(t, p.tasks) /\ \E r \in rows : r.w = t.w /\ r.hung = t.hung
  BY <1>1, TaskIsMade
<1>3. \A t, u \in Made(rows, p) : t.w = u.w => t = u
  <2> TAKE t, u \in Made(rows, p)
  <2> HAVE t.w = u.w
  <2>1. PICK r \in rows, q \in rows : t = TaskOf(r, p) /\ u = TaskOf(q, p)
    BY <1>1
  <2>2. r.w = q.w
    BY <2>1, TaskIsMade
  <2>3. r = q
    BY <2>2 DEF FitRows
  <2> QED BY <2>1, <2>3
<1>4. Apart(Made(rows, p))
  BY <1>2, <1>3 DEF Apart
<1>5. \A r \in rows : TaskOf(r, p) \in Made(rows, p) /\ TaskOf(r, p).w = r.w
  BY TaskIsMade DEF Made
<1> QED BY <1>2, <1>4, <1>5, ApartIsFinite

\* The list after a merge that did not sort, because the windows are the same and
\* none changed in what the tasks are sorted by.
LEMMA KeptInOrder ==
  ASSUME NEW p, FitView(p), NEW rows, FitRows(rows), ~Apps!SortDirty(rows, p)
  PROVE  /\ FitTasks(Keeping(rows, p)) /\ Rises(Keeping(rows, p), p)
         /\ \A i \in 1..Len(Keeping(rows, p)) : Keeping(rows, p)[i] \in Made(rows, p)
<1> DEFINE ts == p.tasks
           us == Keeping(rows, p)
           n == Len(ts)
<1>0. FitTasks(ts) /\ Rises(ts, p) /\ p.column \in {"name", "status"}
  BY DEF FitView
<1>1. n \in Nat /\ DOMAIN ts = 1..n
  BY <1>0 DEF FitTasks
<1>2. {r.w : r \in rows} = {ts[i].w : i \in DOMAIN ts}
  BY DEF Apps!SortDirty
<1>3. p.column = "status" => \A r \in rows, i \in DOMAIN ts : ts[i].w = r.w => ts[i].hung = r.hung
  BY DEF Apps!SortDirty
<1>4. /\ Apart(Made(rows, p))
      /\ \A t \in Made(rows, p) : \E r \in rows : r.w = t.w /\ r.hung = t.hung
      /\ \A r \in rows : \E t \in Made(rows, p) : t.w = r.w
  BY <1>0, MadeIsApart
<1>5. us = [i \in 1..n |-> us[i]] /\ \A i \in 1..n : us[i] = CHOOSE t \in Made(rows, p) : t.w = ts[i].w
  BY <1>1 DEF Keeping
<1> HIDE DEF us, ts
<1>6. \A i \in 1..n : us[i] \in Made(rows, p) /\ us[i].w = ts[i].w
  <2> TAKE i \in 1..n
  <2>1. \E r \in rows : r.w = ts[i].w
    BY <1>1, <1>2
  <2>2. \E t \in Made(rows, p) : t.w = ts[i].w
    BY <1>4, <2>1
  <2> QED BY <1>5, <2>2
<1>7. \A i \in 1..n : Apps!Key(us[i], p.column) = Apps!Key(ts[i], p.column)
  <2> TAKE i \in 1..n
  <2>1. CASE p.column = "name"
    BY <1>6, <2>1 DEF Apps!Key
  <2>2. CASE p.column = "status"
    <3>1. PICK r \in rows : r.w = us[i].w /\ r.hung = us[i].hung
      BY <1>4, <1>6
    <3>2. ts[i].hung = us[i].hung
      BY <1>1, <1>3, <1>6, <2>2, <3>1
    <3> QED BY <2>2, <3>2 DEF Apps!Key
  <2> QED BY <1>0, <2>1, <2>2
<1> HIDE DEF n
<1>8. Len(us) = n
  BY <1>1, <1>5, FunctionIsSequence
<1>9. FitTasks(us)
  <2>1. \A i \in 1..n : FitTask(us[i])
    BY <1>4, <1>6 DEF Apart
  <2>2. \A i, j \in 1..n : us[i].w = us[j].w => i = j
    BY <1>0, <1>6 DEF FitTasks, n
  <2> QED BY <1>1, <1>5, <1>8, <2>1, <2>2 DEF FitTasks
<1>10. SameOrder(ts, us, p)
  BY <1>6, <1>7, <1>8 DEF SameOrder, n
<1>11. Rises(us, p)
  BY <1>0, <1>9, <1>10, SameOrderRises
<1> QED BY <1>6, <1>8, <1>9, <1>11 DEF us

\* What a merge makes of the page.
MergedWell(q, rows, p) ==
    /\ FitView(q)
    /\ \A i \in 1..Len(q.tasks) : /\ Inherits(q.tasks[i], p.tasks)
                                  /\ \E r \in rows : r.w = q.tasks[i].w

\* A page with other tasks in order.
LEMMA ViewExcept ==
  ASSUME NEW p, FitView(p), NEW us, FitTasks(us), Rises(us, p)
  PROVE  FitView([p EXCEPT !.tasks = us]) /\ [p EXCEPT !.tasks = us].tasks = us
<1> DEFINE q == [p EXCEPT !.tasks = us]
<1>1. p = FieldsOf(p) /\ p.column \in {"name", "status"}
  BY DEF FitView
<1>2. q = FieldsOf(q) /\ q.tasks = us /\ q.column = p.column /\ q.descending = p.descending
  BY <1>1 DEF FieldsOf
<1> HIDE DEF q
<1>3. Rises(us, q)
  BY <1>2 DEF Rises, Apps!Precedes
<1>4. FitView(q)
  BY <1>1, <1>2, <1>3 DEF FitView
<1> QED BY <1>2, <1>4 DEF q

LEMMA MergedFits ==
  ASSUME NEW p, FitView(p), NEW rows, FitRows(rows)
  PROVE  MergedWell(Apps!Merged(rows, p), rows, p)
<1> DEFINE ts == Made(rows, p)
           us == IF Apps!SortDirty(rows, p) THEN Apps!InOrder(ts, p) ELSE Keeping(rows, p)
           q == Apps!Merged(rows, p)
<1>0. /\ FitTasks(p.tasks) /\ Apart(ts) /\ IsFiniteSet(ts)
      /\ \A t \in ts : Inherits(t, p.tasks) /\ \E r \in rows : r.w = t.w
  BY MadeIsApart DEF FitView
<1>1. FitTasks(us) /\ Rises(us, p) /\ \A i \in 1..Len(us) : us[i] \in ts
  <2>1. CASE Apps!SortDirty(rows, p)
    <3>1. OrderedOf(Apps!InOrder(ts, p), ts, p)
      BY <1>0, InOrderIsOrdered
    <3>2. us = Apps!InOrder(ts, p)
      BY <2>1
    <3> HIDE DEF us, ts
    <3> QED BY <3>1, <3>2 DEF OrderedOf
  <2>2. CASE ~Apps!SortDirty(rows, p)
    <3>1. /\ FitTasks(Keeping(rows, p)) /\ Rises(Keeping(rows, p), p)
          /\ \A i \in 1..Len(Keeping(rows, p)) : Keeping(rows, p)[i] \in ts
      BY <2>2, KeptInOrder
    <3>2. us = Keeping(rows, p)
      BY <2>2
    <3> HIDE DEF us, ts
    <3> QED BY <3>1, <3>2
  <2> QED BY <2>1, <2>2
<1>2. q = [p EXCEPT !.tasks = us]
  BY MergedIs
<1> HIDE DEF us, q, ts
<1>3. FitView(q) /\ q.tasks = us
  BY <1>1, <1>2, ViewExcept
<1> QED BY <1>0, <1>1, <1>3 DEF MergedWell, q

-----------------------------------------------------------------------------
(* Snapshots and icons are drained.                                         *)

\* What a view that fits gives.
LEMMA ViewGives ==
  ASSUME NEW p, FitView(p)
  PROVE  p = FieldsOf(p) /\ p.column \in {"name", "status"} /\ FitTasks(p.tasks) /\ Rises(p.tasks, p)
  BY ZenonT(60) DEF FitView

\* The rows are rewritten, and the tasks are as before.
LEMMA ListviewKeepsTasks ==
  ASSUME NEW p, FitView(p), NEW ws
  PROVE  FitView(Apps!UpdateListview(p, ws)) /\ Apps!UpdateListview(p, ws).tasks = p.tasks
<1>1. p = FieldsOf(p) /\ p.column \in {"name", "status"} /\ FitTasks(p.tasks) /\ Rises(p.tasks, p)
  BY ZenonT(60), ViewGives
<1> DEFINE q == Apps!UpdateListview(p, ws)
<1>2. \E a, b, c, d : q = [[[[[p EXCEPT !.images = a] EXCEPT !.displayed = b] EXCEPT !.marked = c]
                             EXCEPT !.count = d] EXCEPT !.first = FALSE]
  BY DEF Apps!UpdateListview
<1> HIDE DEF q
<1>3. q = FieldsOf(q) /\ q.tasks = p.tasks /\ q.column = p.column /\ q.descending = p.descending
  BY <1>1, <1>2 DEF FieldsOf
<1>4. Rises(q.tasks, q)
  BY <1>1, <1>3 DEF Rises, Apps!Precedes
<1>5. FitView(q)
  BY <1>1, <1>3, <1>4 DEF FitView
<1> QED BY <1>3, <1>5 DEF q

\* Slots that may be given back: there, not free, and not of a task listed.
LEMMA GoneSlotsAreTaken ==
  ASSUME NEW p, FitView(p), NEW s, FitStore(s), HoldsAll(s, p.tasks), NEW rows, FitRows(rows)
  PROVE  /\ Apps!Gone(rows, p) \subseteq 1..Len(s.images)
         /\ \A k \in 1..Len(s.free) : s.free[k] \notin Apps!Gone(rows, p)
         /\ \A t : Inherits(t, p.tasks) /\ (\E r \in rows : r.w = t.w) => t.slot \notin Apps!Gone(rows, p)
<1> DEFINE ts == p.tasks
<1>0. DOMAIN ts = 1..Len(ts) /\ FitTasks(ts)
  BY DEF FitView, FitTasks
<1>1. \A x \in Apps!Gone(rows, p) : x # 0 /\ \E j \in 1..Len(ts) :
        ts[j].slot = x /\ \A r \in rows : r.w # ts[j].w
  BY <1>0 DEF Apps!Gone
<1>2. \A j \in 1..Len(ts) : Holds(s, ts[j])
  BY DEF HoldsAll
<1> HIDE DEF ts
<1>3. ASSUME NEW x \in Apps!Gone(rows, p)
      PROVE  x \in 1..Len(s.images) /\ \A k \in 1..Len(s.free) : s.free[k] # x
  BY <1>1, <1>2 DEF Holds
<1>4. ASSUME NEW t, Inherits(t, ts), NEW r \in rows, r.w = t.w, t.slot \in Apps!Gone(rows, p)
      PROVE  FALSE
  <2>1. PICK j \in 1..Len(ts) : ts[j].slot = t.slot /\ \A q \in rows : q.w # ts[j].w
    BY <1>1, <1>4
  <2>2. t.slot # 0
    BY <1>1, <1>4
  <2>3. PICK i \in 1..Len(ts) : ts[i].slot = t.slot /\ ts[i].w = t.w
    BY <1>4, <2>2 DEF Inherits
  <2>4. s.images[t.slot] = ts[j].w /\ s.images[t.slot] = ts[i].w
    BY <1>2, <2>1, <2>2, <2>3 DEF Holds
  <2> QED BY <1>4, <2>1, <2>3, <2>4
<1> QED BY <1>3, <1>4 DEF ts

\* The page and the store before the icons arrive.
LEMMA SnapshotKeepsSlots ==
  ASSUME NEW p, FitView(p), NEW s, FitStore(s), HoldsAll(s, p.tasks), NEW rows, FitRows(rows),
         NEW lost, NEW ws
  PROVE  LET v == Apps!UpdateListview(Apps!Merged(rows, p), ws)
             q == Apps!Released(s, Apps!Gone(rows, p) \ lost)
         IN  FitView(v) /\ FitStore(q) /\ HoldsAll(q, v.tasks)
<1> DEFINE m == Apps!Merged(rows, p)
           v == Apps!UpdateListview(m, ws)
           slots == Apps!Gone(rows, p) \ lost
           q == Apps!Released(s, slots)
<1>1. MergedWell(m, rows, p)
  BY MergedFits
<1> HIDE DEF m
<1>2. FitView(v) /\ v.tasks = m.tasks
  BY <1>1, ListviewKeepsTasks DEF MergedWell
<1>3. /\ slots \in SUBSET (1..Len(s.images))
      /\ \A k \in 1..Len(s.free) : s.free[k] \notin slots
      /\ \A t : Inherits(t, p.tasks) /\ (\E r \in rows : r.w = t.w) => t.slot \notin slots
  BY GoneSlotsAreTaken
<1> HIDE DEF slots
<1>4. GivenBack(q, s, slots)
  BY <1>3, ReleasedFits
<1> HIDE DEF q, v
<1>5. ASSUME NEW i \in 1..Len(m.tasks) PROVE Holds(q, m.tasks[i])
  <2> DEFINE t == m.tasks[i]
  <2>1. Inherits(t, p.tasks) /\ \E r \in rows : r.w = t.w
    BY <1>1 DEF MergedWell
  <2> HIDE DEF t
  <2>2. Holds(s, t)
    BY SMTT(60), <2>1 DEF Inherits, HoldsAll, Holds
  <2>3. Holds(q, t)
    BY <1>3, <1>4, <2>1, <2>2 DEF GivenBack
  <2> QED BY <2>3 DEF t
<1> QED BY <1>2, <1>4, <1>5 DEF GivenBack, HoldsAll, q, v, m, slots

\* What a drain is made of.
Fresh == sampler.at = "done" /\ sampler.ok
ShownPage(p) == IF Fresh THEN Apps!UpdateListview(Apps!Merged(sampler.rows, p), Apps!Marked(p)) ELSE p
GoneSlots(p) == IF Fresh THEN Apps!Gone(sampler.rows, p) ELSE {}
Found(v) ==
    IF collector.at = "done" /\ collector.ok
    THEN collector.found \intersect {v.tasks[i].w : i \in DOMAIN v.tasks} \intersect open ELSE {}

LEMMA DrainIs ==
  ASSUME NEW p, Apps!Drain(p)
  PROVE  \E lost :
           LET end == WithIcons([page |-> ShownPage(p),
                                 icons |-> Apps!Released(icons, GoneSlots(p) \ lost)],
                                Found(ShownPage(p)) \ lost)
           IN  page' = end.page /\ icons' = end.icons
  BY DEF Apps!Drain, Apps!FoldSet, Apps!MapThenFoldSet, WithIcons, Iconing, Some, Fresh, ShownPage,
         GoneSlots, Found

Asking(wanted) ==
    /\ wanted \intersect pending = {}
    /\ collector' = Apps!NextBatch(Apps!Schedule(collector, wanted))
    /\ pending' = (pending \union wanted) \ (IF collector.at = "done" THEN collector.batch ELSE {})

LEMMA DrainAsks ==
  ASSUME NEW p, Apps!Drain(p)
  PROVE  \E wanted : Asking(wanted)
<1> DEFINE v == ShownPage(p)
           wanted == IF Fresh THEN {v.tasks[i].w : i \in {j \in DOMAIN v.tasks : ~v.tasks[j].loaded}}
                                     \ pending
                     ELSE {}
<1>1. /\ collector' = Apps!NextBatch(Apps!Schedule(collector, wanted))
      /\ pending' = (pending \union wanted) \ (IF collector.at = "done" THEN collector.batch ELSE {})
  BY DEF Apps!Drain, Apps!Answered, Fresh, ShownPage
<1>2. wanted \intersect pending = {}
  OBVIOUS
<1> QED BY <1>1, <1>2 DEF Asking

\* pending_icon_identities, through a drain.
PendingFits ==
    FitCollector(collector) /\ pending = collector.batch \union collector.queue
LEMMA AskingKeeps ==
  ASSUME PendingFits, NEW wanted, Asking(wanted)
  PROVE  PendingFits'
<1> DEFINE c == Apps!Schedule(collector, wanted)
           d == Apps!NextBatch(c)
<1>0. /\ collector = [at |-> collector.at, batch |-> collector.batch, ok |-> collector.ok,
                      found |-> collector.found, queue |-> collector.queue]
      /\ collector.at = "idle" => collector.batch = {} /\ collector.queue = {}
      /\ collector.batch \intersect collector.queue = {}
      /\ pending = collector.batch \union collector.queue
      /\ wanted \intersect pending = {} /\ collector' = d
      /\ pending' = (pending \union wanted) \ (IF collector.at = "done" THEN collector.batch ELSE {})
  BY DEF PendingFits, FitCollector, Asking
<1>1. /\ c = [at |-> c.at, batch |-> c.batch, ok |-> c.ok, found |-> c.found, queue |-> c.queue]
      /\ c.at = "idle" => c.batch = {} /\ c.queue = {}
      /\ c.batch \intersect c.queue = {}
      /\ c.batch \union c.queue = pending \union wanted
      /\ c.at = "done" <=> collector.at = "done"
      /\ c.at = "done" => c.batch = collector.batch
  <2>1. CASE wanted = {}
    <3>1. c = collector
      BY <2>1 DEF Apps!Schedule
    <3> HIDE DEF c
    <3> QED BY <1>0, <2>1, <3>1
  <2>2. CASE wanted # {} /\ collector.at = "idle"
    <3>1. c = [[Apps!Collector EXCEPT !.at = "asked"] EXCEPT !.batch = wanted]
      BY <2>2 DEF Apps!Schedule
    <3> HIDE DEF c
    <3>2. /\ c = [at |-> c.at, batch |-> c.batch, ok |-> c.ok, found |-> c.found, queue |-> c.queue]
          /\ c.at = "asked" /\ c.batch = wanted /\ c.queue = {}
      BY <3>1 DEF Apps!Collector
    <3> QED BY <1>0, <2>2, <3>2
  <2>3. CASE wanted # {} /\ collector.at # "idle"
    <3>1. c = [collector EXCEPT !.queue = collector.queue \union wanted]
      BY <2>3 DEF Apps!Schedule, Apps!MergedBatches
    <3> HIDE DEF c
    <3>2. /\ c = [at |-> c.at, batch |-> c.batch, ok |-> c.ok, found |-> c.found, queue |-> c.queue]
          /\ c.at = collector.at /\ c.batch = collector.batch /\ c.queue = collector.queue \union wanted
      BY <1>0, <3>1
    <3> QED BY <1>0, <2>3, <3>2
  <2> QED BY <2>1, <2>2, <2>3
<1> HIDE DEF c
<1>2. /\ d = [at |-> d.at, batch |-> d.batch, ok |-> d.ok, found |-> d.found, queue |-> d.queue]
      /\ d.at = "idle" => d.batch = {} /\ d.queue = {}
      /\ d.batch \intersect d.queue = {}
      /\ d.batch \union d.queue = pending'
  <2>1. CASE c.at # "done"
    <3>1. d = c /\ pending' = pending \union wanted
      BY <1>0, <1>1, <2>1 DEF Apps!NextBatch
    <3> HIDE DEF d
    <3> QED BY <1>1, <3>1, <2>1
  <2>2. CASE c.at = "done" /\ c.queue = {}
    <3>1. d = Apps!Collector
      BY <2>2 DEF Apps!NextBatch
    <3>2. pending' = {}
      BY <1>0, <1>1, <2>2
    <3> HIDE DEF d
    <3> QED BY <3>1, <3>2 DEF Apps!Collector
  <2>3. CASE c.at = "done" /\ c.queue # {}
    <3>1. d = [[Apps!Collector EXCEPT !.at = "asked"] EXCEPT !.batch = c.queue]
      BY <2>3 DEF Apps!NextBatch
    <3>2. pending' = c.queue
      BY <1>0, <1>1, <2>3
    <3> HIDE DEF d
    <3>3. /\ d = [at |-> d.at, batch |-> d.batch, ok |-> d.ok, found |-> d.found, queue |-> d.queue]
          /\ d.at = "asked" /\ d.batch = c.queue /\ d.queue = {}
      BY <3>1 DEF Apps!Collector
    <3> QED BY <3>2, <3>3
  <2> QED BY <2>1, <2>2, <2>3
<1>3. collector' = d
  BY <1>0
<1> HIDE DEF d
<1> QED BY <1>2, <1>3 DEF PendingFits, FitCollector

\* The page and the slots, through a drain.
LEMMA DrainKeeps ==
  ASSUME NEW p, FitView(p), FitStore(icons), HoldsAll(icons, p.tasks), open \subseteq Windows,
         FitSampler(sampler), Apps!Drain(p)
  PROVE  FitView(page') /\ FitStore(icons') /\ HoldsAll(icons', page'.tasks)
<1> DEFINE v == ShownPage(p)
<1>1. PICK lost :
        LET end == WithIcons([page |-> v, icons |-> Apps!Released(icons, GoneSlots(p) \ lost)],
                             Found(v) \ lost)
        IN  page' = end.page /\ icons' = end.icons
  BY DrainIs
<1> DEFINE q == Apps!Released(icons, GoneSlots(p) \ lost)
           ws == Found(v) \ lost
           end == WithIcons([page |-> v, icons |-> q], ws)
<1>2. page' = end.page /\ icons' = end.icons
  BY <1>1
<1>3. FitView(v) /\ FitStore(q) /\ HoldsAll(q, v.tasks)
  <2>1. CASE Fresh
    <3>1. FitRows(sampler.rows)
      BY DEF FitSampler
    <3>2. v = Apps!UpdateListview(Apps!Merged(sampler.rows, p), Apps!Marked(p))
          /\ q = Apps!Released(icons, Apps!Gone(sampler.rows, p) \ lost)
      BY <2>1 DEF ShownPage, GoneSlots
    <3> HIDE DEF v, q
    <3> QED BY <3>1, <3>2, SnapshotKeepsSlots
  <2>2. CASE ~Fresh
    <3>1. v = p /\ GoneSlots(p) \ lost = {}
      BY <2>2 DEF ShownPage, GoneSlots
    <3>2. GivenBack(q, icons, {})
      BY <3>1, ReleasedFits
    <3> HIDE DEF v, q
    <3> QED BY <3>1, <3>2 DEF GivenBack, HoldsAll
  <2> QED BY <2>1, <2>2
<1> HIDE DEF v, q
<1>4. \A w \in ws : Listed(w, v.tasks)
  <2>1. DOMAIN v.tasks = 1..Len(v.tasks)
    BY <1>3 DEF FitView, FitTasks
  <2> QED BY <2>1 DEF Found, Listed
<1>5. IsFiniteSet(ws)
  <2>1. ws \in SUBSET Windows
    BY <1>4 DEF Listed
  <2> QED BY <2>1, WindowsAssumption, FS_Subset
<1>6. Iconized([page |-> v, icons |-> q], v)
  BY <1>3 DEF Iconized, FitView, LikeTasks
<1> HIDE DEF ws
<1>7. Iconized(end, v)
  BY <1>4, <1>5, <1>6, WithIconsKeep
<1> HIDE DEF end
<1>8. /\ page' = FieldsOf(page') /\ page'.column = v.column /\ page'.descending = v.descending
      /\ FitTasks(page'.tasks) /\ LikeTasks(v.tasks, page'.tasks)
      /\ FitStore(icons') /\ HoldsAll(icons', page'.tasks)
  BY <1>2, <1>7 DEF Iconized
<1>9. FitTasks(v.tasks) /\ Rises(v.tasks, v) /\ v.column \in {"name", "status"}
  BY <1>3 DEF FitView
<1>10. SameOrder(v.tasks, page'.tasks, v)
  BY <1>8 DEF SameOrder, LikeTasks, Apps!Key
<1>11. Rises(page'.tasks, page')
  BY <1>8, <1>9, <1>10, SameOrderRises
<1> QED BY <1>8, <1>9, <1>11 DEF FitView

-----------------------------------------------------------------------------
(* Every step of the Applications page.                                     *)

\* The tasks sorted again, by another column.
LEMMA TurnedFits ==
  ASSUME NEW p, FitView(p), NEW s, HoldsAll(s, p.tasks), NEW c \in {"name", "status"}
  PROVE  FitView(Apps!Turned(p, c)) /\ HoldsAll(s, Apps!Turned(p, c).tasks)
<1> DEFINE b == IF p.column = c THEN ~p.descending ELSE TRUE
           q == [[p EXCEPT !.column = c] EXCEPT !.descending = b]
           S == Firsts(q.tasks, Len(q.tasks))
           us == Apps!InOrder(S, q)
           v == Apps!Turned(p, c)
<1>1. p = FieldsOf(p) /\ FitTasks(p.tasks)
  BY DEF FitView
<1>2. q = FieldsOf(q) /\ q.tasks = p.tasks /\ q.column = c
  <2>1. q = [[p EXCEPT !.column = c] EXCEPT !.descending = b]
    OBVIOUS
  <2> HIDE DEF b, q
  <2> QED BY <1>1, <2>1 DEF FieldsOf
<1>3. v = [q EXCEPT !.tasks = us]
  <2>1. {q.tasks[i] : i \in DOMAIN q.tasks} = S
    BY <1>1, <1>2 DEF FitTasks, Firsts
  <2>2. v = Apps!Resorted(q)
    BY DEF Apps!Turned
  <2> HIDE DEF q, v, S
  <2> QED BY <2>1, <2>2 DEF Apps!Resorted
<1> HIDE DEF q, v, us
<1>4. Apart(S) /\ IsFiniteSet(S)
  <2>1. FitTasks(q.tasks)
    BY <1>1, <1>2
  <2>2. Len(q.tasks) \in 0..Len(q.tasks)
    BY <2>1 DEF FitTasks
  <2> HIDE DEF S
  <2>3. S = Firsts(q.tasks, Len(q.tasks))
    BY DEF S
  <2> QED BY <2>1, <2>2, <2>3, ListIsApart
<1>5. OrderedOf(us, S, q)
  BY <1>4, InOrderIsOrdered DEF us
<1>6. /\ v = FieldsOf(v) /\ v.tasks = us /\ v.column = q.column /\ v.descending = q.descending
  BY <1>2, <1>3 DEF FieldsOf
<1>7. FitTasks(us) /\ Rises(us, q) /\ \A i \in 1..Len(us) : us[i] \in S
  BY <1>5 DEF OrderedOf
<1>8. Rises(us, v)
  BY <1>6, <1>7 DEF Rises, Apps!Precedes
<1>9. HoldsAll(s, us)
  BY <1>2, <1>7 DEF HoldsAll, Firsts
<1> QED BY <1>2, <1>6, <1>7, <1>8, <1>9 DEF FitView, v


\* The sampler's request, while the snapshot that is ready is taken.
LEMMA SamplerRests ==
  ASSUME FitSampler(sampler), sampler' \in {Apps!Rested, Apps!Asked}
  PROVE  FitSampler(sampler')
<1>1. FitSampler(Apps!Waiting) /\ FitSampler([Apps!Waiting EXCEPT !.at = "asked"])
  <2>1. FitSampler(Apps!Waiting)
    BY DEF Apps!Waiting, FitSampler, FitRows
  <2> DEFINE q == [Apps!Waiting EXCEPT !.at = "asked"]
  <2>2. q = [Apps!Waiting EXCEPT !.at = "asked"]
    OBVIOUS
  <2> HIDE DEF q
  <2>3. q = [at |-> q.at, rows |-> q.rows, ok |-> q.ok, queued |-> q.queued] /\ q.rows = {}
    BY <2>2 DEF Apps!Waiting
  <2>4. FitSampler(q)
    BY <2>3 DEF FitSampler, FitRows
  <2> QED BY <2>1, <2>4 DEF q
<1>2. FitSampler(Apps!Rested)
  BY <1>1 DEF Apps!Rested
<1>3. \A r : FitSampler(r) => FitSampler([r EXCEPT !.queued = TRUE])
  <2> SUFFICES ASSUME NEW r, FitSampler(r) PROVE FitSampler([r EXCEPT !.queued = TRUE])
    OBVIOUS
  <2> DEFINE q == [r EXCEPT !.queued = TRUE]
  <2>0. q = [r EXCEPT !.queued = TRUE]
    OBVIOUS
  <2> HIDE DEF q
  <2>1. q = [at |-> q.at, rows |-> q.rows, ok |-> q.ok, queued |-> q.queued] /\ q.rows = r.rows
    BY <2>0 DEF FitSampler
  <2>2. FitSampler(q)
    BY <2>1 DEF FitSampler
  <2> QED BY <2>2 DEF q
<1>4. FitSampler(Apps!Asked)
  <2> DEFINE r == Apps!Rested
  <2>1. Apps!Asked = [Apps!Waiting EXCEPT !.at = "asked"] \/ Apps!Asked = [r EXCEPT !.queued = TRUE]
    BY DEF Apps!Asked
  <2> HIDE DEF r
  <2> QED BY <1>1, <1>2, <1>3, <2>1 DEF r
<1> QED BY <1>2, <1>4

\* A drain, and what the sampler does after it.
LEMMA DrainingKeeps ==
  ASSUME AppsInv, NEW p, FitView(p), HoldsAll(icons, p.tasks), Apps!Drain(p),
         sampler' \in {Apps!Rested, Apps!Asked}, UNCHANGED open
  PROVE  AppsInv'
<1>1. FitView(page') /\ FitStore(icons') /\ HoldsAll(icons', page'.tasks)
  BY DrainKeeps DEF AppsInv
<1>2. PendingFits'
  <2>1. \E wanted : Asking(wanted)
    BY DrainAsks
  <2> QED BY <2>1, AskingKeeps DEF AppsInv, PendingFits
<1>3. FitSampler(sampler')
  BY SamplerRests DEF AppsInv
<1> QED BY <1>1, <1>2, <1>3 DEF AppsInv, PendingFits

\* collect_tasks_worker and TaskIconExecutor::collect.
LEMMA WorkersKeep ==
  ASSUME AppsInv, Apps!Sample \/ Apps!CollectIcons
  PROVE  AppsInv'
<1>1. CASE Apps!Sample
  <2>0. UNCHANGED <<open, collector, page, icons, pending>>
    BY <1>1 DEF Apps!Sample, Apps!world, Apps!lists
  <2>1. \E rows, ok : FitRows(rows) /\ sampler' = [[[sampler EXCEPT !.at = "done"] EXCEPT !.ok = ok]
                                                  EXCEPT !.rows = rows]
    <3>1. CASE \E lost \in SUBSET open :
                 sampler' = [sampler EXCEPT !.at = "done", !.ok = TRUE,
                               !.rows = {[w |-> w, hung |-> w \in hung] : w \in open \ lost}]
      <4>1. PICK lost \in SUBSET open :
              sampler' = [sampler EXCEPT !.at = "done", !.ok = TRUE,
                            !.rows = {[w |-> w, hung |-> w \in hung] : w \in open \ lost}]
        BY <3>1
      <4> DEFINE rows == {[w |-> w, hung |-> w \in hung] : w \in open \ lost}
      <4>2. open \subseteq Windows
        BY DEF AppsInv
      <4>3. FitRows(rows)
        BY <4>2 DEF FitRows
      <4>4. sampler' = [sampler EXCEPT !.at = "done", !.ok = TRUE, !.rows = rows]
        BY <4>1
      <4> HIDE DEF rows
      <4> QED BY <4>3, <4>4
    <3>2. CASE sampler' = [sampler EXCEPT !.at = "done", !.ok = FALSE, !.rows = {}]
      <4>1. FitRows({})
        BY DEF FitRows
      <4> QED BY <3>2, <4>1
    <3> QED BY <1>1, <3>1, <3>2 DEF Apps!Sample
  <2>2. FitSampler(sampler')
    BY <2>1 DEF AppsInv, FitSampler
  <2> QED BY <2>0, <2>2 DEF AppsInv, FitCollector
<1>2. CASE Apps!CollectIcons
  <2>0. UNCHANGED <<open, sampler, page, icons, pending>>
    BY <1>2 DEF Apps!CollectIcons, Apps!world
  <2>1. \E ok, found : collector' = [[[collector EXCEPT !.at = "done"] EXCEPT !.ok = ok]
                                      EXCEPT !.found = found]
    BY <1>2 DEF Apps!CollectIcons
  <2>2. /\ FitCollector(collector') /\ collector'.batch = collector.batch
        /\ collector'.queue = collector.queue
    BY <2>1 DEF AppsInv, FitCollector
  <2> QED BY <2>0, <2>2 DEF AppsInv
<1> QED BY <1>1, <1>2

\* The user and the desktop change nothing of it.
LEMMA OthersKeep ==
  ASSUME AppsInv,
         \/ Apps!WindowChanges \/ Apps!SelectRows \/ Apps!OpenMenu \/ Apps!CloseMenu \/ Apps!Command
         \/ UNCHANGED Apps!vars
  PROVE  AppsInv'
<1>1. CASE Apps!WindowChanges
  <2>1. open' \subseteq Windows
    BY <1>1 DEF Apps!WindowChanges, AppsInv
  <2> QED BY <1>1, <2>1 DEF Apps!WindowChanges, Apps!lists, AppsInv
<1>2. CASE Apps!SelectRows
  <2>1. UNCHANGED <<open, sampler, collector, icons, pending>>
    BY <1>2 DEF Apps!SelectRows, Apps!world
  <2>2. PICK a, b : page' = [[page EXCEPT !.marked = a] EXCEPT !.count = b]
    BY <1>2 DEF Apps!SelectRows
  <2>3. page = FieldsOf(page)
    BY DEF AppsInv, FitView
  <2>4. /\ page' = FieldsOf(page') /\ page'.tasks = page.tasks /\ page'.column = page.column
        /\ page'.descending = page.descending
    BY <2>2, <2>3 DEF FieldsOf
  <2>5. FitView(page')
    BY <2>4 DEF AppsInv, FitView, Rises, Apps!Precedes
  <2> QED BY <2>1, <2>4, <2>5 DEF AppsInv
<1>3. CASE \/ Apps!OpenMenu \/ Apps!CloseMenu \/ Apps!Command \/ UNCHANGED Apps!vars
  <2>1. UNCHANGED <<open, sampler, collector, page, icons, pending>>
    BY <1>3 DEF Apps!OpenMenu, Apps!CloseMenu, Apps!Command, Apps!vars, Apps!world, Apps!lists
  <2> QED BY <2>1 DEF AppsInv
<1> QED BY <1>1, <1>2, <1>3

LEMMA AppsNextKeeps == AppsInv /\ [Apps!Next]_(Apps!vars) => AppsInv'
<1> SUFFICES ASSUME AppsInv, [Apps!Next]_(Apps!vars) PROVE AppsInv'
  OBVIOUS
<1>0. FitView(page) /\ HoldsAll(icons, page.tasks)
  BY DEF AppsInv
<1>1. CASE Apps!Complete
  BY <1>0, <1>1, DrainingKeeps DEF Apps!Complete, Apps!world
<1>2. CASE Apps!TimerEvent
  BY <1>0, <1>2, DrainingKeeps DEF Apps!TimerEvent, Apps!world
<1>3. CASE Apps!ColumnClick
  <2>1. PICK c \in {"name", "status"} : Apps!Drain(Apps!Turned(page, c))
    BY <1>3 DEF Apps!ColumnClick
  <2>2. FitView(Apps!Turned(page, c)) /\ HoldsAll(icons, Apps!Turned(page, c).tasks)
    BY <1>0, TurnedFits
  <2>3. sampler' = Apps!Asked /\ UNCHANGED open
    BY <1>3 DEF Apps!ColumnClick, Apps!world
  <2> QED BY <2>1, <2>2, <2>3, DrainingKeeps
<1> QED BY <1>1, <1>2, <1>3, WorkersKeep, OthersKeep DEF Apps!Next

LEMMA AppsStart == Apps!Init => AppsInv
<1> SUFFICES ASSUME Apps!Init PROVE AppsInv
  OBVIOUS
<1>1. /\ open = Open /\ sampler = Apps!Waiting /\ collector = Apps!Collector /\ pending = {}
      /\ icons = [images |-> << >>, free |-> << >>]
      /\ page = [tasks |-> << >>, displayed |-> << >>, images |-> << >>, marked |-> {},
                 count |-> 0, column |-> "name", descending |-> FALSE, first |-> TRUE]
  BY DEF Apps!Init
<1>2. page = FieldsOf(page) /\ page.tasks = << >> /\ page.column = "name"
  BY <1>1 DEF FieldsOf
<1>3. FitTasks(<< >>) /\ \A p : Rises(<< >>, p)
  BY DEF FitTasks, Rises
<1>4. FitView(page)
  BY <1>2, <1>3 DEF FitView
<1>5. FitStore(icons) /\ HoldsAll(icons, page.tasks)
  <2>1. << >> \in Seq(Int) /\ << >> \in Seq(Nat) /\ Len(<< >>) = 0
    OBVIOUS
  <2> QED BY <1>1, <1>2, <2>1 DEF FitStore, HoldsAll
<1>6. FitSampler(sampler)
  BY <1>1 DEF FitSampler, FitRows, Apps!Waiting
<1>7. FitCollector(collector) /\ pending = collector.batch \union collector.queue
  BY <1>1 DEF FitCollector, Apps!Collector
<1> QED BY <1>1, <1>4, <1>5, <1>6, <1>7, WindowsAssumption DEF AppsInv

LEMMA AppsInvSuffices ==
  AppsInv => Apps!SlotsAreNotShared /\ Apps!PendingIconsAreOnTheWay /\ Apps!TasksAreSorted
<1> SUFFICES ASSUME AppsInv
             PROVE  Apps!SlotsAreNotShared /\ Apps!PendingIconsAreOnTheWay /\ Apps!TasksAreSorted
  OBVIOUS
<1>0. /\ FitTasks(page.tasks) /\ Rises(page.tasks, page) /\ page = FieldsOf(page)
      /\ FitStore(icons) /\ HoldsAll(icons, page.tasks)
  BY DEF AppsInv, FitView
<1>1. DOMAIN page.tasks = 1..Len(page.tasks) /\ DOMAIN icons.free = 1..Len(icons.free)
  BY <1>0 DEF FitTasks, FitStore
<1>2. Apps!SlotsAreNotShared
  <2>1. \A i \in DOMAIN page.tasks : page.tasks[i].slot # 0 =>
          /\ icons.images[page.tasks[i].slot] = page.tasks[i].w
          /\ \A k \in DOMAIN icons.free : icons.free[k] # page.tasks[i].slot
    BY <1>0, <1>1 DEF HoldsAll, Holds
  <2>2. \A k, l \in DOMAIN icons.free : k # l => icons.free[k] # icons.free[l]
    BY <1>0, <1>1 DEF FitStore
  <2> QED BY <2>1, <2>2 DEF Apps!SlotsAreNotShared
<1>3. Apps!TasksAreSorted
  <2> DEFINE us == Apps!InOrder({page.tasks[i] : i \in DOMAIN page.tasks}, page)
  <2>1. {page.tasks[i] : i \in DOMAIN page.tasks} = Firsts(page.tasks, Len(page.tasks))
    BY <1>1 DEF Firsts
  <2>2. page.tasks = us
    BY <1>0, <2>1, RisingIsSorted
  <2>3. Apps!Resorted(page) = [page EXCEPT !.tasks = us]
    BY DEF Apps!Resorted
  <2> HIDE DEF us
  <2>4. [page EXCEPT !.tasks = us].tasks = us
    BY <1>0 DEF FieldsOf
  <2> QED BY <2>2, <2>3, <2>4 DEF Apps!TasksAreSorted
<1> QED BY <1>2, <1>3 DEF AppsInv, Apps!PendingIconsAreOnTheWay

\* Every task has the icon of its own window in a slot of its own, every icon that
\* is missing is under way, and the tasks are in the user's order, for any windows
\* that open, close and hang, whichever calls fail and in whatever order snapshots
\* and icons arrive (TaskIconStore, apply_task_snapshot, apply_task_icon_results,
\* schedule_icon_collection).
THEOREM TasksHaveIcons == ResourcesSpec => []TasksHaveTheirIcons
<1> DEFINE Kept == which = "applications" => AppsInv
<1>1. ResourcesInit => Kept
  BY AppsStart DEF ResourcesInit
<1>2. Kept /\ [ResourcesNext]_<<which, vars, affinityVars, applicationsVars, poolVars>> => Kept'
  <2> SUFFICES ASSUME which = "applications", which' = "applications", AppsInv,
                      [Apps!Next]_(Apps!vars)
               PROVE  AppsInv'
    BY DEF ResourcesNext, applicationsVars, Apps!vars, Apps!world, Apps!lists
  <2> QED
    BY AppsNextKeeps
<1>3. Kept => TasksHaveTheirIcons
  BY AppsInvSuffices DEF TasksHaveTheirIcons
<1> QED
  BY <1>1, <1>2, <1>3, PTL DEF ResourcesSpec
================================================================================
