----------------------------- MODULE ServicesProofs -----------------------------
(***************************************************************************)
(* Proofs about the components of MCServices, for any values of their      *)
(* constants.                                                              *)
(***************************************************************************)
EXTENDS MCServices, SequenceTheorems, FiniteSetTheorems, WellFoundedInduction, TLAPS

everything == <<which, vars, optionVars, logVars, exportVars, commandVars, counterVars,
                samplingVars>>

-----------------------------------------------------------------------------
(* The single instance.                                                     *)

\* The part of a launch that the mutex is for.
Starting == {"find", "send", "start", "created"}
Places == {"none", "mutex", "wait", "shown", "closing", "gone"} \union Starting

\* What the steps of the lock need of the types; candidates, answers and windows
\* may be anything.
TypeInv ==
    /\ pc \in [Launches -> Places]
    /\ mutex \in Launches \union {Nobody}
    /\ handle \subseteq Launches
    /\ faults \in Nat

LockInv ==
    /\ \A p \in Launches : mutex = p => p \in handle /\ pc[p] \in Starting
    /\ \A p \in Launches : pc[p] = "wait" => p \in handle
    /\ \A p \in Launches : p \in handle => pc[p] \in Starting \union {"wait"}
    /\ faults = 0 => \A p \in Launches : pc[p] \in Starting => mutex = p

IInv == TypeInv /\ LockInv

\* Initially no launch is anywhere.
LEMMA InitLock == Init => IInv
  BY NobodyAssumption DEF Init, IInv, TypeInv, LockInv, Places, Starting

\* A step of one launch keeps every launch in its place and the mutex with who
\* is starting.
LEMMA StepLock ==
  ASSUME IInv, NEW p \in Launches, Step(p)
  PROVE  IInv'
<1> USE NobodyAssumption DEF IInv, TypeInv, LockInv, Places, Starting, Goto, lock
<1>1. CASE Launch(p)
  BY <1>1 DEF Launch
<1>2. CASE CreateMutex(p)
  BY <1>2 DEF CreateMutex, Fault
<1>3. CASE AcquireMutex(p)
  BY <1>3 DEF AcquireMutex, Fault
<1>4. CASE Find(p)
  BY <1>4 DEF Find, search
<1>5. CASE Answer(p)
  BY <1>5 DEF Answer
<1>6. CASE Sent(p)
  <2>1. faults' \in Nat /\ (faults' = 0 => faults = 0)
    BY <1>6 DEF Sent, Fault
  <2>2. CASE answer[p] = "PWM_ACTIVATE" /\ StillBound(candidate[p])
    BY <1>6, <2>1, <2>2 DEF Sent, Released
  <2>3. CASE ~(answer[p] = "PWM_ACTIVATE" /\ StillBound(candidate[p]))
    BY <1>6, <2>1, <2>3 DEF Sent
  <2> QED
    BY <2>2, <2>3
<1>7. CASE StartFails(p)
  BY <1>7 DEF StartFails, Fault, Released
<1>8. CASE CreateWindow(p)
  BY <1>8 DEF CreateWindow
<1>9. CASE ShowWindow(p)
  BY <1>9 DEF ShowWindow, Released
<1>10. CASE Restart(p)
  BY <1>10 DEF Restart
<1>11. CASE Close(p)
  BY <1>11 DEF Close
<1>12. CASE Destroyed(p)
  BY <1>12 DEF Destroyed
<1>13. CASE Killed(p)
  BY <1>13 DEF Killed, Fault, Released
<1> QED
  BY <1>1, <1>2, <1>3, <1>4, <1>5, <1>6, <1>7, <1>8, <1>9, <1>10, <1>11, <1>12, <1>13
  DEF Step

\* Whoever holds the mutex is starting, and there is one place for who is.
LEMMA LockCovers == IInv => MutexCoversTheStart
<1> SUFFICES ASSUME IInv PROVE MutexCoversTheStart
  OBVIOUS
<1>1. \A p \in Launches : (mutex = p \/ p \in handle) =>
         pc[p] \in {"wait", "find", "send", "start", "created"}
  BY DEF IInv, LockInv, Starting
<1>2. ASSUME faults = 0
      PROVE  Cardinality({p \in Launches : pc[p] \in {"find", "send", "start", "created"}}) <= 1
  <2> DEFINE S == {p \in Launches : pc[p] \in {"find", "send", "start", "created"}}
  <2>1. S \subseteq {mutex}
    BY <1>2 DEF IInv, LockInv, Starting
  <2>2. IsFiniteSet({mutex}) /\ Cardinality({mutex}) = 1
    BY FS_Singleton
  <2>3. IsFiniteSet(S) /\ Cardinality(S) <= Cardinality({mutex})
    BY <2>1, <2>2, FS_Subset
  <2> QED
    BY <2>2, <2>3
<1> QED
  BY <1>1, <1>2 DEF MutexCoversTheStart

\* The startup mutex is held only by launches that are starting, and without
\* faults at most one launch is between the search and its window (run_main,
\* acquire_startup_mutex, release_startup_mutex).
THEOREM MutexCovers == Spec => []MutexCoversTheStart
<1>1. IInv /\ [Next]_vars => IInv'
  <2>1. IInv /\ UNCHANGED vars => IInv'
    BY DEF vars, IInv, TypeInv, LockInv
  <2> QED
    BY <2>1, StepLock DEF Next
<1> QED
  BY <1>1, InitLock, LockCovers, PTL DEF Spec

-----------------------------------------------------------------------------
(* The dialog of an export.  No prompt is open while an export runs, and the *)
(* button that would end the dialog stays disabled, although a refresh after *)
(* a check box enables two of the others again.                              *)

Exporting == exportThread # "none" \/ posted

ExportDialogInv ==
    Export!Running =>
      /\ exporting \in BOOLEAN /\ posted \in BOOLEAN
      /\ Exporting => exporting
      /\ exporting => dialog \in {"open", "closed"} /\ "restart" \notin enabled
      /\ Exporting => dialog = "open"
      /\ ~(exportThread # "none" /\ posted)

\* Init.
LEMMA ExportDialogStart == Export!Init => ExportDialogInv
  BY DEF Export!Init, ExportDialogInv, Exporting

LEMMA ExportDialogKeeps == ExportDialogInv /\ [Export!Next]_(Export!vars) => ExportDialogInv'
<1> SUFFICES ASSUME ExportDialogInv, [Export!Next]_(Export!vars), Export!Running' PROVE ExportDialogInv'
  BY DEF ExportDialogInv
<1> USE DEF ExportDialogInv, Exporting, Export!Running
<1>1. CASE UNCHANGED Export!vars
  BY <1>1 DEF Export!vars, Export!ui, Export!export
<1>2. CASE Export!Store
  BY <1>2 DEF Export!Store, Export!export
<1>3. CASE Export!Open
  BY <1>3 DEF Export!Open, Export!export
<1>4. CASE Export!Cancel
  BY <1>4 DEF Export!Cancel, Export!Idle, Export!export
<1>5. CASE Export!Restart
  BY <1>5 DEF Export!Restart, Export!Idle, Export!export
<1>6. ASSUME NEW box, Export!Toggle(box) PROVE ExportDialogInv'
  BY <1>6 DEF Export!Toggle, Export!Idle, Export!export
<1>7. CASE Export!ClickExport
  BY <1>7 DEF Export!ClickExport, Export!Idle
<1>8. CASE Export!AnswerWarning \/ Export!NoExport \/ Export!BeginExport \/ Export!CompleteExport
  BY <1>8 DEF Export!AnswerWarning, Export!NoExport, Export!BeginExport, Export!CompleteExport,
     Export!export, Export!Buttons
<1>9. CASE Export!Collect \/ Export!ReadStatus \/ Export!Post
  BY <1>9 DEF Export!Collect, Export!ReadStatus, Export!Post, Export!ui
<1>10. CASE Export!BuildRecord \/ Export!WriteRecord \/ Export!OtherCrash \/ Export!Crash
  BY <1>10 DEF Export!BuildRecord, Export!WriteRecord, Export!OtherCrash, Export!Crash,
     Export!ui, Export!export
<1> QED BY <1>1, <1>2, <1>3, <1>4, <1>5, <1>6, <1>7, <1>8, <1>9, <1>10 DEF Export!Next

\* A step of the services is one of the export, if it is about the export.
LEMMA ExportStep ==
  ASSUME [ServicesNext]_everything
  PROVE  which' = which /\ (which = "export" => [Export!Next]_(Export!vars))
  BY DEF ServicesNext, everything, exportVars, Export!vars, Export!runtime, Export!ui,
     Export!export, Export!world

\* The dialog is there when its export ends, no second one has begun, and the
\* boxes stay as they were when it began (diagnostics_dialog_proc).
THEOREM DialogStaysForTheExport == ServicesSpec => []DialogOutlivesTheExport
<1> DEFINE Kept == which = "export" => ExportDialogInv
<1>1. ServicesInit => Kept
  BY ExportDialogStart DEF ServicesInit
<1>2. Kept /\ [ServicesNext]_everything => Kept'
  BY ExportStep, ExportDialogKeeps
<1>3. Kept => DialogOutlivesTheExport
  BY DEF DialogOutlivesTheExport, ExportDialogInv, Export!DialogOutlivesTheExport, Exporting
<1> QED
  BY <1>1, <1>2, <1>3, PTL DEF ServicesSpec, everything

-----------------------------------------------------------------------------
(* The log.  A record is in one place only: with its thread, in a lane or   *)
(* in the file.  While the file is there, what a command promised is still  *)
(* in a lane the writer has yet to empty for it, or written.                *)

LogRecord == [id : Nat, lane : Log!Lanes]
LogLine == [seq : Nat, what : LogRecord \union [count : Nat], part : Nat]
LogCommand == [kind : {"flush", "shutdown"}, to : Log!Callers \union {"nobody"}]
CallerPlaces == {"idle", "send", "count", "command", "wait", "join", "stopped"}
AtRest == {"control", "priority", "regular", "tick", "ending", "gone"}
AtWorkForACommand == {"drain-priority", "drain-regular", "report", "finish"}
LogSink == [active : BOOLEAN, part : Nat, bytes : Nat]

LogTyped ==
    /\ thread \in [Log!Callers -> CallerPlaces]
    /\ holding \in [Threads -> LogRecord] /\ built \in Nat
    /\ lane \in [Log!Lanes -> Seq(LogRecord)]
    /\ control \in Seq(LogCommand) /\ command \in LogCommand
    /\ writer \in AtRest \union AtWorkForACommand
    /\ sink \in LogSink /\ file \in Seq(LogLine) /\ sequence \in Nat
    /\ dropped \in [Log!Lanes -> Nat] /\ droppedTotal \in Nat
    /\ reply \in [Log!Callers -> {"none", "ok", "failed", "refused", "closed"}]
    /\ promised \in [Log!Callers -> SUBSET Nat]

\* The sequence is the number of lines as long as there is a file.
LinesNumbered ==
    /\ sink.active => sequence = Len(file)
    /\ \A i \in DOMAIN file : file[i].seq = i

IsRecord(i) == "id" \in DOMAIN file[i].what

\* A record is in one place, once.
RecordsOnce ==
    /\ \A t \in Threads : thread[t] = "send" => holding[t].id \in 1..built
    /\ \A t, u \in Threads : thread[t] = "send" /\ thread[u] = "send" /\ t # u =>
         holding[t].id # holding[u].id
    /\ \A l \in Log!Lanes : \A i \in DOMAIN lane[l] :
         /\ lane[l][i].id \in 1..built
         /\ \A t \in Threads : thread[t] = "send" => holding[t].id # lane[l][i].id
         /\ \A m \in Log!Lanes : \A j \in DOMAIN lane[m] :
              <<l, i>> # <<m, j>> => lane[l][i].id # lane[m][j].id
    /\ \A k \in DOMAIN file : IsRecord(k) =>
         /\ file[k].what.id \in 1..built
         /\ \A t \in Threads : thread[t] = "send" => holding[t].id # file[k].what.id
         /\ \A l \in Log!Lanes : \A i \in DOMAIN lane[l] : lane[l][i].id # file[k].what.id
         /\ \A j \in DOMAIN file : j # k /\ IsRecord(j) => file[j].what.id # file[k].what.id

Pending(t) == command.to = t \/ \E i \in DOMAIN control : control[i].to = t

\* A caller waits for at most one command, and only "main" shuts the log down.
CallersServed ==
    /\ writer \in AtRest => command = Log!NoCommand
    /\ \A t \in Log!Callers : Pending(t) => thread[t] = "wait" /\ reply[t] = "none"
    /\ \A t \in Threads : thread[t] # "wait" => reply[t] = "none"
    /\ \A i, j \in DOMAIN control : i # j /\ control[i].to = control[j].to => control[i].to = "nobody"
    /\ \A i \in DOMAIN control : control[i].to = command.to => command.to = "nobody"
    /\ \A i \in DOMAIN control : control[i].kind = "shutdown" => control[i].to \notin Threads
    /\ command.kind = "shutdown" => command.to \notin Threads
    /\ thread["main"] \in {"idle", "command"} =>
         /\ command.kind = "flush" /\ writer # "ending"
         /\ promised["main"] = {} /\ reply["main"] = "none"
         /\ \A i \in DOMAIN control : control[i].kind = "flush"
    /\ thread["main"] = "stopped" => writer = "gone"

LaneIds(l) == {lane[l][i].id : i \in DOMAIN lane[l]}

\* What is still to be written of a promise, given how far its command is.
Saved(p, pending, taken) ==
    /\ pending => p \subseteq LaneIds("regular") \union LaneIds("priority") \union Log!Written
    /\ taken => CASE writer = "drain-priority" ->
                         p \subseteq LaneIds("regular") \union LaneIds("priority") \union Log!Written
                    [] writer = "drain-regular" -> p \subseteq LaneIds("regular") \union Log!Written
                    [] writer \in {"report", "finish"} -> p \subseteq Log!Written
                    [] OTHER -> TRUE

PromisesKept ==
    /\ \A t \in Threads : reply[t] = "ok" => promised[t] \subseteq Log!Written
    /\ sink.active =>
         /\ \A t \in Threads : Saved(promised[t], \E i \in DOMAIN control : control[i].to = t,
                                     command.to = t)
         /\ Saved(promised["main"], \E i \in DOMAIN control : control[i].kind = "shutdown",
                  command.kind = "shutdown")
         /\ writer \in {"ending", "gone"} => promised["main"] \subseteq Log!Written

LogInv == LogTyped /\ LinesNumbered /\ RecordsOnce /\ CallersServed /\ PromisesKept /\ Log!DropsAreTold

\* What Tail leaves.
LEMMA TailParts ==
  ASSUME NEW R, NEW q \in Seq(R), q # <<>>
  PROVE  /\ Tail(q) \in Seq(R) /\ Head(q) = q[1] /\ Head(q) \in R /\ 1 \in DOMAIN q
         /\ \A k \in DOMAIN Tail(q) : k \in Nat /\ k # 0 /\ k + 1 \in DOMAIN q /\ Tail(q)[k] = q[k + 1]
         /\ \A k \in DOMAIN q : k = 1 \/ (k - 1 \in DOMAIN Tail(q) /\ Tail(q)[k - 1] = q[k])
<1>1. /\ Tail(q) \in Seq(R) /\ Len(Tail(q)) = Len(q) - 1
      /\ \A k \in 1..(Len(q) - 1) : Tail(q)[k] = q[k + 1]
  BY HeadTailProperties
<1>2. Len(q) \in Nat /\ Len(q) # 0 /\ DOMAIN q = 1..Len(q)
  BY EmptySeq
<1>3. DOMAIN Tail(q) = 1..(Len(q) - 1)
  BY <1>1
<1>4. Head(q) = q[1] /\ 1 \in DOMAIN q /\ q[1] \in R
  BY <1>2
<1>5. ASSUME NEW k \in DOMAIN Tail(q)
      PROVE  k \in Nat /\ k # 0 /\ k + 1 \in DOMAIN q /\ Tail(q)[k] = q[k + 1]
  BY <1>1, <1>2, <1>3
<1>6. ASSUME NEW k \in DOMAIN q, k # 1
      PROVE  k - 1 \in DOMAIN Tail(q) /\ Tail(q)[k - 1] = q[k]
  <2>1. k - 1 \in 1..(Len(q) - 1) /\ (k - 1) + 1 = k
    BY <1>2, <1>6
  <2> QED BY <1>1, <1>3, <2>1
<1> QED BY <1>1, <1>4, <1>5, <1>6

\* What Append adds.
LEMMA AppendParts ==
  ASSUME NEW R, NEW q \in Seq(R), NEW e \in R
  PROVE  /\ Append(q, e) \in Seq(R) /\ Len(Append(q, e)) = Len(q) + 1 /\ Len(q) \in Nat
         /\ DOMAIN Append(q, e) = DOMAIN q \union {Len(q) + 1} /\ Len(q) + 1 \notin DOMAIN q
         /\ Append(q, e)[Len(q) + 1] = e /\ \A k \in DOMAIN q : Append(q, e)[k] = q[k]
<1>1. Append(q, e) \in Seq(R) /\ Len(Append(q, e)) = Len(q) + 1 /\ Len(q) \in Nat
      /\ Append(q, e)[Len(q) + 1] = e /\ \A k \in 1..Len(q) : Append(q, e)[k] = q[k]
  BY AppendProperties
<1>2. DOMAIN q = 1..Len(q) /\ DOMAIN Append(q, e) = 1..(Len(q) + 1)
  BY <1>1
<1>3. 1..(Len(q) + 1) = (1..Len(q)) \union {Len(q) + 1}
  BY <1>1
<1> QED BY <1>1, <1>2, <1>3

\* Induction over the numbers, for a set of them.
LEMMA NumbersInduction ==
  ASSUME NEW S, 0 \in S, \A n \in Nat : n \in S => n + 1 \in S
  PROVE  Nat \subseteq S
<1> SUFFICES ASSUME NEW m \in Nat, m \notin S PROVE FALSE
  OBVIOUS
<1> DEFINE T == {1..n : n \in Nat \ S}
           R == StrictSubsetOrdering(Nat)
<1>1. T \subseteq FiniteSubsetsOf(Nat) /\ T # {}
  <2>1. \A n \in Nat : 1..n \subseteq Nat /\ IsFiniteSet(1..n)
    BY FS_Interval
  <2> QED BY <2>1 DEF FiniteSubsetsOf
<1>2. PICK x \in T : \A y \in T : <<y, x>> \notin R
  <2> HIDE DEF T, R
  <2>1. IsWellFoundedOn(R, FiniteSubsetsOf(Nat))
    BY FS_StrictSubsetOrderingWellFounded DEF R
  <2> QED BY <1>1, <2>1, WFMin
<1>3. PICK n \in Nat \ S : x = 1..n
  OBVIOUS
<1>4. n # 0 /\ n - 1 \in Nat /\ (n - 1) + 1 = n
  OBVIOUS
<1>5. n - 1 \notin S
  BY <1>4
<1>6. 1..(n - 1) \in T /\ 1..(n - 1) \subseteq x /\ 1..(n - 1) # x
  BY <1>3, <1>4, <1>5
<1>7. 1..(n - 1) \in SUBSET Nat /\ x \in SUBSET Nat
  BY <1>3
<1> QED BY <1>2, <1>6, <1>7 DEF StrictSubsetOrdering

Highest(t) == CHOOSE x \in t : \A y \in t : x >= y

\* A set of numbers up to n, unless empty, has a highest one.
LEMMA IntervalMax ==
  ASSUME NEW n \in Nat, NEW t \in SUBSET (1..n), t # {}
  PROVE  Highest(t) \in t /\ \A y \in t : Highest(t) >= y
<1> DEFINE Has(u) == \E x \in u : \A y \in u : x >= y
           S == {k \in Nat : \A u \in SUBSET (1..k) : u # {} => Has(u)}
<1>1. 0 \in S
  <2>1. 1..0 = {}
    OBVIOUS
  <2> QED BY <2>1
<1>2. ASSUME NEW k \in Nat, k \in S PROVE k + 1 \in S
  <2> SUFFICES ASSUME NEW u \in SUBSET (1..(k + 1)), u # {} PROVE Has(u)
    OBVIOUS
  <2>1. CASE k + 1 \in u
    BY <2>1
  <2>2. CASE k + 1 \notin u
    <3>1. u \in SUBSET (1..k)
      BY <2>2
    <3> QED BY <1>2, <3>1
  <2> QED BY <2>1, <2>2
<1> HIDE DEF S
<1>3. n \in S
  BY <1>1, <1>2, NumbersInduction
<1>4. Has(t)
  BY <1>3 DEF S
<1> QED BY <1>4 DEF Highest

\* The highest of the first k numbers, and what is below it.
LEMMA IntervalTop ==
  ASSUME NEW k \in Nat, k # 0
  PROVE  Highest(1..k) = k /\ (1..k) \ {k} = 1..(k - 1) /\ 1..k # {}
<1>1. k \in 1..k /\ 1..k \in SUBSET (1..k)
  OBVIOUS
<1>2. 1..k # {}
  BY <1>1
<1>3. Highest(1..k) \in 1..k /\ Highest(1..k) >= k
  BY <1>1, <1>2, IntervalMax
<1>4. Highest(1..k) = k
  BY <1>1, <1>3
<1>5. (1..k) \ {k} = 1..(k - 1)
  OBVIOUS
<1> QED BY <1>2, <1>4, <1>5

\* What the community modules' fold of a sequence computes, on every subset of
\* its places: op is the function that takes a result and an element.
Folding(f, op, base, s) ==
  f = [t \in SUBSET DOMAIN s |-> IF t = {} THEN base ELSE op[<<f[t \ {Highest(t)}], s[Highest(t)]>>]]

\* There is such a function.
LEMMA FoldExists ==
  ASSUME NEW A, NEW B, NEW base \in A, NEW op \in [A \X B -> A], NEW s \in Seq(B)
  PROVE  \E f \in [SUBSET DOMAIN s -> A] : Folding(f, op, base, s)
<1> DEFINE Has(r) == \E f \in [SUBSET DOMAIN r -> A] : Folding(f, op, base, r)
           S == {k \in Nat : \A r \in Seq(B) : Len(r) = k => Has(r)}
<1>1. 0 \in S
  <2> SUFFICES ASSUME NEW r \in Seq(B), Len(r) = 0 PROVE Has(r)
    OBVIOUS
  <2>0. r = <<>>
    BY EmptySeq
  <2>1. DOMAIN r = {} /\ SUBSET {} = {{}}
    BY <2>0
  <2> DEFINE f == [t \in SUBSET {} |-> base]
  <2>2. f \in [SUBSET DOMAIN r -> A] /\ Folding(f, op, base, r)
    BY <2>1 DEF Folding
  <2> QED BY <2>2
<1>2. ASSUME NEW k \in Nat, k \in S PROVE k + 1 \in S
  <2> SUFFICES ASSUME NEW r \in Seq(B), Len(r) = k + 1 PROVE Has(r)
    <3> HIDE DEF Has
    <3> QED OBVIOUS
  <2> DEFINE q == SubSeq(r, 1, k)
  <2>1. q \in Seq(B) /\ Len(q) = k /\ DOMAIN q = 1..k /\ \A i \in 1..k : q[i] = r[i]
    OBVIOUS
  <2>2. DOMAIN r = 1..(k + 1) /\ r[k + 1] \in B
    OBVIOUS
  <2> HIDE DEF q
  <2>3. PICK g \in [SUBSET (1..k) -> A] : Folding(g, op, base, q)
    BY <1>2, <2>1
  <2> DEFINE f == [t \in SUBSET (1..(k + 1)) |->
                     IF k + 1 \in t THEN op[<<g[t \ {k + 1}], r[k + 1]>>] ELSE g[t]]
  <2>4. f \in [SUBSET DOMAIN r -> A]
    <3> SUFFICES ASSUME NEW t \in SUBSET (1..(k + 1)) PROVE f[t] \in A
      BY <2>2
    <3>1. t \ {k + 1} \in SUBSET (1..k)
      OBVIOUS
    <3>2. k + 1 \notin t => t \in SUBSET (1..k)
      OBVIOUS
    <3> QED BY <2>2, <3>1, <3>2
  <2>5. ASSUME NEW t \in SUBSET (1..(k + 1))
        PROVE  f[t] = IF t = {} THEN base ELSE op[<<f[t \ {Highest(t)}], r[Highest(t)]>>]
    <3>1. CASE k + 1 \in t
      <4>0. k + 1 \in Nat /\ t # {}
        BY <3>1
      <4>1. Highest(t) \in t /\ Highest(t) >= k + 1
        BY <3>1, <4>0, IntervalMax
      <4>m. Highest(t) \in 1..(k + 1)
        BY <4>1
      <4>2. Highest(t) = k + 1
        BY <4>1, <4>m
      <4>3. t \ {k + 1} \in SUBSET (1..(k + 1)) /\ k + 1 \notin t \ {k + 1}
        OBVIOUS
      <4>4. f[t \ {k + 1}] = g[t \ {k + 1}]
        BY <4>3
      <4> QED BY <3>1, <4>2, <4>4
    <3>2. CASE k + 1 \notin t
      <4>1. t \in SUBSET (1..k) /\ f[t] = g[t]
        BY <3>2
      <4>2. g[t] = IF t = {} THEN base ELSE op[<<g[t \ {Highest(t)}], q[Highest(t)]>>]
        BY <2>1, <2>3, <4>1 DEF Folding
      <4>3. CASE t = {}
        BY <4>1, <4>2, <4>3
      <4>4. CASE t # {}
        <5>1. Highest(t) \in 1..k
          BY <4>1, <4>4, IntervalMax
        <5>2. t \ {Highest(t)} \in SUBSET (1..(k + 1)) /\ k + 1 \notin t \ {Highest(t)}
          BY <3>2
        <5>3. f[t \ {Highest(t)}] = g[t \ {Highest(t)}]
          BY <5>2
        <5> QED BY <2>1, <4>1, <4>2, <4>4, <5>1, <5>3
      <4> QED BY <4>3, <4>4
    <3> QED BY <3>1, <3>2
  <2>6. Folding(f, op, base, r)
    BY <2>2, <2>5 DEF Folding
  <2> QED BY <2>4, <2>6
<1> HIDE DEF S
<1>3. Len(s) \in S
  BY <1>1, <1>2, NumbersInduction
<1> QED BY <1>3 DEF S

\* The fold of the first k elements is one step from that of the first k - 1.
LEMMA FoldStep ==
  ASSUME NEW n \in Nat, NEW s, DOMAIN s = 1..n, NEW base, NEW op, NEW f, Folding(f, op, base, s)
  PROVE  /\ f[1..0] = base
         /\ \A k \in 1..n : f[1..k] = op[<<f[1..(k - 1)], s[k]>>]
<1>1. \A t \in SUBSET (1..n) :
        f[t] = IF t = {} THEN base ELSE op[<<f[t \ {Highest(t)}], s[Highest(t)]>>]
  BY DEF Folding
<1>2. f[1..0] = base
  <2>1. 1..0 = {} /\ {} \in SUBSET (1..n)
    OBVIOUS
  <2> QED BY <1>1, <2>1
<1>3. ASSUME NEW k \in 1..n PROVE f[1..k] = op[<<f[1..(k - 1)], s[k]>>]
  <2>1. k \in Nat /\ k # 0 /\ 1..k \in SUBSET (1..n)
    OBVIOUS
  <2>2. Highest(1..k) = k /\ (1..k) \ {k} = 1..(k - 1) /\ 1..k # {}
    BY <2>1, IntervalTop
  <2>3. f[1..k] = op[<<f[(1..k) \ {Highest(1..k)}], s[Highest(1..k)]>>]
    BY <1>1, <2>1, <2>2
  <2> QED BY <2>2, <2>3
<1> QED BY <1>2, <1>3

\* With one element more the fold does one step more.
LEMMA FoldAppends ==
  ASSUME NEW B, NEW base, NEW op, NEW s \in Seq(B), NEW b \in B,
         NEW f, Folding(f, op, base, s), NEW g, Folding(g, op, base, Append(s, b))
  PROVE  g[DOMAIN Append(s, b)] = op[<<f[DOMAIN s], b>>]
<1> DEFINE n == Len(s)
           S == {k \in Nat : k <= n => g[1..k] = f[1..k]}
<1>0. n \in Nat /\ DOMAIN s = 1..n /\ DOMAIN Append(s, b) = 1..(n + 1)
      /\ (\A i \in 1..n : Append(s, b)[i] = s[i]) /\ Append(s, b)[n + 1] = b
  OBVIOUS
<1> HIDE DEF n
<1>1. /\ f[1..0] = base
      /\ \A k \in 1..n : f[1..k] = op[<<f[1..(k - 1)], s[k]>>]
  BY <1>0, FoldStep
<1>2. /\ g[1..0] = base
      /\ \A k \in 1..(n + 1) : g[1..k] = op[<<g[1..(k - 1)], Append(s, b)[k]>>]
  <2> DEFINE r == Append(s, b)
             m == n + 1
  <2>1. m \in Nat /\ DOMAIN r = 1..m /\ Folding(g, op, base, r)
    BY <1>0
  <2> HIDE DEF S, r, m
  <2>2. /\ g[1..0] = base
        /\ \A k \in 1..m : g[1..k] = op[<<g[1..(k - 1)], r[k]>>]
    BY <2>1, FoldStep
  <2> QED BY <2>2 DEF r, m
<1>3. 0 \in S
  BY <1>1, <1>2
<1>4. ASSUME NEW k \in Nat, k \in S PROVE k + 1 \in S
  <2> SUFFICES ASSUME k + 1 <= n PROVE g[1..(k + 1)] = f[1..(k + 1)]
    OBVIOUS
  <2>1. k + 1 \in 1..n /\ k + 1 \in 1..(n + 1) /\ (k + 1) - 1 = k /\ g[1..k] = f[1..k]
    BY <1>0, <1>4
  <2> HIDE DEF S
  <2>2. f[1..(k + 1)] = op[<<f[1..k], s[k + 1]>>]
    BY <1>1, <2>1
  <2>3. g[1..(k + 1)] = op[<<g[1..k], Append(s, b)[k + 1]>>]
    BY <1>2, <2>1
  <2>4. Append(s, b)[k + 1] = s[k + 1]
    BY <1>0, <2>1
  <2> QED BY <2>1, <2>2, <2>3, <2>4
<1>5. n \in S
  <2> HIDE DEF S
  <2> QED BY <1>0, <1>3, <1>4, NumbersInduction
<1>6. g[1..n] = f[1..n]
  BY <1>0, <1>5
<1>7. n + 1 \in 1..(n + 1) /\ (n + 1) - 1 = n
  BY <1>0
<1>8. g[1..(n + 1)] = op[<<g[1..n], b>>]
  BY <1>0, <1>2, <1>7
<1> QED BY <1>0, <1>6, <1>8

\* The drops told in the lines of a log.
CountsAdded == [p \in Nat \X LogLine |-> p[1] + Log!CountOf(p[2])]
Adding(f, s) ==
  f = [t \in SUBSET DOMAIN s |-> IF t = {} THEN 0 ELSE f[t \ {Highest(t)}] + Log!CountOf(s[Highest(t)])]
Told(s) == (CHOOSE f : Adding(f, s))[DOMAIN s]

\* What the fold of the community modules computes for the log.
LEMMA ReportedIsTold == Log!ReportedIn = Told(file) /\ Log!ReportedIn' = Told(file')
<1>1. Log!ReportedIn = Told(file)
  BY DEF Log!ReportedIn, Log!FoldLeft, Log!MapThenFoldSet, Log!Max, Highest, Told, Adding
<1>2. Log!ReportedIn' = Told(file')
  BY DEF Log!ReportedIn, Log!FoldLeft, Log!MapThenFoldSet, Log!Max, Highest, Told, Adding
<1> QED BY <1>1, <1>2

\* A line tells a number of drops.
LEMMA CountOfNat == \A line \in LogLine : Log!CountOf(line) \in Nat
  BY DEF LogLine, LogRecord, Log!CountOf

\* Adding what a line tells is a function of numbers.
LEMMA CountsAddedType == CountsAdded \in [Nat \X LogLine -> Nat]
  BY CountOfNat DEF CountsAdded

\* The sum of what the lines tell is a fold.
LEMMA ToldFolds ==
  ASSUME NEW s \in Seq(LogLine)
  PROVE  \E f \in [SUBSET DOMAIN s -> Nat] : Folding(f, CountsAdded, 0, s) /\ Told(s) = f[DOMAIN s]
<1>1. PICK g : g \in [SUBSET DOMAIN s -> Nat] /\ Folding(g, CountsAdded, 0, s)
  BY CountsAddedType, FoldExists
<1>2. ASSUME NEW t \in SUBSET DOMAIN s, t # {}
      PROVE  /\ s[Highest(t)] \in LogLine /\ t \ {Highest(t)} \in SUBSET DOMAIN s
  <2>1. DOMAIN s = 1..Len(s) /\ Len(s) \in Nat
    OBVIOUS
  <2>2. Highest(t) \in DOMAIN s
    BY <1>2, <2>1, IntervalMax
  <2> QED BY <2>1, <2>2
<1>3. Adding(g, s)
  <2>1. \A t \in SUBSET DOMAIN s : g[t] \in Nat
    BY <1>1
  <2>2. ASSUME NEW t \in SUBSET DOMAIN s, t # {}
        PROVE  g[t] = g[t \ {Highest(t)}] + Log!CountOf(s[Highest(t)])
    <3>1. g[t] = CountsAdded[<<g[t \ {Highest(t)}], s[Highest(t)]>>]
      BY <1>1, <2>2 DEF Folding
    <3> QED BY <1>2, <2>1, <2>2, <3>1 DEF CountsAdded
  <2>3. {} \in SUBSET DOMAIN s => g[{}] = 0
    BY <1>1 DEF Folding
  <2> QED BY <1>1, <2>2, <2>3 DEF Adding, Folding
<1>4. PICK f : f = (CHOOSE h : Adding(h, s)) /\ Adding(f, s)
  BY <1>3
<1>5. \A t \in SUBSET DOMAIN s : f[t] = IF t = {} THEN 0 ELSE f[t \ {Highest(t)}] + Log!CountOf(s[Highest(t)])
  BY <1>4 DEF Adding
<1> DEFINE n == Len(s)
           S == {k \in Nat : k <= n => f[1..k] = g[1..k]}
<1>6. n \in Nat /\ DOMAIN s = 1..n
  OBVIOUS
<1> HIDE DEF n
<1>7. /\ g[1..0] = 0
      /\ \A k \in 1..n : g[1..k] = CountsAdded[<<g[1..(k - 1)], s[k]>>]
  <2> DEFINE zero == 0
  <2>1. Folding(g, CountsAdded, zero, s) /\ n \in Nat /\ DOMAIN s = 1..n
    BY <1>1, <1>6
  <2> HIDE DEF zero, S
  <2>2. /\ g[1..0] = zero
        /\ \A k \in 1..n : g[1..k] = CountsAdded[<<g[1..(k - 1)], s[k]>>]
    BY <2>1, FoldStep
  <2> QED BY <2>2 DEF zero
<1>8. 0 \in S
  <2>1. 1..0 = {} /\ {} \in SUBSET (1..n)
    OBVIOUS
  <2> QED BY <1>5, <1>6, <1>7, <2>1
<1>9. ASSUME NEW k \in Nat, k \in S PROVE k + 1 \in S
  <2> SUFFICES ASSUME k + 1 <= n PROVE f[1..(k + 1)] = g[1..(k + 1)]
    OBVIOUS
  <2>1. k + 1 \in 1..n /\ (k + 1) - 1 = k /\ f[1..k] = g[1..k] /\ k + 1 \in Nat /\ k + 1 # 0
        /\ 1..(k + 1) \in SUBSET (1..n) /\ 1..k \in SUBSET (1..n)
    BY <1>6, <1>9
  <2>2. Highest(1..(k + 1)) = k + 1 /\ (1..(k + 1)) \ {k + 1} = 1..k /\ 1..(k + 1) # {}
    BY <2>1, IntervalTop
  <2>3. f[1..(k + 1)] = f[1..k] + Log!CountOf(s[k + 1])
    BY <1>5, <1>6, <2>1, <2>2
  <2>4. g[1..k] \in Nat /\ s[k + 1] \in LogLine
    BY <1>1, <1>6, <2>1
  <2>5. g[1..(k + 1)] = g[1..k] + Log!CountOf(s[k + 1])
    BY <1>7, <2>1, <2>4 DEF CountsAdded
  <2> QED BY <2>1, <2>3, <2>5
<1>10. n \in S
  <2> HIDE DEF S
  <2> QED BY <1>6, <1>8, <1>9, NumbersInduction
<1>11. f[1..n] = g[1..n]
  BY <1>6, <1>10
<1>12. Told(s) = g[DOMAIN s]
  BY <1>4, <1>6, <1>11 DEF Told
<1> QED BY <1>1, <1>12

\* A line more adds what it tells.
LEMMA ToldAppends ==
  ASSUME NEW s \in Seq(LogLine), NEW line \in LogLine
  PROVE  Told(s) \in Nat /\ Told(Append(s, line)) = Told(s) + Log!CountOf(line)
<1>1. PICK f : f \in [SUBSET DOMAIN s -> Nat] /\ Folding(f, CountsAdded, 0, s) /\ Told(s) = f[DOMAIN s]
  BY ToldFolds
<1>2. Append(s, line) \in Seq(LogLine)
  OBVIOUS
<1>3. PICK g :
         g \in [SUBSET DOMAIN Append(s, line) -> Nat] /\ Folding(g, CountsAdded, 0, Append(s, line)) /\ Told(Append(s, line)) = g[DOMAIN Append(s, line)]
  BY <1>2, ToldFolds
<1>4. g[DOMAIN Append(s, line)] = CountsAdded[<<f[DOMAIN s], line>>]
  <2> DEFINE zero == 0
  <2>1. Folding(f, CountsAdded, zero, s) /\ Folding(g, CountsAdded, zero, Append(s, line))
    BY <1>1, <1>3
  <2> HIDE DEF zero
  <2> QED BY <2>1, FoldAppends
<1>5. f[DOMAIN s] \in Nat
  BY <1>1
<1> QED BY <1>1, <1>3, <1>4, <1>5 DEF CountsAdded

\* An empty log tells nothing.
LEMMA ToldNothing == Told(<<>>) = 0
<1>1. <<>> \in Seq(LogLine) /\ DOMAIN <<>> = {}
  OBVIOUS
<1>2. PICK f \in [SUBSET DOMAIN <<>> -> Nat] : Folding(f, CountsAdded, 0, <<>>) /\ Told(<<>>) = f[DOMAIN <<>>]
  BY <1>1, ToldFolds
<1> QED BY <1>1, <1>2 DEF Folding

\* The log starts with the invariant.
LEMMA LogStart == Log!Init => LogInv
<1> SUFFICES ASSUME Log!Init PROVE LogInv
  OBVIOUS
<1> USE DEF Log!Init
<1>1. file = <<>> /\ sequence = 0 /\ control = <<>> /\ command = Log!NoCommand /\ built = 0
      /\ writer \in {"control", "gone"} /\ DOMAIN file = {} /\ DOMAIN control = {} /\ Len(file) = 0
  OBVIOUS
<1>2. \A l \in Log!Lanes : lane[l] = <<>> /\ DOMAIN lane[l] = {}
  OBVIOUS
<1>3. \A t \in Log!Callers : thread[t] = "idle" /\ reply[t] = "none" /\ promised[t] = {}
  OBVIOUS
<1>4. "main" \in Log!Callers /\ Threads \subseteq Log!Callers /\ "nobody" \notin Log!Callers
  BY LogAssumption DEF Log!Callers
<1>5. LogTyped
  <2>1. sink \in LogSink
    BY DEF LogSink
  <2>2. Log!NoCommand \in LogCommand /\ Log!NoRecord \in LogRecord
    BY <1>4 DEF LogCommand, LogRecord, Log!NoCommand, Log!NoRecord, Log!Lanes
  <2>3. lane \in [Log!Lanes -> Seq(LogRecord)] /\ control \in Seq(LogCommand) /\ file \in Seq(LogLine)
    OBVIOUS
  <2>4. holding \in [Threads -> LogRecord]
    BY <2>2
  <2>5. thread \in [Log!Callers -> CallerPlaces] /\ promised \in [Log!Callers -> SUBSET Nat]
        /\ reply \in [Log!Callers -> {"none", "ok", "failed", "refused", "closed"}]
    BY DEF CallerPlaces
  <2>6. writer \in AtRest
    BY <1>1 DEF AtRest
  <2> QED BY <2>1, <2>2, <2>3, <2>4, <2>5, <2>6 DEF LogTyped
<1>6. LinesNumbered
  BY <1>1 DEF LinesNumbered
<1>7. RecordsOnce
  BY <1>1, <1>2, <1>3, <1>4 DEF RecordsOnce
<1>8. CallersServed
  BY <1>1, <1>3, <1>4 DEF CallersServed, Pending, Log!NoCommand
<1>9. PromisesKept
  BY <1>1, <1>3, <1>4 DEF PromisesKept, Saved, Log!NoCommand
<1>10. Log!DropsAreTold
  <2>1. Log!ReportedIn = 0
    BY <1>1, ReportedIsTold, ToldNothing
  <2>2. {t \in Threads : thread[t] = "count"} = {}
    BY <1>3, <1>4
  <2>3. Log!Cardinality({}) = 0
    BY FS_EmptySet DEF Log!Cardinality, Cardinality
  <2>4. Log!DropCount = 0 /\ droppedTotal = 0
    BY DEF Log!DropCount, Log!Lanes
  <2>5. Log!Cardinality({t \in Threads : thread[t] = "count"}) = 0
    BY <2>2, <2>3
  <2> HIDE DEF Log!Init
  <2> QED BY <2>1, <2>4, <2>5 DEF Log!DropsAreTold
<1> QED BY <1>5, <1>6, <1>7, <1>8, <1>9, <1>10 DEF LogInv

\* What the invariant says of callers and lanes.
LEMMA LogFacts ==
  ASSUME LogInv
  PROVE  /\ "main" \in Log!Callers /\ "main" \notin Threads /\ Threads \subseteq Log!Callers
         /\ \A t \in Log!Callers : t \in Threads \/ t = "main"
         /\ "nobody" \notin Log!Callers
         /\ {"regular", "priority"} = Log!Lanes
         /\ Log!InLanes = LaneIds("regular") \union LaneIds("priority")
<1>1. Log!InLanes = LaneIds("regular") \union LaneIds("priority")
  BY DEF Log!InLanes, LaneIds, Log!Lanes
<1> QED BY <1>1, LogAssumption DEF Log!Callers, Log!Lanes

\* The records stay where they are.
LEMMA RecordsStay ==
  ASSUME RecordsOnce, UNCHANGED <<lane, file, built>>,
         \A t \in Threads : thread'[t] = "send" => thread[t] = "send" /\ holding'[t] = holding[t]
  PROVE  RecordsOnce'
  BY DEF RecordsOnce, IsRecord

\* The drops stay as they are.
LEMMA DropsStay ==
  ASSUME Log!DropsAreTold, UNCHANGED <<file, dropped, droppedTotal>>, sink'.active => sink.active,
         \A t \in Threads : thread'[t] = "count" <=> thread[t] = "count"
  PROVE  Log!DropsAreTold'
<1>1. {t \in Threads : thread'[t] = "count"} = {t \in Threads : thread[t] = "count"}
  OBVIOUS
<1>2. Log!ReportedIn' = Log!ReportedIn
  BY ReportedIsTold
<1> QED BY <1>1, <1>2 DEF Log!DropsAreTold, Log!DropCount

\* A promise stays kept while commands and promises stay and every record taken
\* from a lane is written.
LEMMA PromisesStay ==
  ASSUME PromisesKept, UNCHANGED <<control, command, promised>>,
         writer' = writer \/ (command = Log!NoCommand /\ {writer, writer'} \subseteq {"control", "priority", "regular", "tick"}),
         \A t \in Threads : reply'[t] = "ok" => reply[t] = "ok",
         "nobody" \notin Threads,
         sink'.active => sink.active,
         Log!Written \subseteq Log!Written',
         sink'.active => /\ LaneIds("regular") \subseteq LaneIds("regular")' \union Log!Written'
                         /\ LaneIds("priority") \subseteq LaneIds("priority")' \union Log!Written'
  PROVE  PromisesKept'
<1> DEFINE all == LaneIds("regular") \union LaneIds("priority") \union Log!Written
           low == LaneIds("regular") \union Log!Written
           ink == Log!Written
<1>1. ink \subseteq ink' /\ (sink'.active => all \subseteq all' /\ low \subseteq low')
  OBVIOUS
<1>2. \A t \in Threads : reply'[t] = "ok" => promised'[t] \subseteq ink'
  BY <1>1 DEF PromisesKept
<1>3. ASSUME sink'.active, NEW p, NEW pending \in BOOLEAN, NEW taken \in BOOLEAN,
             taken => writer' = writer, Saved(p, pending, taken)
      PROVE  /\ pending => p \subseteq all'
             /\ taken => CASE writer' = "drain-priority" -> p \subseteq all'
                           [] writer' = "drain-regular" -> p \subseteq low'
                           [] writer' \in {"report", "finish"} -> p \subseteq ink'
                           [] OTHER -> TRUE
  <2>1. pending => p \subseteq all
    BY <1>3 DEF Saved
  <2>2. taken => CASE writer = "drain-priority" -> p \subseteq all
                   [] writer = "drain-regular" -> p \subseteq low
                   [] writer \in {"report", "finish"} -> p \subseteq ink
                   [] OTHER -> TRUE
    BY <1>3 DEF Saved
  <2> HIDE DEF all, low, ink
  <2> QED BY <1>1, <1>3, <2>1, <2>2
<1>4. ASSUME sink'.active PROVE
         /\ \A t \in Threads : Saved(promised[t], \E i \in DOMAIN control : control[i].to = t, command.to = t)'
         /\ Saved(promised["main"], \E i \in DOMAIN control : control[i].kind = "shutdown", command.kind = "shutdown")'
         /\ writer' \in {"ending", "gone"} => promised'["main"] \subseteq ink'
  <2>1. /\ \A t \in Threads : Saved(promised[t], \E i \in DOMAIN control : control[i].to = t, command.to = t)
        /\ Saved(promised["main"], \E i \in DOMAIN control : control[i].kind = "shutdown", command.kind = "shutdown")
        /\ writer \in {"ending", "gone"} => promised["main"] \subseteq ink
    BY <1>4 DEF PromisesKept
  <2>2. ASSUME NEW t \in Threads
        PROVE  Saved(promised[t], \E i \in DOMAIN control : control[i].to = t, command.to = t)'
    <3>1. command.to = t => writer' = writer
      BY DEF Log!NoCommand
    <3> HIDE DEF all, low, ink
    <3>2. /\ (\E i \in DOMAIN control : control[i].to = t) => promised[t] \subseteq all'
          /\ command.to = t => CASE writer' = "drain-priority" -> promised[t] \subseteq all'
                                 [] writer' = "drain-regular" -> promised[t] \subseteq low'
                                 [] writer' \in {"report", "finish"} -> promised[t] \subseteq ink'
                                 [] OTHER -> TRUE
      BY <1>3, <1>4, <2>1, <3>1
    <3> QED BY <3>2 DEF Saved, all, low, ink
  <2>3. Saved(promised["main"], \E i \in DOMAIN control : control[i].kind = "shutdown", command.kind = "shutdown")'
    <3>1. command.kind = "shutdown" => writer' = writer
      BY DEF Log!NoCommand
    <3> HIDE DEF all, low, ink
    <3>2. /\ (\E i \in DOMAIN control : control[i].kind = "shutdown") => promised["main"] \subseteq all'
          /\ command.kind = "shutdown" =>
               CASE writer' = "drain-priority" -> promised["main"] \subseteq all'
                 [] writer' = "drain-regular" -> promised["main"] \subseteq low'
                 [] writer' \in {"report", "finish"} -> promised["main"] \subseteq ink'
                 [] OTHER -> TRUE
      BY <1>3, <1>4, <2>1, <3>1
    <3> QED BY <3>2 DEF Saved, all, low, ink
  <2>4. writer' \in {"ending", "gone"} => writer' = writer
    OBVIOUS
  <2> QED BY <1>1, <2>1, <2>2, <2>3, <2>4
<1> QED BY <1>2, <1>4 DEF PromisesKept

\* The same when lanes and file stay.
LEMMA PromisesRest ==
  ASSUME LogInv, UNCHANGED <<control, command, promised, file, lane, writer>>,
         \A t \in Threads : reply'[t] = "ok" => reply[t] = "ok",
         sink'.active => sink.active
  PROVE  PromisesKept'
<1>1. Log!Written' = Log!Written /\ LaneIds("regular")' = LaneIds("regular")
      /\ LaneIds("priority")' = LaneIds("priority")
  BY DEF Log!Written, LaneIds
<1> QED BY <1>1, PromisesStay, LogAssumption DEF LogInv

\* A new record has a number of its own (BeginRecord: event_with, build_record).
LEMMA BeginRecordKeeps ==
  ASSUME LogInv, NEW t \in Threads, Log!BeginRecord(t) PROVE LogInv'
<1> USE DEF Log!BeginRecord, Log!Goto, Log!log, Log!counts
<1>1. PICK l \in Log!Lanes : holding' = [holding EXCEPT ![t] = [id |-> built + 1, lane |-> l]]
  OBVIOUS
<1>2. LogTyped
  BY DEF LogInv
<1>3. t \in Log!Callers /\ built \in Nat /\ built' = built + 1
  BY <1>2, LogFacts DEF LogTyped
<1>4. LogTyped'
  <2>1. [id |-> built + 1, lane |-> l] \in LogRecord
    BY <1>3 DEF LogRecord
  <2>2. holding' \in [Threads -> LogRecord] /\ thread' \in [Log!Callers -> CallerPlaces]
    BY <1>1, <1>2, <2>1 DEF LogTyped, CallerPlaces
  <2> QED BY <1>2, <1>3, <2>2 DEF LogTyped
<1>5. /\ \A u \in Threads : thread'[u] = (IF u = t THEN "send" ELSE thread[u])
      /\ thread'["main"] = thread["main"]
      /\ \A u \in Threads : holding'[u].id = (IF u = t THEN built + 1 ELSE holding[u].id)
  BY <1>1, <1>2, LogFacts DEF LogTyped
<1>6. RecordsOnce'
  <2>1. RecordsOnce
    BY DEF LogInv
  <2>2. \A n \in 1..built : n \in 1..built' /\ n # built + 1
    BY <1>3
  <2>3. built + 1 \in 1..built'
    BY <1>3
  <2> QED BY <1>3, <1>5, <2>1, <2>2, <2>3 DEF RecordsOnce, IsRecord
<1>7. CallersServed'
  BY <1>2, <1>5, LogFacts DEF LogInv, CallersServed, Pending, LogTyped
<1>8. PromisesKept'
  BY PromisesRest
<1>9. Log!DropsAreTold'
  BY <1>5, DropsStay DEF LogInv
<1>10. LinesNumbered'
  BY DEF LogInv, LinesNumbered
<1> QED BY <1>4, <1>6, <1>7, <1>8, <1>9, <1>10 DEF LogInv

\* A call of flush begins.
LEMMA CallFlushKeeps ==
  ASSUME LogInv, NEW t \in Threads, Log!CallFlush(t) PROVE LogInv'
<1> USE DEF Log!CallFlush, Log!Goto, Log!log, Log!counts
<1>2. LogTyped /\ t \in Log!Callers
  BY LogFacts DEF LogInv
<1>4. LogTyped'
  <2>2. thread' \in [Log!Callers -> CallerPlaces]
    BY <1>2 DEF LogTyped, CallerPlaces
  <2> QED BY <1>2, <2>2 DEF LogTyped
<1>5. \A u \in Log!Callers : thread'[u] = (IF u = t THEN "command" ELSE thread[u])
  BY <1>2 DEF LogTyped
<1>6. RecordsOnce'
  BY <1>5, LogFacts, RecordsStay DEF LogInv
<1>7. CallersServed'
  BY <1>2, <1>5, LogFacts DEF LogInv, CallersServed, Pending
<1>8. PromisesKept'
  BY PromisesRest
<1>9. Log!DropsAreTold'
  BY <1>5, LogFacts, DropsStay DEF LogInv
<1>10. LinesNumbered'
  BY DEF LogInv, LinesNumbered
<1> QED BY <1>4, <1>6, <1>7, <1>8, <1>9, <1>10 DEF LogInv

\* Shutdown begins.
LEMMA BeginShutdownKeeps ==
  ASSUME LogInv, Log!BeginShutdown PROVE LogInv'
<1> USE DEF Log!BeginShutdown, Log!Goto, Log!log, Log!counts
<1>2. LogTyped /\ "main" \in Log!Callers
  BY LogFacts DEF LogInv
<1>4. LogTyped'
  <2>2. thread' \in [Log!Callers -> CallerPlaces]
    BY <1>2 DEF LogTyped, CallerPlaces
  <2> QED BY <1>2, <2>2 DEF LogTyped
<1>5. \A u \in Log!Callers : thread'[u] = (IF u = "main" THEN "command" ELSE thread[u])
  BY <1>2 DEF LogTyped
<1>6. RecordsOnce'
  BY <1>5, LogFacts, RecordsStay DEF LogInv
<1>7. CallersServed'
  BY <1>2, <1>5, LogFacts DEF LogInv, CallersServed, Pending
<1>8. PromisesKept'
  BY PromisesRest
<1>9. Log!DropsAreTold'
  BY <1>5, LogFacts, DropsStay DEF LogInv
<1>10. LinesNumbered'
  BY DEF LogInv, LinesNumbered
<1> QED BY <1>4, <1>6, <1>7, <1>8, <1>9, <1>10 DEF LogInv

\* The writer has been joined.
LEMMA JoinKeeps ==
  ASSUME LogInv, Log!Join PROVE LogInv'
<1> USE DEF Log!Join, Log!Goto, Log!log, Log!counts
<1>2. LogTyped /\ "main" \in Log!Callers
  BY LogFacts DEF LogInv
<1>4. LogTyped'
  <2>2. thread' \in [Log!Callers -> CallerPlaces]
    BY <1>2 DEF LogTyped, CallerPlaces
  <2> QED BY <1>2, <2>2 DEF LogTyped
<1>5. \A u \in Log!Callers : thread'[u] = (IF u = "main" THEN "stopped" ELSE thread[u])
  BY <1>2 DEF LogTyped
<1>6. RecordsOnce'
  BY <1>5, LogFacts, RecordsStay DEF LogInv
<1>7. CallersServed'
  BY <1>2, <1>5, LogFacts DEF LogInv, CallersServed, Pending
<1>8. PromisesKept'
  BY PromisesRest
<1>9. Log!DropsAreTold'
  BY <1>5, LogFacts, DropsStay DEF LogInv
<1>10. LinesNumbered'
  BY DEF LogInv, LinesNumbered
<1> QED BY <1>4, <1>6, <1>7, <1>8, <1>9, <1>10 DEF LogInv

\* The threads between the two counters of drops.
Counting == {t \in Threads : thread[t] = "count"}

\* One thread more or less between the counters changes their number by one.
LEMMA CountingChanges ==
  ASSUME LogTyped, NEW t \in Threads
  PROVE  /\ Log!Cardinality(Counting) \in Nat /\ Log!Cardinality(Counting') \in Nat
         /\ Counting' = Counting \union {t} /\ t \notin Counting
              => Log!Cardinality(Counting') = Log!Cardinality(Counting) + 1
         /\ Counting = Counting' \union {t} /\ t \notin Counting'
              => Log!Cardinality(Counting) = Log!Cardinality(Counting') + 1
<1>1. IsFiniteSet(Counting) /\ IsFiniteSet(Counting')
  <2>1. Counting \subseteq Threads /\ Counting' \subseteq Threads
    BY DEF Counting
  <2> QED BY <2>1, LogAssumption, FS_Subset
<1>2. \A s : Log!Cardinality(s) = Cardinality(s)
  BY DEF Log!Cardinality, Cardinality
<1>3. Cardinality(Counting) \in Nat /\ Cardinality(Counting') \in Nat
  BY <1>1, FS_CardinalityType
<1>4. ASSUME NEW s, IsFiniteSet(s), t \notin s
      PROVE  Cardinality(s \union {t}) = Cardinality(s) + 1
  BY <1>4, FS_AddElement
<1>5. ASSUME Counting' = Counting \union {t}, t \notin Counting
      PROVE  Log!Cardinality(Counting') = Log!Cardinality(Counting) + 1
  BY <1>1, <1>2, <1>4, <1>5
<1>6. ASSUME Counting = Counting' \union {t}, t \notin Counting'
      PROVE  Log!Cardinality(Counting) = Log!Cardinality(Counting') + 1
  BY <1>1, <1>2, <1>4, <1>6
<1> QED BY <1>2, <1>3, <1>5, <1>6

\* The same equation, with its parts named.
LEMMA DropsCounted ==
  /\ Log!DropsAreTold <=> (sink.active => droppedTotal + Log!Cardinality(Counting)
                             = Told(file) + (dropped["regular"] + dropped["priority"]))
  /\ Log!DropsAreTold' <=> (sink'.active => droppedTotal' + Log!Cardinality(Counting')
                             = Told(file') + (dropped'["regular"] + dropped'["priority"]))
<1>1. Log!ReportedIn = Told(file) /\ Log!ReportedIn' = Told(file')
  BY ReportedIsTold
<1> QED BY <1>1 DEF Log!DropsAreTold, Log!DropCount, Counting

\* What a log tells is a number.
LEMMA ToldOfNat == ASSUME LogTyped PROVE Told(file) \in Nat
<1> DEFINE line == [seq |-> 0, what |-> [count |-> 0], part |-> 0]
<1>1. line \in LogLine
  BY DEF LogLine
<1> HIDE DEF line
<1>2. file \in Seq(LogLine)
  BY DEF LogTyped
<1> QED BY <1>1, <1>2, ToldAppends

\* A drop reaches the second counter (enqueue).
LEMMA CountDropKeeps ==
  ASSUME LogInv, NEW t \in Threads, Log!CountDrop(t) PROVE LogInv'
<1> USE DEF Log!CountDrop, Log!Goto, Log!log
<1>2. LogTyped /\ t \in Log!Callers
  BY LogFacts DEF LogInv
<1>4. LogTyped'
  <2>2. thread' \in [Log!Callers -> CallerPlaces]
    BY <1>2 DEF LogTyped, CallerPlaces
  <2>3. droppedTotal' \in Nat
    BY <1>2 DEF LogTyped
  <2> QED BY <1>2, <2>2, <2>3 DEF LogTyped
<1>5. \A u \in Log!Callers : thread'[u] = (IF u = t THEN "idle" ELSE thread[u])
  BY <1>2 DEF LogTyped
<1>6. RecordsOnce'
  BY <1>5, LogFacts, RecordsStay DEF LogInv
<1>7. CallersServed'
  BY <1>2, <1>5, LogFacts DEF LogInv, CallersServed, Pending
<1>8. PromisesKept'
  BY PromisesRest
<1>9. Log!DropsAreTold'
  <2>1. Counting = Counting' \union {t} /\ t \notin Counting'
    BY <1>5, LogFacts DEF Counting
  <2>2. /\ Log!Cardinality(Counting) = Log!Cardinality(Counting') + 1
        /\ Log!Cardinality(Counting') \in Nat
    BY <1>2, <2>1, CountingChanges
  <2>3. droppedTotal \in Nat /\ droppedTotal' = droppedTotal + 1 /\ UNCHANGED <<dropped, file, sink>>
    BY <1>2 DEF LogTyped
  <2>4. Log!DropsAreTold
    BY DEF LogInv
  <2>5. droppedTotal' + Log!Cardinality(Counting') = droppedTotal + Log!Cardinality(Counting)
    BY <2>2, <2>3
  <2> HIDE DEF Log!CountDrop
  <2> QED BY <2>3, <2>4, <2>5, DropsCounted
<1>10. LinesNumbered'
  BY DEF LogInv, LinesNumbered
<1> QED BY <1>4, <1>6, <1>7, <1>8, <1>9, <1>10 DEF LogInv

\* A record enters a lane or is dropped (enqueue).
LEMMA TrySendKeeps ==
  ASSUME LogInv, NEW t \in Threads, Log!TrySend(t) PROVE LogInv'
<1> DEFINE r == holding[t]
<1>1. /\ thread[t] = "send" /\ holding' = [holding EXCEPT ![t] = Log!NoRecord]
      /\ UNCHANGED <<built, control, command, writer, file, sink, sequence, droppedTotal, reply, promised>>
      /\ \/ /\ lane' = [lane EXCEPT ![r.lane] = Append(@, r)]
            /\ thread' = [thread EXCEPT ![t] = "idle"] /\ dropped' = dropped
         \/ /\ dropped' = [dropped EXCEPT ![r.lane] = @ + 1]
            /\ thread' = [thread EXCEPT ![t] = "count"] /\ lane' = lane
  BY DEF Log!TrySend, Log!Goto, Log!log
<1>2. LogTyped /\ t \in Log!Callers
  BY LogFacts DEF LogInv
<1>3. r \in LogRecord /\ r.lane \in Log!Lanes /\ r.id \in 1..built /\ Log!NoRecord \in LogRecord
  BY <1>1, <1>2 DEF LogTyped, LogInv, RecordsOnce, LogRecord, Log!NoRecord, Log!Lanes
<1>4. holding' \in [Threads -> LogRecord]
  BY <1>1, <1>2, <1>3 DEF LogTyped
<1>5. LinesNumbered'
  BY <1>1 DEF LogInv, LinesNumbered
<1>6. ASSUME thread' = [thread EXCEPT ![t] = "idle"] \/ thread' = [thread EXCEPT ![t] = "count"]
      PROVE  /\ \A u \in Log!Callers : thread'[u] = (IF u = t THEN thread'[t] ELSE thread[u])
             /\ thread'[t] \in {"idle", "count"}
             /\ thread' \in [Log!Callers -> CallerPlaces]
  BY <1>2, <1>6 DEF LogTyped, CallerPlaces
<1>7. CallersServed'
  BY <1>1, <1>2, <1>6, LogFacts DEF LogInv, CallersServed, Pending
<1>8. \A u \in Threads : u # t => holding'[u] = holding[u]
  BY <1>1, <1>2 DEF LogTyped
<1>9. CASE dropped' = [dropped EXCEPT ![r.lane] = @ + 1] /\ thread' = [thread EXCEPT ![t] = "count"] /\ lane' = lane
  <2>1. \A u \in Threads : thread'[u] = (IF u = t THEN "count" ELSE thread[u])
    BY <1>2, <1>6, <1>9, LogFacts DEF LogTyped
  <2>2. RecordsOnce'
    BY <1>1, <1>8, <1>9, <2>1, RecordsStay DEF LogInv
  <2>3. PromisesKept'
    BY <1>1, <1>9, PromisesRest
  <2>4. Log!DropsAreTold'
    <3>1. Counting' = Counting \union {t} /\ t \notin Counting
      BY <1>1, <2>1 DEF Counting
    <3>2. Log!Cardinality(Counting') = Log!Cardinality(Counting) + 1 /\ Log!Cardinality(Counting) \in Nat
      BY <1>2, <3>1, CountingChanges
    <3>3. /\ droppedTotal \in Nat /\ dropped["regular"] \in Nat /\ dropped["priority"] \in Nat
          /\ dropped'["regular"] + dropped'["priority"] = (dropped["regular"] + dropped["priority"]) + 1
      BY <1>2, <1>3, <1>9 DEF LogTyped, Log!Lanes
    <3>4. Log!DropsAreTold /\ Told(file) \in Nat
      BY <1>2, ToldOfNat DEF LogInv
    <3>5. UNCHANGED <<file, sink, droppedTotal>>
      BY <1>1
    <3> QED BY <3>2, <3>3, <3>4, <3>5, DropsCounted
  <2>5. LogTyped'
    <3>1. dropped' \in [Log!Lanes -> Nat]
      BY <1>2, <1>3, <1>9 DEF LogTyped
    <3> QED BY <1>1, <1>2, <1>4, <1>6, <1>9, <3>1 DEF LogTyped
  <2> QED BY <1>5, <1>7, <2>2, <2>3, <2>4, <2>5 DEF LogInv
<1>10. CASE lane' = [lane EXCEPT ![r.lane] = Append(@, r)] /\ thread' = [thread EXCEPT ![t] = "idle"] /\ dropped' = dropped
  <2>1. \A u \in Threads : thread'[u] = (IF u = t THEN "idle" ELSE thread[u])
    BY <1>2, <1>6, <1>10, LogFacts DEF LogTyped
  <2>2. /\ lane' \in [Log!Lanes -> Seq(LogRecord)]
        /\ lane'[r.lane] = Append(lane[r.lane], r) /\ \A l \in Log!Lanes : l # r.lane => lane'[l] = lane[l]
    BY <1>2, <1>3, <1>10 DEF LogTyped
  <2> DEFINE top == Len(lane[r.lane]) + 1
  <2>3. lane[r.lane] \in Seq(LogRecord)
    BY <1>2, <1>3 DEF LogTyped
  <2>4. /\ DOMAIN lane'[r.lane] = DOMAIN lane[r.lane] \union {top} /\ top \notin DOMAIN lane[r.lane]
        /\ lane'[r.lane][top] = r /\ \A k \in DOMAIN lane[r.lane] : lane'[r.lane][k] = lane[r.lane][k]
    BY <1>3, <2>2, <2>3, AppendParts
  <2> HIDE DEF top
  <2>5. \A l \in Log!Lanes : \A i \in DOMAIN lane'[l] :
          \/ l = r.lane /\ i = top /\ lane'[l][i] = r
          \/ i \in DOMAIN lane[l] /\ lane'[l][i] = lane[l][i]
    BY <2>2, <2>4
  <2>6. RecordsOnce'
    <3>1. RecordsOnce
      BY DEF LogInv
    <3> HIDE DEF r
    <3>2. \A u \in Threads : thread'[u] = "send" => u # t /\ thread[u] = "send" /\ holding'[u] = holding[u] /\ holding[u].id # r.id
      BY <1>1, <1>8, <2>1, <3>1 DEF RecordsOnce, r
    <3>3. \A l \in Log!Lanes : \A i \in DOMAIN lane[l] : lane[l][i].id # r.id
      BY <1>1, <3>1 DEF RecordsOnce, r
    <3>4. \A k \in DOMAIN file : IsRecord(k) => r.id # file[k].what.id
      BY <1>1, <3>1 DEF RecordsOnce, r
    <3>5. \A k : IsRecord(k)' <=> IsRecord(k)
      BY <1>1 DEF IsRecord
    <3>6. \A l \in Log!Lanes : \A i \in DOMAIN lane'[l] :
             /\ lane'[l][i].id \in 1..built'
             /\ \A u \in Threads : thread'[u] = "send" => holding'[u].id # lane'[l][i].id
             /\ \A k \in DOMAIN file : IsRecord(k) => lane'[l][i].id # file[k].what.id
      BY <1>1, <1>3, <2>5, <3>1, <3>2, <3>4 DEF RecordsOnce
    <3>7. ASSUME NEW l \in Log!Lanes, NEW i \in DOMAIN lane'[l], NEW m \in Log!Lanes, NEW j \in DOMAIN lane'[m],
                 <<l, i>> # <<m, j>>
          PROVE  lane'[l][i].id # lane'[m][j].id
      <4>1. CASE l = r.lane /\ i = top /\ lane'[l][i] = r
        <5>1. j \in DOMAIN lane[m] /\ lane'[m][j] = lane[m][j]
          BY <2>5, <3>7, <4>1
        <5> QED BY <3>3, <4>1, <5>1
      <4>2. CASE i \in DOMAIN lane[l] /\ lane'[l][i] = lane[l][i]
        <5>1. CASE m = r.lane /\ j = top /\ lane'[m][j] = r
          BY <3>3, <4>2, <5>1
        <5>2. CASE j \in DOMAIN lane[m] /\ lane'[m][j] = lane[m][j]
          BY <3>1, <3>7, <4>2, <5>2 DEF RecordsOnce
        <5> QED BY <2>5, <5>1, <5>2
      <4> QED BY <2>5, <4>1, <4>2
    <3>8. \A u, w \in Threads : thread'[u] = "send" /\ thread'[w] = "send" /\ u # w => holding'[u].id # holding'[w].id
      BY <3>1, <3>2 DEF RecordsOnce
    <3>9. \A u \in Threads : thread'[u] = "send" => holding'[u].id \in 1..built'
      BY <1>1, <3>1, <3>2 DEF RecordsOnce
    <3>10. \A k \in DOMAIN file' : IsRecord(k)' =>
             /\ file'[k].what.id \in 1..built'
             /\ \A u \in Threads : thread'[u] = "send" => holding'[u].id # file'[k].what.id
             /\ \A j \in DOMAIN file' : j # k /\ IsRecord(j)' => file'[j].what.id # file'[k].what.id
      BY <1>1, <3>1, <3>2, <3>5 DEF RecordsOnce
    <3>11. \A k \in DOMAIN file' : IsRecord(k)' =>
             \A l \in Log!Lanes : \A i \in DOMAIN lane'[l] : lane'[l][i].id # file'[k].what.id
      BY <1>1, <3>5, <3>6
    <3> QED BY <3>6, <3>7, <3>8, <3>9, <3>10, <3>11 DEF RecordsOnce
  <2>7. PromisesKept'
    <3>1. Log!Written' = Log!Written
      BY <1>1 DEF Log!Written
    <3>2. \A l \in Log!Lanes : \A i \in DOMAIN lane[l] : i \in DOMAIN lane'[l] /\ lane'[l][i] = lane[l][i]
      BY <2>2, <2>4
    <3>3. LaneIds("regular") \subseteq LaneIds("regular")' /\ LaneIds("priority") \subseteq LaneIds("priority")'
      BY <3>2 DEF LaneIds, Log!Lanes
    <3> QED BY <1>1, <3>1, <3>3, PromisesStay, LogAssumption DEF LogInv
  <2>8. Log!DropsAreTold'
    BY <1>1, <1>10, <2>1, DropsStay DEF LogInv
  <2>9. LogTyped'
    BY <1>1, <1>2, <1>4, <1>6, <1>10, <2>2 DEF LogTyped
  <2> QED BY <1>5, <1>7, <2>6, <2>7, <2>8, <2>9 DEF LogInv
<1> QED BY <1>1, <1>9, <1>10

\* Lanes and file stay, and so does what is in them.
LEMMA LanesStay ==
  ASSUME UNCHANGED <<file, lane>>
  PROVE  /\ Log!Written' = Log!Written
         /\ LaneIds("regular")' = LaneIds("regular") /\ LaneIds("priority")' = LaneIds("priority")
  BY DEF Log!Written, LaneIds

\* A command promises what is in the lanes.
LEMMA SendCommandKeeps ==
  ASSUME LogInv, NEW t \in Log!Callers, Log!SendCommand(t) PROVE LogInv'
<1> DEFINE c == [kind |-> IF t = "main" THEN "shutdown" ELSE "flush", to |-> t]
<1>1. /\ thread[t] = "command" /\ writer # "gone"
      /\ control' = Append(control, c) /\ promised' = [promised EXCEPT ![t] = Log!InLanes]
      /\ thread' = [thread EXCEPT ![t] = "wait"]
      /\ UNCHANGED <<holding, built, lane, command, writer, sink, file, sequence, dropped, droppedTotal, reply>>
  BY DEF Log!SendCommand, Log!Goto, Log!log, Log!counts
<1>2. LogTyped /\ CallersServed /\ c \in LogCommand /\ c.to = t /\ (t \in Threads => c.kind = "flush")
      /\ (t \notin Threads => t = "main" /\ c.kind = "shutdown")
  BY LogFacts DEF LogInv, LogCommand
<1>3. \A u \in Log!Callers : /\ thread'[u] = (IF u = t THEN "wait" ELSE thread[u])
                             /\ promised'[u] = (IF u = t THEN Log!InLanes ELSE promised[u])
  BY <1>1, <1>2 DEF LogTyped
<1> DEFINE top == Len(control) + 1
<1>4. /\ DOMAIN control' = DOMAIN control \union {top} /\ top \notin DOMAIN control
      /\ control'[top] = c /\ \A k \in DOMAIN control : control'[k] = control[k]
      /\ control' \in Seq(LogCommand)
  <2> HIDE DEF c
  <2> QED BY <1>1, <1>2, AppendParts DEF LogTyped
<1> HIDE DEF c, top
<1>5. LogTyped'
  <2>1. Log!InLanes \in SUBSET Nat
    <3>1. \A l \in Log!Lanes : \A i \in DOMAIN lane[l] : lane[l][i].id \in Nat
      <4>1. \A q \in Seq(LogRecord) : \A i \in DOMAIN q : q[i] \in LogRecord
        OBVIOUS
      <4>2. \A l \in Log!Lanes : lane[l] \in Seq(LogRecord)
        BY <1>2 DEF LogTyped
      <4>3. \A e \in LogRecord : e.id \in Nat
        BY DEF LogRecord
      <4> QED BY <4>1, <4>2, <4>3
    <3>2. LaneIds("regular") \subseteq Nat /\ LaneIds("priority") \subseteq Nat
      BY <3>1 DEF LaneIds, Log!Lanes
    <3> QED BY <3>2, LogFacts
  <2>2. promised' \in [Log!Callers -> SUBSET Nat] /\ thread' \in [Log!Callers -> CallerPlaces]
    BY <1>1, <1>2, <2>1 DEF LogTyped, CallerPlaces
  <2> QED BY <1>1, <1>2, <1>4, <2>2 DEF LogTyped
<1>6. RecordsOnce'
  BY <1>1, <1>3, LogFacts, RecordsStay DEF LogInv
<1>7. ~Pending(t) /\ reply[t] = "none"
  BY <1>1, <1>2, LogFacts DEF CallersServed
<1>8. CallersServed'
  <2>1. \A u \in Log!Callers : Pending(u)' => thread'[u] = "wait" /\ reply'[u] = "none"
    BY <1>1, <1>2, <1>3, <1>4, <1>7 DEF CallersServed, Pending
  <2>2. \A i, j \in DOMAIN control' : i # j /\ control'[i].to = control'[j].to => control'[i].to = "nobody"
    BY <1>2, <1>4, <1>7 DEF CallersServed, Pending
  <2>3. \A i \in DOMAIN control' : control'[i].to = command'.to => command'.to = "nobody"
    BY <1>1, <1>2, <1>4, <1>7 DEF CallersServed, Pending
  <2>4. \A i \in DOMAIN control' : control'[i].kind = "shutdown" => control'[i].to \notin Threads
    BY <1>2, <1>4 DEF CallersServed
  <2>5. thread'["main"] \in {"idle", "command"} =>
         /\ command'.kind = "flush" /\ writer' # "ending"
         /\ promised'["main"] = {} /\ reply'["main"] = "none"
         /\ \A i \in DOMAIN control' : control'[i].kind = "flush"
    BY <1>1, <1>2, <1>3, <1>4, LogFacts DEF CallersServed
  <2>6. /\ \A u \in Threads : thread'[u] # "wait" => reply'[u] = "none"
        /\ thread'["main"] = "stopped" => writer' = "gone"
    BY <1>1, <1>2, <1>3, LogFacts DEF CallersServed
  <2>7. /\ writer' \in AtRest => command' = Log!NoCommand
        /\ command'.kind = "shutdown" => command'.to \notin Threads
    BY <1>1, <1>2 DEF CallersServed
  <2> QED BY <2>1, <2>2, <2>3, <2>4, <2>5, <2>6, <2>7 DEF CallersServed
<1>9. PromisesKept'
  <2>1. Log!Written' = Log!Written
        /\ LaneIds("regular")' = LaneIds("regular") /\ LaneIds("priority")' = LaneIds("priority")
    BY <1>1, LanesStay
  <2>2. Log!InLanes = LaneIds("regular") \union LaneIds("priority")
    BY LogFacts
  <2>3. \A u \in Threads : reply'[u] = "ok" => promised'[u] \subseteq Log!Written'
    BY <1>1, <1>3, <1>7, <2>1, LogFacts DEF LogInv, PromisesKept
  <2>4. ASSUME sink'.active, NEW u \in Threads
        PROVE  Saved(promised[u], \E i \in DOMAIN control : control[i].to = u, command.to = u)'
    <3>1. CASE u = t
      BY <1>1, <1>3, <1>7, <2>1, <2>2, <3>1 DEF Saved, Pending
    <3>2. CASE u # t
      <4>1. (\E i \in DOMAIN control' : control'[i].to = u) => (\E i \in DOMAIN control : control[i].to = u)
        BY <1>2, <1>4, <3>2
      <4>2. Saved(promised[u], \E i \in DOMAIN control : control[i].to = u, command.to = u)
        BY <1>1, <2>4 DEF LogInv, PromisesKept
      <4>3. promised'[u] = promised[u]
        BY <1>3, <3>2, LogFacts
      <4> QED BY <1>1, <2>1, <4>1, <4>2, <4>3 DEF Saved
    <3> QED BY <3>1, <3>2
  <2>5. ASSUME sink'.active
        PROVE  Saved(promised["main"], \E i \in DOMAIN control : control[i].kind = "shutdown", command.kind = "shutdown")'
    <3>1. CASE t = "main"
      <4>1. command'.kind # "shutdown"
        BY <1>1, <1>2, <3>1 DEF CallersServed
      <4> QED BY <1>3, <2>1, <2>2, <3>1, <4>1 DEF Saved
    <3>2. CASE t # "main"
      <4>1. (\E i \in DOMAIN control' : control'[i].kind = "shutdown") => (\E i \in DOMAIN control : control[i].kind = "shutdown")
        BY <1>2, <1>4, <3>2, LogFacts
      <4>2. Saved(promised["main"], \E i \in DOMAIN control : control[i].kind = "shutdown", command.kind = "shutdown")
        BY <1>1, <2>5 DEF LogInv, PromisesKept
      <4>3. promised'["main"] = promised["main"]
        BY <1>3, <3>2, LogFacts
      <4> QED BY <1>1, <2>1, <4>1, <4>2, <4>3 DEF Saved
    <3> QED BY <3>1, <3>2
  <2>6. sink'.active /\ writer' \in {"ending", "gone"} => promised'["main"] \subseteq Log!Written'
    BY <1>1, <1>2, <1>3, <2>1, LogFacts DEF LogInv, PromisesKept, CallersServed
  <2> QED BY <2>3, <2>4, <2>5, <2>6 DEF PromisesKept
<1>10. Log!DropsAreTold'
  BY <1>1, <1>3, LogFacts, DropsStay DEF LogInv
<1>11. LinesNumbered'
  BY <1>1 DEF LogInv, LinesNumbered
<1> QED BY <1>5, <1>6, <1>8, <1>9, <1>10, <1>11 DEF LogInv

\* A caller that has come back waits for nothing.
LEMMA PromisesReturn ==
  ASSUME LogInv, UNCHANGED <<file, lane, sink, writer>>,
         \A u \in Threads : promised'[u] = promised[u] \/ promised'[u] = {},
         promised'["main"] = promised["main"],
         \A u \in Threads : reply'[u] = "ok" => reply[u] = "ok",
         \A u \in Threads : /\ (\E i \in DOMAIN control' : control'[i].to = u)
                                 => (\E i \in DOMAIN control : control[i].to = u)
                            /\ command'.to = u => command.to = u,
         (\E i \in DOMAIN control' : control'[i].kind = "shutdown")
           => (\E i \in DOMAIN control : control[i].kind = "shutdown"),
         command'.kind = command.kind
  PROVE  PromisesKept'
<1>1. Log!Written' = Log!Written
      /\ LaneIds("regular")' = LaneIds("regular") /\ LaneIds("priority")' = LaneIds("priority")
  BY LanesStay
<1>2. \A u \in Threads : reply'[u] = "ok" => promised'[u] \subseteq Log!Written'
  BY <1>1 DEF LogInv, PromisesKept
<1>3. ASSUME sink'.active, NEW u \in Threads
      PROVE  Saved(promised[u], \E i \in DOMAIN control : control[i].to = u, command.to = u)'
  <2>1. Saved(promised[u], \E i \in DOMAIN control : control[i].to = u, command.to = u)
    BY <1>3 DEF LogInv, PromisesKept
  <2>2. promised'[u] = promised[u] \/ promised'[u] = {}
    OBVIOUS
  <2> QED BY <1>1, <2>1, <2>2 DEF Saved
<1>4. ASSUME sink'.active
      PROVE  Saved(promised["main"], \E i \in DOMAIN control : control[i].kind = "shutdown", command.kind = "shutdown")'
  <2>1. Saved(promised["main"], \E i \in DOMAIN control : control[i].kind = "shutdown", command.kind = "shutdown")
    BY <1>4 DEF LogInv, PromisesKept
  <2> QED BY <1>1, <2>1 DEF Saved
<1>5. sink'.active /\ writer' \in {"ending", "gone"} => promised'["main"] \subseteq Log!Written'
  BY <1>1 DEF LogInv, PromisesKept
<1> QED BY <1>2, <1>3, <1>4, <1>5 DEF PromisesKept

\* What the three ends of a call have in common.
LEMMA ReturnKeeps ==
  ASSUME LogInv, NEW t \in Log!Callers, Log!Return(t), sink' = sink,
         thread[t] \in {"command", "wait"},
         \/ UNCHANGED <<control, command>> /\ ~Pending(t)
         \/ /\ control' = [i \in DOMAIN control |-> IF control[i].to = t THEN [control[i] EXCEPT !.to = "nobody"] ELSE control[i]]
            /\ command' = IF command.to = t THEN [command EXCEPT !.to = "nobody"] ELSE command,
         \E a \in {"none", "refused"} : reply' = [reply EXCEPT ![t] = a] /\ (t \in Threads => a = "none")
  PROVE  LogInv'
<1>1. /\ thread' = [thread EXCEPT ![t] = IF t = "main" THEN "join" ELSE "idle"]
      /\ promised' = [promised EXCEPT ![t] = IF t = "main" THEN @ ELSE {}]
      /\ UNCHANGED <<holding, built, lane, writer, file, sequence, dropped, droppedTotal>>
  BY DEF Log!Return, Log!Goto, Log!log, Log!counts
<1>2. LogTyped /\ CallersServed /\ (t \in Threads \/ t = "main") /\ "nobody" # t /\ "nobody" \notin Threads
      /\ "main" \notin Threads /\ "main" \in Log!Callers /\ Threads \subseteq Log!Callers
  BY LogFacts, LogAssumption DEF LogInv
<1>3. \A u \in Log!Callers : /\ thread'[u] = (IF u # t THEN thread[u] ELSE IF t = "main" THEN "join" ELSE "idle")
                             /\ promised'[u] = (IF u = t /\ t # "main" THEN {} ELSE promised[u])
  BY <1>1, <1>2 DEF LogTyped
<1>4. /\ reply' \in [Log!Callers -> {"none", "ok", "failed", "refused", "closed"}]
      /\ \A u \in Log!Callers : u # t => reply'[u] = reply[u]
      /\ t \in Threads => reply'[t] = "none"
  BY <1>2 DEF LogTyped
<1>5. /\ DOMAIN control' = DOMAIN control /\ control' \in Seq(LogCommand) /\ command' \in LogCommand
      /\ command'.kind = command.kind /\ command'.to = (IF command.to = t THEN "nobody" ELSE command.to)
      /\ \A i \in DOMAIN control : /\ control'[i].kind = control[i].kind
                                   /\ control'[i].to = (IF control[i].to = t THEN "nobody" ELSE control[i].to)
      /\ command = Log!NoCommand => command' = Log!NoCommand
  <2>1. CASE UNCHANGED <<control, command>> /\ ~Pending(t)
    BY <1>2, <2>1 DEF Pending, LogTyped
  <2>2. CASE /\ control' = [i \in DOMAIN control |-> IF control[i].to = t THEN [control[i] EXCEPT !.to = "nobody"] ELSE control[i]]
             /\ command' = IF command.to = t THEN [command EXCEPT !.to = "nobody"] ELSE command
    <3>1. \A i \in DOMAIN control : control[i] \in LogCommand
      BY <1>2 DEF LogTyped
    <3>2. ASSUME NEW e \in LogCommand, NEW d, d = (IF e.to = t THEN [e EXCEPT !.to = "nobody"] ELSE e)
          PROVE  d \in LogCommand /\ d.kind = e.kind /\ d.to = (IF e.to = t THEN "nobody" ELSE e.to)
      BY <3>2 DEF LogCommand
    <3>3. \A i \in DOMAIN control : control'[i] = (IF control[i].to = t THEN [control[i] EXCEPT !.to = "nobody"] ELSE control[i])
      BY <2>2
    <3>4. \A i \in DOMAIN control : /\ control'[i] \in LogCommand /\ control'[i].kind = control[i].kind
                                    /\ control'[i].to = (IF control[i].to = t THEN "nobody" ELSE control[i].to)
      BY <3>1, <3>2, <3>3
    <3>5. /\ command' \in LogCommand /\ command'.kind = command.kind
          /\ command'.to = (IF command.to = t THEN "nobody" ELSE command.to)
      <4>1. command \in LogCommand
        BY <1>2 DEF LogTyped
      <4> QED BY <2>2, <3>2, <4>1
    <3>6. DOMAIN control' = DOMAIN control /\ DOMAIN control = 1..Len(control) /\ Len(control) \in Nat
      BY <1>2, <2>2 DEF LogTyped
    <3>7. control' \in Seq(LogCommand)
      <4>1. control' \in [1..Len(control) -> LogCommand]
        BY <2>2, <3>4, <3>6
      <4> QED BY <3>6, <4>1
    <3>8. command = Log!NoCommand => command' = Log!NoCommand
      BY <1>2, <2>2 DEF Log!NoCommand
    <3> QED BY <3>4, <3>5, <3>6, <3>7, <3>8
  <2> QED BY <2>1, <2>2
<1>6. LogTyped'
  <2>1. thread' \in [Log!Callers -> CallerPlaces] /\ promised' \in [Log!Callers -> SUBSET Nat]
    BY <1>1, <1>2 DEF LogTyped, CallerPlaces
  <2> QED BY <1>1, <1>2, <1>4, <1>5, <2>1 DEF LogTyped
<1>7. RecordsOnce'
  BY <1>1, <1>2, <1>3, RecordsStay DEF LogInv
<1>8. CallersServed'
  <2>1. \A u \in Log!Callers : Pending(u)' => u # t /\ Pending(u)
    BY <1>2, <1>5, LogFacts DEF Pending
  <2>2. \A u \in Log!Callers : Pending(u)' => thread'[u] = "wait" /\ reply'[u] = "none"
    BY <1>2, <1>3, <1>4, <2>1 DEF CallersServed
  <2>3. \A u \in Threads : thread'[u] # "wait" => reply'[u] = "none"
    BY <1>2, <1>3, <1>4 DEF CallersServed
  <2>4. \A i, j \in DOMAIN control' : i # j /\ control'[i].to = control'[j].to => control'[i].to = "nobody"
    BY <1>2, <1>5 DEF CallersServed
  <2>5. \A i \in DOMAIN control' : control'[i].to = command'.to => command'.to = "nobody"
    BY <1>2, <1>5 DEF CallersServed
  <2>6. /\ \A i \in DOMAIN control' : control'[i].kind = "shutdown" => control'[i].to \notin Threads
        /\ command'.kind = "shutdown" => command'.to \notin Threads
        /\ writer' \in AtRest => command' = Log!NoCommand
    BY <1>1, <1>2, <1>5 DEF CallersServed
  <2>7. thread'["main"] \in {"idle", "command"} => t # "main" /\ thread["main"] \in {"idle", "command"}
    BY <1>2, <1>3
  <2>8. thread'["main"] \in {"idle", "command"} =>
         /\ command'.kind = "flush" /\ writer' # "ending"
         /\ promised'["main"] = {} /\ reply'["main"] = "none"
         /\ \A i \in DOMAIN control' : control'[i].kind = "flush"
    BY <1>1, <1>2, <1>3, <1>4, <1>5, <2>7 DEF CallersServed
  <2>9. thread'["main"] = "stopped" => writer' = "gone"
    BY <1>1, <1>2, <1>3 DEF CallersServed
  <2> QED BY <2>2, <2>3, <2>4, <2>5, <2>6, <2>8, <2>9 DEF CallersServed
<1>9. PromisesKept'
  <2>1. \A u \in Threads : reply'[u] = "ok" => reply[u] = "ok"
    BY <1>2, <1>4
  <2>2. \A u \in Threads : /\ (\E i \in DOMAIN control' : control'[i].to = u)
                                 => (\E i \in DOMAIN control : control[i].to = u)
                           /\ command'.to = u => command.to = u
    BY <1>2, <1>5
  <2>3. (\E i \in DOMAIN control' : control'[i].kind = "shutdown")
           => (\E i \in DOMAIN control : control[i].kind = "shutdown")
    BY <1>5
  <2> QED BY <1>1, <1>2, <1>3, <1>5, <2>1, <2>2, <2>3, PromisesReturn
<1>10. Log!DropsAreTold'
  <2>1. \A u \in Threads : thread'[u] = "count" <=> thread[u] = "count"
    BY <1>2, <1>3
  <2> QED BY <1>1, <2>1, DropsStay DEF LogInv
<1>11. LinesNumbered'
  BY <1>1 DEF LogInv, LinesNumbered
<1> QED BY <1>6, <1>7, <1>8, <1>9, <1>10, <1>11 DEF LogInv

\* A call is refused, answered or gives up (Refused, Answered, TimedOut).
LEMMA EndsOfACallKeep ==
  ASSUME LogInv, NEW t \in Log!Callers, Log!Refused(t) \/ Log!Answered(t) \/ Log!TimedOut(t)
  PROVE  LogInv'
<1>0. CallersServed /\ (t \in Threads => t # "main")
  BY LogFacts DEF LogInv
<1>s. Log!Return(t) => sink' = sink
  BY DEF Log!Return, Log!log
<1>1. CASE Log!Refused(t)
  <2>1. thread[t] = "command" /\ ~Pending(t)
    BY <1>0, <1>1 DEF Log!Refused, CallersServed
  <2> QED BY <1>0, <1>1, <1>s, <2>1, ReturnKeeps DEF Log!Refused
<1>2. CASE Log!Answered(t)
  <2>1. thread[t] = "wait" /\ ~Pending(t)
    BY <1>0, <1>2 DEF Log!Answered, CallersServed
  <2> QED BY <1>0, <1>2, <1>s, <2>1, ReturnKeeps DEF Log!Answered
<1>3. CASE Log!TimedOut(t)
  <2>1. reply' = [reply EXCEPT ![t] = "none"]
    BY <1>3, LogFacts DEF Log!TimedOut, LogInv, LogTyped
  <2>2. /\ control' = [i \in DOMAIN control |-> IF control[i].to = t THEN [control[i] EXCEPT !.to = "nobody"] ELSE control[i]]
        /\ command' = IF command.to = t THEN [command EXCEPT !.to = "nobody"] ELSE command
        /\ thread[t] = "wait" /\ Log!Return(t)
    BY <1>3 DEF Log!TimedOut
  <2> QED BY <1>0, <1>s, <2>1, <2>2, ReturnKeeps
<1> QED BY <1>1, <1>2, <1>3

LogContent == LogRecord \union [count : Nat]

\* What writing comes to: the file is lost, or it has one line more.
Wrote(r) ==
    /\ sink' \in LogSink /\ sequence' \in Nat /\ (sink'.active => sink.active)
    /\ \/ file' = file /\ ~sink'.active
       \/ \E line \in LogLine : /\ line.what = r /\ line.seq = Len(file) + 1
                                /\ file' = Append(file, line) /\ sequence' = Len(file) + 1

\* Writing a record or a report comes to no more than Wrote.
LEMMA WriteOutcomes ==
  ASSUME LogTyped, LinesNumbered, NEW r \in LogContent, Log!WriteRecord(r) \/ Log!WriteAndFlush(r)
  PROVE  Wrote(r)
<1>1. /\ sink \in LogSink /\ sequence \in Nat /\ file \in Seq(LogLine) /\ Len(file) \in Nat
      /\ sink.active => sequence = Len(file)
  BY DEF LogTyped, LinesNumbered
<1>2. /\ Log!NextPart \in LogSink /\ [Log!NextPart EXCEPT !.active = FALSE] \in LogSink
      /\ ~[Log!NextPart EXCEPT !.active = FALSE].active
      /\ [sink EXCEPT !.active = FALSE] \in LogSink /\ ~[sink EXCEPT !.active = FALSE].active
      /\ Log!NextPart.part \in Nat
  <2>1. Log!NextPart \in LogSink
    BY <1>1 DEF Log!NextPart, LogSink
  <2>2. ASSUME NEW s \in LogSink
        PROVE  [s EXCEPT !.active = FALSE] \in LogSink /\ ~[s EXCEPT !.active = FALSE].active /\ s.part \in Nat
    BY DEF LogSink
  <2> QED BY <1>1, <2>1, <2>2
<1> DEFINE line == [seq |-> sequence + 1, what |-> r, part |-> Log!NextPart.part]
<1>3. line \in LogLine /\ line.what = r /\ line.seq = sequence + 1
  BY <1>1, <1>2 DEF LogLine, LogContent
<1>4. CASE ~sink.active /\ UNCHANGED Log!log
  BY <1>1, <1>4 DEF Log!log, Wrote
<1>5. CASE sink.active /\ Log!WriteLine(r)
  <2>1. sequence' = sequence + 1 /\ sink' = Log!NextPart /\ file' = Append(file, line)
    BY <1>5 DEF Log!WriteLine
  <2> HIDE DEF line
  <2> QED BY <1>1, <1>2, <1>3, <1>5, <2>1 DEF Wrote
<1>6. CASE sink.active /\ Log!DisableSink /\ sequence' = sequence + 1 /\ UNCHANGED file
  BY <1>1, <1>2, <1>6 DEF Log!DisableSink, Wrote
<1>7. CASE /\ sink.active /\ sequence' = sequence + 1 /\ sink' = [Log!NextPart EXCEPT !.active = FALSE]
           /\ file' = Append(file, [seq |-> sequence', what |-> r, part |-> Log!NextPart.part])
  <2>1. file' = Append(file, line)
    BY <1>7
  <2> HIDE DEF line
  <2> QED BY <1>1, <1>2, <1>3, <1>7, <2>1 DEF Wrote
<1> QED BY <1>4, <1>5, <1>6, <1>7 DEF Log!WriteRecord, Log!WriteAndFlush

\* What the file then is.
LEMMA WroteLines ==
  ASSUME LogTyped, LinesNumbered, NEW r \in LogContent, Wrote(r)
  PROVE  /\ LinesNumbered' /\ file' \in Seq(LogLine)
         /\ DOMAIN file \subseteq DOMAIN file' /\ \A k \in DOMAIN file : file'[k] = file[k]
         /\ \A k \in DOMAIN file' : k \in DOMAIN file \/ (k = Len(file) + 1 /\ file'[k].what = r)
         /\ Log!Written \subseteq Log!Written'
         /\ sink'.active /\ "id" \in DOMAIN r => r.id \in Log!Written'
         /\ sink'.active => Told(file') = Told(file) + Log!CountOf([what |-> r])
<1>1. file \in Seq(LogLine) /\ Len(file) \in Nat /\ DOMAIN file = 1..Len(file)
  BY DEF LogTyped
<1>2. CASE file' = file /\ ~sink'.active
  BY <1>1, <1>2 DEF LinesNumbered, Log!Written
<1>3. CASE \E line \in LogLine : /\ line.what = r /\ line.seq = Len(file) + 1
                                 /\ file' = Append(file, line) /\ sequence' = Len(file) + 1
  <2>1. PICK line \in LogLine : /\ line.what = r /\ line.seq = Len(file) + 1
                                /\ file' = Append(file, line) /\ sequence' = Len(file) + 1
    BY <1>3
  <2>2. /\ file' \in Seq(LogLine) /\ Len(file') = Len(file) + 1
        /\ DOMAIN file' = DOMAIN file \union {Len(file) + 1} /\ Len(file) + 1 \notin DOMAIN file
        /\ file'[Len(file) + 1] = line /\ \A k \in DOMAIN file : file'[k] = file[k]
    BY <1>1, <2>1, AppendParts
  <2>3. LinesNumbered'
    BY <2>1, <2>2 DEF LinesNumbered
  <2>4. Log!Written \subseteq Log!Written'
    <3>1. \A k \in {j \in DOMAIN file : "id" \in DOMAIN file[j].what} :
            k \in {j \in DOMAIN file' : "id" \in DOMAIN file'[j].what} /\ file'[k].what.id = file[k].what.id
      BY <2>2
    <3> QED BY <3>1 DEF Log!Written
  <2>5. "id" \in DOMAIN r => r.id \in Log!Written'
    <3>1. ASSUME "id" \in DOMAIN r
          PROVE  Len(file) + 1 \in {j \in DOMAIN file' : "id" \in DOMAIN file'[j].what}
                 /\ file'[Len(file) + 1].what.id = r.id
      BY <2>1, <2>2, <3>1
    <3> QED BY <3>1 DEF Log!Written
  <2>6. Told(file') = Told(file) + Log!CountOf([what |-> r])
    <3>1. Log!CountOf(line) = Log!CountOf([what |-> r])
      BY <2>1 DEF Log!CountOf
    <3> QED BY <1>1, <2>1, <3>1, ToldAppends
  <2> QED BY <2>1, <2>2, <2>3, <2>4, <2>5, <2>6
<1> QED BY <1>2, <1>3 DEF Wrote

\* The writer takes the oldest record of a lane and writes it.
LEMMA TakeKeeps ==
  ASSUME LogInv, NEW l \in Log!Lanes, lane[l] # <<>>, lane' = [lane EXCEPT ![l] = Tail(@)],
         Log!WriteRecord(Head(lane[l])) \/ Log!WriteAndFlush(Head(lane[l])),
         UNCHANGED <<thread, holding, built, control, command, dropped, droppedTotal, reply, promised>>,
         writer' = writer \/ {writer, writer'} \subseteq {"control", "priority", "regular", "tick"}
  PROVE  LogInv'
<1> DEFINE r == Head(lane[l])
<1>1. LogTyped /\ LinesNumbered /\ RecordsOnce /\ CallersServed
  BY DEF LogInv
<1>2. lane[l] \in Seq(LogRecord) /\ lane'[l] = Tail(lane[l]) /\ \A m \in Log!Lanes : m # l => lane'[m] = lane[m]
  BY <1>1 DEF LogTyped
<1>3. /\ Tail(lane[l]) \in Seq(LogRecord) /\ r = lane[l][1] /\ r \in LogRecord /\ 1 \in DOMAIN lane[l]
      /\ \A k \in DOMAIN Tail(lane[l]) : k \in Nat /\ k # 0 /\ k + 1 \in DOMAIN lane[l] /\ Tail(lane[l])[k] = lane[l][k + 1]
      /\ \A k \in DOMAIN lane[l] : k = 1 \/ (k - 1 \in DOMAIN Tail(lane[l]) /\ Tail(lane[l])[k - 1] = lane[l][k])
  BY <1>2, TailParts
<1>4. r \in LogContent /\ "id" \in DOMAIN r /\ "count" \notin DOMAIN r
  BY <1>3 DEF LogContent, LogRecord
<1>5. Wrote(r)
  BY <1>1, <1>4, WriteOutcomes
<1> HIDE DEF r
<1>6. /\ LinesNumbered' /\ file' \in Seq(LogLine)
      /\ DOMAIN file \subseteq DOMAIN file' /\ \A k \in DOMAIN file : file'[k] = file[k]
      /\ \A k \in DOMAIN file' : k \in DOMAIN file \/ (k = Len(file) + 1 /\ file'[k].what = r)
      /\ Log!Written \subseteq Log!Written'
      /\ sink'.active => r.id \in Log!Written'
      /\ sink'.active => Told(file') = Told(file) + Log!CountOf([what |-> r])
  BY <1>1, <1>4, <1>5, WroteLines
<1>7. /\ sink' \in LogSink /\ sequence' \in Nat /\ (sink'.active => sink.active)
  BY <1>5 DEF Wrote
<1>8. LogTyped'
  <2>1. lane' \in [Log!Lanes -> Seq(LogRecord)]
    BY <1>1, <1>3 DEF LogTyped
  <2>2. writer' \in AtRest \union AtWorkForACommand
    BY <1>1 DEF LogTyped, AtRest
  <2> QED BY <1>1, <1>6, <1>7, <2>1, <2>2 DEF LogTyped
\* Each place that is left had its record before, one place further back.
<1> DEFINE Old(m, i) == IF m = l THEN i + 1 ELSE i
<1>9. \A m \in Log!Lanes : \A i \in DOMAIN lane'[m] :
        /\ i \in Nat /\ Old(m, i) \in DOMAIN lane[m] /\ lane'[m][i] = lane[m][Old(m, i)]
        /\ <<m, Old(m, i)>> # <<l, 1>>
  <2>1. \A i \in DOMAIN lane'[l] : i \in Nat /\ i + 1 \in DOMAIN lane[l] /\ lane'[l][i] = lane[l][i + 1] /\ i + 1 # 1
    <3>1. \A i \in Nat : i # 0 => i + 1 # 1
      OBVIOUS
    <3> QED BY <1>2, <1>3, <3>1
  <2>2. \A m \in Log!Lanes : \A i \in DOMAIN lane[m] : i \in Nat
    BY <1>1 DEF LogTyped
  <2> QED BY <1>2, <2>1, <2>2
<1>10. RecordsOnce'
  <2>1. \A m, n \in Log!Lanes : \A i \in DOMAIN lane'[m] : \A j \in DOMAIN lane'[n] :
          <<m, i>> # <<n, j>> => <<m, Old(m, i)>> # <<n, Old(n, j)>>
    <3> SUFFICES ASSUME NEW m \in Log!Lanes, NEW n \in Log!Lanes, NEW i \in DOMAIN lane'[m], NEW j \in DOMAIN lane'[n],
                        <<m, Old(m, i)>> = <<n, Old(n, j)>>
                 PROVE  <<m, i>> = <<n, j>>
      OBVIOUS
    <3>1. m = n /\ i \in Nat /\ j \in Nat /\ Old(m, i) = Old(n, j)
      BY <1>9
    <3> QED BY <3>1
  <2> HIDE DEF Old
  <2>2. \A m \in Log!Lanes : \A i \in DOMAIN lane'[m] :
          /\ lane'[m][i].id \in 1..built'
          /\ \A t \in Threads : thread'[t] = "send" => holding'[t].id # lane'[m][i].id
          /\ \A n \in Log!Lanes : \A j \in DOMAIN lane'[n] :
               <<m, i>> # <<n, j>> => lane'[m][i].id # lane'[n][j].id
          /\ lane'[m][i].id # r.id
    BY <1>1, <1>3, <1>9, <2>1 DEF RecordsOnce
  <2>3. /\ r.id \in 1..built /\ (\A t \in Threads : thread[t] = "send" => holding[t].id # r.id)
        /\ \A k \in DOMAIN file : IsRecord(k) => file[k].what.id # r.id
    BY <1>1, <1>3 DEF RecordsOnce
  <2>4. \A k \in DOMAIN file : /\ IsRecord(k)' <=> IsRecord(k)
                               /\ file'[k].what = file[k].what
    BY <1>6 DEF IsRecord
  <2>5. ASSUME NEW k \in DOMAIN file', IsRecord(k)', k \in DOMAIN file
        PROVE  /\ file'[k].what.id \in 1..built'
               /\ \A t \in Threads : thread'[t] = "send" => holding'[t].id # file'[k].what.id
               /\ \A m \in Log!Lanes : \A i \in DOMAIN lane'[m] : lane'[m][i].id # file'[k].what.id
               /\ \A j \in DOMAIN file' : j # k /\ IsRecord(j)' => file'[j].what.id # file'[k].what.id
    <3>1. IsRecord(k) /\ file'[k].what = file[k].what
      BY <2>4, <2>5
    <3>2. /\ file[k].what.id \in 1..built
          /\ \A t \in Threads : thread[t] = "send" => holding[t].id # file[k].what.id
          /\ \A m \in Log!Lanes : \A i \in DOMAIN lane[m] : lane[m][i].id # file[k].what.id
          /\ \A j \in DOMAIN file : j # k /\ IsRecord(j) => file[j].what.id # file[k].what.id
      BY <1>1, <2>5, <3>1 DEF RecordsOnce
    <3>3. \A m \in Log!Lanes : \A i \in DOMAIN lane'[m] : lane'[m][i].id # file'[k].what.id
      BY <1>9, <3>1, <3>2
    <3>4. ASSUME NEW j \in DOMAIN file', j # k, IsRecord(j)' PROVE file'[j].what.id # file'[k].what.id
      <4>1. CASE j \in DOMAIN file
        BY <2>4, <3>1, <3>2, <3>4, <4>1
      <4>2. CASE file'[j].what = r
        BY <2>3, <2>5, <3>1, <4>2
      <4> QED BY <1>6, <4>1, <4>2
    <3> QED BY <3>1, <3>2, <3>3, <3>4
  <2>6. ASSUME NEW k \in DOMAIN file', IsRecord(k)', k \notin DOMAIN file
        PROVE  /\ file'[k].what.id \in 1..built'
               /\ \A t \in Threads : thread'[t] = "send" => holding'[t].id # file'[k].what.id
               /\ \A m \in Log!Lanes : \A i \in DOMAIN lane'[m] : lane'[m][i].id # file'[k].what.id
               /\ \A j \in DOMAIN file' : j # k /\ IsRecord(j)' => file'[j].what.id # file'[k].what.id
    <3>1. k = Len(file) + 1 /\ file'[k].what = r
      BY <1>6, <2>6
    <3>2. ASSUME NEW j \in DOMAIN file', j # k, IsRecord(j)' PROVE file'[j].what.id # file'[k].what.id
      <4>1. j \in DOMAIN file
        BY <1>6, <3>1, <3>2
      <4> QED BY <2>3, <2>4, <3>1, <3>2, <4>1
    <3> QED BY <2>2, <2>3, <3>1, <3>2
  <2>7. /\ \A t \in Threads : thread'[t] = "send" => holding'[t].id \in 1..built'
        /\ \A t, u \in Threads : thread'[t] = "send" /\ thread'[u] = "send" /\ t # u =>
             holding'[t].id # holding'[u].id
    BY <1>1 DEF RecordsOnce
  <2>8. \A m \in Log!Lanes : \A i \in DOMAIN lane'[m] :
          /\ lane'[m][i].id \in 1..built'
          /\ \A t \in Threads : thread'[t] = "send" => holding'[t].id # lane'[m][i].id
          /\ \A n \in Log!Lanes : \A j \in DOMAIN lane'[n] :
               <<m, i>> # <<n, j>> => lane'[m][i].id # lane'[n][j].id
    BY <2>2
  <2>9. \A k \in DOMAIN file' : IsRecord(k)' =>
               /\ file'[k].what.id \in 1..built'
               /\ \A t \in Threads : thread'[t] = "send" => holding'[t].id # file'[k].what.id
               /\ \A m \in Log!Lanes : \A i \in DOMAIN lane'[m] : lane'[m][i].id # file'[k].what.id
               /\ \A j \in DOMAIN file' : j # k /\ IsRecord(j)' => file'[j].what.id # file'[k].what.id
    BY <2>5, <2>6
  <2> HIDE DEF r
  <2> QED BY <2>7, <2>8, <2>9 DEF RecordsOnce
<1>11. writer' = writer \/ (command = Log!NoCommand /\ {writer, writer'} \subseteq {"control", "priority", "regular", "tick"})
  BY <1>1 DEF CallersServed, AtRest
<1>12. CallersServed'
  BY <1>1, <1>11 DEF CallersServed, Pending, AtRest
<1>13. PromisesKept'
  <2>1. ASSUME sink'.active, NEW m \in Log!Lanes
        PROVE  LaneIds(m) \subseteq LaneIds(m)' \union Log!Written'
    <3> SUFFICES ASSUME NEW k \in DOMAIN lane[m], lane[m][k].id \notin Log!Written' PROVE lane[m][k].id \in LaneIds(m)'
      BY DEF LaneIds
    <3>1. CASE m # l
      BY <1>2, <3>1 DEF LaneIds
    <3>2. CASE m = l /\ k # 1
      <4>1. k - 1 \in DOMAIN Tail(lane[l]) /\ Tail(lane[l])[k - 1] = lane[l][k]
        BY <1>3, <3>2
      <4>2. lane'[m] = Tail(lane[l])
        BY <1>2, <3>2
      <4>3. \E i \in DOMAIN lane'[m] : lane'[m][i] = lane[m][k]
        BY <3>2, <4>1, <4>2
      <4> QED BY <4>3 DEF LaneIds
    <3> QED BY <1>3, <1>6, <2>1, <3>1, <3>2
  <2>2. sink'.active => /\ LaneIds("regular") \subseteq LaneIds("regular")' \union Log!Written'
                        /\ LaneIds("priority") \subseteq LaneIds("priority")' \union Log!Written'
    BY <2>1, LogFacts
  <2> QED BY <1>6, <1>7, <1>11, <2>2, PromisesStay, LogAssumption DEF LogInv
<1>14. Log!DropsAreTold'
  <2>1. Log!CountOf([what |-> r]) = 0
    BY <1>4 DEF Log!CountOf
  <2>2. Counting' = Counting
    BY DEF Counting
  <2>3. Told(file) \in Nat
    BY <1>1, ToldOfNat
  <2> QED BY <1>6, <1>7, <2>1, <2>2, <2>3, DropsCounted DEF LogInv
<1> QED BY <1>6, <1>8, <1>10, <1>12, <1>13, <1>14 DEF LogInv

Polls == {"control", "priority", "regular", "tick"}

\* The writer goes on without taking anything.
LEMMA GoesOnKeeps ==
  ASSUME LogInv, UNCHANGED <<thread, holding, built, lane, control, command, file, sequence,
                             dropped, droppedTotal, reply, promised>>,
         sink' \in LogSink, sink'.active => sink.active,
         {writer, writer'} \subseteq Polls
  PROVE  LogInv'
<1>1. LogTyped /\ CallersServed
  BY DEF LogInv
<1>2. command = Log!NoCommand
  BY <1>1 DEF CallersServed, Polls, AtRest
<1>3. LogTyped'
  BY <1>1 DEF LogTyped, Polls, AtRest
<1>4. RecordsOnce'
  BY RecordsStay DEF LogInv
<1>5. CallersServed'
  BY <1>1, <1>2 DEF CallersServed, Pending, Polls
<1>6. PromisesKept'
  <2>1. Log!Written' = Log!Written
        /\ LaneIds("regular")' = LaneIds("regular") /\ LaneIds("priority")' = LaneIds("priority")
    BY LanesStay
  <2> QED BY <1>2, <2>1, PromisesStay, LogAssumption DEF LogInv, Polls
<1>7. Log!DropsAreTold'
  BY DropsStay DEF LogInv
<1>8. LinesNumbered'
  BY DEF LogInv, LinesNumbered
<1> QED BY <1>3, <1>4, <1>5, <1>6, <1>7, <1>8 DEF LogInv

\* The writer takes a command.
LEMMA PollControlKeeps ==
  ASSUME LogInv, Log!PollControl PROVE LogInv'
<1>1. LogTyped /\ CallersServed
  BY DEF LogInv
<1>2. UNCHANGED <<thread, holding, built, lane, file, sink, sequence, dropped, droppedTotal, reply, promised>>
      /\ writer = "control"
  BY DEF Log!PollControl, Log!producers, Log!log, Log!counts
<1>3. CASE control = <<>>
  <2>1. writer' = "priority" /\ UNCHANGED <<control, command>>
    BY <1>3 DEF Log!PollControl
  <2> QED BY <1>1, <1>2, <2>1, GoesOnKeeps DEF LogTyped, Polls
<1>4. CASE control # <<>>
  <2>1. command' = Head(control) /\ control' = Tail(control) /\ writer' = "drain-priority"
    BY <1>4 DEF Log!PollControl
  <2>2. /\ Tail(control) \in Seq(LogCommand) /\ Head(control) = control[1] /\ control[1] \in LogCommand
        /\ 1 \in DOMAIN control
        /\ \A k \in DOMAIN Tail(control) : k \in Nat /\ k # 0 /\ k + 1 \in DOMAIN control /\ Tail(control)[k] = control[k + 1]
    BY <1>1, <1>4, TailParts DEF LogTyped
  <2>3. \A k \in Nat : k # 0 => k + 1 # 1
    OBVIOUS
  <2>4. \A i \in DOMAIN control' : i \in Nat /\ i + 1 \in DOMAIN control /\ i + 1 # 1 /\ control'[i] = control[i + 1]
    BY <2>1, <2>2, <2>3
  <2>5. command = Log!NoCommand /\ command' = control[1]
    BY <1>1, <1>2, <2>1, <2>2 DEF CallersServed, AtRest
  <2>6. LogTyped'
    BY <1>1, <1>2, <2>1, <2>2 DEF LogTyped, AtWorkForACommand
  <2>7. RecordsOnce'
    BY <1>2, RecordsStay DEF LogInv
  <2>8. \A t : Pending(t)' => Pending(t)
    BY <2>2, <2>4, <2>5 DEF Pending
  <2>9. CallersServed'
    <3>1. /\ writer' \in AtRest => command' = Log!NoCommand
          /\ \A t \in Log!Callers : Pending(t)' => thread'[t] = "wait" /\ reply'[t] = "none"
          /\ \A t \in Threads : thread'[t] # "wait" => reply'[t] = "none"
      BY <1>1, <1>2, <2>1, <2>8 DEF CallersServed, AtRest
    <3>2. \A i, j \in DOMAIN control' : i # j /\ control'[i].to = control'[j].to => control'[i].to = "nobody"
      <4> SUFFICES ASSUME NEW i \in DOMAIN control', NEW j \in DOMAIN control', i # j, control'[i].to = control'[j].to
                   PROVE  control'[i].to = "nobody"
        OBVIOUS
      <4>1. i \in Nat /\ j \in Nat /\ i + 1 # j + 1
        BY <2>4
      <4> QED BY <1>1, <2>4, <4>1 DEF CallersServed
    <3>3. \A i \in DOMAIN control' : control'[i].to = command'.to => command'.to = "nobody"
      BY <1>1, <2>2, <2>4, <2>5 DEF CallersServed
    <3>4. /\ \A i \in DOMAIN control' : control'[i].kind = "shutdown" => control'[i].to \notin Threads
          /\ command'.kind = "shutdown" => command'.to \notin Threads
      BY <1>1, <2>2, <2>4, <2>5 DEF CallersServed
    <3>5. thread'["main"] \in {"idle", "command"} =>
           /\ command'.kind = "flush" /\ writer' # "ending"
           /\ promised'["main"] = {} /\ reply'["main"] = "none"
           /\ \A i \in DOMAIN control' : control'[i].kind = "flush"
      BY <1>1, <1>2, <2>1, <2>2, <2>4, <2>5 DEF CallersServed
    <3>6. thread'["main"] = "stopped" => writer' = "gone"
      BY <1>1, <1>2 DEF CallersServed
    <3> QED BY <3>1, <3>2, <3>3, <3>4, <3>5, <3>6 DEF CallersServed
  <2>10. PromisesKept'
    <3>1. Log!Written' = Log!Written
          /\ LaneIds("regular")' = LaneIds("regular") /\ LaneIds("priority")' = LaneIds("priority")
      BY <1>2, LanesStay
    <3>2. \A t \in Threads : reply'[t] = "ok" => promised'[t] \subseteq Log!Written'
      BY <1>2, <3>1 DEF LogInv, PromisesKept
    <3>4. ASSUME sink'.active, NEW t \in Threads
          PROVE  Saved(promised[t], \E i \in DOMAIN control : control[i].to = t, command.to = t)'
      <4>1. Saved(promised[t], \E i \in DOMAIN control : control[i].to = t, command.to = t)
        BY <1>2, <3>4 DEF LogInv, PromisesKept
      <4>2. (\E i \in DOMAIN control' : control'[i].to = t) \/ command'.to = t => \E i \in DOMAIN control : control[i].to = t
        BY <2>2, <2>4, <2>5
      <4> QED BY <1>2, <2>1, <3>1, <4>1, <4>2 DEF Saved
    <3>5. ASSUME sink'.active
          PROVE  Saved(promised["main"], \E i \in DOMAIN control : control[i].kind = "shutdown", command.kind = "shutdown")'
      <4>1. Saved(promised["main"], \E i \in DOMAIN control : control[i].kind = "shutdown", command.kind = "shutdown")
        BY <1>2, <3>5 DEF LogInv, PromisesKept
      <4>2. (\E i \in DOMAIN control' : control'[i].kind = "shutdown") \/ command'.kind = "shutdown" => \E i \in DOMAIN control : control[i].kind = "shutdown"
        BY <2>2, <2>4, <2>5
      <4> QED BY <1>2, <2>1, <3>1, <4>1, <4>2 DEF Saved
    <3> QED BY <2>1, <3>2, <3>4, <3>5 DEF PromisesKept
  <2>11. Log!DropsAreTold'
    BY <1>2, DropsStay DEF LogInv
  <2>12. LinesNumbered'
    BY <1>2 DEF LogInv, LinesNumbered
  <2> QED BY <2>6, <2>7, <2>9, <2>10, <2>11, <2>12 DEF LogInv
<1> QED BY <1>3, <1>4

\* The writer takes a record or goes on.
LEMMA PollLaneKeeps ==
  ASSUME LogInv, Log!PollPriority \/ Log!PollRegular PROVE LogInv'
<1>1. LogTyped
  BY DEF LogInv
<1>2. UNCHANGED <<thread, holding, built, control, command, dropped, droppedTotal, reply, promised>>
  BY DEF Log!PollPriority, Log!PollRegular, Log!WriterUnchanged, Log!producers, Log!counts
<1>3. CASE UNCHANGED <<lane, Log!log>> /\ {writer, writer'} \subseteq Polls
  BY <1>1, <1>2, <1>3, GoesOnKeeps DEF Log!log, LogTyped
<1>4. ASSUME NEW l \in Log!Lanes, lane[l] # <<>>, lane' = [lane EXCEPT ![l] = Tail(@)],
             Log!WriteRecord(Head(lane[l])) \/ Log!WriteAndFlush(Head(lane[l])), {writer, writer'} \subseteq Polls
      PROVE  LogInv'
  BY <1>2, <1>4, TakeKeeps DEF Polls
<1>5. "priority" \in Log!Lanes /\ "regular" \in Log!Lanes
  BY DEF Log!Lanes
<1> QED BY <1>3, <1>4, <1>5 DEF Log!PollPriority, Log!PollRegular, Polls

\* A command goes on to its next stage once a lane is empty.
LEMMA DrainKeeps ==
  ASSUME LogInv, Log!DrainPriority \/ Log!DrainRegular PROVE LogInv'
<1>1. LogTyped /\ CallersServed
  BY DEF LogInv
<1>2. UNCHANGED <<thread, holding, built, control, command, dropped, droppedTotal, reply, promised>>
  BY DEF Log!DrainPriority, Log!DrainRegular, Log!Drain, Log!WriterUnchanged, Log!producers, Log!counts
<1>3. ASSUME NEW l \in Log!Lanes, lane[l] # <<>>, lane' = [lane EXCEPT ![l] = Tail(@)],
             Log!WriteRecord(Head(lane[l])), writer' = writer
      PROVE  LogInv'
  BY <1>2, <1>3, TakeKeeps
<1>4. CASE /\ UNCHANGED <<lane, sink, file, sequence>>
           /\ \/ writer = "drain-priority" /\ writer' = "drain-regular" /\ lane["priority"] = <<>>
              \/ writer = "drain-regular" /\ writer' = "report" /\ lane["regular"] = <<>>
  <2>1. LogTyped'
    BY <1>1, <1>2, <1>4 DEF LogTyped, AtWorkForACommand
  <2>2. RecordsOnce'
    BY <1>2, <1>4, RecordsStay DEF LogInv
  <2>3. CallersServed'
    BY <1>1, <1>2, <1>4 DEF CallersServed, Pending, AtRest
  <2>4. Log!DropsAreTold'
    BY <1>2, <1>4, DropsStay DEF LogInv
  <2>5. LinesNumbered'
    BY <1>4 DEF LogInv, LinesNumbered
  <2>6. PromisesKept'
    <3>1. Log!Written' = Log!Written
          /\ LaneIds("regular")' = LaneIds("regular") /\ LaneIds("priority")' = LaneIds("priority")
      BY <1>4, LanesStay
    <3>2. \A t \in Threads : reply'[t] = "ok" => promised'[t] \subseteq Log!Written'
      BY <1>2, <3>1 DEF LogInv, PromisesKept
    <3>3. /\ lane["priority"] = <<>> => LaneIds("priority") = {}
          /\ lane["regular"] = <<>> => LaneIds("regular") = {}
      BY DEF LaneIds
    <3>4. ASSUME sink'.active, NEW t \in Threads
          PROVE  Saved(promised[t], \E i \in DOMAIN control : control[i].to = t, command.to = t)'
      <4>1. Saved(promised[t], \E i \in DOMAIN control : control[i].to = t, command.to = t)
        BY <1>4, <3>4 DEF LogInv, PromisesKept
      <4> QED BY <1>2, <1>4, <3>1, <3>3, <4>1 DEF Saved
    <3>5. ASSUME sink'.active
          PROVE  Saved(promised["main"], \E i \in DOMAIN control : control[i].kind = "shutdown", command.kind = "shutdown")'
      <4>1. Saved(promised["main"], \E i \in DOMAIN control : control[i].kind = "shutdown", command.kind = "shutdown")
        BY <1>4, <3>5 DEF LogInv, PromisesKept
      <4> QED BY <1>2, <1>4, <3>1, <3>3, <4>1 DEF Saved
    <3> QED BY <1>4, <3>2, <3>4, <3>5 DEF PromisesKept
  <2> QED BY <2>1, <2>2, <2>3, <2>4, <2>5, <2>6 DEF LogInv
<1>5. "priority" \in Log!Lanes /\ "regular" \in Log!Lanes
  BY DEF Log!Lanes
<1> QED BY <1>3, <1>4, <1>5 DEF Log!DrainPriority, Log!DrainRegular, Log!Drain, Log!log

\* A report of drops is a line that is no record.
LEMMA ReportSteps ==
  ASSUME LogInv, NEW flushed, Log!ReportDropped(flushed),
         UNCHANGED <<thread, holding, built, lane, droppedTotal>>
  PROVE  /\ sink' \in LogSink /\ sequence' \in Nat /\ (sink'.active => sink.active)
         /\ file' \in Seq(LogLine) /\ dropped' \in [Log!Lanes -> Nat]
         /\ LinesNumbered' /\ RecordsOnce' /\ Log!Written \subseteq Log!Written' /\ Log!DropsAreTold'
<1>1. LogTyped /\ LinesNumbered /\ RecordsOnce /\ Log!DropsAreTold
  BY DEF LogInv
<1>2. CASE UNCHANGED <<sink, file, sequence, dropped>>
  <2>1. RecordsOnce' /\ Log!DropsAreTold'
    BY <1>1, <1>2, RecordsStay, DropsStay
  <2>2. LinesNumbered' /\ Log!Written' = Log!Written
    BY <1>1, <1>2 DEF LinesNumbered, Log!Written
  <2> QED BY <1>1, <1>2, <2>1, <2>2 DEF LogTyped
<1> DEFINE n == dropped["regular"] + dropped["priority"]
           r == [count |-> n]
<1>3. CASE dropped' = [l \in Log!Lanes |-> 0] /\ (Log!WriteRecord(r) \/ Log!WriteAndFlush(r))
  <2>1. n \in Nat
    BY <1>1 DEF LogTyped, Log!Lanes
  <2> HIDE DEF n
  <2>2. r \in LogContent /\ "id" \notin DOMAIN r /\ Log!CountOf([what |-> r]) = n
    BY <2>1 DEF LogContent, Log!CountOf
  <2> HIDE DEF r
  <2>3. Wrote(r)
    BY <1>1, <1>3, <2>2, WriteOutcomes
  <2>4. /\ LinesNumbered' /\ file' \in Seq(LogLine)
        /\ DOMAIN file \subseteq DOMAIN file' /\ \A k \in DOMAIN file : file'[k] = file[k]
        /\ \A k \in DOMAIN file' : k \in DOMAIN file \/ (k = Len(file) + 1 /\ file'[k].what = r)
        /\ Log!Written \subseteq Log!Written'
        /\ sink'.active => Told(file') = Told(file) + n
    BY <1>1, <2>2, <2>3, WroteLines
  <2>5. dropped' \in [Log!Lanes -> Nat] /\ dropped'["regular"] + dropped'["priority"] = 0
    BY <1>3 DEF Log!Lanes
  <2>6. RecordsOnce'
    <3>1. \A k \in DOMAIN file' : IsRecord(k)' => k \in DOMAIN file /\ IsRecord(k) /\ file'[k] = file[k]
      BY <2>2, <2>4 DEF IsRecord
    <3>2. /\ \A t \in Threads : thread'[t] = "send" => holding'[t].id \in 1..built'
          /\ \A t, u \in Threads : thread'[t] = "send" /\ thread'[u] = "send" /\ t # u =>
               holding'[t].id # holding'[u].id
          /\ \A l \in Log!Lanes : \A i \in DOMAIN lane'[l] :
               /\ lane'[l][i].id \in 1..built'
               /\ \A t \in Threads : thread'[t] = "send" => holding'[t].id # lane'[l][i].id
               /\ \A m \in Log!Lanes : \A j \in DOMAIN lane'[m] :
                    <<l, i>> # <<m, j>> => lane'[l][i].id # lane'[m][j].id
      BY <1>1 DEF RecordsOnce
    <3>3. \A k \in DOMAIN file' : IsRecord(k)' =>
               /\ file'[k].what.id \in 1..built'
               /\ \A t \in Threads : thread'[t] = "send" => holding'[t].id # file'[k].what.id
               /\ \A l \in Log!Lanes : \A i \in DOMAIN lane'[l] : lane'[l][i].id # file'[k].what.id
               /\ \A j \in DOMAIN file' : j # k /\ IsRecord(j)' => file'[j].what.id # file'[k].what.id
      BY <1>1, <3>1 DEF RecordsOnce
    <3> QED BY <3>2, <3>3 DEF RecordsOnce
  <2>7. Log!DropsAreTold'
    <3>1. Counting' = Counting
      BY DEF Counting
    <3>2. Told(file) \in Nat
      BY <1>1, ToldOfNat
    <3>3. sink'.active => sink.active
      BY <2>3 DEF Wrote
    <3>4. sink.active => droppedTotal + Log!Cardinality(Counting) = Told(file) + n
      BY <1>1, DropsCounted DEF n
    <3> QED BY <2>1, <2>4, <2>5, <3>1, <3>2, <3>3, <3>4, DropsCounted
  <2> QED BY <2>3, <2>4, <2>5, <2>6, <2>7 DEF Wrote
<1> QED BY <1>2, <1>3 DEF Log!ReportDropped, Log!DropCount, Log!Taken, Log!log

\* The ticker reports drops, or the file is lost.
LEMMA PollTickerKeeps ==
  ASSUME LogInv, Log!PollTicker PROVE LogInv'
<1>1. LogTyped /\ CallersServed
  BY DEF LogInv
<1>2. UNCHANGED <<thread, holding, built, lane, control, command, droppedTotal, reply, promised>>
      /\ writer = "tick" /\ writer' = "control"
  BY DEF Log!PollTicker, Log!producers
<1>3. CASE Log!ReportDropped(TRUE)
  <2>1. /\ sink' \in LogSink /\ sequence' \in Nat /\ (sink'.active => sink.active)
        /\ file' \in Seq(LogLine) /\ dropped' \in [Log!Lanes -> Nat]
        /\ LinesNumbered' /\ RecordsOnce' /\ Log!Written \subseteq Log!Written' /\ Log!DropsAreTold'
    BY <1>2, <1>3, ReportSteps
  <2>2. LogTyped'
    BY <1>1, <1>2, <2>1 DEF LogTyped, AtRest
  <2>3. command = Log!NoCommand
    BY <1>1, <1>2 DEF CallersServed, AtRest
  <2>4. CallersServed'
    BY <1>1, <1>2, <2>3 DEF CallersServed, Pending
  <2>5. PromisesKept'
    <3>1. LaneIds("regular")' = LaneIds("regular") /\ LaneIds("priority")' = LaneIds("priority")
      BY <1>2 DEF LaneIds
    <3> QED BY <1>2, <2>1, <2>3, <3>1, PromisesStay, LogAssumption DEF LogInv
  <2> QED BY <2>1, <2>2, <2>4, <2>5 DEF LogInv
<1>4. CASE Log!SyncFails /\ UNCHANGED <<file, sequence, dropped>>
  <2>1. sink' \in LogSink /\ ~sink'.active
    BY <1>1, <1>4 DEF Log!SyncFails, Log!DisableSink, LogTyped, LogSink
  <2> QED BY <1>2, <1>4, <2>1, GoesOnKeeps DEF Polls
<1>5. CASE UNCHANGED <<sink, file, sequence, dropped>>
  BY <1>1, <1>2, <1>5, GoesOnKeeps DEF Polls, LogTyped
<1> QED BY <1>3, <1>4, <1>5 DEF Log!PollTicker, Log!log

\* A command reports drops once the lanes are empty.
LEMMA ReportKeeps ==
  ASSUME LogInv, Log!Report PROVE LogInv'
<1>1. LogTyped /\ CallersServed
  BY DEF LogInv
<1>2. UNCHANGED <<thread, holding, built, lane, control, command, droppedTotal, reply, promised>>
      /\ writer = "report" /\ writer' = "finish" /\ Log!ReportDropped(FALSE)
  BY DEF Log!Report, Log!producers
<1>3. /\ sink' \in LogSink /\ sequence' \in Nat /\ (sink'.active => sink.active)
      /\ file' \in Seq(LogLine) /\ dropped' \in [Log!Lanes -> Nat]
      /\ LinesNumbered' /\ RecordsOnce' /\ Log!Written \subseteq Log!Written' /\ Log!DropsAreTold'
  BY <1>2, ReportSteps
<1>4. LogTyped'
  BY <1>1, <1>2, <1>3 DEF LogTyped, AtWorkForACommand
<1>5. CallersServed'
  BY <1>1, <1>2 DEF CallersServed, Pending, AtRest
<1>6. PromisesKept'
  <2>1. LaneIds("regular")' = LaneIds("regular") /\ LaneIds("priority")' = LaneIds("priority")
    BY <1>2 DEF LaneIds
  <2>2. \A t \in Threads : reply'[t] = "ok" => promised'[t] \subseteq Log!Written'
    BY <1>2, <1>3 DEF LogInv, PromisesKept
  <2>3. ASSUME sink'.active, NEW t \in Threads
        PROVE  Saved(promised[t], \E i \in DOMAIN control : control[i].to = t, command.to = t)'
    <3>1. Saved(promised[t], \E i \in DOMAIN control : control[i].to = t, command.to = t)
      BY <1>3, <2>3 DEF LogInv, PromisesKept
    <3> QED BY <1>2, <1>3, <2>1, <3>1 DEF Saved
  <2>4. ASSUME sink'.active
        PROVE  Saved(promised["main"], \E i \in DOMAIN control : control[i].kind = "shutdown", command.kind = "shutdown")'
    <3>1. Saved(promised["main"], \E i \in DOMAIN control : control[i].kind = "shutdown", command.kind = "shutdown")
      BY <1>3, <2>4 DEF LogInv, PromisesKept
    <3> QED BY <1>2, <1>3, <2>1, <3>1 DEF Saved
  <2> QED BY <1>2, <2>2, <2>3, <2>4 DEF PromisesKept
<1> QED BY <1>3, <1>4, <1>5, <1>6 DEF LogInv

\* An answer goes to the caller whose command is done.
LEMMA TellSteps ==
  ASSUME LogInv, writer = "finish", NEW said \in {"ok", "failed"}, Log!Tell(said),
         UNCHANGED <<thread, holding, built, lane, control, file, sequence, dropped, droppedTotal, promised>>,
         command' = Log!NoCommand, sink' \in LogSink, sink'.active => sink.active,
         \/ writer' = "control"
         \/ writer' = "ending" /\ command.kind = "shutdown",
         said = "ok" /\ command.to \in Threads => sink.active
  PROVE  LogInv'
<1>1. LogTyped /\ CallersServed /\ "nobody" \notin Threads /\ "main" \notin Threads
      /\ "main" \in Log!Callers /\ Threads \subseteq Log!Callers /\ "nobody" \notin Log!Callers
  BY LogFacts DEF LogInv
<1>2. \A t \in Log!Callers : reply'[t] = (IF command.to = t THEN said ELSE reply[t])
  BY DEF Log!Tell
<1>3. LogTyped'
  <2>1. reply' \in [Log!Callers -> {"none", "ok", "failed", "refused", "closed"}]
    BY <1>1 DEF Log!Tell, LogTyped
  <2>2. command' \in LogCommand
    BY DEF Log!NoCommand, LogCommand
  <2> QED BY <1>1, <2>1, <2>2 DEF LogTyped, AtRest
<1>4. RecordsOnce'
  BY RecordsStay DEF LogInv
<1>5. CallersServed'
  <2>1. command'.to = "nobody" /\ command'.kind = "flush"
    BY DEF Log!NoCommand
  <2>2. \A t \in Log!Callers : Pending(t)' => thread'[t] = "wait" /\ reply'[t] = "none"
    BY <1>1, <1>2, <2>1 DEF CallersServed, Pending
  <2>3. \A t \in Threads : thread'[t] # "wait" => reply'[t] = "none"
    BY <1>1, <1>2 DEF CallersServed, Pending
  <2>4. thread'["main"] \in {"idle", "command"} =>
          /\ command'.kind = "flush" /\ writer' # "ending"
          /\ promised'["main"] = {} /\ reply'["main"] = "none"
          /\ \A i \in DOMAIN control' : control'[i].kind = "flush"
    BY <1>1, <1>2, <2>1 DEF CallersServed, Pending
  <2>5. thread'["main"] = "stopped" => writer' = "gone"
    BY <1>1 DEF CallersServed
  <2>6. /\ \A i, j \in DOMAIN control' : i # j /\ control'[i].to = control'[j].to => control'[i].to = "nobody"
        /\ \A i \in DOMAIN control' : control'[i].kind = "shutdown" => control'[i].to \notin Threads
    BY <1>1 DEF CallersServed
  <2> QED BY <2>1, <2>2, <2>3, <2>4, <2>5, <2>6 DEF CallersServed
<1>6. PromisesKept'
  <2>1. Log!Written' = Log!Written
        /\ LaneIds("regular")' = LaneIds("regular") /\ LaneIds("priority")' = LaneIds("priority")
    BY LanesStay
  <2>2. ASSUME NEW t \in Threads, reply'[t] = "ok" PROVE promised'[t] \subseteq Log!Written'
    <3>1. CASE command.to = t
      <4>1. sink.active
        BY <1>1, <1>2, <2>2, <3>1
      <4>2. Saved(promised[t], \E i \in DOMAIN control : control[i].to = t, command.to = t)
        BY <4>1 DEF LogInv, PromisesKept
      <4> QED BY <2>1, <3>1, <4>2 DEF Saved
    <3>2. CASE command.to # t
      BY <1>1, <1>2, <2>1, <2>2, <3>2 DEF LogInv, PromisesKept
    <3> QED BY <3>1, <3>2
  <2>3. command'.to = "nobody" /\ command'.kind = "flush"
    BY DEF Log!NoCommand
  <2>4. ASSUME sink'.active, NEW t \in Threads
        PROVE  Saved(promised[t], \E i \in DOMAIN control : control[i].to = t, command.to = t)'
    <3>1. Saved(promised[t], \E i \in DOMAIN control : control[i].to = t, command.to = t)
      BY <2>4 DEF LogInv, PromisesKept
    <3> QED BY <1>1, <2>1, <2>3, <3>1 DEF Saved
  <2>5. ASSUME sink'.active
        PROVE  /\ Saved(promised["main"], \E i \in DOMAIN control : control[i].kind = "shutdown", command.kind = "shutdown")'
               /\ writer' \in {"ending", "gone"} => promised'["main"] \subseteq Log!Written'
    <3>1. Saved(promised["main"], \E i \in DOMAIN control : control[i].kind = "shutdown", command.kind = "shutdown")
      BY <2>5 DEF LogInv, PromisesKept
    <3> QED BY <2>1, <2>3, <3>1 DEF Saved
  <2> QED BY <2>2, <2>4, <2>5 DEF PromisesKept
<1>7. Log!DropsAreTold'
  BY DropsStay DEF LogInv
<1>8. LinesNumbered'
  BY DEF LogInv, LinesNumbered
<1> QED BY <1>3, <1>4, <1>5, <1>6, <1>7, <1>8 DEF LogInv

\* A command is answered.
LEMMA FinishKeeps ==
  ASSUME LogInv, Log!FinishFlush \/ Log!FinishShutdown PROVE LogInv'
<1>1. /\ UNCHANGED <<thread, holding, built, lane, control, file, sequence, dropped, droppedTotal, promised>>
      /\ command' = Log!NoCommand /\ writer = "finish"
  BY DEF Log!FinishFlush, Log!FinishShutdown, Log!producers, Log!counts
<1>2. sink \in LogSink /\ CallersServed
  BY DEF LogInv, LogTyped
<1>3. Log!SyncFails => sink' \in LogSink /\ ~sink'.active
  BY <1>2 DEF Log!SyncFails, Log!DisableSink, LogSink
<1>4. CASE Log!FinishFlush
  <2>1. CASE sink.active /\ Log!Tell("ok") /\ sink' = sink
    BY <1>1, <1>2, <1>4, <2>1, TellSteps DEF Log!FinishFlush
  <2>2. CASE Log!Tell("failed") /\ (sink' = sink \/ Log!SyncFails)
    BY <1>1, <1>2, <1>3, <1>4, <2>2, TellSteps DEF Log!FinishFlush
  <2> QED BY <1>4, <2>1, <2>2 DEF Log!FinishFlush
<1>5. CASE Log!FinishShutdown
  <2>1. command.kind = "shutdown" /\ Log!Tell("ok") /\ writer' = "ending" /\ (sink' = sink \/ Log!SyncFails)
    BY <1>5 DEF Log!FinishShutdown
  <2>2. command.to \notin Threads
    BY <1>2, <2>1 DEF CallersServed
  <2> QED BY <1>1, <1>2, <1>3, <2>1, <2>2, TellSteps
<1> QED BY <1>4, <1>5

\* The receivers go, with what is in the lanes.
LEMMA EndWriterKeeps ==
  ASSUME LogInv, Log!EndWriter PROVE LogInv'
<1>1. /\ UNCHANGED <<thread, holding, built, command, file, sink, sequence, dropped, droppedTotal, promised>>
      /\ writer = "ending" /\ writer' = "gone" /\ control' = <<>>
      /\ lane' = [l \in Log!Lanes |-> <<>>]
      /\ reply' = [t \in Log!Callers |-> IF \E i \in DOMAIN control : control[i].to = t THEN "closed" ELSE reply[t]]
  BY DEF Log!EndWriter, Log!producers, Log!log, Log!counts
<1>2. LogTyped /\ CallersServed /\ "nobody" \notin Threads /\ "main" \notin Threads
      /\ "main" \in Log!Callers /\ Threads \subseteq Log!Callers /\ "nobody" \notin Log!Callers
  BY LogFacts DEF LogInv
<1>3. \A t \in Log!Callers : reply'[t] = reply[t] \/ (reply'[t] = "closed" /\ Pending(t))
  BY <1>1 DEF Pending
<1>4. DOMAIN control' = {} /\ \A l \in Log!Lanes : DOMAIN lane'[l] = {}
  BY <1>1
<1>5. command = Log!NoCommand
  BY <1>1, <1>2 DEF CallersServed, AtRest
<1>6. LogTyped'
  <2>1. reply' \in [Log!Callers -> {"none", "ok", "failed", "refused", "closed"}]
    BY <1>1, <1>2 DEF LogTyped
  <2>2. lane' \in [Log!Lanes -> Seq(LogRecord)] /\ control' \in Seq(LogCommand)
    BY <1>1
  <2> QED BY <1>1, <1>2, <2>1, <2>2 DEF LogTyped, AtRest
<1>7. RecordsOnce'
  <2>1. \A k : IsRecord(k)' <=> IsRecord(k)
    BY <1>1 DEF IsRecord
  <2> QED BY <1>1, <1>4, <2>1 DEF LogInv, RecordsOnce
<1>8. CallersServed'
  <2>1. command'.to = "nobody" /\ command'.kind = "flush"
    BY <1>1, <1>5 DEF Log!NoCommand
  <2>2. \A t \in Log!Callers : ~Pending(t)'
    BY <1>2, <1>4, <2>1 DEF Pending
  <2>3. \A t \in Threads : thread'[t] # "wait" => reply'[t] = "none"
    BY <1>1, <1>2, <1>3 DEF CallersServed
  <2>4. thread'["main"] \notin {"idle", "command"}
    BY <1>1, <1>2 DEF CallersServed
  <2> QED BY <1>1, <1>4, <1>5, <2>1, <2>2, <2>3, <2>4 DEF CallersServed
<1>9. PromisesKept'
  <2>1. Log!Written' = Log!Written
    BY <1>1 DEF Log!Written
  <2>2. command'.to = "nobody" /\ command'.kind = "flush"
    BY <1>1, <1>5 DEF Log!NoCommand
  <2>3. \A t \in Threads : reply'[t] = "ok" => reply[t] = "ok"
    BY <1>2, <1>3
  <2> QED BY <1>1, <1>2, <1>4, <2>1, <2>2, <2>3 DEF LogInv, PromisesKept, Saved
<1>10. Log!DropsAreTold'
  BY <1>1, DropsStay DEF LogInv
<1>11. LinesNumbered'
  BY <1>1 DEF LogInv, LinesNumbered
<1> QED BY <1>6, <1>7, <1>8, <1>9, <1>10, <1>11 DEF LogInv

\* Every step of the log keeps the invariant.
LEMMA LogNextKeeps == LogInv /\ [Log!Next]_(Log!vars) => LogInv'
<1> SUFFICES ASSUME LogInv, [Log!Next]_(Log!vars) PROVE LogInv'
  OBVIOUS
<1>1. CASE UNCHANGED Log!vars
  <2>1. UNCHANGED <<thread, holding, built, lane, control, command, writer, sink, file, sequence,
                    dropped, droppedTotal, reply, promised>>
    BY <1>1 DEF Log!vars, Log!producers, Log!log, Log!counts
  <2>2. LogTyped' /\ LinesNumbered'
    BY <2>1 DEF LogInv, LogTyped, LinesNumbered
  <2>3. RecordsOnce' /\ Log!DropsAreTold' /\ PromisesKept'
    BY <2>1, RecordsStay, DropsStay, PromisesRest DEF LogInv
  <2>4. CallersServed'
    BY <2>1 DEF LogInv, CallersServed, Pending
  <2> QED BY <2>2, <2>3, <2>4 DEF LogInv
<1>2. CASE Log!WriterStep
  BY <1>2, PollControlKeeps, PollLaneKeeps, PollTickerKeeps, DrainKeeps, ReportKeeps, FinishKeeps,
     EndWriterKeeps DEF Log!WriterStep
<1>3. ASSUME NEW t \in Threads, Log!BeginRecord(t) \/ Log!TrySend(t) \/ Log!CountDrop(t) \/ Log!CallFlush(t)
      PROVE  LogInv'
  BY <1>3, BeginRecordKeeps, TrySendKeeps, CountDropKeeps, CallFlushKeeps
<1>4. ASSUME NEW t \in Log!Callers, Log!SendCommand(t) \/ Log!Refused(t) \/ Log!Answered(t) \/ Log!TimedOut(t)
      PROVE  LogInv'
  BY <1>4, SendCommandKeeps, EndsOfACallKeep
<1>5. CASE Log!BeginShutdown \/ Log!Join
  BY <1>5, BeginShutdownKeeps, JoinKeeps
<1> QED BY <1>1, <1>2, <1>3, <1>4, <1>5 DEF Log!Next

\* What the invariant says of flush, shutdown, drops and lines.
LEMMA LogInvKeepsItsWord ==
  ASSUME LogInv
  PROVE  /\ Log!FlushKeepsItsPromise /\ Log!ShutdownSavesTheLog
         /\ Log!DropsAreTold /\ Log!SequenceFollowsTheLines
<1>1. Log!FlushKeepsItsPromise
  BY DEF LogInv, PromisesKept, Log!FlushKeepsItsPromise
<1>2. Log!ShutdownSavesTheLog
  BY DEF LogInv, PromisesKept, CallersServed, Log!ShutdownSavesTheLog
<1>3. Log!SequenceFollowsTheLines
  <2>1. file \in Seq(LogLine) /\ DOMAIN file = 1..Len(file) /\ Len(file) \in Nat
    BY DEF LogInv, LogTyped
  <2>2. ASSUME NEW i \in DOMAIN file PROVE IsRecord(i) \/ "count" \in DOMAIN file[i].what
    <3>1. file[i].what \in LogContent
      <4>1. file[i] \in LogLine
        BY <2>1
      <4> QED BY <4>1 DEF LogLine, LogContent
    <3> QED BY <3>1 DEF IsRecord, LogContent, LogRecord
  <2>3. ASSUME NEW i \in DOMAIN file, NEW j \in 1..i - 1, "count" \notin DOMAIN file[i].what
        PROVE  file[j].what # file[i].what
    <3>1. j \in DOMAIN file /\ j # i
      BY <2>1
    <3> QED BY <2>2, <2>3, <3>1 DEF LogInv, RecordsOnce, IsRecord
  <2>4. \A i \in DOMAIN file : file[i].seq = i
    BY DEF LogInv, LinesNumbered
  <2> QED BY <2>3, <2>4 DEF Log!SequenceFollowsTheLines
<1> QED BY <1>1, <1>2, <1>3 DEF LogInv

\* Who waits is heard: a command is with the writer or in a channel that has its
\* receiver, and the shutdown's is followed by the writer's end.
ShutdownPending == command.kind = "shutdown" \/ \E i \in DOMAIN control : control[i].kind = "shutdown"

HeardInv ==
    /\ writer = "gone" => control = <<>>
    /\ command.to = "main" => command.kind = "shutdown"
    /\ \A i \in DOMAIN control : control[i].to = "main" => control[i].kind = "shutdown"
    /\ \A t \in Log!Callers : thread[t] = "wait" /\ reply[t] = "none" => Pending(t)
    /\ thread["main"] = "wait" /\ reply["main"] # "none" => writer \in {"ending", "gone"}
    /\ thread["main"] = "join" /\ reply["main"] # "refused" =>
         writer \in {"ending", "gone"} \/ ShutdownPending

LEMMA HeardStart == Log!Init => HeardInv
<1> SUFFICES ASSUME Log!Init PROVE HeardInv
  OBVIOUS
<1>1. /\ control = <<>> /\ command = Log!NoCommand /\ DOMAIN control = {}
      /\ \A t \in Log!Callers : thread[t] = "idle"
  BY DEF Log!Init
<1>2. "main" \in Log!Callers /\ command.to = "nobody"
  BY <1>1 DEF Log!Callers, Log!NoCommand
<1> QED BY <1>1, <1>2 DEF HeardInv

\* Steps that leave the commands alone and send nobody to wait.
LEMMA HeardStays ==
  ASSUME HeardInv, LogInv, UNCHANGED <<control, command, reply>>,
         \A t \in Log!Callers : thread'[t] \in {"wait", "join"} => thread'[t] = thread[t],
         writer' = writer \/ (writer \notin {"ending", "gone"} /\ writer' # "gone")
  PROVE  HeardInv'
<1>1. \A t : Pending(t)' <=> Pending(t)
  BY DEF Pending
<1>2. ShutdownPending' <=> ShutdownPending
  BY DEF ShutdownPending
<1>3. "main" \in Log!Callers
  BY LogFacts
<1> QED BY <1>1, <1>2, <1>3 DEF HeardInv

\* A caller sends its command.
LEMMA HeardSends ==
  ASSUME HeardInv, LogInv, NEW t \in Log!Callers, Log!SendCommand(t)
  PROVE  HeardInv'
<1> DEFINE c == [kind |-> IF t = "main" THEN "shutdown" ELSE "flush", to |-> t]
           top == Len(control) + 1
<1>1. /\ thread[t] = "command" /\ writer # "gone" /\ control' = Append(control, c)
      /\ thread' = [thread EXCEPT ![t] = "wait"] /\ UNCHANGED <<command, writer, reply>>
  BY DEF Log!SendCommand, Log!Goto
<1>2. LogTyped /\ CallersServed /\ c \in LogCommand /\ c.to = t /\ "main" \in Log!Callers
      /\ (t = "main" => c.kind = "shutdown") /\ (t \in Threads \/ t = "main")
  BY LogFacts DEF LogInv, LogCommand
<1>3. \A u \in Log!Callers : thread'[u] = (IF u = t THEN "wait" ELSE thread[u])
  BY <1>1, <1>2 DEF LogTyped
<1>4. /\ DOMAIN control' = DOMAIN control \union {top}
      /\ control'[top] = c /\ \A k \in DOMAIN control : control'[k] = control[k]
  <2> HIDE DEF c
  <2> QED BY <1>1, <1>2, AppendParts DEF LogTyped
<1> HIDE DEF c, top
<1>5. reply[t] = "none"
  BY <1>1, <1>2 DEF CallersServed
<1>6. Pending(t)' /\ \A u : Pending(u) => Pending(u)'
  BY <1>1, <1>2, <1>4 DEF Pending
<1>7. ShutdownPending => ShutdownPending'
  BY <1>1, <1>4 DEF ShutdownPending
<1>8. \A i \in DOMAIN control' : control'[i].to = "main" => control'[i].kind = "shutdown"
  BY <1>2, <1>4 DEF HeardInv
<1>9. \A u \in Log!Callers : thread'[u] = "wait" /\ reply'[u] = "none" => Pending(u)'
  BY <1>1, <1>3, <1>6 DEF HeardInv
<1> QED BY <1>1, <1>2, <1>3, <1>5, <1>7, <1>8, <1>9 DEF HeardInv

\* A call ends, with an answer or without.
LEMMA HeardReturns ==
  ASSUME HeardInv, LogInv, NEW t \in Log!Callers,
         Log!Refused(t) \/ Log!Answered(t) \/ Log!TimedOut(t)
  PROVE  HeardInv'
<1>0. LogTyped /\ CallersServed /\ "main" \in Log!Callers /\ "nobody" # t /\ "nobody" # "main"
  BY LogFacts DEF LogInv
<1>1. thread' = [thread EXCEPT ![t] = IF t = "main" THEN "join" ELSE "idle"] /\ writer' = writer
  BY DEF Log!Refused, Log!Answered, Log!TimedOut, Log!Return, Log!Goto
<1>2. \A u \in Log!Callers :
        thread'[u] = (IF u # t THEN thread[u] ELSE IF t = "main" THEN "join" ELSE "idle")
  BY <1>0, <1>1 DEF LogTyped
<1>3. ASSUME UNCHANGED <<control, command>>, NEW a \in {"none", "refused"},
             reply' = [reply EXCEPT ![t] = a],
             t = "main" => a = "refused" \/ writer \in {"ending", "gone"}
      PROVE  HeardInv'
  <2>1. \A u \in Log!Callers : reply'[u] = (IF u = t THEN a ELSE reply[u])
    BY <1>0, <1>3 DEF LogTyped
  <2>2. (\A u : Pending(u)' <=> Pending(u)) /\ (ShutdownPending' <=> ShutdownPending)
    BY <1>3 DEF Pending, ShutdownPending
  <2>3. \A u \in Log!Callers : thread'[u] = "wait" /\ reply'[u] = "none" => Pending(u)'
    BY <1>2, <2>1, <2>2 DEF HeardInv
  <2>4. thread'["main"] = "wait" /\ reply'["main"] # "none" => writer' \in {"ending", "gone"}
    BY <1>0, <1>1, <1>2, <2>1 DEF HeardInv
  <2>5. thread'["main"] = "join" /\ reply'["main"] # "refused" =>
          writer' \in {"ending", "gone"} \/ ShutdownPending'
    BY <1>0, <1>1, <1>2, <1>3, <2>1, <2>2 DEF HeardInv
  <2> QED BY <1>1, <1>3, <2>3, <2>4, <2>5 DEF HeardInv
<1>4. CASE Log!Refused(t)
  <2>1. CASE t = "main"
    BY <1>3, <1>4, <2>1 DEF Log!Refused
  <2>2. CASE t # "main"
    BY <1>3, <1>4, <2>2 DEF Log!Refused
  <2> QED BY <2>1, <2>2
<1>5. CASE Log!Answered(t)
  <2>1. t = "main" => writer \in {"ending", "gone"}
    BY <1>5 DEF Log!Answered, HeardInv
  <2> QED BY <1>3, <1>5, <2>1 DEF Log!Answered
<1>6. CASE Log!TimedOut(t)
  <2>1. /\ thread[t] = "wait" /\ reply[t] = "none" /\ reply' = reply
        /\ control' = [i \in DOMAIN control |-> IF control[i].to = t THEN [control[i] EXCEPT !.to = "nobody"] ELSE control[i]]
        /\ command' = IF command.to = t THEN [command EXCEPT !.to = "nobody"] ELSE command
    BY <1>6 DEF Log!TimedOut
  <2>2. ASSUME NEW e \in LogCommand, NEW d, d = (IF e.to = t THEN [e EXCEPT !.to = "nobody"] ELSE e)
        PROVE  d.kind = e.kind /\ d.to = (IF e.to = t THEN "nobody" ELSE e.to)
    BY <2>2 DEF LogCommand
  <2>3. command \in LogCommand /\ \A i \in DOMAIN control : control[i] \in LogCommand
    BY <1>0 DEF LogTyped
  <2>4. \A i \in DOMAIN control : control'[i] = (IF control[i].to = t THEN [control[i] EXCEPT !.to = "nobody"] ELSE control[i])
    BY <2>1
  <2>5. DOMAIN control' = DOMAIN control
    BY <2>1
  <2>6. \A i \in DOMAIN control : /\ control'[i].kind = control[i].kind
                                  /\ control'[i].to = (IF control[i].to = t THEN "nobody" ELSE control[i].to)
    BY <2>2, <2>3, <2>4
  <2>7. /\ command'.kind = command.kind
        /\ command'.to = (IF command.to = t THEN "nobody" ELSE command.to)
    BY <2>1, <2>2, <2>3
  <2>8. \A u \in Log!Callers : u # t /\ Pending(u) => Pending(u)'
    BY <2>5, <2>6, <2>7 DEF Pending
  <2>9. ShutdownPending' <=> ShutdownPending
    BY <2>5, <2>6, <2>7 DEF ShutdownPending
  <2>10. t = "main" => ShutdownPending
    BY <1>0, <2>1 DEF HeardInv, Pending, ShutdownPending
  <2>11. writer = "gone" => control' = <<>>
    BY <2>1 DEF HeardInv
  <2>12. /\ command'.to = "main" => command'.kind = "shutdown"
         /\ \A i \in DOMAIN control' : control'[i].to = "main" => control'[i].kind = "shutdown"
    BY <1>0, <2>5, <2>6, <2>7 DEF HeardInv
  <2>13. \A u \in Log!Callers : thread'[u] = "wait" /\ reply'[u] = "none" => Pending(u)'
    BY <1>2, <2>1, <2>8 DEF HeardInv
  <2>14. thread'["main"] = "wait" /\ reply'["main"] # "none" => writer' \in {"ending", "gone"}
    BY <1>0, <1>1, <1>2, <2>1 DEF HeardInv
  <2>15. thread'["main"] = "join" /\ reply'["main"] # "refused" =>
           writer' \in {"ending", "gone"} \/ ShutdownPending'
    BY <1>0, <1>1, <1>2, <2>1, <2>9, <2>10 DEF HeardInv
  <2> QED BY <1>1, <2>11, <2>12, <2>13, <2>14, <2>15 DEF HeardInv
<1> QED BY <1>4, <1>5, <1>6

\* The writer takes a command.
LEMMA HeardTakes ==
  ASSUME HeardInv, LogInv, Log!PollControl
  PROVE  HeardInv'
<1>1. UNCHANGED <<thread, reply>> /\ writer = "control"
  BY DEF Log!PollControl, Log!producers
<1>2. CASE control = <<>>
  <2>1. writer' = "priority" /\ UNCHANGED <<control, command>>
    BY <1>2 DEF Log!PollControl
  <2> QED BY <1>1, <2>1, HeardStays
<1>3. CASE control # <<>>
  <2>1. command' = Head(control) /\ control' = Tail(control) /\ writer' = "drain-priority"
    BY <1>3 DEF Log!PollControl
  <2>2. LogTyped /\ CallersServed
    BY DEF LogInv
  <2>3. /\ Head(control) = control[1] /\ 1 \in DOMAIN control
        /\ \A k \in DOMAIN Tail(control) : k + 1 \in DOMAIN control /\ Tail(control)[k] = control[k + 1]
        /\ \A k \in DOMAIN control : k = 1 \/ (k - 1 \in DOMAIN Tail(control) /\ Tail(control)[k - 1] = control[k])
    BY <1>3, <2>2, TailParts DEF LogTyped
  <2>4. command.to = "nobody" /\ command.kind = "flush"
    BY <1>1, <2>2 DEF CallersServed, AtRest, Log!NoCommand
  <2>5. \A u \in Log!Callers : Pending(u) => Pending(u)'
    BY <2>1, <2>3, <2>4, LogFacts DEF Pending
  <2>6. ShutdownPending => ShutdownPending'
    BY <2>1, <2>3, <2>4 DEF ShutdownPending
  <2>7. /\ command'.to = "main" => command'.kind = "shutdown"
        /\ \A i \in DOMAIN control' : control'[i].to = "main" => control'[i].kind = "shutdown"
    BY <2>1, <2>3 DEF HeardInv
  <2> QED BY <1>1, <2>1, <2>5, <2>6, <2>7 DEF HeardInv
<1> QED BY <1>2, <1>3

\* The writer answers, and ends.
LEMMA HeardAnswers ==
  ASSUME HeardInv, LogInv, Log!FinishFlush \/ Log!FinishShutdown
  PROVE  HeardInv'
<1>1. /\ UNCHANGED <<thread, control>> /\ command' = Log!NoCommand /\ writer = "finish"
      /\ command'.to = "nobody" /\ command'.kind = "flush"
  BY DEF Log!FinishFlush, Log!FinishShutdown, Log!producers, Log!NoCommand
<1>2. "main" \in Log!Callers /\ "nobody" \notin Log!Callers /\ CallersServed
  BY LogFacts DEF LogInv
<1>3. PICK said \in {"ok", "failed"} :
        \A u \in Log!Callers : reply'[u] = (IF command.to = u THEN said ELSE reply[u])
  BY DEF Log!FinishFlush, Log!FinishShutdown, Log!Tell
<1>4. \A u \in Log!Callers : command.to # u /\ Pending(u) => Pending(u)'
  BY <1>1 DEF Pending
<1>5. \A u \in Log!Callers : thread'[u] = "wait" /\ reply'[u] = "none" => Pending(u)'
  BY <1>1, <1>3, <1>4 DEF HeardInv
<1>6. CASE Log!FinishFlush
  <2>1. command.kind = "flush" /\ writer' = "control"
    BY <1>6 DEF Log!FinishFlush
  <2>2. command.to # "main"
    BY <2>1 DEF HeardInv
  <2>3. ShutdownPending => ShutdownPending'
    BY <1>1, <2>1 DEF ShutdownPending
  <2> QED BY <1>1, <1>2, <1>3, <1>5, <2>1, <2>2, <2>3 DEF HeardInv
<1>7. CASE Log!FinishShutdown
  <2>1. writer' = "ending"
    BY <1>7 DEF Log!FinishShutdown
  <2> QED BY <1>1, <1>2, <1>5, <2>1 DEF HeardInv
<1> QED BY <1>6, <1>7

LEMMA HeardEnds ==
  ASSUME HeardInv, LogInv, Log!EndWriter
  PROVE  HeardInv'
<1>1. /\ UNCHANGED <<thread, command>> /\ writer = "ending" /\ writer' = "gone" /\ control' = <<>>
      /\ reply' = [t \in Log!Callers |-> IF \E i \in DOMAIN control : control[i].to = t THEN "closed" ELSE reply[t]]
  BY DEF Log!EndWriter, Log!producers
<1>2. command.to = "nobody" /\ "nobody" \notin Log!Callers /\ "main" \in Log!Callers
  BY <1>1, LogFacts DEF LogInv, CallersServed, AtRest, Log!NoCommand
<1>3. ASSUME NEW u \in Log!Callers, thread'[u] = "wait", reply'[u] = "none" PROVE FALSE
  <2>1. reply[u] = "none" /\ ~\E i \in DOMAIN control : control[i].to = u
    BY <1>1, <1>3
  <2> QED BY <1>1, <1>2, <1>3, <2>1 DEF HeardInv, Pending
<1>4. DOMAIN control' = {}
  BY <1>1
<1> QED BY <1>1, <1>2, <1>3, <1>4 DEF HeardInv

LEMMA HeardKeeps == HeardInv /\ LogInv /\ [Log!Next]_(Log!vars) => HeardInv'
<1> SUFFICES ASSUME HeardInv, LogInv, [Log!Next]_(Log!vars) PROVE HeardInv'
  OBVIOUS
<1>0. thread \in [Log!Callers -> CallerPlaces]
  BY DEF LogInv, LogTyped
<1>1. CASE UNCHANGED Log!vars
  BY <1>1, HeardStays DEF Log!vars, Log!producers
<1>2. CASE Log!PollPriority \/ Log!PollRegular \/ Log!PollTicker \/ Log!DrainPriority
           \/ Log!DrainRegular \/ Log!Report
  <2>1. UNCHANGED <<thread, control, command, reply>> /\ writer \notin {"ending", "gone"}
        /\ writer' # "gone"
    BY <1>2 DEF Log!PollPriority, Log!PollRegular, Log!PollTicker, Log!DrainPriority,
                Log!DrainRegular, Log!Drain, Log!Report, Log!WriterUnchanged, Log!producers
  <2> QED BY <2>1, HeardStays
<1>3. ASSUME NEW t \in Threads,
             Log!BeginRecord(t) \/ Log!TrySend(t) \/ Log!CountDrop(t) \/ Log!CallFlush(t)
      PROVE  HeardInv'
  <2>1. /\ UNCHANGED <<control, command, reply, writer>>
        /\ \E p \in {"send", "idle", "count", "command"} : thread' = [thread EXCEPT ![t] = p]
    BY <1>3 DEF Log!BeginRecord, Log!TrySend, Log!CountDrop, Log!CallFlush, Log!Goto
  <2>2. \A u \in Log!Callers : thread'[u] \in {"wait", "join"} => thread'[u] = thread[u]
    BY <1>0, <2>1
  <2> QED BY <2>1, <2>2, HeardStays
<1>4. CASE Log!BeginShutdown \/ Log!Join
  <2>1. /\ UNCHANGED <<control, command, reply, writer>>
        /\ \E p \in {"command", "stopped"} : thread' = [thread EXCEPT !["main"] = p]
    BY <1>4 DEF Log!BeginShutdown, Log!Join, Log!Goto
  <2>2. \A u \in Log!Callers : thread'[u] \in {"wait", "join"} => thread'[u] = thread[u]
    BY <1>0, <2>1
  <2> QED BY <2>1, <2>2, HeardStays
<1>5. ASSUME NEW t \in Log!Callers,
             Log!SendCommand(t) \/ Log!Refused(t) \/ Log!Answered(t) \/ Log!TimedOut(t)
      PROVE  HeardInv'
  BY <1>5, HeardSends, HeardReturns
<1>6. CASE Log!PollControl \/ Log!FinishFlush \/ Log!FinishShutdown \/ Log!EndWriter
  BY <1>6, HeardTakes, HeardAnswers, HeardEnds
<1> QED BY <1>1, <1>2, <1>3, <1>4, <1>5, <1>6 DEF Log!Next, Log!WriterStep

LEMMA HeardSuffices == HeardInv /\ LogInv => Log!EveryWaitIsHeard
<1> SUFFICES ASSUME HeardInv, LogInv PROVE Log!EveryWaitIsHeard
  OBVIOUS
<1>1. writer = "gone" => control = <<>> /\ command.to = "nobody"
  BY DEF HeardInv, LogInv, CallersServed, AtRest, Log!NoCommand
<1>2. "nobody" \notin Log!Callers
  BY LogFacts
<1> QED BY <1>1, <1>2 DEF HeardInv, Pending, ShutdownPending, Log!EveryWaitIsHeard

\* A step of the services is one of the log, if it is about the log.
LEMMA LogStep ==
  ASSUME [ServicesNext]_everything
  PROVE  which' = which /\ (which = "log" => [Log!Next]_(Log!vars))
  BY DEF ServicesNext, everything, logVars, Log!vars, Log!producers, Log!log, Log!counts

\* A successful flush or shutdown has every record of before in the file, every
\* dropped record is told or counted, the lines are numbered without gaps and none
\* is written twice, and no caller waits for a writer that will not come to it
\* (writer_loop, enqueue, write_record, shutdown).
THEOREM LogIsTrue == ServicesSpec => []LogKeepsItsWord
<1> DEFINE Kept == which = "log" => LogInv /\ HeardInv
<1>1. ServicesInit => Kept
  BY LogStart, HeardStart DEF ServicesInit
<1>2. Kept /\ [ServicesNext]_everything => Kept'
  BY LogStep, LogNextKeeps, HeardKeeps
<1>3. Kept => LogKeepsItsWord
  BY LogInvKeepsItsWord, HeardSuffices DEF LogKeepsItsWord
<1> QED
  BY <1>1, <1>2, <1>3, PTL DEF ServicesSpec, everything

-----------------------------------------------------------------------------
(* The commands on one process.  The handle of a command keeps the process   *)
(* and with it the PID; what is read of it in between stays true.            *)

Stages == {"idle", "page", "confirm", "open", "set", "machine", "event", "create", "path",
           "explore", "done"}
HeldStages == {"set", "machine", "event", "create", "path"}

CallFields == {"at", "command", "pid", "birth", "handle", "view", "debugger", "event", "line",
               "path", "ok", "done"}

CommandsTyped ==
    /\ born \in Nat /\ born # 0 /\ DOMAIN processes \subseteq Pids
    /\ \A p \in DOMAIN processes : processes[p].birth \in 1..born
    /\ installed \subseteq Programs
    /\ aeDebug \in [Commands!Views -> {Commands!Absent, [exe |-> "relative", template |-> << >>]}
                                        \union [exe : Programs, template : Templates]]
    /\ DOMAIN call = CallFields /\ call.at \in Stages /\ call.birth \in 0..born
    /\ call.handle \in BOOLEAN

\* The handle, and what a command that goes on is about.
CallHeld ==
    /\ call.handle <=> call.at \in HeldStages
    /\ call.handle => Commands!Names(call.pid)
    /\ call.at \in {"idle", "page"} => call.command = "none"
    /\ call.at = "set" => call.command = "priority"
    /\ call.at \in {"machine", "event", "create"} => call.command = "debug"
    /\ call.at \in {"path", "explore"} => call.command = "locate"
    /\ call.at \in {"confirm", "open"} => call.command \in {"priority", "debug", "locate"}
    /\ call.at = "explore" => call.path = call.birth
    /\ call.at # "done" => ~call.ok /\ call.done = {}

\* The debugger that was loaded, and its line.
DebuggerFits ==
    /\ call.at \in {"event", "create"} \/ (call.at = "done" /\ call.command = "debug" /\ call.ok) =>
         (Commands!Names(call.pid) => call.view = Commands!ViewFor(processes[call.pid].bits))
    /\ call.at = "event" =>
         call.debugger.template \in Templates /\ Commands!ValidTemplate(call.debugger.template)
         /\ call.pid \in Pids
    /\ call.at = "create" \/ (call.at = "done" /\ call.command = "debug" /\ call.ok) =>
         Commands!LineNames(call.line, call.pid)

CommandsInv == CommandsTyped /\ CallHeld /\ DebuggerFits /\ Commands!DoneToTheChosen

\* A valid template takes the PID first, then the event.
LEMMA TwoPlaceholders ==
  ASSUME NEW template \in Templates, Commands!ValidTemplate(template), NEW pid \in Pids
  PROVE  Commands!LineNames(Commands!Formatted(template, <<pid, "event">>), pid)
<1> DEFINE P == Commands!Placeholders(template)
           Upto(i) == {j \in P : j <= i}
           line == Commands!Formatted(template, <<pid, "event">>)
<1>0. \A s : Commands!Cardinality(s) = Cardinality(s)
  BY DEF Commands!Cardinality, Cardinality
<1>1. DOMAIN template = 1..Len(template) /\ Len(template) \in Nat
  BY CommandsAssumption
<1>2. P \subseteq 1..Len(template) /\ IsFiniteSet(P) /\ Cardinality(P) = 2
  <2>1. P \subseteq 1..Len(template)
    BY <1>1 DEF Commands!Placeholders
  <2>2. IsFiniteSet(P)
    <3> HIDE DEF P
    <3>1. IsFiniteSet(1..Len(template))
      BY <1>1, FS_Interval
    <3> QED BY <2>1, <3>1, FS_Subset
  <2> QED BY <1>0, <2>1, <2>2 DEF Commands!ValidTemplate
<1>3. \E i, j \in P : i < j /\ P = {i, j}
  <2> HIDE DEF P
  <2>1. P # {}
    BY <1>2, FS_EmptySet
  <2>2. PICK x \in P : TRUE
    BY <2>1
  <2>3. IsFiniteSet(P \ {x}) /\ Cardinality(P \ {x}) = 1
    <3>1. IsFiniteSet(P \ {x}) /\ Cardinality(P \ {x}) = Cardinality(P) - 1
      BY <1>2, <2>2, FS_RemoveElement
    <3> QED BY <1>2, <3>1
  <2>4. PICK y : P \ {x} = {y}
    BY <2>3, FS_Singleton
  <2>5. P = {x, y} /\ x # y
    BY <2>2, <2>4
  <2>6. x \in Nat /\ y \in Nat
    BY <1>1, <1>2, <2>5
  <2>7. x < y \/ y < x
    BY <2>5, <2>6
  <2>8. x \in P /\ y \in P /\ {x, y} = {y, x}
    BY <2>5
  <2> QED BY <2>5, <2>7, <2>8
<1>4. PICK i \in P, j \in P : i < j /\ P = {i, j}
  BY <1>3
<1>5. i \in Nat /\ j \in Nat /\ Upto(i) = {i} /\ Upto(j) = {i, j}
  <2> HIDE DEF P
  <2> QED BY <1>1, <1>2, <1>4
<1>6. Cardinality(Upto(i)) = 1 /\ Cardinality(Upto(j)) = 2
  <2>1. Cardinality({i}) = 1
    BY FS_Singleton
  <2> QED BY <1>2, <1>4, <1>5, <2>1
<1>7. DOMAIN line = DOMAIN template
      /\ \A k \in DOMAIN template :
           line[k] = IF k \in P THEN <<pid, "event">>[Cardinality(Upto(k))] ELSE template[k]
  BY <1>0 DEF Commands!Formatted
<1>8. i \in DOMAIN line /\ j \in DOMAIN line /\ line[i] = pid /\ line[j] = "event"
  <2> HIDE DEF P, Upto, line
  <2> QED BY <1>1, <1>2, <1>4, <1>6, <1>7
<1>9. \A k \in DOMAIN line \ {i, j} : line[k] \notin Pids \union {"event"}
  <2> HIDE DEF P, Upto, line
  <2> QED BY <1>4, <1>7, CommandsAssumption
<1> QED BY <1>4, <1>8, <1>9 DEF Commands!LineNames

\* The commands start with the invariant.
LEMMA CommandsStart == Commands!Init => CommandsInv
<1> SUFFICES ASSUME Commands!Init PROVE CommandsInv
  OBVIOUS
<1>1. call = Commands!NoCall
  BY DEF Commands!Init
<1>2. CommandsTyped
  <2>1. PICK p \in Pids, b \in Commands!BitsOf(native) : processes = [q \in {p} |-> Commands!Process(1, b)]
    BY DEF Commands!Init
  <2>2. born = 1 /\ DOMAIN processes = {p} /\ processes[p].birth = 1
    BY <2>1 DEF Commands!Init, Commands!Process
  <2>3. DOMAIN call = CallFields /\ call.at \in Stages /\ call.birth \in 0..born /\ call.handle \in BOOLEAN
    BY <1>1, <2>2 DEF Commands!NoCall, Stages, CallFields
  <2>4. installed \subseteq Programs
        /\ aeDebug \in [Commands!Views -> {Commands!Absent, [exe |-> "relative", template |-> << >>]}
                                        \union [exe : Programs, template : Templates]]
    BY DEF Commands!Init
  <2> QED BY <2>2, <2>3, <2>4 DEF CommandsTyped
<1>3. CallHeld /\ DebuggerFits /\ Commands!DoneToTheChosen
  BY <1>1 DEF CallHeld, DebuggerFits, Commands!DoneToTheChosen, Commands!NoCall, HeldStages
<1> QED BY <1>2, <1>3 DEF CommandsInv

\* What the world does to a command: the process it holds stays, and no process
\* takes over a birth.
LEMMA WorldKeeps ==
  ASSUME CommandsInv, call' = call, UNCHANGED <<native, aeDebug>>,
         born' \in Nat, born' >= born, installed' \subseteq installed, DOMAIN processes' \subseteq Pids,
         \A p \in DOMAIN processes' :
           \/ p \in DOMAIN processes /\ processes'[p].birth = processes[p].birth
              /\ processes'[p].bits = processes[p].bits
           \/ processes'[p].birth \in (born + 1)..born',
         call.handle => call.pid \in DOMAIN processes' /\ processes'[call.pid].birth = processes[call.pid].birth
  PROVE  CommandsInv'
<1>1. CommandsTyped'
  BY DEF CommandsInv, CommandsTyped
<1>2. call.birth \in 0..born /\ born \in Nat
  BY DEF CommandsInv, CommandsTyped
<1>3. Commands!Names(call.pid)' => /\ Commands!Names(call.pid)
                                   /\ processes'[call.pid].bits = processes[call.pid].bits
  BY <1>2 DEF Commands!Names
<1>4. call.handle /\ Commands!Names(call.pid) => Commands!Names(call.pid)'
  BY DEF Commands!Names
<1>5. CallHeld'
  BY <1>4 DEF CommandsInv, CallHeld
<1>6. DebuggerFits'
  BY <1>3 DEF CommandsInv, DebuggerFits, Commands!ViewFor, Commands!LineNames
<1> QED BY <1>1, <1>5, <1>6 DEF CommandsInv, Commands!DoneToTheChosen

\* A process ends, and with it its PID unless a handle keeps it.
LEMMA EndsKeeps ==
  ASSUME CommandsInv, NEW p \in Pids, Commands!Ends(p) PROVE CommandsInv'
<1>1. /\ p \in DOMAIN processes /\ UNCHANGED <<native, born, aeDebug, installed, call>>
      /\ processes' = IF call.handle /\ call.pid = p THEN [processes EXCEPT ![p].running = FALSE]
                      ELSE [q \in DOMAIN processes \ {p} |-> processes[q]]
  BY DEF Commands!Ends
<1>2. \A q \in DOMAIN processes' : /\ q \in DOMAIN processes /\ processes'[q].birth = processes[q].birth
                                   /\ processes'[q].bits = processes[q].bits
  <2>1. CASE call.handle /\ call.pid = p
    <3>1. processes' = [processes EXCEPT ![p].running = FALSE]
      BY <1>1, <2>1
    <3>2. \A q \in DOMAIN processes : processes'[q] = IF q = p THEN [processes[p] EXCEPT !.running = FALSE] ELSE processes[q]
      BY <3>1
    <3> QED BY <3>1, <3>2
  <2>2. CASE ~(call.handle /\ call.pid = p)
    BY <1>1, <2>2
  <2> QED BY <2>1, <2>2
<1>3. call.handle => call.pid \in DOMAIN processes'
  BY <1>1 DEF CommandsInv, CallHeld, Commands!Names
<1>4. born \in Nat /\ DOMAIN processes \subseteq Pids
  BY DEF CommandsInv, CommandsTyped
<1> QED BY <1>1, <1>2, <1>3, <1>4, WorldKeeps

\* A PID without a handle becomes free.
LEMMA ForgetKeeps ==
  ASSUME CommandsInv, NEW p \in Pids, Commands!Forget(p) PROVE CommandsInv'
<1>1. /\ p \in DOMAIN processes /\ UNCHANGED <<native, born, aeDebug, installed, call>>
      /\ ~(call.handle /\ call.pid = p)
      /\ processes' = [q \in DOMAIN processes \ {p} |-> processes[q]]
  BY DEF Commands!Forget
<1>2. \A q \in DOMAIN processes' : q \in DOMAIN processes /\ processes'[q] = processes[q]
  BY <1>1
<1>3. call.handle => call.pid \in DOMAIN processes'
  BY <1>1 DEF CommandsInv, CallHeld, Commands!Names
<1>4. born \in Nat /\ DOMAIN processes \subseteq Pids
  BY DEF CommandsInv, CommandsTyped
<1> QED BY <1>1, <1>2, <1>3, <1>4, WorldKeeps

\* A new process takes a free PID.
LEMMA StartsKeeps ==
  ASSUME CommandsInv, NEW p \in Pids, NEW bits, Commands!Starts(p, bits) PROVE CommandsInv'
<1>1. /\ p \notin DOMAIN processes /\ UNCHANGED <<native, aeDebug, installed, call>> /\ born' = born + 1
      /\ processes' = [q \in DOMAIN processes \union {p} |->
                         IF q = p THEN Commands!Process(born + 1, bits) ELSE processes[q]]
  BY DEF Commands!Starts
<1>2. born \in Nat /\ DOMAIN processes \subseteq Pids
  BY DEF CommandsInv, CommandsTyped
<1>3. \A q \in DOMAIN processes' : (q \in DOMAIN processes /\ processes'[q] = processes[q])
                                  \/ processes'[q].birth \in (born + 1)..born'
  <2>1. Commands!Process(born + 1, bits).birth = born + 1
    BY DEF Commands!Process
  <2>2. born + 1 \in (born + 1)..born'
    BY <1>1, <1>2
  <2>3. ASSUME NEW q \in DOMAIN processes' PROVE processes'[q] = IF q = p THEN Commands!Process(born + 1, bits) ELSE processes[q]
    BY <1>1
  <2>4. DOMAIN processes' = DOMAIN processes \union {p}
    BY <1>1
  <2> QED BY <2>1, <2>2, <2>3, <2>4
<1>4. call.handle => call.pid \in DOMAIN processes' /\ processes'[call.pid] = processes[call.pid]
  BY <1>1 DEF CommandsInv, CallHeld, Commands!Names
<1> QED BY <1>1, <1>2, <1>3, <1>4, WorldKeeps

\* A program is uninstalled.
LEMMA UninstalledKeeps ==
  ASSUME CommandsInv, NEW p, Commands!Uninstalled(p) PROVE CommandsInv'
<1>1. UNCHANGED <<native, aeDebug, call, processes, born>> /\ installed' \subseteq installed
  BY DEF Commands!Uninstalled
<1>2. born \in Nat /\ DOMAIN processes \subseteq Pids
  BY DEF CommandsInv, CommandsTyped
<1>3. call.handle => call.pid \in DOMAIN processes
  BY DEF CommandsInv, CallHeld, Commands!Names
<1> QED BY <1>1, <1>2, <1>3, WorldKeeps

\* A step of the command itself: what of the invariant is left to show.
LEMMA CallKeeps ==
  ASSUME CommandsInv, UNCHANGED <<native, born, aeDebug, installed>>,
         DOMAIN processes' = DOMAIN processes,
         \A p \in DOMAIN processes : /\ processes'[p].birth = processes[p].birth
                                    /\ processes'[p].bits = processes[p].bits,
         DOMAIN call' = CallFields /\ call'.at \in Stages /\ call'.birth \in 0..born /\ call'.handle \in BOOLEAN,
         CallHeld', DebuggerFits', Commands!DoneToTheChosen'
  PROVE  CommandsInv'
<1>1. CommandsTyped'
  BY DEF CommandsInv, CommandsTyped
<1> QED BY <1>1 DEF CommandsInv

\* A command that fails has done nothing more.
LEMMA FailedKeeps ==
  ASSUME CommandsInv, UNCHANGED <<native, born, aeDebug, installed, processes>>,
         call.at # "done", Commands!Failed
  PROVE  CommandsInv'
<1> USE DEF Commands!Failed
<1>1. DOMAIN call' = CallFields /\ call'.at \in Stages /\ call'.birth \in 0..born /\ call'.handle \in BOOLEAN
      /\ call'.at = "done" /\ ~call'.handle /\ ~call'.ok /\ call'.done = {}
  BY DEF CommandsInv, CommandsTyped, CallHeld, Stages, CallFields
<1>2. CallHeld' /\ DebuggerFits' /\ Commands!DoneToTheChosen'
  BY <1>1 DEF CallHeld, DebuggerFits, Commands!DoneToTheChosen, HeldStages
<1> QED BY <1>1, <1>2, CallKeeps
\* What the steps know of the call before.
LEMMA CallFacts ==
  ASSUME CommandsInv
  PROVE  /\ DOMAIN call = CallFields /\ call.at \in Stages /\ call.birth \in 0..born
         /\ call.handle \in BOOLEAN /\ born \in Nat
         /\ CallHeld /\ DebuggerFits /\ Commands!DoneToTheChosen
  BY DEF CommandsInv, CommandsTyped

\* A command begins at a row, and may ask.
LEMMA BeginsKeep ==
  ASSUME CommandsInv,
         Commands!Initialize \/ Commands!Confirm \/ \E c \in {"priority", "debug", "locate"} : Commands!Choose(c)
  PROVE  CommandsInv'
<1>1. UNCHANGED <<native, born, aeDebug, installed, processes>>
  BY DEF Commands!Initialize, Commands!Confirm, Commands!Choose, Commands!world
<1>2. CASE \/ call.at = "idle" /\ call' = [call EXCEPT !.at = "page"]
           \/ call.at = "confirm" /\ call' = [call EXCEPT !.at = "open"]
  <2>1. /\ DOMAIN call' = CallFields /\ call'.at \in Stages /\ call'.birth \in 0..born /\ call'.handle \in BOOLEAN
        /\ call'.handle = call.handle /\ call'.pid = call.pid /\ call'.command = call.command /\ call'.path = call.path
        /\ call'.ok = call.ok /\ call'.done = call.done /\ call'.birth = call.birth
        /\ \/ call.at = "idle" /\ call'.at = "page"
           \/ call.at = "confirm" /\ call'.at = "open"
    BY <1>2, CallFacts DEF CallFields, Stages
  <2>2. CallHeld' /\ DebuggerFits' /\ Commands!DoneToTheChosen'
    BY <2>1, CallFacts DEF CallHeld, DebuggerFits, Commands!DoneToTheChosen, HeldStages
  <2> QED BY <1>1, <2>1, <2>2, CallKeeps
<1>3. CASE call.at = "confirm" /\ Commands!Failed
  BY <1>1, <1>3, FailedKeeps
<1>4. ASSUME NEW c \in {"priority", "debug", "locate"}, Commands!Choose(c)
      PROVE  CommandsInv'
  <2>1. PICK p \in DOMAIN processes :
          call' = [call EXCEPT !.at = IF c = "locate" THEN "open" ELSE "confirm",
                               !.command = c, !.pid = p, !.birth = processes[p].birth]
    BY <1>4 DEF Commands!Choose
  <2>2. processes[p].birth \in 0..born
    BY DEF CommandsInv, CommandsTyped
  <2>3. /\ DOMAIN call' = CallFields /\ call'.at \in {"open", "confirm"} /\ call'.birth \in 0..born
        /\ call'.handle = call.handle /\ call'.ok = call.ok /\ call'.done = call.done /\ call'.command = c
    BY <2>1, <2>2, CallFacts DEF CallFields
  <2>4. call.at = "page"
    BY <1>4 DEF Commands!Choose
  <2>5. CallHeld' /\ DebuggerFits' /\ Commands!DoneToTheChosen'
    BY <2>3, <2>4, CallFacts DEF CallHeld, DebuggerFits, Commands!DoneToTheChosen, HeldStages
  <2> QED BY <1>1, <2>3, <2>4, <2>5, CallFacts, CallKeeps DEF Stages
<1> QED BY <1>2, <1>3, <1>4 DEF Commands!Initialize, Commands!Confirm

\* The process is opened, and its birth compared.
LEMMA OpenKeeps ==
  ASSUME CommandsInv, Commands!Open PROVE CommandsInv'
<1>1. UNCHANGED <<native, born, aeDebug, installed, processes>> /\ call.at = "open"
  BY DEF Commands!Open, Commands!world
<1>2. CASE Commands!Failed
  BY <1>1, <1>2, FailedKeeps
<1>3. CASE /\ Commands!Names(call.pid)
           /\ call' = [call EXCEPT !.handle = TRUE,
                        !.at = CASE call.command = "priority" -> "set"
                                 [] call.command = "debug" -> "machine"
                                 [] call.command = "locate" -> "path"]
  <2>1. call.command \in {"priority", "debug", "locate"}
    BY <1>1, CallFacts DEF CallHeld
  <2>2. /\ DOMAIN call' = CallFields /\ call'.birth = call.birth /\ call'.handle = TRUE /\ call'.pid = call.pid
        /\ call'.command = call.command /\ call'.ok = call.ok /\ call'.done = call.done
        /\ \/ call.command = "priority" /\ call'.at = "set"
           \/ call.command = "debug" /\ call'.at = "machine"
           \/ call.command = "locate" /\ call'.at = "path"
    BY <1>3, <2>1, CallFacts DEF CallFields
  <2>3. CallHeld' /\ DebuggerFits' /\ Commands!DoneToTheChosen'
    BY <1>1, <1>3, <2>2, CallFacts DEF CallHeld, DebuggerFits, Commands!DoneToTheChosen, HeldStages, Commands!Names
  <2> QED BY <1>1, <2>2, <2>3, CallFacts, CallKeeps DEF Stages
<1> QED BY <1>2, <1>3 DEF Commands!Open

\* The priority is set through the handle.
LEMMA SetPriorityKeeps ==
  ASSUME CommandsInv, Commands!SetPriority PROVE CommandsInv'
<1>1. UNCHANGED <<native, born, aeDebug, installed>> /\ call.at = "set"
  BY DEF Commands!SetPriority
<1>2. CASE Commands!Failed /\ UNCHANGED processes
  BY <1>1, <1>2, FailedKeeps
<1>3. CASE /\ processes' = [processes EXCEPT ![call.pid].priority = "chosen"]
           /\ call' = [call EXCEPT !.at = "done", !.handle = FALSE, !.ok = TRUE,
                                  !.done = {[on |-> processes[call.pid].birth]}]
  <2>1. call.pid \in DOMAIN processes /\ processes[call.pid].birth = call.birth /\ call.command = "priority"
    BY <1>1, CallFacts DEF CallHeld, Commands!Names, HeldStages
  <2>2. /\ DOMAIN call' = CallFields /\ call'.at = "done" /\ call'.birth = call.birth /\ call'.handle = FALSE
        /\ call'.command = call.command /\ call'.done = {[on |-> call.birth]}
    BY <1>3, <2>1, CallFacts DEF CallFields
  <2>3. CallHeld' /\ DebuggerFits' /\ Commands!DoneToTheChosen'
    BY <2>1, <2>2, CallFacts DEF CallHeld, DebuggerFits, Commands!DoneToTheChosen, HeldStages
  <2>4. \A p \in DOMAIN processes : processes'[p] = IF p = call.pid THEN [processes[p] EXCEPT !.priority = "chosen"] ELSE processes[p]
    BY <1>3
  <2>5. /\ DOMAIN processes' = DOMAIN processes
        /\ \A p \in DOMAIN processes : processes'[p].birth = processes[p].birth /\ processes'[p].bits = processes[p].bits
    BY <1>3, <2>4
  <2> QED BY <1>1, <2>2, <2>3, <2>5, CallFacts, CallKeeps DEF Stages
<1> QED BY <1>2, <1>3 DEF Commands!SetPriority

\* The debugger of the view is loaded and its template validated.
LEMMA LoadDebuggerKeeps ==
  ASSUME CommandsInv, Commands!LoadDebugger PROVE CommandsInv'
<1>1. UNCHANGED <<native, born, aeDebug, installed, processes>> /\ call.at = "machine"
  BY DEF Commands!LoadDebugger, Commands!world
<1>2. CASE Commands!Failed
  BY <1>1, <1>2, FailedKeeps
<1> DEFINE view == Commands!ViewFor(processes[call.pid].bits)
<1>3. CASE /\ Commands!Loaded(view).exe \in installed
           /\ call' = [call EXCEPT !.at = "event", !.view = view, !.debugger = Commands!Loaded(view)]
  <2>1. call.pid \in DOMAIN processes /\ processes[call.pid].birth = call.birth /\ call.command = "debug"
        /\ call.handle /\ call.pid \in Pids
    BY <1>1, CallFacts DEF CallHeld, Commands!Names, HeldStages, CommandsInv, CommandsTyped
  <2>2. view \in Commands!Views
    BY DEF Commands!ViewFor, Commands!Views
  <2> HIDE DEF view
  <2>3. /\ DOMAIN call' = CallFields /\ call'.at = "event" /\ call'.birth = call.birth /\ call'.handle = call.handle
        /\ call'.command = call.command /\ call'.pid = call.pid /\ call'.done = call.done /\ call'.ok = call.ok
        /\ call'.view = view /\ call'.debugger = Commands!Loaded(view)
    BY <1>3, CallFacts DEF CallFields
  <2>4. Commands!Loaded(view).template \in Templates /\ Commands!ValidTemplate(Commands!Loaded(view).template)
    <3>1. aeDebug[view] \in {Commands!Absent, [exe |-> "relative", template |-> << >>]}
                              \union [exe : Programs, template : Templates]
      BY <2>2 DEF CommandsInv, CommandsTyped
    <3>2. Commands!Loaded(view).exe \in Programs
      BY <1>3 DEF CommandsInv, CommandsTyped
    <3> QED BY <3>1, <3>2, CommandsAssumption DEF Commands!Loaded, Commands!Absent
  <2>5. DebuggerFits'
    BY <1>1, <2>1, <2>3, <2>4 DEF DebuggerFits, view, Commands!ViewFor
  <2>6. CallHeld' /\ Commands!DoneToTheChosen'
    BY <1>1, <2>1, <2>3, CallFacts DEF CallHeld, Commands!DoneToTheChosen, HeldStages, Commands!Names
  <2> QED BY <1>1, <2>3, <2>5, <2>6, CallFacts, CallKeeps DEF Stages
<1> QED BY <1>2, <1>3 DEF Commands!LoadDebugger

\* The command line names the PID and the event.
LEMMA PrepareLaunchKeeps ==
  ASSUME CommandsInv, Commands!PrepareLaunch PROVE CommandsInv'
<1>1. UNCHANGED <<native, born, aeDebug, installed, processes>> /\ call.at = "event"
  BY DEF Commands!PrepareLaunch, Commands!world
<1>2. CASE Commands!Failed
  BY <1>1, <1>2, FailedKeeps
<1> DEFINE line == Commands!Formatted(call.debugger.template, <<call.pid, "event">>)
<1>3. CASE call' = [call EXCEPT !.at = "create", !.event = TRUE, !.line = line]
  <2>1. Commands!LineNames(line, call.pid)
    BY <1>1, CallFacts, TwoPlaceholders DEF DebuggerFits
  <2> HIDE DEF line
  <2>2. /\ DOMAIN call' = CallFields /\ call'.at = "create" /\ call'.birth = call.birth /\ call'.handle = call.handle
        /\ call'.command = call.command /\ call'.pid = call.pid /\ call'.done = call.done /\ call'.ok = call.ok
        /\ call'.view = call.view /\ call'.line = line
    BY <1>3, CallFacts DEF CallFields
  <2>3. DebuggerFits'
    BY <1>1, <2>1, <2>2, CallFacts DEF DebuggerFits, Commands!Names, Commands!ViewFor, Commands!LineNames
  <2>4. CallHeld' /\ Commands!DoneToTheChosen'
    BY <1>1, <2>2, CallFacts DEF CallHeld, Commands!DoneToTheChosen, HeldStages, Commands!Names
  <2> QED BY <1>1, <2>2, <2>3, <2>4, CallFacts, CallKeeps DEF Stages
<1> QED BY <1>2, <1>3 DEF Commands!PrepareLaunch, Commands!FormatLine

\* The debugger starts with that line.
LEMMA CreateDebuggerKeeps ==
  ASSUME CommandsInv, Commands!CreateDebugger PROVE CommandsInv'
<1>1. UNCHANGED <<native, born, aeDebug, installed, processes>> /\ call.at = "create"
  BY DEF Commands!CreateDebugger, Commands!world
<1>2. CASE Commands!Failed
  BY <1>1, <1>2, FailedKeeps
<1>3. CASE call' = [call EXCEPT !.at = "done", !.handle = FALSE, !.event = FALSE, !.ok = TRUE,
                        !.done = {[on |-> IF call.pid \in DOMAIN processes
                                          THEN processes[call.pid].birth ELSE 0]}]
  <2>1. call.pid \in DOMAIN processes /\ processes[call.pid].birth = call.birth /\ call.command = "debug"
    BY <1>1, CallFacts DEF CallHeld, Commands!Names, HeldStages
  <2>2. /\ DOMAIN call' = CallFields /\ call'.at = "done" /\ call'.birth = call.birth /\ call'.handle = FALSE
        /\ call'.command = call.command /\ call'.pid = call.pid /\ call'.done = {[on |-> call.birth]}
        /\ call'.view = call.view /\ call'.line = call.line
    BY <1>3, <2>1, CallFacts DEF CallFields
  <2>3. DebuggerFits'
    BY <1>1, <2>2, CallFacts DEF DebuggerFits, Commands!Names, Commands!ViewFor, Commands!LineNames
  <2>4. CallHeld' /\ Commands!DoneToTheChosen'
    BY <2>1, <2>2 DEF CallHeld, Commands!DoneToTheChosen, HeldStages
  <2> QED BY <1>1, <2>2, <2>3, <2>4, CallFacts, CallKeeps DEF Stages
<1> QED BY <1>2, <1>3 DEF Commands!CreateDebugger

\* The path is read through the handle, and the file shown.
LEMMA LocateKeeps ==
  ASSUME CommandsInv, Commands!QueryPath \/ Commands!CreateExplorer PROVE CommandsInv'
<1>1. UNCHANGED <<native, born, aeDebug, installed, processes>> /\ call.at \in {"path", "explore"}
  BY DEF Commands!QueryPath, Commands!CreateExplorer, Commands!world
<1>2. CASE Commands!Failed
  BY <1>1, <1>2, FailedKeeps
<1>3. CASE call.at = "path" /\ call' = [call EXCEPT !.at = "explore", !.handle = FALSE,
                                  !.path = processes[call.pid].birth]
  <2>1. call.pid \in DOMAIN processes /\ processes[call.pid].birth = call.birth /\ call.command = "locate"
    BY <1>3, CallFacts DEF CallHeld, Commands!Names, HeldStages
  <2>2. /\ DOMAIN call' = CallFields /\ call'.at = "explore" /\ call'.birth = call.birth /\ call'.handle = FALSE
        /\ call'.command = call.command /\ call'.path = call.birth /\ call'.done = call.done /\ call'.ok = call.ok
    BY <1>3, <2>1, CallFacts DEF CallFields
  <2>3. CallHeld' /\ DebuggerFits' /\ Commands!DoneToTheChosen'
    BY <1>3, <2>1, <2>2, CallFacts DEF CallHeld, DebuggerFits, Commands!DoneToTheChosen, HeldStages
  <2> QED BY <1>1, <2>2, <2>3, CallFacts, CallKeeps DEF Stages
<1>4. CASE call.at = "explore" /\ call' = [call EXCEPT !.at = "done", !.ok = TRUE, !.done = {[on |-> call.path]}]
  <2>1. call.path = call.birth /\ call.command = "locate" /\ ~call.handle
    BY <1>4, CallFacts DEF CallHeld, HeldStages
  <2>2. /\ DOMAIN call' = CallFields /\ call'.at = "done" /\ call'.birth = call.birth /\ call'.handle = call.handle
        /\ call'.command = call.command /\ call'.done = {[on |-> call.birth]}
    BY <1>4, <2>1, CallFacts DEF CallFields
  <2>3. CallHeld' /\ DebuggerFits' /\ Commands!DoneToTheChosen'
    BY <2>1, <2>2, CallFacts DEF CallHeld, DebuggerFits, Commands!DoneToTheChosen, HeldStages
  <2> QED BY <1>1, <2>1, <2>2, <2>3, CallFacts, CallKeeps DEF Stages
<1> QED BY <1>2, <1>3, <1>4 DEF Commands!QueryPath, Commands!CreateExplorer

\* Every step of a command or of the world keeps the invariant.
LEMMA CommandsNextKeeps == CommandsInv /\ [Commands!Next]_(Commands!vars) => CommandsInv'
<1> SUFFICES ASSUME CommandsInv, [Commands!Next]_(Commands!vars) PROVE CommandsInv'
  OBVIOUS
<1>1. CASE UNCHANGED Commands!vars
  <2>1. UNCHANGED <<native, born, aeDebug, installed, processes, call>>
    BY <1>1 DEF Commands!vars, Commands!world
  <2>2. CallHeld' /\ DebuggerFits' /\ Commands!DoneToTheChosen'
    BY <2>1, CallFacts DEF CallHeld, DebuggerFits, Commands!DoneToTheChosen, Commands!Names, Commands!ViewFor, Commands!LineNames
  <2> QED BY <2>1, <2>2, CallFacts, CallKeeps
<1>2. CASE Commands!Next
  BY <1>2, EndsKeeps, ForgetKeeps, StartsKeeps, UninstalledKeeps, BeginsKeep, OpenKeeps, SetPriorityKeeps,
     LoadDebuggerKeeps, PrepareLaunchKeeps, CreateDebuggerKeeps, LocateKeeps DEF Commands!Next
<1> QED BY <1>1, <1>2

\* What the invariant says of the targets.
LEMMA CommandsInvMeets ==
  ASSUME CommandsInv PROVE Commands!DoneToTheChosen /\ Commands!DebuggerFitsTheTarget
<1>1. call.command = "debug" /\ call.ok => call.at = "done"
  BY CallFacts DEF CallHeld
<1> QED BY <1>1, CallFacts DEF DebuggerFits, Commands!DebuggerFitsTheTarget, Commands!Names, Commands!ViewFor

\* A step of the services is one of the commands, if it is about them.
LEMMA CommandsStep ==
  ASSUME [ServicesNext]_everything
  PROVE  which' = which /\ (which = "commands" => [Commands!Next]_(Commands!vars))
  BY DEF ServicesNext, everything, commandVars, Commands!vars, Commands!world

\* A priority, a debugger or a shown file is for the process of the row or for
\* none, and the debugger is the one registered for its kind of program, with a
\* line that names the process (set_priority, attach_debugger, open_file_location).
THEOREM CommandsHitTheirTarget == ServicesSpec => []CommandsMeetTheirTarget
<1> DEFINE Kept == which = "commands" => CommandsInv
<1>1. ServicesInit => Kept
  BY CommandsStart DEF ServicesInit
<1>2. Kept /\ [ServicesNext]_everything => Kept'
  BY CommandsStep, CommandsNextKeeps
<1>3. Kept => CommandsMeetTheirTarget
  BY CommandsInvMeets DEF CommandsMeetTheirTarget
<1> QED
  BY <1>1, <1>2, <1>3, PTL DEF ServicesSpec, everything

-----------------------------------------------------------------------------
(* The system sampler.  None of its properties is inductive.  A usage is    *)
(* right because the baseline, where there is one, is the reading of the    *)
(* last sample published; the histories do not overlap because no sample    *)
(* handed to the pages was published after the one that waits; the pages    *)
(* refuse none because the collector never publishes one they would.        *)


\* The baseline is the last sample published, if it is anything, and nothing is
\* of a later reading.
BaselineInv ==
    /\ baseline.at # 0 => baseline.at = published
    /\ published <= instant /\ handled <= published

\* The sample that waits for the pages is the last one published, its usage
\* starts after all they have seen, and they will take it.
SampleInv ==
    flight = "done" /\ outcome = "sample" =>
      /\ sample.to = published
      /\ sample.from # 0 => handled <= sample.from /\ sample.from <= sample.to
      /\ Sampling!Acceptable(sample)

\* The histories end at the sample the pages have seen last.
HistoryInv ==
    \A s \in history : s.from <= s.to /\ s.to <= handled /\ s.topo = s.n

\* A fault that has not struck is still off, requested or armed.
FaultInv == fault # "off" => injected = 0

SamplingInv == Sampling!SamplesAgree /\ BaselineInv /\ SampleInv /\ HistoryInv /\ FaultInv

USE SamplingAssumption

\* The next reading is one, and not an earlier one.
LEMMA TickLater == ASSUME NEW i \in Sampling!Instants PROVE Sampling!Tick(i) \in Sampling!Instants /\ i <= Sampling!Tick(i)
  BY DEF Sampling!Tick, Sampling!Instants

LEMMA InitSampling == Sampling!Init => SamplingInv
<1> SUFFICES ASSUME Sampling!Init PROVE SamplingInv
  OBVIOUS
<1>1. Sampling!NoSample \in Sampling!Samples /\ 0 \in Sampling!Instants /\ Sampling!NoSample.to = 0 /\ Sampling!NoSample.n = 0
  BY DEF Sampling!NoSample, Sampling!Samples, Sampling!Instants
<1>2. Sampling!TypeOK
  <2>1. baseline \in [at : Sampling!Instants, n : ProcessorCounts \union {0}] /\ history \subseteq Sampling!Samples
    BY <1>1 DEF Sampling!Init
  <2>2. more \in BOOLEAN /\ timerOn \in BOOLEAN /\ cpuStale \in BOOLEAN
        /\ lastWorkerError \in BOOLEAN
    BY DEF Sampling!Init
  <2>3. /\ procs \in ProcessorCounts /\ samplingFaults \in 0..MaxSamplingFaults /\ instant \in Sampling!Instants
        /\ topology \in ProcessorCounts \union {0} /\ published \in Sampling!Instants
        /\ flight \in {"idle", "busy", "done"} /\ outcome \in Sampling!Outcomes /\ sample \in Sampling!Samples
        /\ fault \in Sampling!Faults /\ injected \in Nat
        /\ stats \in Sampling!Samples /\ perf \in Sampling!Samples /\ cpu \in Sampling!Samples
        /\ handled \in Sampling!Instants /\ lastSampleError \in Sampling!SampleErrors
    BY <1>1 DEF Sampling!Init, Sampling!Outcomes, Sampling!Faults, Sampling!SampleErrors
  <2> QED
    BY <2>1, <2>2, <2>3 DEF Sampling!TypeOK
<1>3. Sampling!ConsumersAgree /\ Sampling!HistoryDisjoint /\ HistoryInv
  BY <1>1 DEF Sampling!Init, Sampling!ConsumersAgree, Sampling!HistoryDisjoint, HistoryInv
<1>4. BaselineInv /\ SampleInv /\ Sampling!InjectedOnce /\ FaultInv
  BY DEF Sampling!Init, BaselineInv, SampleInv, Sampling!InjectedOnce, FaultInv
<1> QED
  BY <1>2, <1>3, <1>4 DEF SamplingInv, Sampling!SamplesAgree

-----------------------------------------------------------------------------
\* A sample is published with the usage since the one before, and of as many
\* processors as its topology describes.
LEMMA CollectSampleSound ==
  ASSUME SamplingInv, Sampling!CollectSample
  PROVE  SamplingInv' /\ (sample'.from # 0 => sample'.from = published)
<1> USE DEF Sampling!Instants
<1>1. PICK good \in BOOLEAN :
        /\ IF good THEN UNCHANGED samplingFaults ELSE Sampling!Fails
        /\ Sampling!Answer("sample", [from |-> Sampling!DeltaFrom(procs, good), to |-> instant',
                             n |-> procs, topo |-> topology'])
  BY DEF Sampling!CollectSample
<1>2. /\ instant' = Sampling!Tick(instant) /\ topology' = procs /\ published' = instant'
      /\ baseline' = [at |-> instant', n |-> procs]
      /\ UNCHANGED <<fault, injected, procs, more, timerOn, Sampling!consumers, Sampling!errorVars>>
      /\ flight' = "done" /\ outcome' = "sample"
      /\ sample' = [from |-> Sampling!DeltaFrom(procs, good), to |-> instant', n |-> procs,
                    topo |-> topology']
  BY <1>1 DEF Sampling!CollectSample, Sampling!Answer, Sampling!Topology
<1>3. instant' \in Sampling!Instants /\ instant <= instant'
  BY <1>2, TickLater DEF SamplingInv, Sampling!SamplesAgree, Sampling!TypeOK
<1>4. Sampling!DeltaFrom(procs, good) \in Sampling!Instants
      /\ (Sampling!DeltaFrom(procs, good) # 0 => Sampling!DeltaFrom(procs, good) = published)
  BY DEF Sampling!DeltaFrom, SamplingInv, Sampling!SamplesAgree, Sampling!TypeOK, BaselineInv
<1>5. samplingFaults' \in 0..MaxSamplingFaults
  BY <1>1 DEF Sampling!Fails, SamplingInv, Sampling!SamplesAgree, Sampling!TypeOK
<1>6. sample' \in Sampling!Samples /\ sample'.from = Sampling!DeltaFrom(procs, good)
      /\ sample'.to = instant' /\ sample'.n = procs /\ sample'.topo = procs
  BY <1>2, <1>3, <1>4 DEF Sampling!Samples, SamplingInv, Sampling!SamplesAgree, Sampling!TypeOK
<1>7. Sampling!TypeOK'
  BY <1>2, <1>3, <1>5, <1>6 DEF Sampling!TypeOK, SamplingInv, Sampling!SamplesAgree, Sampling!Outcomes, Sampling!consumers, Sampling!errorVars
<1>8. BaselineInv'
  BY <1>2, <1>3 DEF SamplingInv, Sampling!SamplesAgree, Sampling!TypeOK, BaselineInv, Sampling!consumers
<1>9. SampleInv'
  <2>1. Sampling!Acceptable(sample)'
    BY <1>6 DEF Sampling!Acceptable, SamplingInv, Sampling!SamplesAgree, Sampling!TypeOK
  <2>2. sample'.from # 0 => handled' <= sample'.from /\ sample'.from <= sample'.to
    BY <1>2, <1>3, <1>4, <1>6 DEF SamplingInv, Sampling!SamplesAgree, Sampling!TypeOK, BaselineInv, Sampling!consumers
  <2> QED
    BY <1>2, <1>6, <2>1, <2>2 DEF SampleInv
<1>10. Sampling!ConsumersAgree' /\ Sampling!HistoryDisjoint' /\ Sampling!InjectedOnce' /\ HistoryInv' /\ FaultInv'
  BY <1>2 DEF SamplingInv, Sampling!SamplesAgree, Sampling!ConsumersAgree, Sampling!HistoryDisjoint, Sampling!InjectedOnce, HistoryInv,
     FaultInv, Sampling!consumers
<1> QED
  BY <1>4, <1>6, <1>7, <1>8, <1>9, <1>10 DEF SamplingInv, Sampling!SamplesAgree

\* An error or a panic answers nothing the pages take, and leaves the baseline of
\* the last sample or none.
LEMMA CollectErrorSound ==
  ASSUME SamplingInv, Sampling!CollectFails \/ Sampling!CollectInjected \/ Sampling!CollectPanics
  PROVE  SamplingInv' /\ outcome' # "sample"
<1> USE DEF Sampling!Instants
<1>0. Sampling!NoSample \in Sampling!Samples
  BY DEF Sampling!NoSample, Sampling!Samples
<1>1. /\ UNCHANGED <<procs, more, timerOn, Sampling!consumers, Sampling!errorVars, published>>
      /\ flight' = "done" /\ outcome' \in {"status", "panic"} /\ sample' = Sampling!NoSample
  BY DEF Sampling!CollectFails, Sampling!CollectInjected, Sampling!CollectPanics, Sampling!Answer, Sampling!collectorVars
<1>2. instant' \in Sampling!Instants /\ instant <= instant' /\ samplingFaults' \in 0..MaxSamplingFaults
  BY TickLater DEF Sampling!CollectFails, Sampling!CollectInjected, Sampling!CollectPanics, Sampling!Fails, Sampling!collectorVars,
     SamplingInv, Sampling!SamplesAgree, Sampling!TypeOK
<1>3. /\ baseline' = baseline \/ baseline' = [at |-> 0, n |-> 0]
      /\ topology' \in {topology, 0}
  BY DEF Sampling!CollectFails, Sampling!CollectInjected, Sampling!CollectPanics, Sampling!CandidateDropped, Sampling!collectorVars
<1>4. /\ fault' \in Sampling!Faults /\ injected' \in Nat /\ injected' <= 1
      /\ fault' # "off" => injected' = 0
  BY DEF Sampling!CollectFails, Sampling!CollectInjected, Sampling!CollectPanics, Sampling!DisarmFault, Sampling!Faults, SamplingInv,
     Sampling!SamplesAgree, Sampling!TypeOK, Sampling!InjectedOnce, FaultInv
<1>5. Sampling!TypeOK'
  BY <1>0, <1>1, <1>2, <1>3, <1>4
  DEF Sampling!TypeOK, SamplingInv, Sampling!SamplesAgree, Sampling!Outcomes, Sampling!consumers, Sampling!errorVars
<1>6. BaselineInv' /\ SampleInv'
  BY <1>1, <1>2, <1>3 DEF SamplingInv, Sampling!SamplesAgree, Sampling!TypeOK, BaselineInv, SampleInv, Sampling!consumers
<1>7. Sampling!ConsumersAgree' /\ Sampling!HistoryDisjoint' /\ Sampling!InjectedOnce' /\ HistoryInv' /\ FaultInv'
  BY <1>1, <1>4 DEF SamplingInv, Sampling!SamplesAgree, Sampling!ConsumersAgree, Sampling!HistoryDisjoint, Sampling!InjectedOnce,
     HistoryInv, FaultInv, Sampling!consumers
<1> QED
  BY <1>1, <1>5, <1>6, <1>7 DEF SamplingInv, Sampling!SamplesAgree

-----------------------------------------------------------------------------
\* A sample that is taken becomes what all of them show, and its usage follows
\* those in the histories.
LEMMA SampleDoneSound ==
  ASSUME SamplingInv, Sampling!SampleDone
  PROVE  SamplingInv'
<1> USE DEF Sampling!Instants
<1>1. /\ flight = "done" /\ outcome = "sample" /\ flight' \in {"idle", "busy"}
      /\ more' = FALSE
      /\ UNCHANGED <<procs, Sampling!collectorVars, outcome, sample, fault, injected, timerOn, samplingFaults>>
  BY DEF Sampling!SampleDone, Sampling!Drain
<1>2. /\ Sampling!Acceptable(sample) /\ sample.to = published
      /\ sample.from # 0 => handled <= sample.from /\ sample.from <= sample.to
  BY <1>1 DEF SamplingInv, SampleInv
<1>3. /\ handled' = sample.to /\ perf' = sample /\ stats' = sample
      /\ history' = Sampling!HistoryWith(sample) /\ cpu' = Sampling!CpuWith(sample)
      /\ cpuStale' = FALSE /\ lastSampleError' = "none" /\ lastWorkerError' = FALSE
  BY <1>2 DEF Sampling!SampleDone
<1>4. sample \in Sampling!Samples /\ sample.from \in Sampling!Instants /\ sample.to \in Sampling!Instants
      /\ sample.topo = sample.n
  BY <1>2 DEF SamplingInv, Sampling!SamplesAgree, Sampling!TypeOK, Sampling!Samples, Sampling!Acceptable
<1>5. Sampling!CpuWith(sample) \in Sampling!Samples /\ Sampling!CpuWith(sample).to = sample.to
      /\ Sampling!CpuWith(sample).n = sample.n
  BY <1>4 DEF Sampling!CpuWith, Sampling!Samples, SamplingInv, Sampling!SamplesAgree, Sampling!TypeOK
<1>6. \A s \in history' : (s \in history /\ perf.n = sample.n) \/ (s = sample /\ sample.from # 0)
  BY <1>3 DEF Sampling!HistoryWith, Sampling!KeptHistory
<1>7. Sampling!TypeOK'
  <2>1. history' \subseteq Sampling!Samples
    BY <1>4, <1>6 DEF SamplingInv, Sampling!SamplesAgree, Sampling!TypeOK
  <2> QED
    BY <1>1, <1>3, <1>4, <1>5, <2>1
    DEF Sampling!TypeOK, SamplingInv, Sampling!SamplesAgree, Sampling!collectorVars, Sampling!SampleErrors
<1>8. Sampling!ConsumersAgree'
  BY <1>3, <1>5 DEF Sampling!ConsumersAgree
<1>h. handled \in Sampling!Instants /\ (\A s \in history : s \in Sampling!Samples)
  BY DEF SamplingInv, Sampling!SamplesAgree, Sampling!TypeOK
<1>9. HistoryInv'
  <2> SUFFICES ASSUME NEW s \in history'
               PROVE  s.from <= s.to /\ s.to <= sample.to /\ s.topo = s.n
    BY <1>3 DEF HistoryInv
  <2>1. CASE s \in history
    <3>1. s.from <= s.to /\ s.to <= handled /\ s.topo = s.n
      BY <2>1 DEF SamplingInv, HistoryInv
    <3>2. handled <= sample.to
      BY <1>2 DEF SamplingInv, BaselineInv
    <3>3. s.to \in Sampling!Instants
      BY <1>h, <2>1 DEF Sampling!Samples
    <3> QED
      BY <3>1, <3>2, <3>3, <1>4, <1>h
  <2>2. CASE s = sample /\ sample.from # 0
    BY <2>2, <1>2, <1>4
  <2> QED
    BY <1>6, <2>1, <2>2
<1>10. Sampling!HistoryDisjoint'
  <2>1. \A s \in history' : s.n = perf'.n
    BY <1>3, <1>6 DEF SamplingInv, Sampling!SamplesAgree, Sampling!HistoryDisjoint
  <2>2. ASSUME NEW s \in history, sample.from # 0 PROVE s.to <= sample.from
    <3>1. s.to <= handled /\ s.to \in Sampling!Instants
      BY <1>h DEF SamplingInv, HistoryInv, Sampling!Samples
    <3> QED
      BY <3>1, <2>2, <1>2, <1>4, <1>h
  <2>3. \A s, t \in history' : s # t => s.to <= t.from \/ t.to <= s.from
    BY <1>6, <2>2 DEF SamplingInv, Sampling!SamplesAgree, Sampling!HistoryDisjoint
  <2> QED
    BY <2>1, <2>3 DEF Sampling!HistoryDisjoint
<1>11. BaselineInv' /\ SampleInv'
  BY <1>1, <1>2, <1>3, <1>4
  DEF SamplingInv, Sampling!SamplesAgree, Sampling!TypeOK, BaselineInv, SampleInv, Sampling!collectorVars
<1>12. Sampling!InjectedOnce' /\ FaultInv'
  BY <1>1 DEF SamplingInv, Sampling!SamplesAgree, Sampling!InjectedOnce, FaultInv
<1> QED
  BY <1>7, <1>8, <1>9, <1>10, <1>11, <1>12 DEF SamplingInv, Sampling!SamplesAgree

\* Nothing that is shown changes with an error.
LEMMA DrainErrorSound ==
  ASSUME SamplingInv, Sampling!SampleFailed \/ Sampling!SamplePanicked \/ Sampling!SampleDiscarded
  PROVE  SamplingInv'
<1>1. /\ flight' \in {"idle", "busy"} /\ more' \in BOOLEAN
      /\ UNCHANGED <<procs, Sampling!collectorVars, outcome, sample, fault, injected, timerOn, Sampling!consumers>>
      /\ samplingFaults' \in 0..MaxSamplingFaults
      /\ cpuStale' \in BOOLEAN /\ lastWorkerError' \in BOOLEAN
      /\ lastSampleError' \in Sampling!SampleErrors
  <2>1. Sampling!TypeOK
    BY DEF SamplingInv, Sampling!SamplesAgree
  <2>2. CASE Sampling!SampleFailed
    BY <2>1, <2>2 DEF Sampling!SampleFailed, Sampling!Drain, Sampling!SampleErrors, Sampling!TypeOK
  <2>3. CASE Sampling!SamplePanicked
    BY <2>1, <2>3 DEF Sampling!SamplePanicked, Sampling!Drain, Sampling!WorkerError, Sampling!SampleErrors, Sampling!TypeOK
  <2>4. CASE Sampling!SampleDiscarded
    BY <2>1, <2>4 DEF Sampling!SampleDiscarded, Sampling!WorkerError, Sampling!Fails, Sampling!SampleErrors, Sampling!TypeOK
  <2> QED
    BY <2>2, <2>3, <2>4
<1>2. Sampling!TypeOK'
  BY <1>1 DEF Sampling!TypeOK, SamplingInv, Sampling!SamplesAgree, Sampling!collectorVars, Sampling!consumers
<1>3. SampleInv'
  BY <1>1 DEF SampleInv
<1> QED
  BY <1>1, <1>2, <1>3 DEF SamplingInv, Sampling!SamplesAgree, Sampling!ConsumersAgree, Sampling!HistoryDisjoint, Sampling!InjectedOnce,
     BaselineInv, HistoryInv, FaultInv, Sampling!collectorVars, Sampling!consumers

\* A request takes off or waits, or its error is recorded.
LEMMA RequestTypes ==
  ASSUME Sampling!TypeOK, Sampling!RequestSample
  PROVE  /\ flight' = flight \/ flight' = "busy"
         /\ more' \in BOOLEAN /\ samplingFaults' \in 0..MaxSamplingFaults
         /\ cpuStale' \in BOOLEAN /\ lastWorkerError' \in BOOLEAN
         /\ lastSampleError' \in Sampling!SampleErrors
<1>1. more' \in BOOLEAN /\ cpuStale' \in BOOLEAN /\ lastWorkerError' \in BOOLEAN
  BY DEF Sampling!RequestSample, Sampling!WorkerError, Sampling!TypeOK
<1>2. samplingFaults' \in 0..MaxSamplingFaults /\ lastSampleError' \in Sampling!SampleErrors
  BY DEF Sampling!RequestSample, Sampling!WorkerError, Sampling!Fails, Sampling!TypeOK
<1> QED
  BY <1>1, <1>2 DEF Sampling!RequestSample

\* Requests, speeds and processors change nothing that is shown, and a request
\* leaves an answer that waits alone.
LEMMA RequestSound ==
  ASSUME SamplingInv, Sampling!ProcessorsChange \/ Sampling!SetSpeed \/ Sampling!PeriodicRefresh \/ Sampling!ForcedRefresh
  PROVE  SamplingInv'
<1>1. /\ flight' = flight \/ flight' = "busy"
      /\ more' \in BOOLEAN /\ procs' \in ProcessorCounts /\ timerOn' \in BOOLEAN
      /\ UNCHANGED <<Sampling!collectorVars, outcome, sample, injected, Sampling!consumers>>
      /\ samplingFaults' \in 0..MaxSamplingFaults
      /\ cpuStale' \in BOOLEAN /\ lastWorkerError' \in BOOLEAN
      /\ lastSampleError' \in Sampling!SampleErrors
  <2>1. Sampling!TypeOK
    BY DEF SamplingInv, Sampling!SamplesAgree
  <2>2. CASE Sampling!ProcessorsChange
    BY <2>1, <2>2 DEF Sampling!ProcessorsChange, Sampling!Fails, Sampling!workerVars, Sampling!errorVars, Sampling!TypeOK
  <2>3. CASE Sampling!SetSpeed
    <3>1. timerOn' \in BOOLEAN
      BY <2>1, <2>3 DEF Sampling!SetSpeed, Sampling!TypeOK
    <3> QED
      BY <2>1, <2>3, <3>1 DEF Sampling!SetSpeed, Sampling!Fails, Sampling!workerVars, Sampling!errorVars, Sampling!TypeOK
  <2>4. CASE Sampling!PeriodicRefresh
    BY <2>1, <2>4, RequestTypes DEF Sampling!PeriodicRefresh, Sampling!TypeOK
  <2>5. CASE Sampling!ForcedRefresh
    BY <2>1, <2>5, RequestTypes DEF Sampling!ForcedRefresh, Sampling!TypeOK
  <2> QED
    BY <2>2, <2>3, <2>4, <2>5
<1>2. fault' \in Sampling!Faults /\ (fault' # "off" => fault # "off")
  BY DEF Sampling!ProcessorsChange, Sampling!SetSpeed, Sampling!PeriodicRefresh, Sampling!ForcedRefresh, Sampling!Faults, SamplingInv,
     Sampling!SamplesAgree, Sampling!TypeOK
<1>3. Sampling!TypeOK'
  BY <1>1, <1>2 DEF Sampling!TypeOK, SamplingInv, Sampling!SamplesAgree, Sampling!collectorVars, Sampling!consumers
<1>4. SampleInv' /\ FaultInv'
  BY <1>1, <1>2 DEF SamplingInv, SampleInv, FaultInv, Sampling!Acceptable, Sampling!collectorVars, Sampling!consumers
<1> QED
  BY <1>1, <1>3, <1>4 DEF SamplingInv, Sampling!SamplesAgree, Sampling!ConsumersAgree, Sampling!HistoryDisjoint, Sampling!InjectedOnce,
     BaselineInv, HistoryInv, Sampling!collectorVars, Sampling!consumers

-----------------------------------------------------------------------------
LEMMA StepSound ==
  ASSUME SamplingInv, [Sampling!Next]_(Sampling!vars)
  PROVE  SamplingInv' /\ [flight = "busy" /\ outcome' = "sample" /\ sample'.from # 0
                            => sample'.from = published]_<<flight, sample>>
<1>1. CASE Sampling!CollectSample
  BY <1>1, CollectSampleSound
<1>2. CASE Sampling!CollectFails \/ Sampling!CollectInjected \/ Sampling!CollectPanics
  BY <1>2, CollectErrorSound
<1>3. CASE Sampling!SampleDone
  <2>1. flight # "busy"
    BY <1>3 DEF Sampling!SampleDone, Sampling!Drain
  <2> QED
    BY <1>3, <2>1, SampleDoneSound
<1>4. CASE Sampling!SampleFailed \/ Sampling!SamplePanicked \/ Sampling!SampleDiscarded
  <2>1. flight # "busy"
    BY <1>4 DEF Sampling!SampleFailed, Sampling!SamplePanicked, Sampling!SampleDiscarded, Sampling!Drain
  <2> QED
    BY <1>4, <2>1, DrainErrorSound
<1>5. CASE Sampling!ProcessorsChange \/ Sampling!SetSpeed \/ Sampling!PeriodicRefresh \/ Sampling!ForcedRefresh
  <2>1. flight = "busy" => UNCHANGED <<flight, sample>>
    BY <1>5 DEF Sampling!ProcessorsChange, Sampling!SetSpeed, Sampling!PeriodicRefresh, Sampling!ForcedRefresh, Sampling!RequestSample,
       Sampling!workerVars
  <2> QED
    BY <1>5, <2>1, RequestSound
<1>6. CASE UNCHANGED Sampling!vars
  <2> USE <1>6 DEF Sampling!vars, Sampling!collectorVars, Sampling!workerVars, Sampling!consumers, Sampling!errorVars
  <2>1. Sampling!TypeOK'
    BY DEF SamplingInv, Sampling!SamplesAgree, Sampling!TypeOK
  <2>2. SampleInv'
    BY DEF SamplingInv, SampleInv, Sampling!Acceptable
  <2> QED
    BY <2>1, <2>2 DEF SamplingInv, Sampling!SamplesAgree, Sampling!ConsumersAgree, Sampling!HistoryDisjoint, Sampling!InjectedOnce,
       BaselineInv, HistoryInv, FaultInv
<1> QED
  BY <1>1, <1>2, <1>3, <1>4, <1>5, <1>6 DEF Sampling!Next, Sampling!Collect, Sampling!Completion

\* The steps of MCServices that are of this component.
LEMMA SamplingStep ==
  ASSUME [ServicesNext]_everything
  PROVE  /\ which' = which
         /\ which = "sampling" => [Sampling!Next]_(Sampling!vars)
         /\ which # "sampling" => UNCHANGED <<flight, sample>>
  BY DEF ServicesNext, everything, samplingVars, Sampling!vars, Sampling!collectorVars,
     Sampling!workerVars, Sampling!consumers, Sampling!errorVars

\* The inductive invariant holds for every instance.
THEOREM SamplingInductive == Sampling!Spec => []SamplingInv
  BY InitSampling, StepSound, PTL DEF Sampling!Spec

\* Tray, status bar and both pages show the refresh handed over last, the
\* histories never show a time twice, and a requested fault strikes once
\* (apply_system_sample, ensure_history_capacity, SamplingFaultInjection).
THEOREM OneRefreshForAll == ServicesSpec => []SamplesAgree
<1> DEFINE Kept == which = "sampling" => SamplingInv
<1>1. ServicesInit => Kept
  BY InitSampling DEF ServicesInit
<1>2. Kept /\ [ServicesNext]_everything => Kept'
  BY StepSound, SamplingStep
<1>3. Kept => SamplesAgree
  BY DEF SamplingInv, SamplesAgree
<1> QED
  BY <1>1, <1>2, <1>3, PTL DEF ServicesSpec, everything

\* A usage spans the time since the sample published before it, whatever failed
\* in between (SystemCollector::collect).
THEOREM UsageSpansFailures == ServicesSpec => DeltaSpansFailures
<1> DEFINE Kept == which = "sampling" => SamplingInv
           Spans == flight = "busy" /\ outcome' = "sample" /\ sample'.from # 0
                      => sample'.from = published
<1>1. ServicesInit => Kept
  BY InitSampling DEF ServicesInit
<1>2. Kept /\ [ServicesNext]_everything => Kept'
  BY StepSound, SamplingStep
<1>3. Kept /\ [ServicesNext]_everything => [Spans]_<<flight, sample>>
  BY StepSound, SamplingStep
<1> QED
  BY <1>1, <1>2, <1>3, PTL DEF ServicesSpec, everything, DeltaSpansFailures, Sampling!DeltaSpansFailures

-----------------------------------------------------------------------------
(* The GPU counters.  What a sample shows and what the properties say of it  *)
(* are about the same places of the same readings; that the engines of an    *)
(* adapter are told apart by their first places is what ties them.           *)

Choice(t) == CHOOSE i \in t : TRUE
Summing(f, items, t) ==
  f = [s \in SUBSET t |-> IF s = {} THEN 0 ELSE items[Choice(s)].load + f[s \ {Choice(s)}]]

\* The readings' loads are numbers.
LoadsOf(items, t) == IsFiniteSet(t) /\ \A i \in t : items[i].load \in Nat

\* The parts of a set of places with up to k places.
Small(t, k) == {s \in SUBSET t : Cardinality(s) <= k}
SummingSmall(f, items, t, k) ==
  f \in [Small(t, k) -> Nat] /\
  \A s \in Small(t, k) : f[s] = IF s = {} THEN 0 ELSE items[Choice(s)].load + f[s \ {Choice(s)}]

LEMMA PartOfPlaces ==
  ASSUME NEW t, IsFiniteSet(t), NEW s \in SUBSET t
  PROVE  IsFiniteSet(s) /\ Cardinality(s) \in Nat /\ Cardinality(s) <= Cardinality(t)
         /\ (Cardinality(s) = 0 <=> s = {})
  BY FS_Subset, FS_CardinalityType, FS_EmptySet

LEMMA RestOfPlaces ==
  ASSUME NEW t, IsFiniteSet(t), NEW s \in SUBSET t, s # {}
  PROVE  /\ Choice(s) \in s /\ Cardinality(s \ {Choice(s)}) \in Nat
         /\ Cardinality(s) = Cardinality(s \ {Choice(s)}) + 1
<1>1. Choice(s) \in s
  BY DEF Choice
<1>2. IsFiniteSet(s)
  BY FS_Subset
<1>3. IsFiniteSet(s \ {Choice(s)}) /\ Cardinality(s \ {Choice(s)}) = Cardinality(s) - 1
  BY <1>1, <1>2, FS_RemoveElement
<1>4. Cardinality(s) \in Nat /\ Cardinality(s \ {Choice(s)}) \in Nat
  BY <1>2, <1>3, FS_CardinalityType
<1> QED BY <1>1, <1>3, <1>4

\* The fold's function exists, and its values are numbers.
LEMMA SummingExists ==
  ASSUME NEW items, NEW t, LoadsOf(items, t)
  PROVE  \E f \in [SUBSET t -> Nat] : Summing(f, items, t)
<1> DEFINE S == {k \in Nat : \E f : SummingSmall(f, items, t, k)}
<1>0. IsFiniteSet(t)
  BY DEF LoadsOf
<1>1. 0 \in S
  <2> DEFINE f == [s \in Small(t, 0) |-> 0]
  <2>1. \A s \in Small(t, 0) : s = {}
    BY <1>0, PartOfPlaces DEF Small
  <2>2. SummingSmall(f, items, t, 0)
    BY <2>1 DEF SummingSmall
  <2> QED BY <2>2
<1>2. ASSUME NEW k \in Nat, k \in S PROVE k + 1 \in S
  <2>1. PICK f : SummingSmall(f, items, t, k)
    BY <1>2
  <2> DEFINE g == [s \in Small(t, k + 1) |->
                     IF s = {} THEN 0 ELSE items[Choice(s)].load + f[s \ {Choice(s)}]]
  <2>2. ASSUME NEW s \in Small(t, k + 1), s # {}
        PROVE  /\ s \ {Choice(s)} \in Small(t, k) /\ s \ {Choice(s)} \in Small(t, k + 1)
               /\ items[Choice(s)].load \in Nat
    <3>1. s \in SUBSET t /\ Cardinality(s) <= k + 1
      BY DEF Small
    <3>2. /\ Choice(s) \in s /\ Cardinality(s \ {Choice(s)}) \in Nat
          /\ Cardinality(s) = Cardinality(s \ {Choice(s)}) + 1
      BY <1>0, <2>2, <3>1, RestOfPlaces
    <3> DEFINE r == s \ {Choice(s)}
    <3>3. r \in SUBSET t
      BY <3>1
    <3>4. Cardinality(r) \in Nat /\ Cardinality(r) + 1 <= k + 1
      BY <3>1, <3>2
    <3> HIDE DEF r
    <3>5. Cardinality(r) <= k /\ Cardinality(r) <= k + 1
      BY <3>4
    <3>6. r \in Small(t, k) /\ r \in Small(t, k + 1)
      BY <3>3, <3>5 DEF Small
    <3>7. items[Choice(s)].load \in Nat
      BY <3>1, <3>2 DEF LoadsOf
    <3> QED BY <3>6, <3>7 DEF r
  <2>3. \A s \in Small(t, k) : s \in Small(t, k + 1) /\ g[s] = f[s]
    <3> TAKE s \in Small(t, k)
    <3>1. s \in SUBSET t /\ Cardinality(s) <= k /\ Cardinality(s) \in Nat
      BY <1>0, PartOfPlaces DEF Small
    <3>2. s \in Small(t, k + 1)
      BY <3>1 DEF Small
    <3> QED BY <2>1, <3>2 DEF SummingSmall
  <2>4. \A s \in Small(t, k + 1) : g[s] \in Nat
    BY <2>1, <2>2 DEF SummingSmall
  <2>5. \A s \in Small(t, k + 1) :
          g[s] = IF s = {} THEN 0 ELSE items[Choice(s)].load + g[s \ {Choice(s)}]
    BY <2>2, <2>3
  <2>6. g = [s \in Small(t, k + 1) |-> g[s]]
    OBVIOUS
  <2> HIDE DEF g
  <2>7. SummingSmall(g, items, t, k + 1)
    BY <2>4, <2>5, <2>6 DEF SummingSmall
  <2> QED BY <2>7
<1> DEFINE n == Cardinality(t)
<1>3. n \in S
  <2>1. n \in Nat
    BY <1>0, FS_CardinalityType
  <2> HIDE DEF S, n
  <2> QED BY <1>1, <1>2, <2>1, NumbersInduction
<1>4. PICK f : SummingSmall(f, items, t, n)
  BY <1>3
<1>5. Small(t, n) = SUBSET t
  BY <1>0, PartOfPlaces DEF Small
<1> QED BY <1>4, <1>5 DEF SummingSmall, Summing

\* Whatever function the fold chooses, its values are numbers.
LEMMA SummingIsNat ==
  ASSUME NEW items, NEW t, LoadsOf(items, t), NEW f, Summing(f, items, t)
  PROVE  f[t] \in Nat
<1> DEFINE S == {k \in Nat : \A s \in SUBSET t : Cardinality(s) = k => f[s] \in Nat}
<1>0. /\ IsFiniteSet(t)
      /\ \A s \in SUBSET t : f[s] = IF s = {} THEN 0 ELSE items[Choice(s)].load + f[s \ {Choice(s)}]
  BY DEF LoadsOf, Summing
<1>1. 0 \in S
  BY <1>0, PartOfPlaces
<1>2. ASSUME NEW k \in Nat, k \in S PROVE k + 1 \in S
  <2> SUFFICES ASSUME NEW s \in SUBSET t, Cardinality(s) = k + 1 PROVE f[s] \in Nat
    OBVIOUS
  <2>1. s # {}
    BY <1>0, PartOfPlaces
  <2>2. /\ Choice(s) \in s /\ Cardinality(s \ {Choice(s)}) \in Nat
        /\ Cardinality(s) = Cardinality(s \ {Choice(s)}) + 1
    BY <1>0, <2>1, RestOfPlaces
  <2>3. f[s \ {Choice(s)}] \in Nat
    BY <1>2, <2>2
  <2>4. items[Choice(s)].load \in Nat
    BY <2>2 DEF LoadsOf
  <2>5. f[s] = items[Choice(s)].load + f[s \ {Choice(s)}]
    BY <1>0, <2>1
  <2> QED BY ONLY <2>3, <2>4, <2>5
<1> DEFINE n == Cardinality(t)
<1>3. n \in S
  <2>1. n \in Nat
    BY <1>0, FS_CardinalityType
  <2> HIDE DEF S, n
  <2> QED BY <1>1, <1>2, <2>1, NumbersInduction
<1> QED BY <1>3

\* A load is a number, and so is the percentage that is shown of it.
LEMMA LoadIsNat ==
  ASSUME NEW items, NEW t, LoadsOf(items, t)
  PROVE  Counters!Load(items, t) \in Nat /\ Counters!Percent(Counters!Load(items, t)) \in 0..100
<1> DEFINE f == CHOOSE x : Summing(x, items, t)
<1>1. Counters!Load(items, t) = f[t]
  BY DEF Counters!Load, Counters!MapThenSumSet, Counters!MapThenFoldSet, Summing, Choice
<1>2. Summing(f, items, t)
  BY SummingExists
<1> HIDE DEF f
<1>3. f[t] \in Nat
  BY <1>2, SummingIsNat
<1> QED BY <1>1, <1>3 DEF Counters!Percent

\* The highest of a set of percentages.
LEMMA HighestPercent ==
  ASSUME NEW t \in SUBSET (0..100), t # {}
  PROVE  Counters!Max(t) \in t
<1> DEFINE u == {x + 1 : x \in t}
<1>1. u \in SUBSET (1..101) /\ u # {}
  <2>1. \A x \in t : x + 1 \in 1..101
    OBVIOUS
  <2> QED BY <2>1
<1>2. Highest(u) \in u /\ \A y \in u : Highest(u) >= y
  BY <1>1, IntervalMax
<1>3. PICK x \in t : Highest(u) = x + 1
  BY <1>2
<1>4. \A y \in t : x + 1 >= y + 1
  BY <1>2, <1>3
<1>5. \A y \in t : x >= y
  BY <1>4
<1> QED BY <1>5 DEF Counters!Max

\* The lowest of a set of places.
LEMMA LowestPlace ==
  ASSUME NEW n \in Nat, NEW t \in SUBSET (1..n), t # {}
  PROVE  Counters!Min(t) \in t
<1> DEFINE u == {(n + 1) - x : x \in t}
<1>1. u \in SUBSET (1..n) /\ u # {}
  <2>1. \A x \in t : (n + 1) - x \in 1..n
    OBVIOUS
  <2> QED BY <2>1
<1>2. Highest(u) \in u /\ \A y \in u : Highest(u) >= y
  BY <1>1, IntervalMax
<1>3. PICK x \in t : Highest(u) = (n + 1) - x
  BY <1>2
<1>4. \A y \in t : (n + 1) - x >= (n + 1) - y
  BY <1>2, <1>3
<1>5. \A y \in t : x <= y
  BY <1>4
<1> QED BY <1>5 DEF Counters!Min

-----------------------------------------------------------------------------
\* Readings as the counters return them, and what a source tells.
Array(items) == items \in Seq({items[i] : i \in DOMAIN items})
EngineArray(items) == Array(items) /\ \A i \in DOMAIN items : items[i].load \in Nat
MemoryArray(items) == Array(items) /\ \A i \in DOMAIN items : items[i].size \in Nat
ReadsShaped(r) ==
  /\ EngineArray(r["engine"].items)
  /\ MemoryArray(r["dedicated"].items) /\ MemoryArray(r["shared"].items)

LEMMA ArrayPlaces ==
  ASSUME NEW items, Array(items)
  PROVE  Len(items) \in Nat /\ DOMAIN items = 1..Len(items)
  BY DEF Array

\* The first place of an engine among the adapter's.
LEMMA FirstPlace ==
  ASSUME NEW items, Array(items), NEW mine \in SUBSET DOMAIN items, NEW i \in mine
  PROVE  /\ Counters!FirstOf(items, mine, i) \in mine
         /\ Counters!EngineOf(items[Counters!FirstOf(items, mine, i)]) = Counters!EngineOf(items[i])
<1> DEFINE t == {j \in mine : Counters!EngineOf(items[j]) = Counters!EngineOf(items[i])}
<1>1. Len(items) \in Nat /\ DOMAIN items = 1..Len(items)
  BY ArrayPlaces
<1>2. t \in SUBSET (1..Len(items)) /\ t # {}
  BY <1>1
<1>3. Counters!Min(t) \in t
  BY <1>1, <1>2, LowestPlace
<1> QED BY <1>3 DEF Counters!FirstOf

\* Places of one engine have one first place.
LEMMA SameFirst ==
  ASSUME NEW items, NEW mine, NEW i \in mine, NEW j \in mine,
         Counters!EngineOf(items[i]) = Counters!EngineOf(items[j])
  PROVE  Counters!FirstOf(items, mine, i) = Counters!FirstOf(items, mine, j)
  BY DEF Counters!FirstOf

LEMMA FirstIsFirst ==
  ASSUME NEW items, Array(items), NEW mine \in SUBSET DOMAIN items, NEW i \in mine
  PROVE  \A j \in mine : Counters!FirstOf(items, mine, j) = Counters!FirstOf(items, mine, i)
           <=> Counters!EngineOf(items[j]) = Counters!EngineOf(items[Counters!FirstOf(items, mine, i)])
  BY FirstPlace, SameFirst

-----------------------------------------------------------------------------
\* The load that is shown with an engine found.
LoadAt(items, mine, f) ==
  Counters!Percent(Counters!Load(items, {i \in mine : Counters!FirstOf(items, mine, i) = f
                                                      /\ Counters!Counts(items, mine, i)}))

\* The load of an engine in the words of the property.
LoadOfEngine(items, mine, e) ==
  Counters!Percent(Counters!Load(items, {i \in mine : Counters!EngineOf(items[i]) = e}))

LEMMA EnginesFound ==
  \A items, mine : Counters!EnginesOf(items, mine) =
    {[engine |-> Counters!EngineOf(items[f]), kind |-> items[f].kind,
      load |-> LoadAt(items, mine, f)]
     : f \in {Counters!FirstOf(items, mine, i) : i \in mine}}
  BY DEF Counters!EnginesOf, LoadAt

LEMMA LoadsArePercent ==
  ASSUME NEW items, EngineArray(items), NEW mine \in SUBSET DOMAIN items
  PROVE  \A x \in Counters!EnginesOf(items, mine) : x.load \in 0..100
<1> SUFFICES ASSUME NEW f PROVE LoadAt(items, mine, f) \in 0..100
  BY EnginesFound
<1> DEFINE t == {i \in mine : Counters!FirstOf(items, mine, i) = f /\ Counters!Counts(items, mine, i)}
<1>1. IsFiniteSet(DOMAIN items)
  BY ArrayPlaces, FS_Interval DEF EngineArray
<1>2. IsFiniteSet(t)
  BY <1>1, FS_Subset
<1>3. LoadsOf(items, t)
  BY <1>2 DEF LoadsOf, EngineArray
<1> QED BY <1>3, LoadIsNat DEF LoadAt

\* If every reading counts, the loads shown are those of the property.
LEMMA LoadsShown ==
  ASSUME NEW items, Array(items), NEW mine \in SUBSET DOMAIN items, ~Counters!Repeated(items, mine)
  PROVE  {x.load : x \in Counters!EnginesOf(items, mine)}
           = {LoadOfEngine(items, mine, Counters!EngineOf(items[i])) : i \in mine}
<1>1. ASSUME NEW i \in mine
      PROVE  LoadAt(items, mine, Counters!FirstOf(items, mine, i))
               = LoadOfEngine(items, mine, Counters!EngineOf(items[i]))
  <2>1. \A j \in mine : Counters!Counts(items, mine, j)
    BY DEF Counters!Repeated
  <2>2. \A j \in mine : Counters!FirstOf(items, mine, j) = Counters!FirstOf(items, mine, i)
          <=> Counters!EngineOf(items[j]) = Counters!EngineOf(items[i])
    BY FirstIsFirst, FirstPlace
  <2>3. {j \in mine : Counters!FirstOf(items, mine, j) = Counters!FirstOf(items, mine, i)
                      /\ Counters!Counts(items, mine, j)}
          = {j \in mine : Counters!EngineOf(items[j]) = Counters!EngineOf(items[i])}
    BY <2>1, <2>2
  <2> QED BY <2>3 DEF LoadAt, LoadOfEngine
<1>2. {x.load : x \in Counters!EnginesOf(items, mine)}
        = {LoadAt(items, mine, Counters!FirstOf(items, mine, i)) : i \in mine}
  <2> DEFINE F == {Counters!FirstOf(items, mine, i) : i \in mine}
             E(f) == [engine |-> Counters!EngineOf(items[f]), kind |-> items[f].kind,
                      load |-> LoadAt(items, mine, f)]
  <2>1. Counters!EnginesOf(items, mine) = {E(f) : f \in F}
    BY EnginesFound
  <2>2. \A f : E(f).load = LoadAt(items, mine, f)
    OBVIOUS
  <2> HIDE DEF E
  <2>3. {x.load : x \in {E(f) : f \in F}} = {LoadAt(items, mine, f) : f \in F}
    BY <2>2
  <2> QED BY <2>1, <2>3
<1> QED BY <1>1, <1>2

\* Two engines found with one name are one.
LEMMA EnginesDiffer ==
  ASSUME NEW items, Array(items), NEW mine \in SUBSET DOMAIN items,
         NEW x \in Counters!EnginesOf(items, mine), NEW y \in Counters!EnginesOf(items, mine),
         x.engine = y.engine
  PROVE  x = y
<1>1. PICK i \in mine :
        x = [engine |-> Counters!EngineOf(items[Counters!FirstOf(items, mine, i)]),
             kind |-> items[Counters!FirstOf(items, mine, i)].kind,
             load |-> LoadAt(items, mine, Counters!FirstOf(items, mine, i))]
  BY EnginesFound
<1>2. PICK j \in mine :
        y = [engine |-> Counters!EngineOf(items[Counters!FirstOf(items, mine, j)]),
             kind |-> items[Counters!FirstOf(items, mine, j)].kind,
             load |-> LoadAt(items, mine, Counters!FirstOf(items, mine, j))]
  BY EnginesFound
<1>3. Counters!EngineOf(items[i]) = Counters!EngineOf(items[j])
  BY <1>1, <1>2, FirstPlace
<1>4. Counters!FirstOf(items, mine, i) = Counters!FirstOf(items, mine, j)
  BY <1>3, SameFirst
<1> QED BY <1>1, <1>2, <1>4

\* An engine found has the name and the kind of one of the adapter's readings.
LEMMA EngineIsRead ==
  ASSUME NEW items, Array(items), NEW mine \in SUBSET DOMAIN items,
         NEW x \in Counters!EnginesOf(items, mine)
  PROVE  \E i \in mine : x.engine = Counters!EngineOf(items[i]) /\ x.kind = items[i].kind
<1>1. PICK i \in mine :
        x = [engine |-> Counters!EngineOf(items[Counters!FirstOf(items, mine, i)]),
             kind |-> items[Counters!FirstOf(items, mine, i)].kind,
             load |-> LoadAt(items, mine, Counters!FirstOf(items, mine, i))]
  BY EnginesFound
<1> QED BY <1>1, FirstPlace

-----------------------------------------------------------------------------
\* The properties, of one adapter.
NumberTold(r, a, s) ==
  LET items == r["engine"].items
      mine == {i \in DOMAIN items : Counters!Named(items[i]) /\ items[i].adapter = a}
  IN  /\ s.overall # Counters!Missing =>
           /\ r["engine"].error = "none"
           /\ \A i \in DOMAIN items : Counters!Named(items[i]) /\ Counters!Known(items[i])
           /\ \A i \in mine : items[i].status = "good"
           /\ \A i, j \in mine : Counters!EngineOf(items[i]) = Counters!EngineOf(items[j]) =>
                items[i].kind = items[j].kind /\ (items[i].pid = items[j].pid => i = j)
           /\ s.overall = Counters!Max({LoadOfEngine(items, mine, Counters!EngineOf(items[i])) : i \in mine}
                                       \union {0})
      /\ \A m \in {"dedicated", "shared"} : s[m] # Counters!Missing =>
           \E x \in Counters!ToSet(r[m].items) :
             x.adapter = a /\ x.status = "good" /\ s[m] = x.size
      /\ s.overall = Counters!Missing <=> "engine" \in s.faults
      /\ \A m \in {"dedicated", "shared"} : s[m] = Counters!Missing => m \in s.faults

FaultStays(r, known, a, s) ==
  LET items == r["engine"].items
      mine == {i \in DOMAIN items : items[i].adapter = a}
      goodSizes(m) == {i \in DOMAIN r[m].items :
                         r[m].items[i].adapter = a /\ r[m].items[i].status = "good"}
  IN  /\ \A m \in {"dedicated", "shared"} : Cardinality(goodSizes(m)) = 1 => s[m] # Counters!Missing
      /\ /\ r["engine"].error = "none"
         /\ \A i \in DOMAIN items : Counters!Named(items[i]) /\ Counters!Known(items[i])
         /\ \A i \in DOMAIN items \ mine :
              items[i].adapter \in Hidden => items[i].status = "good"
         /\ \A i \in mine : items[i].status = "good" /\ known[Counters!EngineOf(items[i])] = items[i].kind
         /\ \A i, j \in mine : Counters!EngineOf(items[i]) = Counters!EngineOf(items[j])
                                 /\ items[i].pid = items[j].pid => i = j
         => s.overall # Counters!Missing

LEMMA NumbersTold ==
  /\ Counters!NoNumberIsInvented <=> \A a \in DOMAIN samples : NumberTold(reads, a, samples[a])
  /\ Counters!NoNumberIsInvented'
       <=> \A a \in DOMAIN samples' : NumberTold(reads', a, samples'[a])
<1>1. Counters!NoNumberIsInvented <=> \A a \in DOMAIN samples : NumberTold(reads, a, samples[a])
  BY DEF Counters!NoNumberIsInvented, NumberTold, LoadOfEngine
<1>2. Counters!NoNumberIsInvented'
        <=> \A a \in DOMAIN samples' : NumberTold(reads', a, samples'[a])
  BY DEF Counters!NoNumberIsInvented, NumberTold, LoadOfEngine
<1> QED BY <1>1, <1>2

LEMMA FaultsStayed ==
  /\ Counters!FaultsStayWhereTheyAre
       <=> \A a \in DOMAIN samples : FaultStays(reads, kinds, a, samples[a])
  /\ Counters!FaultsStayWhereTheyAre'
       <=> \A a \in DOMAIN samples' : FaultStays(reads', kinds', a, samples'[a])
<1>1. Counters!FaultsStayWhereTheyAre
        <=> \A a \in DOMAIN samples : FaultStays(reads, kinds, a, samples[a])
  BY DEF Counters!FaultsStayWhereTheyAre, FaultStays, Counters!Cardinality, Cardinality
<1>2. Counters!FaultsStayWhereTheyAre'
        <=> \A a \in DOMAIN samples' : FaultStays(reads', kinds', a, samples'[a])
  BY DEF Counters!FaultsStayWhereTheyAre, FaultStays, Counters!Cardinality, Cardinality
<1> QED BY <1>1, <1>2

-----------------------------------------------------------------------------
(* One sample. *)

\* The places of the adapter's good readings are places of the array.
LEMMA PlacesOfArray ==
  ASSUME NEW read, NEW a
  PROVE  Counters!Of(read, a) \in SUBSET DOMAIN read.items
  BY DEF Counters!Of

\* A size is shown if one good reading gives it, and then it is that one's.
SizeTold(read, a) ==
  /\ Counters!SizeOf(read, a) # Counters!Missing =>
       \E x \in Counters!ToSet(read.items) :
         x.adapter = a /\ x.status = "good" /\ Counters!SizeOf(read, a) = x.size
  /\ Cardinality({i \in DOMAIN read.items :
                    read.items[i].adapter = a /\ read.items[i].status = "good"}) = 1
       => Counters!SizeOf(read, a) # Counters!Missing

LEMMA SizeIsRead ==
  ASSUME NEW read, MemoryArray(read.items), NEW a \in Displayed
  PROVE  SizeTold(read, a)
<1> DEFINE good == {i \in DOMAIN read.items :
                      read.items[i].adapter = a /\ read.items[i].status = "good"}
           one == CHOOSE i \in Counters!Of(read, a) : TRUE
<1>1. Counters!Of(read, a) = good
  BY DEF Counters!Of, Counters!Bad, Counters!Named, Counters!Known
<1>2. Cardinality(good) = 1 => good # {}
  <2>1. Cardinality({}) = 0
    BY FS_EmptySet
  <2> HIDE DEF good
  <2> QED BY <2>1
<1>3. Counters!SizeOf(read, a) = IF Cardinality(good) = 1 THEN read.items[one].size ELSE Counters!Missing
  BY <1>1 DEF Counters!SizeOf, Counters!Cardinality, Cardinality
<1>4. Cardinality(good) = 1 => one \in good
  BY <1>1, <1>2
<1>5. Cardinality(good) = 1 => read.items[one].size \in Nat
  BY <1>4 DEF MemoryArray
<1> HIDE DEF one
<1>6. Cardinality(good) = 1 =>
        /\ Counters!SizeOf(read, a) = read.items[one].size
        /\ Counters!SizeOf(read, a) # Counters!Missing
        /\ read.items[one] \in Counters!ToSet(read.items)
        /\ read.items[one].adapter = a /\ read.items[one].status = "good"
  BY <1>3, <1>4, <1>5 DEF Counters!Missing, Counters!ToSet
<1>7. Cardinality(good) # 1 => Counters!SizeOf(read, a) = Counters!Missing
  BY <1>3
<1> QED BY <1>6, <1>7 DEF SizeTold

FoundIn(r, a) == Counters!EnginesOf(r["engine"].items, Counters!Of(r["engine"], a))
Complete(r, a) ==
  /\ ~Counters!Issue(r["engine"], a)
  /\ ~Counters!Repeated(r["engine"].items, Counters!Of(r["engine"], a))
  /\ {x \in FoundIn(r, a) : Counters!KindIn(kinds, x)} = FoundIn(r, a)

\* The fields of a sample.
FieldsOf(r, a, s) ==
  /\ s.engines = {x \in FoundIn(r, a) : Counters!KindIn(kinds, x)}
  /\ s.dedicated = Counters!SizeOf(r["dedicated"], a)
  /\ s.shared = Counters!SizeOf(r["shared"], a)
  /\ Complete(r, a) => s.overall = Counters!Max({x.load : x \in FoundIn(r, a)} \union {0})
  /\ ~Complete(r, a) => s.overall = Counters!Missing
  /\ "engine" \in s.faults <=> ~Complete(r, a)
  /\ \A m \in {"dedicated", "shared"} :
       Counters!SizeOf(r[m], a) = Counters!Missing => m \in s.faults

LEMMA SampleFields ==
  ASSUME NEW r, NEW a, NEW s, s = Counters!SampleOf(r, a)
  PROVE  FieldsOf(r, a, s)
<1> DEFINE c == Complete(r, a)
           engines == {x \in FoundIn(r, a) : Counters!KindIn(kinds, x)}
           issues == {q \in Counters!Sources : Counters!Issue(r[q], a)}
           sizes == {q \in {"dedicated", "shared"} : Counters!SizeOf(r[q], a) = Counters!Missing}
           faulty == issues \union (IF c THEN {} ELSE {"engine"}) \union sizes
           highest == Counters!Overall(engines, c)
<1>1. s = [engines |-> engines, overall |-> highest,
           dedicated |-> Counters!SizeOf(r["dedicated"], a),
           shared |-> Counters!SizeOf(r["shared"], a), faults |-> faulty]
  BY DEF Counters!SampleOf, Complete, FoundIn
<1>2. c => highest = Counters!Max({x.load : x \in FoundIn(r, a)} \union {0})
  BY DEF Counters!Overall, Complete
<1>3. ~c => highest = Counters!Missing
  BY DEF Counters!Overall
<1>4. c => "engine" \notin issues
  BY DEF Complete
<1>5. "engine" \in faulty <=> ~c
  <2> HIDE DEF c, issues
  <2> QED BY <1>4
<1>6. \A m \in {"dedicated", "shared"} :
        Counters!SizeOf(r[m], a) = Counters!Missing => m \in faulty
  OBVIOUS
<1>7. s.engines = engines /\ s.overall = highest /\ s.faults = faulty
      /\ s.dedicated = Counters!SizeOf(r["dedicated"], a)
      /\ s.shared = Counters!SizeOf(r["shared"], a)
  <2> HIDE DEF engines, highest, faulty
  <2> QED BY <1>1
<1>8. (Complete(r, a) => s.overall = Counters!Max({x.load : x \in FoundIn(r, a)} \union {0}))
      /\ (~Complete(r, a) => s.overall = Counters!Missing)
  <2> HIDE DEF highest
  <2> QED BY <1>2, <1>3, <1>7
<1>9. "engine" \in s.faults <=> ~Complete(r, a)
  BY <1>5, <1>7
<1>10. \A m \in {"dedicated", "shared"} :
         Counters!SizeOf(r[m], a) = Counters!Missing => m \in s.faults
  BY <1>6, <1>7
<1>11. s.engines = {x \in FoundIn(r, a) : Counters!KindIn(kinds, x)}
  BY <1>7
<1> QED BY <1>7, <1>8, <1>9, <1>10, <1>11 DEF FieldsOf

LEMMA EnginesShown ==
  ASSUME NEW r, NEW a
  PROVE  Counters!SampleOf(r, a).engines = {x \in FoundIn(r, a) : Counters!KindIn(kinds, x)}
<1> DEFINE s == Counters!SampleOf(r, a)
<1>1. FieldsOf(r, a, s)
  BY SampleFields
<1> HIDE DEF s
<1>2. s.engines = {x \in FoundIn(r, a) : Counters!KindIn(kinds, x)}
  BY <1>1 DEF FieldsOf
<1> QED BY <1>2 DEF s

\* The highest load found is a percentage.
LEMMA OverallShown ==
  ASSUME NEW r, ReadsShaped(r), NEW a
  PROVE  Counters!Max({x.load : x \in FoundIn(r, a)} \union {0}) # Counters!Missing
<1> DEFINE t == {x.load : x \in FoundIn(r, a)} \union {0}
<1>1. \A x \in FoundIn(r, a) : x.load \in 0..100
  BY PlacesOfArray, LoadsArePercent DEF ReadsShaped, FoundIn
<1>2. t \in SUBSET (0..100) /\ t # {}
  BY <1>1
<1> HIDE DEF t
<1>3. Counters!Max(t) \in 0..100
  BY <1>2, HighestPercent
<1> QED BY <1>3 DEF t, Counters!Missing

\* No number of a sample is made up.
LEMMA SampleTells ==
  ASSUME NEW r, ReadsShaped(r), NEW a \in Displayed, NEW s, s = Counters!SampleOf(r, a)
  PROVE  NumberTold(r, a, s)
<1> DEFINE items == r["engine"].items
           mine == {i \in DOMAIN items : Counters!Named(items[i]) /\ items[i].adapter = a}
           good == Counters!Of(r["engine"], a)
<1>a. Array(items) /\ good \in SUBSET DOMAIN items /\ DOMAIN items = 1..Len(items) /\ Len(items) \in Nat
  BY PlacesOfArray, ArrayPlaces DEF ReadsShaped, EngineArray
<1>f. FieldsOf(r, a, s)
  BY SampleFields
<1>1. ASSUME Complete(r, a)
      PROVE  /\ r["engine"].error = "none"
             /\ \A i \in DOMAIN items : Counters!Named(items[i]) /\ Counters!Known(items[i])
             /\ \A i \in mine : items[i].status = "good"
             /\ mine = good
  <2>1. /\ r["engine"].error = "none"
        /\ \A i \in DOMAIN items : ~(Counters!Bad(items[i]) /\ Counters!Concerns(items[i], a))
    BY <1>1 DEF Complete, Counters!Issue
  <2>2. \A i \in DOMAIN items : Counters!Named(items[i]) /\ Counters!Known(items[i])
    BY <2>1 DEF Counters!Bad, Counters!Concerns, Counters!Known
  <2>3. \A i \in mine : ~Counters!Bad(items[i])
    BY <2>1 DEF Counters!Concerns
  <2>4. \A i \in mine : items[i].status = "good"
    BY <2>3 DEF Counters!Bad
  <2>5. mine = good
    BY <2>3 DEF Counters!Of, Counters!Bad
  <2> QED BY <2>1, <2>2, <2>4, <2>5
<1>2. ASSUME Complete(r, a), NEW i \in mine, NEW j \in mine,
             Counters!EngineOf(items[i]) = Counters!EngineOf(items[j])
      PROVE  items[i].kind = items[j].kind /\ (items[i].pid = items[j].pid => i = j)
  <2>1. mine = good
    BY <1>1, <1>2
  <2>2. Counters!FirstOf(items, good, i) = Counters!FirstOf(items, good, j)
    BY <1>2, <2>1, SameFirst
  <2>3. Counters!Counts(items, good, i) /\ Counters!Counts(items, good, j)
    BY <1>2, <2>1 DEF Complete, Counters!Repeated
  <2>4. items[i].kind = items[j].kind
    BY <2>2, <2>3 DEF Counters!Counts
  <2>5. i \in Nat /\ j \in Nat
    BY <1>a
  <2>6. items[i].pid = items[j].pid => ~(i < j) /\ ~(j < i)
    BY <1>2, <2>1, <2>3, <2>4 DEF Counters!Counts
  <2> QED BY <2>4, <2>5, <2>6
<1>3. ASSUME Complete(r, a)
      PROVE  s.overall = Counters!Max({LoadOfEngine(items, mine, Counters!EngineOf(items[i])) : i \in mine}
                                      \union {0})
  <2>1. ~Counters!Repeated(items, good) /\ mine = good
    BY <1>1, <1>3 DEF Complete
  <2>2. {x.load : x \in Counters!EnginesOf(items, good)}
          = {LoadOfEngine(items, good, Counters!EngineOf(items[i])) : i \in good}
    BY <1>a, <2>1, LoadsShown
  <2>3. s.overall = Counters!Max({x.load : x \in FoundIn(r, a)} \union {0})
    BY <1>3, <1>f DEF FieldsOf
  <2> HIDE DEF mine, good
  <2>4. s.overall = Counters!Max({LoadOfEngine(items, good, Counters!EngineOf(items[i])) : i \in good}
                                 \union {0})
    BY <2>2, <2>3 DEF FoundIn, good
  <2> QED BY <2>1, <2>4
<1>4. ~Complete(r, a) => s.overall = Counters!Missing
  BY <1>f DEF FieldsOf
<1>5. Complete(r, a) => s.overall # Counters!Missing
  <2>1. Counters!Max({x.load : x \in FoundIn(r, a)} \union {0}) # Counters!Missing
    BY OverallShown
  <2> QED BY <1>f, <2>1 DEF FieldsOf
<1>6. s.overall = Counters!Missing <=> "engine" \in s.faults
  BY <1>4, <1>5, <1>f DEF FieldsOf
<1>7. s["dedicated"] = Counters!SizeOf(r["dedicated"], a) /\ s["shared"] = Counters!SizeOf(r["shared"], a)
  BY <1>f DEF FieldsOf
<1>s. MemoryArray(r["dedicated"].items) /\ MemoryArray(r["shared"].items)
  BY DEF ReadsShaped
<1>8. \A m \in {"dedicated", "shared"} : s[m] # Counters!Missing =>
        \E x \in Counters!ToSet(r[m].items) :
          x.adapter = a /\ x.status = "good" /\ s[m] = x.size
  <2>1. SizeTold(r["dedicated"], a) /\ SizeTold(r["shared"], a)
    BY <1>s, SizeIsRead
  <2>2. \A m \in {"dedicated", "shared"} : SizeTold(r[m], a) /\ s[m] = Counters!SizeOf(r[m], a)
    BY <1>7, <2>1
  <2> QED BY <2>2 DEF SizeTold
<1>m. \A m \in {"dedicated", "shared"} : s[m] = Counters!Missing => m \in s.faults
  <2>1. \A m \in {"dedicated", "shared"} : Counters!SizeOf(r[m], a) = Counters!Missing => m \in s.faults
    BY <1>f DEF FieldsOf
  <2> QED BY <1>7, <2>1
<1>9. s.overall # Counters!Missing => Complete(r, a)
  BY <1>4
<1>10. s.overall # Counters!Missing =>
         \A i, j \in mine : Counters!EngineOf(items[i]) = Counters!EngineOf(items[j]) =>
           items[i].kind = items[j].kind /\ (items[i].pid = items[j].pid => i = j)
  BY <1>2, <1>9
<1>11. s.overall # Counters!Missing =>
         /\ r["engine"].error = "none"
         /\ \A i \in DOMAIN items : Counters!Named(items[i]) /\ Counters!Known(items[i])
         /\ \A i \in mine : items[i].status = "good"
         /\ s.overall = Counters!Max({LoadOfEngine(items, mine, Counters!EngineOf(items[i])) : i \in mine}
                                     \union {0})
  BY <1>1, <1>3, <1>9
<1> HIDE DEF good
<1> QED BY <1>6, <1>8, <1>m, <1>10, <1>11 DEF NumberTold

\* What is known of the engines of a sample afterwards, and what was before.
KnownFor(known, r, a) ==
  /\ \A e \in DOMAIN kinds : known[e] = kinds[e]
  /\ \A x \in FoundIn(r, a) : Counters!KindIn(kinds, x) =>
       x.engine \in DOMAIN known /\ x.kind = known[x.engine]

\* A fault stays where it is.
LEMMA SampleKeepsFaults ==
  ASSUME NEW r, ReadsShaped(r), NEW a \in Displayed, NEW s, s = Counters!SampleOf(r, a),
         NEW known, KnownFor(known, r, a)
  PROVE  FaultStays(r, known, a, s)
<1> DEFINE items == r["engine"].items
           mine == {i \in DOMAIN items : items[i].adapter = a}
           good == Counters!Of(r["engine"], a)
<1>a. Array(items) /\ good \in SUBSET DOMAIN items /\ DOMAIN items = 1..Len(items) /\ Len(items) \in Nat
  BY PlacesOfArray, ArrayPlaces DEF ReadsShaped, EngineArray
<1>f. FieldsOf(r, a, s)
  BY SampleFields
<1>1. ASSUME NEW m \in {"dedicated", "shared"},
             Cardinality({i \in DOMAIN r[m].items :
                            r[m].items[i].adapter = a /\ r[m].items[i].status = "good"}) = 1
      PROVE  s[m] # Counters!Missing
  <2>1. MemoryArray(r[m].items)
    BY DEF ReadsShaped
  <2>2. SizeTold(r[m], a)
    BY <2>1, SizeIsRead
  <2>3. s[m] = Counters!SizeOf(r[m], a)
    BY <1>f DEF FieldsOf
  <2> QED BY <1>1, <2>2, <2>3 DEF SizeTold
<1>2. ASSUME r["engine"].error = "none",
             \A i \in DOMAIN items : Counters!Named(items[i]) /\ Counters!Known(items[i]),
             \A i \in DOMAIN items \ mine :
               items[i].adapter \in Hidden => items[i].status = "good",
             \A i \in mine : items[i].status = "good"
                             /\ known[Counters!EngineOf(items[i])] = items[i].kind,
             \A i, j \in mine : Counters!EngineOf(items[i]) = Counters!EngineOf(items[j])
                                  /\ items[i].pid = items[j].pid => i = j
      PROVE  s.overall # Counters!Missing
  <2>1. ~Counters!Issue(r["engine"], a)
    BY <1>2 DEF Counters!Issue, Counters!Bad, Counters!Concerns, Counters!Known
  <2>2. good \subseteq mine
    BY DEF Counters!Of
  <2>3. ASSUME NEW i \in good PROVE Counters!Counts(items, good, i)
    <3> DEFINE f == Counters!FirstOf(items, good, i)
    <3>1. f \in good /\ Counters!EngineOf(items[f]) = Counters!EngineOf(items[i])
      BY <1>a, <2>3, FirstPlace
    <3> HIDE DEF f
    <3>2. items[f].kind = items[i].kind
      BY <1>2, <2>2, <2>3, <3>1
    <3>3. ASSUME NEW j \in good, j < i
          PROVE  <<items[j].pid, Counters!EngineOf(items[j]), items[j].kind>>
                   # <<items[i].pid, Counters!EngineOf(items[i]), items[i].kind>>
      <4>1. i \in Nat /\ j \in Nat
        BY <1>a, <2>3, <3>3
      <4> QED BY <1>2, <2>2, <2>3, <3>3, <4>1
    <3> QED BY <3>2, <3>3 DEF f, Counters!Counts
  <2>4. ~Counters!Repeated(items, good)
    BY <2>3 DEF Counters!Repeated
  <2>5. ASSUME NEW x \in FoundIn(r, a) PROVE Counters!KindIn(kinds, x)
    <3>1. PICK i \in good : x.engine = Counters!EngineOf(items[i]) /\ x.kind = items[i].kind
      BY <1>a, <2>5, EngineIsRead DEF FoundIn
    <3>2. known[x.engine] = x.kind
      BY <1>2, <2>2, <3>1
    <3> QED BY <3>2 DEF KnownFor, Counters!KindIn
  <2>6. Complete(r, a)
    BY <2>1, <2>4, <2>5 DEF Complete
  <2>7. Counters!Max({x.load : x \in FoundIn(r, a)} \union {0}) # Counters!Missing
    BY OverallShown
  <2> QED BY <1>f, <2>6, <2>7 DEF FieldsOf
<1> HIDE DEF good
<1> QED BY <1>1, <1>2 DEF FaultStays

-----------------------------------------------------------------------------
(* The steps. *)

CountersTrue ==
  Counters!NoNumberIsInvented /\ Counters!FaultsStayWhereTheyAre /\ Counters!KindsFit

\* What is read is what a counter may return, or nothing.
LEMMA ReadIsShaped ==
  /\ \A e \in Counters!Read("engine", EngineReads) : EngineArray(e.items)
  /\ \A d \in Counters!Read("dedicated", DedicatedReads) : MemoryArray(d.items)
  /\ \A h \in Counters!Read("shared", SharedReads) : MemoryArray(h.items)
<1>1. EngineArray(<<>>) /\ MemoryArray(<<>>)
  <2>1. DOMAIN <<>> = {}
    OBVIOUS
  <2> QED BY <2>1 DEF EngineArray, MemoryArray, Array
<1>2. \A x \in EngineReads : EngineArray(x)
  BY CountersAssumption DEF EngineArray, Array
<1>3. \A x \in DedicatedReads \union SharedReads : MemoryArray(x)
  BY CountersAssumption DEF MemoryArray, Array
<1>4. \A s, possible : \A e \in Counters!Read(s, possible) : e.items = <<>> \/ e.items \in possible
  BY DEF Counters!Read
<1> QED BY <1>1, <1>2, <1>3, <1>4

AllFound(r) == UNION {Counters!SampleOf(r, a).engines : a \in Displayed}

\* Over all adapters, an engine is found once.
LEMMA FoundOnce ==
  ASSUME NEW r, ReadsShaped(r), NEW x \in AllFound(r), NEW y \in AllFound(r), x.engine = y.engine
  PROVE  x = y
<1>1. PICK a \in Displayed : x \in Counters!SampleOf(r, a).engines
  BY DEF AllFound
<1>2. PICK b \in Displayed : y \in Counters!SampleOf(r, b).engines
  BY DEF AllFound
<1>3. x \in FoundIn(r, a) /\ y \in FoundIn(r, b)
  BY <1>1, <1>2, EnginesShown
<1>4. /\ Array(r["engine"].items)
      /\ Counters!Of(r["engine"], a) \in SUBSET DOMAIN r["engine"].items
      /\ Counters!Of(r["engine"], b) \in SUBSET DOMAIN r["engine"].items
  BY PlacesOfArray DEF ReadsShaped, EngineArray
<1>5. PICK i \in Counters!Of(r["engine"], a) : x.engine = Counters!EngineOf(r["engine"].items[i])
  BY <1>3, <1>4, EngineIsRead DEF FoundIn
<1>6. PICK j \in Counters!Of(r["engine"], b) : y.engine = Counters!EngineOf(r["engine"].items[j])
  BY <1>3, <1>4, EngineIsRead DEF FoundIn
<1>7. r["engine"].items[i].adapter = a /\ r["engine"].items[j].adapter = b
  BY DEF Counters!Of
<1>8. a = b
  <2>1. \A item : Counters!EngineOf(item)[1] = item.adapter
    BY DEF Counters!EngineOf
  <2> QED BY <1>5, <1>6, <1>7, <2>1
<1> QED BY <1>3, <1>4, <1>8, EnginesDiffer DEF FoundIn

\* What is learned keeps what was known and has the kinds of the engines shown.
LEMMA LearnedKnows ==
  ASSUME NEW r, ReadsShaped(r), NEW a \in Displayed
  PROVE  KnownFor(Counters!Learned(kinds, AllFound(r)), r, a)
<1> DEFINE known == Counters!Learned(kinds, AllFound(r))
           kind(e) == (CHOOSE y \in AllFound(r) : y.engine = e).kind
<1>1. known = [e \in DOMAIN kinds \union {x.engine : x \in AllFound(r)} |->
                 IF e \in DOMAIN kinds THEN kinds[e] ELSE kind(e)]
  BY DEF Counters!Learned
<1>2. ASSUME NEW x \in FoundIn(r, a), Counters!KindIn(kinds, x)
      PROVE  x.engine \in DOMAIN known /\ x.kind = known[x.engine]
  <2>1. x \in Counters!SampleOf(r, a).engines
    BY <1>2, EnginesShown
  <2>2. x \in AllFound(r)
    BY <2>1 DEF AllFound
  <2>3. (CHOOSE y \in AllFound(r) : y.engine = x.engine) = x
    BY <2>2, FoundOnce
  <2>4. kind(x.engine) = x.kind
    BY <2>3
  <2> HIDE DEF kind, known
  <2>5. known[x.engine] = IF x.engine \in DOMAIN kinds THEN kinds[x.engine] ELSE kind(x.engine)
    BY <1>1, <2>2
  <2>6. x.engine \in DOMAIN known
    BY <1>1, <2>2
  <2> QED BY <1>2, <2>4, <2>5, <2>6 DEF Counters!KindIn
<1>3. \A e \in DOMAIN kinds : known[e] = kinds[e]
  <2> HIDE DEF kind, known
  <2> QED BY <1>1
<1> HIDE DEF known
<1> QED BY <1>2, <1>3 DEF KnownFor, known

\* A collection publishes true samples.
LEMMA PublishedAreTrue ==
  ASSUME NEW r, ReadsShaped(r),
         reads' = r, samples' = [a \in Displayed |-> Counters!SampleOf(r, a)],
         kinds' = Counters!Learned(kinds, AllFound(r))
  PROVE  CountersTrue'
<1>1. DOMAIN samples' = Displayed /\ \A a \in Displayed : samples'[a] = Counters!SampleOf(r, a)
  OBVIOUS
<1>2. \A a \in Displayed : KnownFor(kinds', r, a)
  BY LearnedKnows
<1>3. \A a \in Displayed : NumberTold(r, a, samples'[a])
  BY <1>1, SampleTells
<1>4. \A a \in Displayed : FaultStays(r, kinds', a, samples'[a])
  BY <1>1, <1>2, SampleKeepsFaults
<1>5. Counters!NoNumberIsInvented'
  BY <1>1, <1>3, NumbersTold
<1>6. Counters!FaultsStayWhereTheyAre'
  BY <1>1, <1>4, FaultsStayed
<1>7. ASSUME NEW a \in Displayed, NEW x \in samples'[a].engines
      PROVE  x.engine \in DOMAIN kinds' /\ x.kind = kinds'[x.engine]
  <2>1. x \in FoundIn(r, a) /\ Counters!KindIn(kinds, x)
    BY <1>1, <1>7, EnginesShown
  <2> QED BY <1>2, <2>1 DEF KnownFor
<1>8. Counters!KindsFit'
  BY <1>1, <1>7 DEF Counters!KindsFit
<1> QED BY <1>5, <1>6, <1>8 DEF CountersTrue

\* Init.
LEMMA CountersStart == Counters!Init => CountersTrue
<1> SUFFICES ASSUME Counters!Init PROVE CountersTrue
  OBVIOUS
<1>1. DOMAIN samples = {}
  BY DEF Counters!Init
<1> QED BY <1>1 DEF CountersTrue, Counters!NoNumberIsInvented, Counters!FaultsStayWhereTheyAre,
               Counters!KindsFit

\* What is on screen stays true as long as nothing is published.
LEMMA CountersRest ==
  ASSUME CountersTrue, UNCHANGED <<kinds, samples, reads>>
  PROVE  CountersTrue'
<1>1. Counters!NoNumberIsInvented'
  <2>1. \A a \in DOMAIN samples : NumberTold(reads, a, samples[a])
    BY NumbersTold DEF CountersTrue
  <2> QED BY <2>1, NumbersTold
<1>2. Counters!FaultsStayWhereTheyAre'
  <2>1. \A a \in DOMAIN samples : FaultStays(reads, kinds, a, samples[a])
    BY FaultsStayed DEF CountersTrue
  <2> QED BY <2>1, FaultsStayed
<1>3. Counters!KindsFit'
  BY DEF CountersTrue, Counters!KindsFit
<1> QED BY <1>1, <1>2, <1>3 DEF CountersTrue

LEMMA CollectKeeps ==
  ASSUME CountersTrue, Counters!Collect
  PROVE  CountersTrue'
<1>1. PICK e \in Counters!Read("engine", EngineReads) :
        IF Counters!Baseline(e) THEN UNCHANGED <<ready, kinds, samples, reads>>
        ELSE \E d \in Counters!Read("dedicated", DedicatedReads),
                h \in Counters!Read("shared", SharedReads) :
               LET r == [engine |-> e, dedicated |-> d, shared |-> h]
                   new == [a \in Displayed |-> Counters!SampleOf(r, a)]
               IN  /\ reads' = r /\ samples' = new /\ ready' = TRUE
                   /\ kinds' = Counters!Learned(kinds, UNION {new[a].engines : a \in Displayed})
  BY DEF Counters!Collect
<1>2. CASE Counters!Baseline(e)
  BY <1>1, <1>2, CountersRest
<1>3. CASE ~Counters!Baseline(e)
  <2>1. PICK d \in Counters!Read("dedicated", DedicatedReads),
             h \in Counters!Read("shared", SharedReads) :
          LET r == [engine |-> e, dedicated |-> d, shared |-> h]
              new == [a \in Displayed |-> Counters!SampleOf(r, a)]
          IN  /\ reads' = r /\ samples' = new /\ ready' = TRUE
              /\ kinds' = Counters!Learned(kinds, UNION {new[a].engines : a \in Displayed})
    BY <1>1, <1>3
  <2> DEFINE r == [engine |-> e, dedicated |-> d, shared |-> h]
             new == [a \in Displayed |-> Counters!SampleOf(r, a)]
  <2>2. r["engine"] = e /\ r["dedicated"] = d /\ r["shared"] = h
    OBVIOUS
  <2>3. reads' = r /\ samples' = new
        /\ kinds' = Counters!Learned(kinds, UNION {new[a].engines : a \in Displayed})
    BY <2>1
  <2> HIDE DEF r
  <2>4. ReadsShaped(r)
    BY <2>2, ReadIsShaped DEF ReadsShaped
  <2>5. {new[a].engines : a \in Displayed} = {Counters!SampleOf(r, a).engines : a \in Displayed}
    OBVIOUS
  <2>6. kinds' = Counters!Learned(kinds, AllFound(r))
    BY <2>3, <2>5 DEF AllFound
  <2> QED BY <2>3, <2>4, <2>6, PublishedAreTrue
<1> QED BY <1>2, <1>3

LEMMA CountersKeep == CountersTrue /\ [Counters!Next]_(Counters!vars) => CountersTrue'
<1> SUFFICES ASSUME CountersTrue, [Counters!Next]_(Counters!vars) PROVE CountersTrue'
  OBVIOUS
<1>1. CASE Counters!Rebuild
  <2>1. DOMAIN samples' = {}
    BY <1>1 DEF Counters!Rebuild
  <2> QED BY <2>1 DEF CountersTrue, Counters!NoNumberIsInvented,
                 Counters!FaultsStayWhereTheyAre, Counters!KindsFit
<1>2. CASE Counters!Collect
  BY <1>2, CollectKeeps
<1>3. CASE Counters!CollectFails
  BY <1>3, CountersRest DEF Counters!CollectFails
<1>4. CASE UNCHANGED Counters!vars
  BY <1>4, CountersRest DEF Counters!vars
<1> QED BY <1>1, <1>2, <1>3, <1>4 DEF Counters!Next

\* A step of the services is one of the counters, if it is about them.
LEMMA CountersStep ==
  ASSUME [ServicesNext]_everything
  PROVE  which' = which /\ (which = "counters" => [Counters!Next]_(Counters!vars))
  BY DEF ServicesNext, everything, counterVars, Counters!vars

\* A GPU row shows what its counters returned and says where they failed, a
\* failure stays with its counter and its adapter, and an engine keeps its kind
\* (assemble_counter_samples, validated_engine_kinds).
THEOREM SamplesTell == ServicesSpec => []SamplesAreTrue
<1> DEFINE Kept == which = "counters" => CountersTrue
<1>1. ServicesInit => Kept
  BY CountersStart DEF ServicesInit
<1>2. Kept /\ [ServicesNext]_everything => Kept'
  BY CountersStep, CountersKeep
<1>3. Kept => SamplesAreTrue
  BY DEF CountersTrue, SamplesAreTrue
<1> QED
  BY <1>1, <1>2, <1>3, PTL DEF ServicesSpec, everything

-----------------------------------------------------------------------------
(* Sets of places.  The elements of a finite set of numbers have the ranks   *)
(* 1 to its size, each once, in their order.                                 *)

Below(s, i) == {j \in s : j < i}

\* A rank is one of the set, and a later element has a higher one.
LEMMA RanksRise ==
  ASSUME NEW n \in Nat, NEW s \in SUBSET (1..n)
  PROVE  /\ IsFiniteSet(s) /\ Cardinality(s) \in Nat
         /\ \A i \in s : Cardinality(Below(s, i)) \in Nat
                         /\ Cardinality(Below(s, i)) + 1 <= Cardinality(s)
         /\ \A i, j \in s : i < j => Cardinality(Below(s, i)) < Cardinality(Below(s, j))
<1>1. IsFiniteSet(s) /\ Cardinality(s) \in Nat
  <2>1. IsFiniteSet(1..n)
    BY FS_Interval
  <2> QED BY <2>1, FS_Subset, FS_CardinalityType
<1>2. \A i \in s : IsFiniteSet(Below(s, i)) /\ Cardinality(Below(s, i)) \in Nat
  <2> TAKE i \in s
  <2>1. Below(s, i) \in SUBSET s
    BY DEF Below
  <2> QED BY <1>1, <2>1, FS_Subset, FS_CardinalityType
<1>3. ASSUME NEW i \in s
      PROVE  Cardinality(Below(s, i)) + 1 <= Cardinality(s)
  <2>1. Below(s, i) \in SUBSET (s \ {i})
    BY DEF Below
  <2>2. IsFiniteSet(s \ {i}) /\ Cardinality(s \ {i}) = Cardinality(s) - 1
    BY <1>1, FS_RemoveElement
  <2>3. Cardinality(Below(s, i)) <= Cardinality(s \ {i})
    BY <2>1, <2>2, FS_Subset
  <2> QED BY <1>1, <1>2, <2>2, <2>3
<1>4. ASSUME NEW i \in s, NEW j \in s, i < j
      PROVE  Cardinality(Below(s, i)) < Cardinality(Below(s, j))
  <2>1. Below(s, i) \union {i} \in SUBSET Below(s, j) /\ i \notin Below(s, i)
    <3>1. i \in Int /\ j \in Int /\ \A k \in s : k \in Int
      OBVIOUS
    <3>2. \A k \in s : k < i => k < j
      BY <1>4, <3>1
    <3>3. ~(i < i)
      BY <3>1
    <3> QED BY <1>4, <3>2, <3>3 DEF Below
  <2>2. IsFiniteSet(Below(s, i) \union {i})
        /\ Cardinality(Below(s, i) \union {i}) = Cardinality(Below(s, i)) + 1
    BY <1>2, <2>1, FS_AddElement
  <2>3. Cardinality(Below(s, i) \union {i}) <= Cardinality(Below(s, j))
    BY <1>2, <2>1, FS_Subset
  <2> QED BY <1>2, <2>2, <2>3
<1> QED BY <1>1, <1>2, <1>3, <1>4

\* An element has a rank of its own.
LEMMA RanksDiffer ==
  ASSUME NEW n \in Nat, NEW s \in SUBSET (1..n), NEW i \in s, NEW j \in s,
         Cardinality(Below(s, i)) = Cardinality(Below(s, j))
  PROVE  i = j
<1>1. ~(i < j) /\ ~(j < i)
  <2>1. /\ \A a, b \in s : a < b => Cardinality(Below(s, a)) < Cardinality(Below(s, b))
        /\ Cardinality(Below(s, i)) \in Nat
    BY RanksRise
  <2> QED BY <2>1
<1>2. i \in Int /\ j \in Int
  OBVIOUS
<1> QED BY <1>1, <1>2

\* Every rank is taken.
LEMMA RanksTaken ==
  ASSUME NEW n \in Nat, NEW s \in SUBSET (1..n), NEW k \in 1..Cardinality(s)
  PROVE  \E i \in s : Cardinality(Below(s, i)) = k - 1
<1> DEFINE c == Cardinality(s)
           f == [i \in s |-> Cardinality(Below(s, i)) + 1]
<1>1. /\ IsFiniteSet(s) /\ c \in Nat
      /\ \A i \in s : Cardinality(Below(s, i)) \in Nat /\ Cardinality(Below(s, i)) + 1 <= c
  BY RanksRise
<1>2. IsFiniteSet(1..c) /\ Cardinality(1..c) = c
  <2> HIDE DEF c
  <2> QED BY <1>1, FS_Interval
<1>3. f \in Injection(s, 1..c)
  <2> HIDE DEF c
  <2>1. f \in [s -> 1..c]
    BY <1>1
  <2>2. ASSUME NEW i \in s, NEW j \in s, f[i] = f[j] PROVE i = j
    <3>1. Cardinality(Below(s, i)) + 1 = Cardinality(Below(s, j)) + 1
      BY <2>2
    <3>2. Cardinality(Below(s, i)) = Cardinality(Below(s, j))
      BY <1>1, <3>1
    <3> QED BY <3>2, RanksDiffer
  <2> QED BY <2>1, <2>2 DEF Injection, IsInjective
<1>4. f \in Surjection(s, 1..c)
  BY <1>1, <1>2, <1>3, FS_Injection
<1>5. PICK i \in s : f[i] = k
  BY <1>4 DEF Surjection
<1>6. Cardinality(Below(s, i)) + 1 = k
  BY <1>5
<1> HIDE DEF c, f
<1> QED BY <1>1, <1>6

Nth(s, k) == CHOOSE i \in s : Cardinality(Below(s, i)) = k - 1

\* What is found at a rank.
LEMMA NthIsThere ==
  ASSUME NEW n \in Nat, NEW s \in SUBSET (1..n)
  PROVE  /\ Cardinality(s) \in Nat
         /\ \A k \in 1..Cardinality(s) :
              Nth(s, k) \in s /\ Cardinality(Below(s, Nth(s, k))) = k - 1
         /\ \A i \in s : Cardinality(Below(s, i)) + 1 \in 1..Cardinality(s)
                         /\ Nth(s, Cardinality(Below(s, i)) + 1) = i
<1>1. /\ Cardinality(s) \in Nat
      /\ \A i \in s : Cardinality(Below(s, i)) \in Nat /\ Cardinality(Below(s, i)) + 1 <= Cardinality(s)
  BY RanksRise
<1>2. ASSUME NEW k \in 1..Cardinality(s)
      PROVE  Nth(s, k) \in s /\ Cardinality(Below(s, Nth(s, k))) = k - 1
  BY RanksTaken DEF Nth
<1>3. ASSUME NEW i \in s
      PROVE  Cardinality(Below(s, i)) + 1 \in 1..Cardinality(s)
             /\ Nth(s, Cardinality(Below(s, i)) + 1) = i
  <2> DEFINE k == Cardinality(Below(s, i)) + 1
  <2>1. k \in 1..Cardinality(s) /\ k - 1 = Cardinality(Below(s, i))
    BY <1>1, <1>3
  <2> HIDE DEF k
  <2>2. Nth(s, k) \in s /\ Cardinality(Below(s, Nth(s, k))) = Cardinality(Below(s, i))
    BY <1>2, <2>1
  <2>3. Nth(s, k) = i
    BY <2>2, RanksDiffer
  <2> QED BY <2>1, <2>3 DEF k
<1> QED BY <1>1, <1>2, <1>3

-----------------------------------------------------------------------------
(* The stored options. *)

Cells == [1..(NumColumn + 1) -> [column : Int, width : Int]]

LEMMA OptionsNth == ASSUME NEW s, NEW k PROVE Options!Nth(s, k) = Nth(s, k)
  BY DEF Options!Nth, Nth, Below, Options!Cardinality, Cardinality

LEMMA CellFields ==
  ASSUME NEW a \in Int, NEW w \in Int
  PROVE  /\ Options!Cell(a, w) \in [column : Int, width : Int]
         /\ Options!Cell(a, w).column = a /\ Options!Cell(a, w).width = w
  BY DEF Options!Cell

LEMMA CellIsFields ==
  ASSUME NEW c \in [column : Int, width : Int]
  PROVE  Options!Cell(c.column, c.width) = c
  BY DEF Options!Cell

LEMMA WidthFits ==
  ASSUME NEW w \in Int
  PROVE  /\ Options!Width(w) \in Int /\ (Options!Width(w) = -1 \/ Options!Width(w) > 0)
         /\ (w = -1 \/ w > 0) => Options!Width(w) = w
  BY DEF Options!Width

\* The first place with the image name, if there is one.
LEMMA ImageWidthFits ==
  ASSUME NEW cs \in Cells
  PROVE  /\ Options!ImageWidth(cs) \in Int
         /\ Options!ImageWidth(cs) = -1 \/ Options!ImageWidth(cs) > 0
<1> DEFINE image == {i \in DOMAIN cs : cs[i].column = 0}
           first == CHOOSE i \in image : \A j \in image : i <= j
<1>1. NumColumn + 1 \in Nat /\ DOMAIN cs = 1..(NumColumn + 1)
  BY OptionsAssumption DEF Cells
<1>2. image # {} => first \in image
  <2>1. image \in SUBSET (1..(NumColumn + 1))
    BY <1>1
  <2> HIDE DEF image
  <2>2. image # {} => Counters!Min(image) \in image
    BY <1>1, <2>1, LowestPlace
  <2> QED BY <2>2 DEF Counters!Min
<1>3. image # {} => cs[first].width \in Int
  BY <1>1, <1>2 DEF Cells
<1>4. Options!ImageWidth(cs) = IF image = {} THEN -1 ELSE Options!Width(cs[first].width)
  BY DEF Options!ImageWidth
<1> HIDE DEF image, first
<1> QED BY <1>3, <1>4, WidthFits

\* What the normalized columns are, place by place.
NormalCells(cs, to) ==
  LET t == Options!Others(cs) IN
  /\ to = [i \in 1..(NumColumn + 1) |-> to[i]]
  /\ to[1] = Options!Cell(0, Options!ImageWidth(cs))
  /\ \A i \in 2..(NumColumn + 1) : i - 1 <= Cardinality(t) =>
       to[i] = Options!Cell(cs[Nth(t, i - 1)].column, Options!Width(cs[Nth(t, i - 1)].width))
  /\ \A i \in 2..(NumColumn + 1) : ~(i - 1 <= Cardinality(t)) => to[i] = Options!End

LEMMA NormalizedCells ==
  ASSUME NEW cs
  PROVE  NormalCells(cs, Options!NormalizedColumns(cs))
<1> DEFINE t == Options!Others(cs)
           n == NumColumn + 1
           c == Cardinality(t)
           at(k) == Options!Cell(cs[Nth(t, k)].column, Options!Width(cs[Nth(t, k)].width))
           image == Options!Cell(0, Options!ImageWidth(cs))
           to == Options!NormalizedColumns(cs)
<1>1. to = [i \in 1..n |-> IF i = 1 THEN image ELSE IF i - 1 <= c THEN at(i - 1) ELSE Options!End]
  BY OptionsNth DEF Options!NormalizedColumns, Options!Cardinality, Cardinality
<1>2. n \in Nat /\ n >= 1
  BY OptionsAssumption
<1> HIDE DEF at, image, to, c, n
<1>3. to = [i \in 1..n |-> to[i]] /\ to[1] = image
  BY <1>1, <1>2
<1>4. \A i \in 2..n : i - 1 <= c => to[i] = at(i - 1)
  BY <1>1, <1>2
<1>5. \A i \in 2..n : ~(i - 1 <= c) => to[i] = Options!End
  BY <1>1, <1>2
<1> HIDE DEF t
<1> QED BY <1>3, <1>4, <1>5 DEF NormalCells, at, image, c, n, to, t

LEMMA OthersArePlaces ==
  ASSUME NEW cs \in Cells
  PROVE  /\ NumColumn + 1 \in Nat /\ Options!Others(cs) \in SUBSET (1..(NumColumn + 1))
         /\ \A i \in Options!Others(cs) :
              cs[i].column \in Int /\ cs[i].width \in Int /\ cs[i].column \in 1..(NumColumn - 1)
         /\ \A i, j \in Options!Others(cs) : i # j => cs[i].column # cs[j].column
<1>1. NumColumn + 1 \in Nat /\ DOMAIN cs = 1..(NumColumn + 1)
  BY OptionsAssumption DEF Cells
<1>2. \A i \in 1..(NumColumn + 1) : cs[i].column \in Int /\ cs[i].width \in Int
  BY DEF Cells
<1>3. ASSUME NEW i \in Options!Others(cs), NEW j \in Options!Others(cs), i # j
      PROVE  cs[i].column # cs[j].column
  <2>1. i \in Int /\ j \in Int /\ i >= 1 /\ j >= 1
    BY <1>1 DEF Options!Others
  <2>2. i \in 1..(j - 1) \/ j \in 1..(i - 1)
    BY <1>3, <2>1
  <2> QED BY <2>2 DEF Options!Others
<1> QED BY <1>1, <1>2, <1>3 DEF Options!Others

\* The columns of a normalized list, place by place.
NormalColumns(cs, to) ==
  LET t == Options!Others(cs) IN
  /\ to[1].column = 0 /\ (to[1].width = -1 \/ to[1].width > 0)
  /\ \A i \in 2..(NumColumn + 1) : i - 1 <= Cardinality(t) =>
       /\ Nth(t, i - 1) \in t /\ Cardinality(Below(t, Nth(t, i - 1))) = i - 2
       /\ to[i].column = cs[Nth(t, i - 1)].column /\ (to[i].width = -1 \/ to[i].width > 0)
  /\ \A i \in 2..(NumColumn + 1) : ~(i - 1 <= Cardinality(t)) =>
       to[i].column = -1 /\ to[i].width = -1

LEMMA NormalizedFits ==
  ASSUME NEW cs \in Cells
  PROVE  /\ Options!NormalizedColumns(cs) \in Cells
         /\ NormalColumns(cs, Options!NormalizedColumns(cs))
<1> DEFINE t == Options!Others(cs)
           to == Options!NormalizedColumns(cs)
           c == Cardinality(t)
           n == NumColumn + 1
<1>1. NormalCells(cs, to)
  BY NormalizedCells
<1>2. /\ n \in Nat /\ n >= 1 /\ t \in SUBSET (1..n)
      /\ \A i \in t : cs[i].column \in Int /\ cs[i].width \in Int
  BY OthersArePlaces, OptionsAssumption
<1>3. c \in Nat /\ \A k \in 1..c : Nth(t, k) \in t /\ Cardinality(Below(t, Nth(t, k))) = k - 1
  <2> HIDE DEF t, n
  <2> QED BY <1>2, NthIsThere
<1> HIDE DEF t, to, c
<1>4. to[1] \in [column : Int, width : Int] /\ to[1].column = 0
      /\ (to[1].width = -1 \/ to[1].width > 0)
  <2>1. to[1] = Options!Cell(0, Options!ImageWidth(cs))
    BY <1>1 DEF NormalCells
  <2> QED BY <2>1, ImageWidthFits, CellFields
<1>5. ASSUME NEW i \in 2..n, i - 1 <= c
      PROVE  /\ to[i] \in [column : Int, width : Int]
             /\ Nth(t, i - 1) \in t /\ Cardinality(Below(t, Nth(t, i - 1))) = i - 2
             /\ to[i].column = cs[Nth(t, i - 1)].column
             /\ (to[i].width = -1 \/ to[i].width > 0)
  <2> DEFINE k == i - 1
  <2>1. k \in 1..c /\ k - 1 = i - 2
    BY <1>2, <1>3, <1>5
  <2>2. to[i] = Options!Cell(cs[Nth(t, k)].column, Options!Width(cs[Nth(t, k)].width))
    BY <1>1, <1>5 DEF NormalCells, t, c
  <2> HIDE DEF k
  <2>3. Nth(t, k) \in t /\ Cardinality(Below(t, Nth(t, k))) = i - 2
    BY <1>3, <2>1
  <2>4. /\ to[i] \in [column : Int, width : Int] /\ to[i].column = cs[Nth(t, k)].column
        /\ (to[i].width = -1 \/ to[i].width > 0)
    <3> DEFINE a == cs[Nth(t, k)].column
               w == Options!Width(cs[Nth(t, k)].width)
    <3>1. a \in Int /\ cs[Nth(t, k)].width \in Int
      BY <1>2, <2>3
    <3>2. w \in Int /\ (w = -1 \/ w > 0)
      BY <3>1, WidthFits
    <3> HIDE DEF a, w
    <3>3. to[i] = Options!Cell(a, w)
      BY <2>2 DEF a, w
    <3>4. to[i] \in [column : Int, width : Int] /\ to[i].column = a /\ to[i].width = w
      BY <3>1, <3>2, <3>3, CellFields
    <3> QED BY <3>2, <3>4 DEF a
  <2> QED BY <2>3, <2>4 DEF k
<1>6. ASSUME NEW i \in 2..n, ~(i - 1 <= c)
      PROVE  /\ to[i] \in [column : Int, width : Int]
             /\ to[i].column = -1 /\ to[i].width = -1
  <2>1. to[i] = Options!Cell(-1, -1)
    BY <1>1, <1>6 DEF NormalCells, t, c, Options!End
  <2> QED BY <2>1, CellFields
<1>7. to = [i \in 1..n |-> to[i]]
  BY <1>1 DEF NormalCells
<1>8. \A i \in 1..n : to[i] \in [column : Int, width : Int]
  <2> TAKE i \in 1..n
  <2>1. i = 1 \/ i \in 2..n
    BY <1>2
  <2> QED BY <1>4, <1>5, <1>6, <2>1
<1>9. to \in Cells
  BY <1>7, <1>8 DEF Cells
<1>10. NormalColumns(cs, to)
  BY <1>4, <1>5, <1>6 DEF NormalColumns, t, c
<1> QED BY <1>9, <1>10 DEF to

\* A repaired list of columns is valid.
LEMMA NormalizedIsValid ==
  ASSUME NEW cs \in Cells
  PROVE  Options!ColumnsAreValid(Options!NormalizedColumns(cs))
<1> DEFINE t == Options!Others(cs)
           to == Options!NormalizedColumns(cs)
           c == Cardinality(t)
           n == NumColumn + 1
           new == {i \in DOMAIN to : to[i].column # -1}
<1>1. to \in Cells /\ NormalColumns(cs, to)
  BY NormalizedFits
<1>2. /\ n \in Nat /\ n >= 1 /\ t \in SUBSET (1..n)
      /\ \A i \in t : cs[i].column \in 1..(NumColumn - 1)
      /\ \A i, j \in t : i # j => cs[i].column # cs[j].column
  BY OthersArePlaces, OptionsAssumption
<1>3. c \in Nat
  <2> HIDE DEF t, n
  <2> QED BY <1>2, NthIsThere
<1> HIDE DEF t, to, c
<1>4. DOMAIN to = 1..n
  BY <1>1 DEF Cells
<1>5. /\ to[1].column = 0 /\ (to[1].width = -1 \/ to[1].width > 0)
      /\ \A i \in 2..n : i - 1 <= c =>
           /\ Nth(t, i - 1) \in t /\ Cardinality(Below(t, Nth(t, i - 1))) = i - 2
           /\ to[i].column = cs[Nth(t, i - 1)].column /\ (to[i].width = -1 \/ to[i].width > 0)
      /\ \A i \in 2..n : ~(i - 1 <= c) => to[i].column = -1 /\ to[i].width = -1
  BY <1>1 DEF NormalColumns, t, c
<1>6. \A i \in 2..n : i - 1 <= c => to[i].column \in 1..(NumColumn - 1)
  BY <1>2, <1>5
<1>7. NumColumn \in Nat /\ NumColumn >= 2
  BY OptionsAssumption
<1>8. \A i \in 1..n : i \in new <=> (i = 1 \/ i - 1 <= c)
  <2> TAKE i \in 1..n
  <2>1. CASE i = 1
    BY <1>4, <1>5, <2>1
  <2>2. CASE i # 1
    <3>1. i \in 2..n
      BY <2>2
    <3>2. i - 1 <= c => to[i].column # -1
      BY <1>6, <1>7, <3>1
    <3>3. ~(i - 1 <= c) => to[i].column = -1
      BY <1>5, <3>1
    <3> QED BY <1>4, <2>2, <3>2, <3>3
  <2> QED BY <2>1, <2>2
<1>9. new \in SUBSET (1..n)
  BY <1>4
<1> HIDE DEF n, new
<1>a. \A i \in new : i = 1 \/ (i \in 2..n /\ i - 1 <= c)
  BY <1>2, <1>8, <1>9
<1>10. \A i \in 1..n : \A j \in 1..i : i \in new => j \in new
  <2> TAKE i \in 1..n
  <2> TAKE j \in 1..i
  <2> HAVE i \in new
  <2>1. j \in 1..n
    BY <1>2
  <2>2. j = 1 \/ j - 1 <= c
    BY <1>2, <1>3, <1>a
  <2> QED BY <1>8, <2>1, <2>2
<1>11. \A i \in new : to[i].column \in 0..(NumColumn - 1) /\ (to[i].width = -1 \/ to[i].width > 0)
  <2> TAKE i \in new
  <2>1. CASE i = 1
    BY <1>5, <1>7, <2>1
  <2>2. CASE i \in 2..n /\ i - 1 <= c
    BY <1>5, <1>6, <1>7, <2>2
  <2> QED BY <1>a, <2>1, <2>2
<1>12. \A i \in 1..n \ new : to[i].width = -1
  <2> TAKE i \in 1..n \ new
  <2>1. i \in 2..n /\ ~(i - 1 <= c)
    BY <1>2, <1>8
  <2> QED BY <1>5, <2>1
<1>13. ASSUME NEW i \in new, NEW j \in new, i # j PROVE to[i].column # to[j].column
  <2>1. CASE i = 1
    <3>1. to[j].column \in 1..(NumColumn - 1)
      BY <1>6, <1>a, <1>13, <2>1
    <3> QED BY <1>5, <1>7, <2>1, <3>1
  <2>2. CASE j = 1
    <3>1. to[i].column \in 1..(NumColumn - 1)
      BY <1>6, <1>a, <1>13, <2>2
    <3> QED BY <1>5, <1>7, <2>2, <3>1
  <2>3. CASE i # 1 /\ j # 1
    <3>1. i \in 2..n /\ i - 1 <= c /\ j \in 2..n /\ j - 1 <= c
      BY <1>a, <2>3
    <3> DEFINE x == Nth(t, i - 1) y == Nth(t, j - 1)
    <3>2. /\ x \in t /\ Cardinality(Below(t, x)) = i - 2 /\ to[i].column = cs[x].column
          /\ y \in t /\ Cardinality(Below(t, y)) = j - 2 /\ to[j].column = cs[y].column
      BY <1>5, <3>1
    <3> HIDE DEF x, y
    <3>3. i - 2 # j - 2
      BY <1>13, <3>1
    <3>4. x # y
      BY <3>2, <3>3
    <3> QED BY <1>2, <3>2, <3>4
  <2> QED BY <2>1, <2>2, <2>3
<1> QED BY <1>4, <1>5, <1>10, <1>11, <1>12, <1>13 DEF Options!ColumnsAreValid, to, new

\* A valid list is not changed.
LEMMA ValidIsNormal ==
  ASSUME NEW cs \in Cells, Options!ColumnsAreValid(cs)
  PROVE  Options!NormalizedColumns(cs) = cs
<1> DEFINE t == Options!Others(cs)
           to == Options!NormalizedColumns(cs)
           c == Cardinality(t)
           n == NumColumn + 1
           old == {i \in DOMAIN cs : cs[i].column # -1}
<1>1. DOMAIN cs = 1..n /\ n \in Nat /\ n >= 1 /\ NumColumn \in Nat
  BY OptionsAssumption DEF Cells
<1>2. /\ cs[1].column = 0
      /\ \A i \in 1..n : \A j \in 1..i : i \in old => j \in old
      /\ \A i \in old : cs[i].column \in 0..(NumColumn - 1) /\ (cs[i].width = -1 \/ cs[i].width > 0)
      /\ \A i \in 1..n \ old : cs[i].width = -1
      /\ \A i, j \in old : i # j => cs[i].column # cs[j].column
  BY <1>1 DEF Options!ColumnsAreValid
<1>3. old \in SUBSET (1..n) /\ 1 \in old
  BY <1>1, <1>2
<1>4. \A i \in 1..n : i \in t <=> (i \in old /\ i # 1)
  <2> TAKE i \in 1..n
  <2>1. ASSUME i \in t PROVE i \in old /\ i # 1
    <3>1. cs[i].column \in 1..(NumColumn - 1)
      BY <2>1 DEF Options!Others
    <3>2. cs[i].column # -1 /\ cs[i].column # 0
      BY <1>1, <3>1
    <3> QED BY <1>1, <1>2, <3>2
  <2>2. ASSUME i \in old, i # 1 PROVE i \in t
    <3>1. \A j \in 1..i : j \in old
      BY <1>2, <2>2
    <3>2. \A j \in 1..i : cs[j].column # -1
      BY <3>1
    <3>3. \A j \in 1..(i - 1) : cs[j].column # cs[i].column
      <4> TAKE j \in 1..(i - 1)
      <4>1. j \in 1..i /\ j # i
        OBVIOUS
      <4> QED BY <1>2, <2>2, <3>1, <4>1
    <3>4. cs[i].column \in 0..(NumColumn - 1) /\ cs[i].column # 0
      BY <1>2, <1>3, <2>2
    <3>5. cs[i].column \in 1..(NumColumn - 1)
      BY <1>1, <3>4
    <3> QED BY <1>1, <3>2, <3>3, <3>5 DEF Options!Others
  <2> QED BY <2>1, <2>2
<1>5. t \in SUBSET (1..n)
  BY OthersArePlaces
<1>6. NormalCells(cs, to)
  BY NormalizedCells
<1> HIDE DEF t, to, n, old
<1>7. /\ c \in Nat
      /\ \A i \in t : Cardinality(Below(t, i)) + 1 \in 1..c
                      /\ Nth(t, Cardinality(Below(t, i)) + 1) = i
  BY <1>1, <1>5, NthIsThere
<1>8. \A i \in 1..n : cs[i] \in [column : Int, width : Int]
  BY DEF Cells, n
<1>9. to[1] = cs[1]
  <2> DEFINE image == {i \in DOMAIN cs : cs[i].column = 0}
             first == CHOOSE i \in image : \A j \in image : i <= j
  <2>1. image = {1}
    <3>1. \A i \in 1..n : cs[i].column = 0 => i \in old
      BY <1>1 DEF old
    <3> QED BY <1>1, <1>2, <1>3, <3>1
  <2>2. first = 1
    BY <2>1
  <2>3. Options!ImageWidth(cs) = Options!Width(cs[1].width)
    BY <2>1, <2>2 DEF Options!ImageWidth
  <2>4. 1 \in 1..n /\ cs[1].width \in Int /\ (cs[1].width = -1 \/ cs[1].width > 0)
    BY <1>1, <1>2, <1>3, <1>8
  <2>5. Options!ImageWidth(cs) = cs[1].width
    BY <2>3, <2>4, WidthFits
  <2>6. to[1] = Options!Cell(cs[1].column, cs[1].width)
    BY <1>2, <1>6, <2>5 DEF NormalCells
  <2> QED BY <1>8, <2>4, <2>6, CellIsFields
<1>10. ASSUME NEW i \in 2..n PROVE to[i] = cs[i]
  <2>0. i \in 1..n /\ i # 1 /\ i \in Int
    BY <1>1, <1>10
  <2>1. CASE i \in old
    <3>1. i \in t
      BY <1>4, <2>0, <2>1
    <3>2. Below(t, i) = 2..(i - 1)
      <4>1. \A j \in 1..n : j \in t /\ j < i <=> j \in 2..(i - 1)
        <5> TAKE j \in 1..n
        <5>1. j \in 2..(i - 1) => j \in 1..i /\ j # 1
          BY <2>0
        <5>2. j \in 2..(i - 1) => j \in t
          BY <1>2, <1>4, <2>0, <2>1, <5>1
        <5>3. j \in t => j # 1
          BY <1>4
        <5>4. j # 1 /\ j < i <=> j \in 2..(i - 1)
          BY <2>0
        <5> QED BY <5>2, <5>3, <5>4
      <4>2. 2..(i - 1) \in SUBSET (1..n)
        BY <1>1, <2>0
      <4> QED BY <1>5, <4>1, <4>2 DEF Below
    <3>3. Cardinality(2..(i - 1)) = i - 2
      <4>1. i - 1 \in Int /\ (2 > i - 1 => i - 2 = 0) /\ (i - 1) - 2 + 1 = i - 2
        BY <1>10
      <4>2. Cardinality(2..(i - 1)) = IF 2 > i - 1 THEN 0 ELSE (i - 1) - 2 + 1
        BY <4>1, FS_Interval
      <4> QED BY <4>1, <4>2
    <3>4. i - 2 + 1 = i - 1
      BY <2>0
    <3>5. i - 1 \in 1..c /\ Nth(t, i - 1) = i
      BY <1>7, <3>1, <3>2, <3>3, <3>4
    <3>6. to[i] = Options!Cell(cs[i].column, Options!Width(cs[i].width))
      <4>1. i - 1 <= c
        BY <1>7, <3>5
      <4> QED BY <1>6, <1>10, <3>5, <4>1 DEF NormalCells, t, n
    <3>7. cs[i].width \in Int /\ Options!Width(cs[i].width) = cs[i].width
      BY <1>2, <1>8, <2>0, <2>1, WidthFits
    <3> QED BY <1>8, <2>0, <3>6, <3>7, CellIsFields
  <2>2. CASE i \notin old
    <3>1. t \in SUBSET (2..(i - 1))
      <4>1. \A j \in t : j \in old /\ j \in 1..n /\ j # 1
        BY <1>4, <1>5
      <4>2. \A j \in old : j \in 1..n /\ i \in 1..j => FALSE
        BY <1>2, <2>2
      <4> QED BY <2>0, <4>1, <4>2
    <3>2. IsFiniteSet(2..(i - 1)) /\ Cardinality(2..(i - 1)) = i - 2
      <4>1. i - 1 \in Int /\ (2 > i - 1 => i - 2 = 0) /\ (i - 1) - 2 + 1 = i - 2
        BY <1>10
      <4>2. IsFiniteSet(2..(i - 1))
            /\ Cardinality(2..(i - 1)) = IF 2 > i - 1 THEN 0 ELSE (i - 1) - 2 + 1
        BY <4>1, FS_Interval
      <4> QED BY <4>1, <4>2
    <3>3. c <= i - 2
      <4>1. c <= Cardinality(2..(i - 1))
        BY ZenonT(60), <3>1, <3>2, FS_Subset
      <4> HIDE DEF c
      <4> QED BY <3>2, <4>1
    <3>4. ~(i - 1 <= c)
      BY <1>7, <2>0, <3>3
    <3>5. to[i] = Options!Cell(-1, -1)
      BY <1>6, <1>10, <3>4 DEF NormalCells, t, n, Options!End
    <3>6. cs[i].column = -1 /\ cs[i].width = -1
      BY <1>1, <1>2, <2>0, <2>2 DEF old
    <3> QED BY <1>8, <2>0, <3>5, <3>6, CellIsFields
  <2> QED BY <2>1, <2>2
<1>11. \A i \in 1..n : to[i] = cs[i]
  <2> TAKE i \in 1..n
  <2>1. i = 1 \/ i \in 2..n
    BY <1>1
  <2> QED BY <1>9, <1>10, <2>1
<1>12. to = [i \in 1..n |-> to[i]]
  BY <1>6 DEF NormalCells, n
<1>13. cs = [i \in 1..n |-> cs[i]]
  BY <1>1 DEF Cells, n
<1>14. to = cs
  BY <1>11, <1>12, <1>13
<1> QED BY <1>14 DEF to

\* A repaired list has no column that the old one had not.
LEMMA NoColumnInvented ==
  ASSUME NEW cs \in Cells, NEW to, to = Options!NormalizedColumns(cs)
  PROVE  {to[i].column : i \in DOMAIN to}
           \subseteq {cs[i].column : i \in DOMAIN cs} \union {0, -1}
<1> DEFINE t == Options!Others(cs)
           c == Cardinality(t)
           n == NumColumn + 1
<1>1. to \in Cells /\ NormalColumns(cs, to)
  BY NormalizedFits
<1>2. n \in Nat /\ n >= 1 /\ t \in SUBSET (1..n)
  BY OthersArePlaces, OptionsAssumption
<1>3. DOMAIN to = 1..n /\ DOMAIN cs = 1..n
  BY <1>1 DEF Cells
<1> HIDE DEF t, c
<1>4. to[1].column = 0
  BY <1>1 DEF NormalColumns
<1>5. \A i \in 2..n : i - 1 <= c => Nth(t, i - 1) \in t /\ to[i].column = cs[Nth(t, i - 1)].column
  BY <1>1 DEF NormalColumns, t, c
<1>6. \A i \in 2..n : ~(i - 1 <= c) => to[i].column = -1
  BY <1>1 DEF NormalColumns, t, c
<1>7. ASSUME NEW i \in 1..n
      PROVE  to[i].column \in {cs[k].column : k \in DOMAIN cs} \union {0, -1}
  <2>1. i = 1 \/ i \in 2..n
    BY <1>2
  <2> HIDE DEF n
  <2> QED BY <1>2, <1>3, <1>4, <1>5, <1>6, <2>1
<1> QED BY <1>3, <1>7

-----------------------------------------------------------------------------
\* Options as they are read and kept.
Shaped(o) ==
  /\ o = [schema |-> o.schema, mode |-> o.mode, speed |-> o.speed, timer |-> o.timer,
          page |-> o.page, rect |-> o.rect, columns |-> o.columns]
  /\ o.page \in Int
  /\ o.columns \in Cells

OwnKinds == {"absent", "garbage", "foreign", "newer", "ours"}
OptionsInv ==
  /\ 1 \in monitors /\ reader \in BOOLEAN
  /\ own.kind \in OwnKinds
  /\ own.kind = "ours" => Shaped(own.options)
  /\ legacy.kind = "plain" => Shaped(legacy.options)
  /\ Shaped(options)

LEMMA FilledFits ==
  ASSUME NEW w \in Int, NEW v \in Int
  PROVE  /\ Options!Filled(<<Options!Cell(0, w)>>) \in Cells
         /\ Options!Filled(<<Options!Cell(0, w), Options!Cell(1, v)>>) \in Cells
<1>1. \A i \in 1..2 : <<Options!Cell(0, w), Options!Cell(1, v)>>[i] \in [column : Int, width : Int]
  BY DEF Options!Cell
<1>2. <<Options!Cell(0, w)>>[1] \in [column : Int, width : Int]
  BY DEF Options!Cell
<1>3. Options!End \in [column : Int, width : Int]
  BY DEF Options!End, Options!Cell
<1>4. DOMAIN <<Options!Cell(0, w)>> = {1} /\ DOMAIN <<Options!Cell(0, w), Options!Cell(1, v)>> = {1, 2}
  OBVIOUS
<1> QED BY <1>1, <1>2, <1>3, <1>4 DEF Options!Filled, Cells

\* The defaults fit every machine.
LEMMA DefaultsFit ==
  ASSUME 1 \in monitors, reader \in BOOLEAN
  PROVE  Shaped(Options!Defaults) /\ Options!IsValid(Options!Defaults)
<1> DEFINE timer == IF reader THEN 0 ELSE Options!Interval["normal"]
           cs == Options!Filled(<<Options!Cell(0, -1), Options!Cell(1, -1)>>)
           d == Options!Defaults
<1>1. d = [schema |-> 2, mode |-> "default", speed |-> "normal", timer |-> timer, page |-> -1,
           rect |-> 1, columns |-> cs]
  BY DEF Options!Defaults, Options!Schema
<1>2. cs \in Cells
  <2> DEFINE w == -1
  <2>1. w \in Int
    OBVIOUS
  <2> HIDE DEF w
  <2>2. Options!Filled(<<Options!Cell(0, w), Options!Cell(1, w)>>) \in Cells
    BY <2>1, FilledFits
  <2> QED BY <2>2 DEF w
<1>3. Options!TimerIsValid("normal", timer)
  BY DEF Options!TimerIsValid, Options!Speeds, Options!Interval
<1>4. Options!ColumnsAreValid(cs)
  <2> DEFINE n == NumColumn + 1
  <2>1. NumColumn \in Nat /\ NumColumn >= 2 /\ n \in Nat /\ n >= 3
    BY OptionsAssumption
  <2>2. DOMAIN <<Options!Cell(0, -1), Options!Cell(1, -1)>> = {1, 2}
    OBVIOUS
  <2>3. DOMAIN cs = 1..n /\ cs[1] = Options!Cell(0, -1) /\ cs[2] = Options!Cell(1, -1)
        /\ \A i \in 1..n : (i # 1 /\ i # 2) => cs[i] = Options!Cell(-1, -1)
    BY <2>1, <2>2 DEF Options!Filled, Options!End
  <2> HIDE DEF cs, n
  <2>4. /\ cs[1].column = 0 /\ cs[1].width = -1 /\ cs[2].column = 1 /\ cs[2].width = -1
        /\ \A i \in 1..n : (i # 1 /\ i # 2) => cs[i].column = -1 /\ cs[i].width = -1
    BY <2>3 DEF Options!Cell
  <2> DEFINE old == {i \in DOMAIN cs : cs[i].column # -1}
  <2>5. old = {1, 2}
    BY <2>1, <2>3, <2>4
  <2> HIDE DEF old
  <2> QED BY <2>1, <2>3, <2>4, <2>5 DEF Options!ColumnsAreValid, old
<1>5. Options!PageCount \in Int /\ -1 \in -1..(Options!PageCount - 1)
  BY DEF Options!PageCount, Options!PagesOf, Options!Schema
<1> HIDE DEF timer, cs, d
<1>6. /\ d.schema = 2 /\ d.mode = "default" /\ d.speed = "normal" /\ d.timer = timer
      /\ d.page = -1 /\ d.rect = 1 /\ d.columns = cs
  BY <1>1
<1>7. Shaped(d)
  BY <1>1, <1>2, <1>6 DEF Shaped
<1>8. Options!IsValid(d)
  BY <1>3, <1>4, <1>5, <1>6 DEF Options!IsValid, Options!Schema, Options!Modes, Options!Speeds
<1> QED BY <1>7, <1>8 DEF d

PageAfter(schema, page) ==
  CASE schema = 0 /\ page = 3 -> 5
    [] schema = 0 /\ page = 4 -> 6
    [] schema = 1 /\ page \in 3..5 -> page + 1
    [] OTHER -> page

\* Migration changes the schema and the page.
LEMMA MigratedIs ==
  ASSUME NEW o, Shaped(o), NEW m, m = Options!Migrated(o)
  PROVE  /\ Shaped(m) /\ m.schema = 2 /\ m.page = PageAfter(o.schema, o.page)
         /\ m.mode = o.mode /\ m.speed = o.speed /\ m.timer = o.timer /\ m.rect = o.rect
         /\ m.columns = o.columns
<1> DEFINE p == PageAfter(o.schema, o.page)
           q == [o EXCEPT !.schema = 2]
<1>1. p \in Int
  BY DEF PageAfter, Shaped
<1>2. m = [q EXCEPT !.page = p]
  BY DEF Options!Migrated, Options!Schema, PageAfter
<1>3. q = [schema |-> 2, mode |-> o.mode, speed |-> o.speed, timer |-> o.timer,
           page |-> o.page, rect |-> o.rect, columns |-> o.columns]
  BY DEF Shaped
<1> HIDE DEF p, q
<1>4. m = [schema |-> 2, mode |-> o.mode, speed |-> o.speed, timer |-> o.timer,
           page |-> p, rect |-> o.rect, columns |-> o.columns]
  BY <1>2, <1>3
<1>5. o.columns \in Cells
  BY DEF Shaped
<1> QED BY <1>1, <1>4, <1>5 DEF Shaped, p

\* Repaired options fit this machine, and only what did not is replaced.
LEMMA NormalizedIs ==
  ASSUME 1 \in monitors, reader \in BOOLEAN, NEW o, Shaped(o), NEW m, m = Options!Normalized(o)
  PROVE  /\ Shaped(m) /\ Options!IsValid(m)
         /\ o.mode \in Options!Modes => m.mode = o.mode
         /\ o.speed \in Options!Speeds => m.speed = o.speed
         /\ Options!TimerIsValid(o.speed, o.timer) => m.timer = o.timer
         /\ o.page \in -1..(Options!PageCount - 1) => m.page = o.page
         /\ o.rect \in monitors => m.rect = o.rect
         /\ m.columns = Options!NormalizedColumns(o.columns)
<1> DEFINE d == Options!Defaults
           speed == IF o.speed \in Options!Speeds THEN o.speed ELSE "normal"
           mode == IF o.mode \in Options!Modes THEN o.mode ELSE d.mode
           timer == IF Options!TimerIsValid(speed, o.timer) THEN o.timer
                    ELSE IF reader THEN 0 ELSE Options!Interval[speed]
           page == IF o.page \in -1..(Options!PageCount - 1) THEN o.page ELSE d.page
           rect == IF o.rect \in monitors THEN o.rect ELSE d.rect
           cs == Options!NormalizedColumns(o.columns)
<1>1. m = [schema |-> 2, mode |-> mode, speed |-> speed, timer |-> timer, page |-> page,
           rect |-> rect, columns |-> cs]
  BY DEF Options!Normalized, Options!Schema
<1>2. /\ Shaped(d) /\ d.mode \in Options!Modes /\ d.page \in -1..(Options!PageCount - 1)
      /\ d.rect \in monitors
  BY DefaultsFit DEF Options!IsValid
<1>3. o.columns \in Cells /\ o.page \in Int
  BY DEF Shaped
<1>4. cs \in Cells /\ Options!ColumnsAreValid(cs)
  BY <1>3, NormalizedFits, NormalizedIsValid
<1>5. speed \in Options!Speeds
  BY DEF Options!Speeds
<1>6. Options!TimerIsValid(speed, timer)
  <2>1. reader = TRUE \/ reader = FALSE
    OBVIOUS
  <2> HIDE DEF speed
  <2> QED BY <1>5, <2>1 DEF Options!TimerIsValid
<1>7. mode \in Options!Modes /\ page \in -1..(Options!PageCount - 1) /\ rect \in monitors
  <2> HIDE DEF d
  <2> QED BY <1>2
<1>8. page \in Int
  <2>1. d.page \in Int
    BY <1>2 DEF Shaped
  <2> HIDE DEF d
  <2> QED BY <1>3, <2>1
<1>9. /\ o.mode \in Options!Modes => mode = o.mode
      /\ o.speed \in Options!Speeds => speed = o.speed
      /\ Options!TimerIsValid(o.speed, o.timer) => timer = o.timer
      /\ o.page \in -1..(Options!PageCount - 1) => page = o.page
      /\ o.rect \in monitors => rect = o.rect
  <2>1. Options!TimerIsValid(o.speed, o.timer) => speed = o.speed
    BY DEF Options!TimerIsValid
  <2> HIDE DEF d
  <2> QED BY <2>1
<1> HIDE DEF d, speed, mode, timer, page, rect, cs
<1>10. /\ m.schema = 2 /\ m.mode = mode /\ m.speed = speed /\ m.timer = timer /\ m.page = page
       /\ m.rect = rect /\ m.columns = cs
  BY <1>1
<1>11. Shaped(m)
  BY <1>1, <1>4, <1>8, <1>10 DEF Shaped
<1>12. Options!IsValid(m)
  BY <1>4, <1>5, <1>6, <1>7, <1>10 DEF Options!IsValid, Options!Schema
<1> QED BY <1>9, <1>10, <1>11, <1>12 DEF cs

\* What is loaded from options o, and what it keeps of them.
LoadedFrom(o, m) ==
  /\ Shaped(m) /\ Options!IsValid(m)
  /\ o.page + 1 \in DOMAIN Options!PagesOf(o.schema) =>
       m.page >= 0 /\
       Options!PagesOf(Options!Schema)[m.page + 1] = Options!PagesOf(o.schema)[o.page + 1]
  /\ o.mode \in Options!Modes => m.mode = o.mode
  /\ o.speed \in Options!Speeds => m.speed = o.speed
  /\ Options!TimerIsValid(o.speed, o.timer) => m.timer = o.timer
  /\ o.rect \in monitors => m.rect = o.rect
  /\ Options!ColumnsAreValid(o.columns) => m.columns = o.columns
  /\ {m.columns[i].column : i \in DOMAIN m.columns}
       \subseteq {o.columns[i].column : i \in DOMAIN o.columns} \union {0, -1}

\* A page of an older schema is migrated to the page of its name.
LEMMA PagesMigrate ==
  ASSUME NEW schema \in 0..2, NEW page \in Int, page + 1 \in DOMAIN Options!PagesOf(schema)
  PROVE  /\ PageAfter(schema, page) \in 0..(Options!PageCount - 1)
         /\ Options!PagesOf(Options!Schema)[PageAfter(schema, page) + 1]
              = Options!PagesOf(schema)[page + 1]
<1>1. /\ Options!PagesOf(0) = <<"applications", "processes", "performance", "network", "users">>
      /\ Options!PagesOf(1) = <<"applications", "processes", "performance", "gpu", "network", "users">>
      /\ Options!PagesOf(2) = <<"applications", "processes", "performance", "cpu", "gpu",
                                "network", "users">>
  BY DEF Options!PagesOf, Options!Schema
<1>2. Options!PageCount = 7
  BY <1>1 DEF Options!PageCount, Options!Schema
<1>3. CASE schema = 0
  <2>1. page + 1 \in 1..5
    BY <1>1, <1>3
  <2>2. page = 0 \/ page = 1 \/ page = 2 \/ page = 3 \/ page = 4
    BY <2>1
  <2> QED BY <1>1, <1>2, <1>3, <2>2 DEF PageAfter, Options!Schema
<1>4. CASE schema = 1
  <2>1. page + 1 \in 1..6
    BY <1>1, <1>4
  <2>2. page = 0 \/ page = 1 \/ page = 2 \/ page = 3 \/ page = 4 \/ page = 5
    BY <2>1
  <2> QED BY <1>1, <1>2, <1>4, <2>2 DEF PageAfter, Options!Schema
<1>5. CASE schema = 2
  <2>1. page + 1 \in 1..7
    BY <1>1, <1>5
  <2>2. PageAfter(schema, page) = page /\ page \in 0..6
    BY <1>5, <2>1 DEF PageAfter
  <2> QED BY <1>1, <1>2, <1>5, <2>2 DEF Options!Schema
<1> QED BY <1>3, <1>4, <1>5

\* Valid options are taken as they are.
LEMMA LoadedFits ==
  ASSUME 1 \in monitors, reader \in BOOLEAN, NEW o, Shaped(o), o.schema \in 0..2,
         NEW m, m = Options!Migrated(o),
         NEW l, l = IF Options!IsValid(m) THEN m ELSE Options!Normalized(m)
  PROVE  LoadedFrom(o, l)
<1>1. /\ Shaped(m) /\ m.schema = 2 /\ m.page = PageAfter(o.schema, o.page)
      /\ m.mode = o.mode /\ m.speed = o.speed /\ m.timer = o.timer /\ m.rect = o.rect
      /\ m.columns = o.columns
  BY MigratedIs
<1>2. o.page \in Int /\ o.columns \in Cells
  BY DEF Shaped
<1>3. o.page + 1 \in DOMAIN Options!PagesOf(o.schema) =>
        /\ m.page \in 0..(Options!PageCount - 1)
        /\ Options!PagesOf(Options!Schema)[m.page + 1] = Options!PagesOf(o.schema)[o.page + 1]
  BY <1>1, <1>2, PagesMigrate
<1>4. /\ Shaped(l) /\ Options!IsValid(l)
      /\ m.mode \in Options!Modes => l.mode = m.mode
      /\ m.speed \in Options!Speeds => l.speed = m.speed
      /\ Options!TimerIsValid(m.speed, m.timer) => l.timer = m.timer
      /\ m.page \in -1..(Options!PageCount - 1) => l.page = m.page
      /\ m.rect \in monitors => l.rect = m.rect
      /\ l.columns = m.columns \/ l.columns = Options!NormalizedColumns(m.columns)
  <2>1. CASE Options!IsValid(m)
    BY <1>1, <2>1
  <2>2. CASE ~Options!IsValid(m)
    <3>1. l = Options!Normalized(m)
      BY <2>2
    <3> QED BY <1>1, <3>1, NormalizedIs
  <2> QED BY <2>1, <2>2
<1>5. Options!ColumnsAreValid(o.columns) => l.columns = o.columns
  BY <1>1, <1>2, <1>4, ValidIsNormal
<1>6. {l.columns[i].column : i \in DOMAIN l.columns}
        \subseteq {o.columns[i].column : i \in DOMAIN o.columns} \union {0, -1}
  <2>1. CASE l.columns = o.columns
    BY <2>1
  <2>2. CASE l.columns = Options!NormalizedColumns(o.columns)
    BY <1>2, <2>2, NoColumnInvented
  <2> QED BY <1>1, <1>4, <2>1, <2>2
<1>7. Options!PageCount = 7
  BY DEF Options!PageCount, Options!PagesOf, Options!Schema
<1>8. o.page + 1 \in DOMAIN Options!PagesOf(o.schema) => m.page >= 0 /\ l.page = m.page
  BY <1>3, <1>4, <1>7
<1> QED BY <1>1, <1>3, <1>4, <1>5, <1>6, <1>8 DEF LoadedFrom

LEMMA OptionsStart == Options!Init => OptionsInv
<1> SUFFICES ASSUME Options!Init PROVE OptionsInv
  OBVIOUS
<1>1. 1 \in monitors /\ reader \in BOOLEAN /\ options = Options!Defaults
  BY DEF Options!Init
<1>2. Shaped(options)
  BY <1>1, DefaultsFit
<1>3. \A o \in Found : Shaped(o)
  BY OptionsAssumption DEF Shaped, Cells
<1>4. own.kind \in OwnKinds /\ (own.kind = "ours" => Shaped(own.options))
  BY <1>3 DEF Options!Init, Options!Value, Options!Nothing, OwnKinds
<1>5. legacy.kind = "plain" => Shaped(legacy.options)
  BY <1>3 DEF Options!Init, Options!Value, Options!Nothing
<1> QED BY <1>1, <1>2, <1>4, <1>5 DEF OptionsInv

\* A saved value is of this program.
LEMMA SavedIsOurs ==
  ASSUME NEW o, Shaped(o), own.kind \in OwnKinds, own.kind = "ours" => Shaped(own.options),
         Options!Save(o)
  PROVE  own'.kind \in OwnKinds /\ (own'.kind = "ours" => Shaped(own'.options))
<1>1. Options!Value("ours", o).options = o /\ Options!Value("ours", o).kind = "ours"
  BY DEF Options!Value
<1> QED BY <1>1 DEF Options!Save, OwnKinds

\* What Load takes from options that were found.
LEMMA ApplyLoads ==
  ASSUME OptionsInv, NEW o, Shaped(o), NEW persist, Options!ApplyLoaded(o, persist)
  PROVE  /\ Shaped(options') /\ Options!IsValid(options')
         /\ o.schema \in 0..2 => LoadedFrom(o, options')
         /\ own'.kind \in OwnKinds /\ (own'.kind = "ours" => Shaped(own'.options))
<1> DEFINE m == Options!Migrated(o)
           l == IF Options!IsValid(m) THEN m ELSE Options!Normalized(m)
<1>1. 1 \in monitors /\ reader \in BOOLEAN /\ own.kind \in OwnKinds /\ (own.kind = "ours" => Shaped(own.options))
  BY DEF OptionsInv
<1>2. CASE o.schema \notin 0..2
  <2>1. options' = Options!Defaults /\ own' = own
    BY <1>2 DEF Options!ApplyLoaded, Options!Schema
  <2> QED BY <1>1, <1>2, <2>1, DefaultsFit
<1>3. CASE o.schema \in 0..2
  <2>1. options' = l /\ (Options!Save(l) \/ own' = own)
    BY <1>3 DEF Options!ApplyLoaded, Options!Schema
  <2>2. LoadedFrom(o, l)
    BY <1>1, <1>3, LoadedFits
  <2> HIDE DEF l
  <2>3. Shaped(l) /\ Options!IsValid(l)
    BY <2>2 DEF LoadedFrom
  <2>4. own'.kind \in OwnKinds /\ (own'.kind = "ours" => Shaped(own'.options))
    BY <1>1, <2>1, <2>3, SavedIsOurs
  <2> QED BY <2>1, <2>2, <2>3, <2>4
<1> QED BY <1>2, <1>3

\* Whatever is found, what is loaded fits.
LEMMA LoadFits ==
  ASSUME OptionsInv, Options!Load \/ Options!LoadDefaults
  PROVE  /\ OptionsInv' /\ Options!IsValid(options')
         /\ (Options!Load /\ own.kind = "ours" /\ own.options.schema \in 0..2)
              => LoadedFrom(own.options, options')
<1>1. 1 \in monitors /\ reader \in BOOLEAN /\ own.kind \in OwnKinds /\ (own.kind = "ours" => Shaped(own.options))
      /\ (legacy.kind = "plain" => Shaped(legacy.options))
  BY DEF OptionsInv
<1>2. monitors' = monitors /\ reader' = reader /\ legacy' = legacy
  BY DEF Options!Load, Options!LoadDefaults, Options!machine
<1>3. CASE Options!TakeDefaults /\ ~(Options!Load /\ own.kind = "ours")
  <2>1. options' = Options!Defaults /\ own' = own
    BY <1>3 DEF Options!TakeDefaults
  <2>2. Shaped(options') /\ Options!IsValid(options')
    BY <1>1, <2>1, DefaultsFit
  <2> QED BY <1>1, <1>2, <1>3, <2>1, <2>2 DEF OptionsInv
<1>4. CASE own.kind = "ours" /\ Options!Load
  <2>1. Options!ApplyLoaded(own.options, FALSE)
    BY <1>4 DEF Options!Load
  <2>2. /\ Shaped(options') /\ Options!IsValid(options')
        /\ own.options.schema \in 0..2 => LoadedFrom(own.options, options')
        /\ own'.kind \in OwnKinds /\ (own'.kind = "ours" => Shaped(own'.options))
    BY <1>1, <1>4, <2>1, ApplyLoads
  <2> QED BY <1>1, <1>2, <2>2 DEF OptionsInv
<1>5. CASE Options!Load /\ own.kind # "ours" /\ ~Options!TakeDefaults
  <2>1. legacy.kind = "plain" /\ Options!ApplyLoaded(legacy.options, TRUE)
    BY <1>1, <1>5 DEF Options!Load, OwnKinds
  <2>2. /\ Shaped(options') /\ Options!IsValid(options')
        /\ own'.kind \in OwnKinds /\ (own'.kind = "ours" => Shaped(own'.options))
    BY <1>1, <2>1, ApplyLoads
  <2> QED BY <1>1, <1>2, <1>5, <2>2 DEF OptionsInv
<1> QED BY <1>3, <1>4, <1>5 DEF Options!LoadDefaults

\* One or two fields of shaped options are chosen.
LEMMA ChosenShaped ==
  ASSUME NEW o, Shaped(o)
  PROVE  /\ \A s, t : Shaped([o EXCEPT !.speed = s, !.timer = t])
         /\ \A p \in Int : Shaped([o EXCEPT !.page = p])
         /\ \A r : Shaped([o EXCEPT !.rect = r])
         /\ \A cs \in Cells : Shaped([o EXCEPT !.columns = cs])
<1>0. /\ o = [schema |-> o.schema, mode |-> o.mode, speed |-> o.speed, timer |-> o.timer,
              page |-> o.page, rect |-> o.rect, columns |-> o.columns]
      /\ o.page \in Int /\ o.columns \in Cells
  BY DEF Shaped
<1>1. ASSUME NEW s, NEW t PROVE Shaped([o EXCEPT !.speed = s, !.timer = t])
  <2> DEFINE q == [o EXCEPT !.speed = s]
             m == [o EXCEPT !.speed = s, !.timer = t]
  <2>1. m = [q EXCEPT !.timer = t]
    OBVIOUS
  <2>2. q = [schema |-> o.schema, mode |-> o.mode, speed |-> s, timer |-> o.timer,
             page |-> o.page, rect |-> o.rect, columns |-> o.columns]
    BY <1>0
  <2> HIDE DEF q, m
  <2>3. m = [schema |-> o.schema, mode |-> o.mode, speed |-> s, timer |-> t,
             page |-> o.page, rect |-> o.rect, columns |-> o.columns]
    BY <2>1, <2>2
  <2>4. Shaped(m)
    BY <1>0, <2>3 DEF Shaped
  <2> QED BY <2>4 DEF m
<1>2. ASSUME NEW p \in Int PROVE Shaped([o EXCEPT !.page = p])
  <2> DEFINE m == [o EXCEPT !.page = p]
  <2>1. m = [schema |-> o.schema, mode |-> o.mode, speed |-> o.speed, timer |-> o.timer,
             page |-> p, rect |-> o.rect, columns |-> o.columns]
    BY <1>0
  <2> HIDE DEF m
  <2>2. Shaped(m)
    BY <1>0, <2>1 DEF Shaped
  <2> QED BY <2>2 DEF m
<1>3. ASSUME NEW r PROVE Shaped([o EXCEPT !.rect = r])
  <2> DEFINE m == [o EXCEPT !.rect = r]
  <2>1. m = [schema |-> o.schema, mode |-> o.mode, speed |-> o.speed, timer |-> o.timer,
             page |-> o.page, rect |-> r, columns |-> o.columns]
    BY <1>0
  <2> HIDE DEF m
  <2>2. Shaped(m)
    BY <1>0, <2>1 DEF Shaped
  <2> QED BY <2>2 DEF m
<1>4. ASSUME NEW cs \in Cells PROVE Shaped([o EXCEPT !.columns = cs])
  <2> DEFINE m == [o EXCEPT !.columns = cs]
  <2>1. m = [schema |-> o.schema, mode |-> o.mode, speed |-> o.speed, timer |-> o.timer,
             page |-> o.page, rect |-> o.rect, columns |-> cs]
    BY <1>0
  <2> HIDE DEF m
  <2>2. Shaped(m)
    BY <1>0, <2>1 DEF Shaped
  <2> QED BY <2>2 DEF m
<1> QED BY <1>1, <1>2, <1>3, <1>4

\* What the user may choose keeps the options' shape.
LEMMA ChoiceShaped ==
  ASSUME Shaped(options), Options!Choose
  PROVE  Shaped(options')
<1>1. Shaped(options)
  OBVIOUS
<1>2. \A p \in 0..(Options!PageCount - 1) : p \in Int
  BY DEF Options!PageCount, Options!PagesOf, Options!Schema
<1>3. \A w \in {-1, 9} : Options!Filled(<<Options!Cell(0, w)>>) \in Cells
  <2> TAKE w \in {-1, 9}
  <2>1. w \in Int
    OBVIOUS
  <2> QED BY <2>1, FilledFits
<1>0. /\ \A s, t : Shaped([options EXCEPT !.speed = s, !.timer = t])
      /\ \A p \in Int : Shaped([options EXCEPT !.page = p])
      /\ \A r : Shaped([options EXCEPT !.rect = r])
      /\ \A cs \in Cells : Shaped([options EXCEPT !.columns = cs])
  BY <1>1, ChosenShaped
<1>a. CASE \E s \in Options!Speeds :
             options' = [options EXCEPT !.speed = s, !.timer = Options!Interval[s]]
  <2> PICK s \in Options!Speeds :
             options' = [options EXCEPT !.speed = s, !.timer = Options!Interval[s]]
    BY <1>a
  <2> DEFINE t == Options!Interval[s]
  <2>1. options' = [options EXCEPT !.speed = s, !.timer = t]
    OBVIOUS
  <2> HIDE DEF t
  <2>2. Shaped([options EXCEPT !.speed = s, !.timer = t])
    BY <1>0
  <2> QED BY ONLY <2>1, <2>2
<1>b. CASE \E p \in 0..(Options!PageCount - 1) : options' = [options EXCEPT !.page = p]
  <2> PICK p \in 0..(Options!PageCount - 1) : options' = [options EXCEPT !.page = p]
    BY <1>b
  <2>1. Shaped([options EXCEPT !.page = p])
    BY <1>0, <1>2
  <2> QED BY <2>1
<1>c. CASE \E m \in monitors : options' = [options EXCEPT !.rect = m]
  <2> PICK m \in monitors : options' = [options EXCEPT !.rect = m]
    BY <1>c
  <2>1. Shaped([options EXCEPT !.rect = m])
    BY <1>0
  <2> QED BY <2>1
<1>d. CASE \E w \in {-1, 9} :
             options' = [options EXCEPT !.columns = Options!Filled(<<Options!Cell(0, w)>>)]
  <2> PICK w \in {-1, 9} :
             options' = [options EXCEPT !.columns = Options!Filled(<<Options!Cell(0, w)>>)]
    BY <1>d
  <2>1. Shaped([options EXCEPT !.columns = Options!Filled(<<Options!Cell(0, w)>>)])
    BY <1>0, <1>3
  <2> QED BY <2>1
<1> QED BY <1>a, <1>b, <1>c, <1>d DEF Options!Choose

LEMMA OptionsKeep == OptionsInv /\ [Options!Next]_(Options!vars) => OptionsInv'
<1> SUFFICES ASSUME OptionsInv, [Options!Next]_(Options!vars) PROVE OptionsInv'
  OBVIOUS
<1>1. CASE Options!Load \/ Options!LoadDefaults
  BY <1>1, LoadFits
<1>2. CASE Options!Choose
  <2>4. Shaped(options')
    BY <1>2, ChoiceShaped DEF OptionsInv
  <2> QED BY <1>2, <2>4 DEF OptionsInv, Options!Choose, Options!machine
<1>3. CASE Options!Exit
  <2>1. own'.kind \in OwnKinds /\ (own'.kind = "ours" => Shaped(own'.options))
    BY <1>3, SavedIsOurs DEF Options!Exit, OptionsInv
  <2> QED BY <1>3, <2>1 DEF OptionsInv, Options!Exit, Options!machine
<1>4. CASE Options!MachineChanges
  BY <1>4 DEF OptionsInv, Options!MachineChanges
<1>5. CASE UNCHANGED Options!vars
  BY <1>5 DEF OptionsInv, Options!vars, Options!machine
<1> QED BY <1>1, <1>2, <1>3, <1>4, <1>5 DEF Options!Next

\* A step of the services is one of the options, if it is about them, and leaves
\* them alone otherwise.
LEMMA OptionsStep ==
  ASSUME [ServicesNext]_everything
  PROVE  /\ which' = which
         /\ which = "options" => [Options!Next]_(Options!vars)
         /\ which # "options" => UNCHANGED Options!vars
  BY DEF ServicesNext, everything, optionVars, Options!vars, Options!machine

FitWhenLoaded == running' /\ ~running => Options!IsValid(options')
BackWhenLoaded ==
  LET o == own.options IN
  Options!Load /\ own.kind = "ours" /\ o.schema \in 0..Options!Schema =>
    /\ o.page + 1 \in DOMAIN Options!PagesOf(o.schema) =>
         options'.page >= 0 /\
         Options!PagesOf(Options!Schema)[options'.page + 1] = Options!PagesOf(o.schema)[o.page + 1]
    /\ o.mode \in Options!Modes => options'.mode = o.mode
    /\ o.speed \in Options!Speeds => options'.speed = o.speed
    /\ Options!TimerIsValid(o.speed, o.timer) => options'.timer = o.timer
    /\ o.rect \in monitors => options'.rect = o.rect
    /\ Options!ColumnsAreValid(o.columns) => options'.columns = o.columns
    /\ {options'.columns[i].column : i \in DOMAIN options'.columns}
         \subseteq {o.columns[i].column : i \in DOMAIN o.columns} \union {0, -1}

LEMMA OptionsStepFits ==
  ASSUME OptionsInv, [Options!Next]_(Options!vars)
  PROVE  [FitWhenLoaded]_(Options!vars) /\ [BackWhenLoaded]_(Options!vars)
<1>1. CASE Options!Load \/ Options!LoadDefaults
  <2>1. Options!IsValid(options')
    BY <1>1, LoadFits
  <2>2. (Options!Load /\ own.kind = "ours" /\ own.options.schema \in 0..2)
          => LoadedFrom(own.options, options')
    BY <1>1, LoadFits
  <2>3. FitWhenLoaded
    BY <2>1 DEF FitWhenLoaded
  <2>4. BackWhenLoaded
    BY <2>2 DEF BackWhenLoaded, LoadedFrom, Options!Schema
  <2> QED BY <2>3, <2>4
<1>2. CASE ~(Options!Load \/ Options!LoadDefaults)
  <2>1. BackWhenLoaded
    BY <1>2 DEF BackWhenLoaded
  <2>2. [FitWhenLoaded]_(Options!vars)
    BY <1>2 DEF FitWhenLoaded, Options!Next, Options!Choose, Options!Exit, Options!MachineChanges
  <2> QED BY <2>1, <2>2
<1> QED BY <1>1, <1>2

\* The options a user chose come back, also from an older schema or a damaged
\* value, and whatever is stored, what is loaded fits this machine (Options::load,
\* migrate_schema, normalize).
THEOREM OptionsReturn == ServicesSpec => OptionsComeBack
<1> DEFINE Kept == which = "options" => OptionsInv
<1>1. ServicesInit => Kept
  BY OptionsStart DEF ServicesInit
<1>2. Kept /\ [ServicesNext]_everything => Kept'
  BY OptionsStep, OptionsKeep
<1>3. Kept /\ [ServicesNext]_everything
        => [FitWhenLoaded]_(Options!vars) /\ [BackWhenLoaded]_(Options!vars)
  BY OptionsStep, OptionsStepFits
<1> QED BY <1>1, <1>2, <1>3, PTL
      DEF ServicesSpec, everything, OptionsComeBack, Options!LoadedOptionsFit,
          Options!SettingsComeBack, FitWhenLoaded, BackWhenLoaded

-----------------------------------------------------------------------------
(* The command line.  What the last argument of a kind is, and what of it is *)
(* still so in the line that is made for the restart.                        *)

Line(line) == line \in Seq({line[i] : i \in DOMAIN line})

\* The place is that of the last argument of the kind.
IsLast(line, kind, last) ==
  last \in DOMAIN line /\ line[last] \in kind /\ \A j \in DOMAIN line : line[j] \in kind => j <= last

LEMMA LinePlaces ==
  ASSUME NEW line, Line(line)
  PROVE  Len(line) \in Nat /\ DOMAIN line = 1..Len(line)
  BY DEF Line

LEMMA LastIs ==
  ASSUME NEW line, Line(line), NEW kind, NEW default, NEW last, IsLast(line, kind, last)
  PROVE  Export!LastOf(line, kind, default) = line[last]
<1> DEFINE given == {i \in DOMAIN line : line[i] \in kind}
           place == CHOOSE i \in given : \A j \in given : j <= i
<1>1. last \in given /\ \A j \in given : j <= last
  BY DEF IsLast
<1>2. place \in given /\ \A j \in given : j <= place
  BY <1>1
<1>3. \A j \in given : j \in Int
  BY LinePlaces
<1>4. place = last
  <2>1. place <= last /\ last <= place /\ place \in Int /\ last \in Int
    BY <1>1, <1>2, <1>3
  <2> QED BY <2>1
<1>5. Export!LastOf(line, kind, default) = IF given = {} THEN default ELSE line[place]
  BY DEF Export!LastOf
<1> QED BY <1>1, <1>4, <1>5

LEMMA LastExists ==
  ASSUME NEW line, Line(line), NEW kind, NEW i \in DOMAIN line, line[i] \in kind
  PROVE  \E last : IsLast(line, kind, last)
<1> DEFINE given == {j \in DOMAIN line : line[j] \in kind}
<1>1. given \in SUBSET (1..Len(line)) /\ given # {} /\ Len(line) \in Nat
  BY LinePlaces
<1>2. Highest(given) \in given /\ \A j \in given : Highest(given) >= j
  BY <1>1, IntervalMax
<1>3. \A j \in given : j \in Int
  BY <1>1
<1>4. \A j \in given : j <= Highest(given)
  BY <1>2, <1>3
<1>5. IsLast(line, kind, Highest(given))
  BY <1>2, <1>4 DEF IsLast
<1> QED BY <1>5

LEMMA NoneGiven ==
  ASSUME NEW line, NEW kind, NEW default, \A i \in DOMAIN line : line[i] \notin kind
  PROVE  Export!LastOf(line, kind, default) = default
  BY DEF Export!LastOf

LEMMA ParseFields ==
  ASSUME NEW line
  PROVE  /\ Export!Parse(line).level \in Export!Levels
         /\ Export!Parse(line).level = "trace" <=>
              Export!LastOf(line, Export!LevelArguments, "none") \notin {"none", "debug"}
         /\ Export!Parse(line).level = "info" <=>
              Export!LastOf(line, Export!LevelArguments, "none") = "none"
         /\ Export!Parse(line).sensitive = Export!Given(line, "sensitive")
         /\ Export!Parse(line).minidump = Export!Given(line, "minidump")
         /\ Export!Parse(line).dir = Export!LastOf(line, Export!Directories, "default")
  BY DEF Export!Parse, Export!Levels

\* Sensitive fields and dumps are asked for with detailed logging.
LEMMA ParseIsSound ==
  ASSUME NEW line, Line(line)
  PROVE  /\ Export!Parse(line).level \in Export!Levels
         /\ Export!Parse(line).sensitive \in BOOLEAN /\ Export!Parse(line).minidump \in BOOLEAN
         /\ Export!Parse(line).sensitive \/ Export!Parse(line).minidump
              => Export!Parse(line).level # "info"
<1>1. ASSUME NEW a \in {"sensitive", "minidump"}, Export!Given(line, a)
      PROVE  Export!LastOf(line, Export!LevelArguments, "none") # "none"
  <2>1. a \in Export!LevelArguments
    BY DEF Export!LevelArguments
  <2>2. PICK i \in DOMAIN line : line[i] \in Export!LevelArguments
    BY <1>1, <2>1 DEF Export!Given
  <2>3. PICK last : IsLast(line, Export!LevelArguments, last)
    BY <2>2, LastExists
  <2>4. Export!LastOf(line, Export!LevelArguments, "none") = line[last]
    BY <2>3, LastIs
  <2>5. line[last] \in Export!LevelArguments
    BY <2>3 DEF IsLast
  <2> QED BY <2>4, <2>5 DEF Export!LevelArguments
<1>2. /\ Export!Parse(line).level \in Export!Levels
      /\ Export!Parse(line).level = "info" <=>
           Export!LastOf(line, Export!LevelArguments, "none") = "none"
      /\ Export!Parse(line).sensitive = Export!Given(line, "sensitive")
      /\ Export!Parse(line).minidump = Export!Given(line, "minidump")
  BY ParseFields
<1>3. Export!Given(line, "sensitive") \in BOOLEAN /\ Export!Given(line, "minidump") \in BOOLEAN
  BY DEF Export!Given
<1> QED BY <1>1, <1>2, <1>3

\* Two lines one after the other.
Joined(p, q, r) ==
  /\ Line(r) /\ Len(r) = Len(p) + Len(q)
  /\ \A i \in 1..Len(p) : r[i] = p[i]
  /\ \A i \in 1..Len(q) : r[Len(p) + i] = q[i]

LEMMA Joins ==
  ASSUME NEW p, Line(p), NEW q, Line(q)
  PROVE  Joined(p, q, p \o q)
<1> DEFINE s == {p[i] : i \in DOMAIN p} \union {q[i] : i \in DOMAIN q}
           r == p \o q
<1>1. p \in Seq(s) /\ q \in Seq(s)
  <2>1. Len(p) \in Nat /\ Len(q) \in Nat /\ DOMAIN p = 1..Len(p) /\ DOMAIN q = 1..Len(q)
    BY LinePlaces
  <2>2. p = [i \in 1..Len(p) |-> p[i]] /\ q = [i \in 1..Len(q) |-> q[i]]
    BY <2>1 DEF Line
  <2>3. p \in [1..Len(p) -> s] /\ q \in [1..Len(q) -> s]
    BY <2>1, <2>2
  <2> HIDE DEF s, r
  <2> QED BY <2>1, <2>3
<1> HIDE DEF s
<1>2. /\ r \in Seq(s) /\ Len(r) = Len(p) + Len(q)
      /\ \A i \in 1..Len(p) : r[i] = p[i]
      /\ \A i \in 1..Len(q) : r[Len(p) + i] = q[i]
  BY <1>1
<1> HIDE DEF r
<1>3. Line(r)
  <2>1. Len(r) \in Nat /\ DOMAIN r = 1..Len(r) /\ r = [i \in 1..Len(r) |-> r[i]]
    BY <1>2
  <2> DEFINE t == {r[i] : i \in DOMAIN r}
  <2>2. r \in [1..Len(r) -> t]
    BY <2>1
  <2> HIDE DEF t
  <2>3. r \in Seq(t)
    BY <2>1, <2>2
  <2> QED BY <2>3 DEF Line, t
<1>4. Joined(p, q, r)
  BY <1>2, <1>3 DEF Joined
<1> QED BY <1>4 DEF r

LEMMA JoinPlaces ==
  ASSUME NEW p, Line(p), NEW q, Line(q), NEW r, Joined(p, q, r), NEW i \in DOMAIN r
  PROVE  \/ i \in DOMAIN p /\ r[i] = p[i]
         \/ i - Len(p) \in DOMAIN q /\ r[i] = q[i - Len(p)]
<1>1. /\ Len(p) \in Nat /\ Len(q) \in Nat /\ DOMAIN p = 1..Len(p) /\ DOMAIN q = 1..Len(q)
      /\ DOMAIN r = 1..(Len(p) + Len(q))
  BY LinePlaces DEF Joined
<1>2. CASE i \in 1..Len(p)
  BY <1>1, <1>2 DEF Joined
<1>3. CASE i \notin 1..Len(p)
  <2>1. i - Len(p) \in 1..Len(q) /\ i = Len(p) + (i - Len(p))
    BY <1>1, <1>3
  <2>2. r[Len(p) + (i - Len(p))] = q[i - Len(p)]
    BY <2>1 DEF Joined
  <2> QED BY <1>1, <2>1, <2>2
<1> QED BY <1>2, <1>3

LEMMA JoinGiven ==
  ASSUME NEW p, Line(p), NEW q, Line(q), NEW r, Joined(p, q, r), NEW a
  PROVE  Export!Given(r, a) = (Export!Given(p, a) \/ Export!Given(q, a))
<1>1. /\ Len(p) \in Nat /\ Len(q) \in Nat /\ DOMAIN p = 1..Len(p) /\ DOMAIN q = 1..Len(q)
      /\ DOMAIN r = 1..(Len(p) + Len(q))
  BY LinePlaces DEF Joined
<1>2. Export!Given(p, a) => Export!Given(r, a)
  BY <1>1 DEF Export!Given, Joined
<1>3. Export!Given(q, a) => Export!Given(r, a)
  <2> SUFFICES ASSUME NEW i \in DOMAIN q, q[i] = a PROVE Export!Given(r, a)
    BY DEF Export!Given
  <2>1. Len(p) + i \in DOMAIN r /\ r[Len(p) + i] = q[i]
    BY <1>1 DEF Joined
  <2> QED BY <2>1 DEF Export!Given
<1>4. Export!Given(r, a) => Export!Given(p, a) \/ Export!Given(q, a)
  BY JoinPlaces DEF Export!Given
<1>5. Export!Given(r, a) \in BOOLEAN
  BY DEF Export!Given
<1> QED BY <1>2, <1>3, <1>4, <1>5

\* The choices that are appended for the restart.
IfChosen(chosen, a) == IF chosen THEN <<a>> ELSE <<>>
LEMMA OneChoice ==
  ASSUME NEW chosen \in BOOLEAN, NEW a, NEW q, q = IfChosen(chosen, a)
  PROVE  Line(q) /\ \A b : Export!Given(q, b) = (chosen /\ b = a)
<1>1. CASE chosen
  <2>1. q = <<a>> /\ DOMAIN q = 1..1 /\ q[1] = a
    BY <1>1 DEF IfChosen
  <2>2. Line(q)
    BY <2>1 DEF Line
  <2>3. \A b : Export!Given(q, b) = (b = a)
    <3>1. 1..1 = {1}
      OBVIOUS
    <3> QED BY <2>1, <3>1 DEF Export!Given
  <2> QED BY <1>1, <2>2, <2>3
<1>2. CASE ~chosen
  <2>1. q = <<>> /\ DOMAIN q = 1..0
    BY <1>2 DEF IfChosen
  <2>2. Line(q)
    BY <2>1 DEF Line
  <2>3. \A b : Export!Given(q, b) = FALSE
    <3>1. 1..0 = {}
      OBVIOUS
    <3> QED BY <2>1, <3>1 DEF Export!Given
  <2> QED BY <1>2, <2>2, <2>3
<1> QED BY <1>1, <1>2

LEMMA ExportNth == ASSUME NEW s, NEW k PROVE Export!Nth(s, k) = Nth(s, k)
  BY DEF Export!Nth, Nth, Below, Export!Cardinality, Cardinality

\* The arguments that are kept: every directory, in order, and nothing that tells
\* the level or a choice.
KeptLine(line) ==
  [k \in 1..Cardinality(Export!Kept(line)) |-> line[Nth(Export!Kept(line), k)]]

LEMMA KeptPlaces ==
  ASSUME NEW line, Line(line), NEW kept, kept = Export!Kept(line)
  PROVE  /\ Len(line) \in Nat /\ kept \in SUBSET (1..Len(line)) /\ DOMAIN line = 1..Len(line)
         /\ Cardinality(kept) \in Nat
         /\ Line(KeptLine(line)) /\ Len(KeptLine(line)) = Cardinality(kept)
         /\ \A k \in 1..Cardinality(kept) :
              /\ Nth(kept, k) \in kept /\ Cardinality(Below(kept, Nth(kept, k))) = k - 1
              /\ KeptLine(line)[k] = line[Nth(kept, k)]
<1>1. Len(line) \in Nat /\ kept \in SUBSET (1..Len(line)) /\ DOMAIN line = 1..Len(line)
  BY LinePlaces DEF Export!Kept
<1>2. /\ Cardinality(kept) \in Nat
      /\ \A k \in 1..Cardinality(kept) :
           Nth(kept, k) \in kept /\ Cardinality(Below(kept, Nth(kept, k))) = k - 1
  BY <1>1, NthIsThere
<1>3. KeptLine(line) = [k \in 1..Cardinality(kept) |-> line[Nth(kept, k)]]
  BY DEF KeptLine
<1>4. Line(KeptLine(line)) /\ Len(KeptLine(line)) = Cardinality(kept)
  <2> DEFINE q == KeptLine(line)
             n == Cardinality(kept)
  <2>1. DOMAIN q = 1..n /\ n \in Nat /\ q = [i \in 1..n |-> q[i]]
    BY <1>2, <1>3
  <2> HIDE DEF q, n
  <2>2. q \in Seq({q[i] : i \in DOMAIN q}) /\ Len(q) = n
    <3>1. q \in [1..n -> {q[i] : i \in DOMAIN q}]
      BY <2>1
    <3> QED BY <2>1, <3>1
  <2> QED BY <2>2 DEF Line, q, n
<1> QED BY <1>1, <1>2, <1>3, <1>4

LEMMA KeptAreHarmless ==
  ASSUME NEW line, Line(line), NEW k \in DOMAIN KeptLine(line)
  PROVE  KeptLine(line)[k] \notin {"diagnostic", "debug", "trace", "sensitive", "minidump"}
<1> DEFINE kept == Export!Kept(line)
<1>1. kept = Export!Kept(line)
  OBVIOUS
<1> HIDE DEF kept
<1>2. k \in 1..Cardinality(kept)
  BY <1>1, KeptPlaces, LinePlaces
<1>3. Nth(kept, k) \in kept /\ KeptLine(line)[k] = line[Nth(kept, k)]
  BY <1>1, <1>2, KeptPlaces
<1> QED BY <1>1, <1>3 DEF Export!Kept, Export!IsDiagnostic, Export!Directories

\* The last directory is still the last.
LEMMA DirectoryIsKept ==
  ASSUME NEW line, Line(line)
  PROVE  /\ \A last : IsLast(line, Export!Directories, last) =>
              \E k : IsLast(KeptLine(line), Export!Directories, k) /\ KeptLine(line)[k] = line[last]
         /\ (\A i \in DOMAIN line : line[i] \notin Export!Directories)
              => \A k \in DOMAIN KeptLine(line) : KeptLine(line)[k] \notin Export!Directories
<1> DEFINE kept == Export!Kept(line)
           q == KeptLine(line)
           n == Cardinality(kept)
<1>1. kept = Export!Kept(line)
  OBVIOUS
<1> HIDE DEF kept
<1>2. /\ Len(line) \in Nat /\ kept \in SUBSET (1..Len(line)) /\ DOMAIN line = 1..Len(line)
      /\ n \in Nat /\ DOMAIN q = 1..n
      /\ \A k \in 1..n : /\ Nth(kept, k) \in kept /\ Cardinality(Below(kept, Nth(kept, k))) = k - 1
                         /\ q[k] = line[Nth(kept, k)]
  BY <1>1, KeptPlaces, LinePlaces
<1>3. ASSUME NEW last, IsLast(line, Export!Directories, last)
      PROVE  \E k : IsLast(q, Export!Directories, k) /\ q[k] = line[last]
  <2>1. last \in kept
    BY <1>1, <1>3 DEF IsLast, Export!Kept
  <2> DEFINE k == Cardinality(Below(kept, last)) + 1
  <2>2. k \in 1..n /\ Nth(kept, k) = last
    BY <1>2, <2>1, NthIsThere
  <2>3. \A i, j \in kept : i < j => Cardinality(Below(kept, i)) < Cardinality(Below(kept, j))
    BY <1>2, RanksRise
  <2>4. q[k] = line[last]
    BY <1>2, <2>2
  <2>5. ASSUME NEW j \in DOMAIN q, q[j] \in Export!Directories PROVE j <= k
    <3>1. /\ j \in 1..n /\ Nth(kept, j) \in kept /\ q[j] = line[Nth(kept, j)]
          /\ Cardinality(Below(kept, Nth(kept, j))) = j - 1
      BY <1>2
    <3>2. Nth(kept, j) <= last
      BY <1>2, <1>3, <2>5, <3>1 DEF IsLast
    <3>3. Nth(kept, j) = last \/ Nth(kept, j) < last
      <4>1. \A i \in kept : i \in Int
        BY <1>2
      <4>2. Nth(kept, j) \in Int /\ last \in Int
        BY <2>1, <3>1, <4>1
      <4> QED BY <3>2, <4>2
    <3>4. Cardinality(Below(kept, last)) = k - 1
      BY <2>2, <1>2
    <3> HIDE DEF k
    <3>5. j - 1 <= k - 1
      <4>1. j - 1 \in Int /\ k - 1 \in Int
        BY <2>2, <3>1
      <4>2. CASE Nth(kept, j) = last
        BY <4>1, <4>2, <3>1, <3>4
      <4>3. CASE Nth(kept, j) < last
        BY <4>1, <4>3, <2>1, <2>3, <3>1, <3>4
      <4> QED BY <3>3, <4>2, <4>3
    <3> QED BY <2>2, <3>1, <3>5
  <2>6. line[last] \in Export!Directories
    BY <1>3 DEF IsLast
  <2>7. IsLast(q, Export!Directories, k)
    BY <1>2, <2>2, <2>4, <2>5, <2>6 DEF IsLast
  <2> QED BY <2>4, <2>7
<1>4. ASSUME \A i \in DOMAIN line : line[i] \notin Export!Directories, NEW k \in DOMAIN q
      PROVE  q[k] \notin Export!Directories
  BY <1>2, <1>4
<1> QED BY <1>3, <1>4

\* What is appended and of another kind does not change the last of a kind.
LEMMA LastJoined ==
  ASSUME NEW p, Line(p), NEW q, Line(q), NEW r, Joined(p, q, r), NEW kind, NEW default,
         \A i \in DOMAIN q : q[i] \notin kind
  PROVE  Export!LastOf(r, kind, default) = Export!LastOf(p, kind, default)
<1>1. /\ Len(p) \in Nat /\ Len(q) \in Nat /\ DOMAIN p = 1..Len(p) /\ DOMAIN q = 1..Len(q)
      /\ DOMAIN r = 1..(Len(p) + Len(q)) /\ Line(r)
  BY LinePlaces DEF Joined
<1>2. \A i \in DOMAIN r : r[i] \in kind => i \in DOMAIN p /\ r[i] = p[i]
  BY JoinPlaces
<1>3. CASE \A i \in DOMAIN p : p[i] \notin kind
  <2>1. \A i \in DOMAIN r : r[i] \notin kind
    BY <1>2, <1>3
  <2>2. Export!LastOf(r, kind, default) = default
    BY <2>1, NoneGiven
  <2>3. Export!LastOf(p, kind, default) = default
    BY <1>3, NoneGiven
  <2> QED BY <2>2, <2>3
<1>4. CASE \E i \in DOMAIN p : p[i] \in kind
  <2>1. PICK last : IsLast(p, kind, last)
    BY <1>4, LastExists
  <2>2. last \in DOMAIN p /\ last \in DOMAIN r /\ r[last] = p[last]
    BY <1>1, <2>1 DEF IsLast, Joined
  <2>3. IsLast(r, kind, last)
    BY <1>2, <2>1, <2>2 DEF IsLast
  <2>4. Export!LastOf(r, kind, default) = r[last]
    BY <1>1, <2>3, LastIs
  <2>5. Export!LastOf(p, kind, default) = p[last]
    BY <2>1, LastIs
  <2> QED BY <2>2, <2>4, <2>5
<1> QED BY <1>3, <1>4

LEMMA KeptDirectory ==
  ASSUME NEW line, Line(line), NEW default
  PROVE  Export!LastOf(KeptLine(line), Export!Directories, default)
           = Export!LastOf(line, Export!Directories, default)
<1>1. Line(KeptLine(line))
  BY KeptPlaces
<1>2. CASE \A i \in DOMAIN line : line[i] \notin Export!Directories
  <2>1. \A i \in DOMAIN KeptLine(line) : KeptLine(line)[i] \notin Export!Directories
    BY <1>2, DirectoryIsKept
  <2>2. Export!LastOf(KeptLine(line), Export!Directories, default) = default
    BY <2>1, NoneGiven
  <2>3. Export!LastOf(line, Export!Directories, default) = default
    BY <1>2, NoneGiven
  <2> QED BY <2>2, <2>3
<1>3. CASE \E i \in DOMAIN line : line[i] \in Export!Directories
  <2>1. PICK last : IsLast(line, Export!Directories, last)
    BY <1>3, LastExists
  <2>2. PICK k : IsLast(KeptLine(line), Export!Directories, k) /\ KeptLine(line)[k] = line[last]
    BY <2>1, DirectoryIsKept
  <2>3. Export!LastOf(KeptLine(line), Export!Directories, default) = KeptLine(line)[k]
    BY <1>1, <2>2, LastIs
  <2>4. Export!LastOf(line, Export!Directories, default) = line[last]
    BY <2>1, LastIs
  <2> QED BY <2>2, <2>3, <2>4
<1> QED BY <1>2, <1>3

\* One more choice is appended.
Appends(p, q, r, chosen, a) ==
  /\ Line(r)
  /\ \A b : Export!Given(r, b) = (Export!Given(p, b) \/ (chosen /\ b = a))
  /\ \A default : Export!LastOf(r, Export!Directories, default)
                    = Export!LastOf(p, Export!Directories, default)
LEMMA AppendChoice ==
  ASSUME NEW p, Line(p), NEW chosen \in BOOLEAN,
         NEW a \in {"trace", "sensitive", "minidump", "session0"},
         NEW q, q = IfChosen(chosen, a), NEW r, r = p \o q
  PROVE  Appends(p, q, r, chosen, a)
<1>1. Line(q) /\ \A b : Export!Given(q, b) = (chosen /\ b = a)
  BY OneChoice
<1>2. Joined(p, q, r)
  BY <1>1, Joins
<1>3. \A b : Export!Given(r, b) = (Export!Given(p, b) \/ (chosen /\ b = a))
  <2> TAKE b
  <2>1. Export!Given(r, b) = (Export!Given(p, b) \/ Export!Given(q, b))
    BY <1>1, <1>2, JoinGiven
  <2> QED BY <1>1, <2>1
<1>4. \A i \in DOMAIN q : q[i] \notin Export!Directories
  <2> TAKE i \in DOMAIN q
  <2>1. Export!Given(q, q[i])
    BY DEF Export!Given
  <2>2. q[i] = a
    BY <1>1, <2>1
  <2> QED BY <2>2 DEF Export!Directories
<1>5. \A default : Export!LastOf(r, Export!Directories, default)
                    = Export!LastOf(p, Export!Directories, default)
  BY <1>1, <1>2, <1>4, LastJoined
<1> QED BY <1>2, <1>3, <1>5 DEF Appends, Joined

\* The restarted process parses the choices of this moment.
Restarts(line, sen, min, dir) ==
  LET c == Export!Parse(line) IN
  c.level = "trace" /\ c.sensitive = sen /\ c.minidump = min /\ c.dir = dir
LEMMA RestartParses ==
  ASSUME Line(arguments), sensitive \in BOOLEAN, minidump \in BOOLEAN
  PROVE  Restarts(Export!RestartArguments, sensitive, minidump, Export!Parse(arguments).dir)
<1> DEFINE k == KeptLine(arguments)
           q1 == IfChosen(TRUE, "trace")
           q2 == IfChosen(sensitive, "sensitive")
           q3 == IfChosen(minidump, "minidump")
           q4 == IfChosen(TRUE, "session0")
           r1 == k \o q1
           r2 == r1 \o q2
           r3 == r2 \o q3
           r4 == r3 \o q4
<1>1. Export!RestartArguments = r4
  BY ExportNth DEF Export!RestartArguments, KeptLine, IfChosen, Export!Cardinality, Cardinality
<1>2. Line(k)
  BY KeptPlaces
<1>3. \A i \in DOMAIN k : k[i] \notin {"diagnostic", "debug", "trace", "sensitive", "minidump"}
  BY KeptAreHarmless
<1>4. \A default : Export!LastOf(k, Export!Directories, default)
                    = Export!LastOf(arguments, Export!Directories, default)
  BY KeptDirectory
<1> HIDE DEF k
<1>5. Appends(k, q1, r1, TRUE, "trace")
  BY <1>2, AppendChoice
<1>6. Appends(r1, q2, r2, sensitive, "sensitive")
  <2>1. Line(r1)
    BY <1>5 DEF Appends
  <2> HIDE DEF r1
  <2> QED BY <2>1, AppendChoice
<1>7. Appends(r2, q3, r3, minidump, "minidump")
  <2>1. Line(r2)
    BY <1>6 DEF Appends
  <2> HIDE DEF r2
  <2> QED BY <2>1, AppendChoice
<1>8. Appends(r3, q4, r4, TRUE, "session0")
  <2>1. Line(r3)
    BY <1>7 DEF Appends
  <2> HIDE DEF r3
  <2> QED BY <2>1, AppendChoice
<1> HIDE DEF q1, q2, q3, q4, r1, r2, r3, r4
<1>9. /\ Line(r4)
      /\ \A b : Export!Given(r4, b) = (Export!Given(k, b) \/ b = "trace"
                                       \/ (sensitive /\ b = "sensitive")
                                       \/ (minidump /\ b = "minidump") \/ b = "session0")
      /\ \A default : Export!LastOf(r4, Export!Directories, default)
                        = Export!LastOf(arguments, Export!Directories, default)
  BY <1>4, <1>5, <1>6, <1>7, <1>8 DEF Appends
<1>10. /\ ~Export!Given(k, "debug") /\ ~Export!Given(k, "diagnostic")
       /\ ~Export!Given(k, "sensitive") /\ ~Export!Given(k, "minidump")
  BY <1>3 DEF Export!Given
<1>11. Export!LastOf(r4, Export!LevelArguments, "none") \notin {"none", "debug"}
  <2>1. Export!Given(r4, "trace")
    BY <1>9
  <2>2. PICK i \in DOMAIN r4 : r4[i] \in Export!LevelArguments
    BY <2>1 DEF Export!Given, Export!LevelArguments
  <2>3. PICK last : IsLast(r4, Export!LevelArguments, last)
    BY <1>9, <2>2, LastExists
  <2>4. Export!LastOf(r4, Export!LevelArguments, "none") = r4[last]
    BY <1>9, <2>3, LastIs
  <2>5. r4[last] \in Export!LevelArguments /\ Export!Given(r4, r4[last])
    BY <2>3 DEF IsLast, Export!Given
  <2>6. ~Export!Given(r4, "debug")
    BY <1>9, <1>10
  <2> QED BY <2>4, <2>5, <2>6 DEF Export!LevelArguments
<1>12. Export!Given(r4, "sensitive") = sensitive /\ Export!Given(r4, "minidump") = minidump
  BY <1>9, <1>10
<1>13. /\ Export!Parse(r4).level = "trace"
       /\ Export!Parse(r4).sensitive = sensitive /\ Export!Parse(r4).minidump = minidump
       /\ Export!Parse(r4).dir = Export!Parse(arguments).dir
  BY <1>9, <1>11, <1>12, ParseFields
<1>14. Restarts(r4, sensitive, minidump, Export!Parse(arguments).dir)
  BY <1>13 DEF Restarts
<1> QED BY ZenonT(60), <1>1, <1>14

-----------------------------------------------------------------------------
(* What the choices of the log are once every store that is pending is made. *)
Unique(q) == \A i, j \in DOMAIN q : q[i].at = q[j].at => i = j
Flags == {"sensitive", "ever", "minidump", "dumps"}
StoreTyped(s) == \/ s.at \in Flags /\ s.to \in BOOLEAN
                 \/ s.at = "level" /\ s.to \in Export!Levels
StoresTyped(q) == /\ Line(q)
                  /\ \A i \in DOMAIN q : StoreTyped(q[i])
Ends(q, name, old, v) == \/ \E i \in DOMAIN q : q[i].at = name /\ v = q[i].to
                         \/ v = old /\ \A i \in DOMAIN q : q[i].at # name
Settled(s, e, l, m, d) == (d => m) /\ (s \/ m => l # "info") /\ (s => e)
Settles(q, sen, eve, lev, min, dum) ==
  \E s, e, m, d \in BOOLEAN, l \in Export!Levels :
    /\ Ends(q, "sensitive", sen, s) /\ Ends(q, "ever", eve, e) /\ Ends(q, "level", lev, l)
    /\ Ends(q, "minidump", min, m) /\ Ends(q, "dumps", dum, d)
    /\ Settled(s, e, l, m, d)
TellsEver(q) == \E i \in DOMAIN q : q[i].at = "ever"
EverFollows(q) ==
  /\ \A i \in DOMAIN q : q[i].at = "ever" => q[i].to
  /\ \A i \in DOMAIN q : q[i].at = "sensitive" /\ q[i].to =>
       \E j \in DOMAIN q : j > i /\ q[j].at = "ever"
ChoicesTyped ==
  /\ sensitive \in BOOLEAN /\ ever \in BOOLEAN /\ minidump \in BOOLEAN /\ dumps \in BOOLEAN
  /\ level \in Export!Levels
  /\ shown.sensitive \in BOOLEAN /\ shown.minidump \in BOOLEAN /\ shown.detailed \in BOOLEAN
StoresInv ==
  /\ ChoicesTyped /\ StoresTyped(stores) /\ Unique(stores) /\ EverFollows(stores)
  /\ Settles(stores, sensitive, ever, level, minidump, dumps)
  /\ dialog # "open" => stores = <<>>
PrivateInv ==
  /\ private \in BOOLEAN /\ artifact \in BOOLEAN /\ directory \in BOOLEAN
  /\ sensitive \/ private \/ building = "private" => ever \/ TellsEver(stores)
Unwarned == ~warned /\ (dialog = "saving" \/ exportThread \in {"collect", "status", "written"})
WarningInv ==
  /\ late = [private |-> late.private, crash |-> late.crash, unread |-> late.unread]
  /\ Unwarned => /\ sensitive \/ private \/ building = "private" => late.private
                 /\ artifact => late.crash \/ late.unread
  /\ bundle = [private |-> bundle.private, crash |-> bundle.crash, told |-> bundle.told,
               torn |-> bundle.torn]
  /\ exportThread \in {"status", "written"} =>
       (bundle.private => private) /\ (bundle.crash => artifact)
  /\ exportThread = "written" /\ bundle.private /\ ~bundle.torn => bundle.told
EndInv ==
  /\ ended = [how |-> ended.how, dump |-> ended.dump, next |-> ended.next]
  /\ ended.dump => dumps
  /\ ended.how = "no" => ~ended.dump
  /\ arguments \in CommandLines
  /\ Export!RestartKeepsTheChoices

ExportInv == StoresInv /\ PrivateInv /\ WarningInv /\ EndInv

\* A sequence is one of its own elements.
LEMMA OfItsElements ==
  ASSUME NEW t, NEW r \in Seq(t)
  PROVE  Line(r)
<1> DEFINE u == {r[i] : i \in DOMAIN r}
<1>1. Len(r) \in Nat /\ DOMAIN r = 1..Len(r) /\ r = [i \in 1..Len(r) |-> r[i]]
  OBVIOUS
<1>2. r \in [1..Len(r) -> u]
  BY <1>1
<1> HIDE DEF u
<1>3. r \in Seq(u)
  BY <1>1, <1>2
<1> QED BY <1>3 DEF u, Line

\* The rest of a sequence of stores.
LEMMA RestOfStores ==
  ASSUME NEW q, StoresTyped(q), q # <<>>, NEW r, r = Tail(q), NEW s, s = Head(q)
  PROVE  /\ Len(q) \in Nat /\ Len(q) >= 1 /\ DOMAIN q = 1..Len(q) /\ s = q[1] /\ StoreTyped(s)
         /\ Len(r) = Len(q) - 1 /\ DOMAIN r = 1..(Len(q) - 1)
         /\ \A i \in DOMAIN r : i + 1 \in DOMAIN q /\ r[i] = q[i + 1]
         /\ StoresTyped(r)
         /\ Len(q) = 1 <=> r = <<>>
<1> DEFINE t == {q[i] : i \in DOMAIN q}
<1>1. q \in Seq(t)
  BY DEF StoresTyped, Line
<1>2. \A i \in DOMAIN q : q[i] \in t /\ StoreTyped(q[i])
  BY DEF StoresTyped
<1> HIDE DEF t
<1>3. /\ Len(q) \in Nat /\ Len(q) >= 1 /\ DOMAIN q = 1..Len(q) /\ s = q[1]
      /\ r \in Seq(t) /\ Len(r) = Len(q) - 1 /\ DOMAIN r = 1..(Len(q) - 1)
      /\ \A i \in 1..(Len(q) - 1) : r[i] = q[i + 1]
  BY <1>1
<1>4. StoreTyped(s)
  <2>1. 1 \in DOMAIN q
    BY <1>3
  <2> QED BY <1>2, <1>3, <2>1
<1>5. \A i \in DOMAIN r : i + 1 \in DOMAIN q /\ r[i] = q[i + 1]
  BY <1>3
<1>6. StoresTyped(r)
  <2>3. Line(r)
    BY <1>3, OfItsElements
  <2>4. \A i \in DOMAIN r : StoreTyped(r[i])
    BY <1>2, <1>5
  <2> QED BY <2>3, <2>4 DEF StoresTyped
<1>7. Len(q) = 1 <=> r = <<>>
  <2>1. Len(q) = 1 => r = <<>>
    BY <1>3
  <2>2. r = <<>> => Len(r) = 0
    OBVIOUS
  <2> QED BY <1>3, <2>1, <2>2
<1> QED BY <1>3, <1>4, <1>5, <1>6, <1>7

\* A store that is made is one that is no longer pending.
Made(s, name, old, new) == new = IF s.at = name THEN s.to ELSE old
LEMMA StoreEnds ==
  ASSUME NEW q, StoresTyped(q), Unique(q), q # <<>>,
         NEW name, NEW old, NEW v, Ends(q, name, old, v), NEW new, Made(Head(q), name, old, new)
  PROVE  Ends(Tail(q), name, new, v)
<1> DEFINE r == Tail(q)
           s == Head(q)
<1>0. r = Tail(q) /\ s = Head(q)
  OBVIOUS
<1> HIDE DEF r, s
<1>1. /\ Len(q) \in Nat /\ Len(q) >= 1 /\ DOMAIN q = 1..Len(q) /\ s = q[1]
      /\ DOMAIN r = 1..(Len(q) - 1)
      /\ \A i \in DOMAIN r : i + 1 \in DOMAIN q /\ r[i] = q[i + 1]
  BY <1>0, RestOfStores
<1>2. CASE s.at = name
  <2>1. \A i \in DOMAIN q : q[i].at = name => i = 1
    BY <1>1, <1>2 DEF Unique
  <2>2. new = v
    BY <1>0, <1>1, <1>2, <2>1 DEF Ends, Made
  <2>3. \A i \in DOMAIN r : r[i].at # name
    <3> TAKE i \in DOMAIN r
    <3>1. i + 1 \in DOMAIN q /\ r[i] = q[i + 1] /\ i + 1 # 1
      BY <1>1
    <3> QED BY <2>1, <3>1
  <2> QED BY <1>0, <2>2, <2>3 DEF Ends
<1>3. CASE s.at # name
  <2>1. new = old
    BY <1>0, <1>3 DEF Made
  <2>2. CASE \E i \in DOMAIN q : q[i].at = name /\ v = q[i].to
    <3> PICK i \in DOMAIN q : q[i].at = name /\ v = q[i].to
      BY <2>2
    <3>1. i # 1
      BY <1>1, <1>3
    <3>2. i - 1 \in DOMAIN r /\ r[i - 1] = q[i]
      <4>1. i - 1 \in DOMAIN r /\ (i - 1) + 1 = i
        BY <1>1, <3>1
      <4> QED BY <1>1, <4>1
    <3> QED BY <1>0, <3>2 DEF Ends
  <2>3. CASE v = old /\ \A i \in DOMAIN q : q[i].at # name
    BY <1>0, <1>1, <2>1, <2>3 DEF Ends
  <2> QED BY <2>2, <2>3 DEF Ends
<1> QED BY <1>2, <1>3

LEMMA StoreSettles ==
  ASSUME NEW q, StoresTyped(q), Unique(q), q # <<>>,
         NEW sen, NEW eve, NEW lev, NEW min, NEW dum, Settles(q, sen, eve, lev, min, dum),
         NEW sen2, Made(Head(q), "sensitive", sen, sen2),
         NEW eve2, Made(Head(q), "ever", eve, eve2),
         NEW lev2, Made(Head(q), "level", lev, lev2),
         NEW min2, Made(Head(q), "minidump", min, min2),
         NEW dum2, Made(Head(q), "dumps", dum, dum2)
  PROVE  Settles(Tail(q), sen2, eve2, lev2, min2, dum2)
<1> PICK s \in BOOLEAN, e \in BOOLEAN, m \in BOOLEAN, d \in BOOLEAN, l \in Export!Levels :
      /\ Ends(q, "sensitive", sen, s) /\ Ends(q, "ever", eve, e) /\ Ends(q, "level", lev, l)
      /\ Ends(q, "minidump", min, m) /\ Ends(q, "dumps", dum, d)
      /\ Settled(s, e, l, m, d)
  BY DEF Settles
<1>1. Ends(Tail(q), "sensitive", sen2, s)
  BY StoreEnds
<1>2. Ends(Tail(q), "ever", eve2, e)
  BY StoreEnds
<1>3. Ends(Tail(q), "level", lev2, l)
  BY StoreEnds
<1>4. Ends(Tail(q), "minidump", min2, m)
  BY StoreEnds
<1>5. Ends(Tail(q), "dumps", dum2, d)
  BY StoreEnds
<1> QED BY <1>1, <1>2, <1>3, <1>4, <1>5 DEF Settles

\* Of the stores that are left, each is still of its own name, and the history of
\* sensitive logging still follows its switch.
LEMMA RestFollows ==
  ASSUME NEW q, StoresTyped(q), Unique(q), EverFollows(q), q # <<>>, NEW r, r = Tail(q)
  PROVE  /\ Unique(r) /\ EverFollows(r)
         /\ q[1].at = "sensitive" /\ q[1].to => TellsEver(r)
         /\ TellsEver(q) => TellsEver(r) \/ (q[1].at = "ever" /\ q[1].to)
<1>1. /\ Len(q) \in Nat /\ Len(q) >= 1 /\ DOMAIN q = 1..Len(q) /\ DOMAIN r = 1..(Len(q) - 1)
      /\ \A i \in DOMAIN r : i + 1 \in DOMAIN q /\ r[i] = q[i + 1]
  BY RestOfStores
<1>2. \A i \in DOMAIN q : i = 1 \/ (i - 1 \in DOMAIN r /\ r[i - 1] = q[i])
  <2> TAKE i \in DOMAIN q
  <2>1. i # 1 => i - 1 \in DOMAIN r /\ (i - 1) + 1 = i
    BY <1>1
  <2> QED BY <1>1, <2>1
<1>3. Unique(r)
  <2> SUFFICES ASSUME NEW i \in DOMAIN r, NEW j \in DOMAIN r, r[i].at = r[j].at PROVE i = j
    BY DEF Unique
  <2>1. i + 1 = j + 1
    BY <1>1 DEF Unique
  <2> QED BY <1>1, <2>1
<1>4. EverFollows(r)
  <2>1. \A i \in DOMAIN r : r[i].at = "ever" => r[i].to
    BY <1>1 DEF EverFollows
  <2>2. ASSUME NEW i \in DOMAIN r, r[i].at = "sensitive", r[i].to
        PROVE  \E j \in DOMAIN r : j > i /\ r[j].at = "ever"
    <3>1. i + 1 \in DOMAIN q /\ q[i + 1].at = "sensitive" /\ q[i + 1].to
      BY <1>1, <2>2
    <3>2. PICK j \in DOMAIN q : j > i + 1 /\ q[j].at = "ever"
      BY <3>1 DEF EverFollows
    <3>3. j - 1 \in DOMAIN r /\ j - 1 > i /\ (j - 1) + 1 = j
      BY <1>1, <3>2
    <3>4. r[j - 1] = q[j]
      BY <1>1, <3>3
    <3> QED BY <3>2, <3>3, <3>4
  <2> QED BY <2>1, <2>2 DEF EverFollows
<1>5. ASSUME q[1].at = "sensitive", q[1].to PROVE TellsEver(r)
  <2>1. 1 \in DOMAIN q
    BY <1>1
  <2>2. PICK j \in DOMAIN q : j > 1 /\ q[j].at = "ever"
    BY <1>5, <2>1 DEF EverFollows
  <2>3. j # 1
    BY <1>1, <2>2
  <2> QED BY <1>2, <2>2, <2>3 DEF TellsEver
<1>6. TellsEver(q) => TellsEver(r) \/ (q[1].at = "ever" /\ q[1].to)
  <2> SUFFICES ASSUME NEW i \in DOMAIN q, q[i].at = "ever"
               PROVE  TellsEver(r) \/ (q[1].at = "ever" /\ q[1].to)
    BY DEF TellsEver
  <2>1. q[i].to
    BY DEF EverFollows
  <2>2. CASE i = 1
    BY <2>1, <2>2
  <2>3. CASE i - 1 \in DOMAIN r /\ r[i - 1] = q[i]
    BY <2>3 DEF TellsEver
  <2> QED BY <1>2, <2>2, <2>3
<1> QED BY <1>3, <1>4, <1>5, <1>6

-----------------------------------------------------------------------------
(* What a click leaves to store.                                             *)

St(name, v) == [at |-> name, to |-> v]
One(q, a) == Line(q) /\ Len(q) = 1 /\ q[1] = a
Two(q, a, b) == Line(q) /\ Len(q) = 2 /\ q[1] = a /\ q[2] = b
Three(q, a, b, c) == Line(q) /\ Len(q) = 3 /\ q[1] = a /\ q[2] = b /\ q[3] = c
Four(q, a, b, c, d) == Line(q) /\ Len(q) = 4 /\ q[1] = a /\ q[2] = b /\ q[3] = c /\ q[4] = d

LEMMA ShortLines ==
  /\ Line(<<>>) /\ Len(<<>>) = 0
  /\ \A a : One(<<a>>, a)
  /\ \A a, b : Two(<<a, b>>, a, b)
<1>1. Line(<<>>) /\ Len(<<>>) = 0
  BY DEF Line
<1>2. ASSUME NEW a PROVE One(<<a>>, a)
  BY DEF Line, One
<1>3. ASSUME NEW a, NEW b PROVE Two(<<a, b>>, a, b)
  BY DEF Line, Two
<1> QED BY <1>1, <1>2, <1>3

LEMMA JoinNone ==
  ASSUME NEW p, NEW a, One(p, a), NEW r, r = p \o <<>>
  PROVE  One(r, a)
<1>1. Line(p) /\ Len(p) = 1 /\ p[1] = a
  BY DEF One
<1>2. Joined(p, <<>>, r)
  BY <1>1, ShortLines, Joins
<1> QED BY <1>1, <1>2, ShortLines DEF One, Joined

LEMMA JoinOneOne ==
  ASSUME NEW p, NEW a, One(p, a), NEW q, NEW b, One(q, b), NEW r, r = p \o q
  PROVE  Two(r, a, b)
<1>1. Line(p) /\ Len(p) = 1 /\ p[1] = a /\ Line(q) /\ Len(q) = 1 /\ q[1] = b
  BY DEF One
<1>2. Joined(p, q, r)
  BY <1>1, Joins
<1>3. Line(r) /\ Len(r) = 2 /\ r[1] = a /\ r[1 + 1] = b
  BY <1>1, <1>2 DEF Joined
<1> QED BY <1>3 DEF Two

LEMMA JoinOneTwo ==
  ASSUME NEW p, NEW a, One(p, a), NEW q, NEW b, NEW c, Two(q, b, c), NEW r, r = p \o q
  PROVE  Three(r, a, b, c)
<1>1. Line(p) /\ Len(p) = 1 /\ p[1] = a /\ Line(q) /\ Len(q) = 2 /\ q[1] = b /\ q[2] = c
  BY DEF One, Two
<1>2. Joined(p, q, r)
  BY <1>1, Joins
<1>3. Line(r) /\ Len(r) = 3 /\ r[1] = a /\ r[1 + 1] = b /\ r[1 + 2] = c
  BY <1>1, <1>2 DEF Joined
<1> QED BY <1>3 DEF Three

LEMMA JoinTwoOne ==
  ASSUME NEW p, NEW a, NEW b, Two(p, a, b), NEW q, NEW c, One(q, c), NEW r, r = p \o q
  PROVE  Three(r, a, b, c)
<1>1. Line(p) /\ Len(p) = 2 /\ p[1] = a /\ p[2] = b /\ Line(q) /\ Len(q) = 1 /\ q[1] = c
  BY DEF One, Two
<1>2. Joined(p, q, r)
  BY <1>1, Joins
<1>3. Line(r) /\ Len(r) = 3 /\ r[1] = a /\ r[2] = b /\ r[2 + 1] = c
  BY <1>1, <1>2 DEF Joined
<1> QED BY <1>3 DEF Three

LEMMA JoinThreeOne ==
  ASSUME NEW p, NEW a, NEW b, NEW c, Three(p, a, b, c), NEW q, NEW d, One(q, d), NEW r, r = p \o q
  PROVE  Four(r, a, b, c, d)
<1>1. /\ Line(p) /\ Len(p) = 3 /\ p[1] = a /\ p[2] = b /\ p[3] = c
      /\ Line(q) /\ Len(q) = 1 /\ q[1] = d
  BY DEF One, Three
<1>2. Joined(p, q, r)
  BY <1>1, Joins
<1>3. Line(r) /\ Len(r) = 4 /\ r[1] = a /\ r[2] = b /\ r[3] = c /\ r[3 + 1] = d
  BY <1>1, <1>2 DEF Joined
<1> QED BY <1>3 DEF Four

\* The stores of a setter.
LEMMA SetterLines ==
  /\ Three(Export!SetSensitive(TRUE), St("sensitive", TRUE), St("ever", TRUE), St("level", "trace"))
  /\ One(Export!SetSensitive(FALSE), St("sensitive", FALSE))
  /\ Three(Export!SetMinidump(TRUE), St("minidump", TRUE), St("level", "trace"), St("dumps", TRUE))
  /\ Two(Export!SetMinidump(FALSE), St("minidump", FALSE), St("dumps", FALSE))
  /\ One(Export!SetDetailed(TRUE), St("level", "trace"))
  /\ One(Export!SetDetailed(FALSE), St("level", "info"))
<1> DEFINE a == St("sensitive", TRUE)
           b == St("ever", TRUE)
           c == St("level", "trace")
           d == St("sensitive", FALSE)
           e == St("minidump", TRUE)
           f == St("dumps", TRUE)
           g == St("minidump", FALSE)
           h == St("dumps", FALSE)
           i == St("level", "info")
<1>1. /\ Export!SetSensitive(TRUE) = <<a>> \o <<b, c>>
      /\ Export!SetSensitive(FALSE) = <<d>> \o <<>>
      /\ Export!SetMinidump(TRUE) = (<<e>> \o <<c>>) \o <<f>>
      /\ Export!SetMinidump(FALSE) = (<<g>> \o <<>>) \o <<h>>
      /\ Export!SetDetailed(TRUE) = <<c>>
      /\ Export!SetDetailed(FALSE) = <<i>>
  BY DEF Export!SetSensitive, Export!SetMinidump, Export!SetDetailed, St
<1> HIDE DEF a, b, c, d, e, f, g, h, i
<1>2. Three(<<a>> \o <<b, c>>, a, b, c)
  BY ShortLines, JoinOneTwo
<1>3. One(<<d>> \o <<>>, d)
  BY ShortLines, JoinNone
<1>4. Three((<<e>> \o <<c>>) \o <<f>>, e, c, f)
  <2>1. Two(<<e>> \o <<c>>, e, c)
    BY ShortLines, JoinOneOne
  <2> QED BY <2>1, ShortLines, JoinTwoOne
<1>5. Two((<<g>> \o <<>>) \o <<h>>, g, h)
  <2>1. One(<<g>> \o <<>>, g)
    BY ShortLines, JoinNone
  <2> QED BY <2>1, ShortLines, JoinOneOne
<1>6. One(<<c>>, c) /\ One(<<i>>, i)
  BY ShortLines
<1> QED BY <1>1, <1>2, <1>3, <1>4, <1>5, <1>6 DEF a, b, c, d, e, f, g, h, i

LEMMA OffLine ==
  Four(Export!SetSensitive(FALSE) \o Export!SetMinidump(FALSE) \o Export!SetDetailed(FALSE),
       St("sensitive", FALSE), St("minidump", FALSE), St("dumps", FALSE), St("level", "info"))
<1> DEFINE p == Export!SetSensitive(FALSE)
           q == Export!SetMinidump(FALSE)
           r == Export!SetDetailed(FALSE)
           a == St("sensitive", FALSE)
           b == St("minidump", FALSE)
           c == St("dumps", FALSE)
           d == St("level", "info")
<1>1. One(p, a) /\ Two(q, b, c) /\ One(r, d)
  BY SetterLines
<1> HIDE DEF p, q, r, a, b, c, d
<1>2. Three(p \o q, a, b, c)
  BY <1>1, JoinOneTwo
<1>3. Four((p \o q) \o r, a, b, c, d)
  BY <1>1, <1>2, JoinThreeOne
<1> QED BY <1>3 DEF p, q, r, a, b, c, d

\* What stores have to be that are pending with these choices.
ToStore(q, sen, eve, lev, min, dum) ==
  /\ StoresTyped(q) /\ Unique(q) /\ EverFollows(q)
  /\ Settles(q, sen, eve, lev, min, dum)
ChoicesOf(sen, eve, lev, min, dum) ==
  /\ sen \in BOOLEAN /\ eve \in BOOLEAN /\ min \in BOOLEAN /\ dum \in BOOLEAN
  /\ lev \in Export!Levels /\ Settled(sen, eve, lev, min, dum)

LEMMA StoreFields ==
  ASSUME NEW name, NEW v PROVE St(name, v).at = name /\ St(name, v).to = v
  BY DEF St

LEMMA SensitiveOnPends ==
  ASSUME NEW sen, NEW eve, NEW lev, NEW min, NEW dum, ChoicesOf(sen, eve, lev, min, dum),
         NEW q, Three(q, St("sensitive", TRUE), St("ever", TRUE), St("level", "trace"))
  PROVE  ToStore(q, sen, eve, lev, min, dum)
<1>1. /\ Line(q) /\ DOMAIN q = {1, 2, 3}
      /\ q[1].at = "sensitive" /\ q[1].to = TRUE /\ q[2].at = "ever" /\ q[2].to = TRUE
      /\ q[3].at = "level" /\ q[3].to = "trace"
  <2>1. Line(q) /\ Len(q) = 3
    BY DEF Three
  <2>2. DOMAIN q = 1..3
    BY <2>1, LinePlaces
  <2> QED BY <2>1, <2>2 DEF Three, St
<1>2. StoresTyped(q) /\ Unique(q) /\ EverFollows(q)
  <2>1. StoresTyped(q)
    BY <1>1 DEF StoresTyped, StoreTyped, Flags, Export!Levels
  <2>2. Unique(q)
    BY <1>1 DEF Unique
  <2>3. EverFollows(q)
    BY <1>1 DEF EverFollows
  <2> QED BY <2>1, <2>2, <2>3
<1>3. /\ Ends(q, "sensitive", sen, TRUE) /\ Ends(q, "ever", eve, TRUE) /\ Ends(q, "level", lev, "trace")
      /\ Ends(q, "minidump", min, min) /\ Ends(q, "dumps", dum, dum)
  BY <1>1 DEF Ends
<1>4. Settled(TRUE, TRUE, "trace", min, dum)
  BY DEF ChoicesOf, Settled
<1>5. Settles(q, sen, eve, lev, min, dum)
  BY <1>3, <1>4 DEF Settles, ChoicesOf, Export!Levels
<1> QED BY <1>2, <1>5 DEF ToStore

LEMMA SensitiveOffPends ==
  ASSUME NEW sen, NEW eve, NEW lev, NEW min, NEW dum, ChoicesOf(sen, eve, lev, min, dum),
         NEW q, One(q, St("sensitive", FALSE))
  PROVE  ToStore(q, sen, eve, lev, min, dum)
<1>1. Line(q) /\ DOMAIN q = {1} /\ q[1].at = "sensitive" /\ q[1].to = FALSE
  <2>1. Line(q) /\ Len(q) = 1
    BY DEF One
  <2>2. DOMAIN q = 1..1
    BY <2>1, LinePlaces
  <2> QED BY <2>1, <2>2 DEF One, St
<1>2. StoresTyped(q) /\ Unique(q) /\ EverFollows(q)
  <2>1. StoresTyped(q)
    BY <1>1 DEF StoresTyped, StoreTyped, Flags, Export!Levels
  <2>2. Unique(q)
    BY <1>1 DEF Unique
  <2>3. EverFollows(q)
    BY <1>1 DEF EverFollows
  <2> QED BY <2>1, <2>2, <2>3
<1>3. /\ Ends(q, "sensitive", sen, FALSE) /\ Ends(q, "ever", eve, eve) /\ Ends(q, "level", lev, lev)
      /\ Ends(q, "minidump", min, min) /\ Ends(q, "dumps", dum, dum)
  BY <1>1 DEF Ends
<1>4. Settled(FALSE, eve, lev, min, dum)
  BY DEF ChoicesOf, Settled
<1>5. Settles(q, sen, eve, lev, min, dum)
  BY <1>3, <1>4 DEF Settles, ChoicesOf
<1> QED BY <1>2, <1>5 DEF ToStore

LEMMA MinidumpOnPends ==
  ASSUME NEW sen, NEW eve, NEW lev, NEW min, NEW dum, ChoicesOf(sen, eve, lev, min, dum),
         NEW q, Three(q, St("minidump", TRUE), St("level", "trace"), St("dumps", TRUE))
  PROVE  ToStore(q, sen, eve, lev, min, dum)
<1>1. /\ Line(q) /\ DOMAIN q = {1, 2, 3}
      /\ q[1].at = "minidump" /\ q[1].to = TRUE /\ q[2].at = "level" /\ q[2].to = "trace"
      /\ q[3].at = "dumps" /\ q[3].to = TRUE
  <2>1. Line(q) /\ Len(q) = 3
    BY DEF Three
  <2>2. DOMAIN q = 1..3
    BY <2>1, LinePlaces
  <2> QED BY <2>1, <2>2 DEF Three, St
<1>2. StoresTyped(q) /\ Unique(q) /\ EverFollows(q)
  <2>1. StoresTyped(q)
    BY <1>1 DEF StoresTyped, StoreTyped, Flags, Export!Levels
  <2>2. Unique(q)
    BY <1>1 DEF Unique
  <2>3. EverFollows(q)
    BY <1>1 DEF EverFollows
  <2> QED BY <2>1, <2>2, <2>3
<1>3. /\ Ends(q, "sensitive", sen, sen) /\ Ends(q, "ever", eve, eve) /\ Ends(q, "level", lev, "trace")
      /\ Ends(q, "minidump", min, TRUE) /\ Ends(q, "dumps", dum, TRUE)
  BY <1>1 DEF Ends
<1>4. Settled(sen, eve, "trace", TRUE, TRUE)
  BY DEF ChoicesOf, Settled
<1>5. Settles(q, sen, eve, lev, min, dum)
  BY <1>3, <1>4 DEF Settles, ChoicesOf, Export!Levels
<1> QED BY <1>2, <1>5 DEF ToStore

LEMMA MinidumpOffPends ==
  ASSUME NEW sen, NEW eve, NEW lev, NEW min, NEW dum, ChoicesOf(sen, eve, lev, min, dum),
         NEW q, Two(q, St("minidump", FALSE), St("dumps", FALSE))
  PROVE  ToStore(q, sen, eve, lev, min, dum)
<1>1. /\ Line(q) /\ DOMAIN q = {1, 2}
      /\ q[1].at = "minidump" /\ q[1].to = FALSE /\ q[2].at = "dumps" /\ q[2].to = FALSE
  <2>1. Line(q) /\ Len(q) = 2
    BY DEF Two
  <2>2. DOMAIN q = 1..2
    BY <2>1, LinePlaces
  <2> QED BY <2>1, <2>2 DEF Two, St
<1>2. StoresTyped(q) /\ Unique(q) /\ EverFollows(q)
  <2>1. StoresTyped(q)
    BY <1>1 DEF StoresTyped, StoreTyped, Flags, Export!Levels
  <2>2. Unique(q)
    BY <1>1 DEF Unique
  <2>3. EverFollows(q)
    BY <1>1 DEF EverFollows
  <2> QED BY <2>1, <2>2, <2>3
<1>3. /\ Ends(q, "sensitive", sen, sen) /\ Ends(q, "ever", eve, eve) /\ Ends(q, "level", lev, lev)
      /\ Ends(q, "minidump", min, FALSE) /\ Ends(q, "dumps", dum, FALSE)
  BY <1>1 DEF Ends
<1>4. Settled(sen, eve, lev, FALSE, FALSE)
  BY DEF ChoicesOf, Settled
<1>5. Settles(q, sen, eve, lev, min, dum)
  BY <1>3, <1>4 DEF Settles, ChoicesOf
<1> QED BY <1>2, <1>5 DEF ToStore

LEMMA DetailedOnPends ==
  ASSUME NEW sen, NEW eve, NEW lev, NEW min, NEW dum, ChoicesOf(sen, eve, lev, min, dum),
         NEW q, One(q, St("level", "trace"))
  PROVE  ToStore(q, sen, eve, lev, min, dum)
<1>1. Line(q) /\ DOMAIN q = {1} /\ q[1].at = "level" /\ q[1].to = "trace"
  <2>1. Line(q) /\ Len(q) = 1
    BY DEF One
  <2>2. DOMAIN q = 1..1
    BY <2>1, LinePlaces
  <2> QED BY <2>1, <2>2 DEF One, St
<1>2. StoresTyped(q) /\ Unique(q) /\ EverFollows(q)
  <2>1. StoresTyped(q)
    BY <1>1 DEF StoresTyped, StoreTyped, Flags, Export!Levels
  <2>2. Unique(q)
    BY <1>1 DEF Unique
  <2>3. EverFollows(q)
    BY <1>1 DEF EverFollows
  <2> QED BY <2>1, <2>2, <2>3
<1>3. /\ Ends(q, "sensitive", sen, sen) /\ Ends(q, "ever", eve, eve) /\ Ends(q, "level", lev, "trace")
      /\ Ends(q, "minidump", min, min) /\ Ends(q, "dumps", dum, dum)
  BY <1>1 DEF Ends
<1>4. Settled(sen, eve, "trace", min, dum)
  BY DEF ChoicesOf, Settled
<1>5. Settles(q, sen, eve, lev, min, dum)
  BY <1>3, <1>4 DEF Settles, ChoicesOf, Export!Levels
<1> QED BY <1>2, <1>5 DEF ToStore

LEMMA OffPends ==
  ASSUME NEW sen, NEW eve, NEW lev, NEW min, NEW dum, ChoicesOf(sen, eve, lev, min, dum),
         NEW q, Four(q, St("sensitive", FALSE), St("minidump", FALSE), St("dumps", FALSE),
                     St("level", "info"))
  PROVE  ToStore(q, sen, eve, lev, min, dum)
<1>1. /\ Line(q) /\ DOMAIN q = {1, 2, 3, 4}
      /\ q[1].at = "sensitive" /\ q[1].to = FALSE /\ q[2].at = "minidump" /\ q[2].to = FALSE
      /\ q[3].at = "dumps" /\ q[3].to = FALSE /\ q[4].at = "level" /\ q[4].to = "info"
  <2>1. Line(q) /\ Len(q) = 4
    BY DEF Four
  <2>2. DOMAIN q = 1..4
    BY <2>1, LinePlaces
  <2> QED BY <2>1, <2>2 DEF Four, St
<1>2. StoresTyped(q) /\ Unique(q) /\ EverFollows(q)
  <2>1. StoresTyped(q)
    BY <1>1 DEF StoresTyped, StoreTyped, Flags, Export!Levels
  <2>2. Unique(q)
    BY <1>1 DEF Unique
  <2>3. EverFollows(q)
    BY <1>1 DEF EverFollows
  <2> QED BY <2>1, <2>2, <2>3
<1>3. /\ Ends(q, "sensitive", sen, FALSE) /\ Ends(q, "ever", eve, eve) /\ Ends(q, "level", lev, "info")
      /\ Ends(q, "minidump", min, FALSE) /\ Ends(q, "dumps", dum, FALSE)
  BY <1>1 DEF Ends
<1>4. Settled(FALSE, eve, "info", FALSE, FALSE)
  BY DEF ChoicesOf, Settled
<1>5. Settles(q, sen, eve, lev, min, dum)
  BY <1>3, <1>4 DEF Settles, ChoicesOf, Export!Levels
<1> QED BY <1>2, <1>5 DEF ToStore

-----------------------------------------------------------------------------
(* The steps. *)

LEMMA NonePending ==
  ASSUME NEW sen, NEW eve, NEW lev, NEW min, NEW dum
  PROVE  /\ ChoicesOf(sen, eve, lev, min, dum) => ToStore(<<>>, sen, eve, lev, min, dum)
         /\ ToStore(<<>>, sen, eve, lev, min, dum) => Settled(sen, eve, lev, min, dum)
         /\ ~TellsEver(<<>>)
<1>0. DOMAIN <<>> = {}
  OBVIOUS
<1>1. StoresTyped(<<>>) /\ Unique(<<>>) /\ EverFollows(<<>>)
  BY <1>0, ShortLines DEF StoresTyped, Unique, EverFollows
<1>2. \A name, old, v : Ends(<<>>, name, old, v) <=> v = old
  BY <1>0 DEF Ends
<1>3. ChoicesOf(sen, eve, lev, min, dum) => Settles(<<>>, sen, eve, lev, min, dum)
  BY <1>2 DEF ChoicesOf, Settles
<1>4. Settles(<<>>, sen, eve, lev, min, dum) => Settled(sen, eve, lev, min, dum)
  BY <1>2 DEF Settles
<1>5. ~TellsEver(<<>>)
  BY <1>0 DEF TellsEver
<1> QED BY <1>1, <1>3, <1>4, <1>5 DEF ToStore

LEMMA ExportStart == Export!Init => ExportInv
<1> SUFFICES ASSUME Export!Init PROVE ExportInv
  OBVIOUS
<1> DEFINE c == Export!Parse(arguments)
<1>1. arguments \in CommandLines /\ Line(arguments)
  BY ExportAssumption DEF Export!Init, Line
<1>2. /\ c.level \in Export!Levels /\ c.sensitive \in BOOLEAN /\ c.minidump \in BOOLEAN
      /\ c.sensitive \/ c.minidump => c.level # "info"
  BY <1>1, ParseIsSound
<1> HIDE DEF c
<1>3. /\ directory \in BOOLEAN /\ level = c.level /\ sensitive = c.sensitive /\ ever = c.sensitive
      /\ minidump = c.minidump /\ dumps = (directory /\ c.minidump) /\ stores = <<>>
      /\ dialog = "closed" /\ exportThread = "none" /\ building = "none" /\ private = FALSE
      /\ artifact = FALSE
  BY DEF Export!Init, c
<1>4. ChoicesOf(sensitive, ever, level, minidump, dumps)
  BY <1>2, <1>3 DEF ChoicesOf, Settled
<1>5. ToStore(stores, sensitive, ever, level, minidump, dumps)
  BY <1>3, <1>4, NonePending
<1>6. shown.sensitive \in BOOLEAN /\ shown.minidump \in BOOLEAN /\ shown.detailed \in BOOLEAN
  BY <1>2, <1>3 DEF Export!Init, Export!Status
<1>7. StoresInv
  BY <1>3, <1>4, <1>5, <1>6 DEF StoresInv, ChoicesTyped, ChoicesOf, ToStore
<1>8. PrivateInv
  BY <1>3 DEF PrivateInv
<1>9. WarningInv
  BY <1>3 DEF WarningInv, Unwarned, Export!Init, Export!NoBundle
<1>10. EndInv
  BY <1>1 DEF EndInv, Export!Init, Export!RestartKeepsTheChoices
<1> QED BY <1>7, <1>8, <1>9, <1>10 DEF ExportInv

\* What a store leaves of what was to be stored.
LEMMA StoreKeeps ==
  ASSUME ExportInv, ExportDialogInv, Export!Store
  PROVE  ExportInv'
<1> DEFINE s == Head(stores)
           r == Tail(stores)
<1>1. /\ StoresTyped(stores) /\ Unique(stores) /\ EverFollows(stores) /\ stores # <<>>
      /\ Settles(stores, sensitive, ever, level, minidump, dumps)
      /\ dialog = "open"
  BY DEF ExportInv, StoresInv, Export!Store
<1>2. /\ sensitive' = IF s.at = "sensitive" THEN s.to ELSE sensitive
      /\ ever' = IF s.at = "ever" THEN s.to ELSE ever
      /\ level' = IF s.at = "level" THEN s.to ELSE level
      /\ minidump' = IF s.at = "minidump" THEN s.to ELSE minidump
      /\ dumps' = IF s.at = "dumps" THEN s.to ELSE dumps
      /\ stores' = r /\ dialog' = dialog
  BY DEF Export!Store
<1>3. Settles(Tail(stores), sensitive', ever', level', minidump', dumps')
  <2>1. /\ Made(Head(stores), "sensitive", sensitive, sensitive')
        /\ Made(Head(stores), "ever", ever, ever')
        /\ Made(Head(stores), "level", level, level')
        /\ Made(Head(stores), "minidump", minidump, minidump')
        /\ Made(Head(stores), "dumps", dumps, dumps')
    BY <1>2 DEF Made
  <2> QED BY <1>1, <2>1, StoreSettles
<1>4. /\ StoresTyped(r) /\ s = stores[1] /\ StoreTyped(s)
  BY <1>1, RestOfStores
<1>5. /\ Unique(r) /\ EverFollows(r)
      /\ s.at = "sensitive" /\ s.to => TellsEver(r)
      /\ TellsEver(stores) => TellsEver(r) \/ (s.at = "ever" /\ s.to)
  BY <1>1, <1>4, RestFollows
<1> HIDE DEF s, r
<1>6. /\ sensitive' \in BOOLEAN /\ ever' \in BOOLEAN /\ minidump' \in BOOLEAN
      /\ dumps' \in BOOLEAN /\ level' \in Export!Levels
  BY <1>2, <1>4 DEF ExportInv, StoresInv, ChoicesTyped, StoreTyped, Flags
<1>7. shown'.sensitive \in BOOLEAN /\ shown'.minidump \in BOOLEAN /\ shown'.detailed \in BOOLEAN
  <2>1. \/ shown' = shown
        \/ shown' = [detailed |-> level' # "info", sensitive |-> sensitive', minidump |-> minidump']
    BY DEF Export!Store
  <2>2. CASE shown' = shown
    BY <2>2 DEF ExportInv, StoresInv, ChoicesTyped
  <2>3. CASE shown' = [detailed |-> level' # "info", sensitive |-> sensitive',
                       minidump |-> minidump']
    BY ONLY <1>6, <2>3
  <2> QED BY <2>1, <2>2, <2>3
<1>8. StoresInv'
  BY <1>1, <1>2, <1>3, <1>4, <1>5, <1>6, <1>7 DEF StoresInv, ChoicesTyped, r
<1>9. /\ private' = private /\ artifact' = artifact /\ building' = building /\ bundle' = bundle
      /\ exportThread' = exportThread /\ warned' = warned /\ directory' = directory
      /\ ended' = ended /\ arguments' = arguments /\ Export!Running
      /\ late' = [late EXCEPT !.private = @ \/ (s.at = "sensitive" /\ s.to /\ exporting)]
  BY DEF Export!Store, Export!export, s
<1>10. PrivateInv'
  <2>0. s.at = "ever" => s.to
    <3>1. 1 \in DOMAIN stores
      <4>1. Len(stores) \in Nat /\ Len(stores) >= 1 /\ DOMAIN stores = 1..Len(stores)
        BY <1>1, RestOfStores
      <4> QED BY <4>1
    <3> QED BY <1>1, <1>4, <3>1 DEF EverFollows
  <2>1. ever => ever'
    BY <1>2, <2>0
  <2> QED BY <1>2, <1>5, <1>9, <2>1 DEF ExportInv, PrivateInv
<1>11. WarningInv'
  <2>1. late = [private |-> late.private, crash |-> late.crash, unread |-> late.unread]
    BY DEF ExportInv, WarningInv
  <2>2. late' = [private |-> late.private \/ (s.at = "sensitive" /\ s.to /\ exporting),
                 crash |-> late.crash, unread |-> late.unread]
    BY <1>9, <2>1
  <2>3. Unwarned' => Unwarned /\ exporting
    BY <1>1, <1>2, <1>9 DEF Unwarned, ExportDialogInv, Exporting
  <2> QED BY <1>2, <1>9, <2>1, <2>2, <2>3 DEF ExportInv, WarningInv
<1>12. EndInv'
  BY <1>9 DEF ExportInv, EndInv, Export!Running, Export!RestartKeepsTheChoices
<1> QED BY <1>8, <1>10, <1>11, <1>12 DEF ExportInv

\* The stores, the log and the end stay, or nothing is to be stored yet.
LEMMA ChoicesStay ==
  ASSUME ExportInv, UNCHANGED <<sensitive, ever, level, minidump, dumps, stores>>,
         shown' = shown \/ shown' = Export!Status, dialog' # "open" => stores = <<>>
  PROVE  StoresInv'
<1>1. shown'.sensitive \in BOOLEAN /\ shown'.minidump \in BOOLEAN /\ shown'.detailed \in BOOLEAN
  <2>1. CASE shown' = shown
    BY <2>1 DEF ExportInv, StoresInv, ChoicesTyped
  <2>2. CASE shown' = Export!Status
    <3>1. shown' = [detailed |-> level # "info", sensitive |-> sensitive, minidump |-> minidump]
      BY <2>2 DEF Export!Status
    <3>2. sensitive \in BOOLEAN /\ minidump \in BOOLEAN
      BY DEF ExportInv, StoresInv, ChoicesTyped
    <3> QED BY ONLY <3>1, <3>2
  <2> QED BY <2>1, <2>2
<1> QED BY <1>1 DEF ExportInv, StoresInv, ChoicesTyped

LEMMA EndStays ==
  ASSUME ExportInv, UNCHANGED <<ended, arguments>>,
         ended.how = "no" \/ UNCHANGED <<dumps, sensitive, minidump>>
  PROVE  EndInv'
  BY DEF ExportInv, EndInv, Export!RestartKeepsTheChoices

LEMMA ToggleKeeps ==
  ASSUME ExportInv, NEW box \in {"detailed", "sensitive", "minidump"}, Export!Toggle(box)
  PROVE  ExportInv'
<1>1. /\ UNCHANGED <<sensitive, ever, level, minidump, dumps, shown, dialog>>
      /\ UNCHANGED <<arguments, directory, ended, exportThread, bundle, warned, building,
                     private, artifact, late>>
      /\ dialog = "open" /\ stores = <<>> /\ ended.how = "no"
  BY DEF Export!Toggle, Export!Idle, Export!Running, Export!export, Export!world
<1>2. ChoicesOf(sensitive, ever, level, minidump, dumps)
  <2>1. ToStore(<<>>, sensitive, ever, level, minidump, dumps)
    BY <1>1 DEF ExportInv, StoresInv, ToStore
  <2>2. Settled(sensitive, ever, level, minidump, dumps)
    BY <2>1, NonePending
  <2> QED BY <2>2 DEF ExportInv, StoresInv, ChoicesTyped, ChoicesOf
<1>3. /\ shown.sensitive \in BOOLEAN /\ shown.minidump \in BOOLEAN /\ shown.detailed \in BOOLEAN
      /\ ~TellsEver(<<>>)
  BY NonePending DEF ExportInv, StoresInv, ChoicesTyped
<1>4. ToStore(stores', sensitive, ever, level, minidump, dumps)
  <2>1. CASE box = "sensitive" /\ ~shown.sensitive
    <3>1. stores' = Export!SetSensitive(TRUE)
      BY <2>1 DEF Export!Toggle
    <3> QED BY <1>2, <3>1, SetterLines, SensitiveOnPends
  <2>2. CASE box = "sensitive" /\ shown.sensitive
    <3>1. stores' = Export!SetSensitive(FALSE)
      BY <1>3, <2>2 DEF Export!Toggle
    <3> QED BY <1>2, <3>1, SetterLines, SensitiveOffPends
  <2>3. CASE box = "minidump" /\ ~shown.minidump
    <3>1. stores' = Export!SetMinidump(TRUE)
      BY <2>3 DEF Export!Toggle
    <3> QED BY <1>2, <3>1, SetterLines, MinidumpOnPends
  <2>4. CASE box = "minidump" /\ shown.minidump
    <3>1. stores' = Export!SetMinidump(FALSE)
      BY <1>3, <2>4 DEF Export!Toggle
    <3> QED BY <1>2, <3>1, SetterLines, MinidumpOffPends
  <2>5. CASE box = "detailed" /\ ~shown.detailed
    <3>1. stores' = Export!SetDetailed(TRUE)
      BY <2>5 DEF Export!Toggle
    <3> QED BY <1>2, <3>1, SetterLines, DetailedOnPends
  <2>6. CASE box = "detailed" /\ shown.detailed
    <3>1. stores' = Export!SetSensitive(FALSE) \o Export!SetMinidump(FALSE) \o Export!SetDetailed(FALSE)
      BY <2>6 DEF Export!Toggle
    <3> QED BY <1>2, <3>1, OffLine, OffPends
  <2> QED BY <1>3, <2>1, <2>2, <2>3, <2>4, <2>5, <2>6
<1>5. StoresInv'
  BY <1>1, <1>4 DEF ExportInv, StoresInv, ChoicesTyped, ToStore
<1>6. PrivateInv'
  BY <1>1, <1>3 DEF ExportInv, PrivateInv
<1>7. WarningInv'
  BY <1>1 DEF ExportInv, WarningInv, Unwarned
<1>8. EndInv'
  BY <1>1, EndStays
<1> QED BY <1>5, <1>6, <1>7, <1>8 DEF ExportInv

\* The dialog is opened or closed, or the process replaced.
LEMMA DialogKeeps ==
  ASSUME ExportInv, ExportDialogInv, Export!Open \/ Export!Cancel \/ Export!Restart
  PROVE  ExportInv'
<1>1. /\ UNCHANGED <<sensitive, ever, level, minidump, dumps, stores>>
      /\ UNCHANGED <<arguments, directory, exportThread, bundle, warned, building, private,
                     artifact, late>>
      /\ Export!Running /\ ended.how = "no"
      /\ shown' = shown \/ shown' = Export!Status
      /\ dialog' \in {"open", "closed"}
      /\ dialog' = "closed" => stores = <<>>
  BY DEF Export!Open, Export!Cancel, Export!Restart, Export!Idle, Export!Running, Export!export,
         Export!world, Export!runtime, ExportDialogInv, Exporting
<1>2. StoresInv'
  BY <1>1, ChoicesStay
<1>3. PrivateInv'
  BY <1>1 DEF ExportInv, PrivateInv
<1>4. WarningInv'
  BY <1>1 DEF ExportInv, WarningInv, Unwarned
<1>5. EndInv'
  <2>1. CASE UNCHANGED ended
    BY <1>1, <2>1, EndStays
  <2>2. CASE ended' # ended
    <3>1. ended' = [ended EXCEPT !.how = "restarted", !.next = Export!RestartArguments]
      BY <2>2 DEF Export!Open, Export!Cancel, Export!Restart
    <3>2. /\ ended = [how |-> ended.how, dump |-> ended.dump, next |-> ended.next]
          /\ ended.dump => dumps
          /\ arguments \in CommandLines /\ sensitive \in BOOLEAN /\ minidump \in BOOLEAN
      BY DEF ExportInv, EndInv, StoresInv, ChoicesTyped
    <3>3. Line(arguments)
      BY <3>2, ExportAssumption DEF Line
    <3>4. Restarts(Export!RestartArguments, sensitive, minidump, Export!Parse(arguments).dir)
      BY <3>2, <3>3, RestartParses
    <3> DEFINE line == Export!RestartArguments
               e == [ended EXCEPT !.how = "restarted"]
    <3>5. Restarts(line, sensitive, minidump, Export!Parse(arguments).dir)
      BY <3>4
    <3>6. ended' = [e EXCEPT !.next = line]
      BY <3>1
    <3>7. e = [how |-> "restarted", dump |-> ended.dump, next |-> ended.next]
      BY <3>2
    <3> HIDE DEF line, e
    <3>8. ended' = [how |-> "restarted", dump |-> ended.dump, next |-> line]
      BY <3>6, <3>7
    <3>9. Export!RestartKeepsTheChoices'
      BY <1>1, <3>5, <3>8 DEF Export!RestartKeepsTheChoices, Restarts
    <3> QED BY <1>1, <3>2, <3>8, <3>9 DEF EndInv
  <2> QED BY <2>1, <2>2
<1> QED BY <1>2, <1>3, <1>4, <1>5 DEF ExportInv

\* An export is begun, or not, and its message is handled.
LEMMA ExportButtonKeeps ==
  ASSUME ExportInv, ExportDialogInv,
         \/ Export!ClickExport \/ Export!AnswerWarning \/ Export!NoExport
         \/ Export!BeginExport \/ Export!CompleteExport
  PROVE  ExportInv'
<1>1. /\ UNCHANGED <<sensitive, ever, level, minidump, dumps, stores, shown>>
      /\ UNCHANGED <<arguments, directory, building, private, artifact, ended>>
      /\ Export!Running /\ ended.how = "no" /\ stores = <<>>
  BY DEF Export!ClickExport, Export!AnswerWarning, Export!NoExport, Export!BeginExport,
         Export!CompleteExport, Export!Idle, Export!Running, Export!export, Export!world,
         Export!runtime, ExportInv, StoresInv
<1>2. StoresInv'
  BY <1>1, ChoicesStay
<1>3. PrivateInv'
  BY <1>1 DEF ExportInv, PrivateInv
<1>4. EndInv'
  BY <1>1, EndStays
<1>5. CASE Export!ClickExport
  <2>0. PICK unread \in BOOLEAN :
          /\ dialog' = IF Export!NeedsWarning(unread) THEN "warning" ELSE "saving"
          /\ late' = [private |-> FALSE, crash |-> FALSE, unread |-> unread]
    BY <1>5 DEF Export!ClickExport
  <2>1. /\ late' = [private |-> FALSE, crash |-> FALSE, unread |-> unread] /\ warned' = FALSE
        /\ exportThread' = exportThread /\ bundle' = bundle /\ exportThread = "none"
        /\ dialog' = "saving" => ~ever /\ (artifact => unread)
    BY <1>1, <1>5, <2>0 DEF Export!ClickExport, Export!NeedsWarning, ExportDialogInv, Exporting
  <2>2. ~TellsEver(stores)
    BY <1>1, NonePending
  <2>3. Unwarned' => ~sensitive /\ ~private /\ building # "private" /\ (artifact => unread)
    BY <2>1, <2>2 DEF ExportInv, PrivateInv, Unwarned
  <2>4. WarningInv'
    BY <1>1, <2>1, <2>3 DEF ExportInv, WarningInv
  <2> QED BY <1>2, <1>3, <1>4, <2>4 DEF ExportInv
<1>6. CASE Export!AnswerWarning \/ Export!NoExport \/ Export!CompleteExport
  <2>1. /\ late' = late /\ exportThread' = exportThread /\ bundle' = bundle
        /\ Unwarned' => Unwarned
    BY <1>1, <1>6 DEF Export!AnswerWarning, Export!NoExport, Export!CompleteExport, Export!world,
       Export!export, Unwarned, ExportDialogInv, Exporting
  <2>2. WarningInv'
    BY <1>1, <2>1 DEF ExportInv, WarningInv
  <2> QED BY <1>2, <1>3, <1>4, <2>2 DEF ExportInv
<1>7. CASE Export!BeginExport
  <2>1. /\ late' = late /\ exportThread' = "collect"
        /\ bundle' = [private |-> FALSE, crash |-> FALSE, told |-> FALSE, torn |-> FALSE]
        /\ Unwarned' => Unwarned
    BY <1>7 DEF Export!BeginExport, Export!NoBundle, Export!world, Unwarned
  <2>2. WarningInv'
    BY <1>1, <2>1 DEF ExportInv, WarningInv
  <2> QED BY <1>2, <1>3, <1>4, <2>2 DEF ExportInv
<1> QED BY <1>5, <1>6, <1>7

\* The export thread.
LEMMA ExportThreadKeeps ==
  ASSUME ExportInv, Export!Collect \/ Export!ReadStatus \/ Export!Post
  PROVE  ExportInv'
<1>1. /\ UNCHANGED <<sensitive, ever, level, minidump, dumps, stores, shown, dialog>>
      /\ UNCHANGED <<arguments, directory, building, private, artifact, late, ended, warned>>
      /\ Export!Running /\ ended.how = "no"
  BY DEF Export!Collect, Export!ReadStatus, Export!Post, Export!Running, Export!ui, Export!world,
         Export!runtime
<1>2. StoresInv'
  BY <1>1, ChoicesStay DEF ExportInv, StoresInv
<1>3. PrivateInv'
  BY <1>1 DEF ExportInv, PrivateInv
<1>4. EndInv'
  BY <1>1, EndStays
<1>5. Unwarned' => Unwarned
  BY <1>1 DEF Export!Collect, Export!ReadStatus, Export!Post, Unwarned
<1>6. bundle = [private |-> bundle.private, crash |-> bundle.crash, told |-> bundle.told,
                torn |-> bundle.torn]
  BY DEF ExportInv, WarningInv
<1>7. CASE Export!Collect
  <2>1. \/ /\ exportThread' = "status"
           /\ bundle' = [private |-> private, crash |-> artifact, told |-> bundle.told,
                         torn |-> bundle.torn]
        \/ exportThread' = "post" /\ bundle' = bundle
    <3> DEFINE b == [bundle EXCEPT !.private = private]
    <3>1. b = [private |-> private, crash |-> bundle.crash, told |-> bundle.told,
               torn |-> bundle.torn]
      BY <1>6
    <3>2. \/ exportThread' = "status" /\ bundle' = [b EXCEPT !.crash = artifact]
          \/ exportThread' = "post" /\ bundle' = bundle
      BY <1>7 DEF Export!Collect
    <3> HIDE DEF b
    <3> QED BY <3>1, <3>2
  <2>2. WarningInv'
    BY <1>1, <1>5, <1>6, <2>1 DEF ExportInv, WarningInv
  <2> QED BY <1>2, <1>3, <1>4, <2>2 DEF ExportInv
<1>8. CASE Export!ReadStatus
  <2>1. /\ exportThread = "status" /\ exportThread' \in {"written", "post"}
        /\ bundle' = [private |-> bundle.private, crash |-> bundle.crash, told |-> ever,
                      torn |-> stores # <<>>]
    <3> DEFINE b == [bundle EXCEPT !.told = ever]
    <3>1. b = [private |-> bundle.private, crash |-> bundle.crash, told |-> ever,
               torn |-> bundle.torn]
      BY <1>6
    <3>2. /\ exportThread = "status" /\ exportThread' \in {"written", "post"}
          /\ bundle' = [b EXCEPT !.torn = stores # <<>>]
      BY <1>8 DEF Export!ReadStatus
    <3> HIDE DEF b
    <3> QED BY <3>1, <3>2
  <2>2. bundle.private => private
    BY <2>1 DEF ExportInv, WarningInv
  <2>3. private /\ stores = <<>> => ever
    BY NonePending DEF ExportInv, PrivateInv
  <2>4. WarningInv'
    BY <1>1, <1>5, <1>6, <2>1, <2>2, <2>3 DEF ExportInv, WarningInv
  <2> QED BY <1>2, <1>3, <1>4, <2>4 DEF ExportInv
<1>9. CASE Export!Post
  <2>1. exportThread' = "none" /\ bundle' = bundle
    BY <1>9 DEF Export!Post
  <2>2. WarningInv'
    BY <1>1, <1>5, <2>1 DEF ExportInv, WarningInv
  <2> QED BY <1>2, <1>3, <1>4, <2>2 DEF ExportInv
<1> QED BY <1>7, <1>8, <1>9

\* The threads that record, another instance and an exception.
LEMMA OthersKeep ==
  ASSUME ExportInv, ExportDialogInv,
         Export!BuildRecord \/ Export!WriteRecord \/ Export!OtherCrash \/ Export!Crash
  PROVE  ExportInv'
<1>1. /\ UNCHANGED <<sensitive, ever, level, minidump, dumps, stores, shown, dialog>>
      /\ UNCHANGED <<arguments, directory, exportThread, bundle, warned>>
      /\ Export!Running /\ ended.how = "no"
  BY DEF Export!BuildRecord, Export!WriteRecord, Export!OtherCrash, Export!Crash, Export!Running,
         Export!ui, Export!export, Export!runtime
<1>2. StoresInv'
  BY <1>1, ChoicesStay DEF ExportInv, StoresInv
<1>3. CASE Export!BuildRecord
  <2>1. /\ private' = private /\ artifact' = artifact /\ late' = late /\ ended' = ended
        /\ building' = "private" => sensitive
    BY <1>3 DEF Export!BuildRecord
  <2>2. PrivateInv'
    BY <1>1, <2>1 DEF ExportInv, PrivateInv
  <2>3. WarningInv'
    BY <1>1, <2>1 DEF ExportInv, WarningInv, Unwarned
  <2> QED BY <1>1, <1>2, <2>1, <2>2, <2>3, EndStays DEF ExportInv
<1>4. CASE Export!WriteRecord
  <2>1. /\ building' = "none" /\ artifact' = artifact /\ late' = late /\ ended' = ended
        /\ private' = (private \/ (building = "private" /\ directory))
    BY <1>4 DEF Export!WriteRecord
  <2>2. PrivateInv'
    BY <1>1, <2>1 DEF ExportInv, PrivateInv
  <2>3. WarningInv'
    BY <1>1, <2>1 DEF ExportInv, WarningInv, Unwarned
  <2> QED BY <1>1, <1>2, <2>1, <2>2, <2>3, EndStays DEF ExportInv
<1>5. CASE Export!OtherCrash
  <2>1. /\ building' = building /\ private' = private /\ artifact' = TRUE /\ ended' = ended
        /\ late' = [late EXCEPT !.crash = dialog \in {"warning", "saving"} \/ exporting]
    BY <1>5 DEF Export!OtherCrash
  <2>2. late' = [private |-> late.private, unread |-> late.unread,
                 crash |-> dialog \in {"warning", "saving"} \/ exporting]
    <3>1. late = [private |-> late.private, crash |-> late.crash, unread |-> late.unread]
      BY DEF ExportInv, WarningInv
    <3> QED BY <2>1, <3>1
  <2>3. Unwarned' => Unwarned /\ (dialog \in {"warning", "saving"} \/ exporting)
    BY <1>1 DEF Unwarned, ExportDialogInv, Exporting
  <2>4. PrivateInv'
    BY <1>1, <2>1 DEF ExportInv, PrivateInv
  <2>5. WarningInv'
    BY <1>1, <2>1, <2>2, <2>3 DEF ExportInv, WarningInv
  <2> QED BY <1>1, <1>2, <2>1, <2>4, <2>5, EndStays DEF ExportInv
<1>6. CASE Export!Crash
  <2>1. /\ building' = building /\ private' = private /\ artifact' = artifact /\ late' = late
        /\ ended' = [ended EXCEPT !.how = "crashed", !.dump = directory /\ dumps]
    BY <1>6 DEF Export!Crash, Export!world
  <2>2. PrivateInv' /\ WarningInv'
    BY <1>1, <2>1 DEF ExportInv, PrivateInv, WarningInv, Unwarned
  <2>3. ended' = [how |-> "crashed", dump |-> directory /\ dumps, next |-> ended.next]
    <3> DEFINE e == [ended EXCEPT !.how = "crashed"]
    <3>1. e = [how |-> "crashed", dump |-> ended.dump, next |-> ended.next]
      BY DEF ExportInv, EndInv
    <3>2. ended' = [e EXCEPT !.dump = directory /\ dumps]
      BY <2>1
    <3> HIDE DEF e
    <3> QED BY <3>1, <3>2
  <2>4. EndInv'
    BY <1>1, <2>3 DEF ExportInv, EndInv, Export!RestartKeepsTheChoices
  <2> QED BY <1>2, <2>2, <2>4 DEF ExportInv
<1> QED BY <1>3, <1>4, <1>5, <1>6

LEMMA ExportKeeps ==
  ExportInv /\ ExportDialogInv /\ [Export!Next]_(Export!vars) => ExportInv'
<1> SUFFICES ASSUME ExportInv, ExportDialogInv, [Export!Next]_(Export!vars) PROVE ExportInv'
  OBVIOUS
<1>1. CASE UNCHANGED Export!vars
  <2>1. /\ UNCHANGED <<sensitive, ever, level, minidump, dumps, stores, shown, dialog>>
        /\ UNCHANGED <<arguments, directory, exportThread, bundle, warned, building, private,
                       artifact, late, ended>>
    BY <1>1 DEF Export!vars, Export!ui, Export!export, Export!runtime, Export!world
  <2>2. StoresInv'
    BY <2>1, ChoicesStay DEF ExportInv, StoresInv
  <2>3. PrivateInv' /\ WarningInv'
    BY <2>1 DEF ExportInv, PrivateInv, WarningInv, Unwarned
  <2> QED BY <2>1, <2>2, <2>3, EndStays DEF ExportInv
<1>2. CASE Export!Store
  BY <1>2, StoreKeeps
<1>3. CASE \E box \in {"detailed", "sensitive", "minidump"} : Export!Toggle(box)
  BY <1>3, ToggleKeeps
<1>4. CASE Export!Open \/ Export!Cancel \/ Export!Restart
  BY <1>4, DialogKeeps
<1>5. CASE \/ Export!ClickExport \/ Export!AnswerWarning \/ Export!NoExport
           \/ Export!BeginExport \/ Export!CompleteExport
  BY <1>5, ExportButtonKeeps
<1>6. CASE Export!Collect \/ Export!ReadStatus \/ Export!Post
  BY <1>6, ExportThreadKeeps
<1>7. CASE Export!BuildRecord \/ Export!WriteRecord \/ Export!OtherCrash \/ Export!Crash
  BY <1>7, OthersKeep
<1> QED BY <1>1, <1>2, <1>3, <1>4, <1>5, <1>6, <1>7 DEF Export!Next

\* What an export holds and says of itself, and what a crash and a restart leave.
LEMMA ExportTells ==
  ExportInv => /\ Export!OnlyLateContentIsUnwarned /\ Export!ManifestTellsPrivate
               /\ Export!DumpOnlyWhenAsked /\ Export!PrivateMeansDetailed
               /\ Export!RestartKeepsTheChoices
<1> SUFFICES ASSUME ExportInv
             PROVE  /\ Export!OnlyLateContentIsUnwarned /\ Export!ManifestTellsPrivate
                    /\ Export!DumpOnlyWhenAsked /\ Export!PrivateMeansDetailed
                    /\ Export!RestartKeepsTheChoices
  OBVIOUS
<1>1. Export!OnlyLateContentIsUnwarned /\ Export!ManifestTellsPrivate
  BY DEF ExportInv, WarningInv, Unwarned, Export!OnlyLateContentIsUnwarned,
         Export!ManifestTellsPrivate
<1>2. stores = <<>> => Settled(sensitive, ever, level, minidump, dumps)
  <2>1. ToStore(stores, sensitive, ever, level, minidump, dumps)
    BY DEF ExportInv, StoresInv, ToStore
  <2> QED BY <2>1, NonePending
<1>3. Export!DumpOnlyWhenAsked /\ Export!PrivateMeansDetailed
  BY <1>2 DEF ExportInv, EndInv, Settled, Export!DumpOnlyWhenAsked, Export!PrivateMeansDetailed
<1> QED BY <1>1, <1>3 DEF ExportInv, EndInv

\* A bundle holds private content only with a warning, or content that came after
\* the warning was decided, and its manifest says so; it holds a crash of another
\* session only with a warning, or one that came later, or one in sessions that
\* could not be read when the warning was decided; a dump is written only if it
\* was asked for, and the restarted process has the choices of the old one
\* (begin_export, export_bundle, set_minidump, detailed_restart_arguments).
THEOREM ExportSaysWhatItHolds == ServicesSpec => []ExportMeansWhatItSays
<1> DEFINE Kept == which = "export" => ExportInv /\ ExportDialogInv
<1>1. ServicesInit => Kept
  BY ExportStart, ExportDialogStart DEF ServicesInit
<1>2. Kept /\ [ServicesNext]_everything => Kept'
  BY ExportStep, ExportKeeps, ExportDialogKeeps
<1>3. Kept => ExportMeansWhatItSays
  BY ExportTells DEF ExportMeansWhatItSays
<1> QED
  BY <1>1, <1>2, <1>3, PTL DEF ServicesSpec, everything
===============================================================================
