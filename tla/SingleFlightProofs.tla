-------------------------- MODULE SingleFlightProofs --------------------------
(***************************************************************************)
(* Proofs about SingleFlight, for every number of request calls, every     *)
(* merge policy and every combination of faults.                           *)
(*                                                                         *)
(* The inductive invariant has four layers, each inductive relative to the *)
(* ones before it: the types; Pipeline, which says where the one           *)
(* outstanding request can be and what the UI and the worker thread can be *)
(* doing then; Accounts, which follows operation ids from the call that    *)
(* draws them to the answer; and Payloads, which follows what a request    *)
(* carries.                                                                *)
(***************************************************************************)
EXTENDS SingleFlight, FiniteSetTheorems, TLAPS

\* Where the UI thread holds a request it is submitting.
Submitting ==
    \/ ui = "submitting"
    \/ ui \in {"spawning", "dropping", "joining"} /\ dropNext = "submitting"

\* Where a request can be, and the states of the two threads that go with it.
Pipeline ==
    /\ \A r \in {pending, arg, cmd, cur} : r.op = 0 => r = Nothing
    /\ evt.op = 0 => evt = NoEvent
    /\ inFlight <=> flight # 0
    /\ cmd # Nothing => cmd.op = flight /\ cur = Nothing /\ evt = NoEvent
    /\ cur # Nothing => cur.op = flight /\ evt = NoEvent
    /\ evt # NoEvent => evt.op = flight
    /\ cur # Nothing <=> thr \in {"collect", "send"}
    /\ thr \in {"gone", "none"} => cmd = Nothing /\ ~stop
    /\ hasWorker <=> thr # "none"
    /\ ~hasWorker => ~rx
    /\ ~rx => evt = NoEvent
    /\ stop => ui = "joining" /\ cmd = Nothing
    /\ arg # Nothing <=> Submitting
    /\ Submitting => ~inFlight
    /\ ui \in {"dropping", "joining"} => hasWorker /\ ~rx
    /\ ui \in {"spawning", "closed"} => ~hasWorker
    /\ ui = "spawning" => dropNext # "closed"

\* Every operation id in one place at a time: ids are drawn in order, and an id
\* that was told to a caller is going on or was answered, never both.
Accounts ==
    /\ flight <= nextOp /\ pending.op <= nextOp /\ arg.op <= nextOp
    /\ pending.op # 0 => pending.op # flight /\ pending.op # arg.op
    /\ \A o \in OpIds : told[o] # {} => o <= nextOp
    /\ \A a \in answers : a.op # 0 /\ a.op <= nextOp
    /\ AnsweredOnce
    /\ arg # Nothing /\ argFrom = "request" => told[arg.op] = {}
    /\ arg # Nothing /\ argFrom = "drain" => pending = Nothing
    /\ NoSilentLoss

\* What every request on its way carries, and that nothing comes from a
\* collector that panicked.
Payloads ==
    /\ collector # "broken" /\ out # "tainted" /\ evt.outcome # "tainted"
    /\ \A o \in OpIds : told[o] \subseteq 1..calls
    /\ pending # Nothing => told[pending.op] # {}
    /\ pending # Nothing => pending.load = Survivor(policy, told[pending.op])
    /\ cmd # Nothing => cmd.load = Survivor(policy, told[flight])
    /\ cur # Nothing => cur.load = Survivor(policy, told[flight])
    /\ evt # NoEvent => evt.load = Survivor(policy, told[flight])
    /\ arg # Nothing /\ argFrom = "drain" =>
          /\ told[arg.op] # {}
          /\ arg.load = Survivor(policy, told[arg.op])
    /\ arg # Nothing /\ argFrom = "request" => \E c \in 1..calls : arg.load = {c}
    /\ NoTaintedSnapshot
    /\ SnapshotOfTheRightCall

-----------------------------------------------------------------------------
(* Types.                                                                   *)

LEMMA CallBound == MaxCalls \in Nat /\ 0 \in 0..MaxCalls
  BY MaxCallsAssumption

LEMMA NothingIsRequest == Nothing \in Requests
  BY MaxCallsAssumption DEF Nothing, Requests, Loads

\* Merging keeps a payload a set of calls.
LEMMA MergeType ==
    ASSUME NEW p \in Policies, NEW l \in Loads, NEW c \in Calls
    PROVE  MergePending(p, l, c) \in Loads
  BY PoliciesAssumption DEF MergePending, Loads, PolicyKinds

LEMMA NoEventIsEvent == NoEvent \in Events
  BY MaxCallsAssumption DEF NoEvent, Events, Loads, Outcomes

\* Every variable keeps to its range, for every value of the constants.
THEOREM TypeCorrect == Spec => []TypeOK
<1>1. Init => TypeOK
  <2> SUFFICES ASSUME Init PROVE TypeOK
    OBVIOUS
  <2>1. told \in [OpIds -> Loads] /\ answers \subseteq Events
    BY DEF Init, Loads
  <2>2. pending \in Requests /\ arg \in Requests /\ cmd \in Requests
        /\ cur \in Requests /\ evt \in Events
    BY NothingIsRequest, NoEventIsEvent DEF Init
  <2>3. calls \in 0..MaxCalls /\ nextOp \in 0..calls /\ flight \in 0..MaxCalls
    BY CallBound DEF Init
  <2> QED
    BY <2>1, <2>2, <2>3
       DEF Init, TypeOK, Outcomes, UiStates, ThreadStates
<1>2. TypeOK /\ [Next]_vars => TypeOK'
  <2> SUFFICES ASSUME TypeOK, [Next]_vars PROVE TypeOK'
    OBVIOUS
  <2> USE CallBound, NothingIsRequest, NoEventIsEvent
      DEF TypeOK, UiStates, ThreadStates, uiVars, chanVars, thrVars, histVars
  <2>1. CASE Coalesce
    <3>1. calls + 1 \in Calls /\ calls' = calls + 1 /\ nextOp \in Nat /\ calls \in Nat
      BY <2>1 DEF Coalesce, Calls
    <3>2. pending' \in Requests /\ nextOp' \in 0..calls'
      <4>1. CASE pending # Nothing
        <5>1. pending' = [pending EXCEPT !.load = MergePending(policy, pending.load, calls + 1)]
              /\ nextOp' = nextOp
          BY <2>1, <4>1 DEF Coalesce
        <5>2. MergePending(policy, pending.load, calls + 1) \in Loads
          BY <3>1, MergeType DEF Requests
        <5> QED
          BY <3>1, <5>1, <5>2 DEF Requests
      <4>2. CASE pending = Nothing
        BY <2>1, <3>1, <4>2 DEF Coalesce, Requests, Loads, Calls
      <4> QED
        BY <4>1, <4>2
    <3>3. told' \in [OpIds -> Loads]
      BY <2>1, <3>1 DEF Coalesce, Loads
    <3> QED
      BY <2>1, <3>1, <3>2, <3>3 DEF Coalesce
  <2>2. CASE Request
    <3>1. arg' \in Requests
      BY <2>2 DEF Request, Requests, Loads, Calls
    <3>2. calls' \in 0..MaxCalls /\ nextOp' \in 0..calls'
      BY <2>2 DEF Request
    <3> QED
      BY <2>2, <3>1, <3>2 DEF Request
  <2>3. CASE NotifiedByOther
    BY <2>3 DEF NotifiedByOther
  <2>4. CASE Close
    BY ZenonT(60), <2>4 DEF Close
  <2>5. CASE SubmitSend
    BY <2>5 DEF SubmitSend, CommandRoom, ThreadGone, Requests, Loads
  <2>6. CASE SubmitBroken
    BY <2>6 DEF SubmitBroken, SubmitFails, ThreadGone
  <2>7. CASE SubmitEnsure
    BY <2>7 DEF SubmitEnsure
  <2>8. CASE SpawnWorker
    BY <2>8 DEF SpawnWorker
  <2>9. CASE SpawnError
    BY <2>9 DEF SpawnError, SubmitFails
  <2>10. CASE Notified
    BY <2>10 DEF Notified
  <2>11. CASE DrainEvent
    <3>1. answers' \subseteq Events
      BY <2>11 DEF DrainEvent
    <3> QED
      BY <2>11, <3>1 DEF DrainEvent
  <2>12. CASE DrainEmpty
    BY <2>12 DEF DrainEmpty, ThreadGone
  <2>13. CASE DrainDisconnected
    <3>1. answers' \subseteq Events /\ flight' \in 0..MaxCalls
      BY <2>13 DEF DrainDisconnected, Events, Loads, Outcomes
    <3> QED
      BY <2>13, <3>1 DEF DrainDisconnected
  <2>14. CASE DrainEnd
    <3>1. arg' \in Requests /\ pending' \in Requests
      BY <2>14 DEF DrainEnd
    <3>2. CASE ~inFlight /\ pending # Nothing
      BY <2>14, <3>1, <3>2 DEF DrainEnd
    <3>3. CASE ~(~inFlight /\ pending # Nothing)
      BY <2>14, <3>1, <3>3 DEF DrainEnd
    <3> QED
      BY <3>2, <3>3
  <2>15. CASE SendShutdown
    BY <2>15 DEF SendShutdown, CommandRoom, ThreadGone
  <2>16. CASE Join
    BY <2>16 DEF Join, ThreadGone
  <2>17. CASE ThreadStart
    BY <2>17 DEF ThreadStart
  <2>18. CASE ReceiveRun
    BY <2>18 DEF ReceiveRun
  <2>19. CASE ReceiveShutdown
    BY <2>19 DEF ReceiveShutdown, EndThread
  <2>20. CASE Collect
    BY <2>20 DEF Collect, Outcomes
  <2>21. CASE CollectPanic
    BY <2>21 DEF CollectPanic, AfterPanic, Outcomes
  <2>22. CASE SendEvent
    BY <2>22 DEF SendEvent, Requests, Events, Loads, Calls, OpIds, Outcomes
  <2>23. CASE SendRefused
    BY <2>23 DEF SendRefused, EndThread
  <2>24. CASE Notify
    BY <2>24 DEF Notify
  <2>25. CASE NotifyFails
    BY <2>25 DEF NotifyFails
  <2>26. CASE ThreadPanics
    BY <2>26 DEF ThreadPanics, EndThread
  <2>27. CASE UNCHANGED vars
    BY <2>27 DEF vars
  <2> QED
    BY <2>1, <2>2, <2>3, <2>4, <2>5, <2>6, <2>7, <2>8, <2>9, <2>10,
       <2>11, <2>12, <2>13, <2>14, <2>15, <2>16, <2>17, <2>18, <2>19,
       <2>20, <2>21, <2>22, <2>23, <2>24, <2>25, <2>26, <2>27
    DEF Next, UiStep, ThreadStep, Closed
<1> QED
  BY <1>1, <1>2, PTL DEF Spec

-----------------------------------------------------------------------------
(* Pipeline: one outstanding request, wherever it is.                       *)

LEMMA PipelineInit == Init => Pipeline
  BY DEF Init, Pipeline, Submitting, Nothing, NoEvent

LEMMA PipelineStep == TypeOK /\ Pipeline /\ [Next]_vars => Pipeline'
  <1> SUFFICES ASSUME TypeOK, Pipeline, [Next]_vars PROVE Pipeline'
    OBVIOUS
  <1>0. Nothing.op = 0 /\ NoEvent.op = 0
    BY DEF Nothing, NoEvent
  <1> USE <1>0 DEF Pipeline, Submitting, uiVars, chanVars, thrVars, histVars
  <1>1. CASE Coalesce
    <2>1. pending'.op # 0
      <3>1. CASE pending # Nothing
        BY <1>1, <3>1 DEF Coalesce, TypeOK, Requests
      <3>2. CASE pending = Nothing
        BY <1>1, <3>2 DEF Coalesce, TypeOK
      <3> QED
        BY <3>1, <3>2
    <2> QED
      BY <1>1, <2>1 DEF Coalesce
  <1>2. CASE Request
    <2>1. arg'.op # 0 /\ arg' # Nothing
      BY <1>2 DEF Request, TypeOK
    <2> QED
      BY <1>2, <2>1 DEF Request
  <1>3. CASE NotifiedByOther
    BY <1>3 DEF NotifiedByOther
  <1>4. CASE Close
    BY <1>4 DEF Close
  <1>5. CASE SubmitSend
    BY <1>5 DEF SubmitSend, CommandRoom, ThreadGone
  <1>6. CASE SubmitBroken
    BY <1>6 DEF SubmitBroken, SubmitFails, ThreadGone
  <1>7. CASE SubmitEnsure
    BY <1>7 DEF SubmitEnsure
  <1>8. CASE SpawnWorker
    BY <1>8 DEF SpawnWorker, TypeOK
  <1>9. CASE SpawnError
    BY <1>9 DEF SpawnError, TypeOK, SubmitFails
  <1>10. CASE Notified
    BY <1>10 DEF Notified
  <1>11. CASE DrainEvent
    BY <1>11 DEF DrainEvent
  <1>12. CASE DrainEmpty
    BY <1>12 DEF DrainEmpty, ThreadGone
  <1>13. CASE DrainDisconnected
    BY <1>13 DEF DrainDisconnected, ThreadGone
  <1>14. CASE DrainEnd
    BY <1>14 DEF DrainEnd
  <1>15. CASE SendShutdown
    BY <1>15 DEF SendShutdown, CommandRoom, ThreadGone
  <1>16. CASE Join
    BY <1>16 DEF Join, ThreadGone
  <1>17. CASE ThreadStart
    BY <1>17 DEF ThreadStart
  <1>18. CASE ReceiveRun
    BY <1>18 DEF ReceiveRun
  <1>19. CASE ReceiveShutdown
    BY <1>19 DEF ReceiveShutdown, EndThread
  <1>20. CASE Collect
    BY <1>20 DEF Collect
  <1>21. CASE CollectPanic
    BY <1>21 DEF CollectPanic, AfterPanic
  <1>22. CASE SendEvent
    BY <1>22 DEF SendEvent
  <1>23. CASE SendRefused
    BY <1>23 DEF SendRefused, EndThread
  <1>24. CASE Notify
    BY <1>24 DEF Notify
  <1>25. CASE NotifyFails
    BY <1>25 DEF NotifyFails
  <1>26. CASE ThreadPanics
    BY <1>26 DEF ThreadPanics, EndThread
  <1>27. CASE UNCHANGED vars
    BY <1>27 DEF vars
  <1> QED
    BY <1>1, <1>2, <1>3, <1>4, <1>5, <1>6, <1>7, <1>8, <1>9, <1>10,
       <1>11, <1>12, <1>13, <1>14, <1>15, <1>16, <1>17, <1>18, <1>19,
       <1>20, <1>21, <1>22, <1>23, <1>24, <1>25, <1>26, <1>27
    DEF Next, UiStep, ThreadStep, Closed

-----------------------------------------------------------------------------
(* Accounts: operation ids.                                                 *)

LEMMA AccountsInit == Init => Accounts
  BY DEF Init, Accounts, AnsweredOnce, NoSilentLoss, Nothing, OpIds

\* A failed submission puts the request back if drain took it from pending,
\* and otherwise forgets one whose id no caller was told.
LEMMA AccountsSubmitFails ==
    ASSUME TypeOK, Pipeline, Accounts, SubmitFails, arg # Nothing,
           UNCHANGED <<histVars, argFrom>>
    PROVE  Accounts'
  <1>0. Nothing.op = 0 /\ arg.op \in OpIds /\ nextOp \in Nat
    BY CallBound DEF Nothing, Pipeline, TypeOK, Accounts, Requests, OpIds
  <1>1. CASE argFrom = "drain"
    <2>1. pending' = arg /\ arg' = Nothing /\ pending = Nothing
      BY <1>1 DEF SubmitFails, Accounts
    <2> QED
      BY <1>0, <1>1, <2>1 DEF Accounts, AnsweredOnce, NoSilentLoss, Pipeline, histVars,
         Submitting
  <1>2. CASE argFrom # "drain"
    <2>1. pending' = pending /\ arg' = Nothing /\ told[arg.op] = {}
      BY <1>2 DEF SubmitFails, Accounts, TypeOK
    <2> QED
      BY <1>0, <1>2, <2>1 DEF Accounts, AnsweredOnce, NoSilentLoss, Pipeline, histVars
  <1> QED
    BY <1>1, <1>2

LEMMA AccountsStep == TypeOK /\ Pipeline /\ Accounts /\ [Next]_vars => Accounts'
  <1> SUFFICES ASSUME TypeOK, Pipeline, Accounts, [Next]_vars PROVE Accounts'
    OBVIOUS
  <1>0. Nothing.op = 0 /\ NoEvent.op = 0
    BY DEF Nothing, NoEvent
  <1>a. /\ nextOp \in Nat /\ calls \in Nat /\ nextOp <= calls /\ calls <= MaxCalls
        /\ MaxCalls \in Nat
        /\ flight \in Nat /\ pending.op \in Nat /\ arg.op \in Nat
    BY CallBound DEF TypeOK, Requests
  <1>b. (\A a \in answers : a.op \in Nat) /\ \A o \in OpIds : o \in Nat \ {0}
    BY DEF TypeOK, Events, OpIds
  <1> USE <1>0, <1>a DEF Accounts, AnsweredOnce, NoSilentLoss, Pipeline, Submitting,
          uiVars, chanVars, thrVars, histVars
  <1>1. CASE Coalesce
    <2>1. CASE pending # Nothing
      <3>1. pending'.op = pending.op /\ nextOp' = nextOp
        BY <1>1, <2>1 DEF Coalesce, TypeOK, Requests
      <3>2. \A o \in OpIds : told'[o] # {} => told[o] # {} \/ o = pending.op
        BY <1>1, <3>1 DEF Coalesce, TypeOK
      <3> QED
        BY <1>1, <2>1, <3>1, <3>2 DEF Coalesce
    <2>2. CASE pending = Nothing
      <3>1. pending'.op = nextOp + 1 /\ nextOp' = nextOp + 1
        BY <1>1, <2>2 DEF Coalesce
      <3>2. \A o \in OpIds : told'[o] # {} => told[o] # {} \/ o = nextOp + 1
        BY <1>1, <3>1 DEF Coalesce, TypeOK
      <3>3. arg = Nothing /\ arg' = arg /\ flight' = flight /\ answers' = answers
            /\ argFrom' = argFrom
        BY <1>1 DEF Coalesce
      <3> QED
        BY <2>2, <3>1, <3>2, <3>3, <1>b
    <2> QED
      BY <2>1, <2>2
  <1>2. CASE Request
    <2>1. /\ arg'.op = nextOp + 1 /\ nextOp' = nextOp + 1 /\ argFrom' = "request"
          /\ arg = Nothing /\ flight' = flight /\ pending' = pending
          /\ told' = told /\ answers' = answers
      BY <1>2 DEF Request
    <2>2. nextOp + 1 \in OpIds /\ told[nextOp + 1] = {}
      BY <1>2 DEF Request, OpIds
    <2> QED
      BY <2>1, <2>2, <1>b
  <1>3. CASE NotifiedByOther
    BY <1>3 DEF NotifiedByOther
  <1>4. CASE Close
    BY <1>4 DEF Close
  <1>5. CASE SubmitSend
    BY <1>5 DEF SubmitSend, CommandRoom, ThreadGone
  <1>6. CASE SubmitBroken
    <2>1. CASE retried
      BY <1>6, <2>1, AccountsSubmitFails DEF SubmitBroken
    <2>2. CASE ~retried
      BY <1>6, <2>2 DEF SubmitBroken
    <2> QED
      BY <2>1, <2>2
  <1>7. CASE SubmitEnsure
    BY <1>7 DEF SubmitEnsure
  <1>8. CASE SpawnWorker
    BY <1>8 DEF SpawnWorker
  <1>9. CASE SpawnError
    <2>1. CASE dropNext = "submitting"
      BY <1>9, <2>1, AccountsSubmitFails DEF SpawnError
    <2>2. CASE dropNext # "submitting"
      BY <1>9, <2>2 DEF SpawnError
    <2> QED
      BY <2>1, <2>2
  <1>10. CASE Notified
    BY <1>10 DEF Notified
  <1>11. CASE DrainEvent
    BY <1>11 DEF DrainEvent
  <1>12. CASE DrainEmpty
    BY <1>12 DEF DrainEmpty, ThreadGone
  <1>13. CASE DrainDisconnected
    <2>0. /\ flight' = 0 /\ UNCHANGED <<pending, arg, argFrom, nextOp, told>>
      BY <1>13 DEF DrainDisconnected
    <2>1. CASE inFlight
      <3> DEFINE lost == [op |-> flight, load |-> {}, outcome |-> "lost"]
      <3>1. answers' = answers \union {lost} /\ lost.op = flight /\ flight # 0
        BY <1>13, <2>1 DEF DrainDisconnected
      <3>2. arg = Nothing
        BY <1>13 DEF DrainDisconnected
      <3> HIDE DEF lost
      <3> QED
        BY <2>0, <2>1, <3>1, <3>2
    <2>2. CASE ~inFlight
      <3>1. answers' = answers
        BY <1>13, <2>2 DEF DrainDisconnected
      <3> QED
        BY <2>0, <2>2, <3>1
    <2> QED
      BY <2>1, <2>2
  <1>14. CASE DrainEnd
    BY <1>14 DEF DrainEnd
  <1>15. CASE SendShutdown
    BY <1>15 DEF SendShutdown, CommandRoom, ThreadGone
  <1>16. CASE Join
    BY <1>16 DEF Join, ThreadGone
  <1>17. CASE ThreadStart
    BY <1>17 DEF ThreadStart
  <1>18. CASE ReceiveRun
    BY <1>18 DEF ReceiveRun
  <1>19. CASE ReceiveShutdown
    BY <1>19 DEF ReceiveShutdown, EndThread
  <1>20. CASE Collect
    BY <1>20 DEF Collect
  <1>21. CASE CollectPanic
    BY <1>21 DEF CollectPanic, AfterPanic
  <1>22. CASE SendEvent
    BY <1>22 DEF SendEvent
  <1>23. CASE SendRefused
    BY <1>23 DEF SendRefused, EndThread
  <1>24. CASE Notify
    BY <1>24 DEF Notify
  <1>25. CASE NotifyFails
    BY <1>25 DEF NotifyFails
  <1>26. CASE ThreadPanics
    BY <1>26 DEF ThreadPanics, EndThread
  <1>27. CASE UNCHANGED vars
    BY <1>27 DEF vars
  <1> QED
    BY <1>1, <1>2, <1>3, <1>4, <1>5, <1>6, <1>7, <1>8, <1>9, <1>10,
       <1>11, <1>12, <1>13, <1>14, <1>15, <1>16, <1>17, <1>18, <1>19,
       <1>20, <1>21, <1>22, <1>23, <1>24, <1>25, <1>26, <1>27
    DEF Next, UiStep, ThreadStep, Closed

-----------------------------------------------------------------------------
(* Payloads.                                                                *)

LEMMA SurvivorOfOne ==
    ASSUME NEW p \in Policies, NEW c \in Nat
    PROVE  Survivor(p, {c}) = {c}
  BY PoliciesAssumption DEF Survivor, PolicyKinds

LEMMA SurvivorIsTold ==
    ASSUME NEW p \in Policies, NEW S
    PROVE  Survivor(p, S) \subseteq S
  BY PoliciesAssumption DEF Survivor, PolicyKinds

\* Merging a later call into a request keeps it the survivor of its calls.
LEMMA MergeSurvivor ==
    ASSUME NEW p \in Policies, NEW n \in Nat, NEW S \in SUBSET (1..n), S # {}
    PROVE  MergePending(p, Survivor(p, S), n + 1) = Survivor(p, S \union {n + 1})
  <1>1. CASE p = "replace"
    BY <1>1 DEF MergePending, Survivor
  <1>2. CASE p = "keep"
    <2>1. Survivor(p, S \union {n + 1}) =
             {c \in S \union {n + 1} : \A d \in S \union {n + 1} : c <= d}
      BY <1>2 DEF Survivor
    <2>2. Survivor(p, S) = {c \in S : \A d \in S : c <= d}
      BY <1>2 DEF Survivor
    <2>3. PICK m \in S : m \in 1..n
      OBVIOUS
    <2>4. n + 1 \notin S /\ ~(n + 1 <= m) /\ \A c \in S : c <= n + 1
      BY <2>3
    <2>5. Survivor(p, S \union {n + 1}) = Survivor(p, S)
      <3>1. ASSUME NEW c \in Survivor(p, S \union {n + 1})
            PROVE  c \in Survivor(p, S)
        <4>1. c \in S \union {n + 1} /\ c <= m
          BY <2>1, <2>3
        <4>2. c # n + 1
          BY <4>1, <2>4
        <4> QED
          BY <2>1, <2>2, <4>1, <4>2
      <3>2. ASSUME NEW c \in Survivor(p, S)
            PROVE  c \in Survivor(p, S \union {n + 1})
        <4>1. c \in S /\ \A d \in S : c <= d
          BY <2>2
        <4>2. \A d \in S \union {n + 1} : c <= d
          BY <4>1, <2>4
        <4> QED
          BY <2>1, <4>1, <4>2
      <3> QED
        BY <3>1, <3>2
    <2> QED
      BY <1>2, <2>5 DEF MergePending
  <1>3. CASE p = "union"
    BY <1>3 DEF MergePending, Survivor
  <1> QED
    BY <1>1, <1>2, <1>3, PoliciesAssumption DEF PolicyKinds

LEMMA PayloadsInit == Init => Payloads
  BY DEF Init, Payloads, NoTaintedSnapshot, SnapshotOfTheRightCall, NoEvent, OpIds

LEMMA PayloadsStep ==
    TypeOK /\ Pipeline /\ Accounts /\ Payloads /\ [Next]_vars => Payloads'
  <1> SUFFICES ASSUME TypeOK, Pipeline, Accounts, Payloads, [Next]_vars
               PROVE  Payloads'
    OBVIOUS
  <1>0. Nothing.op = 0 /\ NoEvent.op = 0 /\ NoEvent.outcome = "ok"
    BY DEF Nothing, NoEvent
  <1>a. /\ nextOp \in Nat /\ calls \in Nat /\ nextOp <= calls /\ calls <= MaxCalls
        /\ MaxCalls \in Nat /\ policy \in Policies
        /\ flight \in Nat /\ pending.op \in Nat /\ arg.op \in Nat
    BY CallBound DEF TypeOK, Requests
  <1>b. (\A a \in answers : a.op \in Nat) /\ \A o \in OpIds : o \in Nat \ {0}
    BY DEF TypeOK, Events, OpIds
  <1> USE <1>0, <1>a DEF Payloads, NoTaintedSnapshot, SnapshotOfTheRightCall,
          Pipeline, Submitting, uiVars, chanVars, thrVars, histVars
  <1>1. CASE Coalesce
    <2> DEFINE o == pending'.op
    <2>0. /\ UNCHANGED <<collector, out, evt, flight, cmd, cur, arg, argFrom, answers, policy>>
          /\ calls' = calls + 1 /\ arg = Nothing
          /\ told' = [told EXCEPT ![o] = @ \union {calls + 1}]
      BY <1>1 DEF Coalesce
    <2>1. /\ o \in OpIds /\ o # flight /\ \A a \in answers : a.op # o
          /\ pending'.load = Survivor(policy, told[o] \union {calls + 1})
      <3>1. CASE pending # Nothing
        <4>1. /\ pending' = [pending EXCEPT !.load = MergePending(policy, @, calls + 1)]
              /\ pending \in Requests
          BY <1>1, <3>1 DEF Coalesce, TypeOK
        <4>2. o = pending.op /\ pending'.load = MergePending(policy, pending.load, calls + 1)
          BY <4>1 DEF Requests
        <4>3. o \in OpIds /\ o # flight /\ \A a \in answers : a.op # o
          BY <3>1, <4>1, <4>2 DEF Requests, OpIds, Accounts, AnsweredOnce
        <4> QED
          BY <3>1, <4>2, <4>3, MergeSurvivor
      <3>2. CASE pending = Nothing
        <4>1. o = nextOp + 1 /\ pending'.load = {calls + 1} /\ calls < MaxCalls
          BY <1>1, <3>2 DEF Coalesce
        <4>2. o \in OpIds /\ o # flight /\ told[o] = {} /\ \A a \in answers : a.op # o
          BY <4>1, <1>b DEF OpIds, Accounts
        <4> QED
          BY <4>1, <4>2, SurvivorOfOne
      <3> QED
        BY <3>1, <3>2
    <2>2. told \in [OpIds -> Loads] /\ \A q \in OpIds : told[q] \subseteq 1..calls
      BY DEF TypeOK
    <2>3. /\ told'[o] = told[o] \union {calls + 1}
          /\ \A q \in OpIds \ {o} : told'[q] = told[q]
      BY <2>0, <2>1, <2>2
    <2>4. \A q \in OpIds : told'[q] \subseteq 1..calls'
      BY <2>0, <2>1, <2>2, <2>3
    <2>5. \A a \in answers : a.op \in OpIds \ {o}
      BY <2>1, <1>b DEF TypeOK, Events, OpIds, Accounts
    <2>6. flight # 0 => flight \in OpIds \ {o}
      BY <2>1 DEF TypeOK, OpIds
    <2>7. /\ cmd # Nothing => flight # 0
          /\ cur # Nothing => flight # 0
          /\ evt # NoEvent => flight # 0
      OBVIOUS
    <2> QED
      BY <2>0, <2>1, <2>3, <2>4, <2>5, <2>6, <2>7
  <1>2. CASE Request
    BY <1>2 DEF Request
  <1>3. CASE NotifiedByOther
    BY <1>3 DEF NotifiedByOther
  <1>4. CASE Close
    BY <1>4 DEF Close
  <1>5. CASE SubmitSend
    <2> DEFINE o == arg.op
    <2>0. /\ UNCHANGED <<collector, out, evt, cur, pending, answers, policy, calls>>
          /\ flight' = o /\ cmd' = arg /\ arg' = Nothing
          /\ told' = [told EXCEPT ![o] = @ \union arg.load]
          /\ evt = NoEvent /\ cur = Nothing /\ arg # Nothing
      BY <1>5 DEF SubmitSend
    <2>1. o \in OpIds /\ o # pending.op /\ \A a \in answers : a.op # o
      BY <2>0 DEF TypeOK, Requests, OpIds, Accounts, AnsweredOnce
    <2>2. told \in [OpIds -> Loads] /\ \A q \in OpIds : told[q] \subseteq 1..calls
      BY DEF TypeOK
    <2>3. /\ told'[o] = told[o] \union arg.load
          /\ \A q \in OpIds \ {o} : told'[q] = told[q]
      BY <2>0, <2>1, <2>2
    <2>4. arg.load = Survivor(policy, told'[o]) /\ told'[o] \subseteq 1..calls
      <3>1. CASE argFrom = "drain"
        <4>1. arg.load = Survivor(policy, told[o])
          BY <2>0, <3>1
        <4>2. policy \in Policies
          BY DEF TypeOK
        <4>3. arg.load \subseteq told[o]
          BY <4>1, <4>2, SurvivorIsTold
        <4>4. told'[o] = told[o]
          BY <2>3, <4>3
        <4> QED
          BY <2>1, <2>2, <4>1, <4>4
      <3>2. CASE argFrom = "request"
        <4>1. PICK c \in 1..calls : arg.load = {c}
          BY <2>0, <3>2
        <4>2. told[o] = {}
          BY <2>0, <3>2 DEF Accounts
        <4> QED
          BY <2>3, <4>1, <4>2, SurvivorOfOne
      <3> QED
        BY <3>1, <3>2 DEF TypeOK
    <2>5. \A a \in answers : a.op \in OpIds \ {o}
      BY <2>1, <1>b DEF TypeOK, Events, OpIds, Accounts
    <2>6. pending # Nothing => pending.op \in OpIds \ {o}
      BY <2>1 DEF TypeOK, Requests, OpIds
    <2> QED
      BY <2>0, <2>1, <2>2, <2>3, <2>4, <2>5, <2>6
  <1>6. CASE SubmitBroken
    BY <1>6 DEF SubmitBroken, SubmitFails, ThreadGone
  <1>7. CASE SubmitEnsure
    BY <1>7 DEF SubmitEnsure
  <1>8. CASE SpawnWorker
    BY <1>8 DEF SpawnWorker
  <1>9. CASE SpawnError
    BY <1>9 DEF SpawnError, SubmitFails
  <1>10. CASE Notified
    BY <1>10 DEF Notified
  <1>11. CASE DrainEvent
    BY <1>11 DEF DrainEvent
  <1>12. CASE DrainEmpty
    BY <1>12 DEF DrainEmpty, ThreadGone
  <1>13. CASE DrainDisconnected
    BY <1>13 DEF DrainDisconnected, ThreadGone
  <1>14. CASE DrainEnd
    BY <1>14 DEF DrainEnd
  <1>15. CASE SendShutdown
    BY <1>15 DEF SendShutdown, CommandRoom, ThreadGone
  <1>16. CASE Join
    BY <1>16 DEF Join, ThreadGone
  <1>17. CASE ThreadStart
    BY <1>17 DEF ThreadStart
  <1>18. CASE ReceiveRun
    BY <1>18 DEF ReceiveRun
  <1>19. CASE ReceiveShutdown
    BY <1>19 DEF ReceiveShutdown, EndThread
  <1>20. CASE Collect
    BY <1>20 DEF Collect
  <1>21. CASE CollectPanic
    BY <1>21 DEF CollectPanic, AfterPanic
  <1>22. CASE SendEvent
    BY <1>22 DEF SendEvent
  <1>23. CASE SendRefused
    BY <1>23 DEF SendRefused, EndThread
  <1>24. CASE Notify
    BY <1>24 DEF Notify
  <1>25. CASE NotifyFails
    BY <1>25 DEF NotifyFails
  <1>26. CASE ThreadPanics
    BY <1>26 DEF ThreadPanics, EndThread
  <1>27. CASE UNCHANGED vars
    BY <1>27 DEF vars
  <1> QED
    BY <1>1, <1>2, <1>3, <1>4, <1>5, <1>6, <1>7, <1>8, <1>9, <1>10,
       <1>11, <1>12, <1>13, <1>14, <1>15, <1>16, <1>17, <1>18, <1>19,
       <1>20, <1>21, <1>22, <1>23, <1>24, <1>25, <1>26, <1>27
    DEF Next, UiStep, ThreadStep, Closed

-----------------------------------------------------------------------------
(* Waiting.                                                                 *)

\* What a wait rests on: who joins has told the thread to stop, what is in flight
\* is somewhere between the two threads, and the receiver is there until the
\* worker is dropped.
Waits ==
    /\ ui = "joining" => (stop \/ thr = "gone")
    /\ (inFlight /\ rx /\ thr # "gone") =>
          (cmd # Nothing \/ cur # Nothing \/ evt # NoEvent)
    /\ (hasWorker /\ ui \notin {"dropping", "joining"}) => rx
    /\ (ui \in {"dropping", "joining", "spawning"} /\ dropNext # "closed") => ~inFlight
    /\ (~hasWorker /\ ui # "closed") => ~inFlight

LEMMA WaitsInit == Init => Waits
  BY DEF Init, Waits

LEMMA WaitsStep == TypeOK /\ Pipeline /\ Waits /\ [Next]_vars => Waits'
  <1> SUFFICES ASSUME TypeOK, Pipeline, Waits, [Next]_vars PROVE Waits'
    OBVIOUS
  <1>0. /\ ui = "spawning" => dropNext # "closed"
        /\ ui \in {"spawning", "closed"} => ~hasWorker
        /\ ui \in {"dropping", "joining"} => (hasWorker /\ ~rx)
        /\ Submitting => ~inFlight
        /\ hasWorker <=> thr # "none"
        /\ ~hasWorker => ~rx
        /\ cur # Nothing <=> thr \in {"collect", "send"}
        /\ cmd.op = 0 => cmd = Nothing
        /\ arg # Nothing <=> Submitting
        /\ arg.op = 0 => arg = Nothing
        /\ stop => (ui = "joining" /\ cmd = Nothing)
        /\ inFlight <=> flight # 0
        /\ cur # Nothing => cur.op = flight
        /\ inFlight \in BOOLEAN /\ dropNext \in {"submitting", "followup", "closed"}
        /\ Nothing.op = 0 /\ NoEvent.op = 0
    BY DEF Pipeline, TypeOK, Nothing, NoEvent
  <1> USE <1>0 DEF Waits, Submitting, uiVars, chanVars, thrVars, histVars
  <1>1. CASE Coalesce
    BY <1>1 DEF Coalesce
  <1>2. CASE Request
    BY <1>2 DEF Request
  <1>3. CASE NotifiedByOther
    BY <1>3 DEF NotifiedByOther
  <1>4. CASE Close
    BY <1>4 DEF Close
  <1>5. CASE SubmitSend
    BY <1>5 DEF SubmitSend, CommandRoom, ThreadGone
  <1>6. CASE SubmitBroken
    BY <1>6 DEF SubmitBroken, SubmitFails, ThreadGone
  <1>7. CASE SubmitEnsure
    BY <1>7 DEF SubmitEnsure
  <1>8. CASE SpawnWorker
    BY <1>8 DEF SpawnWorker
  <1>9. CASE SpawnError
    BY <1>9 DEF SpawnError, SubmitFails
  <1>10. CASE Notified
    BY <1>10 DEF Notified
  <1>11. CASE DrainEvent
    BY <1>11 DEF DrainEvent
  <1>12. CASE DrainEmpty
    BY <1>12 DEF DrainEmpty, ThreadGone
  <1>13. CASE DrainDisconnected
    BY <1>13 DEF DrainDisconnected, ThreadGone
  <1>14. CASE DrainEnd
    BY <1>14 DEF DrainEnd
  <1>15. CASE SendShutdown
    BY <1>15 DEF SendShutdown, CommandRoom, ThreadGone
  <1>16. CASE Join
    BY <1>16 DEF Join, ThreadGone
  <1>17. CASE ThreadStart
    BY <1>17 DEF ThreadStart
  <1>18. CASE ReceiveRun
    BY <1>18 DEF ReceiveRun
  <1>19. CASE ReceiveShutdown
    BY <1>19 DEF ReceiveShutdown, EndThread
  <1>20. CASE Collect
    BY <1>20 DEF Collect
  <1>21. CASE CollectPanic
    BY <1>21 DEF CollectPanic, AfterPanic
  <1>22. CASE SendEvent
    BY <1>22 DEF SendEvent
  <1>23. CASE SendRefused
    BY <1>23 DEF SendRefused, EndThread
  <1>24. CASE Notify
    BY <1>24 DEF Notify
  <1>25. CASE NotifyFails
    BY <1>25 DEF NotifyFails
  <1>26. CASE ThreadPanics
    BY <1>26 DEF ThreadPanics, EndThread
  <1>27. CASE UNCHANGED vars
    BY <1>27 DEF vars
  <1> QED
    BY <1>1, <1>2, <1>3, <1>4, <1>5, <1>6, <1>7, <1>8, <1>9, <1>10,
       <1>11, <1>12, <1>13, <1>14, <1>15, <1>16, <1>17, <1>18, <1>19, <1>20,
       <1>21, <1>22, <1>23, <1>24, <1>25, <1>26, <1>27
    DEF Next, UiStep, ThreadStep, Closed

-----------------------------------------------------------------------------
(* Theorems.                                                                *)

IInv == TypeOK /\ Pipeline /\ Accounts /\ Payloads

\* The inductive invariant.
THEOREM Inductive == Spec => []IInv
<1>1. Init => Pipeline /\ Accounts /\ Payloads
  BY PipelineInit, AccountsInit, PayloadsInit
<1>2. TypeOK /\ Pipeline /\ Accounts /\ Payloads /\ [Next]_vars
        => (Pipeline /\ Accounts /\ Payloads)'
  BY PipelineStep, AccountsStep, PayloadsStep
<1> QED
  BY <1>1, <1>2, TypeCorrect, PTL DEF Spec, IInv

\* At most one request is in flight, and the channels, the thread and the UI
\* agree which one, through panics, dead threads and respawns.
THEOREM AtMostOneInFlight == Spec => []OneOutstanding
<1>1. IInv => OneOutstanding
  <2> SUFFICES ASSUME IInv PROVE OneOutstanding
    OBVIOUS
  <2> DEFINE Full(c) == \/ c = "cmd" /\ cmd.op # 0
                        \/ c = "cur" /\ cur.op # 0
                        \/ c = "evt" /\ evt.op # 0
             Places == {c \in {"cmd", "cur", "evt"} : Full(c)}
  <2>0. Nothing.op = 0 /\ NoEvent.op = 0
    BY DEF Nothing, NoEvent
  <2>1. \/ Places = {} \/ Places = {"cmd"} \/ Places = {"cur"} \/ Places = {"evt"}
    BY <2>0 DEF IInv, Pipeline
  <2>2. Cardinality(Places) <= 1
    <3>1. /\ Cardinality({}) = 0 /\ Cardinality({"cmd"}) = 1
          /\ Cardinality({"cur"}) = 1 /\ Cardinality({"evt"}) = 1
      BY FS_EmptySet, FS_Singleton
    <3> HIDE DEF Places
    <3> QED
      BY <2>1, <3>1
  <2>3. \A o \in {cmd.op, cur.op, evt.op} \ {0} : o = flight
    BY <2>0 DEF IInv, Pipeline
  <2> QED
    BY <2>2, <2>3 DEF IInv, Pipeline, OneOutstanding
<1> QED
  BY <1>1, Inductive, PTL

\* submit_request and the completion send find room in their channels.
THEOREM SubmitDoesNotBlock == Spec => []SubmitNeverBlocks
<1>1. IInv => SubmitNeverBlocks
  BY DEF IInv, Pipeline, Submitting, SubmitNeverBlocks, CommandRoom, ThreadGone,
         Nothing
<1> QED
  BY <1>1, Inductive, PTL

\* No operation id a caller was told disappears, and none is answered twice.
THEOREM EveryIdAccountedFor == Spec => [](NoSilentLoss /\ AnsweredOnce)
<1>1. IInv => NoSilentLoss /\ AnsweredOnce
  BY DEF IInv, Accounts
<1> QED
  BY <1>1, Inductive, PTL

\* A snapshot is collected for the calls that were told its operation id, by a
\* collector that did not panic.
THEOREM RightSnapshots == Spec => [](SnapshotOfTheRightCall /\ NoTaintedSnapshot)
<1>1. IInv => SnapshotOfTheRightCall /\ NoTaintedSnapshot
  BY DEF IInv, Payloads
<1> QED
  BY <1>1, Inductive, PTL

\* What a wait rests on, throughout.
THEOREM Waited == Spec => []Waits
<1> QED
  BY WaitsInit, WaitsStep, Inductive, PTL DEF Spec, IInv

\* The UI thread and the worker thread never wait for each other, in a
\* submission, in a drop or in the join that ends it.
THEOREM NoCircleOfWaits == Spec => []NeitherWaitsForTheOther
<1>1. IInv /\ Waits /\ SubmitNeverBlocks => NeitherWaitsForTheOther
  <2> SUFFICES ASSUME IInv, Waits, SubmitNeverBlocks, UiWaits, ThreadWaits PROVE FALSE
    BY DEF NeitherWaitsForTheOther
  <2>1. thr # "gone" /\ ((ui = "dropping" /\ cmd # Nothing) \/ ui = "joining")
    BY DEF UiWaits, SubmitNeverBlocks, CommandRoom, ThreadGone, IInv, Pipeline
  <2>2. hasWorker /\ ~rx /\ thr # "none"
    BY <2>1 DEF IInv, Pipeline
  <2> QED
    BY <2>1, <2>2 DEF Waits, ThreadWaits
<1> QED
  BY <1>1, Inductive, Waited, SubmitDoesNotBlock, PTL

\* When nothing moves any more, no operation a caller was told is left without
\* an answer, unless the worker is stranded: pending, the channels and the
\* thread hold nothing that only a new request would bring forward.
THEOREM NoneForgotten == Spec => []NothingForgotten
<1>1. IInv /\ Waits => NothingForgotten
  <2> SUFFICES ASSUME IInv, Waits, ui = "idle", notes = 0, ThreadWaits, ~Stranded,
                      NEW o \in OpIds, told[o] # {},
                      ~\E a \in answers : a.op = o
               PROVE  FALSE
    BY DEF NothingForgotten
  <2>1. o \in {flight, pending.op, arg.op} /\ o # 0
    BY DEF IInv, Accounts, NoSilentLoss, OpIds
  <2>2. arg = Nothing /\ Nothing.op = 0
    BY DEF IInv, Pipeline, Submitting, Nothing
  <2>3. inFlight
    BY <2>1, <2>2 DEF IInv, Pipeline, Stranded
  <2>4. hasWorker /\ rx
    BY <2>3 DEF Waits
  <2>5. thr # "gone" /\ thr # "none"
    BY <2>4 DEF Stranded, ThreadGone, IInv, Pipeline
  <2>6. cmd # Nothing \/ cur # Nothing \/ evt # NoEvent
    BY <2>3, <2>4, <2>5 DEF Waits
  <2>7. evt = NoEvent
    BY <2>5 DEF Stranded, ThreadWaits
  <2>8. cmd = Nothing /\ thr = "recv"
    BY <2>5, <2>7 DEF ThreadWaits
  <2> QED
    BY <2>6, <2>7, <2>8 DEF IInv, Pipeline
<1> QED
  BY <1>1, Inductive, Waited, PTL

\* While the UI waits in a drop, every step brings the thread nearer to its end:
\* with NoCircleOfWaits, a drop returns after at most four steps of the thread.
THEOREM DropIsShort == Spec => EveryStepCounts
<1>1. IInv /\ [Next]_vars =>
        [(ui \in {"dropping", "joining"} /\ ui' = ui) => StepsLeft' < StepsLeft]_vars
  <2> SUFFICES ASSUME IInv, Next, ui \in {"dropping", "joining"}, ui' = ui, vars' # vars
               PROVE  StepsLeft' < StepsLeft
    OBVIOUS
  <2>1. ~rx /\ thr \in ThreadStates
    BY DEF IInv, Pipeline, TypeOK
  <2>2. ThreadStep
    BY DEF Next, UiStep, Closed, Coalesce, Request, NotifiedByOther, Close, SubmitSend,
           SubmitBroken, SubmitEnsure, SpawnWorker, SpawnError, Notified, DrainEvent,
           DrainEmpty, DrainDisconnected, DrainEnd, SendShutdown, Join, IInv, Pipeline
  <2> USE DEF StepsLeft, EndThread
  <2>3. CASE ThreadStart
    BY <2>1, <2>3 DEF ThreadStart
  <2>4. CASE ReceiveRun
    BY <2>1, <2>4 DEF ReceiveRun
  <2>5. CASE ReceiveShutdown
    BY <2>1, <2>5 DEF ReceiveShutdown
  <2>6. CASE Collect
    BY <2>1, <2>6 DEF Collect
  <2>7. CASE CollectPanic
    BY <2>1, <2>7 DEF CollectPanic
  <2>8. CASE SendEvent
    BY <2>1, <2>8 DEF SendEvent
  <2>9. CASE SendRefused
    BY <2>1, <2>9 DEF SendRefused
  <2>10. CASE Notify
    BY <2>1, <2>10 DEF Notify
  <2>11. CASE NotifyFails
    BY <2>1, <2>11 DEF NotifyFails
  <2>12. CASE ThreadPanics
    BY <2>1, <2>12 DEF ThreadPanics
  <2> QED
    BY <2>2, <2>3, <2>4, <2>5, <2>6, <2>7, <2>8, <2>9, <2>10, <2>11, <2>12
       DEF ThreadStep
<1> QED
  BY <1>1, Inductive, PTL DEF Spec, EveryStepCounts

\* The discipline as a whole (SingleFlightWorker, BackgroundWorker): it is what
\* the theorems above say together.
THEOREM Disciplined == Spec => []Discipline
<1>1. TypeOK /\ OneOutstanding /\ SubmitNeverBlocks /\ (NoSilentLoss /\ AnsweredOnce)
        /\ (SnapshotOfTheRightCall /\ NoTaintedSnapshot)
        /\ NeitherWaitsForTheOther /\ NothingForgotten
      => Discipline
  BY DEF Discipline
<1> QED
  BY <1>1, TypeCorrect, AtMostOneInFlight, SubmitDoesNotBlock, EveryIdAccountedFor,
     RightSnapshots, NoCircleOfWaits, NoneForgotten, PTL

-----------------------------------------------------------------------------
(* Refinement.                                                              *)

\* The steps of the worker are steps of the promise or leave it unchanged.
THEOREM KeepsThePromise == Spec => PromiseKept
<1> DEFINE Ids == {a.op : a \in answers}
<1>1. Init => Promise!PromiseInit
  BY DEF Init, Promise!PromiseInit, Waiting, Nothing
<1>2. IInv /\ [Next]_vars => [Promise!PromiseNext]_(Promise!promiseVars)
  <2> SUFFICES ASSUME IInv, [Next]_vars
               PROVE  [Promise!PromiseNext]_(Promise!promiseVars)
    OBVIOUS
  <2>0. Nothing.op = 0 /\ NoEvent.op = 0 /\ nextOp \in Nat
        /\ \A o \in {flight, pending.op, arg.op} : o \in 0..MaxCalls
    BY CallBound DEF Nothing, NoEvent, IInv, TypeOK, Requests
  <2> USE <2>0 DEF IInv, Pipeline, Submitting, uiVars, chanVars, thrVars, histVars,
          Promise!promiseVars, Waiting
  <2>1. CASE Coalesce
    <3>0. arg = Nothing /\ UNCHANGED <<flight, answers, arg, argFrom>> /\ flight # 0
      BY <2>1 DEF Coalesce
    <3>1. CASE pending # Nothing
      <4>1. pending'.op = pending.op
        BY <2>1, <3>1 DEF Coalesce, TypeOK, Requests
      <4> QED
        BY <3>0, <4>1
    <3>2. CASE pending = Nothing
      <4>0. nextOp \in 0..calls /\ calls < MaxCalls /\ calls \in Nat /\ MaxCalls \in Nat
        BY <2>1, CallBound DEF Coalesce, TypeOK
      <4>1. pending'.op = nextOp + 1 /\ nextOp + 1 \in OpIds
        BY <2>1, <3>2, <4>0 DEF Coalesce, OpIds
      <4>2. nextOp + 1 \notin Ids \union {flight, 0}
        BY DEF Accounts, TypeOK, Events
      <4>3. Promise!Queue(nextOp + 1)
        BY <3>0, <3>2, <4>1, <4>2 DEF Promise!Queue, Promise!FreshOp
      <4> QED
        BY <4>1, <4>3 DEF Promise!PromiseNext
    <3> QED
      BY <3>1, <3>2
  <2>2. CASE Request
    BY <2>2 DEF Request
  <2>3. CASE NotifiedByOther
    BY <2>3 DEF NotifiedByOther
  <2>4. CASE Close
    BY <2>4 DEF Close
  <2>5. CASE SubmitSend
    <3>0. /\ flight = 0 /\ flight' = arg.op /\ arg' = Nothing /\ arg # Nothing
          /\ UNCHANGED <<pending, answers, argFrom>>
      BY <2>5 DEF SubmitSend
    <3>1. arg.op \in OpIds /\ arg.op \notin Ids \union {pending.op}
      BY <3>0 DEF Accounts, AnsweredOnce, OpIds
    <3>2. CASE argFrom = "drain"
      <4>1. Promise!FollowUp
        BY <3>0, <3>1, <3>2 DEF Promise!FollowUp, Accounts
      <4> QED
        BY <4>1 DEF Promise!PromiseNext
    <3>3. CASE argFrom # "drain"
      <4>1. Promise!Submit(arg.op)
        BY <3>0, <3>1, <3>3 DEF Promise!Submit, Promise!FreshOp, OpIds
      <4> QED
        BY <3>1, <4>1 DEF Promise!PromiseNext
    <3> QED
      BY <3>2, <3>3
  <2>6. CASE SubmitBroken
    BY <2>6 DEF SubmitBroken, SubmitFails, ThreadGone
  <2>7. CASE SubmitEnsure
    BY <2>7 DEF SubmitEnsure
  <2>8. CASE SpawnWorker
    BY <2>8 DEF SpawnWorker
  <2>9. CASE SpawnError
    BY <2>9 DEF SpawnError, SubmitFails
  <2>10. CASE Notified
    BY <2>10 DEF Notified
  <2>11. CASE DrainEvent
    <3>1. /\ answers' = answers \union {evt} /\ evt.op = flight /\ flight # 0
          /\ flight' = 0 /\ UNCHANGED <<pending, arg, argFrom>>
      BY <2>11 DEF DrainEvent
    <3>2. Ids' = Ids \union {flight}
      BY <3>1
    <3>3. Promise!Answer
      BY <3>1, <3>2 DEF Promise!Answer
    <3> QED
      BY <3>3 DEF Promise!PromiseNext
  <2>12. CASE DrainEmpty
    BY <2>12 DEF DrainEmpty, ThreadGone
  <2>13. CASE DrainDisconnected
    <3>0. flight' = 0 /\ UNCHANGED <<pending, arg, argFrom>>
      BY <2>13 DEF DrainDisconnected
    <3>1. CASE inFlight
      <4> DEFINE lost == [op |-> flight, load |-> {}, outcome |-> "lost"]
      <4>1. answers' = answers \union {lost} /\ lost.op = flight /\ flight # 0
        BY <2>13, <3>1 DEF DrainDisconnected
      <4>2. Ids' = Ids \union {flight}
        BY <4>1
      <4>3. Promise!Answer
        BY <3>0, <4>1, <4>2 DEF Promise!Answer
      <4> QED
        BY <4>3 DEF Promise!PromiseNext
    <3>2. CASE ~inFlight
      <4>1. answers' = answers /\ flight = 0
        BY <2>13, <3>2 DEF DrainDisconnected
      <4> QED
        BY <3>0, <4>1
    <3> QED
      BY <3>1, <3>2
  <2>14. CASE DrainEnd
    BY <2>14 DEF DrainEnd
  <2>15. CASE SendShutdown
    BY <2>15 DEF SendShutdown, CommandRoom, ThreadGone
  <2>16. CASE Join
    BY <2>16 DEF Join, ThreadGone
  <2>17. CASE ThreadStart
    BY <2>17 DEF ThreadStart
  <2>18. CASE ReceiveRun
    BY <2>18 DEF ReceiveRun
  <2>19. CASE ReceiveShutdown
    BY <2>19 DEF ReceiveShutdown, EndThread
  <2>20. CASE Collect
    BY <2>20 DEF Collect
  <2>21. CASE CollectPanic
    BY <2>21 DEF CollectPanic, AfterPanic
  <2>22. CASE SendEvent
    BY <2>22 DEF SendEvent
  <2>23. CASE SendRefused
    BY <2>23 DEF SendRefused, EndThread
  <2>24. CASE Notify
    BY <2>24 DEF Notify
  <2>25. CASE NotifyFails
    BY <2>25 DEF NotifyFails
  <2>26. CASE ThreadPanics
    BY <2>26 DEF ThreadPanics, EndThread
  <2>27. CASE UNCHANGED vars
    BY <2>27 DEF vars
  <2> QED
    BY <2>1, <2>2, <2>3, <2>4, <2>5, <2>6, <2>7, <2>8, <2>9, <2>10,
       <2>11, <2>12, <2>13, <2>14, <2>15, <2>16, <2>17, <2>18, <2>19,
       <2>20, <2>21, <2>22, <2>23, <2>24, <2>25, <2>26, <2>27
    DEF Next, UiStep, ThreadStep, Closed
<1> QED
  BY <1>1, <1>2, Inductive, PTL DEF Spec, PromiseKept, Promise!PromiseSpec
=============================================================================
