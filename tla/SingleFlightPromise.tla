------------------------- MODULE SingleFlightPromise -------------------------
(***************************************************************************)
(* What a page of the task manager is promised by the single-flight worker *)
(* of src/infrastructure/worker.rs, without threads or channels: at most   *)
(* one operation in flight, at most one waiting behind it, an answer only  *)
(* for the operation in flight, and no operation answered twice.           *)
(***************************************************************************)
EXTENDS Naturals

CONSTANT Ops          \* operation ids, positive: 0 stands for "no operation"

VARIABLES flight,     \* the operation in flight, or 0
          waiting,    \* the one follow-up operation, or 0
          answered    \* the operations the page got an answer for

promiseVars == <<flight, waiting, answered>>

PromiseInit == flight = 0 /\ waiting = 0 /\ answered = {}

FreshOp(o) == o \notin answered \union {flight, waiting}

\* The page asks and nothing is in flight.
Submit(o) ==
    /\ flight = 0
    /\ FreshOp(o)
    /\ flight' = o
    /\ UNCHANGED <<waiting, answered>>

\* The page asks during a flight and no follow-up exists yet.
Queue(o) ==
    /\ flight # 0
    /\ waiting = 0
    /\ FreshOp(o)
    /\ waiting' = o
    /\ UNCHANGED <<flight, answered>>

\* The page learns the outcome of the operation in flight: a snapshot, or
\* the report that it failed or was lost.
Answer ==
    /\ flight # 0
    /\ flight' = 0
    /\ answered' = answered \union {flight}
    /\ UNCHANGED waiting

\* The waiting operation takes off.
FollowUp ==
    /\ flight = 0
    /\ waiting # 0
    /\ flight' = waiting
    /\ waiting' = 0
    /\ UNCHANGED answered

PromiseNext ==
    \/ \E o \in Ops : Submit(o) \/ Queue(o)
    \/ Answer
    \/ FollowUp

PromiseSpec == PromiseInit /\ [][PromiseNext]_promiseVars
=============================================================================
