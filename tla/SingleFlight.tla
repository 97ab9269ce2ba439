---------------------------- MODULE SingleFlight ----------------------------
(***************************************************************************)
(* The persistent background worker of src/infrastructure/worker.rs as one *)
(* page uses it: the UI thread owns a SingleFlightWorker (request, drain,  *)
(* drop), which owns a BackgroundWorker: a thread, a command channel and a *)
(* completion channel of capacity one, and a posted window message that    *)
(* tells the UI to drain.                                                  *)
(*                                                                         *)
(* Every step that touches state shared by the two threads (a channel send *)
(* or receive, the post, the end of the thread, the join) is an action of  *)
(* its own; what only the UI thread sees happens inside those actions.     *)
(*                                                                         *)
(* A request carries a payload.  What the policies tell apart is whose     *)
(* payload survives a merge, so a payload is the set of the request calls  *)
(* it stands for.                                                          *)
(***************************************************************************)
EXTENDS Naturals, FiniteSets

CONSTANTS
    Policies,         \* the merge_pending functions pages use, see PolicyKinds
    MaxCalls,         \* bound: how many times the page calls request
    CollectorPanics,  \* may initialize or collect panic?
    ThreadDies,       \* may a panic outside catch_unwind end the thread?
    SpawnFails,       \* may creating a replacement thread fail?
    PostFails,        \* may PostMessageW fail?
    SharedMessage     \* do two workers post the same completion message?

\* replace_pending, keep_pending, and the merges that combine two requests
\* (merge_cpu_requests, merge_task_icon_batches).
PolicyKinds == {"replace", "keep", "union"}

ASSUME PoliciesAssumption == Policies \subseteq PolicyKinds
ASSUME MaxCallsAssumption == MaxCalls \in Nat \ {0}
ASSUME FaultAssumption ==
    {CollectorPanics, ThreadDies, SpawnFails, PostFails, SharedMessage} \subseteq BOOLEAN

Calls == 1..MaxCalls
OpIds == 1..MaxCalls   \* every operation id is drawn by one request call
Loads == SUBSET Calls
Requests == [op : 0..MaxCalls, load : Loads]
Nothing == [op |-> 0, load |-> {}]       \* Option::None
Outcomes == {"ok", "tainted", "panicked", "lost"}
Events == [op : 0..MaxCalls, load : Loads, outcome : Outcomes]
NoEvent == [op |-> 0, load |-> {}, outcome |-> "ok"]

VARIABLES
    \* SingleFlightWorker (UI thread)
    inFlight,     \* in_flight
    policy,       \* merge_pending, chosen when the worker is spawned
    pending,      \* pending and pending_operation_id
    hasWorker,    \* worker.is_some()
    \* where the UI thread is, and the request it is submitting
    ui, arg, argFrom, retried, dropNext,
    \* BackgroundWorker
    rx,           \* completion_receiver.is_some()
    cmd, stop,    \* the command channel: a Run command, or Shutdown
    evt,          \* the completion channel
    notes,        \* posted completion messages the UI has not handled
    thr,          \* the worker thread
    cur,          \* the request the thread works on
    out,          \* the outcome of cur that the thread is about to send
    collector,    \* the collector state kept between requests
    \* history, for the properties only
    calls,        \* request calls made so far
    nextOp,       \* the last operation id drawn
    flight,       \* the operation whose submission set in_flight
    told,         \* told[o]: the calls that were told operation id o
    answers       \* what drain gave the page, by operation

uiVars == <<inFlight, policy, pending, hasWorker, ui, arg, argFrom, retried,
            dropNext>>
chanVars == <<rx, cmd, stop, evt, notes>>
thrVars == <<thr, cur, out, collector>>
histVars == <<calls, nextOp, flight, told, answers>>
vars == <<uiVars, chanVars, thrVars, histVars>>

UiStates == {"idle", "draining", "followup", "submitting",
             "spawning", "dropping", "joining", "closed"}
ThreadStates == {"none", "start", "recv", "collect", "send", "notify", "gone"}

Init ==
    /\ policy \in Policies
    /\ inFlight = FALSE /\ pending = Nothing /\ hasWorker = TRUE
    /\ ui = "idle" /\ arg = Nothing /\ argFrom = "request"
    /\ retried = FALSE /\ dropNext = "closed"
    /\ rx = TRUE /\ cmd = Nothing /\ stop = FALSE /\ evt = NoEvent /\ notes = 0
    /\ thr = "start" /\ cur = Nothing /\ out = "ok" /\ collector = "none"
    /\ calls = 0 /\ nextOp = 0 /\ flight = 0
    /\ told = [o \in OpIds |-> {}] /\ answers = {}

-----------------------------------------------------------------------------
(* UI thread: SingleFlightWorker.                                           *)

\* Mutant of MergePending: replace_pending keeps the old payload.
ReplaceKeepsOld(p, load, call) ==
    IF p = "union" THEN load \union {call} ELSE load

\* merge_pending: what becomes of the payload of a pending request.
MergePending(p, load, call) ==
    CASE p = "replace" -> {call}
      [] p = "keep" -> load
      [] p = "union" -> load \union {call}

\* The command channel takes one command; send waits for room.
CommandRoom == cmd = Nothing /\ ~stop

ThreadGone == thr = "gone"    \* both of the thread's channel ends are dropped

\* Mutant of Coalesce: a merge draws a new operation id for the pending request.
CoalesceRenumbers ==
    /\ ui = "idle" /\ inFlight
    /\ calls < MaxCalls
    /\ calls' = calls + 1
    /\ nextOp' = nextOp + 1
    /\ pending' = [op |-> nextOp', load |-> MergePending(policy, pending.load, calls')]
    /\ told' = [told EXCEPT ![nextOp'] = @ \union {calls'}]
    /\ UNCHANGED <<policy, inFlight, hasWorker, ui, arg, argFrom, retried,
                   dropNext, chanVars, thrVars, flight, answers>>

\* request during a flight: join the pending request or become it.
Coalesce ==
    /\ ui = "idle" /\ inFlight
    /\ calls < MaxCalls
    /\ calls' = calls + 1
    /\ IF pending # Nothing
         THEN /\ pending' = [pending EXCEPT !.load = MergePending(policy, @, calls')]
              /\ UNCHANGED nextOp
         ELSE /\ nextOp' = nextOp + 1
              /\ pending' = [op |-> nextOp', load |-> {calls'}]
    /\ told' = [told EXCEPT ![pending'.op] = @ \union {calls'}]
    /\ UNCHANGED <<policy, inFlight, hasWorker, ui, arg, argFrom, retried, dropNext,
                   chanVars, thrVars, flight, answers>>

\* request otherwise: draw an operation id and go to submit_request.
Request ==
    /\ ui = "idle" /\ ~inFlight
    /\ calls < MaxCalls
    /\ calls' = calls + 1
    /\ nextOp' = nextOp + 1
    /\ arg' = [op |-> nextOp', load |-> {calls'}]
    /\ argFrom' = "request" /\ retried' = FALSE
    /\ ui' = "submitting"
    /\ UNCHANGED <<policy, inFlight, pending, hasWorker, dropNext, chanVars, thrVars,
                   flight, told, answers>>

\* submit_request fails: request returns the error and forgets the request,
\* drain puts it back with its operation id.
SubmitFails ==
    /\ pending' = IF argFrom = "drain" THEN arg ELSE pending
    /\ arg' = Nothing
    /\ ui' = "idle"

\* submit_request, a live worker: the send waits for room and succeeds; the
\* caller marks the flight.
SubmitSend ==
    /\ ui = "submitting" /\ hasWorker /\ ~ThreadGone
    /\ CommandRoom
    /\ cmd' = arg
    /\ inFlight' = TRUE
    /\ flight' = arg.op
    /\ told' = [told EXCEPT ![arg.op] = @ \union arg.load]
    /\ arg' = Nothing
    /\ ui' = "idle"
    /\ UNCHANGED <<policy, pending, hasWorker, argFrom, retried, dropNext, rx, stop, evt,
                   notes, thrVars, calls, nextOp, answers>>

\* submit_request, the thread is gone: the first failed send drops the worker
\* and retries on a new one, the second is reported.
SubmitBroken ==
    /\ ui = "submitting" /\ hasWorker /\ ThreadGone
    /\ IF retried
         THEN SubmitFails /\ UNCHANGED <<retried, dropNext, rx, evt>>
         ELSE /\ retried' = TRUE
              /\ dropNext' = "submitting"
              /\ ui' = "dropping" /\ rx' = FALSE /\ evt' = NoEvent
              /\ UNCHANGED <<pending, arg>>
    /\ UNCHANGED <<policy, inFlight, hasWorker, argFrom, cmd, stop, notes, thrVars,
                   histVars>>

\* ensure_worker in submit_request.
SubmitEnsure ==
    /\ ui = "submitting" /\ ~hasWorker
    /\ ui' = "spawning" /\ dropNext' = "submitting"
    /\ UNCHANGED <<policy, inFlight, pending, hasWorker, arg, argFrom, retried, chanVars,
                   thrVars, histVars>>

\* The restart closure: a new thread with new channels.
SpawnWorker ==
    /\ ui = "spawning"
    /\ hasWorker' = TRUE /\ ui' = dropNext
    /\ rx' = TRUE /\ cmd' = Nothing /\ stop' = FALSE /\ evt' = NoEvent
    /\ thr' = "start" /\ cur' = Nothing /\ collector' = "none"
    /\ UNCHANGED <<policy, inFlight, pending, arg, argFrom, retried, dropNext, notes, out,
                   histVars>>

\* No thread can be created: submit_request gives up, drain goes on without
\* a worker.
SpawnError ==
    /\ SpawnFails
    /\ ui = "spawning"
    /\ IF dropNext = "submitting"
         THEN SubmitFails
         ELSE ui' = dropNext /\ UNCHANGED <<pending, arg>>
    /\ UNCHANGED <<policy, inFlight, hasWorker, argFrom, retried, dropNext, chanVars,
                   thrVars, histVars>>

\* The page handles a completion message: drain begins.
Notified ==
    /\ ui = "idle" /\ notes > 0
    /\ notes' = notes - 1
    /\ ui' = "draining"
    /\ UNCHANGED <<policy, inFlight, pending, hasWorker, arg, argFrom, retried,
                   dropNext,
                   rx, cmd, stop, evt, thrVars, histVars>>

\* The completion message of a worker that shares its message number with this
\* one (the snapshot and icon workers of the applications page): the page
\* drains both.
NotifiedByOther ==
    /\ SharedMessage
    /\ ui = "idle"
    /\ ui' = "draining"
    /\ UNCHANGED <<policy, inFlight, pending, hasWorker, arg, argFrom, retried,
                   dropNext, chanVars, thrVars, histVars>>

\* Mutant of DrainEvent: a collector panic does not clear in_flight.
DrainPanicKeepsFlight ==
    /\ ui = "draining" /\ hasWorker /\ evt # NoEvent
    /\ evt' = NoEvent
    /\ inFlight' = (evt.outcome = "panicked")
    /\ flight' = IF inFlight' THEN flight ELSE 0
    /\ answers' = answers \union {evt}
    /\ UNCHANGED <<policy, pending, hasWorker, ui, arg, argFrom, retried, dropNext,
                   rx, cmd, stop, notes, thrVars, calls, nextOp, told>>

\* drain, try_recv gives an event: the flight is over, with a snapshot or a
\* collector panic.
DrainEvent ==
    /\ ui = "draining" /\ hasWorker /\ evt # NoEvent
    /\ evt' = NoEvent
    /\ inFlight' = FALSE
    /\ flight' = 0
    /\ answers' = answers \union {evt}
    /\ UNCHANGED <<policy, pending, hasWorker, ui, arg, argFrom, retried, dropNext, rx,
                   cmd, stop, notes, thrVars, calls, nextOp, told>>

\* drain, try_recv says Empty: on to the follow-up.
DrainEmpty ==
    /\ ui = "draining" /\ hasWorker /\ evt = NoEvent /\ ~ThreadGone
    /\ ui' = "followup"
    /\ UNCHANGED <<policy, inFlight, pending, hasWorker, arg, argFrom, retried,
                   dropNext,
                   chanVars, thrVars, histVars>>

\* drain, try_recv says Disconnected (or there is no worker): whatever was in
\* flight is lost, the worker is dropped and replaced.
DrainDisconnected ==
    /\ ui = "draining"
    /\ ~hasWorker \/ (evt = NoEvent /\ ThreadGone)
    /\ inFlight' = FALSE
    /\ flight' = 0
    /\ answers' = IF inFlight
                    THEN answers \union {[op |-> flight, load |-> {}, outcome |-> "lost"]}
                    ELSE answers
    /\ ui' = IF hasWorker THEN "dropping" ELSE "spawning"
    /\ rx' = FALSE
    /\ dropNext' = "followup"
    /\ UNCHANGED <<policy, pending, hasWorker, arg, argFrom, retried, cmd, stop, evt, notes,
                   thrVars, calls, nextOp, told>>

\* Mutant of DrainEnd: the pending request is copied, not taken.
DrainEndCopies ==
    /\ ui = "followup"
    /\ IF ~inFlight /\ pending # Nothing
         THEN /\ arg' = pending /\ argFrom' = "drain" /\ retried' = FALSE
              /\ ui' = "submitting"
         ELSE ui' = "idle" /\ UNCHANGED <<arg, argFrom, retried>>
    /\ UNCHANGED <<policy, inFlight, pending, hasWorker, dropNext, chanVars,
                   thrVars, histVars>>

\* The end of drain: with nothing in flight the pending request is submitted.
DrainEnd ==
    /\ ui = "followup"
    /\ IF ~inFlight /\ pending # Nothing
         THEN /\ arg' = pending /\ argFrom' = "drain" /\ retried' = FALSE
              /\ pending' = Nothing
              /\ ui' = "submitting"
         ELSE ui' = "idle" /\ UNCHANGED <<arg, argFrom, retried, pending>>
    /\ UNCHANGED <<policy, inFlight, hasWorker, dropNext, chanVars, thrVars, histVars>>

\* The page is destroyed: its SingleFlightWorker is dropped, receiver first.
Close ==
    /\ ui = "idle"
    /\ IF hasWorker
         THEN ui' = "dropping" /\ dropNext' = "closed" /\ rx' = FALSE /\ evt' = NoEvent
         ELSE ui' = "closed" /\ UNCHANGED <<dropNext, rx, evt>>
    /\ UNCHANGED <<policy, inFlight, pending, hasWorker, arg, argFrom, retried, cmd, stop,
                   notes, thrVars, histVars>>

\* Mutant of SendShutdown: drop joins a thread it told nothing.
JoinWithoutShutdown ==
    /\ ui = "dropping"
    /\ ui' = "joining"
    /\ UNCHANGED <<policy, inFlight, pending, hasWorker, arg, argFrom, retried,
                   dropNext, chanVars, thrVars, histVars>>

\* BackgroundWorker::drop, after the receiver is taken: send Shutdown, which
\* waits for room unless the thread is gone.
SendShutdown ==
    /\ ui = "dropping"
    /\ ThreadGone \/ CommandRoom
    /\ stop' = ~ThreadGone
    /\ ui' = "joining"
    /\ UNCHANGED <<policy, inFlight, pending, hasWorker, arg, argFrom, retried,
                   dropNext,
                   rx, cmd, evt, notes, thrVars, histVars>>

\* BackgroundWorker::drop: join returns when the thread has ended.
Join ==
    /\ ui = "joining" /\ ThreadGone
    /\ thr' = "none" /\ hasWorker' = FALSE
    /\ ui' = IF dropNext = "closed" THEN "closed" ELSE "spawning"
    /\ UNCHANGED <<policy, inFlight, pending, arg, argFrom, retried, dropNext, chanVars,
                   cur, out, collector, histVars>>

-----------------------------------------------------------------------------
(* The worker thread.                                                       *)

\* The thread leaves its loop, or a panic unwinds it: its channel ends are
\* dropped, and a command still in the channel with them.
EndThread == thr' = "gone" /\ cmd' = Nothing /\ stop' = FALSE
             /\ cur' = Nothing /\ collector' = "none"

ThreadStart ==
    /\ thr = "start" /\ thr' = "recv"
    /\ UNCHANGED <<uiVars, chanVars, cur, out, collector, histVars>>

ReceiveRun ==
    /\ thr = "recv" /\ cmd # Nothing
    /\ cur' = cmd /\ cmd' = Nothing
    /\ thr' = "collect"
    /\ UNCHANGED <<uiVars, rx, stop, evt, notes, out, collector, histVars>>

ReceiveShutdown ==
    /\ thr = "recv" /\ stop
    /\ EndThread
    /\ UNCHANGED <<uiVars, rx, evt, notes, out, histVars>>

\* catch_unwind returns a snapshot.  A collector that lives on after a panic
\* ("broken") would taint it.
Collect ==
    /\ thr = "collect"
    /\ out' = IF collector = "broken" THEN "tainted" ELSE "ok"
    /\ collector' = IF collector = "none" THEN "clean" ELSE collector
    /\ thr' = "send"
    /\ UNCHANGED <<uiVars, chanVars, cur, histVars>>

\* The state the collector is in once its panic is handled.
AfterPanic == "none"

\* catch_unwind returns a panic: the collector is discarded.
CollectPanic ==
    /\ CollectorPanics
    /\ thr = "collect"
    /\ out' = "panicked"
    /\ collector' = AfterPanic
    /\ thr' = "send"
    /\ UNCHANGED <<uiVars, chanVars, cur, histVars>>

\* completion_sender.send: waits for room while the receiver exists.
SendEvent ==
    /\ thr = "send" /\ rx /\ evt = NoEvent
    /\ evt' = [op |-> cur.op, load |-> cur.load, outcome |-> out]
    /\ cur' = Nothing
    /\ thr' = "notify"
    /\ UNCHANGED <<uiVars, rx, cmd, stop, notes, out, collector, histVars>>

\* completion_sender.send fails: the receiver was dropped, the loop ends.
SendRefused ==
    /\ thr = "send" /\ ~rx
    /\ EndThread
    /\ UNCHANGED <<uiVars, rx, evt, notes, out, histVars>>

\* PostMessageW.
Notify ==
    /\ thr = "notify"
    /\ notes' = notes + 1
    /\ thr' = "recv"
    /\ UNCHANGED <<uiVars, rx, cmd, stop, evt, cur, out, collector, histVars>>

\* PostMessageW fails: the error is logged, nothing else happens.
NotifyFails ==
    /\ PostFails
    /\ thr = "notify"
    /\ thr' = "recv"
    /\ UNCHANGED <<uiVars, chanVars, cur, out, collector, histVars>>

\* A panic outside catch_unwind (the diagnostic calls around a request).
ThreadPanics ==
    /\ ThreadDies
    /\ thr \in {"start", "collect", "send", "notify"}
    /\ EndThread
    /\ UNCHANGED <<uiVars, rx, evt, notes, out, histVars>>

-----------------------------------------------------------------------------
UiStep ==
    \/ SubmitSend \/ SubmitBroken \/ SubmitEnsure \/ SpawnWorker \/ SpawnError
    \/ Notified \/ DrainEvent \/ DrainEmpty \/ DrainDisconnected \/ DrainEnd
    \/ SendShutdown \/ Join

ThreadStep ==
    \/ ThreadStart \/ ReceiveRun \/ ReceiveShutdown \/ Collect \/ CollectPanic
    \/ SendEvent \/ SendRefused \/ Notify \/ NotifyFails \/ ThreadPanics

\* The program may stop once the page is closed, and only then.
Closed == ui = "closed" /\ UNCHANGED vars

Next == Coalesce \/ Request \/ NotifiedByOther \/ Close \/ UiStep \/ ThreadStep \/ Closed

\* The message loop runs and the collector's queries return; when a page asks
\* or closes is its own affair.
Fairness == WF_vars(UiStep) /\ WF_vars(ThreadStep)

Spec == Init /\ [][Next]_vars
FairSpec == Spec /\ Fairness
-----------------------------------------------------------------------------
(* Properties.                                                              *)

\* Every variable keeps to its range.
TypeOK ==
    /\ policy \in Policies
    /\ inFlight \in BOOLEAN /\ pending \in Requests /\ hasWorker \in BOOLEAN
    /\ ui \in UiStates /\ arg \in Requests /\ argFrom \in {"request", "drain"}
    /\ retried \in BOOLEAN /\ dropNext \in {"submitting", "followup", "closed"}
    /\ rx \in BOOLEAN /\ cmd \in Requests /\ stop \in BOOLEAN
    /\ evt \in Events /\ notes \in Nat
    /\ thr \in ThreadStates /\ cur \in Requests /\ out \in Outcomes
    /\ collector \in {"none", "clean", "broken"}
    /\ calls \in 0..MaxCalls /\ nextOp \in 0..calls /\ flight \in 0..MaxCalls
    /\ told \in [OpIds -> Loads] /\ answers \subseteq Events

\* At most one request is anywhere between the submission and the drain, and
\* it is the one in_flight stands for (worker.rs:13, "at most one request in
\* flight"), whatever panics, dies or is respawned on the way.
OneOutstanding ==
    /\ inFlight <=> flight # 0
    /\ \A o \in {cmd.op, cur.op, evt.op} \ {0} : o = flight
    /\ Cardinality({c \in {"cmd", "cur", "evt"} :
                      \/ c = "cmd" /\ cmd.op # 0
                      \/ c = "cur" /\ cur.op # 0
                      \/ c = "evt" /\ evt.op # 0}) <= 1

\* The capacity-one channels never make the UI thread wait in submit_request,
\* nor the worker thread in its completion send.
SubmitNeverBlocks ==
    /\ ui = "submitting" /\ hasWorker /\ ~ThreadGone => CommandRoom
    /\ thr = "send" /\ rx => evt = NoEvent

\* An operation id returned to a caller never disappears: it is answered, in
\* flight, waiting, or on its way into the command channel.
NoSilentLoss ==
    \A o \in OpIds :
        told[o] # {} =>
            \/ o \in {flight, pending.op, arg.op}
            \/ \E a \in answers : a.op = o

\* An operation is answered once, and not while it is still going on.
AnsweredOnce ==
    /\ \A a, b \in answers : a.op = b.op => a = b
    /\ \A a \in answers : a.op \notin {flight, pending.op, arg.op}

\* The call whose payload an operation must carry: the last one merged into
\* it under replace_pending, the first under keep_pending, all of them else.
Survivor(p, S) ==
    CASE p = "replace" -> {c \in S : \A d \in S : d <= c}
      [] p = "keep" -> {c \in S : \A d \in S : c <= d}
      [] p = "union" -> S

\* A snapshot was collected for the calls that were told its operation id, as
\* merge_pending combines them.
SnapshotOfTheRightCall ==
    \A a \in answers : a.outcome = "ok" => a.load = Survivor(policy, told[a.op])

\* No snapshot comes from collector state that lived through a panic.
NoTaintedSnapshot == \A a \in answers : a.outcome # "tainted"

\* One of the two threads waits for the other: the UI for room in the command
\* channel or for the end of the thread, the thread for a command or for room
\* in the completion channel.
UiWaits ==
    /\ ~ThreadGone
    /\ \/ ui = "submitting" /\ hasWorker /\ ~CommandRoom
       \/ ui = "dropping" /\ ~CommandRoom
       \/ ui = "joining"

ThreadWaits ==
    \/ thr \in {"none", "gone"}
    \/ thr = "recv" /\ cmd = Nothing /\ ~stop
    \/ thr = "send" /\ rx /\ evt # NoEvent

\* They never wait for each other, although drop takes the receiver, sends into
\* a channel that may be full and joins a thread that may be in a send itself.
NeitherWaitsForTheOther == ~(UiWaits /\ ThreadWaits)

\* What is left waits for an event that need not come: the post of the
\* completion failed, the thread died, or no thread took the pending request.
Stranded ==
    /\ ui = "idle"
    /\ \/ notes = 0 /\ evt # NoEvent /\ thr # "notify"
       \/ notes = 0 /\ ThreadGone
       \/ pending # Nothing /\ ~inFlight

\* When nothing moves any more until the page asks again, every operation id a
\* caller was told is answered or the worker is stranded: none is forgotten in
\* pending, in a channel or with a thread that waits.
NothingForgotten ==
    ui = "idle" /\ notes = 0 /\ ThreadWaits /\ ~Stranded =>
      \A o \in OpIds : told[o] # {} => \E a \in answers : a.op = o

\* The discipline of a single-flight worker: one request at a time, none that
\* blocks, none that is lost or answered twice, none answered from the state a
\* panic left (SingleFlightWorker, BackgroundWorker).
Discipline ==
    /\ TypeOK
    /\ OneOutstanding /\ SubmitNeverBlocks
    /\ NoSilentLoss /\ AnsweredOnce /\ NoTaintedSnapshot
    /\ NeitherWaitsForTheOther /\ NothingForgotten

\* Every operation id a caller was told is answered, unless the page is closed
\* first or the worker is stranded: nothing else makes a request hang.
EveryOperationSettles ==
    \A o \in OpIds :
        told[o] # {} ~> \/ ui = "closed"
                        \/ \E a \in answers : a.op = o
                        \/ Stranded

\* Dropping a worker returns, whether or not the UI drained the last
\* completion (worker.rs:298) and whatever the thread was doing.
TeardownEnds == ui = "dropping" ~> ui \in {"closed", "spawning"}

\* What the thread has still to do in a drop: every step while the UI waits there
\* leaves it less, since no command follows Shutdown and no completion is taken.
StepsLeft ==
    CASE thr \in {"none", "gone"} -> 0
      [] thr = "send" -> 1
      [] thr = "collect" -> 2
      [] thr = "recv" -> 3
      [] OTHER -> 4

EveryStepCounts ==
    [][(ui \in {"dropping", "joining"} /\ ui' = ui) => StepsLeft' < StepsLeft]_vars

\* The worker keeps the promise made to a page.
Waiting == IF argFrom = "drain" /\ arg # Nothing THEN arg.op ELSE pending.op

Promise == INSTANCE SingleFlightPromise
             WITH Ops <- OpIds, waiting <- Waiting,
                  answered <- {a.op : a \in answers}

PromiseKept == Promise!PromiseSpec
=============================================================================
