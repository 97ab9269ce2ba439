------------------------------- MODULE IconPool -------------------------------
(***************************************************************************)
(* The thread pool that collects one batch of window icons                 *)
(* (TaskIconExecutor, pages/applications/icons.rs): the icon worker's      *)
(* collector hands one batch to the threads, which share out its requests  *)
(* over one counter, and takes one answer of each.                         *)
(*                                                                         *)
(* A request is its number in its batch, an icon the request, its batch    *)
(* and the thread that found it.  Windows only die; one that takes over a  *)
(* handle is another identity and is refused like a dead one.              *)
(***************************************************************************)
EXTENDS Naturals, Sequences, FiniteSets

CONSTANTS
    WorkerCount,    \* worker_count
    MaxRequests,    \* bound: requests in a batch
    MaxBatches,     \* bound: batches
    MaxPanics       \* bound: panics of the threads

VARIABLES
    caller,         \* where the collector is
    spawned,        \* threads started so far
    batch, size,    \* the last batch and its number of requests
    dispatched, gathered, error,    \* in collect
    taken,          \* what collect has put together
    next,           \* next_request, by batch
    dead,           \* the windows of the last batch that have died
    commands,       \* by thread: what its channel of capacity one holds
    thread,         \* by thread: where it is, its batch, request and icons
    results,        \* the result channel
    panics,
    struck          \* history: the batches in which a thread panicked

collect == <<batch, size, dispatched, gathered, error, taken>>
pool == <<spawned, next, dead, commands, thread, results, panics, struck>>
vars == <<caller, collect, pool>>

Workers == 1..WorkerCount
Idle == [at |-> "wait", batch |-> 0, request |-> 0, found |-> {}]
Active == IF size < WorkerCount THEN size ELSE WorkerCount

Init ==
    /\ caller = "new" /\ spawned = 0
    /\ batch = 0 /\ size = 0 /\ dispatched = 0 /\ gathered = 0
    /\ error = FALSE /\ taken = {}
    /\ next = [b \in 1..MaxBatches |-> 0] /\ dead = {}
    /\ commands = [w \in Workers |-> "none"] /\ thread = [w \in Workers |-> Idle]
    /\ results = <<>> /\ panics = 0 /\ struck = {}

-----------------------------------------------------------------------------
(* The collector's thread.                                                  *)

\* new: the threads are started one after the other.
Spawn ==
    /\ caller = "new"
    /\ spawned' = spawned + 1
    /\ caller' = IF spawned' = WorkerCount THEN "idle" ELSE "new"
    /\ UNCHANGED <<collect, next, dead, commands, thread, results, panics, struck>>

\* One cannot be started: the senders are dropped and the others joined.
SpawnFails ==
    /\ caller = "new"
    /\ caller' = "join"
    /\ UNCHANGED <<collect, pool>>

\* An empty batch is answered at once.
Begin(n) ==
    /\ caller = "idle" /\ batch < MaxBatches
    /\ batch' = batch + 1 /\ size' = n /\ dead' = {}
    /\ dispatched' = 0 /\ gathered' = 0 /\ error' = FALSE /\ taken' = {}
    /\ caller' = IF n = 0 THEN "idle" ELSE "dispatch"
    /\ UNCHANGED <<spawned, next, commands, thread, results, panics, struck>>

\* Each active thread gets the work.  A send would be refused by a thread that
\* has ended, which none has before Shutdown.
Dispatch ==
    LET w == dispatched + 1 IN
    /\ caller = "dispatch" /\ commands[w] = "none"
    /\ commands' = [commands EXCEPT ![w] = "run"]
    /\ dispatched' = w
    /\ caller' = IF w = Active THEN "gather" ELSE "dispatch"
    /\ UNCHANGED <<batch, size, gathered, error, taken, spawned, next, dead, thread, results,
                   panics, struck>>

\* Mutant of GatherDone: the first answer that reports an error ends the batch.
GatherUntilError == gathered' = dispatched \/ error'

GatherDone == gathered' = dispatched

\* One answer of each thread that has the work, also after an error.
Gather ==
    /\ caller = "gather" /\ results # <<>>
    /\ LET r == Head(results) IN
        /\ error' = (error \/ r.failed)
        /\ taken' = IF r.failed THEN taken ELSE taken \union r.found
    /\ results' = Tail(results) /\ gathered' = gathered + 1
    /\ caller' = IF GatherDone THEN "idle" ELSE "gather"
    /\ UNCHANGED <<batch, size, dispatched, spawned, next, dead, commands, thread, panics,
                   struck>>

\* drop: Shutdown to every thread, then the senders are dropped.
Drop ==
    /\ caller = "idle"
    /\ \A w \in Workers : commands[w] = "none"
    /\ commands' = [w \in Workers |-> "shutdown"]
    /\ caller' = "join"
    /\ UNCHANGED <<collect, spawned, next, dead, thread, results, panics, struck>>

Join ==
    /\ caller = "join"
    /\ \A w \in 1..spawned : thread[w].at = "ended"
    /\ caller' = "gone"
    /\ UNCHANGED <<collect, pool>>

-----------------------------------------------------------------------------
(* A thread of the pool (run_task_icon_pool_worker).                        *)

Is(w, place) == w <= spawned /\ thread[w].at = place

Receive(w) ==
    /\ Is(w, "wait") /\ commands[w] # "none"
    /\ commands' = [commands EXCEPT ![w] = "none"]
    /\ thread' = [thread EXCEPT ![w] = IF commands[w] = "run"
                                       THEN [Idle EXCEPT !.at = "next", !.batch = batch]
                                       ELSE [Idle EXCEPT !.at = "ended"]]
    /\ UNCHANGED <<caller, collect, spawned, next, dead, results, panics, struck>>

\* The senders were dropped without a command.
Disconnected(w) ==
    /\ Is(w, "wait") /\ commands[w] = "none" /\ caller = "join"
    /\ thread' = [thread EXCEPT ![w].at = "ended"]
    /\ UNCHANGED <<caller, collect, spawned, next, dead, commands, results, panics, struck>>

\* fetch_add; the request of a dead window is passed over.
Claim(w) ==
    LET r == next[thread[w].batch] + 1 IN
    /\ Is(w, "next")
    /\ next' = [next EXCEPT ![thread[w].batch] = r]
    /\ thread' = [thread EXCEPT ![w].request = r,
                    ![w].at = IF r > size THEN "send" ELSE IF r \in dead THEN "next" ELSE "fetch"]
    /\ UNCHANGED <<caller, collect, spawned, dead, commands, results, panics, struck>>

\* The icons are there; they count if the window still is the one asked for.
Fetch(w) ==
    LET t == thread[w] IN
    /\ Is(w, "fetch")
    /\ thread' = [thread EXCEPT ![w].at = "next",
                    ![w].found = IF t.request \in dead THEN @
                                 ELSE @ \union {<<t.batch, t.request, w>>}]
    /\ UNCHANGED <<caller, collect, spawned, next, dead, commands, results, panics, struck>>

\* A panic is caught: the thread answers with an error and loses what it had.
Panic(w) ==
    /\ Is(w, "fetch") /\ panics < MaxPanics
    /\ panics' = panics + 1 /\ struck' = struck \union {thread[w].batch}
    /\ thread' = [thread EXCEPT ![w].at = "fail"]
    /\ UNCHANGED <<caller, collect, spawned, next, dead, commands, results>>

Send(w) ==
    /\ Is(w, "send") \/ Is(w, "fail")
    /\ Len(results) < WorkerCount
    /\ results' = Append(results, [failed |-> thread[w].at = "fail", found |-> thread[w].found])
    /\ thread' = [thread EXCEPT ![w] = Idle]
    /\ UNCHANGED <<caller, collect, spawned, next, dead, commands, panics, struck>>

-----------------------------------------------------------------------------
WindowDies(r) ==
    /\ caller \in {"dispatch", "gather"} /\ r <= size /\ r \notin dead
    /\ dead' = dead \union {r}
    /\ UNCHANGED <<caller, collect, spawned, next, commands, thread, results, panics, struck>>

Caller == Spawn \/ Dispatch \/ Gather \/ Join
Step(w) == Receive(w) \/ Disconnected(w) \/ Claim(w) \/ Fetch(w) \/ Panic(w) \/ Send(w)

Next ==
    \/ Caller \/ SpawnFails \/ Drop
    \/ \E n \in 0..MaxRequests : Begin(n)
    \/ \E w \in Workers : Step(w)
    \/ \E r \in 1..MaxRequests : WindowDies(r)

Spec == Init /\ [][Next]_vars

\* The collector's thread and those of the pool run, and a window asked for its
\* icon answers or the question times out; when a batch or the end comes is the
\* page's affair.
FairSpec == Spec /\ WF_vars(Caller) /\ \A w \in Workers : WF_vars(Step(w))

-----------------------------------------------------------------------------
Answered == caller = "idle" /\ batch # 0

\* An answer without an error has one icon of every request whose window is
\* still there, none twice and none of another batch, whichever threads did the
\* work and whichever windows died; an error is reported only if a thread
\* panicked in this batch (TaskIconExecutor::collect).
BatchIsWhole ==
    Answered =>
      /\ error <=> batch \in struck
      /\ ~error => \A r \in 1..size \ dead : \E t \in taken : t[2] = r
      /\ \A t \in taken : t[1] = batch /\ t[2] \in 1..size
      /\ \A t, u \in taken : t[2] = u[2] => t = u

\* When a batch is answered nothing of it is left in a thread or a channel, so
\* that the next one takes only its own answers; and no thread ever waits to
\* send its answer.
NothingIsLeft ==
    /\ caller = "idle" => /\ results = <<>>
                          /\ \A w \in Workers : thread[w] = Idle /\ commands[w] = "none"
    /\ \A w \in Workers : thread[w].at \in {"send", "fail"} => Len(results) < WorkerCount

\* A thread that cannot go on before another one does: the collector's, for an
\* answer or for the end of the pool, one of the pool, for work or for room.
CallerWaits ==
    \/ caller = "dispatch" /\ commands[dispatched + 1] # "none"
    \/ caller = "gather" /\ results = <<>>
    \/ caller = "join" /\ \E w \in 1..spawned : thread[w].at # "ended"

ThreadWaits(w) ==
    \/ thread[w].at = "ended"
    \/ thread[w].at = "wait" /\ commands[w] = "none" /\ caller # "join"
    \/ thread[w].at \in {"send", "fail"} /\ Len(results) = WorkerCount

\* While the collector's thread waits, one of the pool's that runs goes on, whichever
\* panicked and whatever is in the channels.
SomebodyWorks == CallerWaits => \E w \in 1..spawned : ~ThreadWaits(w)

\* A batch is answered, and a pool that is dropped or could not be started ends:
\* Waiting leads to Served, with the workers' fairness.
Waiting == caller \in {"dispatch", "gather", "join"}
Served == caller \in {"idle", "gone"}
===============================================================================
