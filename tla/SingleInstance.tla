---------------------------- MODULE SingleInstance ----------------------------
(***************************************************************************)
(* Starting the program while it may be running already                    *)
(* (app/single_instance.rs; App::run_main, acquire_startup_mutex,          *)
(* release_startup_mutex and the PWM_ACTIVATE, WM_CLOSE and WM_DESTROY     *)
(* branches of main_window_proc in app/mod.rs; launch_replacement).        *)
(*                                                                         *)
(* A launch takes the startup mutex, looks for the window of an instance   *)
(* with its own identity, sends it PWM_ACTIVATE, and gives way if the      *)
(* window answers; otherwise it creates its own window and then releases   *)
(* the mutex.  All steps of different processes interleave.                *)
(***************************************************************************)
EXTENDS Naturals, FiniteSets

CONSTANTS
    Launches,       \* the processes ever started
    Identities,     \* user, session, integrity, elevation and image, as one value
    MaxFaults       \* bound: timeouts, refusals and failed initialisations

Nobody == "nobody"

\* The mutex without an owner is told from the launches.
ASSUME NobodyAssumption == Nobody \notin Launches

VARIABLES
    pc,             \* where each process is
    identity,
    window,         \* the processes whose main window exists
    mutex,          \* the owner of the startup mutex
    handle,         \* the processes that have it open
    candidate,      \* the window a launch addresses
    seen,           \* the windows its enumeration has passed
    answer,         \* what SendMessageTimeoutW has stored: the reply of the window
    faults

vars == <<pc, identity, window, mutex, handle, candidate, seen, answer, faults>>
search == <<candidate, seen, answer>>
lock == <<mutex, handle>>

Running(p) == pc[p] \notin {"none", "gone"}
Goto(p, place) == pc' = [pc EXCEPT ![p] = place]
Fault == faults < MaxFaults /\ faults' = faults + 1

Init ==
    /\ pc = [p \in Launches |-> "none"]
    /\ identity \in [Launches -> Identities]
    /\ window = {} /\ mutex = Nobody /\ handle = {}
    /\ candidate = [p \in Launches |-> Nobody]
    /\ seen = [p \in Launches |-> {}]
    /\ answer = [p \in Launches |-> "none"]
    /\ faults = 0

-----------------------------------------------------------------------------
\* A user starts the program.
Launch(p) ==
    /\ pc[p] = "none"
    /\ Goto(p, "mutex")
    /\ UNCHANGED <<identity, window, lock, search, faults>>

\* CreateMutexW makes the launch the owner only of a new mutex; one that exists
\* is waited for, free or not.
CreateMutex(p) ==
    /\ pc[p] = "mutex"
    /\ \/ /\ handle' = handle \union {p}
          /\ IF handle = {} THEN mutex' = p /\ Goto(p, "find")
             ELSE UNCHANGED mutex /\ Goto(p, "wait")
          /\ UNCHANGED faults
       \/ Fault /\ Goto(p, "find") /\ UNCHANGED lock
    /\ UNCHANGED <<identity, window, search>>

\* The wait ends with the mutex, abandoned or not, or after 500 ms without it:
\* the launch then goes on unlocked.
AcquireMutex(p) ==
    /\ pc[p] = "wait"
    /\ Goto(p, "find")
    /\ \/ mutex = Nobody /\ mutex' = p /\ UNCHANGED <<handle, faults>>
       \/ Fault /\ handle' = handle \ {p} /\ UNCHANGED mutex
    /\ UNCHANGED <<identity, window, search>>

\* Mutant of Released: the mutex is released and its handle stays open.
ReleasedOnly(p) == mutex' = (IF mutex = p THEN Nobody ELSE mutex) /\ UNCHANGED handle
Released(p) == /\ mutex' = IF mutex = p THEN Nobody ELSE mutex
               /\ handle' = handle \ {p}

-----------------------------------------------------------------------------
(* activate_authenticated_instance                                         *)

SameInstance(p, q) == identity[p] = identity[q]     \* same_instance_identity
StillBound(q) == q \in window /\ Running(q)         \* is_still_bound

\* FindWindowExW: the next window with the title; without one the launch goes on.
\* A window of another identity, or one that is gone, is passed over.
Find(p) ==
    LET next == window \ (seen[p] \union {p}) IN
    /\ pc[p] = "find"
    /\ IF next = {} THEN Goto(p, "start") /\ UNCHANGED search
       ELSE \E q \in next :
              /\ seen' = [seen EXCEPT ![p] = @ \union {q}]
              /\ IF SameInstance(p, q) /\ StillBound(q)
                 THEN /\ candidate' = [candidate EXCEPT ![p] = q]
                      /\ answer' = [answer EXCEPT ![p] = "none"]
                      /\ Goto(p, "send")
                 ELSE UNCHANGED <<pc, candidate, answer>>
    /\ UNCHANGED <<identity, window, lock, faults>>

\* main_window_proc returns PWM_ACTIVATE as its value.  It is a dialog procedure:
\* for this message the dialog manager answers the sender with DWLP_MSGRESULT,
\* which the branch does not set, unlike the one for WM_NCHITTEST.
DialogResult == "zero"

\* The window's thread answers while it handles messages; also while it closes,
\* as WM_DESTROY waits for other threads and windows.
Answer(p) ==
    /\ pc[p] = "send" /\ answer[p] = "none"
    /\ pc[candidate[p]] \in {"shown", "closing"} /\ candidate[p] \in window
    /\ answer' = [answer EXCEPT ![p] = DialogResult]
    /\ UNCHANGED <<pc, identity, window, lock, candidate, seen, faults>>

\* SendMessageTimeoutW returns; the answer counts if it is the message and the
\* window still belongs to the process.  The other enumerated windows follow.
Sent(p) ==
    LET q == candidate[p] IN
    /\ pc[p] = "send"
    /\ \/ answer[p] # "none" /\ UNCHANGED faults
       \/ q \notin window /\ UNCHANGED faults
       \/ answer[p] = "none" /\ Fault               \* hung, or too late
    /\ IF answer[p] = "PWM_ACTIVATE" /\ StillBound(q)
       THEN Goto(p, "gone") /\ Released(p)
       ELSE Goto(p, "find") /\ UNCHANGED lock
    /\ UNCHANGED <<identity, window, search>>

-----------------------------------------------------------------------------
(* The rest of run_main                                                    *)

\* The policy, the common controls, the resources, the sampler or the dialog
\* may fail; each of these returns releases the mutex.
StartFails(p) ==
    /\ pc[p] = "start" /\ Fault
    /\ Goto(p, "gone") /\ Released(p)
    /\ UNCHANGED <<identity, window, search>>

CreateWindow(p) ==
    /\ pc[p] = "start"
    /\ window' = window \union {p}
    /\ Goto(p, "created")
    /\ UNCHANGED <<identity, lock, search, faults>>

ShowWindow(p) ==
    /\ pc[p] = "created"
    /\ Goto(p, "shown") /\ Released(p)
    /\ UNCHANGED <<identity, window, search, faults>>

\* relaunch_detailed: the replacement runs before this window is destroyed.
Restart(p) ==
    /\ pc[p] = "shown"
    /\ \E q \in Launches :
         /\ pc[q] = "none" /\ identity[q] = identity[p]
         /\ pc' = [pc EXCEPT ![p] = "closing", ![q] = "mutex"]
    /\ UNCHANGED <<identity, window, lock, search, faults>>

Close(p) ==
    /\ pc[p] = "shown"
    /\ Goto(p, "closing")
    /\ UNCHANGED <<identity, window, lock, search, faults>>

Destroyed(p) ==
    /\ pc[p] = "closing"
    /\ window' = window \ {p}
    /\ Goto(p, "gone")
    /\ UNCHANGED <<identity, lock, search, faults>>

\* The process is ended at any point: its handles and its window go, and a mutex
\* it owned is abandoned.
Killed(p) ==
    /\ Running(p) /\ Fault
    /\ Goto(p, "gone") /\ Released(p)
    /\ window' = window \ {p}
    /\ UNCHANGED <<identity, search>>

Step(p) == \/ Launch(p) \/ CreateMutex(p) \/ AcquireMutex(p)
           \/ Find(p) \/ Answer(p) \/ Sent(p)
           \/ StartFails(p) \/ CreateWindow(p) \/ ShowWindow(p)
           \/ Restart(p) \/ Close(p) \/ Destroyed(p) \/ Killed(p)
Next == \E p \in Launches : Step(p)
Spec == Init /\ [][Next]_vars

-----------------------------------------------------------------------------
\* The mutex covers the search and the creation of the window and nothing more:
\* a running instance never holds it, and without faults two launches are never
\* both between the search and the window (run_main, acquire_startup_mutex).
MutexCoversTheStart ==
    /\ \A p \in Launches : (mutex = p \/ p \in handle) =>
         pc[p] \in {"wait", "find", "send", "start", "created"}
    /\ faults = 0 =>
         Cardinality({p \in Launches : pc[p] \in {"find", "send", "start", "created"}}) <= 1

\* A launch whose PWM_ACTIVATE a running instance of the same identity has
\* answered does not go on to a second window (run_main, "single-instance check").
AnsweredLaunchGivesWay ==
    \A p \in Launches :
      pc[p] \in {"start", "created", "shown"} =>
        \A q \in seen[p] : ~(pc[q] = "shown" /\ SameInstance(p, q) /\ answer[p] # "none"
                             /\ candidate[p] = q)
=============================================================================
