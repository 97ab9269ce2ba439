----------------------------- MODULE LogRetention -----------------------------
(***************************************************************************)
(* The directories of the diagnostic log (infrastructure/diagnostics/      *)
(* mod.rs, prepare_directories_from_candidates, cleanup_retention_in,      *)
(* FileSink::open and rotate; infrastructure/diagnostics/secure_fs.rs).    *)
(* Every start of the program makes a session, before it looks for another *)
(* instance; several processes clean the same root at the same time.       *)
(*                                                                         *)
(* Sizes are in parts' shares: a session grows by 1 per write.  The        *)
(* preferred root is 1, the fallback under %TEMP% is 2.                    *)
(***************************************************************************)
EXTENDS Naturals, FiniteSets, FiniteSetsExt

CONSTANTS
    Processes,      \* processes that can exist at one time
    Sessions,       \* bound: the names of all sessions ever made, numbers from 1
    SessionLimit,   \* LOG_SESSION_LIMIT
    RootLimit,      \* LOG_ROOT_LIMIT_BYTES
    PartLimit,      \* LOG_PART_LIMIT_BYTES, at most RootLimit
    MaxFaults       \* bound: file operations that fail for another reason

ASSUME RetentionAssumption ==
    /\ SessionLimit \in Nat \ {0} /\ RootLimit \in Nat
    /\ PartLimit \in Nat /\ PartLimit <= RootLimit

Roots == {1, 2}
None == 0       \* no session has this name

VARIABLES
    fs,             \* the sessions on disk: their root, size and write time
    used,           \* names given so far
    clock,          \* write times
    process,        \* each process: where it is, its root, session and part
    work,           \* its cleanup: snapshot, what is left to look at, totals
    faults,
    alone           \* history: no other process has run since it started

vars == <<fs, used, clock, process, work, faults, alone>>

NoProcess == [pc |-> "none", root |-> 1, own |-> None, holds |-> FALSE, bytes |-> 0,
              failed |-> FALSE]
NoWork == [todo |-> {}, count |-> 0, total |-> 0, limit |-> 0]
Live(p) == process[p].pc # "none"

SizeOf(sessions) == MapThenSumSet(LAMBDA s : s.size, sessions)
InRoot(r) == {s \in DOMAIN fs : fs[s].root = r}
Snapshot(r) == {[name |-> s, size |-> fs[s].size, stamp |-> fs[s].stamp] : s \in InRoot(r)}

\* SecureDirectory shares its handles for reading and writing only: a directory
\* that anybody holds cannot be opened for deletion.
Held(s) == \E p \in Processes : process[p].own = s /\ process[p].holds

Init ==
    /\ fs = [s \in {} |-> NoProcess] /\ used = {} /\ clock = 1 /\ faults = 0
    /\ process = [p \in Processes |-> NoProcess]
    /\ work = [p \in Processes |-> NoWork]
    /\ alone = [p \in Processes |-> FALSE]

Become(p, p_) == process' = [process EXCEPT ![p] = p_]
At(p, place) == process[p].pc = place
Fault == faults < MaxFaults /\ faults' = faults + 1

-----------------------------------------------------------------------------
\* main: diagnostics come before everything else.
Start(p) ==
    /\ ~Live(p)
    /\ Become(p, [NoProcess EXCEPT !.pc = "root"])
    /\ alone' = [q \in Processes |-> q = p /\ \A o \in Processes \ {p} : ~Live(o)]
    /\ UNCHANGED <<fs, used, clock, work, faults>>

\* open_or_create_absolute of the candidate; cleanup_retention_in begins with a
\* listing, with the sizes at that time.  Without any root there is no log.
List(p, limit, place) ==
    LET all == Snapshot(process[p].root) IN
    /\ work' = [work EXCEPT ![p] = [todo |-> all, count |-> Cardinality(all),
                                    total |-> SizeOf(all), limit |-> limit]]
    /\ Become(p, [process[p] EXCEPT !.pc = place])

NextRoot(p) == IF process[p].root = 1 THEN [process[p] EXCEPT !.pc = "root", !.root = 2]
               ELSE [process[p] EXCEPT !.pc = "run"]

OpenRoot(p) ==
    /\ At(p, "root")
    /\ \/ List(p, RootLimit, "clean-before") /\ UNCHANGED faults
       \/ Fault /\ Become(p, NextRoot(p)) /\ UNCHANGED work
    /\ UNCHANGED <<fs, used, clock, alone>>

-----------------------------------------------------------------------------
\* cleanup_retention_in: the oldest session of the listing goes first, the own
\* one is skipped, and an error ends the cleanup.
Cleaning(p) == process[p].pc \in {"clean-before", "clean-after", "clean-rotate"}
Enough(w) == w.count <= SessionLimit /\ w.total <= w.limit
Oldest(w) == CHOOSE s \in w.todo : \A t \in w.todo : s.stamp <= t.stamp
Skip(p, s) == s.name = process[p].own
\* Mutant of CanDelete: the handles share deletion.
CanDeleteShared(s) == s \in DOMAIN fs
CanDelete(s) == s \in DOMAIN fs /\ ~Held(s)

\* What follows a cleanup: before the session is made and after it, an error is
\* only recorded; in a rotation it loses the file.
After(p, ok) ==
    CASE At(p, "clean-before") -> [process[p] EXCEPT !.pc = "create"]
      [] At(p, "clean-after") -> [process[p] EXCEPT !.pc = "open", !.holds = FALSE]
      [] At(p, "clean-rotate") ->
           IF ok THEN [process[p] EXCEPT !.pc = "size"]
           ELSE [process[p] EXCEPT !.pc = "run", !.holds = FALSE, !.failed = TRUE]

CleanDone(p) ==
    /\ Cleaning(p)
    /\ Enough(work[p]) \/ work[p].todo = {}
    /\ Become(p, After(p, TRUE))
    /\ work' = [work EXCEPT ![p] = NoWork]
    /\ UNCHANGED <<fs, used, clock, faults, alone>>

SkipOwn(p) ==
    /\ Cleaning(p) /\ ~Enough(work[p]) /\ work[p].todo # {}
    /\ Skip(p, Oldest(work[p]))
    /\ work' = [work EXCEPT ![p].todo = @ \ {Oldest(work[p])}]
    /\ UNCHANGED <<fs, used, clock, process, faults, alone>>

DeleteOldest(p) ==
    LET s == Oldest(work[p]) IN
    /\ Cleaning(p) /\ ~Enough(work[p]) /\ work[p].todo # {}
    /\ ~Skip(p, s)
    /\ IF CanDelete(s.name)
       THEN /\ fs' = [t \in DOMAIN fs \ {s.name} |-> fs[t]]
            /\ work' = [work EXCEPT ![p].todo = @ \ {s}, ![p].count = @ - 1,
                                    ![p].total = @ - s.size]
            /\ UNCHANGED process
       ELSE /\ Become(p, After(p, FALSE))
            /\ work' = [work EXCEPT ![p] = NoWork]
            /\ UNCHANGED fs
    /\ UNCHANGED <<used, clock, faults, alone>>

\* The listing, an entry of it or a deletion fails for another reason.
CleanFails(p) ==
    /\ Cleaning(p) /\ Fault
    /\ Become(p, After(p, FALSE))
    /\ work' = [work EXCEPT ![p] = NoWork]
    /\ UNCHANGED <<fs, used, clock, alone>>

-----------------------------------------------------------------------------
\* create_directory under a name that is not taken; a failure moves on to the
\* fallback root.  Then the retention again, with room for one part.
CreateSession(p) ==
    /\ At(p, "create")
    /\ \/ \E s \in Sessions \ used :
            /\ \A t \in Sessions \ used : s <= t
            /\ fs' = [t \in DOMAIN fs \union {s} |->
                        IF t = s THEN [root |-> process[p].root, size |-> 0, stamp |-> clock]
                        ELSE fs[t]]
            /\ used' = used \union {s} /\ clock' = clock + 1
            /\ Become(p, [process[p] EXCEPT !.pc = "list", !.own = s, !.holds = TRUE])
            /\ UNCHANGED faults
       \/ Fault /\ Become(p, NextRoot(p)) /\ UNCHANGED <<fs, used, clock>>
    /\ UNCHANGED <<work, alone>>

\* Mutant of ListAfter: no room is reserved for the part to come.
ListAfterWholeRoot(p) ==
    /\ At(p, "list")
    /\ List(p, RootLimit, "clean-after")
    /\ UNCHANGED <<fs, used, clock, faults, alone>>

ListAfter(p) ==
    /\ At(p, "list")
    /\ List(p, RootLimit - PartLimit, "clean-after")
    /\ UNCHANGED <<fs, used, clock, faults, alone>>

\* FileSink::open: prepare_directories has closed its handle; the session is
\* opened again by its path, and held while the file is.
OpenSink(p) ==
    /\ At(p, "open")
    /\ \/ /\ process[p].own \in DOMAIN fs
          /\ Become(p, [process[p] EXCEPT !.pc = "run", !.holds = TRUE])
          /\ UNCHANGED faults
       \/ /\ process[p].own \notin DOMAIN fs /\ UNCHANGED faults
          /\ Become(p, [process[p] EXCEPT !.pc = "run", !.failed = TRUE])
       \/ Fault /\ Become(p, [process[p] EXCEPT !.pc = "run", !.failed = TRUE])
    /\ UNCHANGED <<fs, used, clock, work, alone>>

\* write_line: a full part rotates first.
Write(p) ==
    /\ At(p, "run") /\ process[p].holds
    /\ process[p].bytes < PartLimit
    /\ fs' = [fs EXCEPT ![process[p].own].size = @ + 1]
    /\ Become(p, [process[p] EXCEPT !.bytes = @ + 1])
    /\ UNCHANGED <<used, clock, work, faults, alone>>

BeginRotate(p) ==
    /\ At(p, "run") /\ process[p].holds
    /\ process[p].bytes = PartLimit
    /\ List(p, RootLimit - PartLimit, "clean-rotate")
    /\ UNCHANGED <<fs, used, clock, faults, alone>>

\* directory_size_in decides whether another part fits.
FinishRotate(p) ==
    /\ At(p, "size")
    /\ IF SizeOf(Snapshot(process[p].root)) <= RootLimit - PartLimit
       THEN /\ Become(p, [process[p] EXCEPT !.pc = "run", !.bytes = 0])
            /\ fs' = [fs EXCEPT ![process[p].own].stamp = clock]
            /\ clock' = clock + 1
       ELSE /\ Become(p, [process[p] EXCEPT !.pc = "run", !.holds = FALSE, !.failed = TRUE])
            /\ UNCHANGED <<fs, clock>>
    /\ UNCHANGED <<used, work, faults, alone>>

\* The process ends in any state; its handles close.
Exit(p) ==
    /\ Live(p)
    /\ Become(p, NoProcess)
    /\ work' = [work EXCEPT ![p] = NoWork]
    /\ alone' = [alone EXCEPT ![p] = FALSE]
    /\ UNCHANGED <<fs, used, clock, faults>>

Step(p) == \/ Start(p) \/ OpenRoot(p) \/ CleanDone(p) \/ SkipOwn(p) \/ DeleteOldest(p)
           \/ CleanFails(p) \/ CreateSession(p) \/ ListAfter(p) \/ OpenSink(p)
           \/ Write(p) \/ BeginRotate(p) \/ FinishRotate(p) \/ Exit(p)
Next == \E p \in Processes : Step(p)

Spec == Init /\ [][Next]_vars

-----------------------------------------------------------------------------
\* A process whose log file is open has its session on disk: no cleanup of its
\* own or of another process deletes it (cleanup_retention_in, SecureDirectory).
OpenLogIsKept ==
    \A p \in Processes : process[p].holds => process[p].own \in DOMAIN fs

\* A process that has run alone since its start keeps both limits from the end
\* of its startup on, whatever earlier processes left, and with the part that
\* is being written (prepare_directories, rotate).
AloneWithinTheLimits ==
    \A p \in Processes :
      (alone[p] /\ faults = 0 /\ At(p, "run") /\ process[p].holds) =>
        /\ Cardinality(InRoot(process[p].root)) <= SessionLimit
        /\ SizeOf(Snapshot(process[p].root)) <= RootLimit

\* A process that has run alone gives up its log only when its own session
\* leaves no room for another part: the others can all be deleted (rotate).
AloneNeverLosesTheLog ==
    \A p \in Processes : alone[p] /\ faults = 0 /\ process[p].failed =>
      fs[process[p].own].size + PartLimit > RootLimit

================================================================================
