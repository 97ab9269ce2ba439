---------------------------- MODULE DiagnosticLog ----------------------------
(***************************************************************************)
(* The diagnostic log of src/infrastructure/diagnostics/mod.rs: threads    *)
(* that record events, the two bounded lanes, the control channel, the     *)
(* writer thread with its log file, flush and shutdown.                    *)
(*                                                                         *)
(* A record is its number, in the order of building, and its lane: Warn    *)
(* and Error take the priority lane, the rest the regular one.  Sizes are  *)
(* counted in records.  What retention does during a rotation is the       *)
(* subject of LogRetention; here a rotation succeeds or fails.             *)
(***************************************************************************)
EXTENDS Naturals, Sequences, FiniteSets, SequencesExt

CONSTANTS
    Threads,        \* the threads that record, one of which may flush
    MaxRecords,     \* bound: records built
    RegularCap, PriorityCap, ControlCap,    \* *_QUEUE_CAPACITY
    PartLimit,      \* LOG_PART_LIMIT_BYTES, in records
    MaxFaults,      \* bound: file operations that fail
    MaxFlushes      \* bound: calls of flush

Lanes == {"regular", "priority"}
NoRecord == [id |-> 0, lane |-> "regular"]
Callers == Threads \union {"main"}  \* main calls shutdown

VARIABLES
    thread,         \* where each caller is
    holding,        \* the record a thread is sending
    built, flushes, faults,     \* counters behind the bounds
    lane,           \* the records in each bounded channel
    control,        \* the commands queued for the writer, oldest first
    command,        \* the command the writer handles
    writer,         \* where the writer thread is
    sink,           \* FileSink: whether there is one, its part, bytes_written
    file,           \* the lines written, over all parts
    sequence,       \* SharedState::sequence
    dropped,        \* dropped_regular, dropped_priority
    droppedTotal,
    shutdown,       \* SharedState::shutdown
    reply,          \* what each caller's reply channel holds
    promised        \* history: the records in a lane when a command was queued

producers == <<thread, holding, built, flushes>>
log == <<sink, file, sequence>>
counts == <<dropped, droppedTotal>>
vars == <<producers, faults, lane, control, command, writer, log, counts,
          shutdown, reply, promised>>

\* WriterControl, and who waits for its answer: "nobody" after a timeout.
NoCommand == [kind |-> "flush", to |-> "nobody"]

Init ==
    /\ thread = [t \in Callers |-> "idle"]
    /\ holding = [t \in Threads |-> NoRecord]
    /\ built = 0 /\ flushes = 0 /\ faults = 0
    /\ lane = [l \in Lanes |-> <<>>]
    /\ control = <<>> /\ command = NoCommand
    \* the writer may not start, and there may be no file
    /\ writer \in {"control", "gone"}
    /\ \E open \in BOOLEAN : sink = [active |-> open /\ writer # "gone", part |-> 0, bytes |-> 0]
    /\ file = <<>> /\ sequence = 0
    /\ dropped = [l \in Lanes |-> 0] /\ droppedTotal = 0
    /\ shutdown = FALSE
    /\ reply = [t \in Callers |-> "none"]
    /\ promised = [t \in Callers |-> {}]

CapOf(l) == IF l = "priority" THEN PriorityCap ELSE RegularCap

-----------------------------------------------------------------------------
(* Recording an event: event_with, build_record, enqueue.                  *)

Goto(t, place) == thread' = [thread EXCEPT ![t] = place]

\* enqueue reads the shutdown flag first, and sends later; after shutdown the
\* event is ignored.
BeginRecord(t) ==
    /\ thread[t] = "idle" /\ built < MaxRecords /\ ~shutdown
    /\ built' = built + 1
    /\ \E l \in Lanes : holding' = [holding EXCEPT ![t] = [id |-> built + 1, lane |-> l]]
    /\ Goto(t, "send")
    /\ UNCHANGED <<flushes, faults, lane, control, command, writer, log, counts,
                   shutdown, reply, promised>>

\* try_send fails when the channel is full or its receiver is gone.
Takes(l) == Len(lane[l]) < CapOf(l) /\ writer # "gone"

TrySend(t) ==
    LET r == holding[t] IN
    /\ thread[t] = "send"
    /\ IF Takes(r.lane)
       THEN /\ lane' = [lane EXCEPT ![r.lane] = Append(@, r)]
            /\ Goto(t, "idle")
            /\ UNCHANGED dropped
       ELSE /\ dropped' = [dropped EXCEPT ![r.lane] = @ + 1]
            /\ Goto(t, "count")
            /\ UNCHANGED lane
    /\ holding' = [holding EXCEPT ![t] = NoRecord]
    /\ UNCHANGED <<built, flushes, faults, control, command, writer, log,
                   droppedTotal, shutdown, reply, promised>>

\* The total is a second counter, added to after the first.
CountDrop(t) ==
    /\ thread[t] = "count"
    /\ droppedTotal' = droppedTotal + 1
    /\ Goto(t, "idle")
    /\ UNCHANGED <<holding, built, flushes, faults, lane, control, command, writer,
                   log, dropped, shutdown, reply, promised>>

-----------------------------------------------------------------------------
(* Commands to the writer.  The control channel holds at most ControlCap;  *)
(* send_timeout and recv_timeout give up after CONTROL_TIMEOUT.            *)

InLanes == UNION {{lane[l][i].id : i \in DOMAIN lane[l]} : l \in Lanes}

CallFlush(t) ==
    /\ thread[t] = "idle" /\ flushes < MaxFlushes
    /\ flushes' = flushes + 1
    /\ Goto(t, "command")
    /\ UNCHANGED <<holding, built, faults, lane, control, command, writer, log, counts,
                   shutdown, reply, promised>>

SendCommand(t) ==
    /\ thread[t] = "command"
    /\ Len(control) < ControlCap /\ writer # "gone"
    /\ control' = Append(control, [kind |-> IF t = "main" THEN "shutdown" ELSE "flush",
                                   to |-> t])
    /\ promised' = [promised EXCEPT ![t] = InLanes]
    /\ Goto(t, "wait")
    /\ UNCHANGED <<holding, built, flushes, faults, lane, command, writer, log, counts,
                   shutdown, reply>>

Return(t) == /\ Goto(t, IF t = "main" THEN "join" ELSE "idle")
             /\ promised' = [promised EXCEPT ![t] = IF t = "main" THEN @ ELSE {}]
             /\ UNCHANGED <<holding, built, flushes, faults, lane, writer, log, counts,
                            shutdown>>

\* The channel stays full, or has no receiver: the command is dropped.
Refused(t) ==
    /\ thread[t] = "command"
    /\ Len(control) = ControlCap \/ writer = "gone"
    /\ Return(t)
    /\ reply' = [reply EXCEPT ![t] = IF t = "main" THEN "refused" ELSE "none"]
    /\ UNCHANGED <<control, command>>

\* recv returns the reply; a reply channel without a sender fails at once.
Answered(t) ==
    /\ thread[t] = "wait" /\ reply[t] # "none"
    /\ Return(t)
    /\ reply' = [reply EXCEPT ![t] = "none"]
    /\ UNCHANGED <<control, command>>

\* The receiver of the reply is dropped; the command stays with the writer.
TimedOut(t) ==
    LET Orphan(c) == IF c.to = t THEN [c EXCEPT !.to = "nobody"] ELSE c IN
    /\ thread[t] = "wait" /\ reply[t] = "none"
    /\ Return(t)
    /\ control' = [i \in DOMAIN control |-> Orphan(control[i])]
    /\ command' = Orphan(command)
    /\ UNCHANGED reply

\* shutdown: the flag is set after its own event has been recorded; that event
\* is one more record of the thread, and is left to the Threads.
BeginShutdown ==
    /\ thread["main"] = "idle" /\ ~shutdown
    /\ shutdown' = TRUE
    /\ Goto("main", "command")
    /\ UNCHANGED <<holding, built, flushes, faults, lane, control, command, writer, log,
                   counts, reply, promised>>

\* join has no timeout.
Join ==
    /\ thread["main"] = "join"
    /\ writer = "gone"
    /\ Goto("main", "stopped")
    /\ UNCHANGED <<holding, built, flushes, faults, lane, control, command, writer, log,
                   counts, shutdown, reply, promised>>

-----------------------------------------------------------------------------
(* The log file.                                                           *)

\* write_line starts another part when the record does not fit.
NextPart == IF sink.bytes # 0 /\ sink.bytes + 1 > PartLimit
            THEN [active |-> TRUE, part |-> sink.part + 1, bytes |-> 1]
            ELSE [sink EXCEPT !.bytes = @ + 1]

\* disable_sink drops the file for good.
DisableSink == sink' = [sink EXCEPT !.active = FALSE]
Fault == faults < MaxFaults /\ faults' = faults + 1

\* The persisted sequence is taken immediately before the line is written.
WriteLine(r) ==
    /\ sequence' = sequence + 1
    /\ sink' = NextPart
    /\ file' = Append(file, [seq |-> sequence', what |-> r, part |-> NextPart.part])
    /\ UNCHANGED faults

\* write_record: without a sink the record is discarded, uncounted.
WriteRecord(r) ==
    \/ ~sink.active /\ UNCHANGED <<log, faults>>
    \/ sink.active /\ WriteLine(r)
    \/ sink.active /\ Fault /\ DisableSink /\ sequence' = sequence + 1 /\ UNCHANGED file

\* A Warn record is flushed at once, and a failed flush drops the file too.
WriteAndFlush(r) ==
    \/ WriteRecord(r)
    \/ /\ sink.active /\ Fault
       /\ sequence' = sequence + 1
       /\ sink' = [NextPart EXCEPT !.active = FALSE]
       /\ file' = Append(file, [seq |-> sequence', what |-> r, part |-> NextPart.part])

DropCount == dropped["regular"] + dropped["priority"]

Taken == [l \in Lanes |-> 0]

\* report_dropped_events: both counters are taken and written as one record.
ReportDropped(flushed) ==
    IF DropCount = 0 THEN UNCHANGED <<log, faults, dropped>>
    ELSE /\ dropped' = Taken
         /\ IF flushed THEN WriteAndFlush([count |-> DropCount])
            ELSE WriteRecord([count |-> DropCount])

\* flush_sink on its own: the file cannot be synced.
SyncFails == sink.active /\ Fault /\ DisableSink

-----------------------------------------------------------------------------
(* writer_loop.  select_biased! looks at the channels in order; between two *)
(* looks the other threads may send.                                        *)

WriterUnchanged == UNCHANGED <<producers, control, counts, shutdown, promised>>

PollControl ==
    /\ writer = "control"
    /\ IF control = <<>> THEN writer' = "priority" /\ UNCHANGED <<control, command>>
       ELSE /\ command' = Head(control) /\ control' = Tail(control)
            /\ writer' = "drain-priority"
    /\ UNCHANGED <<producers, faults, lane, log, counts, shutdown, reply, promised>>

PollPriority ==
    /\ writer = "priority"
    /\ IF lane["priority"] = <<>> THEN writer' = "regular" /\ UNCHANGED <<lane, log, faults>>
       ELSE /\ WriteAndFlush(Head(lane["priority"]))
            /\ lane' = [lane EXCEPT !["priority"] = Tail(@)]
            /\ writer' = "control"
    /\ UNCHANGED <<command, reply>> /\ WriterUnchanged

PollRegular ==
    /\ writer = "regular"
    /\ IF lane["regular"] = <<>> THEN writer' = "tick" /\ UNCHANGED <<lane, log, faults>>
       ELSE /\ WriteRecord(Head(lane["regular"]))
            /\ lane' = [lane EXCEPT !["regular"] = Tail(@)]
            /\ writer' = "control"
    /\ UNCHANGED <<command, reply>> /\ WriterUnchanged

\* The ticker fires, reports and flushes, or something arrives while the writer
\* waits for it.
PollTicker ==
    /\ writer = "tick"
    /\ writer' = "control"
    /\ \/ ReportDropped(TRUE)
       \/ DropCount = 0 /\ SyncFails /\ UNCHANGED <<file, sequence, dropped>>
       \/ UNCHANGED <<log, faults, dropped>>
    /\ UNCHANGED <<producers, lane, control, command, droppedTotal, shutdown, reply, promised>>

\* A command first empties the priority lane, then the regular one: try_iter
\* goes on until the lane is empty.
Drain(l, place, after) ==
    /\ writer = place
    /\ IF lane[l] = <<>> THEN writer' = after /\ UNCHANGED <<lane, log, faults>>
       ELSE /\ WriteRecord(Head(lane[l]))
            /\ lane' = [lane EXCEPT ![l] = Tail(@)]
            /\ UNCHANGED writer
    /\ UNCHANGED <<command, reply>> /\ WriterUnchanged

\* Mutant of DrainRegular: a command empties the priority lane only.
DrainNothing == writer = "drain-regular" /\ writer' = "report"
                /\ UNCHANGED <<lane, log, faults, command, reply>> /\ WriterUnchanged

DrainPriority == Drain("priority", "drain-priority", "drain-regular")
DrainRegular == Drain("regular", "drain-regular", "report")

Report ==
    /\ writer = "report"
    /\ ReportDropped(FALSE)
    /\ writer' = "finish"
    /\ UNCHANGED <<producers, lane, control, command, droppedTotal, shutdown, reply, promised>>

Tell(answer) == reply' = [t \in Callers |-> IF command.to = t THEN answer ELSE reply[t]]

\* The reply to a flush says whether the file is there and could be synced.
FinishFlush ==
    /\ writer = "finish" /\ command.kind = "flush"
    /\ \/ Tell(IF sink.active THEN "ok" ELSE "failed") /\ UNCHANGED <<sink, faults>>
       \/ SyncFails /\ Tell("failed")
    /\ command' = NoCommand /\ writer' = "control"
    /\ UNCHANGED <<producers, lane, control, file, sequence, counts, shutdown, promised>>

\* Mutant of FinishShutdown: the loop goes on after the answer.
FinishShutdownGoesOn ==
    /\ writer = "finish" /\ command.kind = "shutdown"
    /\ Tell("ok")
    /\ command' = NoCommand /\ writer' = "control"
    /\ UNCHANGED <<producers, faults, lane, control, log, counts, shutdown, promised>>

FinishShutdown ==
    /\ writer = "finish" /\ command.kind = "shutdown"
    /\ Tell("ok")
    /\ SyncFails \/ UNCHANGED <<sink, faults>>
    /\ command' = NoCommand /\ writer' = "ending"
    /\ UNCHANGED <<producers, lane, control, file, sequence, counts, shutdown, promised>>

\* The receivers go with the thread: records still in a lane are lost, and
\* callers still queued find their reply channel closed.
EndWriter ==
    /\ writer = "ending"
    /\ writer' = "gone"
    /\ lane' = [l \in Lanes |-> <<>>]
    /\ reply' = [t \in Callers |->
                   IF \E i \in DOMAIN control : control[i].to = t THEN "closed" ELSE reply[t]]
    /\ control' = <<>>
    /\ UNCHANGED <<producers, faults, command, log, counts, shutdown, promised>>

WriterStep == PollControl \/ PollPriority \/ PollRegular \/ PollTicker
              \/ DrainPriority \/ DrainRegular \/ Report
              \/ FinishFlush \/ FinishShutdown \/ EndWriter

Next == \/ WriterStep
        \/ \E t \in Threads : BeginRecord(t) \/ TrySend(t) \/ CountDrop(t) \/ CallFlush(t)
        \/ \E t \in Callers : SendCommand(t) \/ Refused(t) \/ Answered(t) \/ TimedOut(t)
        \/ BeginShutdown \/ Join

\* The writer and a thread inside enqueue or a command are ordinary running
\* threads, and a send that cannot succeed ends by its timeout.  An answer need
\* not time out; no new event and no file fault has to happen.
Fairness ==
    /\ WF_vars(WriterStep)
    /\ \A t \in Threads : WF_vars(TrySend(t) \/ CountDrop(t))
    /\ \A t \in Callers : WF_vars(SendCommand(t) \/ Refused(t) \/ Answered(t))
    /\ WF_vars(Join)

Spec == Init /\ [][Next]_vars /\ Fairness

-----------------------------------------------------------------------------
Written == {file[i].what.id : i \in {j \in DOMAIN file : "id" \in DOMAIN file[j].what}}

\* A flush that reports success has put every record a lane had taken when it
\* was requested into the file, whichever thread recorded it: the writer drains
\* both lanes before it answers (writer_loop, WriterControl::Flush).
FlushKeepsItsPromise ==
    \A t \in Threads : reply[t] = "ok" => promised[t] \subseteq Written

\* When shutdown has ended the writer and the file was never lost, the log
\* holds every record taken before the command; only records sent during the
\* shutdown may be missing (WriterControl::Shutdown).
ShutdownSavesTheLog ==
    thread["main"] = "stopped" /\ sink.active => promised["main"] \subseteq Written

CountOf(line) == IF "count" \in DOMAIN line.what THEN line.what.count ELSE 0
ReportedIn == FoldLeft(LAMBDA sum, line : sum + CountOf(line), 0, file)

\* As long as there is a file, every dropped record is either told in it or
\* still counted for the next report, and the status shows the same number but
\* for threads between the two counters (enqueue, report_dropped_events).
DropsAreTold ==
    sink.active =>
      droppedTotal + Cardinality({t \in Threads : thread[t] = "count"})
        = ReportedIn + DropCount

\* Nobody waits for a writer that will not come to it: a call without an answer
\* has its command in the channel or with a writer that runs, and a shutdown that
\* joins the writer has told it to end, unless its command was refused, also if
\* it has given up waiting for the answer (flush, shutdown).
EveryWaitIsHeard ==
    /\ \A t \in Callers : thread[t] = "wait" /\ reply[t] = "none" =>
         /\ writer # "gone"
         /\ command.to = t \/ \E i \in DOMAIN control : control[i].to = t
    /\ thread["main"] = "join" /\ reply["main"] # "refused" =>
         \/ writer \in {"ending", "gone"} \/ command.kind = "shutdown"
         \/ \E i \in DOMAIN control : control[i].kind = "shutdown"

\* The lines of the log are numbered without gaps in the order they are in,
\* over both lanes and all parts, and no record is written twice (write_record).
SequenceFollowsTheLines ==
    \A i \in DOMAIN file :
      /\ file[i].seq = i
      /\ \A j \in 1..i - 1 : file[j].what # file[i].what \/ "count" \in DOMAIN file[i].what

=============================================================================
