------------------------------ MODULE Recording ------------------------------
(***************************************************************************)
(* `touchpadctl record` (cmd/record.rs) with the runtime's own fail-open   *)
(* step (touchpad-linux runtime.rs), the recorder (recorder.rs), the trace *)
(* writer over a BufWriter (touchpad-trace writer.rs) and the reader of    *)
(* the same file (reader.rs).                                              *)
(*                                                                         *)
(* The file is a sequence of pieces of lines: a line is the two halves of  *)
(* its JSON object and a line feed, so that a write that stops half way, a *)
(* buffer that is full between an object and its line feed, and a reader   *)
(* that looks in between are all visible.  `written` is what write_all     *)
(* took, `onDisk` how much of it has reached the file; the rest is in the  *)
(* BufWriter and dies with the process.  Lines differ in length, so        *)
(* whether a chunk still fits the buffer is a choice.                      *)
(*                                                                         *)
(* The decoder's effect on the command is three outcomes per event: it     *)
(* goes on, it has just resynchronised, it fails (TypeBDecoder has it      *)
(* whole).  An event is its delivery number and its time stamp.            *)
(***************************************************************************)
EXTENDS Naturals, Sequences

CONSTANTS
  MaxEvents,   \* bound: events the device delivers
  MaxTime,     \* bound: time stamps are 1..MaxTime
  MaxBatch     \* bound: events returned by one read

ASSUME RecordingAssumption ==
  MaxEvents \in Nat /\ MaxTime \in Nat \ {0} /\ MaxBatch \in Nat \ {0}

VARIABLES
  wantGrab,    \* --grab
  pc,          \* the call the command is about to make
  reason,      \* StopReason handed to finalize
  failed,      \* cleanup steps of the ShutdownReport that are Err
  exit,        \* the command's result, "none" until it is decided
  stop, eintr, \* termination flag; the blocked read was interrupted
  available,   \* the kernel has events for the next read
  delivered,   \* every event a read returned
  batch, at,   \* the current batch and the event being recorded or fed
  lastTime,    \* runtime.last_timestamp, 0 before the first event
  drained,     \* history: a resync threw the rest of a batch away
  fd, grabbed, \* DeviceHandle
  recorder,    \* "none", "local" to the command, "attached", "gone"
  poisoned,    \* TraceWriter
  exists, written, onDisk,     \* the trace file, see above
  readerState, position, yielded, late   \* a TraceReader; it began after the end

command == <<wantGrab, reason, failed, exit>>
signals == <<stop, eintr>>
input   == <<available, delivered, batch, at, lastTime, drained>>
device  == <<fd, grabbed>>
trace   == <<exists, written, onDisk>>
writer  == <<recorder, poisoned>>
reader  == <<readerState, position, yielded, late>>
vars == <<pc, command, signals, input, device, trace, writer, reader>>

Unrepresentable == 0            \* a negative or overflowing timeval
Events == [id : 1..MaxEvents, time : 0..MaxTime]
Header == [id |-> 0, time |-> 0]
Piece == [part : {"head", "tail", "feed"}, of : Events \cup {Header}]

Json(item) == <<[part |-> "head", of |-> item], [part |-> "tail", of |-> item]>>
LineFeed == [part |-> "feed", of |-> Header]

Points == {"warn", "open", "create", "flush", "grab", "banner", "loop", "step",
           "read", "record", "newline", "feed", "finish", "drop", "ungrab", "close",
           "report", "done", "killed"}
StopReasons == {"none", "Signal", "Stream", "Recorder", "GrabFailed"}
Results == {"none", "Open", "Unexpected", "Recorder", "RecorderFinalize",
            "DeviceRelease", "Stream", "Stopped"}

Ended == pc \in {"done", "killed"}

Init ==
  /\ wantGrab \in BOOLEAN /\ pc = "warn" /\ reason = "none" /\ failed = {}
  /\ exit = "none" /\ stop = FALSE /\ eintr = FALSE
  /\ available = FALSE /\ delivered = <<>> /\ batch = <<>> /\ at = 1
  /\ lastTime = 0 /\ drained = FALSE
  /\ fd = "none" /\ grabbed = FALSE
  /\ recorder = "none" /\ poisoned = FALSE
  /\ exists = FALSE /\ written = <<>> /\ onDisk = 0
  /\ readerState = "AwaitingHeader" /\ position = 0 /\ yielded = <<>>
  /\ late = FALSE

-----------------------------------------------------------------------------
(* Control transfers.                                                      *)

Goto(next) == pc' = next /\ UNCHANGED command

\* Finalization begins: recorder, then device.
Finalize(why) ==
  /\ pc' = "finish" /\ reason' = why /\ UNCHANGED <<wantGrab, failed, exit>>

\* An early return: locals are dropped in the order given by `next`.
Leave(result, next) ==
  /\ pc' = next /\ exit' = result /\ UNCHANGED <<wantGrab, reason, failed>>

-----------------------------------------------------------------------------
(* BufWriter.                                                              *)

\* write_all of a chunk: it fits, or the buffer is flushed first.
Take(chunk) ==
  /\ written' = written \o chunk
  /\ onDisk' \in {onDisk, Len(written)}

\* The flush before it fails part way: the chunk is not taken.
Refuse ==
  /\ onDisk < Len(written)
  /\ onDisk' \in onDisk..(Len(written) - 1) /\ UNCHANGED written

Flushed   == onDisk' = Len(written) /\ UNCHANGED written
Unflushed == Refuse

-----------------------------------------------------------------------------
(* Preparation.                                                            *)

Warn ==
  /\ pc = "warn"
  /\ \/ Goto("open")
     \/ wantGrab /\ Leave("Unexpected", "done")
  /\ UNCHANGED <<signals, input, device, trace, writer, reader>>

Open ==
  /\ pc = "open"
  /\ \/ fd' = "open" /\ Goto("create")
     \/ fd' = "none" /\ Leave("Open", "done")
  /\ UNCHANGED <<signals, input, grabbed, trace, writer, reader>>

\* File::create, then the header into the empty buffer.
Create ==
  /\ pc = "create"
  /\ \/ /\ exists' = TRUE /\ written' = Json(Header) \o <<LineFeed>>
        /\ recorder' = "local" /\ Goto("flush")
     \/ UNCHANGED <<exists, written, recorder>> /\ Leave("Recorder", "ungrab")
  /\ UNCHANGED <<signals, input, device, onDisk, poisoned, reader>>

HeaderProven == onDisk' = Len(written)

FlushHeader ==
  /\ pc = "flush"
  /\ Flushed \/ Unflushed
  /\ IF HeaderProven
     THEN recorder' = "attached" /\ Goto("grab")
     ELSE UNCHANGED recorder /\ Leave("Recorder", "drop")
  /\ UNCHANGED <<signals, input, device, exists, poisoned, reader>>

Grab ==
  /\ pc = "grab"
  /\ \/ ~wantGrab /\ Goto("banner") /\ UNCHANGED grabbed
     \/ wantGrab /\ grabbed' = TRUE /\ Goto("banner")
     \/ wantGrab /\ Finalize("GrabFailed") /\ UNCHANGED grabbed
  /\ UNCHANGED <<signals, input, fd, trace, writer, reader>>

Banner ==
  /\ pc = "banner"
  /\ Goto("loop") \/ Leave("Unexpected", "finish")
  /\ UNCHANGED <<signals, input, device, trace, writer, reader>>

-----------------------------------------------------------------------------
(* The read loop and EvdevRuntime::step.                                   *)

StopIgnored == FALSE           \* mutant: only an interrupted read stops
StopSeen == stop

Loop ==
  /\ pc = "loop"
  /\ IF StopSeen THEN Finalize("Signal") ELSE Goto("step")
  /\ UNCHANGED <<signals, input, device, trace, writer, reader>>

\* Between the check and read(2): from here on only EINTR or input wakes it.
Step ==
  /\ pc = "step" /\ Goto("read")
  /\ UNCHANGED <<signals, input, device, trace, writer, reader>>

Batches ==
  UNION {{[i \in 1..n |-> [id |-> Len(delivered) + i, time |-> stamp[i]]] :
             stamp \in [1..n -> 0..MaxTime]} :
           n \in {k \in 1..MaxBatch : Len(delivered) + k <= MaxEvents}}

Read ==
  /\ pc = "read" /\ available
  /\ batch' \in Batches /\ at' = 1
  /\ delivered' = delivered \o batch'
  /\ available' = FALSE /\ eintr' = FALSE
  /\ Goto("record")
  /\ UNCHANGED <<stop, lastTime, drained, device, trace, writer, reader>>

\* EINTR after a stop request: the device is left to shutdown().
ReadInterrupted ==
  /\ pc = "read" /\ eintr /\ eintr' = FALSE
  /\ Finalize("Signal")
  /\ UNCHANGED <<stop, input, device, trace, writer, reader>>

\* The device is gone, a partial event, or EINTR for another signal.
ReadFails ==
  /\ pc = "read" /\ eintr' = FALSE
  /\ Finalize("Stream")
  /\ UNCHANGED <<stop, input, device, trace, writer, reader>>

\* record_all, one event: conversion first, then the object of its line.
RecordEvent ==
  /\ pc = "record"
  /\ IF batch[at].time = Unrepresentable
     THEN Finalize("Recorder") /\ UNCHANGED <<trace, poisoned>>
     ELSE \/ Take(Json(batch[at])) /\ Goto("newline") /\ UNCHANGED <<exists, poisoned>>
          \/ /\ Refuse /\ poisoned' = TRUE /\ Finalize("Recorder")
             /\ UNCHANGED exists
  /\ UNCHANGED <<signals, input, device, recorder, reader>>

\* The line feed; after the last event of the batch the decoder is fed.
EndLine ==
  /\ pc = "newline"
  /\ \/ /\ Take(<<LineFeed>>) /\ UNCHANGED poisoned
        /\ IF at < Len(batch) THEN at' = at + 1 /\ Goto("record")
                              ELSE at' = 1 /\ Goto("feed")
     \/ Refuse /\ poisoned' = TRUE /\ Finalize("Recorder") /\ UNCHANGED at
  /\ UNCHANGED <<signals, available, delivered, batch, lastTime, drained, device,
                 exists, recorder, reader>>

NeverRegresses(event) == FALSE  \* mutant: time stamps are not compared
Regresses(event) == event.time < lastTime

\* Feeding one event: a regression or a failing decoder ends the session, a
\* resync ends the batch.
FeedEvent ==
  /\ pc = "feed"
  /\ IF Regresses(batch[at])
     THEN Finalize("Stream") /\ UNCHANGED <<lastTime, at, drained>>
     ELSE /\ lastTime' = batch[at].time
          /\ \/ /\ at < Len(batch) /\ at' = at + 1 /\ Goto("feed")
                /\ UNCHANGED drained
             \/ /\ at = Len(batch) /\ Goto("loop") /\ UNCHANGED <<at, drained>>
             \/ /\ at < Len(batch) /\ drained' = TRUE /\ Goto("loop")
                /\ UNCHANGED at
             \/ Finalize("Stream") /\ UNCHANGED <<at, drained>>
  /\ UNCHANGED <<signals, available, delivered, batch, device, trace, writer, reader>>

-----------------------------------------------------------------------------
(* The one ordered finalization: shutdown(), fail_open() and Drop.         *)

FlushUnchecked == ~poisoned    \* mutant: the flush's result is dropped
FinishOk == ~poisoned /\ onDisk' = Len(written)

\* TraceWriter::finish refuses a poisoned stream and flushes any other.
FinishRecorder ==
  /\ pc = "finish"
  /\ \/ poisoned /\ UNCHANGED <<written, onDisk>>
     \/ ~poisoned /\ (Flushed \/ Unflushed)
  /\ failed' = IF FinishOk THEN failed ELSE failed \cup {"finish"}
  /\ pc' = "drop"
  /\ UNCHANGED <<wantGrab, reason, exit, signals, input, device, exists, writer, reader>>

\* The recorder's Drop flushes once more, as far as it gets.
DropRecorder ==
  /\ pc = "drop" /\ Goto("ungrab")
  /\ Flushed \/ Unflushed
  /\ recorder' = "gone"
  /\ UNCHANGED <<signals, input, device, exists, poisoned, reader>>

Ungrab ==
  /\ pc = "ungrab" /\ pc' = "close"
  /\ \/ grabbed' = FALSE /\ UNCHANGED failed
     \/ grabbed /\ UNCHANGED grabbed /\ failed' = failed \cup {"ungrab"}
  /\ UNCHANGED <<wantGrab, reason, exit, signals, input, fd, trace, writer, reader>>

\* close(2) frees the descriptor, and the grab with it, even when it errs.
Close ==
  /\ pc = "close" /\ fd' = "closed" /\ grabbed' = FALSE
  /\ pc' = (IF exit = "none" THEN "report" ELSE "done")
  /\ failed' \in {failed, failed \cup {"close"}}
  /\ UNCHANGED <<wantGrab, reason, exit, signals, input, trace, writer, reader>>

\* final_failure: recorder first, then the device, then the primary reason.
Verdict ==
  CASE "finish" \in failed                -> "RecorderFinalize"
    [] "finish" \notin failed /\ failed # {} -> "DeviceRelease"
    [] failed = {} /\ reason = "Signal"   -> "Stopped"
    [] failed = {} /\ reason = "Recorder" -> "Recorder"
    [] failed = {} /\ reason \in {"Stream", "GrabFailed"} -> "Stream"

\* Three status lines, any of which may fail.
Report ==
  /\ pc = "report"
  /\ Leave(Verdict, "done") \/ Leave("Unexpected", "done")
  /\ UNCHANGED <<signals, input, device, trace, writer, reader>>

-----------------------------------------------------------------------------
(* The environment: the touchpad, SIGINT or SIGTERM, SIGKILL.              *)

Touch ==
  /\ ~available /\ Len(delivered) < MaxEvents /\ ~Ended
  /\ available' = TRUE
  /\ UNCHANGED <<pc, command, signals, delivered, batch, at, lastTime, drained,
                 device, trace, writer, reader>>

\* The handler stores the flag; a read that is blocked now returns EINTR.
Signal ==
  /\ ~Ended /\ (~stop \/ (pc = "read" /\ ~eintr))
  /\ stop' = TRUE /\ eintr' = (pc = "read")
  /\ UNCHANGED <<pc, command, input, device, trace, writer, reader>>

\* The kernel closes the descriptor; the buffer is lost.
Kill ==
  /\ ~Ended /\ pc' = "killed"
  /\ fd' = (IF fd = "open" THEN "closed" ELSE fd) /\ grabbed' = FALSE
  /\ recorder' = (IF recorder = "none" THEN "none" ELSE "gone")
  /\ UNCHANGED <<command, signals, input, trace, poisoned, reader>>

-----------------------------------------------------------------------------
(* A TraceReader over the file, any client, at any time.  Calls in a wrong *)
(* order and calls of a failed reader return an error and change nothing.  *)

LineFeeds == {i \in (position + 1)..onDisk : written[i] = LineFeed}

LineEnd == IF LineFeeds = {} THEN onDisk
           ELSE CHOOSE i \in LineFeeds : \A j \in LineFeeds : i <= j

AtEnd == position = onDisk

\* The next line says `item`; the line feed may not be there yet.
IsItem(item) ==
  SubSeq(written, position + 1, LineEnd) \in {Json(item), Append(Json(item), LineFeed)}

AfterBadLine == "Failed"

\* An empty file is an error that consumes nothing: the call may be repeated.
ReadHeader ==
  /\ exists /\ readerState = "AwaitingHeader" /\ ~AtEnd
  /\ readerState' = IF IsItem(Header) THEN "ReadingEvents" ELSE AfterBadLine
  /\ position' = LineEnd /\ late' = Ended
  /\ UNCHANGED <<pc, command, signals, input, device, trace, writer, yielded>>

InOrder(event) == yielded # <<>> => yielded[Len(yielded)].time <= event.time

ReadEvent ==
  /\ readerState = "ReadingEvents"
  /\ \/ AtEnd /\ readerState' = "Finished" /\ UNCHANGED <<position, yielded>>
     \/ /\ ~AtEnd /\ position' = LineEnd
        /\ \/ \E event \in Events :
                /\ IsItem(event) /\ InOrder(event)
                /\ yielded' = Append(yielded, event) /\ UNCHANGED readerState
           \/ /\ \A event \in Events : ~(IsItem(event) /\ InOrder(event))
              /\ readerState' = AfterBadLine /\ UNCHANGED yielded
  /\ UNCHANGED <<pc, command, signals, input, device, trace, writer, late>>

-----------------------------------------------------------------------------

Prepare == Warn \/ Open \/ Create \/ FlushHeader \/ Grab \/ Banner
Run == Loop \/ Step \/ Read \/ ReadInterrupted \/ RecordEvent \/ EndLine \/ FeedEvent
Cleanup == FinishRecorder \/ DropRecorder \/ Ungrab \/ Close \/ Report
Program == Prepare \/ Run \/ Cleanup
Environment == ReadFails \/ Touch \/ Signal \/ Kill
Reader == ReadHeader \/ ReadEvent

\* Nothing is left to do once the command and the reader have ended.
Rest == Ended /\ UNCHANGED vars

Next == Program \/ Environment \/ Reader \/ Rest
Spec == Init /\ [][Next]_vars

\* A call that is not blocked returns; nothing is assumed of fingers, signals
\* or whoever reads the file.
FairSpec == Spec /\ WF_vars(Program)

-----------------------------------------------------------------------------
(* Properties.                                                             *)

ControlOK ==
  /\ pc \in Points /\ reason \in StopReasons /\ exit \in Results
  /\ failed \subseteq {"finish", "ungrab", "close"}
  /\ fd \in {"none", "open", "closed"}
  /\ recorder \in {"none", "local", "attached", "gone"}

InputOK ==
  /\ delivered \in Seq(Events) /\ Len(delivered) <= MaxEvents
  /\ batch \in Seq(Events) /\ at \in 1..MaxBatch /\ lastTime \in 0..MaxTime

TraceOK == written \in Seq(Piece) /\ onDisk \in 0..Len(written)

ReaderOK ==
  /\ readerState \in {"AwaitingHeader", "ReadingEvents", "Finished", "Failed"}
  /\ position \in 0..onDisk /\ yielded \in Seq(Events)

\* Every variable keeps its type, the events their bounds and the reader its
\* place in the file (the Boolean flags are used as formulas throughout).
TypeOK == ControlOK /\ InputOK /\ TraceOK /\ ReaderOK

LineOf(item) == Append(Json(item), LineFeed)

\* The pieces of a complete trace of `events`.
TraceOf(events) ==
  [k \in 1..(3 * (Len(events) + 1)) |->
     LineOf(IF k <= 3 THEN Header ELSE events[(k - 1) \div 3])[((k - 1) % 3) + 1]]

\* Once recording began, a result whose message does not name the recorder
\* (Stopped, Stream, or DeviceRelease after another reason) means that the file
\* holds a complete line for every event the device delivered, those the
\* decoder choked on or never saw included (record.rs, final_failure;
\* runtime.rs, record_all before feed).
CompleteUnlessReported ==
  exit \in {"Stopped", "Stream", "DeviceRelease"} /\ reason # "Recorder" =>
    onDisk = Len(written) /\ written = TraceOf(delivered)

\* The device is grabbed only when the header has been proven to be in the
\* file, so an output that cannot be written never costs the user the touchpad
\* (record.rs, "Preparation order").
GrabProvesOutput == grabbed => onDisk >= Len(LineOf(Header))

\* What the user was promised of the file before the touchpad was taken, and
\* what the result says of it afterwards.
OutputAccountedFor == GrabProvesOutput /\ CompleteUnlessReported

\* Whatever a reader yields, from a live, torn, abandoned or finished file and
\* with its bytes appearing between two calls, is a beginning of what the
\* device delivered: nothing invented, skipped or repeated (reader.rs,
\* "Terminal failure contract").
YieldedIsPrefix ==
  /\ Len(yielded) <= Len(delivered)
  /\ \A i \in DOMAIN yielded : yielded[i] = delivered[i]

NonDecreasing(events) ==
  \A i, j \in DOMAIN events : i < j => events[i].time <= events[j].time

\* A trace whose recording ended with Stopped reads back whole: the reader,
\* opened afterwards, never fails and ends with every event.  Only events that
\* a resync threw away unseen may be out of order in it (runtime.rs compares
\* time stamps as it feeds; reader.rs compares all of them).
StoppedTraceReplays ==
  exit = "Stopped" /\ late /\ (drained => NonDecreasing(delivered)) =>
    /\ readerState # "Failed"
    /\ readerState = "Finished" => yielded = delivered

\* A reader of the file, at any time.
ReadsBack == YieldedIsPrefix /\ StoppedTraceReplays

\* Except when it is killed, the command lets go of the grab or the descriptor
\* only after the recorder is finished and destroyed, and the file does not
\* change afterwards (record.rs, "Ordered finalization").
Released == fd = "closed" \/ pc = "close"
ReleasedLast ==
  [][/\ (Released' /\ ~Released /\ pc' # "killed") => recorder \in {"none", "gone"}
     /\ Released => UNCHANGED trace]_vars

\* A stop request takes effect at the latest when the touchpad is next touched
\* (record.rs, the poll between steps; runtime.rs, EINTR).
StopSeenAtNextInput == (stop /\ available) ~> Ended

\* The order of the end, and that there is one.
EndsInOrder == ReleasedLast /\ StopSeenAtNextInput
=============================================================================
