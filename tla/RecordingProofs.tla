--------------------------- MODULE RecordingProofs ---------------------------
(***************************************************************************)
(* Proofs about the record command, for any number of events, time stamps  *)
(* and batch size, with every write, flush and cleanup step failing where  *)
(* it may and a reader looking at the file at any time.                    *)
(*                                                                         *)
(* What the properties say of the end follows from what is known at each   *)
(* point: LengthInv says how much has been written there, Faithful that    *)
(* the pieces are those of the delivered events in order, CleanupInv which *)
(* results are still possible, and ReaderInv that a reader that has not    *)
(* failed stands at the line after the last event it yielded, or before    *)
(* that line's line feed.  FedInv and LateInv follow the order of the time *)
(* stamps and the reader of a file that is final.                          *)
(***************************************************************************)
EXTENDS Recording, SequenceTheorems, WellFoundedInduction, TLAPS

Setup    == {"warn", "open", "create", "flush", "grab", "banner"}
Reading  == {"banner", "loop", "step", "read", "feed"}
InBatch  == {"record", "newline", "feed"}
Settling == {"drop", "ungrab", "close", "report", "done"}
Leaving  == {"finish"} \cup Settling \cup {"killed"}
Blameless == {"Signal", "Stream", "GrabFailed"}

Complete == Len(written) = 3 * (Len(delivered) + 1)

LengthInv ==
  /\ Len(written) <= 3 * (Len(delivered) + 1)
  /\ pc \in {"warn", "open", "create"} => written = <<>>
  /\ pc \in Setup => delivered = <<>>
  /\ pc \in {"flush", "grab"} => Len(written) = 3
  /\ pc \in Reading => Complete
  /\ pc = "record" =>
       Len(written) + 3 * (Len(batch) - at + 1) = 3 * (Len(delivered) + 1)
  /\ pc = "newline" =>
       Len(written) + 3 * (Len(batch) - at) + 1 = 3 * (Len(delivered) + 1)

BatchInv ==
  /\ Len(batch) <= MaxBatch
  /\ pc \in InBatch =>
       /\ at <= Len(batch) /\ Len(batch) <= Len(delivered)
       /\ \A i \in 1..Len(batch) :
            batch[i] = delivered[Len(delivered) - Len(batch) + i]

Item(i) == IF i = 0 THEN Header ELSE delivered[i]

PiecesOf(i) ==
  /\ 3 * i + 1 <= Len(written) =>
       written[3 * i + 1] = [part |-> "head", of |-> Item(i)]
  /\ 3 * i + 2 <= Len(written) =>
       written[3 * i + 2] = [part |-> "tail", of |-> Item(i)]
  /\ 3 * i + 3 <= Len(written) => written[3 * i + 3] = LineFeed

Faithful == \A i \in 0..Len(delivered) : PiecesOf(i)

CleanupInv ==
  /\ reason # "none" => pc \in Leaving
  /\ exit # "none" => pc \in Leaving
  /\ pc \in Leaving \ {"done", "killed"} /\ exit = "none" => reason # "none"
  /\ pc = "report" => exit = "none" /\ reason # "none"
  /\ reason \in Blameless => Complete
  /\ pc \in Settling /\ reason \in Blameless /\ "finish" \notin failed =>
       onDisk = Len(written)
  /\ exit \in {"Stopped", "Stream", "DeviceRelease"} =>
       pc = "done" /\ reason # "none" /\ "finish" \notin failed
  /\ exit \in {"Stopped", "Stream"} => reason # "Recorder"

ReaderInv ==
  /\ readerState = "AwaitingHeader" => position = 0 /\ yielded = <<>>
  /\ readerState \in {"ReadingEvents", "Finished"} =>
       position \in {3 * Len(yielded) + 2, 3 * Len(yielded) + 3}
  /\ YieldedIsPrefix

GrabInv ==
  /\ pc = "grab" => onDisk >= 3
  /\ grabbed => onDisk >= 3

ReleaseInv ==
  /\ pc \in {"warn", "open", "create"} => recorder = "none"
  /\ pc = "ungrab" => recorder \in {"none", "gone"}
  /\ fd = "closed" => pc \in {"report", "done", "killed"}

FileInv == TypeOK /\ LengthInv /\ BatchInv /\ Faithful
IInv == FileInv /\ CleanupInv /\ ReaderInv /\ GrabInv /\ ReleaseInv

-----------------------------------------------------------------------------
(* What the actions build.                                                 *)

(* A line is made of pieces. *)
LEMMA PieceType ==
  ASSUME NEW item \in Events \cup {Header}
  PROVE  /\ Json(item) \in Seq(Piece) /\ Len(Json(item)) = 2
         /\ Json(item)[1] = [part |-> "head", of |-> item]
         /\ Json(item)[2] = [part |-> "tail", of |-> item]
BY DEF Json, Piece

LEMMA LineFeedType == /\ <<LineFeed>> \in Seq(Piece) /\ Len(<<LineFeed>>) = 1
                      /\ <<LineFeed>>[1] = LineFeed
BY DEF Piece, LineFeed

(* The file that File::create leaves holds the header's line. *)
LEMMA HeaderLine ==
  ASSUME NEW line, line = Json(Header) \o <<LineFeed>>
  PROVE  /\ line \in Seq(Piece) /\ Len(line) = 3
         /\ line[1] = [part |-> "head", of |-> Header]
         /\ line[2] = [part |-> "tail", of |-> Header]
         /\ line[3] = LineFeed
<1>1. /\ Json(Header) \in Seq(Piece) /\ Len(Json(Header)) = 2
      /\ Json(Header)[1] = [part |-> "head", of |-> Header]
      /\ Json(Header)[2] = [part |-> "tail", of |-> Header]
  BY PieceType
<1> DEFINE object == Json(Header)
           feed == <<LineFeed>>
<1>2. /\ object \o feed \in Seq(Piece)
      /\ Len(object \o feed) = Len(object) + Len(feed)
      /\ \A i \in 1..(Len(object) + Len(feed)) : (object \o feed)[i] =
           IF i <= Len(object) THEN object[i] ELSE feed[i - Len(object)]
  BY <1>1, LineFeedType, ConcatProperties
<1>3. Len(object) = 2 /\ Len(feed) = 1 /\ feed[1] = LineFeed
  BY <1>1, LineFeedType
<1> HIDE DEF object, feed
<1>4. /\ Len(object \o feed) = 3 /\ (object \o feed)[1] = object[1]
      /\ (object \o feed)[2] = object[2] /\ (object \o feed)[3] = feed[1]
  BY <1>2, <1>3
<1> QED
  BY <1>1, <1>2, <1>3, <1>4 DEF object, feed

(* What write_all takes is appended; the disk only gains. *)
LEMMA TakeFacts ==
  ASSUME TraceOK, NEW chunk \in Seq(Piece), Take(chunk)
  PROVE  /\ written' \in Seq(Piece) /\ Len(written') = Len(written) + Len(chunk)
         /\ onDisk' \in 0..Len(written') /\ onDisk' >= onDisk
         /\ \A i \in 1..Len(written) : written'[i] = written[i]
         /\ \A i \in 1..Len(chunk) : written'[Len(written) + i] = chunk[i]
BY DEF TraceOK, Take

(* A flush, failed or not, changes only how much of the trace is on disk. *)
LEMMA RefuseFacts ==
  ASSUME TraceOK, Refuse
  PROVE  /\ written' = written /\ onDisk' \in 0..Len(written) /\ onDisk' >= onDisk
BY DEF TraceOK, Refuse

LEMMA FlushFacts ==
  ASSUME TraceOK, Flushed \/ Unflushed
  PROVE  /\ written' = written /\ onDisk' \in 0..Len(written) /\ onDisk' >= onDisk
BY RefuseFacts DEF TraceOK, Flushed, Unflushed

(* A read returns at least one event and respects the bounds. *)
LEMMA BatchFacts ==
  ASSUME InputOK, NEW b \in Batches
  PROVE  /\ b \in Seq(Events) /\ Len(b) \in 1..MaxBatch
         /\ Len(delivered) + Len(b) <= MaxEvents
<1>1. PICK n \in {k \in 1..MaxBatch : Len(delivered) + k <= MaxEvents} :
        b \in {[i \in 1..n |-> [id |-> Len(delivered) + i, time |-> stamp[i]]] :
                 stamp \in [1..n -> 0..MaxTime]}
  BY DEF Batches
<1>2. PICK stamp \in [1..n -> 0..MaxTime] :
        b = [i \in 1..n |-> [id |-> Len(delivered) + i, time |-> stamp[i]]]
  BY <1>1
<1>3. n \in Nat /\ n >= 1 /\ n <= MaxBatch /\ Len(delivered) + n <= MaxEvents
  BY <1>1, RecordingAssumption
<1>4. \A i \in 1..n : [id |-> Len(delivered) + i, time |-> stamp[i]] \in Events
  <2> TAKE i \in 1..n
  <2>1. stamp[i] \in 0..MaxTime
    BY <1>2
  <2>2. Len(delivered) + i \in 1..MaxEvents
    BY <1>3, RecordingAssumption DEF InputOK
  <2> QED
    BY <2>1, <2>2 DEF Events
<1>5. b \in [1..n -> Events]
  BY <1>2, <1>4
<1>6. b \in Seq(Events) /\ Len(b) = n
  BY <1>3, <1>5
<1> QED
  BY <1>3, <1>6

(* A non-empty set of numbers has a least one. *)
LEMMA LeastNumber ==
  ASSUME NEW S \in SUBSET Nat, S # {}
  PROVE  \E i \in S : \A j \in S : i <= j
<1>1. PICK i \in S : \A j \in S : ~(<<j, i>> \in OpToRel(<, Nat))
  BY NatLessThanWellFounded, WFMin
<1>2. \A j \in S : ~(j < i)
  BY <1>1 DEF OpToRel
<1> QED
  BY <1>2

(* The line a reader reads next ends before the end of the file. *)
LEMMA LineEndFacts ==
  ASSUME TraceOK, ReaderOK, ~AtEnd
  PROVE  /\ LineEnd \in (position + 1)..onDisk
         /\ LineEnd \in LineFeeds => \A j \in LineFeeds : LineEnd <= j
         /\ LineFeeds # {} => LineEnd \in LineFeeds
         /\ LineFeeds = {} => LineEnd = onDisk
<1> USE DEF TraceOK, ReaderOK
<1>1. LineFeeds \subseteq (position + 1)..onDisk
  BY DEF LineFeeds
<1>2. CASE LineFeeds = {}
  BY <1>2 DEF LineEnd, AtEnd
<1>3. CASE LineFeeds # {}
  <2>1. LineFeeds \subseteq Nat /\ LineFeeds # {}
    BY <1>1, <1>3
  <2>2. \E i \in LineFeeds : \A j \in LineFeeds : i <= j
    BY <2>1, LeastNumber
  <2>3. LineEnd \in LineFeeds /\ \A j \in LineFeeds : LineEnd <= j
    BY <1>3, <2>2 DEF LineEnd
  <2> QED
    BY <1>1, <1>3, <2>3
<1> QED
  BY <1>2, <1>3

-----------------------------------------------------------------------------
(* Every step keeps every variable in its type: the enumerations, ... *)
LEMMA ControlStep ==
  ASSUME ControlOK, CleanupInv, [Next]_vars
  PROVE  ControlOK'
<1> USE DEF ControlOK, command, signals, input, device, trace, writer, reader,
      Goto, Leave, Finalize, Points, StopReasons, Results
<1>1. CASE Warn  BY <1>1 DEF Warn
<1>2. CASE Open  BY <1>2 DEF Open
<1>3. CASE Create  BY <1>3 DEF Create
<1>4. CASE FlushHeader  BY <1>4 DEF FlushHeader
<1>5. CASE Grab  BY <1>5 DEF Grab
<1>6. CASE Banner  BY <1>6 DEF Banner
<1>7. CASE Loop  BY <1>7 DEF Loop
<1>8. CASE Step  BY <1>8 DEF Step
<1>9. CASE Read  BY <1>9 DEF Read
<1>10. CASE ReadInterrupted  BY <1>10 DEF ReadInterrupted
<1>11. CASE ReadFails  BY <1>11 DEF ReadFails
<1>12. CASE RecordEvent  BY <1>12 DEF RecordEvent
<1>13. CASE EndLine  BY <1>13 DEF EndLine
<1>14. CASE FeedEvent  BY <1>14 DEF FeedEvent
<1>15. CASE FinishRecorder  BY <1>15 DEF FinishRecorder
<1>16. CASE DropRecorder  BY <1>16 DEF DropRecorder
<1>17. CASE Ungrab  BY <1>17 DEF Ungrab
<1>18. CASE Close  BY <1>18 DEF Close
<1>19. CASE Report
  <2>1. Verdict \in Results
    BY <1>19 DEF Report, Verdict, CleanupInv
  <2> QED
    BY <1>19, <2>1 DEF Report
<1>20. CASE Touch  BY <1>20 DEF Touch
<1>21. CASE Signal  BY <1>21 DEF Signal
<1>22. CASE Kill  BY <1>22 DEF Kill
<1>23. CASE ReadHeader  BY <1>23 DEF ReadHeader
<1>24. CASE ReadEvent  BY <1>24 DEF ReadEvent
<1>25. CASE UNCHANGED vars  BY <1>25 DEF vars
<1> QED
  BY <1>1, <1>2, <1>3, <1>4, <1>5, <1>6, <1>7, <1>8, <1>9, <1>10, <1>11, <1>12,
     <1>13, <1>14, <1>15, <1>16, <1>17, <1>18, <1>19, <1>20, <1>21, <1>22,
     <1>23, <1>24, <1>25
  DEF Next, Program, Prepare, Run, Cleanup, Environment, Reader, Rest

(* ... the events read from the device, ... *)
LEMMA InputStep ==
  ASSUME InputOK, BatchInv, [Next]_vars
  PROVE  InputOK'
<1> USE RecordingAssumption DEF InputOK, input, Goto, Finalize
<1>1. CASE UNCHANGED <<delivered, batch, at, lastTime>>
  BY <1>1
<1>2. CASE Read
  <2>1. /\ batch' \in Seq(Events) /\ Len(batch') \in 1..MaxBatch
        /\ Len(delivered) + Len(batch') <= MaxEvents
    BY <1>2, BatchFacts DEF Read
  <2>2. delivered' \in Seq(Events) /\ Len(delivered') <= MaxEvents
    BY <1>2, <2>1 DEF Read
  <2> QED
    BY <1>2, <2>1, <2>2 DEF Read
<1>3. CASE EndLine
  BY <1>3 DEF EndLine, BatchInv
<1>4. CASE FeedEvent
  <2>1. batch[at] \in Events
    BY <1>4 DEF FeedEvent, BatchInv, InBatch
  <2>2. batch[at].time \in 0..MaxTime
    BY <2>1 DEF Events
  <2>3. at' \in 1..MaxBatch /\ lastTime' \in 0..MaxTime
    BY <1>4, <2>2 DEF FeedEvent, BatchInv
  <2> QED
    BY <1>4, <2>3 DEF FeedEvent
<1> QED
  BY <1>1, <1>2, <1>3, <1>4
  DEF Next, Program, Prepare, Run, Cleanup, Environment, Reader, Rest, vars,
      Warn, Open, Create, FlushHeader, Grab, Banner, Loop, Step, ReadInterrupted,
      ReadFails, RecordEvent, FinishRecorder, DropRecorder, Ungrab, Close, Report,
      Touch, Signal, Kill, ReadHeader, ReadEvent

(* ... the file, to which every step only appends and flushes. *)
LEMMA TraceStep ==
  ASSUME InputOK, TraceOK, LengthInv, BatchInv, [Next]_vars
  PROVE  /\ TraceOK' /\ onDisk' >= onDisk
         /\ Len(written') >= Len(written)
         /\ \A i \in 1..Len(written) : written'[i] = written[i]
<1> USE DEF trace
<1>1. CASE UNCHANGED <<written, onDisk>>
  BY <1>1 DEF TraceOK
<1>2. CASE Create
  <2>1. CASE UNCHANGED written
    BY <1>1, <1>2, <2>1 DEF Create
  <2>2. CASE written' = Json(Header) \o <<LineFeed>>
    <3>1. written' \in Seq(Piece) /\ Len(written') = 3
      BY <2>2, HeaderLine
    <3>2. written = <<>> /\ onDisk = 0 /\ onDisk' = 0
      BY <1>2 DEF Create, LengthInv, TraceOK
    <3> QED
      BY <3>1, <3>2 DEF TraceOK
  <2> QED
    BY <1>2, <2>1, <2>2 DEF Create
<1>3. CASE FlushHeader \/ FinishRecorder \/ DropRecorder
  BY <1>1, <1>3, FlushFacts DEF FlushHeader, FinishRecorder, DropRecorder, TraceOK
<1>4. CASE RecordEvent
  <2>1. batch[at] \in Events
    BY <1>4 DEF RecordEvent, BatchInv, InBatch, InputOK
  <2>2. Json(batch[at]) \in Seq(Piece)
    BY <2>1, PieceType
  <2> QED
    BY <1>1, <1>4, <2>2, TakeFacts, RefuseFacts DEF RecordEvent, TraceOK
<1>5. CASE EndLine
  <2>1. CASE Take(<<LineFeed>>)
    <3>1. /\ written' \in Seq(Piece) /\ Len(written') = Len(written) + 1
          /\ onDisk' \in 0..Len(written') /\ onDisk' >= onDisk
          /\ \A i \in 1..Len(written) : written'[i] = written[i]
      BY <2>1, LineFeedType, TakeFacts
    <3> QED
      BY <3>1 DEF TraceOK
  <2>2. CASE Refuse
    BY <2>2, RefuseFacts DEF TraceOK
  <2> QED
    BY <1>5, <2>1, <2>2 DEF EndLine
<1> QED
  BY <1>1, <1>2, <1>3, <1>4, <1>5
  DEF Next, Program, Prepare, Run, Cleanup, Environment, Reader, Rest, vars,
      Warn, Open, Grab, Banner, Loop, Step, Read, ReadInterrupted, ReadFails,
      FeedEvent, Ungrab, Close, Report, Touch, Signal, Kill, ReadHeader, ReadEvent

(* A reader moves inside the file and yields events. *)
LEMMA ReaderTypeStep ==
  ASSUME TraceOK, ReaderOK, onDisk' \in Nat, onDisk' >= onDisk, [Next]_vars
  PROVE  ReaderOK'
<1> USE DEF ReaderOK, TraceOK, reader
<1>1. CASE UNCHANGED reader
  BY <1>1
<1>2. CASE ReadHeader
  BY <1>2, LineEndFacts DEF ReadHeader, AfterBadLine
<1>3. CASE ReadEvent
  <2>1. yielded' \in Seq(Events)
    BY <1>3 DEF ReadEvent
  <2>2. readerState' \in {"ReadingEvents", "Finished", "Failed"}
    BY <1>3 DEF ReadEvent, AfterBadLine
  <2>3. position' \in 0..onDisk
    BY <1>3, LineEndFacts DEF ReadEvent
  <2> QED
    BY <2>1, <2>2, <2>3
<1> QED
  BY <1>1, <1>2, <1>3
  DEF Next, Program, Prepare, Run, Cleanup, Environment, Reader, Rest, vars,
      Warn, Open, Create, FlushHeader, Grab, Banner, Loop, Step, Read,
      ReadInterrupted, ReadFails, RecordEvent, EndLine, FeedEvent, FinishRecorder,
      DropRecorder, Ungrab, Close, Report, Touch, Signal, Kill

-----------------------------------------------------------------------------
(* Each step writes what the next point expects to find written. *)
LEMMA LengthStep ==
  ASSUME InputOK, TraceOK, LengthInv, BatchInv, [Next]_vars
  PROVE  LengthInv'
<1> USE DEF LengthInv, InputOK, TraceOK, Setup, Reading, Complete, Goto, Leave,
      Finalize, input, trace
<1>1. CASE UNCHANGED <<pc, written, delivered, batch, at>>
  BY <1>1
<1>2. CASE Warn \/ Open
  BY <1>2 DEF Warn, Open
<1>3. CASE Create
  <2>1. CASE written' = Json(Header) \o <<LineFeed>> /\ pc' = "flush"
    <3>1. Len(written') = 3
      BY <2>1, HeaderLine
    <3>2. delivered = <<>> /\ delivered' = delivered
      BY <1>3 DEF Create
    <3> QED
      BY <2>1, <3>1, <3>2
  <2>2. CASE written' = written /\ pc' = "ungrab"
    BY <1>3, <2>2 DEF Create
  <2> QED
    BY <1>3, <2>1, <2>2 DEF Create
<1>4. CASE FlushHeader
  BY <1>4, FlushFacts DEF FlushHeader
<1>5. CASE Read
  <2>1. /\ batch' \in Seq(Events) /\ Len(batch') \in 1..MaxBatch
    BY <1>5, BatchFacts DEF Read
  <2>2. Len(delivered') = Len(delivered) + Len(batch') /\ at' = 1
    BY <1>5, <2>1 DEF Read
  <2>3. pc' = "record" /\ Len(written') = 3 * (Len(delivered) + 1)
    BY <1>5 DEF Read
  <2> QED
    BY <2>1, <2>2, <2>3
<1>6. CASE ReadInterrupted \/ ReadFails \/ Ungrab \/ Close \/ Report \/ Kill
  <2>1. /\ UNCHANGED <<written, delivered, batch, at>>
        /\ pc' \in {"finish", "close", "report", "done", "killed"}
    BY <1>6 DEF ReadInterrupted, ReadFails, Ungrab, Close, Report, Kill
  <2> QED
    BY <2>1
<1>7. CASE RecordEvent
  <2>1. batch[at] \in Events /\ at <= Len(batch)
    BY <1>7 DEF RecordEvent, BatchInv, InBatch
  <2>2. Json(batch[at]) \in Seq(Piece) /\ Len(Json(batch[at])) = 2
    BY <2>1, PieceType
  <2>3. CASE Take(Json(batch[at])) /\ Goto("newline")
    <3>1. Len(written') = Len(written) + 2
      BY <2>2, <2>3, TakeFacts
    <3> QED
      BY <1>7, <2>1, <2>3, <3>1 DEF RecordEvent
  <2>4. CASE pc' = "finish" /\ written' = written
    BY <1>7, <2>4 DEF RecordEvent
  <2> QED
    BY <1>7, <2>3, <2>4, RefuseFacts DEF RecordEvent
<1>8. CASE EndLine
  <2>1. <<LineFeed>> \in Seq(Piece) /\ Len(<<LineFeed>>) = 1
    BY LineFeedType
  <2>2. at <= Len(batch)
    BY <1>8 DEF EndLine, BatchInv, InBatch
  <2>3. CASE Take(<<LineFeed>>)
    <3>1. Len(written') = Len(written) + 1
      BY <2>1, <2>3, TakeFacts
    <3>2. pc = "newline" /\ UNCHANGED <<batch, delivered>>
      BY <1>8 DEF EndLine
    <3>3. CASE at < Len(batch) /\ at' = at + 1 /\ pc' = "record"
      BY <2>2, <3>1, <3>2, <3>3
    <3>4. CASE ~(at < Len(batch)) /\ at' = 1 /\ pc' = "feed"
      BY <2>2, <3>1, <3>2, <3>4
    <3>5. CASE pc' = "finish"
      BY <2>2, <3>1, <3>2, <3>5
    <3> QED
      BY <1>8, <3>3, <3>4, <3>5 DEF EndLine
  <2>4. CASE pc' = "finish" /\ written' = written
    BY <1>8, <2>4 DEF EndLine
  <2> QED
    BY <1>8, <2>3, <2>4, RefuseFacts DEF EndLine
<1>9. CASE FeedEvent
  BY <1>9 DEF FeedEvent
<1>10. CASE FinishRecorder \/ DropRecorder
  BY <1>10, FlushFacts DEF FinishRecorder, DropRecorder
<1>11. CASE Grab \/ Banner
  <2>1. UNCHANGED <<written, delivered>> /\ pc \in {"grab", "banner"}
    BY <1>11, Zenon DEF Grab, Banner
  <2>2. pc' \in {"banner", "loop", "finish"}
    BY <1>11 DEF Grab, Banner
  <2>3. delivered = <<>> /\ Len(delivered) = 0
    BY <2>1
  <2>4. Len(written) = 3
    BY <2>1, <2>3
  <2> QED
    BY <2>1, <2>2, <2>3, <2>4
<1>12. CASE Loop \/ Step
  BY <1>12 DEF Loop, Step
<1> QED
  BY <1>1, <1>2, <1>3, <1>4, <1>5, <1>6, <1>7, <1>8, <1>9, <1>10, <1>11, <1>12
  DEF Next, Program, Prepare, Run, Cleanup, Environment, Reader, Rest, vars,
      Touch, Signal, ReadHeader, ReadEvent

(* The batch is the end of what was delivered. *)
LEMMA BatchStep ==
  ASSUME InputOK, BatchInv, [Next]_vars
  PROVE  BatchInv'
<1> USE DEF BatchInv, InBatch, InputOK, Goto, Leave, Finalize, input
<1>1. CASE UNCHANGED <<batch, at, delivered>> /\ (pc' \in InBatch => pc \in InBatch)
  BY <1>1
<1>2. CASE Read
  <2>1. /\ batch' \in Seq(Events) /\ Len(batch') \in 1..MaxBatch
    BY <1>2, BatchFacts DEF Read
  <2>2. /\ Len(delivered') = Len(delivered) + Len(batch') /\ at' = 1
        /\ \A i \in 1..Len(batch') : delivered'[Len(delivered) + i] = batch'[i]
    BY <1>2, <2>1 DEF Read
  <2> QED
    BY <2>1, <2>2, RecordingAssumption
<1>3. CASE EndLine
  BY <1>3 DEF EndLine
<1>4. CASE FeedEvent
  BY <1>4 DEF FeedEvent
<1> QED
  BY <1>1, <1>2, <1>3, <1>4
  DEF Next, Program, Prepare, Run, Cleanup, Environment, Reader, Rest, vars,
      Warn, Open, Create, FlushHeader, Grab, Banner, Loop, Step, ReadInterrupted,
      ReadFails, RecordEvent, FinishRecorder, DropRecorder, Ungrab, Close, Report,
      Touch, Signal, Kill, ReadHeader, ReadEvent

(* Lines that were whole stay what they are when more is written. *)
LEMMA LinesBefore ==
  ASSUME InputOK, TraceOK, Faithful, delivered' = delivered,
         NEW i \in 0..Len(delivered), 3 * i + 3 <= Len(written),
         Len(written') \in Nat, Len(written') >= Len(written),
         \A j \in 1..(3 * i + 3) : written'[j] = written[j]
  PROVE  PiecesOf(i)'
<1>1. PiecesOf(i) /\ Item(i)' = Item(i)
  BY DEF Faithful, Item
<1>2. /\ written'[3 * i + 1] = written[3 * i + 1]
      /\ written'[3 * i + 2] = written[3 * i + 2]
      /\ written'[3 * i + 3] = written[3 * i + 3]
  BY DEF InputOK
<1>3. /\ 3 * i + 1 <= Len(written) /\ 3 * i + 2 <= Len(written)
  BY DEF TraceOK, InputOK
<1> QED
  BY <1>1, <1>2, <1>3 DEF PiecesOf

(* What is written stays the line of each delivered event in turn. *)
LEMMA FaithfulStep ==
  ASSUME InputOK, TraceOK, LengthInv, BatchInv, Faithful, [Next]_vars
  PROVE  Faithful'
<1> DEFINE k == Len(delivered) - Len(batch) + at
<1> USE DEF InputOK, TraceOK, input, trace
<1>1. CASE UNCHANGED <<written, delivered>>
  BY <1>1 DEF Faithful, PiecesOf, Item
<1>2. CASE Create
  <2>1. CASE written' = Json(Header) \o <<LineFeed>>
    <3>1. /\ Len(written') = 3 /\ written'[3] = LineFeed
          /\ written'[1] = [part |-> "head", of |-> Header]
          /\ written'[2] = [part |-> "tail", of |-> Header]
      BY <2>1, HeaderLine
    <3>2. delivered' = <<>> /\ Len(delivered') = 0
      BY <1>2 DEF Create, LengthInv, Setup
    <3> QED
      BY <3>1, <3>2 DEF Faithful, PiecesOf, Item
  <2> QED
    BY <1>1, <1>2, <2>1 DEF Create
<1>3. CASE Read
  <2>1. batch' \in Seq(Events)
    BY <1>3, BatchFacts DEF Read
  <2>2. /\ Len(delivered') >= Len(delivered) /\ Len(delivered') \in Nat
        /\ \A i \in 1..Len(delivered) : delivered'[i] = delivered[i]
    BY <1>3, <2>1 DEF Read
  <2>3. written' = written /\ Len(written) = 3 * (Len(delivered) + 1)
    BY <1>3 DEF Read, LengthInv, Reading, Complete
  <2> SUFFICES ASSUME NEW i \in 0..Len(delivered') PROVE PiecesOf(i)'
    BY DEF Faithful
  <2>4. CASE i <= Len(delivered)
    <3>1. PiecesOf(i) /\ Item(i)' = Item(i)
      BY <2>2, <2>4 DEF Faithful, Item
    <3> QED
      BY <2>3, <3>1 DEF PiecesOf
  <2>5. CASE i > Len(delivered)
    <3>1. 3 * i + 1 > Len(written)
      BY <2>2, <2>3, <2>5
    <3> QED
      BY <2>2, <2>3, <3>1 DEF PiecesOf
  <2> QED
    BY <2>2, <2>4, <2>5
<1>4. CASE RecordEvent \/ EndLine
  <2>1. pc \in InBatch /\ delivered' = delivered
    BY <1>4 DEF RecordEvent, EndLine, InBatch
  <2>2. /\ at \in 1..Len(batch) /\ Len(batch) <= Len(delivered)
        /\ batch[at] = delivered[Len(delivered) - Len(batch) + at]
    BY <2>1 DEF BatchInv
  <2>3. k \in 1..Len(delivered) /\ batch[at] = delivered[k] /\ batch[at] \in Events
    BY <2>2
  <2> HIDE DEF k
  <2>4. CASE RecordEvent /\ Take(Json(batch[at]))
    <3>1. Len(written) = 3 * k
      BY <2>2, <2>4 DEF RecordEvent, LengthInv, k
    <3>2. /\ Json(batch[at]) \in Seq(Piece) /\ Len(Json(batch[at])) = 2
          /\ Json(batch[at])[1] = [part |-> "head", of |-> delivered[k]]
          /\ Json(batch[at])[2] = [part |-> "tail", of |-> delivered[k]]
      BY <2>3, PieceType
    <3>3. /\ Len(written') = 3 * k + 2
          /\ written'[3 * k + 1] = [part |-> "head", of |-> delivered[k]]
          /\ written'[3 * k + 2] = [part |-> "tail", of |-> delivered[k]]
          /\ \A i \in 1..(3 * k) : written'[i] = written[i]
      <4>1. /\ Len(written') = Len(written) + 2
            /\ \A i \in 1..Len(written) : written'[i] = written[i]
            /\ \A i \in 1..2 : written'[Len(written) + i] = Json(batch[at])[i]
        BY <2>4, <3>2, TakeFacts
      <4> QED
        BY <3>1, <3>2, <4>1
    <3> SUFFICES ASSUME NEW i \in 0..Len(delivered') PROVE PiecesOf(i)'
      BY DEF Faithful
    <3>4. CASE i < k
      BY <2>1, <2>3, <3>1, <3>3, <3>4, LinesBefore
    <3>5. CASE i = k
      <4>1. Item(i)' = delivered[k]
        BY <2>1, <2>3, <3>5 DEF Item
      <4> QED
        BY <2>3, <3>3, <3>5, <4>1 DEF PiecesOf
    <3>6. CASE i > k
      <4>1. 3 * i + 1 > Len(written')
        BY <2>3, <3>3, <3>6
      <4> QED
        BY <2>3, <3>3, <4>1 DEF PiecesOf
    <3> QED
      BY <2>1, <2>3, <3>4, <3>5, <3>6
  <2>5. CASE EndLine /\ Take(<<LineFeed>>)
    <3>1. Len(written) = 3 * k + 2
      BY <2>2, <2>5 DEF EndLine, LengthInv, k
    <3>2. /\ Len(written') = 3 * k + 3 /\ written'[3 * k + 3] = LineFeed
          /\ \A i \in 1..(3 * k + 2) : written'[i] = written[i]
      <4>1. /\ Len(written') = Len(written) + 1
            /\ \A i \in 1..Len(written) : written'[i] = written[i]
            /\ written'[Len(written) + 1] = LineFeed
        <5> DEFINE chunk == <<LineFeed>>
        <5>1. chunk \in Seq(Piece) /\ Len(chunk) = 1 /\ chunk[1] = LineFeed
          BY LineFeedType
        <5>2. Take(chunk)
          BY <2>5
        <5> HIDE DEF chunk
        <5>3. /\ Len(written') = Len(written) + Len(chunk)
              /\ \A i \in 1..Len(written) : written'[i] = written[i]
              /\ \A i \in 1..Len(chunk) : written'[Len(written) + i] = chunk[i]
          BY <5>1, <5>2, TakeFacts
        <5> QED
          BY <5>1, <5>3
      <4> QED
        BY <2>3, <3>1, <4>1
    <3> SUFFICES ASSUME NEW i \in 0..Len(delivered') PROVE PiecesOf(i)'
      BY DEF Faithful
    <3>3. CASE i < k
      BY <2>1, <2>3, <3>1, <3>2, <3>3, LinesBefore
    <3>4. CASE i = k
      <4>1. Item(i)' = Item(i) /\ PiecesOf(i)
        BY <2>1, <2>3, <3>4 DEF Item, Faithful
      <4> QED
        BY <2>3, <3>1, <3>2, <3>4, <4>1 DEF PiecesOf
    <3>5. CASE i > k
      <4>1. 3 * i + 1 > Len(written')
        BY <2>3, <3>2, <3>5
      <4> QED
        BY <2>3, <3>2, <4>1 DEF PiecesOf
    <3> QED
      BY <2>1, <2>3, <3>3, <3>4, <3>5
  <2>6. CASE written' = written
    BY <1>1, <2>1, <2>6
  <2> QED
    BY <1>4, <2>4, <2>5, <2>6, RefuseFacts DEF RecordEvent, EndLine
<1>5. CASE FlushHeader \/ FinishRecorder \/ DropRecorder
  BY <1>1, <1>5, FlushFacts DEF FlushHeader, FinishRecorder, DropRecorder
<1> QED
  BY <1>1, <1>2, <1>3, <1>4, <1>5
  DEF Next, Program, Prepare, Run, Cleanup, Environment, Reader, Rest, vars,
      Warn, Open, Grab, Banner, Loop, Step, ReadInterrupted, ReadFails, FeedEvent,
      Ungrab, Close, Report, Touch, Signal, Kill, ReadHeader, ReadEvent

(* The line of an item is two pieces, or three with its line feed. *)
LEMMA LineLength ==
  ASSUME TraceOK, ReaderOK, ~AtEnd, NEW item \in Events \cup {Header}, IsItem(item)
  PROVE  /\ LineEnd \in {position + 2, position + 3}
         /\ written[position + 1] = [part |-> "head", of |-> item]
<1> DEFINE line == SubSeq(written, position + 1, LineEnd)
<1> USE DEF TraceOK, ReaderOK
<1>1. LineEnd \in (position + 1)..onDisk
  BY LineEndFacts
<1>2. /\ Len(line) = LineEnd - position
      /\ line[1] = written[position + 1]
  BY <1>1
<1>3. /\ Json(item) \in Seq(Piece) /\ Len(Json(item)) = 2
      /\ Json(item)[1] = [part |-> "head", of |-> item]
  BY PieceType
<1>4. LineFeed \in Piece
  BY DEF LineFeed, Piece
<1>5. /\ Len(line) \in {2, 3} /\ line[1] = [part |-> "head", of |-> item]
  <2> DEFINE object == Json(item)
             whole == Append(object, LineFeed)
  <2>1. object \in Seq(Piece) /\ Len(object) = 2
    BY <1>3
  <2> HIDE DEF object
  <2>2. Len(whole) = 3 /\ whole[1] = object[1]
    <3>1. LineFeed \in Piece /\ object \in Seq(Piece)
      BY <1>4, <2>1
    <3>2. Len(whole) = Len(object) + 1
      BY ONLY <3>1, AppendProperties
    <3>3. \A i \in 1..Len(object) : whole[i] = object[i]
      BY ONLY <3>1, AppendProperties
    <3> QED
      BY <2>1, <3>2, <3>3
  <2>3. line \in {object, whole}
    BY DEF IsItem, object
  <2> HIDE DEF line, whole
  <2> QED
    BY <1>3, <2>2, <2>3 DEF object
<1>6. LineEnd \in {position + 2, position + 3}
  BY <1>1, <1>2, <1>5
<1> QED
  BY <1>2, <1>5, <1>6

(* A reader that accepts a line has the next delivered event. *)
LEMMA NextLine ==
  ASSUME InputOK, TraceOK, ReaderOK, LengthInv, Faithful, ReaderInv, ~AtEnd,
         NEW event \in Events, IsItem(event), readerState = "ReadingEvents"
  PROVE  /\ Len(yielded) + 1 <= Len(delivered)
         /\ event = delivered[Len(yielded) + 1]
         /\ LineEnd \in {3 * (Len(yielded) + 1) + 2, 3 * (Len(yielded) + 1) + 3}
<1> DEFINE n == Len(yielded)
<1> USE DEF InputOK, TraceOK, ReaderOK
<1>1. LineEnd \in (position + 1)..onDisk
  BY LineEndFacts
<1>2. /\ LineEnd \in {position + 2, position + 3}
      /\ written[position + 1] = [part |-> "head", of |-> event]
  BY LineLength
<1>3. position \in {3 * n + 2, 3 * n + 3} /\ n <= Len(delivered)
  BY DEF ReaderInv, YieldedIsPrefix
<1>4. position # 3 * n + 2
  <2> SUFFICES ASSUME position = 3 * n + 2 PROVE FALSE
    OBVIOUS
  <2>1. n \in 0..Len(delivered) /\ 3 * n + 3 <= Len(written)
    BY <1>1, <1>3
  <2>2. PiecesOf(n)
    BY <2>1 DEF Faithful
  <2>3. written[3 * n + 3] = LineFeed
    BY <2>1, <2>2 DEF PiecesOf
  <2> QED
    BY <1>2, <2>3 DEF LineFeed
<1>5. position = 3 * n + 3 /\ 3 * n + 4 <= Len(written)
  BY <1>1, <1>3, <1>4
<1>6. n + 1 <= Len(delivered)
  BY <1>5 DEF LengthInv
<1>7. written[3 * (n + 1) + 1] = [part |-> "head", of |-> delivered[n + 1]]
  <2>1. PiecesOf(n + 1) /\ Item(n + 1) = delivered[n + 1]
    BY <1>3, <1>6 DEF Faithful, Item
  <2>2. 3 * (n + 1) + 1 <= Len(written)
    BY <1>5
  <2> QED
    BY <2>1, <2>2 DEF PiecesOf
<1>8. event = delivered[n + 1]
  BY <1>2, <1>5, <1>7
<1> QED
  BY <1>2, <1>5, <1>6, <1>8

(* What was yielded stays the beginning of what was delivered. *)
LEMMA ReaderStep ==
  ASSUME InputOK, TraceOK, ReaderOK, LengthInv, Faithful, ReaderInv, [Next]_vars
  PROVE  ReaderInv'
<1> USE DEF InputOK, TraceOK, ReaderOK, ReaderInv, YieldedIsPrefix, input, reader
<1>1. CASE UNCHANGED <<readerState, position, yielded, delivered>>
  BY <1>1
<1>2. CASE Read
  <2>1. batch' \in Seq(Events)
    BY <1>2, BatchFacts DEF Read
  <2>2. /\ Len(delivered') >= Len(delivered)
        /\ \A i \in 1..Len(delivered) : delivered'[i] = delivered[i]
    BY <1>2, <2>1 DEF Read
  <2>3. UNCHANGED <<readerState, position, yielded>>
    BY <1>2 DEF Read
  <2> QED
    BY <2>2, <2>3
<1>3. CASE ReadHeader
  <2>1. position = 0 /\ yielded = <<>> /\ UNCHANGED <<yielded, delivered>> /\ ~AtEnd
    BY <1>3 DEF ReadHeader
  <2>2. CASE IsItem(Header)
    <3>1. LineEnd \in {position + 2, position + 3}
      BY <2>1, <2>2, LineLength
    <3>2. position' = LineEnd /\ readerState' = "ReadingEvents"
      BY <1>3, <2>2 DEF ReadHeader
    <3> QED
      BY <2>1, <3>1, <3>2
  <2>3. CASE ~IsItem(Header)
    BY <1>3, <2>1, <2>3 DEF ReadHeader, AfterBadLine
  <2> QED
    BY <2>2, <2>3
<1>4. CASE ReadEvent
  <2>1. readerState = "ReadingEvents" /\ delivered' = delivered
    BY <1>4 DEF ReadEvent
  <2>2. CASE readerState' = "Finished" /\ UNCHANGED <<position, yielded>>
    BY <2>1, <2>2
  <2>3. CASE readerState' = "Failed" /\ UNCHANGED yielded
    BY <2>1, <2>3
  <2>4. ASSUME NEW event \in Events, ~AtEnd, position' = LineEnd, IsItem(event),
               yielded' = Append(yielded, event), UNCHANGED readerState
        PROVE  ReaderInv'
    <3>1. /\ Len(yielded) + 1 <= Len(delivered)
          /\ event = delivered[Len(yielded) + 1]
          /\ position' \in {3 * (Len(yielded) + 1) + 2, 3 * (Len(yielded) + 1) + 3}
      BY <2>1, <2>4, NextLine
    <3>2. /\ Len(yielded') = Len(yielded) + 1
          /\ \A i \in 1..Len(yielded) : yielded'[i] = yielded[i]
          /\ yielded'[Len(yielded) + 1] = event
      BY <2>4
    <3>3. /\ DOMAIN yielded' = 1..(Len(yielded) + 1)
          /\ \A i \in 1..Len(yielded) : yielded[i] = delivered[i]
      BY <2>4
    <3> QED
      BY <2>1, <2>4, <3>1, <3>2, <3>3
  <2> QED
    BY <1>4, <2>2, <2>3, <2>4 DEF ReadEvent, AfterBadLine
<1> QED
  BY <1>1, <1>2, <1>3, <1>4
  DEF Next, Program, Prepare, Run, Cleanup, Environment, Reader, Rest, vars,
      Warn, Open, Create, FlushHeader, Grab, Banner, Loop, Step, ReadInterrupted,
      ReadFails, RecordEvent, EndLine, FeedEvent, FinishRecorder, DropRecorder,
      Ungrab, Close, Report, Touch, Signal, Kill

(* The recorder is gone when the device is let go of. *)
LEMMA ReleaseStep ==
  ASSUME ControlOK, ReleaseInv, [Next]_vars
  PROVE  ReleaseInv'
<1> USE DEF ReleaseInv, ControlOK, Goto, Leave, Finalize
<1>1. CASE UNCHANGED <<pc, recorder, fd>>
  BY <1>1
<1>2. CASE Warn \/ Banner \/ Loop \/ Step
  BY <1>2 DEF Warn, Banner, Loop, Step, writer, device
<1>3. CASE Open  BY <1>3 DEF Open, writer
<1>4. CASE Create  BY <1>4 DEF Create, device
<1>5. CASE FlushHeader  BY <1>5 DEF FlushHeader, device
<1>6. CASE Grab
  <2>1. UNCHANGED <<fd, recorder>> /\ pc = "grab" /\ pc' \in {"banner", "finish"}
    BY <1>6 DEF Grab, writer
  <2> QED
    BY <2>1
<1>7. CASE Read \/ ReadInterrupted \/ ReadFails
  BY <1>7 DEF Read, ReadInterrupted, ReadFails, writer, device
<1>8. CASE RecordEvent  BY <1>8 DEF RecordEvent, device
<1>9. CASE EndLine  BY <1>9 DEF EndLine, device
<1>10. CASE FeedEvent  BY <1>10 DEF FeedEvent, writer, device
<1>11. CASE FinishRecorder  BY <1>11 DEF FinishRecorder, writer, device
<1>12. CASE DropRecorder  BY <1>12 DEF DropRecorder, device
<1>13. CASE Ungrab
  <2>1. UNCHANGED <<fd, recorder>> /\ pc = "ungrab" /\ pc' = "close"
    BY <1>13 DEF Ungrab, writer
  <2> QED
    BY <2>1
<1>14. CASE Close  BY <1>14 DEF Close, writer
<1>15. CASE Report  BY <1>15 DEF Report, writer, device
<1>16. CASE Kill  BY <1>16 DEF Kill
<1> QED
  BY <1>1, <1>2, <1>3, <1>4, <1>5, <1>6, <1>7, <1>8, <1>9, <1>10, <1>11, <1>12,
     <1>13, <1>14, <1>15, <1>16
  DEF Next, Program, Prepare, Run, Cleanup, Environment, Reader, Rest, vars,
      Touch, Signal, ReadHeader, ReadEvent, device, writer

(* The grab is taken where the header is known to be in the file. *)
LEMMA GrabStep ==
  ASSUME TraceOK, LengthInv, GrabInv, onDisk' \in Nat, onDisk' >= onDisk, [Next]_vars
  PROVE  GrabInv'
<1> USE DEF GrabInv, TraceOK
<1>1. pc' = "grab" => onDisk' >= 3
  <2>1. CASE FlushHeader
    <3>1. pc = "flush" /\ Len(written) = 3
      BY <2>1 DEF FlushHeader, LengthInv
    <3>2. pc' = "grab" => HeaderProven
      BY <2>1 DEF FlushHeader, Leave
    <3> QED
      BY <3>1, <3>2 DEF HeaderProven
  <2>2. CASE ~FlushHeader
    <3>1. pc' = "grab" => pc = "grab"
      BY <2>2
      DEF Next, Program, Prepare, Run, Cleanup, Environment, Reader, Rest, vars,
          Warn, Open, Create, Grab, Banner, Loop, Step, Read, ReadInterrupted,
          ReadFails, RecordEvent, EndLine, FeedEvent, FinishRecorder, DropRecorder,
          Ungrab, Close, Report, Touch, Signal, Kill, ReadHeader, ReadEvent,
          Goto, Leave, Finalize
    <3> QED
      BY <3>1
  <2> QED
    BY <2>1, <2>2
<1>2. grabbed' => onDisk' >= 3
  <2>1. CASE Grab
    <3>1. onDisk >= 3
      BY <2>1 DEF Grab
    <3> QED
      BY <3>1
  <2>2. CASE ~Grab
    <3>1. grabbed' => grabbed
      BY <2>2, Zenon
      DEF Next, Program, Prepare, Run, Cleanup, Environment, Reader, Rest, vars,
          Warn, Open, Create, FlushHeader, Banner, Loop, Step, Read,
          ReadInterrupted, ReadFails, RecordEvent, EndLine, FeedEvent,
          FinishRecorder, DropRecorder, Ungrab, Close, Report, Touch, Signal, Kill,
          ReadHeader, ReadEvent, device
    <3> QED
      BY <3>1
  <2> QED
    BY <2>1, <2>2
<1> QED
  BY <1>1, <1>2

(* Every way to the end fixes which results are left. *)
LEMMA CleanupStep ==
  ASSUME ControlOK, InputOK, TraceOK, LengthInv, CleanupInv, [Next]_vars
  PROVE  CleanupInv'
<1> USE DEF CleanupInv, ControlOK, TraceOK, Leaving, Settling, Blameless, Complete,
      Reading, Goto, Leave, Finalize, StopReasons, Results, input, trace
<1>1. CASE UNCHANGED <<pc, reason, exit, failed, written, onDisk, delivered>>
  BY <1>1
<1>2. CASE Warn  BY <1>2 DEF Warn, command
<1>3. CASE Open  BY <1>3 DEF Open, command
<1>4. CASE Create  BY <1>4 DEF Create, command
<1>5. CASE FlushHeader  BY <1>5 DEF FlushHeader, command
<1>6. CASE Grab
  <2>1. UNCHANGED <<written, delivered, exit, failed>> /\ pc = "grab"
    BY <1>6 DEF Grab, command
  <2>2. \/ pc' = "banner" /\ reason' = reason
        \/ pc' = "finish" /\ reason' = "GrabFailed"
    BY <1>6 DEF Grab, command
  <2>3. Complete
    BY <2>1 DEF LengthInv, Setup
  <2> QED
    BY <2>1, <2>2, <2>3
<1>7. CASE Banner  BY <1>7 DEF Banner, command
<1>8. CASE Loop  BY <1>8 DEF Loop, LengthInv, command
<1>9. CASE Step  BY <1>9 DEF Step, command
<1>10. CASE Read  BY <1>10 DEF Read, command
<1>11. CASE ReadInterrupted  BY <1>11 DEF ReadInterrupted, LengthInv
<1>12. CASE ReadFails  BY <1>12 DEF ReadFails, LengthInv
<1>13. CASE RecordEvent  BY <1>13 DEF RecordEvent, command
<1>14. CASE EndLine  BY <1>14 DEF EndLine, command
<1>15. CASE FeedEvent  BY <1>15 DEF FeedEvent, LengthInv, command
<1>16. CASE FinishRecorder
  <2>1. "finish" \notin failed' => onDisk' = Len(written')
    BY <1>16, FlushFacts DEF FinishRecorder, FinishOk
  <2>2. /\ UNCHANGED <<written, delivered, reason, exit>>
        /\ pc = "finish" /\ pc' = "drop"
    BY <1>16, FlushFacts DEF FinishRecorder
  <2> QED
    BY <2>1, <2>2
<1>17. CASE DropRecorder
  <2>1. /\ UNCHANGED <<written, delivered, reason, exit, failed>>
        /\ pc = "drop" /\ pc' = "ungrab"
    BY <1>17, FlushFacts DEF DropRecorder, command
  <2>2. onDisk = Len(written) => onDisk' = Len(written')
    BY <1>17, <2>1 DEF DropRecorder, Flushed, Unflushed, Refuse
  <2> QED
    BY <2>1, <2>2
<1>18. CASE Ungrab
  <2>1. /\ UNCHANGED <<written, onDisk, delivered, reason, exit>>
        /\ pc = "ungrab" /\ pc' = "close"
    BY <1>18 DEF Ungrab
  <2>2. "finish" \notin failed' => "finish" \notin failed
    BY <1>18 DEF Ungrab
  <2> QED
    BY <2>1, <2>2
<1>19. CASE Close
  <2>1. /\ UNCHANGED <<written, onDisk, delivered, reason, exit>>
        /\ pc = "close" /\ pc' = (IF exit = "none" THEN "report" ELSE "done")
    BY <1>19 DEF Close
  <2>2. "finish" \notin failed' => "finish" \notin failed
    BY <1>19 DEF Close
  <2> QED
    BY <2>1, <2>2
<1>20. CASE Report
  <2>1. /\ UNCHANGED <<written, onDisk, delivered, reason, failed>>
        /\ pc = "report" /\ pc' = "done" /\ exit' \in {Verdict, "Unexpected"}
    BY <1>20 DEF Report
  <2>2. /\ exit' \in {"Stopped", "Stream", "DeviceRelease"} => "finish" \notin failed
        /\ exit' \in {"Stopped", "Stream"} => reason # "Recorder"
    BY <2>1 DEF Verdict
  <2>3. exit' # "none"
    BY <2>1 DEF Verdict
  <2> QED
    BY <2>1, <2>2, <2>3
<1>21. CASE Kill  BY <1>21 DEF Kill, Ended, command
<1> QED
  BY <1>1, <1>2, <1>3, <1>4, <1>5, <1>6, <1>7, <1>8, <1>9, <1>10, <1>11, <1>12,
     <1>13, <1>14, <1>15, <1>16, <1>17, <1>18, <1>19, <1>20, <1>21
  DEF Next, Program, Prepare, Run, Cleanup, Environment, Reader, Rest, vars, command,
      Touch, Signal, ReadHeader, ReadEvent

-----------------------------------------------------------------------------
(* The invariant holds at the start and after every step. *)
LEMMA InitInv == Init => IInv
<1> SUFFICES ASSUME Init PROVE IInv
  OBVIOUS
<1> USE RecordingAssumption DEF Init
<1>1. TypeOK
  BY DEF TypeOK, ControlOK, InputOK, TraceOK, ReaderOK, Points, StopReasons, Results
<1>2. LengthInv /\ BatchInv
  BY DEF LengthInv, BatchInv, InBatch, Setup, Reading, Complete
<1>3. Faithful
  BY DEF Faithful, PiecesOf, Item
<1>4. CleanupInv /\ GrabInv /\ ReleaseInv
  BY DEF CleanupInv, GrabInv, ReleaseInv, Leaving, Settling, Blameless
<1>5. ReaderInv
  BY DEF ReaderInv, YieldedIsPrefix
<1> QED
  BY <1>1, <1>2, <1>3, <1>4, <1>5 DEF IInv, FileInv

LEMMA StepInv == IInv /\ [Next]_vars => IInv'
<1> SUFFICES ASSUME IInv, [Next]_vars PROVE IInv'
  OBVIOUS
<1>1. /\ ControlOK /\ InputOK /\ TraceOK /\ ReaderOK /\ LengthInv /\ BatchInv
      /\ Faithful /\ CleanupInv /\ ReaderInv /\ GrabInv /\ ReleaseInv
  BY DEF IInv, FileInv, TypeOK
<1>2. ControlOK' /\ InputOK'
  BY <1>1, ControlStep, InputStep
<1>3. TraceOK' /\ onDisk' >= onDisk
  BY <1>1, TraceStep
<1>4. onDisk' \in Nat
  BY <1>3 DEF TraceOK
<1>5. ReaderOK' /\ GrabInv'
  BY <1>1, <1>3, <1>4, ReaderTypeStep, GrabStep
<1>6. LengthInv' /\ BatchInv' /\ Faithful'
  BY <1>1, LengthStep, BatchStep, FaithfulStep
<1>7. CleanupInv' /\ ReaderInv' /\ ReleaseInv'
  BY <1>1, CleanupStep, ReaderStep, ReleaseStep
<1> QED
  BY <1>2, <1>3, <1>5, <1>6, <1>7 DEF IInv, FileInv, TypeOK

LEMMA Invariant == Spec => []IInv
BY InitInv, StepInv, PTL DEF Spec

(* The types of Recording hold for every bound. *)
THEOREM TypeCorrect == Spec => []TypeOK
<1>1. IInv => TypeOK
  BY DEF IInv, FileInv
<1> QED
  BY <1>1, Invariant, PTL

(* A reader sees a beginning of what the device delivered, however the file   *)
(* grows, tears or ends under it (reader.rs, recorder.rs).                    *)
THEOREM ReaderSeesPrefix == Spec => []YieldedIsPrefix
<1>1. IInv => YieldedIsPrefix
  BY DEF IInv, ReaderInv
<1> QED
  BY <1>1, Invariant, PTL

(* The device is grabbed only after the header has reached the file           *)
(* (record.rs, prepare).                                                      *)
THEOREM GrabAfterHeader == Spec => []GrabProvesOutput
<1>1. IInv => GrabProvesOutput
  <2> SUFFICES ASSUME IInv PROVE GrabProvesOutput
    OBVIOUS
  <2>1. Len(LineOf(Header)) = 3
    BY PieceType, LineFeedType DEF LineOf, Json
  <2> QED
    BY <2>1 DEF IInv, GrabInv, GrabProvesOutput
<1> QED
  BY <1>1, Invariant, PTL

(* Pieces in their places, with none left over, are the whole trace. *)
LEMMA CompleteTrace ==
  ASSUME InputOK, TraceOK, Faithful, Complete
  PROVE  written = TraceOf(delivered)
<1> DEFINE n == Len(delivered)
           whole == TraceOf(delivered)
<1>1. n \in Nat /\ Len(written) = 3 * (n + 1)
  BY DEF InputOK, Complete
<1>2. /\ written = [k \in 1..(3 * (n + 1)) |-> written[k]]
      /\ whole = [k \in 1..(3 * (n + 1)) |-> whole[k]]
  BY <1>1 DEF TraceOK, TraceOf
<1>3. ASSUME NEW k \in 1..(3 * (n + 1))
      PROVE  written[k] = whole[k]
  <2>1. PICK i \in 0..n : k \in {3 * i + 1, 3 * i + 2, 3 * i + 3}
    <3>1. /\ (k - 1) \div 3 \in 0..n
          /\ k \in {3 * ((k - 1) \div 3) + 1, 3 * ((k - 1) \div 3) + 2,
                    3 * ((k - 1) \div 3) + 3}
      BY <1>1
    <3> QED
      BY <3>1
  <2>2. /\ k <= 3 <=> i = 0
        /\ (k - 1) \div 3 = i
        /\ ((k - 1) % 3) + 1 = k - 3 * i
    BY <1>1, <2>1
  <2>3. whole[k] = LineOf(Item(i))[k - 3 * i]
    BY <2>2 DEF TraceOf, Item
  <2>4. /\ LineOf(Item(i))[1] = [part |-> "head", of |-> Item(i)]
        /\ LineOf(Item(i))[2] = [part |-> "tail", of |-> Item(i)]
        /\ LineOf(Item(i))[3] = LineFeed
    BY DEF LineOf, Json
  <2>5. /\ written[3 * i + 1] = [part |-> "head", of |-> Item(i)]
        /\ written[3 * i + 2] = [part |-> "tail", of |-> Item(i)]
        /\ written[3 * i + 3] = LineFeed
    <3>1. PiecesOf(i)
      BY DEF Faithful
    <3>2. 3 * i + 3 <= Len(written)
      BY <1>1
    <3> QED
      BY <1>1, <3>1, <3>2 DEF PiecesOf
  <2>6. CASE k = 3 * i + 1
    <3>1. k - 3 * i = 1
      BY <1>1, <2>6
    <3> QED
      BY <2>3, <2>4, <2>5, <2>6, <3>1
  <2>7. CASE k = 3 * i + 2
    <3>1. k - 3 * i = 2
      BY <1>1, <2>7
    <3> QED
      BY <2>3, <2>4, <2>5, <2>7, <3>1
  <2>8. CASE k = 3 * i + 3
    <3>1. k - 3 * i = 3
      BY <1>1, <2>8
    <3> QED
      BY <2>3, <2>4, <2>5, <2>8, <3>1
  <2> QED
    BY <2>1, <2>6, <2>7, <2>8
<1> HIDE DEF whole
<1>4. written = whole
  BY <1>2, <1>3
<1> QED
  BY <1>4 DEF whole

(* A result that does not accuse the recorder leaves a file that holds the    *)
(* complete line of every delivered event (record.rs, final_failure).         *)
THEOREM CompleteOrReported == Spec => []CompleteUnlessReported
<1>1. IInv => CompleteUnlessReported
  <2> SUFFICES ASSUME IInv, exit \in {"Stopped", "Stream", "DeviceRelease"},
                      reason # "Recorder"
               PROVE  onDisk = Len(written) /\ written = TraceOf(delivered)
    BY DEF CompleteUnlessReported
  <2>1. ControlOK /\ InputOK /\ TraceOK /\ Faithful /\ CleanupInv
    BY DEF IInv, FileInv, TypeOK
  <2>2. pc = "done" /\ "finish" \notin failed /\ reason \in Blameless
    BY <2>1 DEF CleanupInv, ControlOK, StopReasons, Blameless
  <2>3. onDisk = Len(written) /\ Complete
    BY <2>1, <2>2 DEF CleanupInv, Settling
  <2> QED
    BY <2>1, <2>3, CompleteTrace
<1> QED
  BY <1>1, Invariant, PTL

(* The grab and the descriptor go after the recorder, whose file is then      *)
(* final (record.rs, finalize; runtime.rs, shutdown, fail_open and Drop).     *)
THEOREM RecorderBeforeDevice == Spec => ReleasedLast
<1> DEFINE Order ==
      /\ (Released' /\ ~Released /\ pc' # "killed") => recorder \in {"none", "gone"}
      /\ Released => UNCHANGED trace
<1>1. IInv /\ [Next]_vars => [Order]_vars
  <2> SUFFICES ASSUME IInv, [Next]_vars PROVE Order
    OBVIOUS
  <2>1. ControlOK /\ ReleaseInv
    BY DEF IInv, FileInv, TypeOK
  <2>2. ASSUME Released', ~Released, pc' # "killed" PROVE recorder \in {"none", "gone"}
    <3>1. pc = "ungrab"
      BY <2>1, <2>2
      DEF Released, ControlOK, Next, Program, Prepare, Run, Cleanup, Environment,
          Reader, Rest, vars, Warn, Open, Create, FlushHeader, Grab, Banner, Loop,
          Step, Read, ReadInterrupted, ReadFails, RecordEvent, EndLine, FeedEvent,
          FinishRecorder, DropRecorder, Ungrab, Close, Report, Touch, Signal, Kill,
          ReadHeader, ReadEvent, Goto, Leave, Finalize, device
    <3> QED
      BY <2>1, <3>1 DEF ReleaseInv
  <2>3. ASSUME Released PROVE UNCHANGED trace
    <3>1. pc \in {"close", "report", "done", "killed"}
      BY <2>1, <2>3 DEF Released, ReleaseInv
    <3> QED
      BY <3>1
      DEF Next, Program, Prepare, Run, Cleanup, Environment, Reader, Rest, vars,
          Warn, Open, Create, FlushHeader, Grab, Banner, Loop, Step, Read,
          ReadInterrupted, ReadFails, RecordEvent, EndLine, FeedEvent,
          FinishRecorder, DropRecorder, Ungrab, Close, Report, Touch, Signal, Kill,
          ReadHeader, ReadEvent
  <2> QED
    BY <2>2, <2>3
<1>2. Spec => [][Order]_vars
  BY <1>1, Invariant, PTL DEF Spec
<1> QED
  BY <1>2 DEF ReleasedLast

\* The grab follows the proven header, and a result that does not name the
\* recorder stands for a complete file.
THEOREM FileAnswersForItself == Spec => []OutputAccountedFor
  BY GrabAfterHeader, CompleteOrReported, PTL DEF OutputAccountedFor
-----------------------------------------------------------------------------
(* Reading back: what the end of a recording that was stopped leaves for a *)
(* reader that comes after it.                                             *)

\* The first n events are in order, and none is later than the runtime's last.
SortedTo(n) ==
  /\ \A i, j \in 1..n : i < j => delivered[i].time <= delivered[j].time
  /\ \A i \in 1..n : delivered[i].time <= lastTime

\* Every event that was fed was compared with the one before; unless a resync
\* threw some away these are all, except those of the batch still in hand.
FedInv ==
  ~drained =>
    /\ pc \in {"loop", "step", "read"} \/ reason = "Signal" =>
         SortedTo(Len(delivered))
    /\ pc \in {"record", "newline"} => SortedTo(Len(delivered) - Len(batch))
    /\ pc = "feed" => SortedTo(Len(delivered) - Len(batch) + at - 1)

StopInv == exit = "Stopped" => reason = "Signal" /\ pc = "done"

\* A reader that came after the end has read whole lines only.
WholeSoFar ==
  /\ readerState \in {"ReadingEvents", "Finished"}
  /\ position = 3 * (Len(yielded) + 1)
  /\ readerState = "Finished" => yielded = delivered

LateInv ==
  late => /\ Ended /\ readerState # "AwaitingHeader"
          /\ exit = "Stopped" /\ NonDecreasing(delivered) => WholeSoFar

BackInv == IInv /\ FedInv /\ StopInv /\ LateInv

\* One event more that is not earlier than the last.
LEMMA SortedGrows ==
  ASSUME InputOK, NEW m \in 1..Len(delivered), SortedTo(m - 1),
         lastTime <= delivered[m].time
  PROVE  /\ \A i, j \in 1..m : i < j => delivered[i].time <= delivered[j].time
         /\ \A i \in 1..m : delivered[i].time <= delivered[m].time
<1>1. /\ m \in Nat /\ lastTime \in Nat /\ Len(delivered) \in Nat
      /\ \A i \in 1..m : delivered[i].time \in Nat
  <2>1. MaxTime \in Nat /\ delivered \in Seq(Events) /\ lastTime \in 0..MaxTime
    BY RecordingAssumption DEF InputOK
  <2>2. \A i \in 1..m : delivered[i] \in Events
    BY <2>1
  <2>3. \A e \in Events : e.time \in 0..MaxTime
    BY DEF Events
  <2> QED BY <2>1, <2>2, <2>3
<1>2. ASSUME NEW i \in 1..m
      PROVE  delivered[i].time <= delivered[m].time
  <2>1. CASE i = m
    BY <1>1, <2>1
  <2>2. CASE i # m
    <3>1. i \in 1..(m - 1)
      BY <1>1, <2>2
    <3>2. delivered[i].time <= lastTime
      BY <3>1 DEF SortedTo
    <3> QED BY <1>1, <3>2
  <2> QED BY <2>1, <2>2
<1>3. ASSUME NEW i \in 1..m, NEW j \in 1..m, i < j
      PROVE  delivered[i].time <= delivered[j].time
  <2>1. CASE j = m
    BY <1>2, <2>1
  <2>2. CASE j # m
    <3>1. i \in 1..(m - 1) /\ j \in 1..(m - 1)
      BY <1>1, <1>3, <2>2
    <3> QED BY <1>3, <3>1 DEF SortedTo
  <2> QED BY <2>1, <2>2
<1> QED BY <1>2, <1>3

\* A step of anyone but the ones named leaves what was fed as it is.
LEMMA FedStep ==
  ASSUME IInv, FedInv, [Next]_vars
  PROVE  FedInv'
<1> DEFINE count == Len(delivered)
           before == Len(delivered) - Len(batch)
<1>1. /\ InputOK /\ LengthInv /\ BatchInv /\ CleanupInv /\ ControlOK
  BY DEF IInv, FileInv, TypeOK
<1>2. count \in Nat /\ lastTime \in Nat /\ at \in Nat \ {0} /\ Len(batch) \in Nat
  BY <1>1 DEF InputOK, RecordingAssumption
<1> USE DEF SortedTo, Goto, Finalize, Leave
<1>3. CASE UNCHANGED <<pc, reason, delivered, batch, at, lastTime, drained>>
  BY <1>3 DEF FedInv
<1>4. CASE Banner
  <2>1. delivered = <<>> /\ reason = "none" /\ UNCHANGED <<delivered, reason>>
    BY <1>1, <1>4 DEF Banner, LengthInv, Setup, CleanupInv, Leaving, Settling, input, command
  <2>2. pc' \in {"loop", "finish"}
    BY <1>4 DEF Banner
  <2> QED BY <2>1, <2>2 DEF FedInv
<1>5. CASE Read
  <2>1. /\ batch' \in Seq(Events) /\ delivered' = delivered \o batch'
        /\ pc' = "record" /\ pc = "read" /\ UNCHANGED <<drained, lastTime, reason>>
    BY <1>5, <1>1, BatchFacts DEF Read, command
  <2>2. /\ Len(delivered') - Len(batch') = count
        /\ \A i \in 1..count : delivered'[i] = delivered[i]
    BY <1>1, <2>1 DEF InputOK
  <2>3. reason # "Signal"
    BY <1>1, <2>1 DEF CleanupInv, Leaving, Settling
  <2> QED BY <1>2, <2>1, <2>2, <2>3 DEF FedInv
<1>6. CASE RecordEvent
  <2>1. /\ UNCHANGED <<delivered, batch, drained, lastTime>> /\ pc = "record"
        /\ \/ pc' = "newline" /\ reason' = reason
           \/ pc' = "finish" /\ reason' = "Recorder"
    BY <1>6 DEF RecordEvent, input, command
  <2>2. reason # "Signal"
    BY <1>1, <2>1 DEF CleanupInv, Leaving, Settling
  <2> QED BY <2>1, <2>2 DEF FedInv
<1>7. CASE EndLine
  <2>1. /\ UNCHANGED <<delivered, batch, drained, lastTime>> /\ pc = "newline"
        /\ \/ pc' = "record" /\ reason' = reason
           \/ pc' = "feed" /\ at' = 1 /\ reason' = reason
           \/ pc' = "finish" /\ reason' = "Recorder"
    BY <1>7 DEF EndLine, command
  <2>2. reason # "Signal"
    BY <1>1, <2>1 DEF CleanupInv, Leaving, Settling
  <2>3. before + 1 - 1 = before
    BY <1>2
  <2> QED BY <2>1, <2>2, <2>3 DEF FedInv
<1>8. CASE FeedEvent
  <2>1. pc = "feed" /\ UNCHANGED <<delivered, batch>>
    BY <1>8 DEF FeedEvent
  <2>2. reason # "Signal"
    BY <1>1, <2>1 DEF CleanupInv, Leaving, Settling
  <2>3. /\ at <= Len(batch) /\ Len(batch) <= count
        /\ batch[at] = delivered[before + at] /\ before + at \in 1..count
    BY <1>1, <1>2, <2>1 DEF BatchInv, InBatch
  <2>4. CASE Regresses(batch[at])
    BY <1>8, <2>1, <2>2, <2>4 DEF FeedEvent, FedInv
  <2>5. CASE ~Regresses(batch[at])
    <3>1. /\ lastTime' = batch[at].time
          /\ \/ at < Len(batch) /\ at' = at + 1 /\ pc' = "feed" /\ reason' = reason
                /\ drained' = drained
             \/ at = Len(batch) /\ pc' = "loop" /\ reason' = reason
                /\ drained' = drained
             \/ drained' = TRUE
             \/ pc' = "finish" /\ reason' = "Stream"
      BY <1>8, <2>5 DEF FeedEvent, command
    <3>2. lastTime <= delivered[before + at].time
      <4>1. delivered[before + at] \in Events /\ lastTime \in 0..MaxTime
        BY <1>1, <2>3 DEF InputOK
      <4>2. delivered[before + at].time \in Nat
        BY <4>1, RecordingAssumption DEF Events
      <4> QED BY <1>2, <2>3, <2>5, <4>2 DEF Regresses
    <3>3. ASSUME ~drained
          PROVE  /\ \A i, j \in 1..(before + at) :
                      i < j => delivered'[i].time <= delivered'[j].time
                 /\ \A i \in 1..(before + at) : delivered'[i].time <= lastTime'
      <4> DEFINE m == before + at
      <4>a. SortedTo(before + at - 1)
        BY <2>1, <3>3 DEF FedInv
      <4>b. m \in 1..Len(delivered) /\ lastTime <= delivered[m].time
        BY <2>3, <3>2
      <4>c. m - 1 = before + at - 1
        BY <1>2
      <4> HIDE DEF m, before
      <4>1. m \in 1..Len(delivered) /\ SortedTo(m - 1) /\ lastTime <= delivered[m].time
        BY <4>a, <4>b, <4>c
      <4>2. lastTime' = delivered[m].time
        BY <2>3, <3>1 DEF m, before
      <4>3. /\ \A i, j \in 1..m : i < j => delivered[i].time <= delivered[j].time
            /\ \A i \in 1..m : delivered[i].time <= delivered[m].time
        BY <1>1, <4>1, SortedGrows
      <4>4. /\ \A i, j \in 1..m : i < j => delivered'[i].time <= delivered'[j].time
            /\ \A i \in 1..m : delivered'[i].time <= lastTime'
        BY <2>1, <4>2, <4>3
      <4> QED BY <4>4 DEF m, before
    <3>4. CASE at < Len(batch) /\ at' = at + 1 /\ pc' = "feed" /\ reason' = reason
               /\ drained' = drained
      <4>1. Len(delivered') - Len(batch') + at' - 1 = before + at
        BY <1>2, <2>1, <3>4
      <4> QED BY <2>1, <2>2, <3>3, <3>4, <4>1 DEF FedInv
    <3>5. CASE at = Len(batch) /\ pc' = "loop" /\ reason' = reason /\ drained' = drained
      <4>1. Len(delivered') = before + at
        BY <1>2, <2>1, <3>5
      <4> QED BY <2>1, <2>2, <3>3, <3>5, <4>1 DEF FedInv
    <3>6. CASE drained' = TRUE
      BY <3>6 DEF FedInv
    <3>7. CASE pc' = "finish" /\ reason' = "Stream"
      BY <3>7 DEF FedInv
    <3> QED BY <3>1, <3>4, <3>5, <3>6, <3>7
  <2> QED BY <2>4, <2>5
<1>9. CASE /\ UNCHANGED <<delivered, lastTime, drained>>
           /\ \/ /\ reason' = reason
                 /\ pc' \notin {"loop", "step", "read", "record", "newline", "feed"}
              \/ pc \in {"loop", "step", "read"} /\ reason = reason'
                   /\ pc' \in {"loop", "step", "read"}
              \/ pc' = "finish" /\ reason' # "Signal"
              \/ pc' = "finish" /\ pc \in {"loop", "step", "read"}
  BY <1>9 DEF FedInv
<1> QED
  BY <1>3, <1>4, <1>5, <1>6, <1>7, <1>8, <1>9
  DEF Next, Program, Prepare, Run, Cleanup, Environment, Reader, Rest, vars,
      Warn, Open, Create, FlushHeader, Grab, Loop, Step, ReadInterrupted, ReadFails,
      FinishRecorder, DropRecorder, Ungrab, Close, Report, Touch, Signal, Kill,
      ReadHeader, ReadEvent, command, input

\* Only a termination signal ends a recording with Stopped.
LEMMA StopStep ==
  ASSUME IInv, StopInv, [Next]_vars
  PROVE  StopInv'
<1>1. ControlOK /\ CleanupInv
  BY DEF IInv, FileInv, TypeOK
<1>2. CASE Report
  <2>1. pc = "report" /\ reason # "none" /\ pc' = "done" /\ reason' = reason
    BY <1>1, <1>2 DEF Report, CleanupInv, Leave
  <2>2. exit' = "Stopped" => Verdict = "Stopped"
    BY <1>2 DEF Report, Leave
  <2>3. Verdict = "Stopped" => reason = "Signal"
    BY <1>1, <2>1 DEF Verdict, ControlOK, StopReasons
  <2> QED BY <2>1, <2>2, <2>3 DEF StopInv
<1>3. CASE exit = "Stopped"
  <2>1. reason = "Signal" /\ pc = "done"
    BY <1>3 DEF StopInv
  <2>2. UNCHANGED <<exit, reason, pc>>
    BY <2>1
    DEF Next, Program, Prepare, Run, Cleanup, Environment, Reader, Rest, vars,
        Warn, Open, Create, FlushHeader, Grab, Banner, Loop, Step, Read,
        ReadInterrupted, ReadFails, RecordEvent, EndLine, FeedEvent,
        FinishRecorder, DropRecorder, Ungrab, Close, Report, Touch, Signal, Kill,
        ReadHeader, ReadEvent, command, Ended
  <2> QED BY <2>1, <2>2 DEF StopInv
<1>4. CASE exit' # "Stopped"
  BY <1>4 DEF StopInv
<1> QED
  BY <1>2, <1>3, <1>4
  DEF Next, Program, Prepare, Run, Cleanup, Environment, Reader, Rest, vars,
      Warn, Open, Create, FlushHeader, Grab, Banner, Loop, Step, Read,
      ReadInterrupted, ReadFails, RecordEvent, EndLine, FeedEvent,
      FinishRecorder, DropRecorder, Ungrab, Close, Touch, Signal, Kill,
      ReadHeader, ReadEvent, command, Goto, Leave, Finalize

\* In a whole file, behind a whole line there is the next.
LEMMA WholeLine ==
  ASSUME InputOK, TraceOK, ReaderOK, Faithful, Complete, onDisk = Len(written),
         NEW n \in 0..Len(delivered), position = 3 * n
  PROVE  ~AtEnd /\ LineEnd = 3 * n + 3 /\ IsItem(Item(n))
<1>1. /\ Len(delivered) \in Nat /\ onDisk = 3 * (Len(delivered) + 1)
      /\ written \in Seq(Piece) /\ 3 * n + 3 <= Len(written)
  BY DEF InputOK, TraceOK, Complete
<1>2. ~AtEnd
  BY <1>1 DEF AtEnd
<1>3. /\ written[3 * n + 1] = [part |-> "head", of |-> Item(n)]
      /\ written[3 * n + 2] = [part |-> "tail", of |-> Item(n)]
      /\ written[3 * n + 3] = LineFeed
  <2>1. PiecesOf(n)
    BY DEF Faithful
  <2> QED BY <1>1, <2>1 DEF PiecesOf
<1>4. LineEnd = 3 * n + 3
  <2>1. written[3 * n + 1] # LineFeed /\ written[3 * n + 2] # LineFeed
    BY <1>3 DEF LineFeed
  <2>2. 3 * n + 3 \in LineFeeds
    BY <1>1, <1>3 DEF LineFeeds
  <2>3. 3 * n + 1 \notin LineFeeds /\ 3 * n + 2 \notin LineFeeds
    BY <2>1 DEF LineFeeds
  <2>4. LineEnd \in LineFeeds /\ LineEnd <= 3 * n + 3 /\ LineEnd \in (3 * n + 1)..onDisk
    BY <1>2, <2>2, LineEndFacts
  <2>5. LineEnd \in {3 * n + 1, 3 * n + 2, 3 * n + 3}
    BY <1>1, <2>4
  <2> QED BY <2>3, <2>4, <2>5
<1>5. IsItem(Item(n))
  <2> DEFINE line == SubSeq(written, 3 * n + 1, 3 * n + 3)
             whole == Append(Json(Item(n)), LineFeed)
  <2>1. /\ line \in Seq(Piece) /\ Len(line) = 3
        /\ \A i \in 1..3 : line[i] = written[3 * n + i]
    <3> DEFINE from == 3 * n + 1
               to == 3 * n + 3
    <3>1. /\ from \in Int /\ to \in Int /\ from <= to /\ to - from + 1 = 3
          /\ \A i \in from..to : written[i] \in Piece
      <4>1. n \in Nat
        BY <1>1
      <4>2. \A i \in from..to : i \in 1..Len(written)
        BY <1>1, <4>1
      <4>3. \A i \in from..to : written[i] \in Piece
        <5>1. \A i \in 1..Len(written) : written[i] \in Piece
          BY <1>1, ElementOfSeq
        <5> HIDE DEF from, to
        <5> QED BY <4>2, <5>1
      <4>4. from \in Int /\ to \in Int /\ from <= to /\ to - from + 1 = 3
        BY <4>1
      <4> QED BY <4>3, <4>4
    <3> HIDE DEF from, to
    <3>2. /\ SubSeq(written, from, to) \in Seq(Piece)
          /\ Len(SubSeq(written, from, to)) = to - from + 1
          /\ \A i \in 1..(to - from + 1) : SubSeq(written, from, to)[i] = written[from + i - 1]
      BY <3>1, SubSeqProperties
    <3>3. \A i \in 1..3 : from + i - 1 = 3 * n + i
      BY <1>1 DEF from
    <3>4. \A i \in 1..3 : SubSeq(written, from, to)[i] = written[3 * n + i]
      BY <3>1, <3>2, <3>3
    <3> QED BY <3>1, <3>2, <3>4 DEF from, to
  <2>2. /\ line[1] = written[3 * n + 1] /\ line[2] = written[3 * n + 2]
        /\ line[3] = written[3 * n + 3]
    <3> HIDE DEF line
    <3> QED BY <2>1
  <2>3. Item(n) \in Events \cup {Header}
    BY DEF Item, InputOK
  <2>4. /\ Json(Item(n)) \in Seq(Piece) /\ Len(Json(Item(n))) = 2
        /\ Json(Item(n))[1] = [part |-> "head", of |-> Item(n)]
        /\ Json(Item(n))[2] = [part |-> "tail", of |-> Item(n)]
        /\ LineFeed \in Piece
    <3>1. LineFeed \in Piece
      BY DEF LineFeed, Piece
    <3>2. Json(Item(n))[2] = [part |-> "tail", of |-> Item(n)]
      BY DEF Json
    <3> QED BY <2>3, <3>1, <3>2, PieceType
  <2>5. /\ whole \in Seq(Piece) /\ Len(whole) = 3 /\ whole[3] = written[3 * n + 3]
        /\ whole[1] = written[3 * n + 1] /\ whole[2] = written[3 * n + 2]
    <3> DEFINE object == Json(Item(n))
    <3>1. /\ object \in Seq(Piece) /\ Len(object) = 2 /\ LineFeed \in Piece
          /\ object[1] = written[3 * n + 1] /\ object[2] = written[3 * n + 2]
      BY <1>3, <2>4
    <3> HIDE DEF object
    <3>2. /\ Append(object, LineFeed) \in Seq(Piece)
          /\ Len(Append(object, LineFeed)) = Len(object) + 1
          /\ \A i \in 1..Len(object) : Append(object, LineFeed)[i] = object[i]
          /\ Append(object, LineFeed)[Len(object) + 1] = LineFeed
      <4>1. LineFeed \in Piece /\ object \in Seq(Piece)
        BY <3>1
      <4>2. Append(object, LineFeed) \in Seq(Piece)
        BY ONLY <4>1, AppendProperties
      <4>3. Len(Append(object, LineFeed)) = Len(object) + 1
        BY ONLY <4>1, AppendProperties
      <4>4. \A i \in 1..Len(object) : Append(object, LineFeed)[i] = object[i]
        BY ONLY <4>1, AppendProperties
      <4>5. Append(object, LineFeed)[Len(object) + 1] = LineFeed
        BY ONLY <4>1, AppendProperties
      <4> QED BY <4>2, <4>3, <4>4, <4>5
    <3>3. /\ Len(Append(object, LineFeed)) = 3
          /\ Append(object, LineFeed)[1] = object[1]
          /\ Append(object, LineFeed)[2] = object[2]
          /\ Append(object, LineFeed)[3] = LineFeed
      BY <3>1, <3>2
    <3> QED BY <1>3, <3>1, <3>2, <3>3 DEF object
  <2> HIDE DEF line, whole
  <2>6. \A i \in 1..Len(line) : line[i] = whole[i]
    BY <2>1, <2>2, <2>5
  <2>7. line = whole
    BY <2>1, <2>5, <2>6, SeqEqual
  <2>8. position + 1 = 3 * n + 1
    BY <1>1
  <2> QED BY <1>4, <2>7, <2>8 DEF IsItem, line, whole
<1> QED BY <1>2, <1>4, <1>5

\* After a recording that was stopped the file is whole.
LEMMA StoppedIsWhole ==
  ASSUME IInv, StopInv, exit = "Stopped"
  PROVE  Complete /\ onDisk = Len(written)
<1>1. ControlOK /\ CleanupInv
  BY DEF IInv, FileInv, TypeOK
<1>2. pc = "done" /\ reason = "Signal" /\ "finish" \notin failed
  BY <1>1 DEF CleanupInv, StopInv
<1> QED BY <1>1, <1>2 DEF CleanupInv, Settling, Blameless

\* Once the command has ended nobody but a reader does anything.
LEMMA EndIsFinal ==
  ASSUME Ended, [Next]_vars
  PROVE  UNCHANGED <<pc, command, delivered, trace>>
         /\ (ReadHeader \/ ReadEvent \/ UNCHANGED reader)
BY DEF Ended, Next, Program, Prepare, Run, Cleanup, Environment, Reader, Rest, vars,
    Warn, Open, Create, FlushHeader, Grab, Banner, Loop, Step, Read,
    ReadInterrupted, ReadFails, RecordEvent, EndLine, FeedEvent,
    FinishRecorder, DropRecorder, Ungrab, Close, Report, Touch, Signal, Kill,
    ReadHeader, ReadEvent, input

\* A late reader that takes a line of a whole, ordered file takes the next one.
LEMMA LateRead ==
  ASSUME IInv, Complete, onDisk = Len(written), NonDecreasing(delivered), WholeSoFar,
         ReadEvent
  PROVE  WholeSoFar'
<1> DEFINE k == Len(yielded)
           count == Len(delivered)
<1>1. /\ InputOK /\ TraceOK /\ ReaderOK /\ LengthInv /\ Faithful /\ ReaderInv
      /\ YieldedIsPrefix
  BY DEF IInv, FileInv, TypeOK, ReaderInv
<1>2. /\ readerState = "ReadingEvents" /\ delivered' = delivered
  BY DEF ReadEvent, input
<1>3. /\ k \in Nat /\ k <= count /\ count \in Nat /\ position = 3 * (k + 1)
      /\ yielded \in Seq(Events) /\ delivered \in Seq(Events)
      /\ onDisk = 3 * (count + 1) /\ \A i \in 1..k : yielded[i] = delivered[i]
  BY <1>1 DEF YieldedIsPrefix, InputOK, ReaderOK, Complete, WholeSoFar
<1>4. CASE AtEnd
  <2>1. readerState' = "Finished" /\ position' = position /\ yielded' = yielded
    BY <1>4 DEF ReadEvent
  <2>2. k = count
    BY <1>3, <1>4 DEF AtEnd
  <2>3. yielded = delivered
    BY <1>3, <2>2, SeqEqual
  <2> QED BY <1>2, <2>1, <2>3 DEF WholeSoFar
<1>5. CASE ~AtEnd
  <2>1. k + 1 \in 0..count /\ k + 1 \in 1..count /\ position = 3 * (k + 1)
    BY <1>3, <1>5 DEF AtEnd
  <2>2. LineEnd = 3 * (k + 1) + 3 /\ IsItem(Item(k + 1)) /\ Item(k + 1) = delivered[k + 1]
    <3>1. Item(k + 1) = delivered[k + 1]
      BY <1>3 DEF Item
    <3> DEFINE n == k + 1
    <3>2. n \in 0..Len(delivered) /\ position = 3 * n
      BY <2>1
    <3> HIDE DEF n
    <3>3. LineEnd = 3 * n + 3 /\ IsItem(Item(n))
      BY <1>1, <3>2, WholeLine
    <3> QED BY <3>1, <3>3 DEF n
  <2>3. delivered[k + 1] \in Events
    BY <1>3, <2>1
  <2>4. InOrder(delivered[k + 1])
    <3>1. CASE yielded = <<>>
      BY <3>1 DEF InOrder
    <3>2. CASE yielded # <<>>
      <4>1. k \in 1..k /\ k \in DOMAIN delivered /\ k + 1 \in DOMAIN delivered /\ k < k + 1
        BY <1>3, <2>1, <3>2
      <4>2. delivered[k].time <= delivered[k + 1].time
        BY <4>1 DEF NonDecreasing
      <4>3. yielded[k] = delivered[k]
        BY <1>3, <4>1
      <4> QED BY <4>2, <4>3 DEF InOrder
    <3> QED BY <3>1, <3>2
  <2>5. PICK event \in Events : /\ IsItem(event) /\ position' = LineEnd
                                /\ yielded' = Append(yielded, event)
                                /\ readerState' = readerState
    BY <1>5, <2>2, <2>3, <2>4 DEF ReadEvent
  <2>6. Len(yielded') = k + 1
    BY <1>3, <2>5
  <2>7. position' = 3 * (Len(yielded') + 1)
    BY <1>3, <2>2, <2>5, <2>6
  <2> QED BY <1>2, <2>5, <2>7 DEF WholeSoFar
<1> QED BY <1>4, <1>5

\* Whoever begins to read after a recording that was stopped goes on to the end.
LEMMA LateStep ==
  ASSUME IInv, StopInv, LateInv, [Next]_vars
  PROVE  LateInv'
<1>1. /\ InputOK /\ TraceOK /\ ReaderOK /\ Faithful /\ ReaderInv
  BY DEF IInv, FileInv, TypeOK
<1>2. CASE ReadHeader
  <2>1. /\ late' = Ended /\ Ended' = Ended /\ exit' = exit /\ delivered' = delivered
        /\ readerState = "AwaitingHeader" /\ yielded' = yielded
        /\ position' = LineEnd /\ readerState' \in {"ReadingEvents", "Failed"}
        /\ IsItem(Header) => readerState' = "ReadingEvents"
    BY <1>2 DEF ReadHeader, AfterBadLine, Ended, command, input
  <2>2. position = 0 /\ yielded = <<>>
    BY <1>1, <2>1 DEF ReaderInv
  <2>3. ASSUME exit = "Stopped" PROVE WholeSoFar'
    <3>1. Complete /\ onDisk = Len(written)
      BY <2>3, StoppedIsWhole
    <3>2. position = 3 * 0 /\ 0 \in 0..Len(delivered)
      BY <1>1, <2>2 DEF InputOK
    <3>3. LineEnd = 3 * 0 + 3 /\ IsItem(Item(0)) /\ Item(0) = Header
      BY <1>1, <3>1, <3>2, WholeLine DEF Item
    <3> QED BY <2>1, <2>2, <3>3 DEF WholeSoFar
  <2> QED BY <2>1, <2>3 DEF LateInv
<1>3. CASE ReadEvent
  <2>1. /\ late' = late /\ Ended' = Ended /\ exit' = exit /\ delivered' = delivered
        /\ readerState' # "AwaitingHeader"
    BY <1>3 DEF ReadEvent, AfterBadLine, Ended, command, input
  <2>2. ASSUME late, exit = "Stopped", NonDecreasing(delivered) PROVE WholeSoFar'
    <3>1. Complete /\ onDisk = Len(written)
      BY <2>2, StoppedIsWhole
    <3>2. WholeSoFar
      BY <2>2 DEF LateInv
    <3> QED BY <1>3, <2>2, <3>1, <3>2, LateRead
  <2> QED BY <2>1, <2>2 DEF LateInv, NonDecreasing
<1>4. CASE UNCHANGED reader
  <2>1. CASE ~late
    BY <1>4, <2>1 DEF LateInv, reader
  <2>2. CASE late
    <3>1. Ended
      BY <2>2 DEF LateInv
    <3>2. UNCHANGED <<pc, command, delivered, trace>>
      BY <3>1, EndIsFinal
    <3> QED
      BY <1>4, <3>2 DEF LateInv, WholeSoFar, Ended, NonDecreasing, command, reader
  <2> QED BY <2>1, <2>2
<1> QED
  BY <1>2, <1>3, <1>4
  DEF Next, Program, Prepare, Run, Cleanup, Environment, Reader, Rest, vars,
      Warn, Open, Create, FlushHeader, Grab, Banner, Loop, Step, Read,
      ReadInterrupted, ReadFails, RecordEvent, EndLine, FeedEvent,
      FinishRecorder, DropRecorder, Ungrab, Close, Report, Touch, Signal, Kill

\* Whenever a reader comes, what it yields is a beginning of what the device
\* delivered; and one that comes after a recording ended with Stopped never fails
\* and ends with every event (record.rs finalize; reader.rs next_event).
THEOREM TraceReadsBack == Spec => []ReadsBack
<1>1. Init => BackInv
  BY InitInv DEF Init, BackInv, FedInv, StopInv, LateInv
<1>2. BackInv /\ [Next]_vars => BackInv'
  BY StepInv, FedStep, StopStep, LateStep DEF BackInv
<1>3. BackInv => ReadsBack
  <2> SUFFICES ASSUME BackInv PROVE ReadsBack
    OBVIOUS
  <2>1. YieldedIsPrefix
    BY DEF BackInv, IInv, ReaderInv
  <2>2. ASSUME exit = "Stopped", late, drained => NonDecreasing(delivered)
        PROVE  /\ readerState # "Failed"
               /\ readerState = "Finished" => yielded = delivered
    <3>1. ~drained => SortedTo(Len(delivered))
      BY <2>2 DEF BackInv, FedInv, StopInv
    <3>2. DOMAIN delivered = 1..Len(delivered)
      BY DEF BackInv, IInv, FileInv, TypeOK, InputOK
    <3>3. NonDecreasing(delivered)
      BY <2>2, <3>1, <3>2 DEF NonDecreasing, SortedTo
    <3> QED BY <2>2, <3>3 DEF BackInv, LateInv, WholeSoFar
  <2> QED BY <2>1, <2>2 DEF ReadsBack, StoppedTraceReplays
<1> QED BY <1>1, <1>2, <1>3, PTL DEF Spec
=============================================================================
