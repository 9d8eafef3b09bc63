------------------------------- MODULE Replay -------------------------------
(***************************************************************************)
(* A trace file read line by line (reader.rs) and replayed into the        *)
(* decoder: by ReplayDriver, as `touchpadctl replay` does, or by a caller  *)
(* of the library who does not stop at an error and calls on.              *)
(*                                                                         *)
(* The file holds any lines: each call that reads finds one of Lines, the  *)
(* end of the file, or an I/O error.  soured and holed are for the         *)
(* properties: a line could not be taken; a frame never reached the output.*)
(***************************************************************************)
EXTENDS TraceDecoder

CONSTANTS Times   \* the time stamps a line may carry

ASSUME TimesAssumption == Times \subseteq Nat

VARIABLES
  caller,       \* who reads: ReplayDriver, or a caller that carries on
  hasSource,    \* a resync source is configured (the command has none)
  reader,       \* TraceReader.state
  last,         \* TraceReader.last_time; 0 before any event
  outcome,      \* what the command returned, or "running"
  writeFailed,  \* FramePrinterSink.write_failed
  soured, holed

reading == <<caller, hasSource, reader, last, outcome, writeFailed, soured, holed>>
replayVars == <<decoder, at, said, reading>>

-----------------------------------------------------------------------------
(* A line as the parser tells lines apart.  A number is absent or not a     *)
(* number, has a fraction, is out of the field's range, or fits; too many   *)
(* seconds fit the field and overflow the nanoseconds.                      *)

Numbers == {"absent", "fractional", "outside", "fits"}
HeaderLines == [kind : {"header"}, schema : Numbers \cup {"older", "newer"},
                clock : {"monotonic", "other"}, device : {"usable", "unusable"}]
EventLines == [kind : {"event"}, numbers : Numbers \cup {"overflows"},
               time : Times, event : Events]
Lines == HeaderLines \cup EventLines
           \cup {[kind |-> "calibration"], [kind |-> "unparsable"]}

NumberError(n) ==
  CASE n = "absent" -> "CorruptedLine"
    [] n \in {"fractional", "outside", "overflows"} -> "InvalidField"
    [] OTHER -> "None"

SchemaError(l) ==
  CASE l.schema = "newer" -> "SchemaTooNew"
    [] l.schema = "older" -> "SchemaTooOld"
    [] OTHER -> NumberError(l.schema)

(* parse_header: the version before the clock.                              *)
HeaderError(l) ==
  CASE l.kind = "unparsable" -> "CorruptedLine"
    [] l.kind \in {"event", "calibration"} -> "MissingHeader"
    [] l.kind = "header" /\ SchemaError(l) # "None" -> SchemaError(l)
    [] l.kind = "header" /\ SchemaError(l) = "None" ->
         IF l.clock = "monotonic" THEN "None" ELSE "InvalidField"

(* read_event: shape, kind, fields, then the time against the one before.   *)
EventError(l) ==
  CASE l.kind = "unparsable" -> "CorruptedLine"
    [] l.kind = "header" -> "DuplicateHeader"
    [] l.kind = "calibration" -> "UnknownLineKind"
    [] l.kind = "event" /\ NumberError(l.numbers) # "None" -> NumberError(l.numbers)
    [] l.kind = "event" /\ NumberError(l.numbers) = "None" ->
         IF l.time < last THEN "TimeRegression" ELSE "None"

-----------------------------------------------------------------------------
ReaderStates == {"AwaitingHeader", "ReadingEvents", "Finished", "Failed"}
Outcomes == {"running", "Ok", "Trace", "Replay", "Stream", "Unexpected"}

ExitCode == [Ok |-> 0, Trace |-> 5, Replay |-> 5, Stream |-> 6, Unexpected |-> 9]

ReplayInit ==
  /\ Init
  /\ caller \in {"driver", "persistent"}
  /\ hasSource \in BOOLEAN /\ (caller = "driver" => ~hasSource)
  /\ reader = "AwaitingHeader" /\ last = 0
  /\ outcome = "running" /\ writeFailed = FALSE
  /\ soured = FALSE /\ holed = FALSE

(* The reader may be called: the decoder is not inside a resync.            *)
Calling == outcome = "running" /\ sync # "Recovering"

(* The driver returns at the first error, finishing nothing.                *)
GiveUp(o) == outcome' = IF caller = "driver" THEN o ELSE "running"

Same == UNCHANGED <<caller, hasSource>>
Untouched == UNCHANGED <<decoder, at, said>>

PoisonNothing(o) ==   \* mutant: the reader stays usable after an error
  /\ soured' = TRUE /\ GiveUp(o) /\ UNCHANGED reader

(* poison: the line is consumed and the reader is done for good.            *)
Poison(o) ==
  /\ reader' = "Failed" /\ soured' = TRUE /\ GiveUp(o)

(* File::open failed.                                                       *)
OpenFails ==
  /\ caller = "driver" /\ reader = "AwaitingHeader" /\ outcome = "running"
  /\ outcome' = "Trace"
  /\ Same /\ Untouched /\ UNCHANGED <<reader, last, writeFailed, soured, holed>>

BadHeader ==
  /\ Calling /\ reader = "AwaitingHeader"
  /\ {l \in Lines : HeaderError(l) # "None"} # {}
  /\ Poison("Trace")
  /\ Same /\ Untouched /\ UNCHANGED <<last, writeFailed, holed>>

(* An empty file leaves the reader where it was.                            *)
EmptyTrace ==
  /\ Calling /\ reader = "AwaitingHeader"
  /\ GiveUp("Trace")
  /\ Same /\ Untouched /\ UNCHANGED <<reader, last, writeFailed, soured, holed>>

(* read_header, then on_header: configure refuses an unusable device.       *)
TakeHeader ==
  /\ Calling /\ reader = "AwaitingHeader"
  /\ \E l \in HeaderLines :
       /\ HeaderError(l) = "None"
       /\ IF l.device = "usable" THEN UNCHANGED outcome ELSE GiveUp("Replay")
       /\ l.device = "unusable" => caller = "driver"
  /\ reader' = "ReadingEvents"
  /\ Same /\ Untouched /\ UNCHANGED <<last, writeFailed, soured, holed>>

ReadError ==
  /\ Calling /\ reader \in {"AwaitingHeader", "ReadingEvents"}
  /\ Poison("Trace")
  /\ Same /\ Untouched /\ UNCHANGED <<last, writeFailed, holed>>

BadEvent ==
  /\ Calling /\ reader = "ReadingEvents"
  /\ {l \in Lines : EventError(l) # "None"} # {}
  /\ Poison("Trace")
  /\ Same /\ Untouched /\ UNCHANGED <<last, writeFailed, holed>>

(* on_frame: a frame that could not be written is not written again.        *)
PrintFrame(ok) ==
  /\ writeFailed' = (writeFailed \/ ~ok)
  /\ holed' = (holed \/ ~ok)

(* What a step does to the output: it prints the frame it published, if any.*)
Output ==
  IF frame' = frame THEN UNCHANGED <<writeFailed, holed>>
  ELSE \E ok \in BOOLEAN : PrintFrame(ok)

(* read_event, then on_event: feed, and with it any frame.                  *)
TakeEvent ==
  /\ Calling /\ reader = "ReadingEvents" /\ sync # "Degraded"
  /\ \E l \in EventLines :
       /\ EventError(l) = "None"
       /\ last' = l.time
       /\ Feed(l.event) /\ Hear(l.event)
  /\ Output
  /\ Same /\ UNCHANGED <<reader, outcome, soured>>

(* The resync inside feed, with a source: its snapshot, or its failure.     *)
SourceAnswers ==
  /\ sync = "Recovering" /\ hasSource /\ Resynchronize /\ Output
  /\ Same /\ UNCHANGED <<reader, last, outcome, soured>>

(* on_event fails; the driver never reads another line.                     *)
NoSnapshot ==
  /\ sync = "Recovering" /\ FailRecovery /\ GiveUp("Stream")
  /\ Same /\ UNCHANGED <<reader, last, writeFailed, soured, holed>>

(* feed refuses everything once degraded.                                   *)
RefusedEvent ==
  /\ Calling /\ reader = "ReadingEvents" /\ sync = "Degraded"
  /\ \E l \in EventLines : EventError(l) = "None" /\ last' = l.time
  /\ GiveUp("Stream")
  /\ Same /\ Untouched /\ UNCHANGED <<reader, writeFailed, soured, holed>>

(* finish, and what the command makes of the result.                        *)
Finish ==
  CASE sync # "Normal" -> "Replay"
    [] sync = "Normal" /\ writeFailed -> "Unexpected"
    [] OTHER -> "Ok"

EndOfTrace ==
  /\ Calling /\ reader = "ReadingEvents"
  /\ reader' = "Finished"
  /\ GiveUp(Finish)
  /\ Same /\ Untouched /\ UNCHANGED <<last, writeFailed, soured, holed>>

Read == OpenFails \/ BadHeader \/ EmptyTrace \/ TakeHeader \/ ReadError
          \/ BadEvent \/ EndOfTrace
Decode == TakeEvent \/ SourceAnswers \/ NoSnapshot \/ RefusedEvent

ReplayNext == Read \/ Decode

ReplaySpec == ReplayInit /\ [][ReplayNext]_replayVars

-----------------------------------------------------------------------------
ReplayTypeOK ==
  /\ TypeOK
  /\ caller \in {"driver", "persistent"} /\ hasSource \in BOOLEAN
  /\ reader \in ReaderStates /\ last \in Times \cup {0}
  /\ outcome \in Outcomes
  /\ writeFailed \in BOOLEAN /\ soured \in BOOLEAN /\ holed \in BOOLEAN

(* Reading is fail-stop (reader.rs, module docs): once a line could not be  *)
(* taken, nothing behind it reaches the decoder, whoever goes on calling,   *)
(* and the times that reached it never go back.                             *)
NothingAfterTheOffence ==
  [][/\ soured => UNCHANGED <<decoder, at, said>>
     /\ last' >= last]_replayVars

(* Exit 0 promises a whole replay: every line was taken, the decoder is in  *)
(* step with them, and every frame it published is on the output.           *)
CleanExit ==
  outcome # "running" /\ ExitCode[outcome] = 0 =>
    /\ reader = "Finished" /\ ~soured
    /\ sync = "Normal" /\ ~holed

(* Reading a trace is decoding it: the replay implements the decoder fed    *)
(* with arbitrary events, so what holds of that holds of every replay.      *)
DecodesTheTrace == Spec

(* The decoder hears the lines up to the first one that cannot be taken,    *)
(* as it would hear them from a device, and nothing behind it.              *)
StopsAtTheOffence == NothingAfterTheOffence /\ DecodesTheTrace

(* Whatever the lines are, the half-read packet means what the lines taken  *)
(* so far say (decode.rs, on fresh contacts and SYN_DROPPED), and a command *)
(* that says it replayed the trace has replayed all of it.                  *)
InStepToTheEnd == ReplayTypeOK /\ InStep /\ CleanExit
=============================================================================
