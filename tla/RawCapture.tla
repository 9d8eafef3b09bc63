----------------------------- MODULE RawCapture ------------------------------
(***************************************************************************)
(* `touchpadctl windows-capture`: the touchpads Raw Input lists, the file  *)
(* with its header (cmd/windows.rs), the message loop that copies the HID  *)
(* reports of each WM_INPUT (win32.rs, capture.rs), one line for each, and *)
(* the summary at the end of the time.  The devices, the messages and the  *)
(* clock are Windows'; every call of it may fail.                          *)
(***************************************************************************)
EXTENDS Naturals, Sequences, FiniteSets

CONSTANTS
  Lists,        \* what GetRawInputDeviceList may tell: sets of devices
  Messages,     \* what a message may carry: [kind, fits, count]
  MaxMessages   \* bound: messages within the time

ASSUME CaptureAssumption ==
  Messages \subseteq [kind : {"hid", "short", "other"}, fits : BOOLEAN, count : Nat]

VARIABLE capture

captureVars == <<capture>>

(* A device of another type, one that does not describe itself, or one of  *)
(* another usage is passed over.                                           *)
IsTouchpad(d) == d.type = "hid" /\ d.described /\ d.usage = "touchpad"

enumerate_touchpads(list) == {d \in list : IsTouchpad(d)}

(* at; the header and the report lines of the file, its summary; whether   *)
(* the last line was cut short; the loop's summary; reports copied and not *)
(* yet written; the message-only window; how the command ended.            *)
NoSummary == [messages |-> 0, reports |-> 0]

NoCapture ==
  [at |-> "off", file |-> FALSE, header |-> FALSE, lines |-> 0, cut |-> FALSE,
   told |-> {}, summary |-> NoSummary, left |-> 0, window |-> FALSE, ok |-> FALSE,
   inputs |-> 0, messages |-> 0]

CaptureInit == capture = NoCapture

Step(place) == capture.at = place

(* An error leaves the loop, whose guard destroys the window, and the      *)
(* command.                                                                *)
Abandon == capture' = [capture EXCEPT !.at = "over", !.window = FALSE, !.left = 0]

(* A line that cannot be written is in the file not at all, in part, or,   *)
(* when the buffer is flushed once more as it is dropped, whole.           *)
WriteFails(written) ==
  \E landed \in {capture, [capture EXCEPT !.cut = TRUE], written} :
    capture' = [landed EXCEPT !.at = "over", !.window = FALSE, !.left = 0]

-----------------------------------------------------------------------------

Enumerate ==
  /\ Step("off")
  /\ \/ Abandon                                     \* the list cannot be had
     \/ \E list \in Lists :
          IF enumerate_touchpads(list) = {} THEN Abandon
          ELSE capture' = [capture EXCEPT !.at = "create"]

CreateFile ==
  /\ Step("create")
  /\ Abandon \/ capture' = [capture EXCEPT !.at = "header", !.file = TRUE]

WriteHeader ==
  /\ Step("header")
  /\ LET written == [capture EXCEPT !.at = "open", !.header = TRUE]
     IN  WriteFails(written) \/ capture' = written

(* The status line, the duration, the window, its registration.            *)
OpenWindow ==
  \/ /\ Step("open")
     /\ Abandon \/ capture' = [capture EXCEPT !.at = "register", !.window = TRUE]
  \/ /\ Step("register")
     /\ Abandon \/ capture' = [capture EXCEPT !.at = "loop"]

(* read_raw_hid: no report when the input is not HID or is empty, an error *)
(* when the payload is shorter than it says.                               *)
Copied(m) == IF m.kind = "hid" THEN m.count ELSE 0
Malformed(m) == m.kind = "short" \/ (m.kind = "hid" /\ m.count > 0 /\ ~m.fits)

\* mutant: the reports of a message are counted when it is read
CountedAtOnce(m) == [messages |-> capture.summary.messages + 1,
                     reports |-> capture.summary.reports + Copied(m)]
CountMessage(m) ==
  [capture.summary EXCEPT !.messages = IF Copied(m) > 0 THEN @ + 1 ELSE @]

TakeMessage ==
  /\ Step("loop") /\ capture.messages < MaxMessages
  /\ \E m \in Messages :
       IF Malformed(m) THEN Abandon
       ELSE capture' = [capture EXCEPT
              !.at = IF Copied(m) > 0 THEN "reports" ELSE "loop",
              !.left = Copied(m), !.summary = CountMessage(m), !.messages = @ + 1,
              !.inputs = IF Copied(m) > 0 THEN @ + 1 ELSE @]

(* on_report: counted, then written and flushed; the first that cannot be  *)
(* written ends the capture.                                               *)
WriteReport ==
  /\ Step("reports")
  /\ LET written == [capture EXCEPT
           !.summary.reports = @ + 1, !.lines = @ + 1, !.left = @ - 1,
           !.at = IF capture.left = 1 THEN "loop" ELSE "reports"]
     IN  WriteFails(written) \/ capture' = written

(* The time is looked at between two rounds of messages.                   *)
TimeIsUp ==
  /\ Step("loop") /\ capture' = [capture EXCEPT !.at = "summary", !.window = FALSE]

WriteSummary ==
  /\ Step("summary")
  /\ LET written == [capture EXCEPT !.at = "tell", !.told = {capture.summary}]
     IN  WriteFails(written) \/ capture' = written

Told ==
  /\ Step("tell")
  /\ Abandon \/ capture' = [capture EXCEPT !.at = "over", !.ok = TRUE]

CaptureNext ==
  \/ Enumerate \/ CreateFile \/ WriteHeader \/ OpenWindow
  \/ TakeMessage \/ WriteReport \/ TimeIsUp \/ WriteSummary \/ Told

-----------------------------------------------------------------------------
(* Properties                                                              *)

(* A capture can be judged by its file: a summary is only ever the last    *)
(* line of a file with a header, whole, and its counts are those of the    *)
(* lines above it and of the messages they came in; the command succeeds   *)
(* only with one; and no window outlives it (cmd/windows.rs run_capture;   *)
(* win32.rs WindowGuard).                                                  *)
CaptureAddsUp ==
  /\ \A s \in capture.told : /\ capture.header /\ ~capture.cut
                             /\ s.reports = capture.lines /\ s.messages = capture.inputs
  /\ capture.ok => capture.told # {}
  /\ Step("over") => ~capture.window
=============================================================================
