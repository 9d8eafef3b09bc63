------------------------------ MODULE Takeover ------------------------------
(***************************************************************************)
(* The takeover coordinator of touchpadctl (cmd/takeover.rs) together with *)
(* the resources it owns: the evdev runtime and its device handle          *)
(* (touchpad-linux runtime.rs, grab.rs), the raw-event recorder, the       *)
(* read-only keyboard listeners, the semantic bridge (bridge.rs) and the   *)
(* output session.  It is one sequential program, written here as one      *)
(* action per call that can fail or block, so that a signal, a server-side *)
(* interruption of the output session, an unwind or the passage of time    *)
(* can fall between any two of them.                                       *)
(*                                                                         *)
(* The gesture policy and the wire protocol of the output session are      *)
(* abstracted to three bits: a button or scroll is held on the desktop     *)
(* (held), its release is deferred to the follow-up tap window (deferred), *)
(* and the compositor has interrupted the session (lost).                  *)
(***************************************************************************)
EXTENDS Naturals

CONSTANTS
  CountdownSeconds,  \* visible countdown of the interactive command
  MaxDuration,       \* --max-duration-seconds, in clock ticks
  PollQuantum,       \* the longest readiness wait, in clock ticks
  TapGap,            \* follow-up window of a tap, in clock ticks
  MaxBatch           \* events delivered by one read

ASSUME TakeoverAssumption ==
  /\ CountdownSeconds \in Nat /\ MaxDuration \in Nat
  /\ PollQuantum \in Nat \ {0} /\ TapGap \in Nat /\ MaxBatch \in Nat \ {0}

VARIABLES
  command,           \* "takeover": trace, countdown, deadline; "service": none
  watching,          \* a settings watcher runs in the loop
  pc,                \* the call the coordinator is about to make
  primary,           \* the StopReason handed to finalize
  exit,              \* the command's result, "running" until it returns
  unwinding,         \* the guard's Drop runs instead of finalize
  stopRequested,     \* stop flag or SIGINT/SIGTERM static
  countdown,         \* seconds left of the countdown
  elapsed, waited,   \* ticks since run_loop began, ticks of the current wait
  keyboards,         \* a DWT keyboard listener is open
  unattached,        \* guard.unattached_recorder is Some
  recorder,          \* the runtime holds the recorder
  traceFile,         \* "none", "open", "broken" or "finished"
  phase, stepped,    \* RuntimePhase and the grab-before-step flag
  left,              \* events of the current batch not fed yet
  fdOpen, grabbed, releaseAttempted, ungrabs,  \* DeviceHandle, EVIOCGRAB(0) count
  fault, stopped,    \* TakeoverBridge
  deferred, age,     \* a tap's ButtonUp waits for the window; ticks since then
  session, lost, held,   \* output session, server interruption, held state
  interruption,      \* finalize's take_server_interruption
  failed,            \* cleanup steps that reported an error
  everGrabbed, everEmitted  \* history: EVIOCGRAB(1) succeeded, input was emitted

control == <<command, watching, pc, primary, exit, unwinding, countdown>>
time    == <<elapsed, waited>>
guardv  == <<keyboards, unattached>>
runtime == <<recorder, traceFile, phase, stepped, left>>
device  == <<fdOpen, grabbed, releaseAttempted, ungrabs>>
bridge  == <<fault, stopped, deferred, age>>
output  == <<session, lost, held, interruption>>
history == <<everGrabbed, everEmitted>>
vars == <<control, stopRequested, time, guardv, runtime, device, bridge,
          output, failed, history>>

SetupPoints == {"open", "keyboards", "prepare", "capabilities", "create",
                "flush", "announce", "countdown", "recheck", "grab"}
LoopPoints  == {"top", "poll", "listen", "listen_ready", "read", "record",
                "feed", "tick"}
CleanupPoints == {"release", "unattached", "close_keyboards", "finish",
                  "ungrab", "close", "report"}

StopReasons == {"Signal", "Deadline", "CancelledBeforeGrab", "Stream",
                "StreamRecorder", "GrabFailed", "OutputFault", "Output",
                "RecorderPreflight", "StatusOutput"}
CommandResults == {"Ok", "Open", "Unexpected", "Panic", "RecorderFinalize",
                   "OutputReleaseFailed", "DeviceRelease", "TakeoverAborted",
                   "Stream", "Recorder", "OutputProbe"}
CleanupSteps == {"recorder", "output", "device", "status"}

Interactive == command = "takeover"
Traced      == command = "takeover"
Bounded     == command = "takeover"

Init ==
  /\ command \in {"takeover", "service"}
  /\ watching \in BOOLEAN /\ (command = "service" => watching)
  /\ pc = "open" /\ primary = "none" /\ exit = "running" /\ unwinding = FALSE
  /\ stopRequested = FALSE /\ countdown = CountdownSeconds
  /\ elapsed = 0 /\ waited = 0
  /\ keyboards = FALSE /\ unattached = FALSE
  /\ recorder = FALSE /\ traceFile = "none"
  /\ phase = "Running" /\ stepped = FALSE /\ left = 0
  /\ fdOpen = FALSE /\ grabbed = FALSE /\ releaseAttempted = FALSE /\ ungrabs = 0
  /\ fault = FALSE /\ stopped = FALSE /\ deferred = FALSE /\ age = 0
  /\ session = "created" /\ lost = FALSE /\ held = FALSE /\ interruption = FALSE
  /\ failed = {} /\ everGrabbed = FALSE /\ everEmitted = FALSE

-----------------------------------------------------------------------------
(* Control transfers.                                                      *)

Goto(next) ==
  /\ pc' = next
  /\ UNCHANGED <<command, watching, primary, exit, unwinding, countdown>>

FinalizeFailOpen(reason) ==   \* mutant: the device first, as step() would
  /\ pc' = "finish" /\ primary' = reason
  /\ UNCHANGED <<command, watching, exit, unwinding, countdown>>

Finalize(reason) ==
  /\ pc' = "release" /\ primary' = reason
  /\ UNCHANGED <<command, watching, exit, unwinding, countdown>>

\* Dropping the guard: an early return with `?`, or an unwind.
DropGuard(result) ==
  /\ pc' = "release" /\ unwinding' = TRUE /\ exit' = result
  /\ UNCHANGED <<command, watching, primary, countdown>>

-----------------------------------------------------------------------------
(* Preparation: nothing is grabbed before every step below succeeded.      *)

OpenDevice ==
  /\ pc = "open"
  /\ \/ fdOpen' = TRUE /\ Goto("keyboards")
     \/ /\ fdOpen' = FALSE /\ exit' = "Open" /\ pc' = "exited"
        /\ UNCHANGED <<command, watching, primary, unwinding, countdown>>
  /\ UNCHANGED <<stopRequested, time, guardv, runtime, grabbed,
                 releaseAttempted, ungrabs, bridge, output, failed, history>>

\* DWT keyboards; a status line that cannot be written is a plain early return.
OpenKeyboards ==
  /\ pc = "keyboards"
  /\ keyboards' \in BOOLEAN
  /\ \/ Goto("prepare")
     \/ DropGuard("Unexpected")
  /\ UNCHANGED <<stopRequested, time, unattached, runtime, device, bridge,
                 output, failed, history>>

PrepareOutput ==
  /\ pc = "prepare"
  /\ \/ session' = "ready" /\ Goto("capabilities")
     \/ session' = "created" /\ Finalize("Output")
  /\ UNCHANGED <<stopRequested, time, guardv, runtime, device, bridge, lost,
                 held, interruption, failed, history>>

AfterCapabilities == IF Traced THEN "create" ELSE "announce"

CheckCapabilities ==
  /\ pc = "capabilities"
  /\ \/ Goto(AfterCapabilities)
     \/ Finalize("Output")
  /\ UNCHANGED <<stopRequested, time, guardv, runtime, device, bridge, output,
                 failed, history>>

CreateRecorder ==
  /\ pc = "create"
  /\ \/ unattached' = TRUE /\ traceFile' = "open" /\ Goto("flush")
     \/ UNCHANGED <<unattached, traceFile>> /\ Finalize("RecorderPreflight")
  /\ UNCHANGED <<stopRequested, time, keyboards, recorder, phase, stepped,
                 left, device, bridge, output, failed, history>>

FlushHeader ==
  /\ pc = "flush"
  /\ \/ unattached' = FALSE /\ recorder' = TRUE /\ UNCHANGED traceFile
        /\ Goto("announce")
     \/ traceFile' = "broken" /\ UNCHANGED <<unattached, recorder>>
        /\ Finalize("RecorderPreflight")
  /\ UNCHANGED <<stopRequested, time, keyboards, phase, stepped, left, device,
                 bridge, output, failed, history>>

AnnouncePlan ==
  /\ pc = "announce"
  /\ \/ Goto(IF Interactive THEN "countdown" ELSE "recheck")
     \/ Finalize("StatusOutput")
  /\ UNCHANGED <<stopRequested, time, guardv, runtime, device, bridge, output,
                 failed, history>>

CountDown ==
  /\ pc = "countdown"
  /\ \/ /\ countdown = 0 /\ Goto("recheck")
     \/ /\ countdown > 0 /\ stopRequested /\ Finalize("CancelledBeforeGrab")
     \/ /\ countdown > 0 /\ ~stopRequested /\ Finalize("StatusOutput")
     \/ /\ countdown > 0 /\ ~stopRequested /\ countdown' = countdown - 1
        /\ UNCHANGED <<command, watching, pc, primary, exit, unwinding>>
  /\ UNCHANGED <<stopRequested, time, guardv, runtime, device, bridge, output,
                 failed, history>>

Recheck ==
  /\ pc = "recheck"
  /\ IF stopRequested THEN Finalize("CancelledBeforeGrab") ELSE Goto("grab")
  /\ UNCHANGED <<stopRequested, time, guardv, runtime, device, bridge, output,
                 failed, history>>

\* EvdevRuntime::grab: refused unless Running and before the first step.
Grab ==
  /\ pc = "grab"
  /\ \/ /\ phase = "Running" /\ ~stepped /\ fdOpen
        /\ grabbed' = TRUE /\ releaseAttempted' = FALSE /\ everGrabbed' = TRUE
        /\ Goto("top")
     \/ /\ UNCHANGED <<grabbed, releaseAttempted, everGrabbed>>
        /\ Finalize("GrabFailed")
  /\ UNCHANGED <<stopRequested, time, guardv, runtime, fdOpen, ungrabs, bridge,
                 output, failed, everEmitted>>

-----------------------------------------------------------------------------
(* The bounded event loop.                                                 *)

StopNoticed == stopRequested

SignalReason == "Signal"

DeadlineReached == Bounded /\ elapsed >= MaxDuration

\* Stop, deadline, a leftover fault (defensive), settings reload, then wait.
LoopTop ==
  /\ pc = "top"
  /\ IF StopNoticed THEN Finalize(SignalReason) /\ UNCHANGED fault
     ELSE IF DeadlineReached THEN Finalize("Deadline") /\ UNCHANGED fault
     ELSE IF fault THEN Finalize("OutputFault") /\ fault' = FALSE
     ELSE /\ Goto("poll") \/ (watching /\ Finalize("StatusOutput"))
          /\ UNCHANGED fault
  /\ waited' = 0
  /\ UNCHANGED <<stopRequested, elapsed, guardv, runtime, device, stopped,
                 deferred, age, output, failed, history>>

WaitElapsed == waited >= PollQuantum

\* poll(2) returned: ready, timed out, EINTR or an error.
Poll ==
  /\ pc = "poll"
  /\ \/ Goto("listen_ready")
     \/ WaitElapsed /\ Goto("listen")
     \/ Finalize(IF StopNoticed THEN SignalReason ELSE "Stream")
     \/ Finalize("Stream")
  /\ UNCHANGED <<stopRequested, time, guardv, runtime, device, bridge, output,
                 failed, history>>

\* Keyboard listeners: a failing one is removed, reporting it may fail.
Listen ==
  /\ pc \in {"listen", "listen_ready"}
  /\ \/ /\ UNCHANGED keyboards
        /\ Goto(IF pc = "listen_ready" THEN "read" ELSE "tick")
     \/ /\ keyboards /\ keyboards' \in BOOLEAN
        /\ Goto(IF pc = "listen_ready" THEN "read" ELSE "tick")
     \/ keyboards /\ UNCHANGED keyboards /\ Finalize("StatusOutput")
  /\ UNCHANGED <<stopRequested, time, unattached, runtime, device, bridge,
                 output, failed, history>>

\* step_deferred: one read(2) of at most MaxBatch whole events.
ReadBatch ==
  /\ pc = "read"
  /\ phase = "Running" /\ fdOpen
  /\ stepped' = TRUE
  /\ \/ left' \in 1..MaxBatch /\ UNCHANGED phase /\ Goto("record")
     \/ /\ stopRequested /\ phase' = "Stopping" /\ UNCHANGED left
        /\ Finalize(SignalReason)
     \/ phase' = "Stopping" /\ UNCHANGED left /\ Finalize("Stream")
  /\ UNCHANGED <<stopRequested, time, guardv, recorder, traceFile, device,
                 bridge, output, failed, history>>

\* record_all: the whole batch reaches the trace before any event is decoded.
RecordBatch ==
  /\ pc = "record"
  /\ \/ UNCHANGED <<traceFile, phase>> /\ Goto("feed")
     \/ /\ recorder /\ traceFile' = "broken" /\ phase' = "Stopping"
        /\ Finalize("StreamRecorder")
  /\ UNCHANGED <<stopRequested, time, guardv, recorder, stepped, left, device,
                 bridge, output, failed, history>>

BridgeAccepts == ~stopped

\* TakeoverBridge::on_frame: ignored once stopped; the first failure sticks.
OnFrame ==
  \/ /\ ~BridgeAccepts
     /\ UNCHANGED <<bridge, held, everEmitted>>
  \/ /\ BridgeAccepts /\ (deferred => age <= TapGap)
     /\ UNCHANGED <<bridge, held, everEmitted>>
  \/ /\ BridgeAccepts /\ ~lost
     /\ held' \in BOOLEAN /\ everEmitted' = TRUE
     /\ deferred' \in {d \in BOOLEAN :
                         d => held' /\ (deferred => age <= TapGap)}
     /\ age' = IF deferred' /\ deferred THEN age ELSE 0
     /\ fault' \in BOOLEAN /\ stopped' = fault'
  \/ /\ BridgeAccepts
     /\ fault' = TRUE /\ stopped' = TRUE
     /\ UNCHANGED <<deferred, age, held, everEmitted>>

\* One event of the batch: no frame, a frame, a resync that drops the rest of
\* the batch, or a decoder, timeval or timestamp-regression error.
FeedEvent ==
  /\ pc = "feed"
  /\ \/ /\ left' = left - 1
        /\ \/ UNCHANGED <<bridge, held, everEmitted>>
           \/ OnFrame
        /\ UNCHANGED phase /\ Goto(IF left' = 0 THEN "tick" ELSE "feed")
     \/ /\ left' = 0 /\ OnFrame /\ UNCHANGED phase /\ Goto("tick")
     \/ /\ phase' = "Stopping" /\ left' = left /\ Finalize("Stream")
        /\ UNCHANGED <<bridge, held, everEmitted>>
  /\ UNCHANGED <<stopRequested, time, guardv, recorder, traceFile, stepped,
                 device, session, lost, interruption, failed, everGrabbed>>

FaultUnchecked == FALSE   \* mutant
FaultPending   == fault

TimerNeverDue == FALSE   \* mutant: ticks only when input arrives
TimerDue == deferred /\ ~stopped /\ age > TapGap

\* Timer policy, then the fault check that ends the iteration.
Tick ==
  /\ pc = "tick"
  /\ \/ /\ ~TimerDue
        /\ UNCHANGED <<stopped, deferred, age, held, everEmitted>>
        /\ IF FaultPending THEN Finalize("OutputFault") /\ fault' = FALSE
                           ELSE Goto("top") /\ UNCHANGED fault
     \/ /\ TimerDue /\ ~lost
        /\ held' = FALSE /\ deferred' = FALSE /\ age' = 0 /\ everEmitted' = TRUE
        /\ UNCHANGED <<stopped, fault>> /\ Goto("top")
     \/ /\ TimerDue
        /\ stopped' = TRUE /\ fault' = FALSE
        /\ UNCHANGED <<deferred, age, held, everEmitted>>
        /\ Finalize("OutputFault")
  /\ UNCHANGED <<stopRequested, time, guardv, runtime, device, session, lost,
                 interruption, failed, everGrabbed>>

-----------------------------------------------------------------------------
(* Cleanup.  finalize and the guard's Drop make the same calls in the same *)
(* order; the Drop discards the results and reports nothing.               *)

\* take_sink, take_server_interruption, release_all, then the sink is dropped.
ReleaseOutput ==
  /\ pc = "release"
  /\ session' = "released" /\ interruption' = lost
  /\ deferred' = FALSE /\ age' = 0
  /\ \/ held' = FALSE /\ ~(held /\ lost) /\ UNCHANGED failed
     \/ UNCHANGED held /\ failed' = failed \cup {"output"}
  /\ Goto("unattached")
  /\ UNCHANGED <<stopRequested, time, guardv, runtime, device, fault, stopped,
                 lost, history>>

FinishTrace(open) ==
  IF open
  THEN \/ traceFile' = "finished" /\ UNCHANGED failed
       \/ traceFile' = "broken" /\ failed' = failed \cup {"recorder"}
  ELSE UNCHANGED <<traceFile, failed>>

FinishUnattached ==
  /\ pc = "unattached"
  /\ unattached' = FALSE /\ FinishTrace(unattached)
  /\ Goto("close_keyboards")
  /\ UNCHANGED <<stopRequested, time, keyboards, recorder, phase, stepped, left,
                 device, bridge, output, history>>

CloseKeyboards ==
  /\ pc = "close_keyboards"
  /\ keyboards' = FALSE /\ Goto("finish")
  /\ UNCHANGED <<stopRequested, time, unattached, runtime, device, bridge,
                 output, failed, history>>

\* EvdevRuntime::shutdown, or the runtime's Drop: the attached recorder first.
FinishRecorder ==
  /\ pc = "finish"
  /\ phase' = "Stopping"
  /\ recorder' = FALSE /\ FinishTrace(recorder)
  /\ Goto("ungrab")
  /\ UNCHANGED <<stopRequested, time, guardv, stepped, left, device, bridge,
                 output, history>>

UngrabOwed == grabbed /\ ~releaseAttempted

\* DeviceHandle::ungrab: EVIOCGRAB(0) at most once, even when it fails.
ReleaseGrab(ok) ==
  /\ ok \in BOOLEAN
  /\ IF UngrabOwed THEN grabbed' = ~ok /\ ungrabs' = ungrabs + 1
                   ELSE ok /\ UNCHANGED <<grabbed, ungrabs>>
  /\ releaseAttempted' = TRUE

Ungrab ==
  /\ pc = "ungrab"
  /\ \/ ReleaseGrab(TRUE) /\ UNCHANGED failed
     \/ ReleaseGrab(FALSE) /\ failed' = failed \cup {"device"}
  /\ Goto("close")
  /\ UNCHANGED <<stopRequested, time, guardv, runtime, fdOpen, bridge, output,
                 history>>

\* DeviceHandle::close ungrabs first; closing the fd always drops the grab.
CloseDevice ==
  /\ pc = "close"
  /\ \/ ReleaseGrab(TRUE)
     \/ ReleaseGrab(FALSE)
  /\ fdOpen' = FALSE /\ phase' = "Stopped"
  /\ \/ UNCHANGED failed
     \/ failed' = failed \cup {"device"}
  /\ Goto("report")
  /\ UNCHANGED <<stopRequested, time, guardv, recorder, traceFile, stepped,
                 left, bridge, output, history>>

\* compose: cleanup failures in their documented precedence, then the reason.
PrimaryResult ==
  CASE primary \in {"Deadline", "Signal"} -> "Ok"
    [] primary = "CancelledBeforeGrab" -> "TakeoverAborted"
    [] primary \in {"Stream", "GrabFailed"} -> "Stream"
    [] primary \in {"StreamRecorder", "RecorderPreflight"} -> "Recorder"
    [] primary = "OutputFault" -> IF interruption THEN "OutputProbe" ELSE "Stream"
    [] primary = "Output" -> "OutputProbe"
    [] OTHER -> "Unexpected"

Compose(failures) ==
  IF "recorder" \in failures THEN "RecorderFinalize"
  ELSE IF "output" \in failures THEN "OutputReleaseFailed"
  ELSE IF "device" \in failures THEN "DeviceRelease"
  ELSE IF "status" \in failures THEN "Unexpected"
  ELSE PrimaryResult

Report ==
  /\ pc = "report"
  /\ IF unwinding
       THEN UNCHANGED <<failed, exit>>
       ELSE /\ failed' \in {failed, failed \cup {"status"}}
            /\ exit' = Compose(failed')
  /\ pc' = "exited"
  /\ UNCHANGED <<command, watching, primary, unwinding, countdown,
                 stopRequested, time, guardv, runtime, device, bridge, output,
                 history>>

-----------------------------------------------------------------------------
(* The environment.                                                        *)

\* SIGINT/SIGTERM or the injected stop flag, at any moment.
RequestStop ==
  /\ ~stopRequested /\ pc # "exited" /\ stopRequested' = TRUE
  /\ UNCHANGED <<control, time, guardv, runtime, device, bridge, output,
                 failed, history>>

\* The compositor pauses or removes the virtual device, or hangs up.
InterruptSession ==
  /\ session = "ready" /\ ~lost /\ lost' = TRUE
  /\ UNCHANGED <<control, stopRequested, time, guardv, runtime, device, bridge,
                 session, held, interruption, failed, history>>

\* A panic unwinds out of the preparation or the loop and drops the guard.
Unwind ==
  /\ pc \in (SetupPoints \cup LoopPoints) \ {"open"}
  /\ DropGuard("Panic")
  /\ UNCHANGED <<stopRequested, time, guardv, runtime, device, bridge, output,
                 failed, history>>

\* Time passes while the loop waits for readiness, never beyond the quantum.
ClockTick ==
  /\ pc = "poll" /\ ~WaitElapsed
  /\ waited' = waited + 1
  /\ elapsed' = IF Bounded THEN elapsed + 1 ELSE elapsed
  /\ age' = IF deferred /\ age <= TapGap THEN age + 1 ELSE age
  /\ UNCHANGED <<control, stopRequested, guardv, runtime, device, fault,
                 stopped, deferred, output, failed, history>>

Prepare == \/ OpenDevice \/ OpenKeyboards \/ PrepareOutput \/ CheckCapabilities
           \/ CreateRecorder \/ FlushHeader \/ AnnouncePlan \/ CountDown
           \/ Recheck \/ Grab
Loop    == \/ LoopTop \/ Poll \/ Listen \/ ReadBatch \/ RecordBatch
           \/ FeedEvent \/ Tick
Cleanup == \/ ReleaseOutput \/ FinishUnattached \/ CloseKeyboards
           \/ FinishRecorder \/ Ungrab \/ CloseDevice \/ Report
Program == Prepare \/ Loop \/ Cleanup
Environment == RequestStop \/ InterruptSession \/ Unwind \/ ClockTick

Exited == pc = "exited" /\ UNCHANGED vars

Next == Program \/ Environment \/ Exited

Spec == Init /\ [][Next]_vars

\* The program is always scheduled (every call it makes returns: waits are
\* bounded by PollQuantum and the portal timeouts), and the clock advances.
FairSpec == Spec /\ WF_vars(Program) /\ SF_vars(ClockTick)

-----------------------------------------------------------------------------
CountersOK ==
  /\ countdown \in 0..CountdownSeconds /\ elapsed \in Nat
  /\ waited \in 0..PollQuantum /\ age \in 0..(TapGap + 1)
  /\ left \in 0..MaxBatch /\ (pc \in {"record", "feed"} => left > 0)
  /\ ungrabs \in Nat

PhasesOK ==
  /\ command \in {"takeover", "service"}
  /\ pc \in SetupPoints \cup LoopPoints \cup CleanupPoints \cup {"exited"}
  /\ primary \in StopReasons \cup {"none"}
  /\ exit \in CommandResults \cup {"running"}
  /\ traceFile \in {"none", "open", "broken", "finished"}
  /\ phase \in {"Running", "Stopping", "Stopped"}
  /\ session \in {"created", "ready", "released"}
  /\ failed \subseteq CleanupSteps

\* Counters stay in their ranges and the control and resource states in theirs
\* (the Boolean flags are used as formulas throughout).
TypeOK == CountersOK /\ PhasesOK

\* The kernel routes the touchpad to this process alone.
KernelGrab == grabbed /\ fdOpen

\* However the command ends (error, stop or unwind), the touchpad is back with
\* the desktop and no keyboard listener, recorder or output session survives.
NothingLeftBehind ==
  pc = "exited" => /\ ~fdOpen /\ ~keyboards /\ ~unattached /\ ~recorder
                   /\ session # "ready" /\ traceFile # "open"

\* A button or scroll is held on the desktop only while the physical touchpad
\* is exclusively ours, unless its release itself failed and was recorded.
HeldOnlyWhileGrabbed ==
  held => KernelGrab \/ "output" \in failed

\* Exit 0 certifies the whole session: nothing held, the grab given back by a
\* successful ioctl, a finished trace for takeover, and no output fault masked
\* by a stop request or the deadline.
CleanExitIsClean ==
  exit = "Ok" => /\ ~held /\ ~grabbed /\ everGrabbed /\ ungrabs = 1
                 /\ Traced => traceFile = "finished"
                 /\ ~stopped

\* "Aborted before it began": nothing was grabbed, no desktop input emitted.
AbortedBeforeItBegan ==
  exit = "TakeoverAborted" => ~everGrabbed /\ ~everEmitted /\ ungrabs = 0

\* EVIOCGRAB(0) is issued at most once, and never without a grab.
UngrabAtMostOnce == ungrabs <= 1 /\ (ungrabs = 1 => everGrabbed)

\* The end of the command, whichever way it came, and what it says of itself.
EndsClean ==
  /\ TypeOK
  /\ NothingLeftBehind /\ HeldOnlyWhileGrabbed /\ UngrabAtMostOnce
  /\ CleanExitIsClean /\ AbortedBeforeItBegan

\* A bounded takeover outlives its duration by less than one polling quantum.
BoundedTakeover == Bounded => elapsed < MaxDuration + PollQuantum

\* EVIOCGRAB(1) is the last preparation step: the session is negotiated, the
\* trace header is on disk and no event was read.
GrabIsLast ==
  [][~grabbed /\ grabbed' =>
       /\ session = "ready" /\ ~stepped /\ ~everEmitted
       /\ Traced => recorder /\ traceFile = "open"]_vars

\* The device is released only after the output session was released and every
\* recorder finished; the recorder only after the output session.
CleanupOrder ==
  [][/\ (grabbed /\ ~grabbed') \/ (fdOpen /\ ~fdOpen') =>
          session = "released" /\ ~unattached /\ ~recorder /\ traceFile # "open"
     /\ traceFile # "finished" /\ traceFile' = "finished" =>
          session = "released"]_vars

\* No late output: once the bridge stopped only the release changes what is
\* held on the desktop, and it never presses.
NoOutputAfterFault ==
  [][stopped /\ held' # held => pc = "release" /\ ~held']_vars

\* What may only happen after something else has: the grab, the parts of the
\* cleanup, and output once the bridge has stopped.
StepsInOrder == GrabIsLast /\ CleanupOrder /\ NoOutputAfterFault

\* A requested stop, and the deadline of a bounded takeover, end the command
\* with the device closed, also when the touchpad stays silent.
StopsOnRequest == stopRequested ~> pc = "exited"
BoundedTakeoverEnds == command = "takeover" ~> pc = "exited"

\* A tap's deferred ButtonUp is delivered without any further touchpad event.
DeferredUpDelivered == deferred ~> ~deferred

\* Stop, deadline and deferred release all come through without an event from
\* the touchpad, and the deadline in time.
NothingWaitsForInput ==
  /\ StopsOnRequest /\ BoundedTakeoverEnds /\ DeferredUpDelivered
  /\ []BoundedTakeover
=============================================================================
