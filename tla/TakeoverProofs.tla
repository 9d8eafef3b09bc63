--------------------------- MODULE TakeoverProofs ---------------------------
(***************************************************************************)
(* Proofs about the takeover coordinator, for every duration, countdown,   *)
(* polling quantum, tap window and batch size.                             *)
(*                                                                         *)
(* The safety properties of Takeover are not inductive: they speak of the  *)
(* end of the command, and what makes them true is which resources are     *)
(* owned at each program point.  PointsInv says that; DeviceInv, TraceInv  *)
(* and OutcomeInv add what is known of the grab, of the trace and of the   *)
(* stop reason.  SafetyInv is their conjunction and is inductive.          *)
(***************************************************************************)
EXTENDS Takeover, TLAPS

BeforeCreate   == {"open", "keyboards", "prepare", "capabilities", "create"}
Negotiated     == {"capabilities", "create", "flush", "announce", "countdown",
                   "recheck", "grab"} \cup LoopPoints
BeforeGrab     == {"announce", "countdown", "recheck", "grab"}
AfterRelease   == CleanupPoints \ {"release"}
AfterUnattached == AfterRelease \ {"unattached"}
AfterKeyboards == AfterUnattached \ {"close_keyboards"}
AfterFinish    == AfterKeyboards \ {"finish"}
BeforeUngrab   == {"release", "unattached", "close_keyboards", "finish", "ungrab"}

\* Before the grab nothing has happened to the device or the desktop.
SetupInv ==
  /\ pc \in SetupPoints =>
       /\ ~grabbed /\ ~everGrabbed /\ ~releaseAttempted /\ ungrabs = 0
       /\ ~held /\ ~everEmitted /\ ~stepped /\ ~stopped /\ failed = {}
  /\ pc = "open" => session = "created" /\ ~keyboards /\ ~fdOpen
  /\ pc \in BeforeCreate => traceFile = "none" /\ ~unattached /\ ~recorder
  /\ pc = "flush" => unattached /\ traceFile = "open"
  /\ pc \in BeforeGrab /\ Traced => recorder /\ traceFile = "open"
  /\ pc \in Negotiated => session = "ready"

LoopInv ==
  pc \in LoopPoints => /\ grabbed /\ fdOpen /\ everGrabbed
                       /\ ungrabs = 0 /\ ~releaseAttempted /\ failed = {}

\* The cleanup gives resources back in order.
CleanupInv ==
  /\ pc = "release" => failed = {}
  /\ pc \in AfterRelease => session = "released"
  /\ pc \in AfterUnattached => ~unattached
  /\ pc \in AfterKeyboards => ~keyboards
  /\ pc \in AfterFinish => ~recorder /\ traceFile # "open"
  /\ pc = "report" => ~fdOpen
  /\ traceFile = "open" => unattached \/ recorder

PointsInv == SetupInv /\ LoopInv /\ CleanupInv /\ NothingLeftBehind

HeldInv ==
  held => \/ pc \in LoopPoints \cup {"release"} /\ grabbed /\ fdOpen
          \/ "output" \in failed

GrabInv ==
  /\ ungrabs = 0 \/ (ungrabs = 1 /\ releaseAttempted)
  /\ pc \in BeforeUngrab => ungrabs = 0 /\ ~releaseAttempted
  /\ grabbed \/ ungrabs = 1 => everGrabbed
  /\ everGrabbed => grabbed \/ ungrabs = 1
  /\ pc \in {"close", "report"} => releaseAttempted
  /\ pc \in {"close", "report", "exited"} /\ grabbed => "device" \in failed

DeviceInv == HeldInv /\ GrabInv

\* A grabbed takeover records until its recorder is finished, and a trace that
\* could not be finished is reported.
TraceInv ==
  /\ pc \in LoopPoints \cup (BeforeUngrab \ {"ungrab"}) /\ everGrabbed /\ Traced =>
       recorder
  /\ pc \in AfterFinish \cup {"exited"} /\ everGrabbed /\ Traced =>
       traceFile = "finished" \/ "recorder" \in failed

\* A fault ends the iteration it occurs in; a reason says how far it got.
OutcomeInv ==
  /\ pc \in LoopPoints \ {"feed", "tick"} => ~stopped
  /\ pc \in LoopPoints /\ stopped => fault
  /\ pc \in SetupPoints \cup LoopPoints => primary = "none"
  /\ primary = "CancelledBeforeGrab" => ~everGrabbed /\ ~everEmitted /\ ungrabs = 0
  /\ primary \in {"Signal", "Deadline"} => everGrabbed /\ ~stopped
  /\ exit = "TakeoverAborted" => primary = "CancelledBeforeGrab"
  /\ exit = "Ok" =>
       /\ pc = "exited" /\ primary \in {"Signal", "Deadline"}
       /\ "recorder" \notin failed /\ "output" \notin failed /\ "device" \notin failed

SafetyInv == PhasesOK /\ PointsInv /\ DeviceInv /\ TraceInv /\ OutcomeInv

\* The deadline is checked before every wait and a wait lasts one quantum.
DeadlineInv ==
  Bounded => /\ elapsed < MaxDuration + PollQuantum
             /\ pc = "poll" => elapsed < MaxDuration + waited

-----------------------------------------------------------------------------
\* Every step keeps the numeric variables in their ranges.
LEMMA CountersStep ==
  ASSUME CountersOK, [Next]_vars
  PROVE  CountersOK'
<1> USE TakeoverAssumption DEF CountersOK, control, time, guardv,
      runtime, device, bridge, output, history
<1>1. CASE OpenDevice  BY <1>1 DEF OpenDevice, Goto, Finalize
<1>2. CASE OpenKeyboards  BY <1>2 DEF OpenKeyboards, Goto, DropGuard
<1>3. CASE PrepareOutput  BY <1>3 DEF PrepareOutput, Goto, Finalize
<1>4. CASE CheckCapabilities
  BY <1>4 DEF CheckCapabilities, AfterCapabilities, Goto, Finalize
<1>5. CASE CreateRecorder  BY <1>5 DEF CreateRecorder, Goto, Finalize
<1>6. CASE FlushHeader  BY <1>6 DEF FlushHeader, Goto, Finalize
<1>7. CASE AnnouncePlan  BY <1>7 DEF AnnouncePlan, Goto, Finalize
<1>8. CASE CountDown  BY <1>8 DEF CountDown, Goto, Finalize
<1>9. CASE Recheck  BY <1>9 DEF Recheck, Goto, Finalize
<1>10. CASE Grab  BY <1>10 DEF Grab, Goto, Finalize
<1>11. CASE LoopTop
  BY <1>11 DEF LoopTop, DeadlineReached, StopNoticed, SignalReason, Goto, Finalize
<1>12. CASE Poll  BY <1>12 DEF Poll, SignalReason, Goto, Finalize
<1>13. CASE Listen  BY <1>13 DEF Listen, Goto, Finalize
<1>14. CASE ReadBatch  BY <1>14 DEF ReadBatch, SignalReason, Goto, Finalize
<1>15. CASE RecordBatch  BY <1>15 DEF RecordBatch, Goto, Finalize
<1>16. CASE FeedEvent
  <2>1. UNCHANGED <<countdown, elapsed, waited, ungrabs>>
    BY <1>16 DEF FeedEvent, Goto, Finalize, time, device
  <2>2. left' \in 0..MaxBatch
    BY <1>16 DEF FeedEvent, Goto, Finalize
  <2>3. age' = age \/ age' = 0
    BY <1>16 DEF FeedEvent, OnFrame, bridge
  <2>4. pc' \in {"record", "feed"} => left' > 0
    BY <1>16 DEF FeedEvent, Goto, Finalize
  <2> QED
    BY <2>1, <2>2, <2>3, <2>4
<1>17. CASE Tick  BY <1>17 DEF Tick, FaultPending, Goto, Finalize
<1>18. CASE ReleaseOutput  BY <1>18 DEF ReleaseOutput, Goto
<1>19. CASE FinishUnattached  BY <1>19 DEF FinishUnattached, FinishTrace, Goto
<1>20. CASE CloseKeyboards  BY <1>20 DEF CloseKeyboards, Goto
<1>21. CASE FinishRecorder  BY <1>21 DEF FinishRecorder, FinishTrace, Goto
<1>22. CASE Ungrab  BY <1>22 DEF Ungrab, ReleaseGrab, UngrabOwed, Goto
<1>23. CASE CloseDevice
  BY <1>23 DEF CloseDevice, ReleaseGrab, UngrabOwed, Goto
<1>24. CASE Report  BY <1>24 DEF Report, Compose, PrimaryResult
<1>25. CASE RequestStop  BY <1>25 DEF RequestStop
<1>26. CASE InterruptSession  BY <1>26 DEF InterruptSession
<1>27. CASE Unwind  BY <1>27 DEF Unwind, DropGuard
<1>28. CASE ClockTick  BY <1>28 DEF ClockTick, WaitElapsed
<1>29. CASE UNCHANGED vars  BY <1>29 DEF vars
<1> QED
  BY <1>1, <1>2, <1>3, <1>4, <1>5, <1>6, <1>7, <1>8, <1>9, <1>10,
   <1>11, <1>12, <1>13, <1>14, <1>15, <1>16, <1>17, <1>18, <1>19,
   <1>20, <1>21, <1>22, <1>23, <1>24, <1>25, <1>26, <1>27, <1>28,
   <1>29
     DEF Next, Program, Prepare, Loop, Cleanup, Environment, Exited

\* Every step keeps the control and resource states in their ranges.
LEMMA PhasesStep ==
  ASSUME PhasesOK, [Next]_vars
  PROVE  PhasesOK'
<1> USE DEF PhasesOK, StopReasons, CommandResults, CleanupSteps,
      SetupPoints, LoopPoints, CleanupPoints, control, time, guardv,
      runtime, device, bridge, output, history
<1>1. CASE OpenDevice  BY <1>1 DEF OpenDevice, Goto, Finalize
<1>2. CASE OpenKeyboards  BY <1>2 DEF OpenKeyboards, Goto, DropGuard
<1>3. CASE PrepareOutput  BY <1>3 DEF PrepareOutput, Goto, Finalize
<1>4. CASE CheckCapabilities
  BY <1>4 DEF CheckCapabilities, AfterCapabilities, Goto, Finalize
<1>5. CASE CreateRecorder  BY <1>5 DEF CreateRecorder, Goto, Finalize
<1>6. CASE FlushHeader  BY <1>6 DEF FlushHeader, Goto, Finalize
<1>7. CASE AnnouncePlan  BY <1>7 DEF AnnouncePlan, Goto, Finalize
<1>8. CASE CountDown  BY <1>8 DEF CountDown, Goto, Finalize
<1>9. CASE Recheck  BY <1>9 DEF Recheck, Goto, Finalize
<1>10. CASE Grab  BY <1>10 DEF Grab, Goto, Finalize
<1>11. CASE LoopTop
  BY <1>11 DEF LoopTop, DeadlineReached, StopNoticed, SignalReason, Goto, Finalize
<1>12. CASE Poll  BY <1>12 DEF Poll, SignalReason, Goto, Finalize
<1>13. CASE Listen  BY <1>13 DEF Listen, Goto, Finalize
<1>14. CASE ReadBatch  BY <1>14 DEF ReadBatch, SignalReason, Goto, Finalize
<1>15. CASE RecordBatch  BY <1>15 DEF RecordBatch, Goto, Finalize
<1>16. CASE FeedEvent
  BY <1>16 DEF FeedEvent, OnFrame, BridgeAccepts, Goto, Finalize
<1>17. CASE Tick  BY <1>17 DEF Tick, FaultPending, Goto, Finalize
<1>18. CASE ReleaseOutput
  <2>1. failed' \subseteq CleanupSteps
    BY <1>18 DEF ReleaseOutput, Goto
  <2>2. PhasesOK' \/ ~(failed' \subseteq CleanupSteps)
    BY <1>18 DEF ReleaseOutput, Goto
  <2> QED
    BY <2>1, <2>2
<1>19. CASE FinishUnattached
  <2>1. failed' \subseteq CleanupSteps
    BY <1>19 DEF FinishUnattached, FinishTrace, Goto
  <2>2. PhasesOK' \/ ~(failed' \subseteq CleanupSteps)
    BY <1>19 DEF FinishUnattached, FinishTrace, Goto
  <2> QED
    BY <2>1, <2>2
<1>20. CASE CloseKeyboards  BY <1>20 DEF CloseKeyboards, Goto
<1>21. CASE FinishRecorder
  <2>1. failed' \subseteq CleanupSteps
    BY <1>21 DEF FinishRecorder, FinishTrace, Goto
  <2>2. PhasesOK' \/ ~(failed' \subseteq CleanupSteps)
    BY <1>21 DEF FinishRecorder, FinishTrace, Goto
  <2> QED
    BY <2>1, <2>2
<1>22. CASE Ungrab
  <2>1. failed' \subseteq CleanupSteps
    BY <1>22 DEF Ungrab, ReleaseGrab, UngrabOwed, Goto
  <2>2. PhasesOK' \/ ~(failed' \subseteq CleanupSteps)
    BY <1>22 DEF Ungrab, ReleaseGrab, UngrabOwed, Goto
  <2> QED
    BY <2>1, <2>2
<1>23. CASE CloseDevice
  <2>1. failed' \subseteq CleanupSteps
    BY <1>23 DEF CloseDevice, ReleaseGrab, UngrabOwed, Goto
  <2>2. PhasesOK' \/ ~(failed' \subseteq CleanupSteps)
    BY <1>23 DEF CloseDevice, ReleaseGrab, UngrabOwed, Goto
  <2> QED
    BY <2>1, <2>2
<1>24. CASE Report
  <2>1. failed' \subseteq CleanupSteps
    BY <1>24 DEF Report, Compose, PrimaryResult
  <2>2. PhasesOK' \/ ~(failed' \subseteq CleanupSteps)
    BY <1>24 DEF Report, Compose, PrimaryResult
  <2> QED
    BY <2>1, <2>2
<1>25. CASE RequestStop  BY <1>25 DEF RequestStop
<1>26. CASE InterruptSession  BY <1>26 DEF InterruptSession
<1>27. CASE Unwind  BY <1>27 DEF Unwind, DropGuard
<1>28. CASE ClockTick  BY <1>28 DEF ClockTick, WaitElapsed
<1>29. CASE UNCHANGED vars  BY <1>29 DEF vars
<1> QED
  BY <1>1, <1>2, <1>3, <1>4, <1>5, <1>6, <1>7, <1>8, <1>9, <1>10,
   <1>11, <1>12, <1>13, <1>14, <1>15, <1>16, <1>17, <1>18, <1>19,
   <1>20, <1>21, <1>22, <1>23, <1>24, <1>25, <1>26, <1>27, <1>28,
   <1>29
     DEF Next, Program, Prepare, Loop, Cleanup, Environment, Exited

\* Every step goes from one program point to the next with the resources the
\* points name.
LEMMA PointsStep ==
  ASSUME PhasesOK, PointsInv, [Next]_vars
  PROVE  PointsInv'
<1> USE DEF PhasesOK, PointsInv, SetupInv, LoopInv, CleanupInv,
      NothingLeftBehind, BeforeCreate, Negotiated, BeforeGrab,
      AfterRelease, AfterUnattached, AfterKeyboards, AfterFinish,
      Traced, Interactive, SetupPoints, LoopPoints, CleanupPoints,
      control, time, guardv, runtime, device, bridge, output, history
<1>1. CASE OpenDevice  BY <1>1 DEF OpenDevice, Goto, Finalize
<1>2. CASE OpenKeyboards  BY <1>2 DEF OpenKeyboards, Goto, DropGuard
<1>3. CASE PrepareOutput  BY <1>3 DEF PrepareOutput, Goto, Finalize
<1>4. CASE CheckCapabilities
  BY <1>4 DEF CheckCapabilities, AfterCapabilities, Goto, Finalize
<1>5. CASE CreateRecorder  BY <1>5 DEF CreateRecorder, Goto, Finalize
<1>6. CASE FlushHeader  BY <1>6 DEF FlushHeader, Goto, Finalize
<1>7. CASE AnnouncePlan  BY <1>7 DEF AnnouncePlan, Goto, Finalize
<1>8. CASE CountDown  BY <1>8 DEF CountDown, Goto, Finalize
<1>9. CASE Recheck  BY <1>9 DEF Recheck, Goto, Finalize
<1>10. CASE Grab  BY <1>10 DEF Grab, Goto, Finalize
<1>11. CASE LoopTop
  BY <1>11 DEF LoopTop, DeadlineReached, StopNoticed, SignalReason, Goto, Finalize
<1>12. CASE Poll  BY <1>12 DEF Poll, SignalReason, Goto, Finalize
<1>13. CASE Listen  BY <1>13 DEF Listen, Goto, Finalize
<1>14. CASE ReadBatch  BY <1>14 DEF ReadBatch, SignalReason, Goto, Finalize
<1>15. CASE RecordBatch  BY <1>15 DEF RecordBatch, Goto, Finalize
<1>16. CASE FeedEvent
  BY <1>16 DEF FeedEvent, OnFrame, BridgeAccepts, Goto, Finalize
<1>17. CASE Tick  BY <1>17 DEF Tick, FaultPending, Goto, Finalize
<1>18. CASE ReleaseOutput  BY <1>18 DEF ReleaseOutput, Goto
<1>19. CASE FinishUnattached  BY <1>19 DEF FinishUnattached, FinishTrace, Goto
<1>20. CASE CloseKeyboards  BY <1>20 DEF CloseKeyboards, Goto
<1>21. CASE FinishRecorder  BY <1>21 DEF FinishRecorder, FinishTrace, Goto
<1>22. CASE Ungrab  BY <1>22 DEF Ungrab, ReleaseGrab, UngrabOwed, Goto
<1>23. CASE CloseDevice
  BY <1>23 DEF CloseDevice, ReleaseGrab, UngrabOwed, Goto
<1>24. CASE Report  BY <1>24 DEF Report, Compose, PrimaryResult
<1>25. CASE RequestStop  BY <1>25 DEF RequestStop
<1>26. CASE InterruptSession  BY <1>26 DEF InterruptSession
<1>27. CASE Unwind  BY <1>27 DEF Unwind, DropGuard
<1>28. CASE ClockTick  BY <1>28 DEF ClockTick, WaitElapsed
<1>29. CASE UNCHANGED vars  BY <1>29 DEF vars
<1> QED
  BY <1>1, <1>2, <1>3, <1>4, <1>5, <1>6, <1>7, <1>8, <1>9, <1>10,
   <1>11, <1>12, <1>13, <1>14, <1>15, <1>16, <1>17, <1>18, <1>19,
   <1>20, <1>21, <1>22, <1>23, <1>24, <1>25, <1>26, <1>27, <1>28,
   <1>29
     DEF Next, Program, Prepare, Loop, Cleanup, Environment, Exited

\* The grab and what is held on the desktop.
LEMMA DeviceStep ==
  ASSUME PhasesOK, PointsInv, DeviceInv, [Next]_vars
  PROVE  DeviceInv'
<1> USE DEF PhasesOK, PointsInv, SetupInv, LoopInv, CleanupInv,
      DeviceInv, HeldInv, GrabInv, BeforeUngrab, AfterRelease,
      AfterUnattached, AfterKeyboards, AfterFinish, SetupPoints,
      LoopPoints, CleanupPoints, control, time, guardv, runtime, device,
      bridge, output, history
<1>1. CASE OpenDevice  BY <1>1 DEF OpenDevice, Goto, Finalize
<1>2. CASE OpenKeyboards  BY <1>2 DEF OpenKeyboards, Goto, DropGuard
<1>3. CASE PrepareOutput  BY <1>3 DEF PrepareOutput, Goto, Finalize
<1>4. CASE CheckCapabilities
  BY <1>4 DEF CheckCapabilities, AfterCapabilities, Goto, Finalize
<1>5. CASE CreateRecorder  BY <1>5 DEF CreateRecorder, Goto, Finalize
<1>6. CASE FlushHeader  BY <1>6 DEF FlushHeader, Goto, Finalize
<1>7. CASE AnnouncePlan  BY <1>7 DEF AnnouncePlan, Goto, Finalize
<1>8. CASE CountDown  BY <1>8 DEF CountDown, Goto, Finalize
<1>9. CASE Recheck  BY <1>9 DEF Recheck, Goto, Finalize
<1>10. CASE Grab  BY <1>10 DEF Grab, Goto, Finalize
<1>11. CASE LoopTop
  BY <1>11 DEF LoopTop, DeadlineReached, StopNoticed, SignalReason, Goto, Finalize
<1>12. CASE Poll  BY <1>12 DEF Poll, SignalReason, Goto, Finalize
<1>13. CASE Listen  BY <1>13 DEF Listen, Goto, Finalize
<1>14. CASE ReadBatch  BY <1>14 DEF ReadBatch, SignalReason, Goto, Finalize
<1>15. CASE RecordBatch  BY <1>15 DEF RecordBatch, Goto, Finalize
<1>16. CASE FeedEvent
  BY <1>16 DEF FeedEvent, OnFrame, BridgeAccepts, Goto, Finalize
<1>17. CASE Tick  BY <1>17 DEF Tick, FaultPending, Goto, Finalize
<1>18. CASE ReleaseOutput  BY <1>18 DEF ReleaseOutput, Goto
<1>19. CASE FinishUnattached  BY <1>19 DEF FinishUnattached, FinishTrace, Goto
<1>20. CASE CloseKeyboards  BY <1>20 DEF CloseKeyboards, Goto
<1>21. CASE FinishRecorder  BY <1>21 DEF FinishRecorder, FinishTrace, Goto
<1>22. CASE Ungrab
  <2>1. HeldInv'
    BY <1>22 DEF Ungrab, ReleaseGrab, UngrabOwed, Goto
  <2>2. pc' = "close" /\ ungrabs = 0 /\ ~releaseAttempted /\ everGrabbed' = everGrabbed
    BY <1>22 DEF Ungrab, Goto
  <2>3. releaseAttempted' /\ (everGrabbed' <=> grabbed)
    BY <1>22, <2>2 DEF Ungrab, ReleaseGrab, UngrabOwed
  <2>4. grabbed' => "device" \in failed'
    BY <1>22, <2>2 DEF Ungrab, ReleaseGrab, UngrabOwed
  <2>5. (grabbed => ungrabs' = 1) /\ (~grabbed => ungrabs' = 0 /\ ~grabbed')
    BY <1>22, <2>2 DEF Ungrab, ReleaseGrab, UngrabOwed
  <2>6. GrabInv'
    BY <2>2, <2>3, <2>4, <2>5
  <2> QED
    BY <2>1, <2>6
<1>23. CASE CloseDevice
  BY <1>23 DEF CloseDevice, ReleaseGrab, UngrabOwed, Goto
<1>24. CASE Report  BY <1>24 DEF Report, Compose, PrimaryResult
<1>25. CASE RequestStop  BY <1>25 DEF RequestStop
<1>26. CASE InterruptSession  BY <1>26 DEF InterruptSession
<1>27. CASE Unwind  BY <1>27 DEF Unwind, DropGuard
<1>28. CASE ClockTick  BY <1>28 DEF ClockTick, WaitElapsed
<1>29. CASE UNCHANGED vars  BY <1>29 DEF vars
<1> QED
  BY <1>1, <1>2, <1>3, <1>4, <1>5, <1>6, <1>7, <1>8, <1>9, <1>10,
   <1>11, <1>12, <1>13, <1>14, <1>15, <1>16, <1>17, <1>18, <1>19,
   <1>20, <1>21, <1>22, <1>23, <1>24, <1>25, <1>26, <1>27, <1>28,
   <1>29
     DEF Next, Program, Prepare, Loop, Cleanup, Environment, Exited

\* The trace.
LEMMA TraceStep ==
  ASSUME PhasesOK, PointsInv, TraceInv, [Next]_vars
  PROVE  TraceInv'
<1> USE DEF PhasesOK, PointsInv, SetupInv, LoopInv, CleanupInv,
      TraceInv, BeforeUngrab, BeforeCreate, BeforeGrab, AfterRelease,
      AfterUnattached, AfterKeyboards, AfterFinish, Traced, SetupPoints,
      LoopPoints, CleanupPoints, control, time, guardv, runtime, device,
      bridge, output, history
<1>1. CASE OpenDevice  BY <1>1 DEF OpenDevice, Goto, Finalize
<1>2. CASE OpenKeyboards  BY <1>2 DEF OpenKeyboards, Goto, DropGuard
<1>3. CASE PrepareOutput  BY <1>3 DEF PrepareOutput, Goto, Finalize
<1>4. CASE CheckCapabilities
  BY <1>4 DEF CheckCapabilities, AfterCapabilities, Goto, Finalize
<1>5. CASE CreateRecorder  BY <1>5 DEF CreateRecorder, Goto, Finalize
<1>6. CASE FlushHeader  BY <1>6 DEF FlushHeader, Goto, Finalize
<1>7. CASE AnnouncePlan  BY <1>7 DEF AnnouncePlan, Goto, Finalize
<1>8. CASE CountDown  BY <1>8 DEF CountDown, Goto, Finalize
<1>9. CASE Recheck  BY <1>9 DEF Recheck, Goto, Finalize
<1>10. CASE Grab  BY <1>10 DEF Grab, Goto, Finalize
<1>11. CASE LoopTop
  BY <1>11 DEF LoopTop, DeadlineReached, StopNoticed, SignalReason, Goto, Finalize
<1>12. CASE Poll  BY <1>12 DEF Poll, SignalReason, Goto, Finalize
<1>13. CASE Listen  BY <1>13 DEF Listen, Goto, Finalize
<1>14. CASE ReadBatch  BY <1>14 DEF ReadBatch, SignalReason, Goto, Finalize
<1>15. CASE RecordBatch  BY <1>15 DEF RecordBatch, Goto, Finalize
<1>16. CASE FeedEvent
  BY <1>16 DEF FeedEvent, OnFrame, BridgeAccepts, Goto, Finalize
<1>17. CASE Tick  BY <1>17 DEF Tick, FaultPending, Goto, Finalize
<1>18. CASE ReleaseOutput  BY <1>18 DEF ReleaseOutput, Goto
<1>19. CASE FinishUnattached  BY <1>19 DEF FinishUnattached, FinishTrace, Goto
<1>20. CASE CloseKeyboards  BY <1>20 DEF CloseKeyboards, Goto
<1>21. CASE FinishRecorder  BY <1>21 DEF FinishRecorder, FinishTrace, Goto
<1>22. CASE Ungrab  BY <1>22 DEF Ungrab, ReleaseGrab, UngrabOwed, Goto
<1>23. CASE CloseDevice
  BY <1>23 DEF CloseDevice, ReleaseGrab, UngrabOwed, Goto
<1>24. CASE Report  BY <1>24 DEF Report, Compose, PrimaryResult
<1>25. CASE RequestStop  BY <1>25 DEF RequestStop
<1>26. CASE InterruptSession  BY <1>26 DEF InterruptSession
<1>27. CASE Unwind  BY <1>27 DEF Unwind, DropGuard
<1>28. CASE ClockTick  BY <1>28 DEF ClockTick, WaitElapsed
<1>29. CASE UNCHANGED vars  BY <1>29 DEF vars
<1> QED
  BY <1>1, <1>2, <1>3, <1>4, <1>5, <1>6, <1>7, <1>8, <1>9, <1>10,
   <1>11, <1>12, <1>13, <1>14, <1>15, <1>16, <1>17, <1>18, <1>19,
   <1>20, <1>21, <1>22, <1>23, <1>24, <1>25, <1>26, <1>27, <1>28,
   <1>29
     DEF Next, Program, Prepare, Loop, Cleanup, Environment, Exited

\* The stop reason and the result.
LEMMA OutcomeStep ==
  ASSUME PhasesOK, PointsInv, DeviceInv, OutcomeInv, [Next]_vars
  PROVE  OutcomeInv'
<1> USE DEF PhasesOK, PointsInv, SetupInv, LoopInv, CleanupInv,
      DeviceInv, GrabInv, BeforeUngrab, OutcomeInv, AfterRelease,
      AfterUnattached, AfterKeyboards, AfterFinish, SetupPoints,
      LoopPoints, CleanupPoints, control, time, guardv, runtime, device,
      bridge, output, history
<1>1. CASE OpenDevice  BY <1>1 DEF OpenDevice, Goto, Finalize
<1>2. CASE OpenKeyboards  BY <1>2 DEF OpenKeyboards, Goto, DropGuard
<1>3. CASE PrepareOutput  BY <1>3 DEF PrepareOutput, Goto, Finalize
<1>4. CASE CheckCapabilities
  BY <1>4 DEF CheckCapabilities, AfterCapabilities, Goto, Finalize
<1>5. CASE CreateRecorder  BY <1>5 DEF CreateRecorder, Goto, Finalize
<1>6. CASE FlushHeader  BY <1>6 DEF FlushHeader, Goto, Finalize
<1>7. CASE AnnouncePlan  BY <1>7 DEF AnnouncePlan, Goto, Finalize
<1>8. CASE CountDown  BY <1>8 DEF CountDown, Goto, Finalize
<1>9. CASE Recheck  BY <1>9 DEF Recheck, Goto, Finalize
<1>10. CASE Grab  BY <1>10 DEF Grab, Goto, Finalize
<1>11. CASE LoopTop
  BY <1>11 DEF LoopTop, DeadlineReached, StopNoticed, SignalReason, Goto, Finalize
<1>12. CASE Poll  BY <1>12 DEF Poll, SignalReason, Goto, Finalize
<1>13. CASE Listen  BY <1>13 DEF Listen, Goto, Finalize
<1>14. CASE ReadBatch  BY <1>14 DEF ReadBatch, SignalReason, Goto, Finalize
<1>15. CASE RecordBatch  BY <1>15 DEF RecordBatch, Goto, Finalize
<1>16. CASE FeedEvent
  BY <1>16 DEF FeedEvent, OnFrame, BridgeAccepts, Goto, Finalize
<1>17. CASE Tick  BY <1>17 DEF Tick, TimerDue, FaultPending, Goto, Finalize
<1>18. CASE ReleaseOutput  BY <1>18 DEF ReleaseOutput, Goto
<1>19. CASE FinishUnattached  BY <1>19 DEF FinishUnattached, FinishTrace, Goto
<1>20. CASE CloseKeyboards  BY <1>20 DEF CloseKeyboards, Goto
<1>21. CASE FinishRecorder  BY <1>21 DEF FinishRecorder, FinishTrace, Goto
<1>22. CASE Ungrab  BY <1>22 DEF Ungrab, ReleaseGrab, UngrabOwed, Goto
<1>23. CASE CloseDevice
  BY <1>23 DEF CloseDevice, ReleaseGrab, UngrabOwed, Goto
<1>24. CASE Report  BY <1>24 DEF Report, Compose, PrimaryResult
<1>25. CASE RequestStop  BY <1>25 DEF RequestStop
<1>26. CASE InterruptSession  BY <1>26 DEF InterruptSession
<1>27. CASE Unwind  BY <1>27 DEF Unwind, DropGuard
<1>28. CASE ClockTick  BY <1>28 DEF ClockTick, WaitElapsed
<1>29. CASE UNCHANGED vars  BY <1>29 DEF vars
<1> QED
  BY <1>1, <1>2, <1>3, <1>4, <1>5, <1>6, <1>7, <1>8, <1>9, <1>10,
   <1>11, <1>12, <1>13, <1>14, <1>15, <1>16, <1>17, <1>18, <1>19,
   <1>20, <1>21, <1>22, <1>23, <1>24, <1>25, <1>26, <1>27, <1>28,
   <1>29
     DEF Next, Program, Prepare, Loop, Cleanup, Environment, Exited

-----------------------------------------------------------------------------
\* Numeric variables stay in their ranges: no counter passes its bound.
THEOREM CountersCorrect == Spec => []CountersOK
<1>1. Init => CountersOK
  BY TakeoverAssumption DEF Init, CountersOK
<1>2. CountersOK /\ [Next]_vars => CountersOK'
  BY CountersStep
<1> QED
  BY <1>1, <1>2, PTL DEF Spec

\* The inductive invariant of the coordinator.
THEOREM SafetyInvariant == Spec => []SafetyInv
<1>1. Init => SafetyInv
  <2> SUFFICES ASSUME Init PROVE SafetyInv
    OBVIOUS
  <2> USE DEF Init, SetupPoints, LoopPoints, CleanupPoints
  <2>1. PhasesOK
    BY DEF PhasesOK
  <2>2. PointsInv
    BY DEF PointsInv, SetupInv, LoopInv, CleanupInv, NothingLeftBehind,
           BeforeCreate, BeforeGrab, Negotiated, AfterRelease, AfterUnattached,
           AfterKeyboards, AfterFinish
  <2>3. DeviceInv
    BY DEF DeviceInv, HeldInv, GrabInv, BeforeUngrab
  <2>4. TraceInv /\ OutcomeInv
    BY DEF TraceInv, OutcomeInv, BeforeUngrab
  <2> QED
    BY <2>1, <2>2, <2>3, <2>4 DEF SafetyInv
<1>2. SafetyInv /\ [Next]_vars => SafetyInv'
  BY PhasesStep, PointsStep, DeviceStep, TraceStep, OutcomeStep DEF SafetyInv
<1> QED
  BY <1>1, <1>2, PTL DEF Spec

\* Counters keep their ranges, control and resources their states.
THEOREM TypeCorrect == Spec => []TypeOK
<1>1. SafetyInv /\ CountersOK => TypeOK
  BY DEF SafetyInv, TypeOK
<1> QED
  BY <1>1, SafetyInvariant, CountersCorrect, PTL

\* However the command ends, error, stop or unwind, the touchpad is back with
\* the desktop and no listener, recorder or output session survives.
THEOREM TouchpadReturned == Spec => []NothingLeftBehind
<1>1. SafetyInv => NothingLeftBehind
  BY DEF SafetyInv, PointsInv
<1> QED
  BY <1>1, SafetyInvariant, PTL

\* Nothing is held on the desktop unless the touchpad is exclusively ours, but
\* for a release that failed and was recorded.
THEOREM HeldWhileGrabbed == Spec => []HeldOnlyWhileGrabbed
<1>1. SafetyInv => HeldOnlyWhileGrabbed
  BY DEF SafetyInv, DeviceInv, HeldInv, HeldOnlyWhileGrabbed, KernelGrab
<1> QED
  BY <1>1, SafetyInvariant, PTL

\* EVIOCGRAB(0) is issued at most once, and never without a grab.
THEOREM UngrabOnce == Spec => []UngrabAtMostOnce
<1>1. SafetyInv => UngrabAtMostOnce
  BY DEF SafetyInv, DeviceInv, GrabInv, UngrabAtMostOnce
<1> QED
  BY <1>1, SafetyInvariant, PTL

\* A takeover reported as aborted before it began touched nothing.
THEOREM AbortUntouched == Spec => []AbortedBeforeItBegan
<1>1. SafetyInv => AbortedBeforeItBegan
  BY DEF SafetyInv, OutcomeInv, AbortedBeforeItBegan
<1> QED
  BY <1>1, SafetyInvariant, PTL

\* Exit 0 certifies a released desktop, a returned grab and a finished trace,
\* and hides no output fault.
THEOREM CleanExit == Spec => []CleanExitIsClean
<1>1. SafetyInv => CleanExitIsClean
  <2> SUFFICES ASSUME SafetyInv, exit = "Ok" PROVE CleanExitIsClean
    BY DEF CleanExitIsClean
  <2>1. /\ pc = "exited" /\ everGrabbed /\ ~stopped
        /\ "recorder" \notin failed /\ "output" \notin failed /\ "device" \notin failed
    BY DEF SafetyInv, OutcomeInv
  <2>2. ~held
    BY <2>1 DEF SafetyInv, DeviceInv, HeldInv, LoopPoints
  <2>3. ~grabbed /\ ungrabs = 1
    BY <2>1 DEF SafetyInv, DeviceInv, GrabInv
  <2>4. Traced => traceFile = "finished"
    BY <2>1 DEF SafetyInv, TraceInv
  <2> QED
    BY <2>1, <2>2, <2>3, <2>4 DEF CleanExitIsClean
<1> QED
  BY <1>1, SafetyInvariant, PTL

\* The grab is the last preparation step.
THEOREM GrabLast == Spec => GrabIsLast
<1>1. SafetyInv /\ [Next]_vars => [~grabbed /\ grabbed' =>
        /\ session = "ready" /\ ~stepped /\ ~everEmitted
        /\ Traced => recorder /\ traceFile = "open"]_vars
  <2> SUFFICES ASSUME SafetyInv, [Next]_vars, ~grabbed, grabbed'
               PROVE  /\ session = "ready" /\ ~stepped /\ ~everEmitted
                      /\ Traced => recorder /\ traceFile = "open"
    OBVIOUS
  <2>1. pc = "grab"
    BY DEF Next, Program, Prepare, Loop, Cleanup, Environment, Exited, OpenDevice,
       OpenKeyboards, PrepareOutput, CheckCapabilities, CreateRecorder,
       FlushHeader, AnnouncePlan, CountDown, Recheck, Grab, LoopTop, Poll, Listen,
       ReadBatch, RecordBatch, FeedEvent, Tick, ReleaseOutput, FinishUnattached,
       CloseKeyboards, FinishRecorder, Ungrab, CloseDevice, ReleaseGrab, UngrabOwed, Report,
       RequestStop, InterruptSession, Unwind, ClockTick, vars, device
  <2> QED
    BY <2>1 DEF SafetyInv, PointsInv, SetupInv, SetupPoints, Negotiated, BeforeGrab
<1> QED
  BY <1>1, SafetyInvariant, PTL DEF Spec, GrabIsLast

\* The output session is released before any recorder is finished, and both
\* before the device is ungrabbed or closed.
THEOREM OrderedCleanup == Spec => CleanupOrder
<1> DEFINE Ordered ==
      /\ (grabbed /\ ~grabbed') \/ (fdOpen /\ ~fdOpen') =>
           session = "released" /\ ~unattached /\ ~recorder /\ traceFile # "open"
      /\ traceFile # "finished" /\ traceFile' = "finished" => session = "released"
<1>1. SafetyInv /\ [Next]_vars => [Ordered]_vars
  <2> SUFFICES ASSUME SafetyInv, [Next]_vars PROVE Ordered
    OBVIOUS
  <2>1. (grabbed /\ ~grabbed') \/ (fdOpen /\ ~fdOpen') => pc \in {"ungrab", "close"}
    BY DEF Next, Program, Prepare, Loop, Cleanup, Environment, Exited, OpenDevice,
       OpenKeyboards, PrepareOutput, CheckCapabilities, CreateRecorder,
       FlushHeader, AnnouncePlan, CountDown, Recheck, Grab, LoopTop, Poll, Listen,
       ReadBatch, RecordBatch, FeedEvent, Tick, ReleaseOutput, FinishUnattached,
       CloseKeyboards, FinishRecorder, Ungrab, CloseDevice, ReleaseGrab, UngrabOwed, Report,
       RequestStop, InterruptSession, Unwind, ClockTick, vars, device, SafetyInv,
       PointsInv, SetupInv, SetupPoints
  <2>2. traceFile # "finished" /\ traceFile' = "finished" =>
          pc \in {"unattached", "finish"}
    BY DEF Next, Program, Prepare, Loop, Cleanup, Environment, Exited, OpenDevice,
       OpenKeyboards, PrepareOutput, CheckCapabilities, CreateRecorder,
       FlushHeader, AnnouncePlan, CountDown, Recheck, Grab, LoopTop, Poll, Listen,
       ReadBatch, RecordBatch, FeedEvent, Tick, ReleaseOutput, FinishUnattached,
       FinishTrace, CloseKeyboards, FinishRecorder, Ungrab, CloseDevice, Report,
       RequestStop, InterruptSession, Unwind, ClockTick, vars, runtime
  <2> QED
    BY <2>1, <2>2 DEF SafetyInv, PointsInv, CleanupInv, CleanupPoints,
       AfterRelease, AfterUnattached, AfterKeyboards, AfterFinish
<1> QED
  BY <1>1, SafetyInvariant, PTL DEF Spec, CleanupOrder

\* No late output: once the bridge stopped, only the release changes what is
\* held on the desktop, and it never presses.
THEOREM NoLateOutput == Spec => NoOutputAfterFault
<1>1. SafetyInv /\ [Next]_vars =>
        [stopped /\ held' # held => pc = "release" /\ ~held']_vars
  <2> SUFFICES ASSUME SafetyInv, [Next]_vars, stopped, held' # held
               PROVE  pc = "release" /\ ~held'
    OBVIOUS
  <2> QED
    BY DEF Next, Program, Prepare, Loop, Cleanup, Environment, Exited, OpenDevice,
       OpenKeyboards, PrepareOutput, CheckCapabilities, CreateRecorder,
       FlushHeader, AnnouncePlan, CountDown, Recheck, Grab, LoopTop, Poll, Listen,
       ReadBatch, RecordBatch, FeedEvent, OnFrame, BridgeAccepts, Tick, TimerDue,
       ReleaseOutput, FinishUnattached, CloseKeyboards, FinishRecorder, Ungrab,
       CloseDevice, Report, RequestStop, InterruptSession, Unwind, ClockTick,
       vars, output
<1> QED
  BY <1>1, SafetyInvariant, PTL DEF Spec, NoOutputAfterFault

\* A bounded takeover outlives its duration by less than one polling quantum.
THEOREM DeadlineBound == Spec => []BoundedTakeover
<1>1. Init => DeadlineInv
  BY TakeoverAssumption DEF Init, DeadlineInv
<1>2. CountersOK /\ DeadlineInv /\ [Next]_vars => DeadlineInv'
  <2> SUFFICES ASSUME CountersOK, DeadlineInv, [Next]_vars PROVE DeadlineInv'
    OBVIOUS
  <2> USE TakeoverAssumption DEF CountersOK, DeadlineInv, Bounded
  <2>1. CASE LoopTop
    BY <2>1 DEF LoopTop, DeadlineReached, StopNoticed, SignalReason, Goto, Finalize
  <2>2. CASE ClockTick
    BY <2>2 DEF ClockTick, WaitElapsed, control
  <2>3. CASE UNCHANGED <<command, elapsed>> /\ (pc' = "poll" => pc = "poll" /\ waited' = waited)
    BY <2>3
  <2>4. [Next]_vars => \/ LoopTop \/ ClockTick
                       \/ /\ UNCHANGED <<command, elapsed>>
                          /\ pc' = "poll" => pc = "poll" /\ waited' = waited
    BY DEF Next, Program, Prepare, Loop, Cleanup, Environment, Exited, OpenDevice,
       OpenKeyboards, PrepareOutput, CheckCapabilities, CreateRecorder,
       FlushHeader, AnnouncePlan, CountDown, Recheck, Grab, Poll, AfterCapabilities, Listen,
       ReadBatch, RecordBatch, FeedEvent, Tick, ReleaseOutput, FinishUnattached,
       CloseKeyboards, FinishRecorder, Ungrab, CloseDevice, Report, RequestStop,
       InterruptSession, Unwind, Goto, Finalize, DropGuard, Traced, Interactive,
       control, time, vars
  <2> QED
    BY <2>1, <2>2, <2>3, <2>4
<1>3. DeadlineInv => BoundedTakeover
  BY DEF DeadlineInv, BoundedTakeover
<1> QED
  BY <1>1, <1>2, <1>3, CountersCorrect, PTL DEF Spec

\* However the command ends, nothing survives it, and exit 0 certifies the
\* whole session.
THEOREM EndsCleanly == Spec => []EndsClean
  BY TypeCorrect, TouchpadReturned, HeldWhileGrabbed, UngrabOnce, CleanExit, AbortUntouched, PTL
  DEF EndsClean

\* Grab, cleanup and output come in their order.
THEOREM OrderKept == Spec => StepsInOrder
  BY GrabLast, OrderedCleanup, NoLateOutput DEF StepsInOrder
=============================================================================
