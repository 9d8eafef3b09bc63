----------------------------- MODULE EmitPattern -----------------------------
(***************************************************************************)
(* `output-probe --emit`: the countdown and its cancellation               *)
(* (cmd/output_probe.rs), the probe before anything is opened (probe.rs),  *)
(* the fixed pattern (emit.rs), the ordered cleanup after it and the error *)
(* that is reported (desktop.rs), with the exit code of each               *)
(* (output_probe_failure, exit.rs).  The output sink is modelled by what   *)
(* this code sees of it; OutputSession has its inside.                     *)
(***************************************************************************)
EXTENDS Integers, Sequences

COUNTDOWN_SECONDS == 3
MAX_PATTERN_EVENTS == 16

VARIABLE emission

(* Where the emission is, the seconds left of the countdown, the step and  *)
(* the events of it already submitted, the capabilities negotiated, what   *)
(* has been submitted, what the desktop holds, the errors seen, whether    *)
(* the session or the connection may be open, and the exit code.           *)
NoError == [error |-> "none"]

NoEmission ==
  [at |-> "off", left |-> COUNTDOWN_SECONDS, step |-> 1, done |-> 0, caps |-> {}, sent |-> <<>>,
   held |-> {}, stop |-> FALSE, pattern |-> NoError, interruption |-> NoError, open |-> FALSE,
   code |-> 0]

At(place) == emission.at = place

Failure(kind) == [error |-> kind]

(* output_probe_failure and CommandFailure::exit_code.                     *)
FailureCode ==
  [NoSessionBus |-> 2, PortalUnavailable |-> 2, AuthorizationCancelled |-> 3,
   AuthorizationRefused |-> 3, LibraryMissing |-> 4, ProtocolUnsupported |-> 4,
   CapabilityMissing |-> 4, UnsupportedPlatform |-> 4, TransportDisconnected |-> 5,
   DevicePaused |-> 5, Timeout |-> 5, SendFailed |-> 6, ReleaseFailed |-> 7, Cancelled |-> 8,
   InvalidPortalPath |-> 9, Internal |-> 9]

CodeOf(failure) == IF failure = NoError THEN 0 ELSE FailureCode[failure.error]

-----------------------------------------------------------------------------
(* The pattern                                                             *)

Pattern ==
  LET move == [needs |-> "relative-pointer", events |-> <<"move">>]
  IN << move, move, move,
        [needs |-> "primary-button", events |-> <<"left-down", "left-up">>],
        [needs |-> "pixel-scroll",
         events |-> <<"scroll-begin", "scroll", "scroll", "scroll-end">>],
        [needs |-> "secondary-button", events |-> <<"right-down", "right-up">>] >>

(* What a device that offers these capabilities is sent, step by step.     *)
EventsFor(caps) ==
  LET agreed(i) == IF Pattern[i].needs \in caps THEN Pattern[i].events ELSE <<>>
  IN agreed(1) \o agreed(2) \o agreed(3) \o agreed(4) \o agreed(5) \o agreed(6)

(* A device is bound for its pointer; it may have buttons and may scroll.  *)
Offers ==
  {{"relative-pointer"} \cup buttons \cup scroll :
     buttons \in {{}, {"primary-button", "secondary-button"}}, scroll \in {{}, {"pixel-scroll"}}}

(* The bound of run_pattern on its wire events is never met.               *)
ASSUME PatternAssumption == \A caps \in Offers : Len(EventsFor(caps)) <= MAX_PATTERN_EVENTS

Presses == [event \in {"left-down", "right-down", "scroll-begin"} |->
             CASE event = "left-down" -> "left" [] event = "right-down" -> "right"
               [] OTHER -> "scroll"]
Releases == [event \in {"left-up", "right-up", "scroll-end"} |->
              CASE event = "left-up" -> "left" [] event = "right-up" -> "right"
                [] OTHER -> "scroll"]

HeldAfter(held, event) ==
  IF event \in DOMAIN Presses THEN held \cup {Presses[event]}
  ELSE IF event \in DOMAIN Releases THEN held \ {Releases[event]} ELSE held

-----------------------------------------------------------------------------
(* Before anything is emitted                                              *)

End(failure) == emission' = [emission EXCEPT !.at = "over", !.code = CodeOf(failure)]

BeginEmission == emission' = [NoEmission EXCEPT !.at = "countdown"]

(* Ctrl-C or SIGTERM: the handler raises the flag that is polled.          *)
StopRequested ==
  /\ ~(At("off") \/ At("over")) /\ ~emission.stop
  /\ emission' = [emission EXCEPT !.stop = TRUE]

(* One second of the countdown, or the end of it.                          *)
CountDown ==
  /\ At("countdown")
  /\ IF emission.stop THEN End(Failure("Cancelled"))
     ELSE IF emission.left = 0 THEN emission' = [emission EXCEPT !.at = "preflight"]
     ELSE emission' = [emission EXCEPT !.left = @ - 1]

StatusUnwritable == At("countdown") /\ End(Failure("Internal"))

(* preflight_error, then the factories of the portal client and the        *)
(* library, which can fail in the same ways.                               *)
PreflightFails ==
  /\ At("preflight")
  /\ \E kind \in {"NoSessionBus", "PortalUnavailable", "LibraryMissing"} : End(Failure(kind))

(* prepare_cancellable.  It fails with the first error met; a stop during  *)
(* the handshake is one of its errors.                                     *)
PrepareErrors ==
  {"PortalUnavailable", "AuthorizationCancelled", "AuthorizationRefused", "ProtocolUnsupported",
   "CapabilityMissing", "TransportDisconnected", "DevicePaused", "Timeout", "InvalidPortalPath"}

Prepare ==
  /\ At("preflight")
  /\ \E caps \in Offers :
       emission' = [emission EXCEPT !.at = "pattern", !.caps = caps, !.open = TRUE]

(* cleanup_after_prepare_failure: what was opened until then is closed,    *)
(* which can fail as well.  A PrepareFailed carries both errors, and the   *)
(* exit code is that of the first.                                         *)
PrepareFails ==
  /\ At("preflight")
  /\ \E kind \in PrepareErrors \cup (IF emission.stop THEN {"Cancelled"} ELSE {}),
        left \in BOOLEAN :
       emission' = [emission EXCEPT !.at = "over", !.code = CodeOf(Failure(kind)), !.open = left]

-----------------------------------------------------------------------------
(* run_pattern                                                             *)

PatternEnds(failure) ==
  emission' = [emission EXCEPT !.at = "cleanup", !.pattern = failure]

Now == Pattern[emission.step]

BetweenSteps == At("pattern") /\ emission.done = 0

Cancel == BetweenSteps /\ emission.step <= Len(Pattern) /\ emission.stop
          /\ PatternEnds(Failure("Cancelled"))

SkipStep ==
  /\ BetweenSteps /\ emission.step <= Len(Pattern) /\ ~emission.stop
  /\ Now.needs \notin emission.caps
  /\ emission' = [emission EXCEPT !.step = @ + 1]

PatternDone == BetweenSteps /\ emission.step > Len(Pattern) /\ PatternEnds(NoError)

Submitting ==
  /\ At("pattern") /\ emission.step <= Len(Pattern) /\ Now.needs \in emission.caps
  /\ emission.done = 0 => ~emission.stop

(* The events of a step are submitted together; a stop is not looked at    *)
(* between them.                                                           *)
Submit ==
  /\ Submitting
  /\ LET event == Now.events[emission.done + 1]
         last  == emission.done + 1 = Len(Now.events)
     IN emission' = [emission EXCEPT
          !.sent = Append(@, event), !.held = HeldAfter(@, event),
          !.done = IF last THEN 0 ELSE @ + 1, !.step = IF last THEN @ + 1 ELSE @]

(* The sink refuses the event, for a send that failed or because a pump    *)
(* before it or after it met the server pausing or removing the device, or *)
(* disconnecting.  It may have reached the desktop all the same, and the   *)
(* sink's record of what is held then knows nothing of it.                 *)
SubmitFails ==
  /\ Submitting
  /\ \E interruption \in {NoError, Failure("DevicePaused"), Failure("TransportDisconnected")},
        reached \in BOOLEAN :
       emission' = [emission EXCEPT
         !.at = "cleanup", !.pattern = Failure("SendFailed"), !.interruption = interruption,
         !.held = IF reached THEN HeldAfter(@, Now.events[emission.done + 1]) ELSE @]

-----------------------------------------------------------------------------
(* The ordered cleanup and the error that is reported: a failed release    *)
(* before everything, then the interruption, then the pattern's own error. *)

\* mutant: an error of the pattern hides that the release failed
ReportedByCause(released) ==
  IF emission.interruption # NoError THEN emission.interruption
  ELSE IF emission.pattern # NoError THEN emission.pattern
  ELSE IF released THEN NoError ELSE Failure("ReleaseFailed")
Reported(released) ==
  IF ~released THEN Failure("ReleaseFailed")
  ELSE IF emission.interruption # NoError THEN emission.interruption ELSE emission.pattern

(* release_all_detailed: what the record says is held is lifted, unless    *)
(* the server took the device away; the transport is disconnected, upon    *)
(* which the desktop lifts whatever is left; the session is closed.  Each  *)
(* of these is tried though another failed.  (What Drop tries once more is *)
(* not counted.)                                                           *)
Cleanup ==
  /\ At("cleanup")
  /\ \E lifted \in SUBSET emission.held, answered \in BOOLEAN, disconnected \in BOOLEAN,
        closed \in BOOLEAN :
       LET released == answered /\ disconnected /\ closed
       IN /\ emission.interruption # NoError => lifted = {} /\ answered
          /\ emission' = [emission EXCEPT
               !.at = IF Reported(released) = NoError THEN "report" ELSE "over",
               !.code = CodeOf(Reported(released)),
               !.held = IF disconnected THEN {} ELSE @ \ lifted,
               !.open = ~(disconnected /\ closed)]

(* The closing lines of a complete emission can fail to be written.        *)
Report ==
  /\ At("report")
  /\ \E failure \in {NoError, Failure("Internal")} : End(failure)

EmissionStep ==
  \/ StopRequested \/ CountDown \/ StatusUnwritable
  \/ PreflightFails \/ PrepareFails \/ Prepare
  \/ Cancel \/ SkipStep \/ PatternDone \/ Submit \/ SubmitFails
  \/ Cleanup \/ Report

-----------------------------------------------------------------------------

(* The exit code of an emission can be believed: 0 says that every step    *)
(* the desktop agreed to was sent whole and in order, that nothing is held *)
(* and that the session is closed; 8 that a stop was asked for; and no     *)
(* code but 7 leaves anything held.  A session that may still be open has  *)
(* code 7, or is what a failed preparation left, whose code is that of its *)
(* first error (prepare_failure_maps_to_the_primary_exit_code): there      *)
(* nothing was negotiated and nothing sent.                                *)
EmissionAccountedFor ==
  At("over") =>
    /\ emission.code = 0 =>
         /\ emission.sent = EventsFor(emission.caps) /\ emission.pattern = NoError
         /\ ~emission.open
    /\ emission.code = 8 => emission.stop
    /\ emission.code # 7 => emission.held = {}
    /\ emission.open => emission.code = 7 \/ (emission.caps = {} /\ emission.sent = <<>>)
=============================================================================
