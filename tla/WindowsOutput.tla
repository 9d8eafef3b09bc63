---------------------------- MODULE WindowsOutput ----------------------------
(***************************************************************************)
(* The Windows compatibility sink (output.rs): buttons that are held, the  *)
(* fractions of a wheel unit that are carried over, the release of         *)
(* everything, and the fixed pattern of the probe.  Every call of the      *)
(* Win32 seam is one SendInput, which may insert the event or fail.        *)
(* Residues are counted in the Grain-th part of a wheel unit.              *)
(***************************************************************************)
EXTENDS Integers, Sequences

CONSTANTS
  Buttons,     \* the five that Win32 knows
  Unknown,     \* the others
  Scrolls,     \* scroll deltas, in grains
  Grain,       \* grains in a wheel unit
  WheelMax,    \* i32::MAX: the most units one wheel event carries, either way
  MaxSubmits   \* bound: events of a behaviour

ASSUME WindowsAssumption ==
  /\ Scrolls \subseteq Int /\ Grain \in Nat \ {0} /\ WheelMax \in Nat \ {0}
  /\ Buttons \cap Unknown = {} /\ MaxSubmits \in Nat

VARIABLES
  holding,   \* HeldButtons
  residue,   \* wheel_x_residue, wheel_y_residue
  answer,    \* of the last call
  probe,     \* the next event of the pattern, 0 outside of it
  submits,   \* bound: events so far
  windows,   \* history: the buttons Windows has down
  unsent,    \* history: grains scrolled and not yet sent, on each axis
  spoiled,   \* history: a wheel event has failed since the last release
  full       \* history: one was full

sinkVars == <<holding, residue, answer, probe, submits, windows, unsent, spoiled, full>>

Axes == {"x", "y"}
Still == [a \in Axes |-> 0]

SinkInit ==
  /\ holding = {} /\ residue = Still /\ answer = "none" /\ probe = 0 /\ submits = 0
  /\ windows = {} /\ unsent = Still /\ spoiled = FALSE /\ full = FALSE

Accept(outcome) == answer' = outcome
Steady == UNCHANGED <<holding, windows, residue, unsent, spoiled, full>>

-----------------------------------------------------------------------------
(* submit                                                                  *)

(* A movement that rounds to nothing is not sent.                          *)
Move ==
  /\ \/ Accept("ok") \/ Accept("io")
  /\ Steady

(* A button is sent when it is not yet as it should be, and noted after.   *)
SendButton(b, down) ==
  /\ IF b \notin Buttons THEN Accept("rejected") /\ UNCHANGED <<holding, windows>>
     ELSE IF (b \in holding) = down THEN Accept("ok") /\ UNCHANGED <<holding, windows>>
     ELSE \/ Accept("io") /\ UNCHANGED <<holding, windows>>
          \/ /\ Accept("ok")
             /\ holding' = IF down THEN holding \cup {b} ELSE holding \ {b}
             /\ windows' = IF down THEN windows \cup {b} ELSE windows \ {b}
  /\ UNCHANGED <<residue, unsent, spoiled, full>>

(* drain_integral: whole units, towards zero, as many as an event carries. *)
WholeUnits(n) == IF n < 0 THEN -((-n) \div Grain) ELSE n \div Grain
Drained(n) == CASE WholeUnits(n) > WheelMax  -> WheelMax
                [] WholeUnits(n) < -WheelMax -> -WheelMax
                [] OTHER                     -> WholeUnits(n)

(* Both axes are drained first.  The vertical wheel is only turned when    *)
(* the horizontal one was; what was drained and not sent is lost.          *)
Scroll(d) ==
  LET total == [a \in Axes |-> residue[a] + d[a]]
      units == [a \in Axes |-> Drained(total[a])]
      turn  == {a \in Axes : units[a] # 0}
  IN  \E done \in {turn, {}, turn \cap {"x"}} :
        /\ residue' = [a \in Axes |-> total[a] - units[a] * Grain]
        /\ spoiled' = (spoiled \/ done # turn)
        /\ unsent' = IF spoiled' THEN unsent
                     ELSE [a \in Axes |-> unsent[a] + d[a] - units[a] * Grain]
        /\ full' = (full \/ \E a \in Axes : units[a] # WholeUnits(total[a]))
        /\ Accept(IF done = turn THEN "ok" ELSE "io")
        /\ UNCHANGED <<holding, windows>>

(* ScrollBegin and ScrollEnd are accepted; desktop actions are not.        *)
Bracket == Accept("ok") /\ Steady
Unsupported == Accept("rejected") /\ Steady

-----------------------------------------------------------------------------
(* release_all: every held button is tried, and the first failure told.    *)

ReleaseSink ==
  /\ \E refused \in SUBSET holding :
       /\ holding' = refused /\ windows' = windows \ (holding \ refused)
       /\ Accept(IF refused = {} THEN "released" ELSE "fatal")
  /\ residue' = Still /\ unsent' = Still /\ spoiled' = FALSE /\ full' = FALSE

-----------------------------------------------------------------------------
(* emit_fixed_probe_pattern: ten events, each only if the last was taken,  *)
(* then the release, whose answer is the probe's.                          *)

ProbeEvent(left, right, down) ==
  \/ probe \in {1, 2, 3} /\ Move
  \/ probe = 4 /\ SendButton(left, TRUE)
  \/ probe = 5 /\ SendButton(left, FALSE)
  \/ probe \in {6, 8} /\ Bracket
  \/ probe = 7 /\ Scroll(down)
  \/ probe = 9 /\ SendButton(right, TRUE)
  \/ probe = 10 /\ SendButton(right, FALSE)

ProbeStep(left, right, down) ==
  \/ probe = 0 /\ probe' = 1 /\ UNCHANGED answer /\ Steady
  \/ ProbeEvent(left, right, down) /\ probe' = IF answer' = "ok" THEN probe + 1 ELSE 0
  \/ probe = 11 /\ ReleaseSink /\ probe' = 0

On(x, y) == [a \in Axes |-> IF a = "x" THEN x ELSE y]

Submit ==
  \/ Move \/ Bracket \/ Unsupported \/ ReleaseSink
  \/ \E b \in Buttons \cup Unknown, down \in BOOLEAN : SendButton(b, down)
  \/ \E x, y \in Scrolls : Scroll(On(x, y))

(* A call begins when the last is over; the events of the probe's pattern  *)
(* are not bounded.                                                        *)
SinkNext ==
  \/ probe = 0 /\ submits < MaxSubmits /\ submits' = submits + 1 /\ Submit /\ UNCHANGED probe
  \/ \E left, right \in Buttons, y \in Scrolls :
       /\ submits' = IF probe = 0 THEN submits + 1 ELSE submits
       /\ submits' <= MaxSubmits /\ ProbeStep(left, right, On(0, y))

-----------------------------------------------------------------------------
(* Properties                                                              *)

Size(n) == IF n < 0 THEN -n ELSE n

(* Whichever calls failed and wherever a release or the probe stopped, the *)
(* buttons the sink takes for held are those Windows has down, so that the *)
(* next release finds them, and a release that is answered well leaves     *)
(* none.  Unless a wheel event failed, not a grain of what was scrolled is *)
(* lost or sent twice, and unless one was full less than a unit waits      *)
(* (output.rs submit_button, submit_scroll, release_all).                  *)
NothingStuckOrLost ==
  /\ holding = windows
  /\ answer = "released" => windows = {}
  /\ ~spoiled => residue = unsent
  /\ ~full => \A a \in Axes : -Grain < residue[a] /\ residue[a] < Grain
=============================================================================
