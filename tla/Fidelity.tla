------------------------------ MODULE Fidelity ------------------------------
(***************************************************************************)
(* The pure motion stages between the millimetres of a contact and the     *)
(* whole pixels of an output event (fidelity.rs, and quantize in           *)
(* arbiter.rs): the jitter dead zone, the velocity estimate, the           *)
(* smoothstep gain, and the sub-pixel remainder.  Displacements are pairs  *)
(* of whole millimetres, speeds whole millimetres per tick, and pixels are *)
(* counted in Unit-ths of a pixel, so that the remainder is exact, as the  *)
(* f64 arithmetic of the code is for the ranges it meets.                  *)
(***************************************************************************)
EXTENDS Integers

CONSTANTS
    Unit,       \* parts of one logical pixel
    Scale,      \* base_px_per_mm * tracking_speed, in Unit-ths
    DeadZone,   \* dead_zone_radius_mm
    SlowSpeed,  \* gain_x0_mm_per_s
    FastSpeed,  \* gain_x1_mm_per_s
    MinGain,    \* min_gain
    MaxGain,    \* max_gain
    LongGap     \* long_gap, inclusive

ASSUME FidelityAssumption ==
    /\ Unit \in Nat \ {0} /\ Scale \in Nat \ {0} /\ DeadZone \in Nat \ {0}
    /\ SlowSpeed \in Nat \ {0} /\ FastSpeed \in Nat /\ FastSpeed > SlowSpeed
    /\ MinGain \in Nat \ {0} /\ MaxGain \in Nat /\ MaxGain >= MinGain
    /\ LongGap \in Nat \ {0}

Vector == Int \X Int
Zero == <<0, 0>>
Plus(a, b) == <<a[1] + b[1], a[2] + b[2]>>
Minus(a, b) == <<a[1] - b[1], a[2] - b[2]>>
Times(a, k) == <<a[1] * k, a[2] * k>>
Abs(n) == IF n < 0 THEN -n ELSE n
Square(a) == a[1] * a[1] + a[2] * a[2]

\* The length of a vector, to the whole millimetre below.
Hypot(a) == CHOOSE n \in 0 .. (Abs(a[1]) + Abs(a[2])) :
                n * n <= Square(a) /\ Square(a) < (n + 1) * (n + 1)

-----------------------------------------------------------------------------
(* gain: between the two speeds, the smoothstep 3t^2 - 2t^3 from the least *)
(* gain to the greatest.                                                   *)
Clamp(n, lo, hi) == IF n < lo THEN lo ELSE IF n > hi THEN hi ELSE n

Smoothstep(speed) ==
    LET width == FastSpeed - SlowSpeed
        t == Clamp(speed - SlowSpeed, 0, width)
    IN  (t * t * (3 * width - 2 * t) * (MaxGain - MinGain)) \div (width * width * width)

Gain(speed) == MinGain + Smoothstep(speed)

(* quantize: the whole pixels of the total go out, towards zero; the rest  *)
(* is the remainder of the axis.                                           *)
Trunc(n) == IF n < 0 THEN -((-n) \div Unit) ELSE n \div Unit
Emitted(scaled, remainder) ==
    <<Trunc(scaled[1] + remainder[1]), Trunc(scaled[2] + remainder[2])>>
Remainder(scaled, remainder) ==
    Minus(Plus(scaled, remainder), Times(Emitted(scaled, remainder), Unit))

-----------------------------------------------------------------------------
(* FidelityState: the displacement waiting for the dead zone (P), the one  *)
(* waiting for a velocity sample (V_pending), and the filtered speed.  The *)
(* anchor's timestamp is the time since it, which the caller counts; the   *)
(* paired t_acc is zero between two calls, because the only call that adds *)
(* to it also takes the sample and clears it.                              *)
FidelityType ==
    [anchored : BOOLEAN, held : Vector, unsampled : Vector, speed : Int]

Unanchored == [anchored |-> FALSE, held |-> Zero, unsampled |-> Zero, speed |-> 0]

\* evaluate_dead_zone: at the radius or beyond, all of P goes out, scaled.
Release(f) ==
    IF Square(f.held) >= DeadZone * DeadZone
    THEN [kind |-> "Emit", scaled |-> Times(f.held, Scale * Gain(f.speed)),
          state |-> [f EXCEPT !.held = Zero]]
    ELSE [kind |-> "Hold", scaled |-> Zero, state |-> f]

\* The exponential filter: alpha = 1 - exp(-t/tau) is in [0, 1], so the new
\* speed is anywhere between the old one and the sample's.
Between(a, b) == IF a <= b THEN a .. b ELSE b .. a

\* reset_timing_and_p, and the re-anchor at the frame that crossed the gap.
KeepsHeld(f) == [f EXCEPT !.unsampled = Zero, !.speed = 0]   \* mutant: reset_timing alone
Reanchored(f) == [f EXCEPT !.held = Zero, !.unsampled = Zero, !.speed = 0]

\* process: the outcomes of one displacement, dt after the anchor.
Process(f, delta, dt) ==
    IF ~f.anchored
    THEN {Release([f EXCEPT !.anchored = TRUE, !.held = Plus(@, delta)])}
    ELSE IF dt >= LongGap
    THEN {[kind |-> "Reanchored", scaled |-> Zero, state |-> Reanchored(f)]}
    ELSE LET folded == [f EXCEPT !.held = Plus(@, delta), !.unsampled = Plus(@, delta)]
         IN  IF dt = 0
             THEN {[kind |-> "Hold", scaled |-> Zero, state |-> folded]}
             ELSE {Release([folded EXCEPT !.speed = v, !.unsampled = Zero]) :
                     v \in Between(f.speed, Hypot(folded.unsampled) \div dt)}

\* The path of a configuration without the stage: the displacement, scaled, and
\* the stage's state s left alone.
Linear(s, delta) == {[kind |-> "Emit", scaled |-> Times(delta, Scale), state |-> s]}
=============================================================================
