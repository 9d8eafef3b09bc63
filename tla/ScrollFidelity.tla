--------------------------- MODULE ScrollFidelity ---------------------------
(***************************************************************************)
(* The two-finger scroll stage (scroll_fidelity.rs): velocity per axis, an *)
(* axis lock with hysteresis that a reversal drops, and the momentum       *)
(* primitives.  Direct scrolling is what the Arbiter drives; the momentum  *)
(* functions are driven by their own callers only.                         *)
(***************************************************************************)
EXTENDS Fidelity

CONSTANTS
    Engage, EngageOf,    \* axis_lock_engage_ratio is Engage / EngageOf
    LetGo, LetGoOf,      \* axis_lock_release_ratio is LetGo / LetGoOf
    StartSpeed,          \* momentum_start_speed_mm_per_s
    StopSpeed            \* momentum_stop_speed_mm_per_s

ASSUME ScrollAssumption ==
    /\ Engage \in Nat /\ EngageOf \in Nat \ {0} /\ Engage > EngageOf
    /\ LetGo \in Nat /\ LetGoOf \in Nat \ {0} /\ LetGo > LetGoOf
    /\ LetGo * EngageOf < Engage * LetGoOf
    /\ StopSpeed \in Nat \ {0} /\ StartSpeed \in Nat /\ StopSpeed < StartSpeed

AxisLocks == {"None", "Horizontal", "Vertical"}

ScrollType ==
    [anchored : BOOLEAN, pending : Vector, velocity : Vector, lock : AxisLocks]

ScrollRests == [anchored |-> FALSE, pending |-> Zero, velocity |-> Zero, lock |-> "None"]

\* update_axis_lock
UpdateLock(lock, v) ==
    LET ax == Abs(v[1])
        ay == Abs(v[2])
        leaves(along, across) == across > 0 /\ along * LetGoOf < across * LetGo
    IN  CASE lock = "None" /\ ax > 0 /\ ax * EngageOf >= ay * Engage -> "Horizontal"
          [] lock = "None" /\ ay > 0 /\ ay * EngageOf >= ax * Engage
                           /\ ~(ax > 0 /\ ax * EngageOf >= ay * Engage) -> "Vertical"
          [] lock = "Horizontal" /\ ~leaves(ax, ay) -> "Horizontal"
          [] lock = "Vertical" /\ ~leaves(ay, ax) -> "Vertical"
          [] OTHER -> "None"

\* apply_axis_lock
Locked(lock, d) ==
    CASE lock = "Horizontal" -> <<d[1], 0>>
      [] lock = "Vertical" -> <<0, d[2]>>
      [] OTHER -> d

Dot(a, b) == a[1] * b[1] + a[2] * b[2]
Halved(a, b) == <<(a[1] + b[1]) \div 2, (a[2] + b[2]) \div 2>>

\* process_scroll: the outcomes of one displacement of the centroid, dt after
\* the anchor.  A sample against the filtered velocity replaces it and drops
\* the lock; any other one is filtered in, with a weight in [0, 1].
ProcessScroll(s, delta, dt) ==
    IF ~s.anchored
    THEN {[kind |-> "Emit", scaled |-> Times(delta, Scale * MinGain),
           state |-> [s EXCEPT !.anchored = TRUE]]}
    ELSE LET pending == Plus(s.pending, delta)
             sample == <<pending[1] \div dt, pending[2] \div dt>>
             reversed == Dot(s.velocity, sample) < 0
             settled(v) ==
                LET lock == UpdateLock(IF reversed THEN "None" ELSE s.lock, v)
                IN  [kind |-> "Emit",
                     scaled |-> Times(Locked(lock, pending), Scale * Gain(Hypot(v))),
                     state |-> [s EXCEPT !.pending = Zero, !.velocity = v, !.lock = lock]]
         IN  IF dt = 0
             THEN {[kind |-> "Hold", scaled |-> Zero, state |-> [s EXCEPT !.pending = pending]]}
             ELSE {settled(v) : v \in
                     IF reversed THEN {sample}
                     ELSE {s.velocity, Halved(s.velocity, sample), sample}}

-----------------------------------------------------------------------------
(* Momentum: begin_momentum takes over the filtered velocity; a tick       *)
(* integrates the elapsed time in chunks of momentum_tick_cap (one tick    *)
(* here), each of which slows it by exp(-dt/tau) (here by half), and stops *)
(* at the stop speed.                                                      *)
Slower(v) == <<(IF v[1] < 0 THEN -1 ELSE 1) * (Abs(v[1]) \div 2),
               (IF v[2] < 0 THEN -1 ELSE 1) * (Abs(v[2]) \div 2)>>

\* The velocity left after n chunks, the loop leaving at the stop speed.
Coasted(v0, n) ==
    LET after[k \in 0 .. n] ==
            IF k = 0 THEN v0
            ELSE IF Hypot(after[k - 1]) <= StopSpeed THEN after[k - 1]
            ELSE Slower(after[k - 1])
    IN  after[n]

Begins(s) == Hypot(s.velocity) >= StartSpeed
Ends(v) == Hypot(v) <= StopSpeed
=============================================================================
