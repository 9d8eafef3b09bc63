---------------------------- MODULE MotionProofs ----------------------------
(***************************************************************************)
(* Conservation of motion, for every configuration of the stages and every *)
(* movement of the fingers: what a stage holds is what the fingers have    *)
(* done since its last release, and the pixels sent and the remainder add  *)
(* up to the motion that was scaled.  Then the same of the stages before   *)
(* and beside it: the conversion of counts to millimetres for every device *)
(* and quirk database; the assembly of Windows reports, the gate before    *)
(* the arbiter, the sink and the capture for every report, event and       *)
(* failure.  The bounds play no part.                                      *)
(***************************************************************************)
EXTENDS MCMotion, FiniteSetTheorems, TLAPS

(* The places the stages keep are vectors.                                 *)
Places ==
    /\ filtered \in BOOLEAN /\ since \in Nat
    /\ at \in Vector /\ mark \in Vector /\ sampled \in Vector
    /\ fidelity \in FidelityType /\ scroll \in ScrollType

(* Before its first committed frame an interaction has nothing anchored,   *)
(* held or sampled, and its ghosts are where it began; afterwards the      *)
(* stage is anchored.  The invariant of the runs says nothing of either,   *)
(* and without them its first frame could start from anything.             *)
Untouched ==
    /\ life \in {"Candidate", "Pair"} => mark = Zero /\ sampled = Zero
    /\ life = "Candidate" => fidelity = Unanchored
    /\ life = "Pair" => scroll = ScrollRests
    /\ (filtered /\ life = "Drag" /\ ~fidelity.anchored) =>
            fidelity = Unanchored /\ at = Zero /\ mark = Zero /\ sampled = Zero
    /\ (filtered /\ life = "Committed") => fidelity.anchored
    /\ (filtered /\ life = "Scroll") => scroll.anchored

StageInv == Places /\ Untouched /\ StageTracksFingers

-----------------------------------------------------------------------------
LEMMA Sums ==
    ASSUME NEW a \in Vector, NEW b \in Vector
    PROVE  /\ Plus(a, b) \in Vector /\ Minus(a, b) \in Vector
           /\ Minus(a, a) = Zero /\ Minus(a, Zero) = a /\ Plus(Zero, a) = a
           /\ Minus(Plus(a, b), b) = a
BY DEF Plus, Minus, Vector, Zero

LEMMA Rests == Zero \in Vector /\ Unanchored \in FidelityType /\ ScrollRests \in ScrollType
BY DEF Zero, Vector, Unanchored, FidelityType, ScrollRests, ScrollType, AxisLocks

(* Folding a step into what a stage holds keeps it the difference of two   *)
(* places.                                                                 *)
LEMMA Folds ==
    ASSUME NEW p \in Vector, NEW m \in Vector, NEW d \in Vector
    PROVE  Plus(Minus(p, m), d) = Minus(Plus(p, d), m)
BY DEF Plus, Minus, Vector

LEMMA ReleaseTracks ==
    ASSUME NEW f \in FidelityType
    PROVE  LET o == Release(f) IN
           /\ o.state \in FidelityType
           /\ o.kind \in {"Emit", "Hold"}
           /\ o.state.anchored = f.anchored /\ o.state.unsampled = f.unsampled
           /\ o.state.held = IF o.kind = "Hold" THEN f.held ELSE Zero
<1>1. CASE Square(f.held) >= DeadZone * DeadZone
  BY <1>1, Rests DEF Release, FidelityType
<1>2. CASE ~(Square(f.held) >= DeadZone * DeadZone)
  BY <1>2 DEF Release, FidelityType
<1> QED BY <1>1, <1>2

(* One displacement d through process, which brings the fingers to q + d:  *)
(* the stage held the way from m to q and had yet to sample that from s.   *)
LEMMA ProcessTracks ==
    ASSUME NEW f \in FidelityType, NEW q \in Vector, NEW d \in Vector,
           NEW m \in Vector, NEW s \in Vector, NEW dt \in Nat,
           f.held = Minus(q, m), f.unsampled = Minus(q, s),
           ~f.anchored => s = q,
           NEW o \in Process(f, d, dt)
    PROVE  LET p == Plus(q, d) IN
           /\ o.state \in FidelityType /\ o.state.anchored
           /\ o.state.held = Minus(p, IF o.kind = "Hold" THEN m ELSE p)
           /\ o.state.unsampled = Minus(p, IF f.anchored /\ dt = 0 THEN s ELSE p)
<1> DEFINE p == Plus(q, d)
<1>1. p \in Vector /\ Minus(p, p) = Zero /\ Minus(q, q) = Zero /\ Zero \in Vector
  BY Sums, Rests
<1>2. Plus(f.held, d) = Minus(p, m) /\ Plus(f.unsampled, d) = Minus(p, s)
  BY Folds
<1>3. Minus(p, m) \in Vector /\ Minus(p, s) \in Vector
  BY <1>1, Sums
<1>4. CASE ~f.anchored
  <2> DEFINE g == [f EXCEPT !.anchored = TRUE, !.held = Plus(@, d)]
  <2>1. /\ g \in FidelityType /\ g.anchored
        /\ g.held = Minus(p, m) /\ g.unsampled = Zero
    BY <1>1, <1>2, <1>3, <1>4 DEF FidelityType
  <2>2. o = Release(g)
    BY <1>4 DEF Process
  <2> HIDE DEF g
  <2> QED BY <1>1, <1>4, <2>1, <2>2, ReleaseTracks
<1>5. CASE f.anchored /\ dt >= LongGap
  <2>1. o = [kind |-> "Reanchored", scaled |-> Zero, state |-> Reanchored(f)]
    BY <1>5 DEF Process
  <2>2. /\ Reanchored(f) \in FidelityType /\ Reanchored(f).anchored
        /\ Reanchored(f).held = Zero /\ Reanchored(f).unsampled = Zero
    <3> DEFINE g == [f EXCEPT !.held = Zero, !.unsampled = Zero]
    <3>1. g \in FidelityType /\ g.anchored /\ g.held = Zero /\ g.unsampled = Zero
      BY <1>1, <1>5 DEF FidelityType
    <3>2. Reanchored(f) = [g EXCEPT !.speed = 0]
      BY DEF Reanchored
    <3> HIDE DEF g
    <3>3. [g EXCEPT !.speed = 0] \in FidelityType
      BY <3>1 DEF FidelityType
    <3> QED BY <3>1, <3>2, <3>3 DEF FidelityType
  <2>3. dt # 0
    BY <1>5, FidelityAssumption DEF FidelityAssumption
  <2> QED BY <1>1, <2>1, <2>2, <2>3
<1>6. CASE f.anchored /\ ~(dt >= LongGap)
  <2> DEFINE g == [f EXCEPT !.held = Plus(@, d), !.unsampled = Plus(@, d)]
  <2>1. /\ g \in FidelityType /\ g.anchored
        /\ g.held = Minus(p, m) /\ g.unsampled = Minus(p, s)
    BY <1>2, <1>3, <1>6 DEF FidelityType
  <2>2. CASE dt = 0
    <3>1. o = [kind |-> "Hold", scaled |-> Zero, state |-> g]
      BY <1>6, <2>2 DEF Process
    <3> QED BY <1>6, <2>1, <2>2, <3>1
  <2>3. CASE dt # 0
    <3>1. PICK v \in Between(f.speed, Hypot(g.unsampled) \div dt) :
             o = Release([g EXCEPT !.speed = v, !.unsampled = Zero])
      BY <1>6, <2>3 DEF Process
    <3> DEFINE h == [g EXCEPT !.speed = v, !.unsampled = Zero]
    <3>2. v \in Int
      BY <3>1 DEF Between
    <3> HIDE DEF g
    <3>3. /\ h \in FidelityType /\ h.anchored
          /\ h.held = Minus(p, m) /\ h.unsampled = Zero
      BY <1>1, <2>1, <3>2 DEF FidelityType
    <3> HIDE DEF h
    <3> QED BY <1>1, <2>3, <3>1, <3>3, ReleaseTracks DEF h
  <2> QED BY <2>2, <2>3
<1> QED BY <1>4, <1>5, <1>6

(* The same of process_scroll, which holds displacement only for a         *)
(* duplicate timestamp.                                                    *)
LEMMA LockType ==
    ASSUME NEW lock \in AxisLocks, NEW v PROVE UpdateLock(lock, v) \in AxisLocks
BY DEF UpdateLock, AxisLocks

LEMMA HalvesType ==
    ASSUME NEW a \in Vector, NEW b \in Vector, NEW dt \in Nat \ {0}
    PROVE  Halved(a, b) \in Vector /\ <<a[1] \div dt, a[2] \div dt>> \in Vector
BY DEF Halved, Vector

LEMMA ScrollTracks ==
    ASSUME NEW c \in ScrollType, NEW q \in Vector, NEW d \in Vector,
           NEW m \in Vector, NEW dt \in Nat,
           c.pending = Minus(q, m),
           ~c.anchored => m = q,
           NEW o \in ProcessScroll(c, d, dt)
    PROVE  LET p == Plus(q, d) IN
           /\ o.state \in ScrollType /\ o.state.anchored
           /\ o.state.pending = Minus(p, IF o.kind = "Hold" THEN m ELSE p)
<1> DEFINE p == Plus(q, d)
<1>1. /\ p \in Vector /\ Minus(p, p) = Zero /\ Minus(q, q) = Zero
      /\ Zero \in Vector /\ Minus(p, m) \in Vector
      /\ Plus(c.pending, d) = Minus(p, m)
  BY Sums, Rests, Folds
<1>2. CASE ~c.anchored
  <2>1. o = [kind |-> "Emit", scaled |-> Times(d, Scale * MinGain),
             state |-> [c EXCEPT !.anchored = TRUE]]
    BY <1>2 DEF ProcessScroll
  <2> QED BY <1>1, <1>2, <2>1 DEF ScrollType
<1>3. CASE c.anchored /\ dt = 0
  <2>1. o = [kind |-> "Hold", scaled |-> Zero,
             state |-> [c EXCEPT !.pending = Plus(c.pending, d)]]
    BY <1>3 DEF ProcessScroll
  <2> QED BY <1>1, <1>3, <2>1 DEF ScrollType
<1>4. CASE c.anchored /\ dt # 0
  <2> DEFINE w == Plus(c.pending, d)
             sample == <<w[1] \div dt, w[2] \div dt>>
  <2>1. PICK v \in {c.velocity, Halved(c.velocity, sample), sample}, k \in AxisLocks :
           /\ o.kind = "Emit"
           /\ o.state = [c EXCEPT !.pending = Zero, !.velocity = v, !.lock = k]
    <3> DEFINE reversed == Dot(c.velocity, sample) < 0
               lock(v) == UpdateLock(IF reversed THEN "None" ELSE c.lock, v)
    <3>1. PICK v \in IF reversed THEN {sample}
                     ELSE {c.velocity, Halved(c.velocity, sample), sample} :
             o = [kind |-> "Emit",
                  scaled |-> Times(Locked(lock(v), w), Scale * Gain(Hypot(v))),
                  state |-> [c EXCEPT !.pending = Zero, !.velocity = v, !.lock = lock(v)]]
      BY <1>4 DEF ProcessScroll
    <3>2. (IF reversed THEN "None" ELSE c.lock) \in AxisLocks
      BY DEF ScrollType, AxisLocks
    <3>3. lock(v) \in AxisLocks
      BY <3>2, LockType
    <3>4. v \in {c.velocity, Halved(c.velocity, sample), sample}
      BY <3>1
    <3> HIDE DEF lock, reversed, sample, w
    <3> QED BY <3>1, <3>3, <3>4
  <2>2. w \in Vector /\ c.velocity \in Vector
    BY <1>1 DEF ScrollType
  <2>3. sample \in Vector
    BY <1>4, <2>2, HalvesType
  <2>4. v \in Vector
    <3>1. Halved(c.velocity, sample) \in Vector
      <4> HIDE DEF sample
      <4> QED BY <1>4, <2>2, <2>3, HalvesType
    <3> HIDE DEF sample, w
    <3> QED BY <2>1, <2>2, <2>3, <3>1
  <2> HIDE DEF sample, w
  <2> QED BY <1>1, <1>4, <2>1, <2>4 DEF ScrollType
<1> QED BY <1>2, <1>3, <1>4

-----------------------------------------------------------------------------
(* emit_pointer_delta, taken from places q, g[1] and g[2] to p.            *)
LEMMA PointerStep ==
    ASSUME filtered \in BOOLEAN,
           NEW f \in FidelityType, NEW r, NEW m \in Vector, NEW s \in Vector, NEW w,
           NEW q \in Vector, NEW d \in Vector, NEW dt \in Nat,
           filtered => /\ f.held = Minus(q, m) /\ f.unsampled = Minus(q, s)
                       /\ ~f.anchored => s = q,
           EmitPointer(f, r, <<m, s, w>>, d, Plus(q, d), dt)
    PROVE  /\ fidelity' \in FidelityType /\ mark' \in Vector /\ sampled' \in Vector
           /\ since' = 0
           /\ filtered => /\ fidelity'.anchored
                          /\ fidelity'.held = Minus(Plus(q, d), mark')
                          /\ fidelity'.unsampled = Minus(Plus(q, d), sampled')
<1> DEFINE p == Plus(q, d)
<1>1. PICK o \in PointerOutcomes(f, d, dt) :
         /\ fidelity' = o.state
         /\ mark' = IF o.kind = "Hold" THEN m ELSE p
         /\ sampled' = IF filtered /\ f.anchored /\ dt = 0 THEN s ELSE p
         /\ since' = 0
  BY DEF EmitPointer
<1>2. p \in Vector
  BY Sums
<1>3. mark' \in Vector /\ sampled' \in Vector
  BY <1>1, <1>2
<1>4. CASE filtered
  <2>1. o \in Process(f, d, dt)
    BY <1>1, <1>4 DEF PointerOutcomes
  <2>2. /\ o.state \in FidelityType /\ o.state.anchored
        /\ o.state.held = Minus(p, IF o.kind = "Hold" THEN m ELSE p)
        /\ o.state.unsampled = Minus(p, IF f.anchored /\ dt = 0 THEN s ELSE p)
    BY <1>4, <2>1, ProcessTracks
  <2> HIDE DEF p
  <2> QED BY <1>1, <1>3, <1>4, <2>2 DEF p
<1>5. CASE ~filtered
  <2>1. o.state = f
    BY <1>1, <1>5 DEF PointerOutcomes, Linear
  <2> QED BY <1>1, <1>3, <1>5, <2>1
<1> QED BY <1>4, <1>5

LEMMA ScrollStep ==
    ASSUME filtered \in BOOLEAN, scroll \in ScrollType,
           mark \in Vector, sampled \in Vector,
           NEW q \in Vector, NEW d \in Vector, NEW dt \in Nat,
           filtered => /\ scroll.pending = Minus(q, mark)
                       /\ ~scroll.anchored => mark = q,
           EmitScroll(d, Plus(q, d), dt)
    PROVE  /\ scroll' \in ScrollType /\ mark' \in Vector /\ sampled' \in Vector
           /\ since' = 0
           /\ filtered => /\ scroll'.anchored
                          /\ scroll'.pending = Minus(Plus(q, d), mark')
<1> DEFINE p == Plus(q, d)
<1>1. PICK o \in IF filtered THEN ProcessScroll(scroll, d, dt) ELSE Linear(scroll, d) :
         /\ scroll' = o.state
         /\ mark' = IF o.kind = "Hold" THEN mark ELSE p
         /\ sampled' = sampled /\ since' = 0
  BY DEF EmitScroll
<1>2. p \in Vector
  BY Sums
<1>3. mark' \in Vector /\ sampled' \in Vector
  BY <1>1, <1>2
<1>4. CASE filtered
  <2>1. o \in ProcessScroll(scroll, d, dt)
    BY <1>1, <1>4
  <2>2. /\ o.state \in ScrollType /\ o.state.anchored
        /\ o.state.pending = Minus(p, IF o.kind = "Hold" THEN mark ELSE p)
    BY <1>4, <2>1, ScrollTracks
  <2> HIDE DEF p
  <2> QED BY <1>1, <1>3, <1>4, <2>2 DEF p
<1>5. CASE ~filtered
  <2>1. o.state = scroll
    BY <1>1, <1>5 DEF Linear
  <2> QED BY <1>1, <1>3, <1>5, <2>1
<1> QED BY <1>4, <1>5

(* An interaction that ends, or one that begins, leaves nothing behind.    *)
LEMMA FreshStart ==
    ASSUME StageInv, UNCHANGED filtered, at' = Zero, since' = 0, Forget,
           fidelity' \in FidelityType, scroll' \in ScrollType,
           life' \in {"Candidate", "Drag"} => fidelity' = Unanchored,
           life' = "Pair" => scroll' = ScrollRests,
           life' \in {"Idle", "Candidate", "Pair", "Drag", "Coasting"}
    PROVE  StageInv'
<1>1. Minus(Zero, Zero) = Zero
  BY Sums, Rests
<1>2. Unanchored.held = Zero /\ Unanchored.unsampled = Zero
  BY DEF Unanchored
<1> QED BY <1>1, <1>2, Rests
        DEF StageInv, Places, Untouched, StageTracksFingers, Forget

LEMMA StageInit == Init => StageInv
BY Rests DEF Init, StageInv, Places, Untouched, StageTracksFingers

LEMMA Gap == \A dt \in Gaps : dt \in Nat /\ (since \in Nat => since + dt \in Nat)
BY MotionAssumption DEF MotionAssumption

LEMMA StageStep == StageInv /\ [Next]_vars => StageInv'
<1> SUFFICES ASSUME StageInv, [Next]_vars PROVE StageInv'
  OBVIOUS
<1> USE DEF StageInv
<1>a. CASE UNCHANGED vars
  BY <1>a DEF vars, Places, Untouched, StageTracksFingers
<1>b. Zero \in Vector /\ Unanchored \in FidelityType /\ ScrollRests \in ScrollType
  BY Rests
<1>c. fidelity \in FidelityType /\ scroll \in ScrollType
  BY DEF Places
<1>1. CASE Land
  BY <1>1, <1>b, <1>c, FreshStart DEF Land, ClearPointer, config, scrolling
<1>2. CASE Cancel
  BY <1>2, <1>b, <1>c, FreshStart DEF Cancel, ClearPointer, config, scrolling
<1>3. CASE Join
  BY <1>3, <1>b, FreshStart DEF Join, ClearPointer, ClearScroll, config
<1>4. CASE Part
  BY <1>4, <1>b, <1>c, FreshStart DEF Part, ClearScroll, config, pointing
<1>5. CASE BeginMomentum
  BY <1>5, <1>b, <1>c, FreshStart DEF BeginMomentum, ClearScroll, config, pointing
<1>6. CASE EndDrag
  BY <1>6, <1>b, <1>c, FreshStart DEF EndDrag, ClearPointer, config, scrolling
<1>7. ASSUME NEW dt \in Gaps, DragWaits(dt) PROVE StageInv'
  BY <1>7, Gap DEF DragWaits, config, pointing, scrolling, ghosts, Places, Untouched, StageTracksFingers
<1>8. ASSUME NEW dt \in Gaps, TickMomentum(dt) PROVE StageInv'
  <2>1. life = "Coasting" /\ life' \in {"Idle", "Coasting"}
    BY <1>8 DEF TickMomentum
  <2>2. UNCHANGED <<filtered, at, since, fidelity, scroll, mark, sampled>>
    BY <1>8 DEF TickMomentum, config, pointing, scrolling, ghosts
  <2> QED BY <2>1, <2>2 DEF Places, Untouched, StageTracksFingers
<1>9. ASSUME NEW step \in Steps, NEW dt \in Gaps, Frame(step, dt) PROVE StageInv'
  <2> DEFINE p == Plus(at, step)
  <2>1. step \in Vector /\ p \in Vector /\ dt \in Nat /\ since + dt \in Nat
    BY MotionAssumption, Sums, Gap DEF MotionAssumption, Places
  <2>2. Plus(Zero, p) = p /\ Minus(Zero, Zero) = Zero /\ Plus(Zero, step) = step
    BY <2>1, <1>b, Sums
  <2>3. CASE Follow(step, dt)
    <3>1. CASE life = "Candidate" /\ EmitPointer(fidelity, remainder, ghosts, p, p, dt)
      <4>1. /\ mark = Zero /\ sampled = Zero /\ fidelity = Unanchored
            /\ fidelity.held = Minus(Zero, mark) /\ fidelity.unsampled = Minus(Zero, sampled)
        BY <3>1, <2>2 DEF Untouched, Unanchored
      <4>2. EmitPointer(fidelity, remainder, <<mark, sampled, owed>>, p, Plus(Zero, p), dt)
        BY <3>1, <2>2 DEF ghosts
      <4> HIDE DEF p
      <4>3. /\ fidelity' \in FidelityType /\ mark' \in Vector /\ sampled' \in Vector
            /\ since' = 0
            /\ filtered => /\ fidelity'.anchored
                           /\ fidelity'.held = Minus(Plus(Zero, p), mark')
                           /\ fidelity'.unsampled = Minus(Plus(Zero, p), sampled')
        BY <4>1, <4>2, <2>1, <1>b, <1>c, PointerStep DEF Places
      <4>4. life' = "Committed" /\ at' = p /\ UNCHANGED <<filtered, scroll>>
        BY <2>3 DEF Follow, config, scrolling, p
      <4> QED BY <4>3, <4>4, <2>1, <2>2 DEF Places, Untouched, StageTracksFingers
    <3>2. CASE life = "Committed" /\ EmitPointer(fidelity, remainder, ghosts, step, p, since + dt)
      <4>1. filtered => /\ fidelity.held = Minus(at, mark)
                        /\ fidelity.unsampled = Minus(at, sampled)
                        /\ fidelity.anchored
        BY <3>2 DEF StageTracksFingers, Untouched
      <4>2. EmitPointer(fidelity, remainder, <<mark, sampled, owed>>, step, Plus(at, step), since + dt)
        BY <3>2 DEF ghosts
      <4>3. /\ fidelity' \in FidelityType /\ mark' \in Vector /\ sampled' \in Vector
            /\ since' = 0
            /\ filtered => /\ fidelity'.anchored
                           /\ fidelity'.held = Minus(Plus(at, step), mark')
                           /\ fidelity'.unsampled = Minus(Plus(at, step), sampled')
        BY <4>1, <4>2, <2>1, <1>c, PointerStep DEF Places
      <4>4. life' = "Committed" /\ at' = p /\ UNCHANGED <<filtered, scroll>>
        BY <2>3 DEF Follow, config, scrolling
      <4> QED BY <4>3, <4>4, <2>1 DEF Places, Untouched, StageTracksFingers
    <3> QED BY <2>3, <3>1, <3>2 DEF Follow
  <2>4. CASE Hesitate(step)
    BY <2>4, <2>1 DEF Hesitate, config, pointing, scrolling, ghosts, Places, Untouched, StageTracksFingers
  <2>5. ASSUME NEW next \in {"Idle", "Candidate"}, Lift(step, dt, next) PROVE StageInv'
    BY <2>5, <1>b, <1>c, FreshStart DEF Lift, ClearPointer, config, scrolling
  <2>6. CASE ScrollOn(step, dt)
    <3>1. CASE life = "Pair" /\ EmitScroll(p, p, dt)
      <4>1. /\ mark = Zero /\ scroll = ScrollRests /\ ~scroll.anchored
            /\ scroll.pending = Minus(Zero, mark)
        BY <3>1, <2>2 DEF Untouched, ScrollRests
      <4>2. EmitScroll(p, Plus(Zero, p), dt)
        BY <3>1, <2>2
      <4> HIDE DEF p
      <4>3. /\ scroll' \in ScrollType /\ mark' \in Vector /\ sampled' \in Vector
            /\ since' = 0
            /\ filtered => /\ scroll'.anchored
                           /\ scroll'.pending = Minus(Plus(Zero, p), mark')
        BY <4>1, <4>2, <2>1, <1>b, <1>c, ScrollStep DEF Places
      <4>4. life' = "Scroll" /\ at' = p /\ UNCHANGED <<filtered, fidelity>>
        BY <2>6 DEF ScrollOn, config, pointing, p
      <4> QED BY <4>3, <4>4, <2>1, <2>2, <1>c DEF Places, Untouched, StageTracksFingers
    <3>2. CASE life = "Scroll" /\ EmitScroll(step, p, since + dt)
      <4>1. filtered => scroll.pending = Minus(at, mark) /\ scroll.anchored
        BY <3>2 DEF StageTracksFingers, Untouched
      <4>2. EmitScroll(step, Plus(at, step), since + dt)
        BY <3>2
      <4>3. /\ scroll' \in ScrollType /\ mark' \in Vector /\ sampled' \in Vector
            /\ since' = 0
            /\ filtered => /\ scroll'.anchored
                           /\ scroll'.pending = Minus(Plus(at, step), mark')
        BY <4>1, <4>2, <2>1, <1>c, ScrollStep DEF Places
      <4>4. life' = "Scroll" /\ at' = p /\ UNCHANGED <<filtered, fidelity>>
        BY <2>6 DEF ScrollOn, config, pointing
      <4> QED BY <4>3, <4>4, <2>1, <1>c DEF Places, Untouched, StageTracksFingers
    <3> QED BY <2>6, <3>1, <3>2 DEF ScrollOn
  <2>7. CASE Waver(step)
    BY <2>7, <2>1 DEF Waver, config, pointing, scrolling, ghosts, Places, Untouched, StageTracksFingers
  <2>8. CASE GrabDrag(step, dt)
    <3>1. CASE stable
      BY <3>1, <2>8, <1>b, FreshStart DEF GrabDrag, ClearPointer, ClearScroll, config
    <3>2. CASE ~stable
      <4>1. EmitPointer(Unanchored, Zero, <<Zero, Zero, Zero>>, step, Plus(Zero, step), dt)
        BY <3>2, <2>8, <2>2 DEF GrabDrag
      <4>2. ~Unanchored.anchored /\ Unanchored.held = Zero /\ Unanchored.unsampled = Zero
        BY DEF Unanchored
      <4>3. /\ fidelity' \in FidelityType /\ mark' \in Vector /\ sampled' \in Vector
            /\ since' = 0
            /\ filtered => /\ fidelity'.anchored
                           /\ fidelity'.held = Minus(Plus(Zero, step), mark')
                           /\ fidelity'.unsampled = Minus(Plus(Zero, step), sampled')
        BY <4>1, <4>2, <2>1, <2>2, <1>b, PointerStep DEF Places
      <4>4. /\ life' = "Drag" /\ at' = step /\ UNCHANGED filtered
            /\ scroll' = ScrollRests
        BY <3>2, <2>8 DEF GrabDrag, ClearScroll, config
      <4> QED BY <4>3, <4>4, <2>1, <2>2, <1>b DEF Places, Untouched, StageTracksFingers
    <3> QED BY <3>1, <3>2
  <2>9. CASE DragOn(step, dt)
    <3>1. filtered => /\ fidelity.held = Minus(at, mark)
                      /\ fidelity.unsampled = Minus(at, sampled)
                      /\ ~fidelity.anchored => sampled = at
      BY <2>9 DEF DragOn, StageTracksFingers, Untouched
    <3>2. EmitPointer(fidelity, remainder, <<mark, sampled, owed>>, step, Plus(at, step), since + dt)
      BY <2>9 DEF DragOn, ghosts
    <3>3. /\ fidelity' \in FidelityType /\ mark' \in Vector /\ sampled' \in Vector
          /\ since' = 0
          /\ filtered => /\ fidelity'.anchored
                         /\ fidelity'.held = Minus(Plus(at, step), mark')
                         /\ fidelity'.unsampled = Minus(Plus(at, step), sampled')
      BY <3>1, <3>2, <2>1, <1>c, PointerStep DEF Places
    <3>4. life = "Drag" /\ life' = life /\ at' = p /\ UNCHANGED <<filtered, scroll>>
      BY <2>9 DEF DragOn, config, scrolling
    <3> QED BY <3>3, <3>4, <2>1 DEF Places, Untouched, StageTracksFingers
  <2> QED BY <1>9, <2>3, <2>4, <2>5, <2>6, <2>7, <2>8, <2>9 DEF Frame
<1> QED BY <1>a, <1>1, <1>2, <1>3, <1>4, <1>5, <1>6, <1>7, <1>8, <1>9 DEF Next

(* What the stages hold is what the fingers have done, whatever the scale, *)
(* the gain curve, the gap and the steps (fidelity.rs, scroll_fidelity.rs).*)
THEOREM MotionIsTracked == Spec => []StageTracksFingers
<1>1. StageInv => StageTracksFingers
  BY DEF StageInv
<1> QED BY <1>1, StageInit, StageStep, PTL DEF Spec

-----------------------------------------------------------------------------
(* The account of an interaction that begins or ends is clear: the owners  *)
(* of each remainder are the lives that fill it.                           *)
AccountInv ==
    /\ PixelsBalance
    /\ life \in {"Candidate", "Pair"} => owed = Zero

LEMMA AccountStep == AccountInv /\ [Next]_vars => AccountInv'
<1> SUFFICES ASSUME AccountInv, [Next]_vars PROVE AccountInv'
  OBVIOUS
<1> USE DEF AccountInv, PixelsBalance
<1>a. CASE UNCHANGED vars
  BY <1>a DEF vars
<1>b. ASSUME NEW f, NEW r, NEW m, NEW s, NEW w, NEW d, NEW p, NEW dt,
             EmitPointer(f, r, <<m, s, w>>, d, p, dt), r = w
      PROVE  remainder' = owed'
  BY <1>b DEF EmitPointer, Sent, Kept, Account, Remainder
<1>c. ASSUME NEW d, NEW p, NEW dt, EmitScroll(d, p, dt), leftover = owed
      PROVE  leftover' = owed'
  BY <1>c DEF EmitScroll, Sent, Kept, Account, Remainder
<1>1. CASE Land \/ Cancel \/ Join \/ Part \/ BeginMomentum \/ EndDrag
  BY <1>1 DEF Land, Cancel, Join, Part, BeginMomentum, EndDrag, ClearPointer, ClearScroll, Forget
<1>2. ASSUME NEW dt \in Gaps, DragWaits(dt) \/ TickMomentum(dt) PROVE AccountInv'
  BY <1>2 DEF DragWaits, TickMomentum, pointing, scrolling, ghosts
<1>3. ASSUME NEW step \in Steps, NEW dt \in Gaps, Frame(step, dt) PROVE AccountInv'
  <2>1. CASE Follow(step, dt)
    BY <2>1, <1>b DEF Follow, ghosts
  <2>2. CASE Hesitate(step) \/ Waver(step)
    BY <2>2 DEF Hesitate, Waver, pointing, scrolling, ghosts
  <2>3. ASSUME NEW next \in {"Idle", "Candidate"}, Lift(step, dt, next) PROVE AccountInv'
    BY <2>3 DEF Lift, ClearPointer, Forget
  <2>4. CASE ScrollOn(step, dt)
    BY <2>4, <1>c DEF ScrollOn
  <2>5. CASE GrabDrag(step, dt)
    BY <2>5, <1>b DEF GrabDrag, ClearPointer, Forget
  <2>6. CASE DragOn(step, dt)
    BY <2>6, <1>b DEF DragOn, ghosts
  <2> QED BY <1>3, <2>1, <2>2, <2>3, <2>4, <2>5, <2>6 DEF Frame
<1> QED BY <1>a, <1>1, <1>2, <1>3 DEF Next

(* No residue of one interaction reaches the pixels of the next, and none  *)
(* of its own is lost (quantize, clear_interaction and its relatives).     *)
THEOREM PixelsAreConserved == Spec => []PixelsBalance
<1>1. Init => AccountInv
  BY DEF Init, AccountInv, PixelsBalance
<1>2. AccountInv => PixelsBalance
  BY DEF AccountInv
<1> QED BY <1>1, <1>2, AccountStep, PTL DEF Spec

\* Nothing of the fingers' way is lost on the way to the pixels.
THEOREM NothingIsLost == Spec => []NothingLost
  BY MotionIsTracked, PixelsAreConserved, PTL DEF NothingLost

(* An armed drag never presses without moving nor moves without pressing.  *)
THEOREM PressesMove == Spec => PressComesWithAMove
<1> DEFINE A == (life' = "Drag" /\ stable) =>
                    /\ (~left /\ left') => pixels' # Zero
                    /\ pixels' # Zero => left'
<1>1. ASSUME Next PROVE A
  <2>1. CASE Land \/ Cancel \/ Join \/ Part \/ BeginMomentum \/ EndDrag
    BY <2>1 DEF Land, Cancel, Join, Part, BeginMomentum, EndDrag
  <2>2. ASSUME NEW dt \in Gaps, DragWaits(dt) \/ TickMomentum(dt) PROVE A
    BY <2>2 DEF DragWaits, TickMomentum, Silent
  <2>3. ASSUME NEW step \in Steps, NEW dt \in Gaps, Frame(step, dt) PROVE A
    <3>1. CASE GrabDrag(step, dt)
      BY <3>1 DEF GrabDrag, Silent
    <3>2. CASE DragOn(step, dt)
      BY <3>2 DEF DragOn
    <3>3. CASE Follow(step, dt) \/ Hesitate(step) \/ ScrollOn(step, dt) \/ Waver(step)
      BY <3>3 DEF Follow, Hesitate, ScrollOn, Waver
    <3>4. ASSUME NEW next \in {"Idle", "Candidate"}, Lift(step, dt, next) PROVE A
      BY <3>4 DEF Lift
    <3> QED BY <2>3, <3>1, <3>2, <3>3, <3>4 DEF Frame
  <2> QED BY <1>1, <2>1, <2>2, <2>3 DEF Next
<1>2. [Next]_vars => [A]_vars
  BY <1>1
<1> QED BY <1>2, PTL DEF Spec, PressComesWithAMove

-----------------------------------------------------------------------------
(* Some numbers have a least.                                              *)
LEMMA LeastNat ==
  ASSUME NEW S \in SUBSET Nat, S # {}
  PROVE  \E m \in S : \A n \in S : m <= n
<1>1. PICK m \in S : \A n \in S : ~(<<n, m>> \in OpToRel(<, Nat))
  BY WFMin, NatLessThanWellFounded
<1>2. \A n \in S : ~(n < m)
  BY <1>1 DEF OpToRel
<1> QED BY <1>2

-----------------------------------------------------------------------------
(* What is converted is a quotient of integers, which None is not.         *)
Number   == Int \cup {None}
Quotient == Int \X Int
Measured == /\ device.axes \in [Codes -> Axis \cup {None}]
            /\ device.profile \in [Codes -> Number]

Convertible(c) == IF c \in Positions \cup Lengths THEN Resolved(c) ELSE Ranged(c)

LEMMA LastOverride ==
  ASSUME NEW rs \in Seq(Override), NEW c
  PROVE  with_axis_resolution(rs, c) \in Number
<1> DEFINE named == {k \in DOMAIN rs : rs[k].axis = c}
<1>1. CASE named = {}
  BY <1>1 DEF with_axis_resolution, Number
<1>2. CASE named # {}
  <2> DEFINE back == {Len(rs) - k : k \in named}
  <2>1. back \in SUBSET Nat /\ back # {}
    BY <1>2
  <2>2. PICK m \in back : \A n \in back : m <= n
    BY <2>1, LeastNat
  <2>3. PICK k \in named : m = Len(rs) - k
    BY <2>2
  <2>4. \A j \in named : j <= k
    <3> SUFFICES ASSUME NEW j \in named PROVE j <= k
      OBVIOUS
    <3>1. m <= Len(rs) - j /\ j \in Nat /\ k \in Nat /\ Len(rs) \in Nat
      BY <2>2
    <3> QED BY <2>3, <3>1
  <2> DEFINE last == CHOOSE l \in named : \A j \in named : j <= l
  <2>5. last \in named
    BY <2>4
  <2>6. rs[last] \in Override
    BY <2>5
  <2>7. with_axis_resolution(rs, c) = rs[last].units
    BY <1>2 DEF with_axis_resolution
  <2> HIDE DEF last
  <2> QED BY <2>6, <2>7 DEF Override, Number
<1> QED BY <1>1, <1>2

LEMMA ProfileType ==
  ASSUME NEW hardware
  PROVE  profile_for(hardware) \in [Codes -> Number]
<1> DEFINE matching == {k \in DOMAIN Entries : QuirkMatches(Entries[k].match, hardware)}
           first == CHOOSE k \in matching : \A j \in matching : k <= j
<1>1. CASE matching = {}
  BY <1>1 DEF profile_for, Number
<1>2. CASE matching # {}
  <2>1. matching \in SUBSET Nat
    BY DatabaseAssumption DEF DatabaseAssumption
  <2>2. first \in matching
    <3> HIDE DEF matching
    <3> QED BY <1>2, <2>1, LeastNat
  <2>3. Entries[first].resolutions \in Seq(Override)
    BY <2>2, DatabaseAssumption DEF DatabaseAssumption
  <2>4. profile_for(hardware) = [c \in Codes |-> with_axis_resolution(Entries[first].resolutions, c)]
    BY <1>2 DEF profile_for
  <2> HIDE DEF first
  <2> QED BY <2>3, <2>4, LastOverride
<1> QED BY <1>1, <1>2

(* Converted is what can be, back to the count it came from.               *)
LEMMA Conversion ==
  ASSUME Measured, NEW c \in Codes, NEW raw \in Number, c \in Lengths => raw \in Nat \cup {None}
  PROVE  LET v == Normalized(c, raw) IN
         /\ v \in Quotient \cup {None}
         /\ raw = None \/ ~Convertible(c) => v = None
         /\ raw # None /\ Convertible(c) => v # None /\ CountOf(c, v) = Nearest(c, raw)
         /\ v # None /\ c = "pressure" => 0 <= v[1] /\ v[1] <= v[2]
         /\ v # None /\ c \in Lengths => 0 <= v[1]
<1>0. None \notin Int \cup Quotient
  BY CoordinatesAssumption DEF CoordinatesAssumption, Quotient
<1>a. Codes = {"x", "y", "major", "minor", "pressure", "orientation"}
  BY DEF Codes, Positions, Lengths
<1>1. CASE raw = None
  BY <1>1 DEF Normalized
<1>2. CASE raw # None
  <2>1. raw \in Int
    BY <1>2 DEF Number
  <2>2. Declared(c) => /\ device.axes[c] \in Axis /\ device.axes[c].min \in Int /\ device.axes[c].max \in Int
                       /\ device.axes[c].resolution \in Number /\ Span(c) \in Int
    BY DEF Measured, Declared, Axis, Number, Span
  <2>3. Resolved(c) => effective_resolution(c) \in Int
    BY <2>2 DEF Resolved, effective_resolution, Measured, Number
  <2>4. CASE c \in Positions
    <3>1. c \notin Lengths /\ c # "pressure" /\ c # "orientation"
      BY <2>4 DEF Positions, Lengths
    <3>2. CASE Resolved(c)
      <4>1. Normalized(c, raw) = <<raw - device.axes[c].min, effective_resolution(c)>>
        BY <1>2, <2>4, <3>1, <3>2 DEF Normalized, position_to_mm
      <4>2. raw - device.axes[c].min \in Int /\ effective_resolution(c) \in Int
        BY <2>1, <2>2, <2>3, <3>2 DEF Resolved
      <4>3. Normalized(c, raw) \in Quotient /\ Normalized(c, raw)[1] + device.axes[c].min = raw
        BY <2>1, <2>2, <3>2, <4>1, <4>2 DEF Quotient, Resolved
      <4>4. CountOf(c, Normalized(c, raw)) = Normalized(c, raw)[1] + device.axes[c].min /\ Nearest(c, raw) = raw
        BY <2>4, <3>1 DEF CountOf, Nearest
      <4> QED BY <1>0, <1>2, <2>4, <3>1, <3>2, <4>3, <4>4 DEF Convertible
    <3>3. CASE ~Resolved(c)
      BY <1>2, <2>4, <3>1, <3>3 DEF Normalized, Convertible
    <3> QED BY <3>2, <3>3
  <2>5. CASE c \in Lengths
    <3>1. c \notin Positions /\ c # "pressure" /\ c # "orientation" /\ raw \in Nat
      BY <1>2, <2>5 DEF Positions, Lengths
    <3>2. CASE Resolved(c)
      <4>1. Normalized(c, raw) = <<raw, effective_resolution(c)>>
        BY <1>2, <2>5, <3>1, <3>2 DEF Normalized, delta_to_mm
      <4>2. Normalized(c, raw) \in Quotient /\ Normalized(c, raw)[1] = raw
        BY <2>1, <2>3, <3>2, <4>1 DEF Quotient
      <4>3. CountOf(c, Normalized(c, raw)) = Normalized(c, raw)[1] /\ Nearest(c, raw) = raw
        BY <2>5, <3>1 DEF CountOf, Nearest
      <4> QED BY <1>0, <1>2, <2>5, <3>1, <3>2, <4>2, <4>3 DEF Convertible
    <3>3. CASE ~Resolved(c)
      BY <1>2, <2>5, <3>1, <3>3 DEF Normalized, Convertible
    <3> QED BY <3>2, <3>3
  <2>6. CASE c = "pressure"
    <3>1. c \notin Positions /\ c \notin Lengths
      BY <2>6 DEF Positions, Lengths
    <3>2. CASE Ranged(c)
      <4> DEFINE of == raw - device.axes[c].min
                 held == IF of < 0 THEN 0 ELSE IF of > Span(c) THEN Span(c) ELSE of
      <4>1. /\ of \in Int /\ Span(c) \in Int /\ Span(c) > 0 /\ Span(c) = device.axes[c].max - device.axes[c].min
            /\ device.axes[c].min \in Int /\ device.axes[c].max \in Int
        BY <2>1, <2>2, <3>2 DEF Ranged, Span
      <4>2. normalize_pressure(c, raw) = <<held, Span(c)>>
        BY <4>1 DEF normalize_pressure
      <4>3. Normalized(c, raw) = <<held, Span(c)>>
        BY <1>2, <2>6, <3>1, <3>2, <4>2 DEF Normalized
      <4>4. held \in Int /\ 0 <= held /\ held <= Span(c)
        BY <4>1
      <4>5. Nearest(c, raw) = held + device.axes[c].min
        BY <2>1, <2>6, <4>1 DEF Nearest
      <4>6. CountOf(c, Normalized(c, raw)) = Normalized(c, raw)[1] + device.axes[c].min
        BY <2>6, <3>1 DEF CountOf
      <4> HIDE DEF held
      <4>7. Normalized(c, raw) \in Quotient /\ Normalized(c, raw)[1] = held /\ Normalized(c, raw)[2] = Span(c)
        BY <4>1, <4>3, <4>4 DEF Quotient
      <4> QED BY <1>0, <1>2, <3>1, <3>2, <4>4, <4>5, <4>6, <4>7 DEF Convertible
    <3>3. CASE ~Ranged(c)
      BY <1>2, <2>6, <3>1, <3>3 DEF Normalized, Convertible
    <3> QED BY <3>2, <3>3
  <2>7. CASE c = "orientation"
    <3>1. c \notin Positions /\ c \notin Lengths /\ c # "pressure"
      BY <2>7 DEF Positions, Lengths
    <3>2. CASE Ranged(c)
      <4> DEFINE of == raw - device.axes[c].min
      <4>1. of \in Int /\ Span(c) \in Int /\ device.axes[c].min \in Int
        BY <2>1, <2>2, <3>2 DEF Ranged
      <4>2. Normalized(c, raw) = <<2 * of - Span(c), 2 * Span(c)>>
        BY <1>2, <2>7, <3>1, <3>2 DEF Normalized, normalize_orientation
      <4>3. Nearest(c, raw) = raw
        BY <3>1 DEF Nearest
      <4>4. CountOf(c, Normalized(c, raw)) = (Normalized(c, raw)[1] + Span(c)) \div 2 + device.axes[c].min
        BY <2>7, <3>1 DEF CountOf
      <4>5. Normalized(c, raw) \in Quotient /\ Normalized(c, raw)[1] = 2 * of - Span(c)
        BY <4>1, <4>2 DEF Quotient
      <4>6. of + device.axes[c].min = raw
        BY <2>1, <4>1
      <4> HIDE DEF of
      <4>7. (2 * of - Span(c) + Span(c)) \div 2 = of
        BY <4>1
      <4> QED BY <1>0, <1>2, <3>1, <3>2, <4>3, <4>4, <4>5, <4>6, <4>7 DEF Convertible
    <3>3. CASE ~Ranged(c)
      BY <1>2, <2>7, <3>1, <3>3 DEF Normalized, Convertible
    <3> QED BY <3>2, <3>3
  <2> QED BY <1>a, <2>4, <2>5, <2>6, <2>7 DEF Positions, Lengths
<1> QED BY <1>1, <1>2

SlotType == [live : BOOLEAN, known : SUBSET Positions, value : [Codes -> Quotient \cup {None}],
             published : BOOLEAN, warned : BOOLEAN]

(* A live slot keeps the conversion of the contact's last counts, and what *)
(* of them could not be converted has been said; a frame that shows a live *)
(* contact shows this one, with both positions known.                      *)
SlotTold ==
  /\ \A c \in Codes : slot.value[c] = Normalized(c, reported[c])
  /\ slot.known = {c \in Positions : reported[c] # None}
  /\ Missing(reported) \subseteq explained

CoordinatesInv ==
  /\ device # None => Measured
  /\ device = None => ~Live /\ ~slot.live
  /\ reported \in Fields /\ slot \in SlotType
  /\ slot.live => SlotTold
  /\ Live => slot.live /\ frame.contact.value = slot.value /\ slot.known = Positions

LEMMA CoordinatesFollow == CoordinatesInv => CoordinatesAreTold
<1> SUFFICES ASSUME CoordinatesInv, Live PROVE CoordinatesAreTold
  BY DEF CoordinatesAreTold, ShownAsReported, GapsAreExplained
<1>1. Measured /\ SlotTold /\ frame.contact.value = slot.value /\ slot.known = Positions
  BY DEF CoordinatesInv
<1>2. \A c \in Codes : /\ reported[c] \in Number /\ (c \in Lengths => reported[c] \in Nat \cup {None})
                       /\ frame.contact.value[c] = Normalized(c, reported[c])
  BY <1>1 DEF CoordinatesInv, Fields, Number, SlotTold
<1>3. ShownAsReported
  BY <1>1, <1>2, Conversion DEF ShownAsReported, Convertible
<1>4. ASSUME NEW c \in Positions \cup Lengths, reported[c] # None, frame.contact.value[c] = None
      PROVE  c \in explained
  <2>1. ~Resolved(c)
    BY <1>1, <1>2, <1>4, Conversion DEF Convertible, Codes
  <2> QED BY <1>1, <1>4, <2>1 DEF SlotTold, Missing
<1>5. validate(frame.contact) \subseteq explained
  <2>1. ASSUME NEW c \in Positions, frame.contact.value[c] = None PROVE c \in explained
    <3>1. reported[c] # None
      BY <1>1 DEF SlotTold
    <3> QED BY <1>4, <2>1, <3>1
  <2>2. frame.contact.value["pressure"] # None
          => ~(frame.contact.value["pressure"][1] < 0
               \/ frame.contact.value["pressure"][1] > frame.contact.value["pressure"][2])
    <3>1. "pressure" \in Codes /\ "pressure" \notin Lengths
      BY DEF Codes, Lengths
    <3> QED BY <1>1, <1>2, <3>1, Conversion DEF Quotient
  <2>3. \A c \in Lengths : frame.contact.value[c] # None => ~(frame.contact.value[c][1] < 0)
    <3> SUFFICES ASSUME NEW c \in Lengths, frame.contact.value[c] # None
                 PROVE  ~(frame.contact.value[c][1] < 0)
      OBVIOUS
    <3>1. c \in Codes
      BY DEF Codes
    <3> QED BY <1>1, <1>2, <3>1, Conversion DEF Quotient
  <2> QED BY <2>1, <2>2, <2>3 DEF validate
<1> QED BY <1>3, <1>4, <1>5 DEF CoordinatesAreTold, GapsAreExplained

(* What a packet reported is put over what the slot knows.                 *)
LEMMA FieldsApplied ==
  ASSUME NEW s \in SlotType, Measured, NEW before \in Fields, NEW fields \in Reports,
         \A c \in Codes : s.value[c] = Normalized(c, before[c]),
         s.known = {c \in Positions : before[c] # None}
  PROVE  LET after == Applied(s, fields) now == Over(before, fields) IN
         /\ now \in Fields
         /\ \A c \in Codes : after.value[c] = Normalized(c, now[c])
         /\ after.known = {c \in Positions : now[c] # None}
         /\ after \in SlotType /\ after.live = s.live
         /\ Missing(now) \subseteq Missing(before) \cup Missing(fields)
         /\ Missing(fields) \subseteq Codes
<1> DEFINE after == Applied(s, fields)  now == Over(before, fields)
<1>1. fields \in Fields
  BY CoordinatesAssumption DEF CoordinatesAssumption
<1>2. now \in Fields
  BY <1>1 DEF Fields, Over, Codes
<1>3. \A c \in Codes : now[c] = IF fields[c] = None THEN before[c] ELSE fields[c]
  BY DEF Over
<1>4. /\ after.live = s.live /\ after.known = s.known \cup {c \in Positions : fields[c] # None}
      /\ after.value = [c \in Codes |-> IF fields[c] = None THEN s.value[c] ELSE Normalized(c, fields[c])]
      /\ after.published = s.published /\ after.warned = s.warned
  BY DEF Applied, SlotType
<1>9. after \in SlotType
  <2>1. \A c \in Codes : Normalized(c, fields[c]) \in Quotient \cup {None}
    BY <1>1, Conversion DEF Fields, Number
  <2>2. /\ s.known \cup {c \in Positions : fields[c] # None} \in SUBSET Positions
        /\ [c \in Codes |-> IF fields[c] = None THEN s.value[c] ELSE Normalized(c, fields[c])]
             \in [Codes -> Quotient \cup {None}]
    BY <2>1 DEF SlotType
  <2> QED BY <2>2 DEF Applied, SlotType
<1>5. \A c \in Codes : after.value[c] = Normalized(c, now[c])
  BY <1>3, <1>4
<1>6. Positions \subseteq Codes /\ Lengths \subseteq Codes
  BY DEF Codes
<1>7. after.known = {c \in Positions : now[c] # None}
  BY <1>3, <1>4, <1>6
<1>8. Missing(now) \subseteq Missing(before) \cup Missing(fields) /\ Missing(fields) \subseteq Codes
  BY <1>3, <1>6 DEF Missing
<1> QED BY <1>2, <1>4, <1>5, <1>7, <1>8, <1>9

LEMMA NothingYet ==
  /\ Nothing \in Fields /\ Missing(Nothing) = {}
  /\ \A c \in Codes : EmptySlot.value[c] = Normalized(c, Nothing[c])
  /\ EmptySlot.known = {c \in Positions : Nothing[c] # None}
  /\ ~EmptySlot.live /\ EmptySlot \in SlotType
BY DEF SlotType, Nothing, Fields, Missing, EmptySlot, Normalized, Codes, Positions, Lengths

LEMMA CoordinatesInitially == CoordinatesInit => CoordinatesInv
BY NothingYet DEF CoordinatesInit, CoordinatesInv, Live, Nobody, Contact

LEMMA CommitLiveStep ==
  ASSUME CoordinatesInv, device # None, NEW fresh \in BOOLEAN, NEW fields \in Reports,
         CommitLive(fresh, fields)
  PROVE  CoordinatesInv'
<1> DEFINE s == IF fresh THEN [EmptySlot EXCEPT !.live = TRUE] ELSE slot
           before == IF fresh THEN Nothing ELSE reported
           after == Applied(s, fields)
           now == Over(before, fields)
           outcome == Announced(after)
           notes == MissingNotes(fields) \cup outcome.notes
<1>1. Measured /\ (fresh \/ slot.live)
  BY DEF CoordinatesInv, CommitLive
<1>2. /\ s \in SlotType /\ s.live /\ before \in Fields
      /\ \A c \in Codes : s.value[c] = Normalized(c, before[c])
      /\ s.known = {c \in Positions : before[c] # None}
      /\ Missing(before) \subseteq IF fresh THEN {} ELSE explained
  <2>1. CASE fresh
    <3>1. /\ s \in SlotType /\ s.live /\ s.value = EmptySlot.value /\ s.known = EmptySlot.known
      BY <2>1, NothingYet DEF SlotType
    <3> QED BY <2>1, <3>1, NothingYet
  <2>2. CASE ~fresh
    BY <1>1, <2>2 DEF CoordinatesInv, SlotTold
  <2> QED BY <2>1, <2>2
<1>3. /\ UNCHANGED device /\ reported' = now /\ slot' = outcome.slot
      /\ frame' = [contact |-> outcome.contact, notes |-> notes]
      /\ explained' = (IF fresh THEN {} ELSE explained)
                        \cup {c \in Codes : Note("MissingAxisResolution", c) \in notes}
  BY DEF CommitLive, Begun, Publish
<1> HIDE DEF s, before
<1>4. /\ now \in Fields /\ after \in SlotType /\ after.live
      /\ \A c \in Codes : after.value[c] = Normalized(c, now[c])
      /\ after.known = {c \in Positions : now[c] # None}
      /\ Missing(now) \subseteq Missing(before) \cup Missing(fields)
      /\ Missing(fields) \subseteq Codes
  BY <1>1, <1>2, FieldsApplied
<1> HIDE DEF after, now
<1>5. /\ outcome.slot \in SlotType /\ outcome.slot.live
      /\ outcome.slot.value = after.value /\ outcome.slot.known = after.known
      /\ outcome.contact.state \in {"Began", "Active"}
           => outcome.contact.value = after.value /\ after.known = Positions
  <2>1. CASE ~Complete(after)
    <3>1. outcome.slot = [after EXCEPT !.warned = TRUE] /\ outcome.contact = Nobody
      BY <1>4, <2>1 DEF Announced
    <3>2. Nobody.state = "none"
      BY DEF Nobody, Contact
    <3> QED BY <1>4, <3>1, <3>2 DEF SlotType
  <2>2. CASE Complete(after) /\ ~after.published
    <3>1. /\ outcome.slot = [after EXCEPT !.warned = FALSE, !.published = TRUE]
          /\ outcome.contact = Contact("Began", after)
      BY <1>4, <2>2 DEF Announced
    <3>2. outcome.contact.value = after.value /\ after.known = Positions
      BY <2>2, <3>1 DEF Contact, Complete
    <3> QED BY <1>4, <3>1, <3>2 DEF SlotType
  <2>3. CASE Complete(after) /\ after.published
    <3>1. outcome.slot = after /\ outcome.contact = Contact("Active", after)
      BY <1>4, <2>3 DEF Announced
    <3> QED BY <1>4, <2>3, <3>1 DEF Contact, Complete
  <2> QED BY <2>1, <2>2, <2>3
<1>6. Missing(now) \subseteq explained'
  <2>1. \A c \in Missing(fields) : Note("MissingAxisResolution", c) \in notes
    BY DEF MissingNotes
  <2> HIDE DEF notes
  <2> QED BY <1>2, <1>3, <1>4, <2>1
<1> HIDE DEF outcome, notes
<1>7. \A c \in Codes : \A raw : Normalized(c, raw)' = Normalized(c, raw)
  BY <1>3 DEF Normalized, Resolved, Declared, effective_resolution, Ranged, Span, position_to_mm,
              delta_to_mm, normalize_pressure, normalize_orientation
<1>8. Missing(reported)' = Missing(now)
  BY <1>3 DEF Missing, Resolved, Declared, effective_resolution
<1>9. SlotTold'
  BY <1>3, <1>4, <1>5, <1>6, <1>7, <1>8 DEF SlotTold
<1>10. Measured'
  BY <1>1, <1>3 DEF Measured
<1> QED BY <1>3, <1>4, <1>5, <1>9, <1>10 DEF CoordinatesInv, Live

LEMMA ResyncStep ==
  ASSUME CoordinatesInv, device # None, NEW fields \in Reports, Resync(fields)
  PROVE  CoordinatesInv'
<1> DEFINE s == [EmptySlot EXCEPT !.live = TRUE]
           after == Applied(s, fields)
           now == Over(Nothing, fields)
           notes == {Note("DecodeRecovered", None)} \cup MissingNotes(fields)
<1>1. Measured /\ fields \in Fields
  BY CoordinatesAssumption DEF CoordinatesInv, CoordinatesAssumption
<1>2. /\ s \in SlotType /\ s.live
      /\ \A c \in Codes : s.value[c] = Normalized(c, Nothing[c])
      /\ s.known = {c \in Positions : Nothing[c] # None}
  <2>1. s \in SlotType /\ s.live /\ s.value = EmptySlot.value /\ s.known = EmptySlot.known
    BY NothingYet DEF SlotType
  <2> QED BY <2>1, NothingYet
<1>3. /\ UNCHANGED device /\ reported' = fields /\ slot' = [after EXCEPT !.published = TRUE]
      /\ frame' = [contact |-> Contact("Began", slot'), notes |-> notes]
      /\ explained' = {} \cup {c \in Codes : Note("MissingAxisResolution", c) \in notes}
      /\ fields["x"] # None /\ fields["y"] # None
  BY DEF Resync, Begun, Publish
<1>4. now = fields
  BY <1>1 DEF Over, Nothing, Fields
<1> HIDE DEF s
<1>5. /\ after \in SlotType /\ after.live
      /\ \A c \in Codes : after.value[c] = Normalized(c, fields[c])
      /\ after.known = {c \in Positions : fields[c] # None}
      /\ Missing(fields) \subseteq Codes
  BY <1>1, <1>2, <1>4, NothingYet, FieldsApplied
<1> HIDE DEF after, now
<1>6. slot' \in SlotType /\ slot'.live /\ slot'.value = after.value /\ slot'.known = after.known
  BY <1>3, <1>5 DEF SlotType
<1>7. Missing(fields) \subseteq explained'
  <2>1. \A c \in Missing(fields) : Note("MissingAxisResolution", c) \in notes
    BY DEF MissingNotes
  <2> HIDE DEF notes
  <2> QED BY <1>3, <1>5, <2>1
<1>8. \A c \in Codes : \A raw : Normalized(c, raw)' = Normalized(c, raw)
  BY <1>3 DEF Normalized, Resolved, Declared, effective_resolution, Ranged, Span, position_to_mm,
              delta_to_mm, normalize_pressure, normalize_orientation
<1>9. Missing(reported)' = Missing(fields)
  BY <1>3 DEF Missing, Resolved, Declared, effective_resolution
<1>10. SlotTold'
  BY <1>3, <1>5, <1>6, <1>7, <1>8, <1>9 DEF SlotTold
<1>11. slot'.known = Positions /\ frame'.contact.value = slot'.value
  BY <1>3, <1>5, <1>6 DEF Positions, Contact
<1>12. Measured'
  BY <1>1, <1>3 DEF Measured
<1> QED BY <1>1, <1>3, <1>6, <1>10, <1>11, <1>12 DEF CoordinatesInv

LEMMA CoordinatesStep == CoordinatesInv /\ [CoordinatesNext]_coordinates => CoordinatesInv'
<1> SUFFICES ASSUME CoordinatesInv, [CoordinatesNext]_coordinates PROVE CoordinatesInv'
  OBVIOUS
<1>1. CASE UNCHANGED coordinates
  BY <1>1 DEF coordinates, CoordinatesInv, SlotTold, Measured, Live, Missing, Normalized, Resolved,
              Declared, effective_resolution, Ranged, Span, position_to_mm, delta_to_mm,
              normalize_pressure, normalize_orientation
<1>2. ASSUME NEW d \in Devices, Configure(d) PROVE CoordinatesInv'
  <2>1. Measured'
    BY <1>2, ProfileType, CoordinatesAssumption DEF Configure, Measured, CoordinatesAssumption
  <2>2. ~Live' /\ ~slot'.live /\ UNCHANGED <<slot, frame, reported, explained>>
    BY <1>2 DEF Configure, CoordinatesInv, Live
  <2> QED BY <2>1, <2>2 DEF CoordinatesInv
<1>3. ASSUME device # None, NEW fields \in Reports, CommitEnd(fields) PROVE CoordinatesInv'
  BY <1>3, NothingYet DEF CommitEnd, Publish, CoordinatesInv, Measured, Live, Nobody, Contact
<1>4. ASSUME device # None, CommitNobody \/ ResyncEmpty PROVE CoordinatesInv'
  BY <1>4, NothingYet DEF CommitNobody, ResyncEmpty, Publish, CoordinatesInv, Measured, Live, Nobody, Contact
<1> QED BY <1>1, <1>2, <1>3, <1>4, CommitLiveStep, ResyncStep DEF CoordinatesNext

(* Every value a frame shows is the conversion of the contact's last count *)
(* and every gap is explained, whatever the devices, the quirks and the    *)
(* packets (decode.rs commit, apply_snapshot; axis.rs).                    *)
THEOREM CoordinatesAreTrue ==
  CoordinatesInit /\ [][CoordinatesNext]_coordinates => []CoordinatesAreTold
BY CoordinatesInitially, CoordinatesStep, CoordinatesFollow, PTL

-----------------------------------------------------------------------------
(* The touchpad on Windows.                                                *)
LEMMA LowestIsOne ==
  ASSUME NEW S \in SUBSET Nat, S # {}
  PROVE  Lowest(S) \in S
BY LeastNat DEF Lowest

Frames == [contacts : [Ids -> States], discontinuity : BOOLEAN]

AssemblerType ==
  /\ report \in [scan : Nat, count : Nat, tip : [Ids -> Tips]]
  /\ pending \in [scan : Nat, expected : Nat, tip : [Ids -> Tips]]
  /\ slots \in [Ids -> 0..MaxContacts]
  /\ draft \in [tip : [Ids -> Tips], todo : SUBSET Ids, frame : Frames]
  /\ told \in [live : SUBSET Ids, down : SUBSET Ids]
  /\ ahead \in [live : SUBSET Ids, down : SUBSET Ids]
  /\ cut \in BOOLEAN /\ lost \in {"nothing", "frames", "break"}

(* What is promised of those taken for live, after what errors have lost.  *)
Agree(loss, taken, others) ==
  /\ loss = "nothing" => taken = others
  /\ loss = "frames" => taken \subseteq others

(* With the frames of the call under way: a discontinuity starts afresh.   *)
Promise == IF cut THEN "nothing" ELSE lost

(* The frame at work: the contacts it has begun are new and in a slot, the *)
(* others it shows were in one before, and what it says of each is what    *)
(* the report said.                                                        *)
Says(i) == draft.frame.contacts[i]
Base == IF draft.frame.discontinuity THEN {} ELSE ahead.live
Began == In(draft.frame, {"Began"})
DraftInv ==
  /\ draft.frame.discontinuity => cut
  /\ report # NoReport => cut
  /\ Agree(Promise, Base, Owned \ Began)
  /\ draft.todo \subseteq Named(draft.tip)
  /\ \A i \in Ids :
       /\ Says(i) # "none" => i \in Owned
       /\ i \in draft.todo \/ draft.tip[i] = "none" => Says(i) = "none"
       /\ i \notin draft.todo /\ i \in Touching(draft.tip) => Says(i) \in {"Began", "Active"}
       /\ i \notin draft.todo /\ draft.tip[i] = "up" /\ i \in Owned => Says(i) = "Ended"

Distinct == \A i, j \in Owned : slots[i] = slots[j] => i = j

AssemblerInv ==
  /\ AssemblerType /\ Distinct
  /\ Agree(lost, told.live, told.down)
  /\ stage = "report" => ~cut
  /\ stage # "return" /\ ~cut => ahead = told
  /\ stage # "contacts" => /\ Agree(Promise, ahead.live, Owned)
                           /\ Agree(Promise, ahead.live, ahead.down)
  /\ stage = "contacts" => DraftInv

LEMMA TouchProperty == AssemblerInv => TouchesAreTold
BY DEF AssemblerInv, Distinct, Agree, TouchesAreTold

LEMMA TouchConstants ==
  /\ Ids \subseteq Nat /\ IsFiniteSet(Ids) /\ MaxContacts \in Nat \ {0}
  /\ \A r \in PtpReports : r \in [scan : Nat, count : Nat, tip : [Ids -> Tips]] /\ r # NoReport
<1>1. \A r \in PtpReports : r \in [scan : Nat \ {0}, count : Nat, tip : [Ids -> Tips]]
  BY TouchpadAssumption DEF TouchpadAssumption
<1>2. \A r \in PtpReports : r.scan # 0
  BY <1>1
<1>3. NoReport.scan = 0
  BY DEF NoReport
<1> QED BY <1>1, <1>2, <1>3, TouchpadAssumption DEF TouchpadAssumption

LEMMA TouchInitially == AssemblerInit => AssemblerInv
<1> SUFFICES ASSUME AssemblerInit PROVE AssemblerInv
  OBVIOUS
<1>1. AssemblerType
  <2>1. slots \in [Ids -> 0..MaxContacts]
    BY TouchConstants DEF AssemblerInit, Inactive, NoSlot
  <2>2. /\ report \in [scan : Nat, count : Nat, tip : [Ids -> Tips]]
        /\ pending \in [scan : Nat, expected : Nat, tip : [Ids -> Tips]]
    BY DEF AssemblerInit, NoReport, NoPending, NoContacts, Tips
  <2>3. draft \in [tip : [Ids -> Tips], todo : SUBSET Ids, frame : Frames]
    BY DEF AssemblerInit, NoDraft, NoContacts, Blank, Tips, States, Frames
  <2>4. /\ told \in [live : SUBSET Ids, down : SUBSET Ids]
        /\ ahead \in [live : SUBSET Ids, down : SUBSET Ids]
    BY DEF AssemblerInit, NoOne
  <2> QED BY <2>1, <2>2, <2>3, <2>4 DEF AssemblerInit, AssemblerType
<1>2. Owned = {} /\ ahead.live = {} /\ ahead.down = {}
  BY DEF AssemblerInit, Owned, Inactive, NoOne
<1> QED BY <1>1, <1>2 DEF AssemblerInit, AssemblerInv, Distinct, Agree

-----------------------------------------------------------------------------
(* Assembling                                                              *)

LEMMA FrameBegins ==
  ASSUME AssemblerInv, NEW tip \in [Ids -> Tips], NEW disc \in BOOLEAN,
         stage \in {"report", "merge"}, BeginFrame(tip, disc),
         UNCHANGED <<told, ahead, lost>>, disc \/ report' = NoReport,
         report' \in [scan : Nat, count : Nat, tip : [Ids -> Tips]],
         pending' \in [scan : Nat, expected : Nat, tip : [Ids -> Tips]]
  PROVE  AssemblerInv'
<1>1. Owned' = IF disc THEN {} ELSE Owned
  BY DEF BeginFrame, Owned, Inactive
<1>2. /\ stage' = "contacts" /\ draft'.tip = tip /\ draft'.todo = Named(tip)
      /\ draft'.frame.discontinuity = disc /\ cut' = (cut \/ disc)
      /\ \A i \in Ids : Says(i)' = "none"
  BY DEF BeginFrame, Blank, NoContacts, Says
<1>3. draft' \in [tip : [Ids -> Tips], todo : SUBSET Ids, frame : Frames]
  BY DEF BeginFrame, Blank, NoContacts, Frames, States, Named
<1>4. slots' \in [Ids -> 0..MaxContacts] /\ Distinct'
  BY <1>1, TouchConstants DEF AssemblerInv, AssemblerType, Distinct, BeginFrame, Inactive, NoSlot, Owned
<1>5. AssemblerType'
  BY <1>2, <1>3, <1>4 DEF AssemblerInv, AssemblerType
<1>6. Began' = {} /\ Base' = IF disc THEN {} ELSE ahead.live
  BY <1>2 DEF Began, In, Says, Base
<1>7. Agree(Promise, ahead.live, Owned)
  BY DEF AssemblerInv
<1>8. Agree(Promise', Base', Owned' \ Began')
  BY <1>1, <1>2, <1>6, <1>7 DEF Agree, Promise
<1>9. \A i \in Ids : tip[i] = "none" \/ i \in draft'.todo
  BY <1>2 DEF Named
<1>10. \A i \in Ids : i \in draft'.todo => tip[i] # "none"
  BY <1>2 DEF Named
<1>11. \A i \in Ids : i \in Touching(tip) => i \in draft'.todo
  BY <1>2 DEF Touching, Named
<1>12. DraftInv'
  BY <1>2, <1>8, <1>9, <1>11 DEF DraftInv, Agree, Says, Named, Touching
<1> QED BY <1>2, <1>4, <1>5, <1>12 DEF AssemblerInv, Agree

LEMMA NewsIsMerged ==
  ASSUME AssemblerInv
  PROVE  Merged \in [scan : Nat, expected : Nat, tip : [Ids -> Tips]]
<1>1. Cardinality(Named(report.tip)) \in Nat
  BY TouchConstants, FS_Subset, FS_CardinalityType DEF Named
<1> QED BY <1>1 DEF AssemblerInv, AssemblerType, Merged

LEMMA ReportStep ==
  ASSUME AssemblerInv, NEW r \in PtpReports, PushReport(r)
  PROVE  AssemblerInv'
<1>1. CASE Waiting /\ pending.scan # r.scan
  <2>1. /\ stage = "report" /\ report' = r /\ BeginFrame(pending.tip, TRUE) /\ pending' = NoPending
        /\ UNCHANGED <<told, ahead, lost>>
    BY <1>1 DEF PushReport
  <2>2. NoPending \in [scan : Nat, expected : Nat, tip : [Ids -> Tips]]
    BY DEF NoPending, NoContacts, Tips
  <2>3. pending.tip \in [Ids -> Tips]
    BY DEF AssemblerInv, AssemblerType
  <2> QED BY <2>1, <2>2, <2>3, FrameBegins, TouchConstants
<1>2. CASE ~(Waiting /\ pending.scan # r.scan)
  <2>1. /\ stage = "report" /\ report' = r /\ stage' = "merge"
        /\ UNCHANGED <<pending, slots, draft, told, ahead, cut, lost>>
    BY <1>2 DEF PushReport
  <2> QED BY <2>1, TouchConstants DEF AssemblerInv, AssemblerType, Distinct, Owned, Agree, Promise
<1> QED BY <1>1, <1>2

LEMMA MergeStep ==
  ASSUME AssemblerInv, MergeReport
  PROVE  AssemblerInv'
<1>1. NoReport \in [scan : Nat, count : Nat, tip : [Ids -> Tips]]
  BY DEF NoReport, NoContacts, Tips
<1>2. NoPending \in [scan : Nat, expected : Nat, tip : [Ids -> Tips]]
  BY DEF NoPending, NoContacts, Tips
<1>3. Merged.tip \in [Ids -> Tips] /\ Orphan \in BOOLEAN
  BY NewsIsMerged DEF Orphan
<1>4. CASE Cardinality(Named(Merged.tip)) >= Merged.expected
  <2>1. /\ stage = "merge" /\ BeginFrame(Merged.tip, Orphan) /\ pending' = NoPending
        /\ report' = NoReport /\ UNCHANGED <<told, ahead, lost>>
    BY <1>4 DEF MergeReport
  <2> HIDE DEF Merged
  <2> QED BY <1>1, <1>2, <1>3, <2>1, FrameBegins
<1>5. CASE ~(Cardinality(Named(Merged.tip)) >= Merged.expected)
  <2>1. /\ stage = "merge" /\ stage' = "return" /\ pending' = Merged /\ report' = NoReport
        /\ UNCHANGED <<slots, draft, told, ahead, cut, lost>>
    BY <1>5 DEF MergeReport
  <2> QED BY <1>1, <2>1, NewsIsMerged
    DEF AssemblerInv, AssemblerType, Distinct, Owned, Agree, Promise
<1> QED BY <1>4, <1>5

(* One contact of the frame at work is shown as it is.                     *)
LEMMA ContactShown ==
  ASSUME AssemblerInv, stage = "contacts", NEW i \in draft.todo, NEW state \in States,
         Shows(i, state), slots' \in [Ids -> 0..MaxContacts], Distinct',
         state = "Began" => i \notin Owned /\ Owned' = Owned \cup {i},
         state # "Began" => Owned' = Owned,
         state \in {"Began", "Active"} => i \in Touching(draft.tip),
         state \in {"Active", "Ended"} => i \in Owned,
         state = "Ended" => i \notin Touching(draft.tip),
         state = "none" => i \notin Owned /\ i \notin Touching(draft.tip)
  PROVE  AssemblerInv'
<1>1. /\ draft \in [tip : [Ids -> Tips], todo : SUBSET Ids, frame : Frames] /\ i \in Ids
      /\ DraftInv /\ draft.frame.contacts \in [Ids -> States]
  BY DEF AssemblerInv, AssemblerType, Frames
<1>2. /\ draft' = [tip |-> draft.tip, todo |-> draft.todo \ {i},
                   frame |-> [contacts |-> [draft.frame.contacts EXCEPT ![i] = state],
                              discontinuity |-> draft.frame.discontinuity]]
      /\ UNCHANGED <<stage, report, pending, told, ahead, cut, lost>>
  BY <1>1 DEF Shows, Show, Frames
<1>3. draft' \in [tip : [Ids -> Tips], todo : SUBSET Ids, frame : Frames]
  BY <1>1, <1>2 DEF Frames
<1>4. /\ draft'.tip = draft.tip /\ draft'.todo = draft.todo \ {i}
      /\ draft'.frame.discontinuity = draft.frame.discontinuity
      /\ \A j \in Ids : Says(j)' = IF j = i THEN state ELSE Says(j)
  BY <1>1, <1>2 DEF Says
<1>5. Says(i) = "none" /\ draft.tip[i] # "none" /\ draft.tip[i] \in Tips
  BY <1>1 DEF DraftInv, Named
<1>6. Base' = Base /\ Promise' = Promise
  BY <1>2, <1>4 DEF Base, Promise
<1>7. Owned \ Began = Owned' \ Began'
  <2>1. \A j \in Ids : /\ j \in Began <=> Says(j) = "Began"
                       /\ j \in Began' <=> Says(j)' = "Began"
    BY DEF Began, In, Says
  <2>2. Owned \subseteq Ids /\ Owned' \subseteq Ids
    BY DEF Owned
  <2>3. CASE state = "Began"
    BY <1>1, <1>4, <1>5, <2>1, <2>2, <2>3
  <2>4. CASE state # "Began"
    BY <1>1, <1>4, <1>5, <2>1, <2>2, <2>4
  <2> QED BY <2>3, <2>4
<1>8. Owned \subseteq Owned'
  OBVIOUS
<1>9. ASSUME NEW j \in Ids
      PROVE  /\ Says(j)' # "none" => j \in Owned'
             /\ j \in draft'.todo \/ draft'.tip[j] = "none" => Says(j)' = "none"
             /\ j \notin draft'.todo /\ j \in Touching(draft'.tip) => Says(j)' \in {"Began", "Active"}
             /\ j \notin draft'.todo /\ draft'.tip[j] = "up" /\ j \in Owned' => Says(j)' = "Ended"
  <2>1. CASE j # i
    <3>1. j \in Owned' => j \in Owned
      BY <2>1
    <3> QED BY <1>1, <1>4, <1>8, <2>1, <3>1 DEF DraftInv
  <2>2. CASE j = i
    <3>1. i \in Touching(draft.tip) <=> draft.tip[i] \in {"down", "unfit"}
      BY <1>1 DEF Touching
    <3> QED BY <1>4, <1>5, <2>2, <3>1 DEF States
  <2> QED BY <2>1, <2>2
<1>10. draft'.todo \subseteq Named(draft'.tip) /\ (report' # NoReport => cut')
       /\ (draft'.frame.discontinuity => cut')
  <2>1. (report # NoReport => cut) /\ (draft.frame.discontinuity => cut)
        /\ draft.todo \subseteq Named(draft.tip)
    BY <1>1 DEF DraftInv
  <2>2. report' = report /\ cut' = cut
    BY <1>2
  <2>3. NoReport' = NoReport
    BY DEF NoReport, NoContacts
  <2> QED BY <1>4, <2>1, <2>2, <2>3
<1>11. Agree(Promise', Base', Owned' \ Began')
  BY <1>1, <1>6, <1>7 DEF DraftInv, Agree
<1>12. DraftInv'
  BY <1>9, <1>10, <1>11 DEF DraftInv, Agree
<1>13. AssemblerType'
  BY <1>2, <1>3 DEF AssemblerInv, AssemblerType
<1> QED BY <1>2, <1>12, <1>13 DEF AssemblerInv, Agree

(* An error keeps what the call did to the slots and forgets its frames:   *)
(* whoever was told of is still in a slot, unless a discontinuity is lost. *)
LEMMA CallRefused ==
  ASSUME AssemblerInv, stage = "contacts", Refused,
         slots' \in [Ids -> 0..MaxContacts], Distinct', Owned \subseteq Owned'
  PROVE  AssemblerInv'
<1>1. /\ stage' = "report" /\ report' = NoReport /\ draft' = NoDraft /\ ahead' = told /\ cut' = FALSE
      /\ pending' = pending /\ told' = told
      /\ lost' = IF cut \/ lost = "break" THEN "break" ELSE "frames"
  BY DEF Refused
<1>2. DraftInv /\ AssemblerType /\ Agree(lost, told.live, told.down) /\ (~cut => ahead = told)
  BY DEF AssemblerInv
<1>3. AssemblerType'
  BY <1>1, <1>2 DEF AssemblerType, NoReport, NoContacts, NoDraft, Blank, Tips, States, Frames
<1>4. Agree(lost', told.live, told.down)
  BY <1>1, <1>2 DEF Agree, AssemblerType
<1>5. Agree(lost', told.live, Owned')
  <2>1. CASE cut \/ lost = "break"
    BY <1>1, <2>1 DEF Agree
  <2>2. CASE ~cut /\ lost # "break"
    <3>1. Base = told.live /\ Promise = lost /\ lost \in {"nothing", "frames"}
      BY <1>2, <2>2 DEF DraftInv, Base, Promise, AssemblerType
    <3>2. told.live \subseteq Owned
      BY <1>2, <3>1 DEF DraftInv, Agree
    <3> QED BY <1>1, <2>2, <3>2 DEF Agree
  <2> QED BY <2>1, <2>2
<1>6. Promise' = lost'
  BY <1>1 DEF Promise
<1> QED BY <1>1, <1>3, <1>4, <1>5, <1>6 DEF AssemblerInv, Agree

LEMMA ContactStep ==
  ASSUME AssemblerInv, FinishContact
  PROVE  AssemblerInv'
<1> DEFINE i == Lowest(draft.todo)
           touching == i \in Touching(draft.tip)
<1>1. stage = "contacts" /\ i \in draft.todo /\ i \in Ids
  <2>1. draft.todo \in SUBSET Nat /\ draft.todo # {} /\ draft.todo \in SUBSET Ids
    BY TouchConstants DEF AssemblerInv, AssemblerType, FinishContact
  <2> QED BY <2>1, LowestIsOne DEF FinishContact
<1>2. slots \in [Ids -> 0..MaxContacts] /\ draft.tip \in [Ids -> Tips] /\ Distinct
  BY DEF AssemblerInv, AssemblerType
<1>3. ASSUME UNCHANGED slots PROVE slots' \in [Ids -> 0..MaxContacts] /\ Distinct' /\ Owned' = Owned
  BY <1>2, <1>3 DEF Distinct, Owned
<1>4. ASSUME i \notin Owned, Free # {}, slots' = [slots EXCEPT ![i] = Lowest(Free)]
      PROVE  slots' \in [Ids -> 0..MaxContacts] /\ Distinct' /\ Owned' = Owned \cup {i}
  <2>1. Lowest(Free) \in Free
    <3>1. Free \in SUBSET Nat
      BY TouchConstants DEF Free, Slots
    <3> QED BY <1>4, <3>1, LowestIsOne
  <2>2. Lowest(Free) \in 0..MaxContacts - 1 /\ \A j \in Ids : slots[j] # Lowest(Free)
    BY <2>1 DEF Free, Slots
  <2> HIDE DEF i
  <2>3. Lowest(Free) \in 0..MaxContacts /\ Lowest(Free) # NoSlot
    BY <2>2, TouchConstants DEF NoSlot
  <2> QED BY <1>1, <1>2, <1>4, <2>2, <2>3 DEF Distinct, Owned
<1>5. CASE touching /\ i \notin Owned /\ Free = {}
  <2>1. Refused /\ UNCHANGED slots
    BY <1>5 DEF FinishContact
  <2> QED BY <1>1, <1>3, <2>1, CallRefused
<1>6. CASE touching /\ i \in Owned
  <2>1. /\ slots' = [slots EXCEPT ![i] = slots[i]]
        /\ Refused \/ Shows(i, "Active")
    BY <1>6 DEF FinishContact
  <2>2. slots' = slots /\ "Active" \in States
    BY <1>1, <1>2, <2>1 DEF States
  <2> HIDE DEF i
  <2>3. CASE Refused
    BY <1>1, <1>3, <2>2, <2>3, CallRefused
  <2>4. CASE Shows(i, "Active")
    BY <1>1, <1>3, <1>6, <2>2, <2>4, ContactShown
  <2> QED BY <2>1, <2>3, <2>4
<1>7. CASE touching /\ i \notin Owned /\ Free # {}
  <2>1. /\ slots' = [slots EXCEPT ![i] = Lowest(Free)]
        /\ Refused \/ Shows(i, "Began")
    BY <1>7 DEF FinishContact
  <2>2. "Began" \in States
    BY DEF States
  <2> HIDE DEF i
  <2>3. CASE Refused
    BY <1>1, <1>4, <1>7, <2>1, <2>3, CallRefused
  <2>4. CASE Shows(i, "Began")
    BY <1>1, <1>4, <1>7, <2>1, <2>2, <2>4, ContactShown
  <2> QED BY <2>1, <2>3, <2>4
<1>8. CASE ~touching /\ i \in Owned
  <2>1. UNCHANGED slots /\ (Refused \/ Shows(i, "Ended"))
    BY <1>8 DEF FinishContact
  <2>2. "Ended" \in States
    BY DEF States
  <2> HIDE DEF i
  <2>3. CASE Refused
    BY <1>1, <1>3, <2>1, <2>3, CallRefused
  <2>4. CASE Shows(i, "Ended")
    BY <1>1, <1>3, <1>8, <2>1, <2>2, <2>4, ContactShown
  <2> QED BY <2>1, <2>3, <2>4
<1>9. CASE ~touching /\ i \notin Owned
  <2>1. UNCHANGED slots /\ Shows(i, "none")
    BY <1>9 DEF FinishContact
  <2>2. "none" \in States
    BY DEF States
  <2> HIDE DEF i
  <2> QED BY <1>1, <1>3, <1>9, <2>1, <2>2, ContactShown
<1> QED BY <1>5, <1>6, <1>7, <1>8, <1>9

LEMMA FrameStep ==
  ASSUME AssemblerInv, FinishFrame
  PROVE  AssemblerInv'
<1>1. stage = "contacts" /\ draft.todo = {}
  BY DEF FinishFrame
<1>2. /\ slots \in [Ids -> 0..MaxContacts] /\ draft.tip \in [Ids -> Tips] /\ Distinct
      /\ DraftInv /\ draft.frame \in Frames /\ AssemblerType
      /\ Agree(lost, told.live, told.down)
  BY <1>1 DEF AssemblerInv, AssemblerType
<1>3. CASE Refused /\ UNCHANGED slots
  <2>1. Distinct' /\ Owned' = Owned
    BY <1>2, <1>3 DEF Distinct, Owned
  <2> QED BY <1>1, <1>2, <1>3, <2>1, CallRefused
<1> DEFINE f == [draft.frame EXCEPT !.contacts = [i \in Ids |-> Shown(i)]]
<1>4. CASE /\ ahead' = [live |-> Following(ahead.live, f), down |-> Touching(draft.tip)]
           /\ slots' = [i \in Ids |-> IF f.contacts[i] = "Ended" THEN NoSlot ELSE slots[i]]
           /\ stage' = IF report = NoReport THEN "return" ELSE "merge"
           /\ draft' = NoDraft /\ UNCHANGED <<report, pending, told, cut, lost>>
  <2>1. f = [contacts |-> [i \in Ids |-> Shown(i)], discontinuity |-> draft.frame.discontinuity]
    BY <1>2 DEF Frames
  <2>2. \A i \in Ids : /\ f.contacts[i] = Shown(i)
                       /\ Shown(i) = IF i \in Owned /\ draft.tip[i] = "none" THEN "Ended" ELSE Says(i)
    BY <2>1 DEF Shown, Says, Omitted
  <2>3. f.discontinuity = draft.frame.discontinuity
    BY <2>1
  <2> HIDE DEF f
  <2>4. \A i \in Ids : /\ Says(i) \in {"none", "Began", "Active", "Ended"}
                       /\ draft.tip[i] \in {"none", "up", "down", "unfit"}
                       /\ i \in Touching(draft.tip) <=> draft.tip[i] \in {"down", "unfit"}
    BY <1>2 DEF Says, Frames, Tips, States, Touching
  <2>5. \A i \in Ids : /\ Says(i) # "none" => i \in Owned
                       /\ draft.tip[i] = "none" => Says(i) = "none"
                       /\ i \in Touching(draft.tip) => Says(i) \in {"Began", "Active"}
                       /\ draft.tip[i] = "up" /\ i \in Owned => Says(i) = "Ended"
    BY <1>1, <1>2 DEF DraftInv
  <2>6. In(f, {"Began"}) = Began
    <3>1. \A i \in Ids : f.contacts[i] = "Began" <=> Says(i) = "Began"
      BY <2>2, <2>4, <2>5
    <3> QED BY <3>1 DEF In, Began, Says
  <2>7. Owned' = Touching(draft.tip) /\ Owned' = Owned \ In(f, {"Ended"})
    <3>1. \A i \in Ids : i \in Owned' <=> (i \in Owned /\ f.contacts[i] # "Ended")
      BY <1>2, <1>4 DEF Owned, NoSlot
    <3>2. \A i \in Ids : i \in Owned /\ f.contacts[i] # "Ended" <=> i \in Touching(draft.tip)
      BY <2>2, <2>4, <2>5
    <3>3. Owned \subseteq Ids /\ Owned' \subseteq Ids /\ Touching(draft.tip) \subseteq Ids
      BY DEF Owned, Touching
    <3>4. In(f, {"Ended"}) = {i \in Ids : f.contacts[i] = "Ended"}
      BY DEF In
    <3> QED BY <3>1, <3>2, <3>3, <3>4
  <2>8. Began \subseteq Owned
    BY <2>5 DEF Began, In, Says
  <2>9. Following(ahead.live, f) = (Base \cup Began) \ In(f, {"Ended"})
    BY <2>3, <2>6 DEF Following, Base
  <2>10. Agree(Promise, Following(ahead.live, f), Owned')
    <3>1. Agree(Promise, Base, Owned \ Began)
      BY <1>2 DEF DraftInv
    <3> QED BY <2>7, <2>8, <2>9, <3>1 DEF Agree
  <2>11. ahead'.live = Following(ahead.live, f) /\ ahead'.down = Owned' /\ Promise' = Promise
    BY <1>4, <2>7 DEF Promise
  <2>12. Distinct' /\ slots' \in [Ids -> 0..MaxContacts]
    BY <1>2, <1>4, TouchConstants DEF Distinct, Owned, NoSlot
  <2>13. ahead' \in [live : SUBSET Ids, down : SUBSET Ids]
    <3>1. Following(ahead.live, f) \in SUBSET Ids /\ Touching(draft.tip) \in SUBSET Ids
      BY <1>2 DEF Following, In, Touching, AssemblerType
    <3> QED BY <1>4, <3>1
  <2>14. AssemblerType'
    BY <1>2, <1>4, <2>12, <2>13 DEF AssemblerType, NoContacts, NoDraft, Blank, Tips, States, Frames
  <2>15. stage' = "return" \/ (stage' = "merge" /\ cut')
    BY <1>2, <1>4 DEF DraftInv
  <2> QED BY <1>2, <1>4, <2>10, <2>11, <2>12, <2>14, <2>15 DEF AssemblerInv, Agree
<1> QED BY <1>3, <1>4 DEF FinishFrame

LEMMA ReturnStep ==
  ASSUME AssemblerInv, Return
  PROVE  AssemblerInv'
<1>1. /\ stage = "return" /\ stage' = "report" /\ told' = ahead /\ cut' = FALSE
      /\ lost' = Promise /\ Promise' = Promise
      /\ UNCHANGED <<report, pending, slots, draft, ahead>>
  BY DEF Return, Promise
<1>2. AssemblerType'
  BY <1>1 DEF AssemblerInv, AssemblerType, Promise
<1> QED BY <1>1, <1>2 DEF AssemblerInv, Distinct, Owned, Agree

LEMMA AssemblerStep == AssemblerInv /\ [AssemblerNext]_assemblerVars => AssemblerInv'
<1> SUFFICES ASSUME AssemblerInv, [AssemblerNext]_assemblerVars PROVE AssemblerInv'
  OBVIOUS
<1>1. CASE UNCHANGED assemblerVars
  BY <1>1 DEF assemblerVars, AssemblerInv, AssemblerType, Distinct, Owned, Agree, Promise, DraftInv,
     Base, Began, Says, In, NoReport, NoContacts
<1> QED BY <1>1, ReportStep, MergeStep, ContactStep, FrameStep, ReturnStep DEF AssemblerNext

-----------------------------------------------------------------------------
(* The overlay                                                             *)

OverlayInv ==
  /\ gate \in {"Idle", "Active", "Drain"} /\ pipeline \in {"installed", "gone", "panicked"}
  /\ live \in SUBSET Ids /\ most \in Nat /\ kept \in BOOLEAN
  /\ OnlyThreeFingers

LEMMA OverlayInitially == OverlayInit => OverlayInv
<1> SUFFICES ASSUME OverlayInit PROVE OverlayInv
  OBVIOUS
<1>1. gate = "Idle" /\ pipeline = "installed" /\ live = {} /\ most = 0 /\ handed = {} /\ kept = FALSE
  BY DEF OverlayInit
<1>2. OnlyThreeFingers
  BY <1>1 DEF OnlyThreeFingers
<1> QED BY <1>1, <1>2 DEF OverlayInv

(* A frame leaves down whom it should, and so does the first one of a      *)
(* cluster, in which they all begin.                                       *)
LEMMA FrameLeaves ==
  ASSUME NEW now \in SUBSET Ids, NEW d \in BOOLEAN, live \in SUBSET Ids
  PROVE  LET f == FrameTo(now, d)
         IN  /\ Down(f) = now
             /\ Following(live, f) = now
             /\ In(f, {"Ended"}) = {} => Following({}, Rebased(f)) = now
<1> DEFINE f == FrameTo(now, d)
           before == IF d THEN {} ELSE live
<1>1. /\ f.discontinuity = d
      /\ f = [contacts |-> f.contacts, discontinuity |-> d]
      /\ f.contacts = [i \in Ids |-> CASE i \in now /\ i \in before -> "Active"
                                    [] i \in now /\ i \notin before -> "Began"
                                    [] i \notin now /\ i \in before -> "Ended"
                                    [] OTHER -> "none"]
  BY DEF FrameTo
<1> HIDE DEF f
<1>2. \A i \in Ids : /\ f.contacts[i] = "Active" <=> i \in now /\ i \in before
                     /\ f.contacts[i] = "Began" <=> i \in now /\ i \notin before
                     /\ f.contacts[i] = "Ended" <=> i \notin now /\ i \in before
  BY <1>1
<1>3. /\ Down(f) = now /\ In(f, {"Began"}) = now \ before
      /\ In(f, {"Ended"}) = before \ now
  BY <1>2 DEF Down, In
<1>4. Following(live, f) = now
  BY <1>1, <1>3 DEF Following
<1>5. ASSUME In(f, {"Ended"}) = {}
      PROVE  Following({}, Rebased(f)) = now
  <2>1. Rebased(f).contacts = [i \in Ids |-> IF i \in Down(f) THEN "Began" ELSE f.contacts[i]]
    BY <1>1 DEF Rebased
  <2>2. In(Rebased(f), {"Began"}) = now
    BY <1>2, <1>3, <2>1 DEF In
  <2>3. In(Rebased(f), {"Ended"}) = {}
    BY <1>2, <1>3, <1>5, <2>1 DEF In
  <2> QED BY <2>2, <2>3 DEF Following
<1> QED BY <1>3, <1>4, <1>5 DEF f

LEMMA OverlayFrameStep ==
  ASSUME OverlayInv, OverlayFrame
  PROVE  OverlayInv'
<1>1. PICK now \in SUBSET Ids, d \in BOOLEAN :
        LET f == FrameTo(now, d)  n == Cardinality(Down(f))
        IN  /\ pipeline # "panicked"
            /\ FromIdle(f, n) \/ WhileActive(f, n) \/ WhileDraining(n)
            /\ live' = now
            /\ most' = IF n = 0 THEN 0 ELSE IF n > most THEN n ELSE most
  BY DEF OverlayFrame
<1> DEFINE f == FrameTo(now, d)
           n == Cardinality(Down(f))
<1>2. /\ gate \in {"Idle", "Active", "Drain"} /\ pipeline \in {"installed", "gone"}
      /\ live \in SUBSET Ids /\ most \in Nat /\ kept \in BOOLEAN /\ OnlyThreeFingers
  BY <1>1 DEF OverlayInv
<1>3. Down(f) = now /\ Following(live, f) = now
      /\ (In(f, {"Ended"}) = {} => Following({}, Rebased(f)) = now)
  BY <1>2, FrameLeaves
<1>4. n \in Nat /\ (n = 0 => now = {})
  BY <1>3, TouchConstants, FS_Subset, FS_CardinalityType, FS_EmptySet
<1>5. /\ FromIdle(f, n) \/ WhileActive(f, n) \/ WhileDraining(n)
      /\ live' = now /\ most' = IF n = 0 THEN 0 ELSE IF n > most THEN n ELSE most
  BY <1>1
<1> HIDE DEF f, n
<1>6. most' \in Nat /\ live' \in SUBSET Ids
  BY <1>2, <1>4, <1>5
<1>7. CASE FromIdle(f, n)
  <2>1. gate = "Idle" /\ (pipeline = "installed" => handed = {} /\ most < 4)
    BY <1>2, <1>7 DEF FromIdle, OnlyThreeFingers
  <2>2. CASE n >= 4
    <3>1. gate' = "Drain" /\ UNCHANGED <<pipeline, handed, kept>>
      BY <1>7, <2>2 DEF FromIdle, Withhold
    <3> QED BY <1>2, <1>6, <2>1, <3>1 DEF OverlayInv, OnlyThreeFingers
  <2>3. CASE ~(n >= 4) /\ (n # 3 \/ In(f, {"Ended"}) # {})
    <3>1. gate' = "Idle" /\ UNCHANGED <<pipeline, handed, kept>>
      BY <1>7, <2>3 DEF FromIdle, Withhold
    <3> QED BY <1>2, <1>4, <1>5, <1>6, <2>1, <2>3, <3>1 DEF OverlayInv, OnlyThreeFingers
  <2>4. CASE n = 3 /\ In(f, {"Ended"}) = {}
    <3>1. gate' = "Active" /\ Forward(Rebased(f)) /\ kept' = kept
      BY <1>7, <2>4 DEF FromIdle
    <3>2. CASE pipeline = "installed"
      <4>1. handed' = now /\ pipeline' = pipeline
        BY <1>3, <2>1, <2>4, <3>1, <3>2 DEF Forward
      <4>2. most' = 3
        BY <1>2, <1>5, <2>1, <2>4, <3>2
      <4> QED BY <1>2, <1>5, <1>6, <3>1, <4>1, <4>2 DEF OverlayInv, OnlyThreeFingers
    <3>3. CASE pipeline # "installed"
      <4>1. pipeline' = "panicked"
        BY <3>1, <3>3 DEF Forward
      <4> QED BY <1>2, <1>6, <3>1, <4>1 DEF OverlayInv, OnlyThreeFingers
    <3> QED BY <3>2, <3>3
  <2> QED BY <1>4, <2>2, <2>3, <2>4
<1>8. CASE WhileActive(f, n)
  <2>1. /\ gate = "Active"
        /\ pipeline = "installed" => handed = live /\ (most = 3 \/ (kept /\ most < 3))
    BY <1>2, <1>8 DEF WhileActive, OnlyThreeFingers
  <2>2. CASE n >= 4
    <3>1. Reset
      BY <1>8, <2>2 DEF WhileActive
    <3>2. CASE pipeline = "installed" /\ gate' = "Drain" /\ handed' = {} /\ kept' = FALSE
               /\ UNCHANGED pipeline
      BY <1>2, <1>6, <3>2 DEF OverlayInv, OnlyThreeFingers
    <3>3. CASE /\ pipeline' = IF pipeline = "installed" THEN "gone" ELSE "panicked"
               /\ UNCHANGED <<gate, handed, kept>>
      BY <1>2, <1>6, <3>3 DEF OverlayInv, OnlyThreeFingers
    <3> QED BY <3>1, <3>2, <3>3 DEF Reset
  <2>3. CASE ~(n >= 4)
    <3>1. PICK ok \in {FALSE, pipeline = "installed"} :
            /\ gate' = IF n = 0 /\ ok THEN "Idle" ELSE "Active"
            /\ kept' = IF n = 0 THEN ~ok ELSE kept
      BY <1>8, <2>3 DEF WhileActive
    <3>2. Forward(f) /\ ok \in BOOLEAN
      BY <1>8, <2>3, <3>1 DEF WhileActive
    <3>3. gate' \in {"Idle", "Active"} /\ kept' \in BOOLEAN
      BY <1>2, <3>1, <3>2
    <3>4. CASE pipeline = "installed"
      <4>1. handed' = now /\ pipeline' = pipeline
        BY <1>3, <2>1, <3>2, <3>4 DEF Forward
      <4>2. n # 0 => gate' = "Active" /\ kept' = kept
        BY <3>1
      <4>3. n = 0 => gate' = "Idle" \/ kept'
        BY <3>1, <3>2
      <4>4. gate' = "Active" => most' = 3 \/ (kept' /\ most' < 3)
        <5>1. CASE n = 0
          BY <1>5, <4>3, <5>1
        <5>2. CASE n # 0
          BY <1>2, <1>4, <1>5, <2>1, <2>3, <3>4, <4>2, <5>2
        <5> QED BY <5>1, <5>2
      <4>5. most' < 4
        BY <1>2, <1>4, <1>5, <2>1, <2>3, <3>4
      <4>6. gate' # "Active" => now = {}
        BY <1>4, <3>1
      <4> QED BY <1>2, <1>5, <1>6, <3>3, <4>1, <4>4, <4>5, <4>6 DEF OverlayInv, OnlyThreeFingers
    <3>5. CASE pipeline # "installed"
      <4>1. pipeline' = "panicked"
        BY <3>2, <3>5 DEF Forward
      <4> QED BY <1>6, <3>3, <4>1 DEF OverlayInv, OnlyThreeFingers
    <3> QED BY <3>4, <3>5
  <2> QED BY <2>2, <2>3
<1>9. CASE WhileDraining(n)
  <2>1. /\ gate = "Drain" /\ gate' = (IF n = 0 THEN "Idle" ELSE gate)
        /\ UNCHANGED <<pipeline, handed, kept>>
    BY <1>9 DEF WhileDraining, Withhold
  <2>2. pipeline = "installed" => handed = {}
    BY <1>2, <2>1 DEF OnlyThreeFingers
  <2> QED BY <1>2, <1>5, <1>6, <2>1, <2>2 DEF OverlayInv, OnlyThreeFingers
<1> QED BY <1>5, <1>7, <1>8, <1>9

LEMMA OverlayStep == OverlayInv /\ [OverlayNext]_overlayVars => OverlayInv'
<1> SUFFICES ASSUME OverlayInv, [OverlayNext]_overlayVars PROVE OverlayInv'
  OBVIOUS
<1>1. CASE UNCHANGED overlayVars
  BY <1>1 DEF overlayVars, OverlayInv, OnlyThreeFingers
<1>2. CASE ReleaseOverlay
  BY <1>2 DEF ReleaseOverlay, OverlayInv, OnlyThreeFingers
<1> QED BY <1>1, <1>2, OverlayFrameStep DEF OverlayNext

(* No contact is stuck and none appears without having begun, as far as an *)
(* error has not lost the frame that said so; and the arbiter is handed    *)
(* whole clusters of three: for any number of contacts and slots, any      *)
(* reports, any frames and errors in any order (ptp.rs; overlay.rs).       *)
THEOREM TouchesAreAccountedFor ==
  TouchpadInit /\ [][TouchpadNext]_touchpadVars => []TouchesAccountedFor
<1>1. TouchpadInit => AssemblerInv /\ OverlayInv
  BY TouchInitially, OverlayInitially DEF TouchpadInit
<1>2. AssemblerInv /\ OverlayInv /\ [TouchpadNext]_touchpadVars => AssemblerInv' /\ OverlayInv'
  <2>1. [TouchpadNext]_touchpadVars => [AssemblerNext]_assemblerVars /\ [OverlayNext]_overlayVars
    BY DEF TouchpadNext, touchpadVars
  <2> QED BY <2>1, AssemblerStep, OverlayStep
<1>3. AssemblerInv /\ OverlayInv => TouchesAccountedFor
  BY TouchProperty DEF OverlayInv, TouchesAccountedFor
<1> QED BY <1>1, <1>2, <1>3, PTL

-----------------------------------------------------------------------------
(* The Windows sink.  Truncation leaves less than a unit over.             *)
SinkInv ==
  /\ residue \in [Axes -> Int] /\ unsent \in [Axes -> Int]
  /\ NothingStuckOrLost

LEMMA Truncated ==
  ASSUME NEW n \in Int
  PROVE  /\ WholeUnits(n) \in Int
         /\ -Grain < n - WholeUnits(n) * Grain
         /\ n - WholeUnits(n) * Grain < Grain
<1>1. Grain \in Nat \ {0}
  BY WindowsAssumption DEF WindowsAssumption
<1>2. \A m \in Nat : /\ m \div Grain \in Nat
                     /\ m - (m \div Grain) * Grain \in 0 .. Grain - 1
  BY <1>1
<1>3. CASE n < 0
  <2> DEFINE q == (-n) \div Grain
  <2>1. q \in Nat /\ -n - q * Grain \in 0 .. Grain - 1
    BY <1>2, <1>3
  <2>2. WholeUnits(n) = -q
    BY <1>3 DEF WholeUnits
  <2>3. (-q) * Grain = -(q * Grain) /\ q * Grain \in Int
    BY <1>1, <2>1
  <2> HIDE DEF q
  <2> QED BY <1>1, <2>1, <2>2, <2>3
<1>4. CASE ~(n < 0)
  <2>1. WholeUnits(n) = n \div Grain /\ n \in Nat
    BY <1>4 DEF WholeUnits
  <2> QED BY <1>1, <1>2, <2>1
<1> QED BY <1>3, <1>4

LEMMA ScrollTurns ==
  ASSUME SinkInv, NEW d \in [Axes -> Int], Scroll(d)
  PROVE  SinkInv'
<1> DEFINE total == [a \in Axes |-> residue[a] + d[a]]
           units == [a \in Axes |-> Drained(total[a])]
           turn  == {a \in Axes : units[a] # 0}
<1>1. Grain \in Nat \ {0} /\ WheelMax \in Nat \ {0}
  BY WindowsAssumption DEF WindowsAssumption
<1>2. \A a \in Axes : /\ total[a] = residue[a] + d[a] /\ total[a] \in Int
                      /\ d[a] \in Int /\ residue[a] \in Int /\ unsent[a] \in Int
  BY DEF SinkInv
<1>3. \A a \in Axes : WholeUnits(total[a]) \in Int /\ units[a] = Drained(total[a])
  BY <1>2, Truncated
<1>4. \A a \in Axes : units[a] \in Int /\ units[a] * Grain \in Int
  BY <1>1, <1>3 DEF Drained
<1>5. PICK done \in {turn, {}, turn \cap {"x"}} :
        /\ residue' = [a \in Axes |-> total[a] - units[a] * Grain]
        /\ spoiled' = (spoiled \/ done # turn)
        /\ unsent' = IF spoiled' THEN unsent
                     ELSE [a \in Axes |-> unsent[a] + d[a] - units[a] * Grain]
        /\ full' = (full \/ \E a \in Axes : units[a] # WholeUnits(total[a]))
        /\ answer' \in {"ok", "io"} /\ UNCHANGED <<holding, windows>>
  BY DEF Scroll, Accept
<1> HIDE DEF units, total, turn
<1>6. residue' \in [Axes -> Int] /\ unsent' \in [Axes -> Int]
  BY <1>2, <1>4, <1>5 DEF SinkInv
<1>7. ~spoiled' => residue' = unsent'
  <2> SUFFICES ASSUME ~spoiled' PROVE residue' = unsent'
    OBVIOUS
  <2>1. residue = unsent
    BY <1>5 DEF SinkInv, NothingStuckOrLost
  <2>2. \A a \in Axes : residue'[a] = unsent'[a]
    <3> SUFFICES ASSUME NEW a \in Axes PROVE residue'[a] = unsent'[a]
      OBVIOUS
    <3>1. residue'[a] = total[a] - units[a] * Grain /\ unsent'[a] = unsent[a] + d[a] - units[a] * Grain
      BY <1>5
    <3>2. total[a] = unsent[a] + d[a]
      BY <1>2, <2>1
    <3> QED BY <1>2, <1>4, <3>1, <3>2
  <2> QED BY <1>6, <2>2
<1>8. ASSUME ~full', NEW a \in Axes PROVE -Grain < residue'[a] /\ residue'[a] < Grain
  <2>1. residue'[a] = total[a] - WholeUnits(total[a]) * Grain
    BY <1>5, <1>8
  <2> QED BY <1>2, <2>1, Truncated
<1> QED BY <1>5, <1>6, <1>7, <1>8 DEF SinkInv, NothingStuckOrLost

LEMMA SinkStep == SinkInv /\ [SinkNext]_sinkVars => SinkInv'
<1> SUFFICES ASSUME SinkInv, [SinkNext]_sinkVars PROVE SinkInv'
  OBVIOUS
<1> USE DEF SinkInv, NothingStuckOrLost
<1>1. CASE UNCHANGED sinkVars
  BY <1>1 DEF sinkVars
<1>2. CASE Move \/ Bracket \/ Unsupported
  BY <1>2 DEF Move, Bracket, Unsupported, Accept, Steady
<1>3. CASE ReleaseSink
  <2>1. residue' \in [Axes -> Int] /\ unsent' = residue' /\ \A a \in Axes : residue'[a] = 0
    BY <1>3 DEF ReleaseSink, Still
  <2>2. Grain \in Nat \ {0}
    BY WindowsAssumption DEF WindowsAssumption
  <2>3. PICK refused \in SUBSET holding :
           /\ holding' = refused /\ windows' = windows \ (holding \ refused)
           /\ answer' = IF refused = {} THEN "released" ELSE "fatal"
    BY <1>3 DEF ReleaseSink, Accept
  <2> QED BY <2>1, <2>2, <2>3
<1>4. ASSUME NEW b, NEW down \in BOOLEAN, SendButton(b, down) PROVE SinkInv'
  BY <1>4 DEF SendButton, Accept
<1>5. ASSUME NEW x \in Scrolls \cup {0}, NEW y \in Scrolls, Scroll(On(x, y)) PROVE SinkInv'
  <2>1. On(x, y) \in [Axes -> Int]
    BY WindowsAssumption DEF WindowsAssumption, On
  <2> QED BY <1>5, <2>1, ScrollTurns
<1>6. CASE Submit
  BY <1>2, <1>3, <1>4, <1>5, <1>6 DEF Submit
<1>7. ASSUME NEW l \in Buttons, NEW r \in Buttons, NEW y \in Scrolls,
             ProbeStep(l, r, On(0, y))
      PROVE  SinkInv'
  <2>1. CASE ProbeEvent(l, r, On(0, y))
    BY <1>2, <1>4, <1>5, <2>1 DEF ProbeEvent
  <2>2. CASE UNCHANGED answer /\ Steady
    BY <2>2 DEF Steady
  <2> QED BY <1>3, <1>7, <2>1, <2>2 DEF ProbeStep
<1> QED BY <1>1, <1>6, <1>7 DEF SinkNext

-----------------------------------------------------------------------------
(* The capture.                                                            *)
Count == [messages : Nat, reports : Nat]
CaptureStages == {"off", "create", "header", "open", "register", "loop",
                  "reports", "summary", "tell", "over"}
CaptureType ==
  [at : CaptureStages, file : BOOLEAN, header : BOOLEAN, lines : Nat, cut : BOOLEAN,
   told : SUBSET Count, summary : Count, left : Nat, window : BOOLEAN, ok : BOOLEAN,
   inputs : Nat, messages : Nat]

(* Until it is over, the counts of the loop are those of the file, which   *)
(* has its header from then on and no line cut short.                      *)
CaptureInv ==
  /\ capture \in CaptureType
  /\ ~Step("over") => /\ ~capture.cut /\ ~capture.ok
                      /\ capture.summary = [messages |-> capture.inputs, reports |-> capture.lines]
                      /\ capture.told = IF Step("tell") THEN {capture.summary} ELSE {}
  /\ capture.at \notin {"off", "create", "header", "over"} => capture.header
  /\ capture.at \in {"summary", "tell"} => ~capture.window
  /\ Step("reports") => capture.left > 0
  /\ CaptureAddsUp

(* A line that cannot be written ends the capture: what the file holds is  *)
(* what it held, or that with the line.                                    *)
LEMMA FailedWrite ==
  ASSUME CaptureInv, ~Step("over"), ~Step("tell"), NEW w \in CaptureType, WriteFails(w),
         ~w.ok, ~w.cut,
         \A t \in w.told : w.header /\ t.reports = w.lines /\ t.messages = w.inputs
  PROVE  CaptureInv'
<1> USE DEF Step
<1>1. PICK landed \in {capture, [capture EXCEPT !.cut = TRUE], w} :
        capture' = [landed EXCEPT !.at = "over", !.window = FALSE, !.left = 0]
  BY DEF WriteFails
<1>2. landed \in CaptureType /\ ~landed.ok
  <2>1. [capture EXCEPT !.cut = TRUE] \in CaptureType /\ ~[capture EXCEPT !.cut = TRUE].ok
    BY DEF CaptureInv, CaptureType
  <2> QED BY <2>1, <1>1 DEF CaptureInv
<1>3. \A t \in landed.told : /\ landed.header /\ ~landed.cut
                             /\ t.reports = landed.lines /\ t.messages = landed.inputs
  <2>1. capture.told = {}
    BY DEF CaptureInv
  <2>2. [capture EXCEPT !.cut = TRUE].told = {}
    BY <2>1 DEF CaptureInv, CaptureType
  <2> QED BY <2>1, <2>2, <1>1
<1>4. /\ capture' \in CaptureType /\ capture'.at = "over" /\ ~capture'.window
      /\ capture'.told = landed.told /\ capture'.header = landed.header
      /\ capture'.cut = landed.cut /\ capture'.lines = landed.lines
      /\ capture'.inputs = landed.inputs /\ capture'.ok = landed.ok
  BY <1>1, <1>2 DEF CaptureType, CaptureStages
<1> QED BY <1>2, <1>3, <1>4 DEF CaptureInv, CaptureAddsUp

LEMMA CaptureStep == CaptureInv /\ [CaptureNext]_captureVars => CaptureInv'
<1> SUFFICES ASSUME CaptureInv, [CaptureNext]_captureVars PROVE CaptureInv'
  OBVIOUS
<1> USE DEF CaptureInv, CaptureAddsUp, Step
<1>a. capture \in CaptureType
  OBVIOUS
<1>1. CASE UNCHANGED captureVars
  BY <1>1 DEF captureVars
<1>2. CASE Abandon /\ ~Step("over")
  BY <1>2 DEF Abandon, CaptureType, CaptureStages
<1>3. CASE Enumerate
  BY <1>2, <1>3 DEF Enumerate, CaptureType, CaptureStages
<1>4. CASE CreateFile
  BY <1>2, <1>4 DEF CreateFile, CaptureType, CaptureStages
<1>5. CASE WriteHeader
  <2> DEFINE w == [capture EXCEPT !.at = "open", !.header = TRUE]
  <2>1. /\ w \in CaptureType /\ w.at = "open" /\ w.header /\ ~w.cut /\ ~w.ok /\ w.told = {}
        /\ w.lines = capture.lines /\ w.inputs = capture.inputs /\ w.summary = capture.summary
    BY <1>a, <1>5 DEF WriteHeader, CaptureType, CaptureStages
  <2>2. WriteFails(w) \/ capture' = w
    BY <1>5 DEF WriteHeader
  <2> HIDE DEF w
  <2>3. CASE WriteFails(w)
    BY <1>5, <2>1, <2>3, FailedWrite DEF WriteHeader
  <2>4. CASE capture' = w
    BY <1>5, <2>1, <2>4 DEF WriteHeader
  <2> QED BY <2>2, <2>3, <2>4
<1>6. CASE OpenWindow
  <2>1. CASE capture' = [capture EXCEPT !.at = "register", !.window = TRUE] /\ Step("open")
    BY <2>1 DEF CaptureType, CaptureStages
  <2>2. CASE capture' = [capture EXCEPT !.at = "loop"] /\ Step("register")
    BY <2>2 DEF CaptureType, CaptureStages
  <2> QED BY <1>2, <1>6, <2>1, <2>2 DEF OpenWindow
<1>7. CASE TakeMessage
  <2>1. PICK m \in Messages :
          \/ Abandon
          \/ capture' = [capture EXCEPT
              !.at = IF Copied(m) > 0 THEN "reports" ELSE "loop",
              !.left = Copied(m), !.summary = CountMessage(m), !.messages = @ + 1,
              !.inputs = IF Copied(m) > 0 THEN @ + 1 ELSE @]
    BY <1>7 DEF TakeMessage
  <2>2. Copied(m) \in Nat
    BY CaptureAssumption DEF CaptureAssumption, Copied
  <2>3. CASE ~Abandon
    <3> DEFINE n == IF Copied(m) > 0 THEN capture.inputs + 1 ELSE capture.inputs
    <3>1. CountMessage(m) = [messages |-> n, reports |-> capture.lines]
      BY <1>7 DEF CountMessage, TakeMessage
    <3>2. n \in Nat /\ capture.lines \in Nat /\ capture.inputs \in Nat /\ capture.messages \in Nat
      BY DEF CaptureType
    <3>3. CountMessage(m) \in Count
      BY <3>1, <3>2 DEF Count
    <3> DEFINE next == IF Copied(m) > 0 THEN "reports" ELSE "loop"
    <3>6. capture' = [capture EXCEPT !.at = next, !.left = Copied(m), !.summary = CountMessage(m),
                                     !.messages = capture.messages + 1, !.inputs = n]
      BY <1>a, <2>1, <2>3 DEF CaptureType
    <3>7. next \in CaptureStages
      BY DEF CaptureStages
    <3> HIDE DEF n, next
    <3>4. /\ capture' \in CaptureType /\ capture'.at = next
          /\ capture'.left = Copied(m) /\ capture'.summary = CountMessage(m)
      <4> DEFINE g == [capture EXCEPT !.at = next, !.left = Copied(m), !.summary = CountMessage(m)]
      <4>1. g \in CaptureType /\ g.at = next /\ g.left = Copied(m) /\ g.summary = CountMessage(m)
        BY <1>a, <2>2, <3>3, <3>7 DEF CaptureType
      <4>2. capture' = [g EXCEPT !.messages = capture.messages + 1, !.inputs = n]
        BY <1>a, <3>6 DEF CaptureType
      <4> HIDE DEF g
      <4>3. capture.messages + 1 \in Nat
        BY <3>2
      <4> QED BY <3>2, <4>1, <4>2, <4>3 DEF CaptureType
    <3>5. /\ capture'.inputs = n /\ capture'.lines = capture.lines
          /\ capture'.told = capture.told /\ capture'.header = capture.header
          /\ capture'.cut = capture.cut /\ capture'.ok = capture.ok
      BY <1>a, <3>6 DEF CaptureType
    <3> QED BY <1>7, <3>1, <3>4, <3>5 DEF TakeMessage, next
  <2> QED BY <1>2, <1>7, <2>3 DEF TakeMessage
<1>8. CASE WriteReport
  <2> DEFINE next == IF capture.left = 1 THEN "loop" ELSE "reports"
             w == [capture EXCEPT !.summary.reports = @ + 1, !.lines = @ + 1, !.left = @ - 1,
                                  !.at = next]
  <2>1. /\ capture.summary \in Count /\ capture.lines \in Nat /\ capture.left \in Nat
        /\ capture.left > 0 /\ capture.told = {}
    BY <1>a, <1>8 DEF WriteReport, CaptureType
  <2> DEFINE sum == [messages |-> capture.inputs, reports |-> capture.lines + 1]
  <2>2. [capture.summary EXCEPT !.reports = @ + 1] = sum
    BY <1>8, <2>1 DEF WriteReport, Count
  <2>3. w = [capture EXCEPT !.summary = sum, !.lines = capture.lines + 1,
                            !.left = capture.left - 1, !.at = next]
    BY <1>a, <2>2 DEF CaptureType
  <2>4. sum \in Count /\ capture.lines + 1 \in Nat /\ capture.left - 1 \in Nat
        /\ next \in CaptureStages
    BY <1>a, <2>1 DEF CaptureType, CaptureStages, Count
  <2> HIDE DEF sum, next, w
  <2>5. /\ w \in CaptureType /\ w.at = next /\ w.header /\ ~w.cut /\ ~w.ok /\ w.told = {}
    BY <1>a, <1>8, <2>1, <2>3, <2>4 DEF WriteReport, CaptureType
  <2>6. /\ w.lines = capture.lines + 1 /\ w.inputs = capture.inputs /\ w.left = capture.left - 1
        /\ w.summary = [messages |-> capture.inputs, reports |-> capture.lines + 1]
    BY <1>a, <2>1, <2>3 DEF CaptureType, sum
  <2>7. WriteFails(w) \/ capture' = w
    BY <1>8 DEF WriteReport, w, next
  <2>8. CASE WriteFails(w)
    BY <1>8, <2>5, <2>8, FailedWrite DEF WriteReport
  <2>9. CASE capture' = w
    <3>1. /\ capture'.at = next /\ capture'.at \in {"loop", "reports"}
          /\ capture'.at = "reports" => capture'.left > 0
      BY <2>1, <2>5, <2>6, <2>9 DEF next
    <3> QED BY <2>5, <2>6, <2>9, <3>1
  <2> QED BY <2>7, <2>8, <2>9
<1>9. CASE TimeIsUp
  BY <1>9 DEF TimeIsUp, CaptureType, CaptureStages
<1>10. CASE WriteSummary
  <2> DEFINE w == [capture EXCEPT !.at = "tell", !.told = {capture.summary}]
  <2>1. /\ w \in CaptureType /\ w.at = "tell" /\ w.header /\ ~w.cut /\ ~w.ok
        /\ w.told = {capture.summary} /\ ~w.window
        /\ w.lines = capture.lines /\ w.inputs = capture.inputs /\ w.summary = capture.summary
    BY <1>a, <1>10 DEF WriteSummary, CaptureType, CaptureStages
  <2>2. WriteFails(w) \/ capture' = w
    BY <1>10 DEF WriteSummary
  <2> HIDE DEF w
  <2>3. CASE WriteFails(w)
    <3>1. \A t \in w.told : w.header /\ t.reports = w.lines /\ t.messages = w.inputs
      BY <1>10, <2>1 DEF WriteSummary
    <3> QED BY <1>10, <2>1, <2>3, <3>1, FailedWrite DEF WriteSummary
  <2>4. CASE capture' = w
    BY <1>10, <2>1, <2>4 DEF WriteSummary
  <2> QED BY <2>2, <2>3, <2>4
<1>11. CASE Told
  <2>1. CASE capture' = [capture EXCEPT !.at = "over", !.ok = TRUE] /\ Step("tell")
    BY <2>1 DEF CaptureType, CaptureStages
  <2> QED BY <1>2, <1>11, <2>1 DEF Told
<1> QED BY <1>1, <1>3, <1>4, <1>5, <1>6, <1>7, <1>8, <1>9, <1>10, <1>11 DEF CaptureNext

LEMMA SinkInitially == SinkInit => SinkInv
BY WindowsAssumption DEF WindowsAssumption, SinkInit, SinkInv, NothingStuckOrLost, Still

(* The sink's buttons are those of Windows and no grain is lost unnoticed, *)
(* whichever call fails (output.rs submit_button, submit_scroll,           *)
(* release_all).                                                           *)
THEOREM SinkKeepsAccount == SinkInit /\ [][SinkNext]_sinkVars => []NothingStuckOrLost
<1>1. SinkInv => NothingStuckOrLost
  BY DEF SinkInv
<1> QED BY <1>1, SinkInitially, SinkStep, PTL

LEMMA CaptureInitially == CaptureInit => CaptureInv
BY DEF CaptureInit, NoCapture, NoSummary, CaptureInv, CaptureType, CaptureStages, Count, CaptureAddsUp, Step

(* A capture file with a summary is whole and counts its lines, wherever a *)
(* write, a message or a call failed (cmd/windows.rs run_capture).         *)
THEOREM CapturesAddUp == CaptureInit /\ [][CaptureNext]_captureVars => []CaptureAddsUp
<1>1. CaptureInv => CaptureAddsUp
  BY DEF CaptureInv
<1> QED BY <1>1, CaptureInitially, CaptureStep, PTL

-----------------------------------------------------------------------------
(* A step of the whole is a step of each part or leaves it alone.          *)
LEMMA StepsOfParts ==
  ASSUME [MCNext]_<<vars, coordinates, touchpadVars, sinkVars, captureVars>>
  PROVE  /\ [Next]_vars /\ [CoordinatesNext]_coordinates /\ [TouchpadNext]_touchpadVars
         /\ [SinkNext]_sinkVars /\ [CaptureNext]_captureVars
BY DEF MCNext, Moving, Measuring, Assembling, Overlaying, TouchpadNext, touchpadVars, Sending, Capturing, Plain

(* All of it for the whole, of which a behaviour takes one part.           *)
THEOREM PartsKeepTheirWord ==
  MCSpec => [](NothingLost /\ CoordinatesAreTold /\ TouchesAccountedFor /\ WindowsAccountedFor)
<1> DEFINE all == <<vars, coordinates, touchpadVars, sinkVars, captureVars>>
<1>1. MCInit => Init /\ CoordinatesInit /\ TouchpadInit /\ SinkInit /\ CaptureInit
  BY DEF MCInit
<1>2. [MCNext]_all => /\ [Next]_vars /\ [CoordinatesNext]_coordinates /\ [TouchpadNext]_touchpadVars
                      /\ [SinkNext]_sinkVars /\ [CaptureNext]_captureVars
  BY StepsOfParts
<1>3. NothingStuckOrLost /\ CaptureAddsUp => WindowsAccountedFor
  BY DEF WindowsAccountedFor
<1> QED BY <1>1, <1>2, <1>3, NothingIsLost, CoordinatesAreTrue, TouchesAreAccountedFor,
           SinkKeepsAccount, CapturesAddUp, PTL DEF MCSpec, Spec
=============================================================================
