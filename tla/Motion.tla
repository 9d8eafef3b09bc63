------------------------------- MODULE Motion -------------------------------
(***************************************************************************)
(* What the motion of the fingers becomes: the pointer, drag and scroll    *)
(* paths of the Arbiter (emit_pointer_delta, emit_scroll_delta) over the   *)
(* lifecycle of the interactions that drive them.  The pointer and the     *)
(* three-finger drag share one fidelity state and one remainder; the       *)
(* two-finger scroll has its own.  Where the fingers are is kept relative  *)
(* to the anchor of the interaction, so that what the stages claim to hold *)
(* can be compared with where the fingers really went.                     *)
(***************************************************************************)
EXTENDS ScrollFidelity

CONSTANTS
    Steps,       \* displacements of one frame
    Gaps,        \* ticks between two frames
    Threshold,   \* motion and scroll commit threshold, in millimetres
    Reach,       \* bound: how far from the anchor the fingers go
    MaxFrames    \* bound: frames of a behaviour

ASSUME MotionAssumption ==
    /\ Steps \subseteq Vector /\ Gaps \subseteq Nat
    /\ Threshold \in Nat /\ Reach \in Nat /\ MaxFrames \in Nat

VARIABLES
    filtered,    \* the configuration carries the fidelity stages
    stable,      \* the drag arms first (stable_reference_motion)
    life,        \* which interaction owns the fingers
    at,          \* the finger, or the centroid, relative to the anchor
    since,       \* ticks since the stage's anchor timestamp
    fidelity,    \* FidelityState
    remainder,   \* remainder_x_px, remainder_y_px
    scroll,      \* ScrollFidelityState
    leftover,    \* two_remainder_x_px, two_remainder_y_px
    coast,       \* velocity of active momentum
    left,        \* synthetic_left, held by the drag
    pixels,      \* the last frame's movement on the wire
    frames,
    mark,        \* ghost: where the fingers were at the last release or gap
    sampled,     \* ghost: where they were at the last velocity sample
    owed         \* ghost: scaled motion not yet sent as whole pixels

config == <<filtered, stable>>
pointing == <<fidelity, remainder>>
scrolling == <<scroll, leftover>>
ghosts == <<mark, sampled, owed>>
vars == <<filtered, stable, life, at, since, fidelity, remainder, scroll,
          leftover, coast, left, pixels, frames, mark, sampled, owed>>

Lives == {"Idle", "Candidate", "Committed", "Pair", "Scroll", "Drag", "Coasting"}

MotionType ==
    /\ filtered \in BOOLEAN /\ stable \in BOOLEAN /\ left \in BOOLEAN
    /\ life \in Lives /\ frames \in Nat /\ since \in Nat
    /\ at \in Vector /\ pixels \in Vector /\ coast \in Vector
    /\ fidelity \in FidelityType /\ remainder \in Vector
    /\ scroll \in ScrollType /\ leftover \in Vector
    /\ mark \in Vector /\ sampled \in Vector /\ owed \in Vector

Init ==
    /\ filtered \in BOOLEAN /\ stable \in BOOLEAN
    /\ life = "Idle" /\ at = Zero /\ since = 0
    /\ fidelity = Unanchored /\ remainder = Zero
    /\ scroll = ScrollRests /\ leftover = Zero
    /\ coast = Zero /\ left = FALSE /\ pixels = Zero /\ frames = 0
    /\ mark = Zero /\ sampled = Zero /\ owed = Zero

Near(p) == Abs(p[1]) <= Reach /\ Abs(p[2]) <= Reach
Crosses(p) == Square(p) >= Threshold * Threshold

-----------------------------------------------------------------------------
(* emit_pointer_delta: a displacement through the stage and the remainder. *)
PointerOutcomes(f, delta, dt) == IF filtered THEN Process(f, delta, dt) ELSE Linear(f, delta)

\* The wire's and the remainder's share of an outcome, and the ghost account.
Sent(o, r) == IF o.kind = "Emit" THEN Emitted(o.scaled, r) ELSE Zero
Kept(o, r) == IF o.kind = "Emit" THEN Remainder(o.scaled, r) ELSE r
Account(o, w, px) == IF o.kind = "Emit" THEN Minus(Plus(o.scaled, w), Times(px, Unit)) ELSE w

\* From the stage's state f, the remainder r and the ghosts g, the displacement
\* delta brings the fingers to p.
EmitPointer(f, r, g, delta, p, dt) ==
    \E o \in PointerOutcomes(f, delta, dt) :
        /\ fidelity' = o.state
        /\ pixels' = Sent(o, r) /\ remainder' = Kept(o, r)
        /\ mark' = IF o.kind = "Hold" THEN g[1] ELSE p
        /\ sampled' = IF filtered /\ f.anchored /\ dt = 0 THEN g[2] ELSE p
        /\ owed' = Account(o, g[3], pixels')
        /\ since' = 0

EmitScroll(delta, p, dt) ==
    \E o \in IF filtered THEN ProcessScroll(scroll, delta, dt) ELSE Linear(scroll, delta) :
        /\ scroll' = o.state
        /\ pixels' = Sent(o, leftover) /\ leftover' = Kept(o, leftover)
        /\ mark' = IF o.kind = "Hold" THEN mark ELSE p
        /\ owed' = Account(o, owed, pixels')
        /\ UNCHANGED sampled
        /\ since' = 0

\* A frame in which no movement goes out.
Silent == pixels' = Zero
Forget == mark' = Zero /\ sampled' = Zero /\ owed' = Zero

\* clear_interaction, and clear_two_finger_interaction.
ClearPointer == fidelity' = Unanchored /\ remainder' = Zero
ClearScroll == scroll' = ScrollRests /\ leftover' = Zero

-----------------------------------------------------------------------------
(* One finger: begin_candidate, the commit at the threshold with all of    *)
(* the accumulated displacement, and the frames after it.                  *)
Land ==
    /\ life = "Idle" /\ life' = "Candidate"
    /\ at' = Zero /\ since' = 0 /\ ClearPointer /\ Forget /\ Silent
    /\ UNCHANGED <<config, scrolling, coast, left>>

\* A frame of the committed finger, or the one that commits it.
Follow(step, dt) ==
    LET p == Plus(at, step)
    IN  /\ \/ /\ life = "Candidate" /\ Crosses(p)
              /\ EmitPointer(fidelity, remainder, ghosts, p, p, dt)
           \/ /\ life = "Committed"
              /\ EmitPointer(fidelity, remainder, ghosts, step, p, since + dt)
        /\ life' = "Committed" /\ at' = p
        /\ UNCHANGED <<config, scrolling, coast, left>>

Hesitate(step) ==
    /\ life = "Candidate" /\ ~Crosses(Plus(at, step))
    /\ at' = Plus(at, step) /\ Silent
    /\ UNCHANGED <<config, life, since, pointing, scrolling, coast, left, ghosts>>

\* The final frame of a finger: its displacement first, then the interaction
\* is cleared (resolve_release_frame, finish_interaction).  A replacement
\* contact begins its own candidate in the same frame.
FinalPixels(delta, dt) ==
    \E o \in PointerOutcomes(fidelity, delta, dt) : pixels' = Sent(o, remainder)

Lift(step, dt, next) ==
    LET p == Plus(at, step)
    IN  /\ \/ life = "Candidate" /\ Crosses(p) /\ next = "Idle" /\ FinalPixels(p, dt)
           \/ life = "Candidate" /\ (Crosses(p) => next = "Candidate") /\ Silent
           \/ life = "Committed" /\ FinalPixels(step, since + dt)
        /\ life' = next /\ at' = Zero /\ since' = 0 /\ ClearPointer /\ Forget
        /\ UNCHANGED <<config, scrolling, coast, left>>

\* cancel_interaction: missing coordinates, a regression of the clock.
Cancel ==
    /\ life \in {"Candidate", "Committed"} /\ life' = "Idle"
    /\ at' = Zero /\ since' = 0 /\ ClearPointer /\ Forget /\ Silent
    /\ UNCHANGED <<config, scrolling, coast, left>>

-----------------------------------------------------------------------------
(* Two fingers: anchoring the pair cancels the pointer; the scroll commits *)
(* at the threshold; the lift ends it with whatever was pending.           *)
Join ==
    /\ life \in {"Idle", "Candidate", "Committed"} /\ life' = "Pair"
    /\ at' = Zero /\ since' = 0 /\ ClearPointer /\ ClearScroll /\ Forget /\ Silent
    /\ UNCHANGED <<config, coast, left>>

ScrollOn(step, dt) ==
    LET p == Plus(at, step)
    IN  /\ \/ life = "Pair" /\ Crosses(p) /\ EmitScroll(p, p, dt)
           \/ life = "Scroll" /\ EmitScroll(step, p, since + dt)
        /\ life' = "Scroll" /\ at' = p
        /\ UNCHANGED <<config, pointing, coast, left>>

Waver(step) ==
    /\ life = "Pair" /\ ~Crosses(Plus(at, step))
    /\ at' = Plus(at, step) /\ Silent
    /\ UNCHANGED <<config, life, since, pointing, scrolling, coast, left, ghosts>>

Part ==
    /\ life \in {"Pair", "Scroll"} /\ life' = "Idle"
    /\ at' = Zero /\ since' = 0 /\ Forget /\ Silent
    /\ ClearScroll /\ UNCHANGED <<config, pointing, coast, left>>

-----------------------------------------------------------------------------
(* Momentum, for a caller of the primitives: begun with the velocity the   *)
(* scroll left behind, advanced by ticks until it ends.                    *)
BeginMomentum ==
    /\ life = "Scroll" /\ filtered /\ Begins(scroll)
    /\ life' = "Coasting" /\ coast' = scroll.velocity
    /\ at' = Zero /\ since' = 0 /\ Forget /\ Silent
    /\ ClearScroll /\ UNCHANGED <<config, pointing, left>>

TickMomentum(dt) ==
    /\ life = "Coasting" /\ dt > 0
    /\ LET v == Coasted(coast, dt)
       IN  IF Ends(v) THEN life' = "Idle" /\ coast' = Zero
                      ELSE life' = life /\ coast' = v
    /\ UNCHANGED <<config, at, since, pointing, scrolling, left, pixels, ghosts>>

-----------------------------------------------------------------------------
(* Three fingers: the drag takes the pointer's fidelity state and          *)
(* remainder over, fresh.  Arming moves nothing and presses nothing; the   *)
(* centroid drag of the earlier profiles presses and moves at once.        *)
GrabDrag(step, dt) ==
    /\ life \in {"Idle", "Candidate", "Committed", "Pair", "Scroll"} /\ life' = "Drag"
    /\ ClearScroll
    /\ IF stable
       THEN ClearPointer /\ Forget /\ Silent /\ at' = Zero /\ since' = 0 /\ left' = FALSE
       ELSE /\ EmitPointer(Unanchored, Zero, <<Zero, Zero, Zero>>, step, step, dt)
            /\ at' = step /\ left' = TRUE
    /\ UNCHANGED <<config, coast>>

DragOn(step, dt) ==
    /\ life = "Drag"
    /\ EmitPointer(fidelity, remainder, ghosts, step, Plus(at, step), since + dt)
    /\ at' = Plus(at, step)
    /\ left' = (left \/ pixels' # Zero)
    /\ UNCHANGED <<config, life, scrolling, coast>>

\* A frame of the drag that moves nothing: a finger is missing.
DragWaits(dt) ==
    /\ life = "Drag" /\ dt > 0 /\ since < LongGap
    /\ since' = since + dt /\ Silent
    /\ UNCHANGED <<config, life, at, pointing, scrolling, coast, left, ghosts>>

EndDrag ==
    /\ life = "Drag" /\ life' = "Idle"
    /\ ClearPointer /\ Forget /\ Silent /\ left' = FALSE
    /\ at' = Zero /\ since' = 0
    /\ UNCHANGED <<config, scrolling, coast>>

-----------------------------------------------------------------------------
Frame(step, dt) ==
    \/ Follow(step, dt) \/ Hesitate(step)
    \/ \E next \in {"Idle", "Candidate"} : Lift(step, dt, next)
    \/ ScrollOn(step, dt) \/ Waver(step)
    \/ GrabDrag(step, dt) \/ DragOn(step, dt)

Next ==
    /\ frames < MaxFrames /\ frames' = frames + 1
    /\ \/ Land \/ Cancel \/ Join \/ Part \/ BeginMomentum \/ EndDrag
       \/ \E dt \in Gaps : DragWaits(dt) \/ TickMomentum(dt)
       \/ \E step \in Steps, dt \in Gaps : Near(Plus(at, step)) /\ Frame(step, dt)

Spec == Init /\ [][Next]_vars

-----------------------------------------------------------------------------
(* Properties.                                                             *)

\* Every millimetre of a committed interaction is in exactly one place: what
\* the stage holds is exactly where the fingers are less where they were at the
\* last release or long gap, and what waits for a velocity sample is exactly how
\* far they went since the last one, whatever the mixture of duplicate
\* timestamps, gaps, holds, replacements and drags (FidelityState, and
\* ScrollFidelityState's pending displacement).
StageTracksFingers ==
    filtered =>
        /\ life \in {"Committed", "Drag"} =>
            /\ fidelity.held = Minus(at, mark)
            /\ fidelity.unsampled = Minus(at, sampled)
        /\ life = "Scroll" => scroll.pending = Minus(at, mark)

\* The pixels sent and the remainder kept add up to the motion that was scaled
\* since the interaction began: no residue of an earlier contact and none lost,
\* though pointer and drag share the fields (remainder_x_px and its kin).
PixelsBalance ==
    /\ life \in {"Candidate", "Committed", "Drag"} => remainder = owed
    /\ life \in {"Pair", "Scroll"} => leftover = owed

\* From the fingers to the pixels, nothing is lost and nothing moves twice.
NothingLost == StageTracksFingers /\ PixelsBalance

\* An armed drag presses the button in the frame of its first movement: never
\* a press without a pixel of motion, nor motion without the button
\* (handle_contacts, ThreeFingerDragAction::Move).
PressComesWithAMove ==
    [][(life' = "Drag" /\ stable) =>
        /\ (~left /\ left') => pixels' # Zero
        /\ pixels' # Zero => left']_vars
=============================================================================

