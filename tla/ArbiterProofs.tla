---------------------------- MODULE ArbiterProofs ----------------------------
EXTENDS GestureArbiter, FiniteSetTheorems, SequenceTheorems, WellFoundedInduction, TLAPS

\* Proofs about the arbiter, and about the arbiter with the upper policies, for
\* every set of contacts and settings.
\*
\* The draft a frame works on is followed through the handlers in the order the
\* code calls them. `Ready` says how the sources of an arbiter at rest between
\* frames agree: the tap with its contact (TapInv), the pair with its members and
\* its scroll (PairInv), the latch with the button (LatchInv). The handlers lead
\* from `Ready` over `Edged` (the buttons), `Mid` (discontinuity, late follow-up)
\* and `Contacted` (fingers) to `Decided`, in which the edge flags account for
\* every source that changed. `FrameDecides` joins them, and OwnersInv is
\* inductive: that gives HoldsHaveOwners without a condition.
\*
\* The second part follows the multiplexer. `Told` is the account of a sequence
\* of events: the wires it leaves, and that every event in it fits. The order of
\* the code is a chain of single events (OrderedForm), each of which keeps the
\* account (FrameIsTold). It asks of the state before the frame only that it is
\* `Sound`, and of the draft that its edges are `Accounted` for, which a decided
\* frame's are. One frame that releases the right and presses the left breaks it,
\* as the run ArbiterSwap shows, so these theorems assume SameFrameSwap = FALSE.
\*
\* The third part puts the three-finger drag and the gestures on top. A drag that
\* holds the left button leaves the policies below at rest but for that button
\* (Held), which is not the tap's; so the account is taken up again from there:
\* `Gripped` after the edges, `Cleared` once a blocking owner has cancelled what
\* is below it, `Accounted` when the drag has pressed or released. `Dragged` and
\* `Gestured` say what one frame makes of the drag and of the gesture with its
\* route, `DragLooked`, `UpperLooked` and `Lowered` of the draft between them, and
\* UpperInv, which holds OwnersInv while no drag holds, is inductive.

\* The phases with a finger of the tap on the pad, and those of a live pair.
Touching == {"FirstTapCandidate", "TapDragCandidate", "TapDragContact",
             "LockedContact"}
Pairing  == {"Candidate", "CommittedScroll"}

\* What the one-finger policy leaves alone; it may only disqualify a pair.
Others(d, e) ==
  /\ e \in StateType
  /\ e.two_phase = d.two_phase /\ e.two_finger_ids = d.two_finger_ids
  /\ e.scroll_open = d.scroll_open
  /\ d.two_tap_disqualified => e.two_tap_disqualified
  /\ e.secondary_tap = d.secondary_tap
  /\ e.scroll_ended = d.scroll_ended /\ e.scroll_began = d.scroll_began
  /\ e.physical_left = d.physical_left
  /\ e.physical_left_raw = d.physical_left_raw
  /\ e.physical_right = d.physical_right
  /\ e.latched_right_owned = d.latched_right_owned
  /\ e.latched_right_down = d.latched_right_down
  /\ e.latched_right_up = d.latched_right_up

\* The pointer contact is the same.
Pointer(d, e) ==
  /\ e.lifecycle = d.lifecycle /\ e.tracking_id = d.tracking_id
  /\ e.tap_disqualified = d.tap_disqualified

\* The synthetic left source is the same, and so are its edges.
Quiet(d, e) ==
  /\ e.synthetic_left = d.synthetic_left
  /\ e.synthetic_down = d.synthetic_down /\ e.synthetic_up = d.synthetic_up

\* The synthetic left source has let go, with an edge if it held the wire.
LetGo(d, e) ==
  /\ ~e.synthetic_left /\ e.synthetic_down = d.synthetic_down
  /\ e.synthetic_up =
       (d.synthetic_up \/ (d.synthetic_left /\ ~d.physical_left))

\* The tap family agrees with the pointer and the physical button.
TapInv(d) ==
  /\ d \in StateType
  /\ (d.tracking_id # None) = Interacting(d)
  /\ d.tap_disqualified => d.tracking_id # None
  /\ d.synthetic_left = (d.tap_phase \notin {"Idle", "FirstTapCandidate"})
  /\ d.tap_phase \in Touching => d.tracking_id # None
  /\ d.physical_left => d.tap_phase = "Idle"
  /\ d.tap_phase = "FollowUpWindow" => config.tap_and_drag_enabled

\* A pair is scrolling or may, and no button is held over it.
PairInv(d) ==
  /\ IsPair(d.two_finger_ids) <=> d.two_phase \in Pairing
  /\ d.two_phase \notin Pairing => d.two_finger_ids = {}
  /\ d.scroll_open = (d.two_phase = "CommittedScroll")
  /\ d.two_phase \in Pairing =>
       /\ config.scroll_enabled \/ config.secondary_tap_enabled
       /\ ~ButtonHeld(d)

\* Nothing is drafted between two decisions.
Drafted(d) ==
  \/ d.synthetic_down \/ d.synthetic_up \/ d.secondary_tap
  \/ d.latched_right_down \/ d.latched_right_up
  \/ d.scroll_ended \/ d.scroll_began

\* A latched press is a press that the left button does not show.
LatchInv(d) ==
  /\ d.latched_right_owned => d.physical_left_raw
  /\ d.physical_left = (d.physical_left_raw /\ ~d.latched_right_owned)

\* What the touches on the pad say of the arbiter between two frames.
PadInv ==
  /\ arbiter.two_phase \in Pairing =>
       arbiter.two_finger_ids = pad /\ arbiter.tap_phase = "Idle"
  /\ arbiter.tap_phase \in Touching => arbiter.tracking_id \in pad
  /\ "pressed" \in cluster /\ pad # {} => arbiter.two_tap_disqualified

OwnersInv ==
  /\ TypeOK /\ ~Drafted(arbiter) /\ LatchInv(arbiter)
  /\ ~regressed => TapInv(arbiter) /\ PairInv(arbiter) /\ PadInv

\* What the synthetic source did in a frame, and what its edges say of it.
LeftAccount(p, d) ==
  \/ d.physical_left
  \/ /\ d.synthetic_up /\ ~d.synthetic_down =>
           p.synthetic_left /\ ~d.synthetic_left
     /\ d.synthetic_down /\ ~d.synthetic_up =>
           ~p.synthetic_left /\ d.synthetic_left
     /\ d.synthetic_up = d.synthetic_down =>
           d.synthetic_left = p.synthetic_left

\* The same before the contacts are looked at: at most one release.
LeftMid(p, d) ==
  /\ LeftAccount(p, d) /\ ~d.synthetic_down
  /\ d.synthetic_up => d.tap_phase = "Idle"

Rest(d, phase) == [TapRests(d) EXCEPT !.tap_phase = phase]

\* The fields of the left wire are Booleans.
LEMMA SyntheticType ==
  ASSUME NEW d \in StateType
  PROVE  /\ d.synthetic_left \in BOOLEAN /\ d.synthetic_down \in BOOLEAN
         /\ d.synthetic_up \in BOOLEAN /\ d.physical_left \in BOOLEAN
  BY DEF StateType

\* Starting the synthetic left touches nothing but that source and its edge.
LEMMA BeginSyntheticFields ==
  ASSUME NEW d \in StateType
  PROVE  LET e == BeginSynthetic(d) IN
         /\ Others(d, e) /\ Pointer(d, e) /\ e.tap_phase = d.tap_phase
         /\ e.synthetic_left /\ e.synthetic_up = d.synthetic_up
         /\ e.drag_committed = d.drag_committed
         /\ e.synthetic_down =
              (d.synthetic_down \/ (~d.synthetic_left /\ ~d.physical_left))
  BY DEF BeginSynthetic, StateType, Others, Pointer

\* Ending the synthetic left lets go of the wire and touches nothing else.
LEMMA EndSyntheticFields ==
  ASSUME NEW d \in StateType
  PROVE  LET e == EndSynthetic(d) IN
         /\ Others(d, e) /\ Pointer(d, e) /\ e.tap_phase = d.tap_phase
         /\ e.drag_committed = d.drag_committed
         /\ LetGo(d, e)
  BY DEF EndSynthetic, StateType, Others, Pointer, LetGo

\* Putting the tap at rest leaves the pair, the buttons and the wire alone.
LEMMA TapRestsFields ==
  ASSUME NEW d \in StateType
  PROVE  LET e == TapRests(d) IN
         /\ Others(d, e) /\ Pointer(d, e) /\ Quiet(d, e)
         /\ e.tap_phase = "Idle"
  BY DEF TapRests, StateType, Others, Pointer, Quiet, Phases

\* So does putting it at rest in a phase that waits for a follow-up.
LEMMA RestFields ==
  ASSUME NEW d \in StateType, NEW phase \in Phases
  PROVE  LET e == Rest(d, phase) IN
         /\ Others(d, e) /\ Pointer(d, e) /\ Quiet(d, e)
         /\ e.tap_phase = phase
  <1> DEFINE r == TapRests(d)
  <1>1. /\ Others(d, r) /\ Pointer(d, r) /\ Quiet(d, r)
    BY TapRestsFields
  <1>2. r \in StateType
    BY <1>1 DEF Others
  <1> HIDE DEF r
  <1>3. LET e == [r EXCEPT !.tap_phase = phase] IN
         /\ Others(r, e) /\ Pointer(r, e) /\ Quiet(r, e)
         /\ e.tap_phase = phase
    BY <1>2 DEF StateType, Others, Pointer, Quiet
  <1> QED BY <1>1, <1>3 DEF Rest, r, Others, Pointer, Quiet

\* So does making the contact a candidate for a tap.
LEMMA TapCandidateFields ==
  ASSUME NEW d \in StateType, NEW phase \in Phases
  PROVE  LET e == TapCandidate(d, phase) IN
         /\ Others(d, e) /\ Pointer(d, e) /\ Quiet(d, e)
         /\ e.tap_phase = phase
  BY DEF TapCandidate, StateType, Others, Pointer, Quiet

\* Ending an interaction forgets the pointer contact and touches nothing else.
LEMMA EndInteractionFields ==
  ASSUME NEW d \in StateType
  PROVE  LET e == EndInteraction(d) IN
         /\ Others(d, e) /\ Quiet(d, e) /\ e.tap_phase = d.tap_phase
         /\ e.lifecycle = "Idle" /\ e.tracking_id = None
         /\ ~e.tap_disqualified
  BY DEF EndInteraction, StateType, Others, Quiet

\* Cancelling the tap policy ends at rest, and lets go unless it was at rest.
LEMMA CancelTapPolicyFields ==
  ASSUME NEW d \in StateType
  PROVE  LET e == CancelTapPolicy(d) IN
         /\ Others(d, e) /\ Pointer(d, e) /\ e.tap_phase = "Idle"
         /\ d.tap_phase = "Idle" => Quiet(d, e)
         /\ d.tap_phase # "Idle" => LetGo(d, e)
  <1>1. CASE d.tap_phase = "Idle"
    BY <1>1 DEF CancelTapPolicy, Others, Pointer, Quiet
  <1>2. CASE d.tap_phase # "Idle"
    <2> DEFINE r == EndSynthetic(d)
    <2>1. Others(d, r) /\ Pointer(d, r) /\ LetGo(d, r)
      BY EndSyntheticFields
    <2>2. r \in StateType
      BY <2>1 DEF Others
    <2>3. CancelTapPolicy(d) = TapRests(r)
      BY <1>2 DEF CancelTapPolicy
    <2> HIDE DEF r
    <2>4. LET e == TapRests(r) IN Others(r, e) /\ Pointer(r, e) /\ Quiet(r, e) /\ e.tap_phase = "Idle"
      BY <2>2, TapRestsFields
    <2> QED BY <1>2, <2>1, <2>3, <2>4 DEF Others, Pointer, Quiet, LetGo
  <1> QED BY <1>1, <1>2

-----------------------------------------------------------------------------
\* The one-finger policy keeps the tap family in order.
LEMMA CommitPointerFields ==
  ASSUME NEW d, TapInv(d), Interacting(d)
  PROVE  LET e == CommitPointer(d) IN
         /\ TapInv(e) /\ Others(d, e) /\ Quiet(d, e) /\ Interacting(e)
         /\ e.tracking_id = d.tracking_id
         /\ d.tap_phase = "Idle" => e.tap_phase = "Idle"
<1> DEFINE m == [d EXCEPT !.lifecycle = "Committed"]
<1>0. d \in StateType /\ d.tap_phase \in Phases
  BY DEF TapInv, StateType
<1>1. /\ Others(d, m) /\ Quiet(d, m) /\ m.tracking_id = d.tracking_id
      /\ m.tap_phase = d.tap_phase /\ m.tap_disqualified = d.tap_disqualified
      /\ m.lifecycle = "Committed"
  BY <1>0 DEF Others, Quiet, StateType
<1>2. m \in StateType
  BY <1>1 DEF Others
<1> HIDE DEF m
<1>3. CASE d.tap_phase = "FirstTapCandidate"
  <2> DEFINE e == TapCandidate(m, "Idle")
  <2>1. /\ Others(m, e) /\ Pointer(m, e) /\ Quiet(m, e) /\ e.tap_phase = "Idle"
    BY <1>2, TapCandidateFields DEF Phases
  <2>2. CommitPointer(d) = e
    BY <1>3 DEF CommitPointer, m
  <2> HIDE DEF e
  <2> QED BY <1>1, <1>3, <2>1, <2>2 DEF TapInv, Others, Pointer, Quiet, Interacting, Touching
<1>4. CASE d.tap_phase = "TapDragCandidate"
  <2> DEFINE t == TapCandidate(m, "TapDragContact")
             e == [t EXCEPT !.drag_committed = TRUE]
  <2>1. /\ Others(m, t) /\ Pointer(m, t) /\ Quiet(m, t) /\ t.tap_phase = "TapDragContact"
    BY <1>2, TapCandidateFields DEF Phases
  <2>2. CommitPointer(d) = e
    BY <1>4 DEF CommitPointer, m
  <2>3. t \in StateType
    BY <2>1 DEF Others
  <2> HIDE DEF t
  <2>4. /\ Others(t, e) /\ Pointer(t, e) /\ Quiet(t, e) /\ e.tap_phase = t.tap_phase
    BY <2>3 DEF Others, Pointer, Quiet, StateType
  <2> HIDE DEF e
  <2> QED BY <1>1, <1>4, <2>1, <2>2, <2>4 DEF TapInv, Others, Pointer, Quiet, Interacting, Touching
<1>5. CASE d.tap_phase \in {"TapDragContact", "LockedContact"}
  <2> DEFINE e == [m EXCEPT !.drag_committed = TRUE]
  <2>2. CommitPointer(d) = e
    BY <1>5 DEF CommitPointer, m
  <2>4. /\ Others(m, e) /\ Pointer(m, e) /\ Quiet(m, e) /\ e.tap_phase = m.tap_phase
    BY <1>2 DEF Others, Pointer, Quiet, StateType
  <2> HIDE DEF e
  <2> QED BY <1>1, <1>5, <2>2, <2>4 DEF TapInv, Others, Pointer, Quiet, Interacting, Touching
<1>6. CASE d.tap_phase \notin Touching
  <2>1. CommitPointer(d) = m
    BY <1>6 DEF CommitPointer, m, Touching
  <2> QED BY <1>1, <1>6, <2>1 DEF TapInv, Others, Quiet, Interacting
<1> QED BY <1>3, <1>4, <1>5, <1>6 DEF Touching

\* A displacement may disqualify the tap; the family still agrees.
LEMMA NoteDisplacementFields ==
  ASSUME NEW d, NEW f, TapInv(d), f.strayed \in BOOLEAN
  PROVE  LET e == NoteDisplacement(d, f) IN
         /\ TapInv(e) /\ Others(d, e) /\ Quiet(d, e) /\ Pointer(d, e)
         /\ e.tap_phase = d.tap_phase
<1> DEFINE e == [d EXCEPT !.tap_strayed = @ \/ f.strayed]
<1>0. d \in StateType
  BY DEF TapInv
<1>1. Others(d, e) /\ Quiet(d, e) /\ Pointer(d, e) /\ e.tap_phase = d.tap_phase
  BY <1>0 DEF Others, Quiet, Pointer, StateType
<1>2. Others(d, d) /\ Quiet(d, d) /\ Pointer(d, d)
  BY <1>0 DEF Others, Quiet, Pointer
<1>3. NoteDisplacement(d, f) \in {d, e}
  BY DEF NoteDisplacement
<1> HIDE DEF e
<1> QED BY <1>1, <1>2, <1>3 DEF TapInv, Others, Quiet, Pointer, Interacting

\* A contact that begins takes up what the tap family was waiting for.
LEMMA BeginTapFamilyFields ==
  ASSUME NEW d \in StateType, d.tap_phase \notin Touching,
         d.tap_disqualified => d.tap_phase = "Idle",
         d.synthetic_left = (d.tap_phase # "Idle"),
         d.physical_left => d.tap_phase = "Idle",
         d.tap_phase = "FollowUpWindow" => config.tap_and_drag_enabled
  PROVE  LET e == BeginTapFamily(d) IN
         /\ Others(d, e) /\ Quiet(d, e) /\ Pointer(d, e)
         /\ e.tap_phase \in Touching \cup {"Idle"}
         /\ e.synthetic_left = (e.tap_phase \notin {"Idle", "FirstTapCandidate"})
         /\ e.physical_left => e.tap_phase = "Idle"
<1>1. CASE d.tap_disqualified
  BY <1>1, TapRestsFields DEF BeginTapFamily, Others, Quiet, Pointer
<1>2. CASE ~d.tap_disqualified /\ d.tap_phase \in {"FollowUpWindow", "LockedWithoutContact"}
  <2> DEFINE phase == IF d.tap_phase = "FollowUpWindow" THEN "TapDragCandidate" ELSE "LockedContact"
             t == TapCandidate(d, phase)
             e == [t EXCEPT !.drag_committed = FALSE]
  <2>1. /\ Others(d, t) /\ Pointer(d, t) /\ Quiet(d, t) /\ t.tap_phase = phase
    BY TapCandidateFields DEF Phases
  <2>2. BeginTapFamily(d) = e
    BY <1>2 DEF BeginTapFamily
  <2>3. t \in StateType
    BY <2>1 DEF Others
  <2> HIDE DEF t
  <2>4. /\ Others(t, e) /\ Pointer(t, e) /\ Quiet(t, e) /\ e.tap_phase = t.tap_phase
    BY <2>3 DEF Others, Pointer, Quiet, StateType
  <2> HIDE DEF e
  <2> QED BY <1>2, <2>1, <2>2, <2>4 DEF Others, Pointer, Quiet, Touching
<1>3. CASE ~d.tap_disqualified /\ d.tap_phase = "Idle"
  <2> DEFINE phase == IF config.tap_enabled /\ ~d.physical_left
                      THEN "FirstTapCandidate" ELSE "Idle"
             e == TapCandidate(d, phase)
  <2>1. /\ Others(d, e) /\ Pointer(d, e) /\ Quiet(d, e) /\ e.tap_phase = phase
    BY TapCandidateFields DEF Phases
  <2>2. BeginTapFamily(d) = e
    BY <1>3 DEF BeginTapFamily
  <2> HIDE DEF e
  <2> QED BY <1>3, <2>1, <2>2 DEF Others, Pointer, Quiet, Touching
<1> QED BY <1>1, <1>2, <1>3 DEF StateType, Phases, Touching

\* A first contact opens an interaction, and a tap phase only of that contact.
LEMMA BeginContactFields ==
  ASSUME NEW d, NEW f, NEW i \in Ids, TapInv(d), ~Interacting(d),
         f.discontinuity \in BOOLEAN, f.discontinuity => d.tap_phase = "Idle"
  PROVE  LET e == BeginContact(d, f, i) IN
         /\ TapInv(e) /\ Others(d, e) /\ Quiet(d, e)
         /\ e.tap_phase \in Touching => e.tracking_id = i
<1>0. d \in StateType /\ d.tracking_id = None /\ ~d.tap_disqualified
      /\ d.tap_phase \notin Touching /\ i # None
  BY ArbiterAssumption DEF TapInv, ArbiterAssumption
<1>1. CASE i \in f.incomplete
  <2>1. BeginContact(d, f, i) = d
    BY <1>1 DEF BeginContact
  <2> QED BY <1>0, <2>1 DEF Others, Quiet
<1>2. CASE i \notin f.incomplete
  <2> DEFINE c == [d EXCEPT !.tap_disqualified = @ \/ f.discontinuity]
             b == BeginTapFamily(c)
             e == [b EXCEPT !.lifecycle = "Candidate", !.tracking_id = i]
  <2>1. /\ Others(d, c) /\ Quiet(d, c) /\ c.tap_phase = d.tap_phase
        /\ c.tap_disqualified = f.discontinuity
    BY <1>0 DEF Others, Quiet, StateType
  <2>2. c \in StateType
    BY <2>1 DEF Others
  <2>3. BeginContact(d, f, i) = e
    BY <1>2 DEF BeginContact
  <2> HIDE DEF c
  <2>4. /\ c.tap_phase \notin Touching
        /\ c.tap_disqualified => c.tap_phase = "Idle"
        /\ c.synthetic_left = (c.tap_phase # "Idle")
        /\ c.physical_left => c.tap_phase = "Idle"
        /\ c.tap_phase = "FollowUpWindow" => config.tap_and_drag_enabled
    BY <1>0, <2>1 DEF TapInv, Others, Quiet, Touching
  <2>5. /\ Others(c, b) /\ Quiet(c, b) /\ Pointer(c, b)
        /\ b.tap_phase \in Touching \cup {"Idle"}
        /\ b.synthetic_left = (b.tap_phase \notin {"Idle", "FirstTapCandidate"})
        /\ b.physical_left => b.tap_phase = "Idle"
    BY <2>2, <2>4, BeginTapFamilyFields
  <2>6. b \in StateType
    BY <2>5 DEF Others
  <2> HIDE DEF b
  <2>7. /\ Others(b, e) /\ Quiet(b, e) /\ e.tap_phase = b.tap_phase
        /\ e.tracking_id = i /\ e.lifecycle = "Candidate"
    BY <2>6 DEF Others, Quiet, StateType
  <2>8. e \in StateType
    BY <2>7 DEF Others
  <2> HIDE DEF e
  <2>9. TapInv(e)
    <3>1. (e.tracking_id # None) = Interacting(e)
      BY <1>0, <2>7 DEF Interacting
    <3>2. e.synthetic_left = (e.tap_phase \notin {"Idle", "FirstTapCandidate"})
      BY <2>5, <2>7 DEF Quiet
    <3> QED BY <1>0, <2>5, <2>7, <2>8, <3>1, <3>2 DEF TapInv, Others, Touching
  <2> QED BY <2>1, <2>3, <2>5, <2>7, <2>9 DEF Others, Quiet
<1> QED BY <1>1, <1>2

\* Letting go and coming to rest, in the order the policy does them.
LEMMA LetGoRests ==
  ASSUME NEW d \in StateType
  PROVE  LET e == TapRests(EndSynthetic(d)) IN
         /\ Others(d, e) /\ Pointer(d, e) /\ LetGo(d, e)
         /\ e.tap_phase = "Idle"
<1> DEFINE r == EndSynthetic(d)
<1>1. Others(d, r) /\ Pointer(d, r) /\ LetGo(d, r)
  BY EndSyntheticFields
<1>2. r \in StateType
  BY <1>1 DEF Others
<1> HIDE DEF r
<1>3. LET e == TapRests(r) IN
      Others(r, e) /\ Pointer(r, e) /\ Quiet(r, e) /\ e.tap_phase = "Idle"
  BY <1>2, TapRestsFields
<1> QED BY <1>1, <1>3 DEF Others, Pointer, Quiet, LetGo, r

\* After a cancellation the family agrees, the left edges still account for
\* the wire, and no synthetic press is left.
LEMMA CancelTapPolicyHolds ==
  ASSUME NEW d \in StateType, NEW p \in StateType,
         (d.tracking_id # None) = Interacting(d),
         d.tap_disqualified => d.tracking_id # None,
         d.synthetic_left = (d.tap_phase \notin {"Idle", "FirstTapCandidate"}),
         LeftMid(p, d)
  PROVE  LET e == CancelTapPolicy(d) IN
         /\ TapInv(e) /\ Others(d, e) /\ LeftMid(p, e) /\ Pointer(d, e)
         /\ e.tap_phase = "Idle" /\ ~e.synthetic_left
<1> DEFINE e == CancelTapPolicy(d)
<1>1. /\ Others(d, e) /\ Pointer(d, e) /\ e.tap_phase = "Idle"
      /\ d.tap_phase = "Idle" => Quiet(d, e)
      /\ d.tap_phase # "Idle" => LetGo(d, e)
  BY CancelTapPolicyFields
<1> HIDE DEF e
<1>2. ~e.synthetic_left
  BY <1>1 DEF Quiet, LetGo
<1>3. TapInv(e)
  BY <1>1, <1>2, SyntheticType DEF TapInv, Others, Pointer, Interacting, Touching
<1>4. LeftMid(p, e)
  BY <1>1, <1>2 DEF LeftMid, LeftAccount, Quiet, LetGo, Others, StateType
<1> QED BY <1>1, <1>2, <1>3, <1>4 DEF e

\* A pointer that is given up takes the tap family with it.
LEMMA GiveUpHolds ==
  ASSUME NEW d, TapInv(d), NEW p \in StateType, LeftMid(p, d)
  PROVE  LET e == CancelTapPolicy(EndInteraction(d)) IN
         /\ TapInv(e) /\ Others(d, e) /\ LeftMid(p, e)
         /\ e.tap_phase = "Idle" /\ ~e.synthetic_left
         /\ e.tracking_id = None
<1> DEFINE r == EndInteraction(d)
<1>0. d \in StateType
  BY DEF TapInv
<1>1. /\ Others(d, r) /\ Quiet(d, r) /\ r.tap_phase = d.tap_phase
      /\ r.lifecycle = "Idle" /\ r.tracking_id = None /\ ~r.tap_disqualified
  BY <1>0, EndInteractionFields
<1> HIDE DEF r
<1>2. /\ r \in StateType /\ (r.tracking_id # None) = Interacting(r)
      /\ r.tap_disqualified => r.tracking_id # None
      /\ r.synthetic_left = (r.tap_phase \notin {"Idle", "FirstTapCandidate"})
  BY <1>1 DEF Others, Interacting, TapInv, Quiet
<1>3. LeftMid(p, r)
  BY <1>1 DEF LeftMid, LeftAccount, Quiet, Others
<1>4. LET e == CancelTapPolicy(r) IN
      /\ TapInv(e) /\ Others(r, e) /\ LeftMid(p, e) /\ Pointer(r, e)
      /\ e.tap_phase = "Idle" /\ ~e.synthetic_left
  BY <1>2, <1>3, CancelTapPolicyHolds
<1> QED BY <1>1, <1>4 DEF r, Others, Pointer

\* A release leaves no touching phase, and its edges tell what it did.
LEMMA ResolveReleaseHolds ==
  ASSUME NEW d0, NEW f, TapInv(d0), NEW p \in StateType, LeftMid(p, d0),
         f.strayed \in BOOLEAN
  PROVE  LET e == ResolveRelease(d0, f) IN
         /\ TapInv(e) /\ Others(d0, e) /\ Pointer(d0, e)
         /\ LeftAccount(p, e) /\ e.tap_phase \notin Touching
         /\ d0.tap_phase = "Idle" => Quiet(d0, e) /\ e.tap_phase = "Idle"
<1> DEFINE clean == d0.tracking_id \in EndedComplete(f)
           d == IF clean /\ d0.tap_phase # "Idle"
                THEN [d0 EXCEPT !.tap_strayed = @ \/ f.strayed] ELSE d0
           tap == clean /\ config.tap_enabled /\ TapQualifies(d, f)
           e == ResolveRelease(d0, f)
<1>0. d0 \in StateType
  BY DEF TapInv
<1>1. d \in StateType /\ Others(d0, d) /\ Pointer(d0, d) /\ Quiet(d0, d) /\ d.tap_phase = d0.tap_phase
  BY <1>0 DEF Others, Pointer, Quiet, StateType
<1>2. e = (CASE d.tap_phase = "FirstTapCandidate" ->
            IF ~tap THEN TapRests(d)
            ELSE IF config.tap_and_drag_enabled
                 THEN Rest(BeginSynthetic(d), "FollowUpWindow")
                 ELSE TapRests(EndSynthetic(BeginSynthetic(d)))
       [] d.tap_phase = "TapDragCandidate" ->
            IF tap /\ config.tap_and_drag_enabled
            THEN Rest(BeginSynthetic(EndSynthetic(d)), "FollowUpWindow")
            ELSE TapRests(EndSynthetic(d))
       [] d.tap_phase = "TapDragContact" ->
            IF d.drag_committed /\ config.drag_lock_enabled
            THEN Rest(d, "LockedWithoutContact")
            ELSE TapRests(EndSynthetic(d))
       [] d.tap_phase = "LockedContact" ->
            IF ~d.drag_committed /\ tap THEN TapRests(EndSynthetic(d))
                                        ELSE Rest(d, "LockedWithoutContact")
       [] OTHER -> d)
  BY DEF ResolveRelease, Rest
<1>3. TapInv(d) /\ LeftMid(p, d)
  BY <1>1 DEF TapInv, LeftMid, LeftAccount, Others, Pointer, Quiet, Interacting
<1> HIDE DEF d, tap, e, clean
<1> SUFFICES /\ TapInv(e) /\ Others(d, e) /\ Pointer(d, e)
             /\ LeftAccount(p, e) /\ e.tap_phase \notin Touching
             /\ d.tap_phase = "Idle" => Quiet(d, e) /\ e.tap_phase = "Idle"
  BY <1>1 DEF e, Others, Pointer, Quiet
<1> DEFINE lets == TapRests(EndSynthetic(d))
<1>4. /\ Others(d, lets) /\ Pointer(d, lets) /\ LetGo(d, lets)
      /\ lets.tap_phase = "Idle"
  BY <1>1, LetGoRests
<1> DEFINE rests == TapRests(d)
<1>5. /\ Others(d, rests) /\ Pointer(d, rests) /\ Quiet(d, rests)
      /\ rests.tap_phase = "Idle"
  BY <1>1, TapRestsFields
<1> DEFINE locks == Rest(d, "LockedWithoutContact")
<1>6. /\ Others(d, locks) /\ Pointer(d, locks) /\ Quiet(d, locks)
      /\ locks.tap_phase = "LockedWithoutContact"
  BY <1>1, RestFields DEF Phases
<1> DEFINE ends == EndSynthetic(d)
<1>7. /\ Others(d, ends) /\ Pointer(d, ends) /\ LetGo(d, ends)
      /\ ends \in StateType
  BY <1>1, EndSyntheticFields DEF Others
<1> DEFINE begins == BeginSynthetic(d)
<1>8. /\ Others(d, begins) /\ Pointer(d, begins) /\ begins.synthetic_left
      /\ begins.synthetic_up = d.synthetic_up
      /\ begins.synthetic_down =
            (d.synthetic_down \/ (~d.synthetic_left /\ ~d.physical_left))
      /\ begins \in StateType
  BY <1>1, BeginSyntheticFields DEF Others
<1> DEFINE follows == Rest(begins, "FollowUpWindow")
           clicks == TapRests(EndSynthetic(begins))
           again == BeginSynthetic(ends)
           refollows == Rest(again, "FollowUpWindow")
<1> HIDE DEF begins, ends
<1>9. /\ Others(begins, follows) /\ Pointer(begins, follows)
      /\ Quiet(begins, follows) /\ follows.tap_phase = "FollowUpWindow"
  BY <1>8, RestFields DEF Phases
<1>10. /\ Others(begins, clicks) /\ Pointer(begins, clicks)
       /\ LetGo(begins, clicks) /\ clicks.tap_phase = "Idle"
  BY <1>8, LetGoRests
<1>11. /\ Others(ends, again) /\ Pointer(ends, again) /\ again.synthetic_left
       /\ again.synthetic_up = ends.synthetic_up
       /\ again.synthetic_down =
            (ends.synthetic_down \/ (~ends.synthetic_left /\ ~ends.physical_left))
       /\ again \in StateType
  BY <1>7, BeginSyntheticFields DEF Others
<1> HIDE DEF again
<1>12. /\ Others(again, refollows) /\ Pointer(again, refollows)
       /\ Quiet(again, refollows) /\ refollows.tap_phase = "FollowUpWindow"
  BY <1>11, RestFields DEF Phases
<1>13. /\ Others(d, d) /\ Pointer(d, d) /\ Quiet(d, d)
  BY <1>1 DEF Others, Pointer, Quiet
<1> HIDE DEF lets, rests, locks, follows, clicks, refollows
<1>14. CASE d.tap_phase = "FirstTapCandidate" /\ e = rests
  BY <1>3, <1>5, <1>14 DEF TapInv, LeftMid, LeftAccount, Others, Pointer, Quiet, Interacting, Touching
<1>15. CASE d.tap_phase = "FirstTapCandidate" /\ config.tap_and_drag_enabled /\ e = follows
  <2>1. ~d.physical_left /\ ~d.synthetic_left /\ ~d.synthetic_up /\ ~d.synthetic_down /\ ~p.synthetic_left
    BY <1>1, <1>3, <1>15, SyntheticType DEF TapInv, LeftMid, LeftAccount
  <2>2. e.synthetic_left /\ e.synthetic_down /\ ~e.synthetic_up /\ ~e.physical_left
    BY <2>1, <1>8, <1>9, <1>15, SyntheticType DEF Others, Quiet
  <2>3. Others(d, e) /\ Pointer(d, e) /\ e.tap_phase = "FollowUpWindow"
    BY <1>8, <1>9, <1>15 DEF Others, Pointer
  <2>4. TapInv(e)
    BY <1>3, <1>15, <2>2, <2>3, SyntheticType DEF TapInv, Others, Pointer, Interacting, Touching
  <2> QED BY <1>15, <2>1, <2>2, <2>3, <2>4 DEF LeftAccount, Touching
<1>16. CASE d.tap_phase = "FirstTapCandidate" /\ e = clicks
  BY <1>3, <1>8, <1>10, <1>16, SyntheticType
    DEF TapInv, LeftMid, LeftAccount, Others, Pointer, LetGo, Interacting, Touching
<1>17. CASE d.tap_phase = "TapDragCandidate" /\ config.tap_and_drag_enabled /\ e = refollows
  <2>1. ~d.physical_left /\ d.synthetic_left /\ ~d.synthetic_up /\ ~d.synthetic_down /\ p.synthetic_left
    BY <1>1, <1>3, <1>17, SyntheticType DEF TapInv, LeftMid, LeftAccount
  <2>2. ~ends.synthetic_left /\ ends.synthetic_up /\ ~ends.physical_left
    BY <2>1, <1>7, SyntheticType DEF Others, LetGo
  <2>3. e.synthetic_left /\ e.synthetic_down /\ e.synthetic_up /\ ~e.physical_left
    BY <2>2, <1>11, <1>12, <1>17, SyntheticType DEF Others, Quiet
  <2>4. Others(d, e) /\ Pointer(d, e) /\ e.tap_phase = "FollowUpWindow"
    BY <1>7, <1>11, <1>12, <1>17 DEF Others, Pointer
  <2>5. TapInv(e)
    BY <1>3, <1>17, <2>3, <2>4, SyntheticType DEF TapInv, Others, Pointer, Interacting, Touching
  <2>6. e.synthetic_left = p.synthetic_left
    BY <2>1, <2>3, <2>4, SyntheticType DEF Others
  <2> QED BY <1>17, <2>1, <2>3, <2>4, <2>5, <2>6 DEF LeftAccount, Touching
<1>18. CASE d.tap_phase \in Touching \ {"FirstTapCandidate"} /\ e = lets
  BY <1>3, <1>4, <1>18, SyntheticType
    DEF TapInv, LeftMid, LeftAccount, Others, Pointer, LetGo, Interacting, Touching
<1>19. CASE d.tap_phase \in {"TapDragContact", "LockedContact"} /\ e = locks
  BY <1>3, <1>6, <1>19 DEF TapInv, LeftMid, LeftAccount, Others, Pointer, Quiet, Interacting, Touching
<1>20. CASE d.tap_phase \notin Touching /\ e = d
  BY <1>3, <1>13, <1>20 DEF TapInv, LeftMid
<1>21. CASE d.tap_phase \notin Touching
  BY <1>2, <1>20, <1>21 DEF Touching
<1>22. CASE d.tap_phase = "FirstTapCandidate"
  BY <1>2, <1>14, <1>15, <1>16, <1>22 DEF rests, follows, clicks, begins
<1>23. CASE d.tap_phase = "TapDragCandidate"
  BY <1>2, <1>17, <1>18, <1>23 DEF lets, refollows, again, ends, Touching
<1>24. CASE d.tap_phase = "TapDragContact"
  BY <1>2, <1>18, <1>19, <1>24 DEF lets, locks, Touching
<1>25. CASE d.tap_phase = "LockedContact"
  BY <1>2, <1>18, <1>19, <1>25 DEF lets, locks, Touching
<1> QED BY <1>21, <1>22, <1>23, <1>24, <1>25 DEF Touching

\* A contact replaced by another ends its interaction: a drag it held is let
\* go of or waits, and nothing goes on touching.
LEMMA ResolveReplacementHolds ==
  ASSUME NEW d, TapInv(d), NEW p \in StateType, LeftMid(p, d)
  PROVE  LET e == ResolveReplacement(d) IN
         /\ TapInv(e) /\ Others(d, e) /\ Pointer(d, e) /\ LeftMid(p, e)
         /\ e.tap_phase \notin Touching
         /\ d.tap_phase = "Idle" => e.tap_phase = "Idle"
<1> DEFINE e == ResolveReplacement(d)
           rests == TapRests(d)
           lets == TapRests(EndSynthetic(d))
           locks == Rest(d, "LockedWithoutContact")
<1>0. d \in StateType
  BY DEF TapInv
<1>1. Others(d, rests) /\ Pointer(d, rests) /\ Quiet(d, rests) /\ rests.tap_phase = "Idle"
  BY <1>0, TapRestsFields
<1>2. Others(d, lets) /\ Pointer(d, lets) /\ LetGo(d, lets) /\ lets.tap_phase = "Idle"
  BY <1>0, LetGoRests
<1>3. Others(d, locks) /\ Pointer(d, locks) /\ Quiet(d, locks) /\ locks.tap_phase = "LockedWithoutContact"
  BY <1>0, RestFields DEF Phases
<1>4. Others(d, d) /\ Pointer(d, d) /\ Quiet(d, d)
  BY <1>0 DEF Others, Pointer, Quiet
<1>5. CASE d.tap_phase = "FirstTapCandidate"
  <2>1. e = rests
    BY <1>5 DEF ResolveReplacement
  <2> HIDE DEF e, rests
  <2> QED BY <1>1, <1>5, <2>1, SyntheticType DEF e, TapInv, LeftMid, LeftAccount, Others, Pointer, Quiet, Interacting, Touching
<1>6. CASE d.tap_phase \in Touching \ {"FirstTapCandidate"} /\ e = lets
  <2> HIDE DEF e, lets
  <2> QED BY <1>2, <1>6, SyntheticType DEF e, TapInv, LeftMid, LeftAccount, Others, Pointer, LetGo, Interacting, Touching
<1>7. CASE d.tap_phase \in {"TapDragContact", "LockedContact"} /\ e = locks
  <2> HIDE DEF e, locks
  <2> QED BY <1>3, <1>7, SyntheticType DEF e, TapInv, LeftMid, LeftAccount, Others, Pointer, Quiet, Interacting, Touching
<1>8. CASE d.tap_phase \notin Touching
  <2>1. e = d
    BY <1>8 DEF ResolveReplacement, Touching
  <2> QED BY <1>4, <1>8, <2>1
<1>9. CASE d.tap_phase \in Touching \ {"FirstTapCandidate"}
  <2>1. e = lets \/ (d.tap_phase \in {"TapDragContact", "LockedContact"} /\ e = locks)
    BY <1>9 DEF ResolveReplacement, Rest, Touching
  <2> QED BY <1>6, <1>7, <1>9, <2>1
<1> QED BY <1>5, <1>8, <1>9

\* What the contacts of a frame make of the tap family.
Contacted(p, d, e, f) ==
  /\ TapInv(e) /\ Others(d, e) /\ LeftAccount(p, e)
  /\ d.tap_phase = "Idle" => ~e.synthetic_left /\ ~e.synthetic_down
  /\ e.synthetic_down => Live(f) = {}
  /\ e.tap_phase \in Touching => e.tracking_id \in Live(f)

\* The pad is empty: the contact ends as a tap, a drag or nothing.
LEMMA NoFingerHolds ==
  ASSUME NEW d, NEW f, TapInv(d), NEW p \in StateType, LeftMid(p, d),
         f.strayed \in BOOLEAN, Live(f) = {}
  PROVE  Contacted(p, d, NoFinger(d, f), f)
<1>0. d \in StateType
  BY DEF TapInv
<1>1. CASE ~Interacting(d)
  <2>1. NoFinger(d, f) = d
    BY <1>1 DEF NoFinger
  <2> QED BY <1>0, <1>1, <2>1 DEF Contacted, TapInv, LeftMid, Others
<1>2. CASE Interacting(d)
  <2> DEFINE last == IF /\ d.lifecycle = "Candidate" /\ f.crossed
                        /\ d.tracking_id \in EndedComplete(f)
                     THEN CommitPointer(d) ELSE d
             r == ResolveRelease(last, f)
             e == EndInteraction(r)
  <2>1. /\ TapInv(last) /\ Others(d, last) /\ Quiet(d, last)
        /\ d.tap_phase = "Idle" => last.tap_phase = "Idle"
    <3>1. Others(d, d) /\ Quiet(d, d)
      BY <1>0 DEF Others, Quiet
    <3> QED BY <1>2, <3>1, CommitPointerFields
  <2>2. NoFinger(d, f) = e
    BY <1>2 DEF NoFinger
  <2> HIDE DEF last
  <2>3. LeftMid(p, last)
    BY <2>1 DEF LeftMid, LeftAccount, Quiet, Others
  <2>4. /\ TapInv(r) /\ Others(last, r) /\ Pointer(last, r)
        /\ LeftAccount(p, r) /\ r.tap_phase \notin Touching
        /\ last.tap_phase = "Idle" => Quiet(last, r) /\ r.tap_phase = "Idle"
    BY <2>1, <2>3, ResolveReleaseHolds
  <2> HIDE DEF r
  <2>5. /\ Others(r, e) /\ Quiet(r, e) /\ e.tap_phase = r.tap_phase
        /\ e.lifecycle = "Idle" /\ e.tracking_id = None
        /\ ~e.tap_disqualified
    BY <2>4, EndInteractionFields DEF TapInv
  <2> HIDE DEF e
  <2>6. TapInv(e)
    BY <2>4, <2>5 DEF TapInv, Others, Quiet, Interacting
  <2>7. LeftAccount(p, e)
    BY <2>4, <2>5 DEF LeftAccount, Others, Quiet
  <2>8. Others(d, e)
    BY <2>1, <2>4, <2>5 DEF Others
  <2>9. d.tap_phase = "Idle" => ~e.synthetic_left /\ ~e.synthetic_down
    BY <2>1, <2>3, <2>4, <2>5, <2>6 DEF Quiet, LeftMid, TapInv
  <2> QED BY <2>2, <2>4, <2>5, <2>6, <2>7, <2>8, <2>9 DEF Contacted
<1> QED BY <1>1, <1>2

\* One finger: the contact begins, goes on, or takes the place of another.
LEMMA OneFingerHolds ==
  ASSUME NEW d, NEW f, TapInv(d), NEW p \in StateType, LeftMid(p, d),
         f.strayed \in BOOLEAN, f.discontinuity \in BOOLEAN,
         f.discontinuity => d.tap_phase = "Idle",
         NEW i \in Ids, Live(f) = {i}
  PROVE  Contacted(p, d, OneFinger(d, f), f)
<1> DEFINE e == OneFinger(d, f)
<1>0. d \in StateType /\ Others(d, d) /\ Alone(f) = i
  BY DEF TapInv, Others, Alone
<1>1. CASE ~Interacting(d) /\ f.contact[i] = "Began"
  <2>1. e = BeginContact(d, f, i)
    BY <1>0, <1>1 DEF OneFinger
  <2>2. /\ TapInv(e) /\ Others(d, e) /\ Quiet(d, e)
        /\ e.tap_phase \in Touching => e.tracking_id = i
    BY <1>1, <2>1, BeginContactFields
  <2> HIDE DEF e
  <2>3. LeftAccount(p, e) /\ ~e.synthetic_down
        /\ (d.tap_phase = "Idle" => ~e.synthetic_left)
    BY <2>2 DEF LeftMid, LeftAccount, Quiet, Others, TapInv
  <2> QED BY <2>2, <2>3 DEF Contacted, e
<1>2. CASE /\ ~Interacting(d) /\ f.contact[i] # "Began"
           /\ d.tap_phase = "LockedWithoutContact" /\ i \in f.incomplete
  <2>1. e = CancelTapPolicy(d)
    BY <1>0, <1>2 DEF OneFinger
  <2>2. /\ TapInv(e) /\ Others(d, e) /\ LeftMid(p, e)
        /\ e.tap_phase = "Idle" /\ ~e.synthetic_left
    BY <2>1, CancelTapPolicyHolds DEF TapInv
  <2> HIDE DEF e
  <2> QED BY <2>2 DEF Contacted, LeftMid, Touching, e
<1>3. CASE ~Interacting(d) /\ e = d
  BY <1>0, <1>3 DEF Contacted, LeftMid, TapInv
<1>4. CASE e = CancelTapPolicy(EndInteraction(d))
  <2>2. /\ TapInv(e) /\ Others(d, e) /\ LeftMid(p, e)
        /\ e.tap_phase = "Idle" /\ ~e.synthetic_left
    BY <1>4, GiveUpHolds
  <2> HIDE DEF e
  <2> QED BY <2>2 DEF Contacted, LeftMid, Touching, e
<1>5. CASE Interacting(d) /\ i = d.tracking_id /\ e = d
  BY <1>0, <1>5 DEF Contacted, LeftMid, TapInv
<1>6. CASE Interacting(d) /\ i = d.tracking_id /\ e \in {CommitPointer(NoteDisplacement(d, f)), NoteDisplacement(d, f)}
  <2> DEFINE n == NoteDisplacement(d, f)
  <2>1. /\ TapInv(n) /\ Others(d, n) /\ Quiet(d, n) /\ Pointer(d, n)
        /\ n.tap_phase = d.tap_phase
    BY NoteDisplacementFields
  <2>2. e = n \/ e = CommitPointer(n)
    BY <1>6
  <2> HIDE DEF n, e
  <2>3. Interacting(n) /\ n \in StateType
    BY <1>6, <2>1 DEF Pointer, Interacting, Others
  <2>4. /\ TapInv(e) /\ Others(n, e) /\ Quiet(n, e)
        /\ e.tracking_id = n.tracking_id
        /\ n.tap_phase = "Idle" => e.tap_phase = "Idle"
    <3>1. Others(n, n) /\ Quiet(n, n)
      BY <2>3 DEF Others, Quiet
    <3> QED BY <2>1, <2>2, <2>3, <3>1, CommitPointerFields
  <2>5. LeftAccount(p, e) /\ ~e.synthetic_down
        /\ (d.tap_phase = "Idle" => ~e.synthetic_left)
    BY <2>1, <2>4 DEF LeftMid, LeftAccount, Quiet, Others, TapInv
  <2>6. Others(d, e)
    BY <2>1, <2>4 DEF Others
  <2> QED BY <1>6, <2>1, <2>4, <2>5, <2>6 DEF Contacted, Pointer, e
<1>7. CASE Interacting(d) /\ i # d.tracking_id /\ f.contact[i] = "Began"
  <2> DEFINE r == ResolveReplacement(d)
             g == EndInteraction(r)
  <2>1. e = BeginContact(g, f, i)
    BY <1>0, <1>7 DEF OneFinger
  <2>2. /\ TapInv(r) /\ Others(d, r) /\ Pointer(d, r) /\ LeftMid(p, r)
        /\ r.tap_phase \notin Touching
        /\ d.tap_phase = "Idle" => r.tap_phase = "Idle"
    BY ResolveReplacementHolds
  <2> HIDE DEF r
  <2>3. /\ Others(r, g) /\ Quiet(r, g) /\ g.tap_phase = r.tap_phase
        /\ g.lifecycle = "Idle" /\ g.tracking_id = None
        /\ ~g.tap_disqualified
    BY <2>2, EndInteractionFields DEF TapInv
  <2> HIDE DEF g
  <2>4. TapInv(g) /\ ~Interacting(g) /\ LeftMid(p, g)
        /\ (f.discontinuity => g.tap_phase = "Idle")
    BY <2>2, <2>3 DEF TapInv, Others, Quiet, Interacting, LeftMid, LeftAccount
  <2>5. /\ TapInv(e) /\ Others(g, e) /\ Quiet(g, e)
        /\ e.tap_phase \in Touching => e.tracking_id = i
    BY <2>1, <2>4, BeginContactFields
  <2> HIDE DEF e
  <2>6. LeftAccount(p, e) /\ ~e.synthetic_down
        /\ (d.tap_phase = "Idle" => ~e.synthetic_left)
    BY <2>2, <2>3, <2>4, <2>5 DEF LeftMid, LeftAccount, Quiet, Others, TapInv
  <2>7. Others(d, e)
    BY <2>2, <2>3, <2>5 DEF Others
  <2> QED BY <2>5, <2>6, <2>7 DEF Contacted, e
<1>8. CASE ~Interacting(d)
  <2>1. \/ f.contact[i] = "Began" \/ e = d
        \/ d.tap_phase = "LockedWithoutContact" /\ i \in f.incomplete
    BY <1>0, <1>8 DEF OneFinger
  <2> QED BY <1>1, <1>2, <1>3, <1>8, <2>1
<1>9. CASE Interacting(d) /\ i = d.tracking_id
  <2>1. \/ e = CancelTapPolicy(EndInteraction(d)) \/ e = d
        \/ e \in {CommitPointer(NoteDisplacement(d, f)), NoteDisplacement(d, f)}
    BY <1>0, <1>9 DEF OneFinger
  <2> QED BY <1>4, <1>5, <1>6, <1>9, <2>1
<1>10. CASE Interacting(d) /\ i # d.tracking_id
  <2>1. \/ e = CancelTapPolicy(EndInteraction(d)) \/ f.contact[i] = "Began"
    BY <1>0, <1>10 DEF OneFinger
  <2> QED BY <1>4, <1>7, <1>10, <2>1
<1> QED BY <1>8, <1>9, <1>10

\* Several fingers: the one-finger policy is cancelled.
LEMMA SeveralFingersHolds ==
  ASSUME NEW d, NEW f, TapInv(d), NEW p \in StateType, LeftMid(p, d)
  PROVE  LET e == SeveralFingers(d) IN
         /\ Contacted(p, d, e, f)
         /\ e.tap_phase = "Idle" /\ e.tracking_id = None
<1>1. CASE ~Interacting(d)
  <2> DEFINE e == CancelTapPolicy(d)
  <2>1. /\ TapInv(e) /\ Others(d, e) /\ LeftMid(p, e)
        /\ e.tap_phase = "Idle" /\ ~e.synthetic_left
        /\ e.tracking_id = None
    BY <1>1, CancelTapPolicyHolds DEF TapInv, Pointer
  <2>2. SeveralFingers(d) = e
    BY <1>1 DEF SeveralFingers
  <2> HIDE DEF e
  <2> QED BY <2>1, <2>2 DEF Contacted, LeftMid, Touching
<1>2. CASE Interacting(d)
  <2> DEFINE c == CancelTapPolicy(EndInteraction(d))
             e == [c EXCEPT !.two_tap_disqualified = @ \/ d.lifecycle = "Committed"]
  <2>1. /\ TapInv(c) /\ Others(d, c) /\ LeftMid(p, c)
        /\ c.tap_phase = "Idle" /\ ~c.synthetic_left
        /\ c.tracking_id = None
    BY GiveUpHolds
  <2>2. SeveralFingers(d) = e
    BY <1>2 DEF SeveralFingers
  <2> HIDE DEF c
  <2>a. c \in StateType /\ c.tap_phase = "Idle"
    BY <2>1 DEF TapInv
  <2>3. Others(c, e) /\ Pointer(c, e) /\ Quiet(c, e) /\ e.tap_phase = "Idle"
    BY <2>a DEF Others, Pointer, Quiet, StateType
  <2> HIDE DEF e
  <2>4. TapInv(e) /\ LeftMid(p, e) /\ ~e.synthetic_left
    BY <2>1, <2>3 DEF TapInv, Others, Pointer, Quiet, Interacting, LeftMid, LeftAccount
  <2>5. Others(d, e)
    BY <2>1, <2>3 DEF Others
  <2> QED BY <2>1, <2>2, <2>3, <2>4, <2>5 DEF Contacted, LeftMid, Touching, Pointer
<1> QED BY <1>1, <1>2

-----------------------------------------------------------------------------
(* The pair.                                                               *)

\* What the two-finger policy leaves alone.
Ones(d, e) ==
  /\ e \in StateType /\ Pointer(d, e) /\ Quiet(d, e)
  /\ e.tap_phase = d.tap_phase
  /\ e.physical_left = d.physical_left
  /\ e.physical_left_raw = d.physical_left_raw
  /\ e.physical_right = d.physical_right
  /\ e.latched_right_owned = d.latched_right_owned
  /\ e.latched_right_down = d.latched_right_down
  /\ e.latched_right_up = d.latched_right_up

\* The pair is let go of, with the scroll it had begun.
Parted(d, e) ==
  /\ Ones(d, e) /\ e.two_finger_ids = {} /\ ~e.scroll_open
  /\ e.scroll_ended = (d.scroll_ended \/ d.scroll_open)
  /\ e.scroll_began = d.scroll_began

Closed(d) == IF d.two_phase = "CommittedScroll" THEN CloseScroll(d) ELSE d

\* Every way of ending a pair forgets it and closes its scroll.
LEMMA ForgetClosedFields ==
  ASSUME NEW d \in StateType, d.scroll_open = (d.two_phase = "CommittedScroll")
  PROVE  LET e == ForgetPair(Closed(d)) IN
         /\ Parted(d, e)
         /\ e.two_phase = d.two_phase /\ e.secondary_tap = d.secondary_tap
         /\ e.two_tap_disqualified = d.two_tap_disqualified
<1> DEFINE c == Closed(d)
           e == ForgetPair(c)
<1>1. /\ Ones(d, c) /\ ~c.scroll_open
      /\ c.scroll_ended = (d.scroll_ended \/ d.scroll_open)
      /\ c.scroll_began = d.scroll_began
      /\ c.two_phase = d.two_phase /\ c.secondary_tap = d.secondary_tap
      /\ c.two_tap_disqualified = d.two_tap_disqualified
  <2>1. CASE d.two_phase = "CommittedScroll"
    <3> DEFINE ended == d.scroll_ended \/ d.scroll_open
               r == [d EXCEPT !.scroll_open = FALSE, !.scroll_ended = ended]
    <3>1. Closed(d) = r
      BY <2>1 DEF Closed, CloseScroll
    <3>2. ended \in BOOLEAN
      BY DEF StateType
    <3> HIDE DEF ended
    <3>3. /\ Ones(d, r) /\ ~r.scroll_open /\ r.scroll_ended = ended
          /\ r.scroll_began = d.scroll_began
          /\ r.two_phase = d.two_phase /\ r.secondary_tap = d.secondary_tap
          /\ r.two_tap_disqualified = d.two_tap_disqualified
      BY <3>2 DEF Ones, Pointer, Quiet, StateType
    <3> QED BY <3>1, <3>3 DEF ended
  <2>2. CASE d.two_phase # "CommittedScroll"
    BY <2>2 DEF Closed, Ones, Pointer, Quiet, StateType
  <2> QED BY <2>1, <2>2
<1>2. c \in StateType
  BY <1>1 DEF Ones
<1> HIDE DEF c
<1>3. /\ Ones(c, e) /\ e.scroll_open = c.scroll_open /\ e.two_finger_ids = {}
      /\ e.scroll_ended = c.scroll_ended
      /\ e.scroll_began = c.scroll_began
      /\ e.two_phase = c.two_phase /\ e.secondary_tap = c.secondary_tap
      /\ e.two_tap_disqualified = c.two_tap_disqualified
  BY <1>2 DEF ForgetPair, Ones, Pointer, Quiet, StateType
<1> QED BY <1>1, <1>3 DEF Parted, Ones, Pointer, Quiet, c

\* Cancelling a pair closes its scroll and disqualifies its tap.
LEMMA CancelPairFields ==
  ASSUME NEW d \in StateType, d.scroll_open = (d.two_phase = "CommittedScroll")
  PROVE  LET e == CancelPair(d) IN
         /\ Parted(d, e) /\ e.two_phase = "Idle" /\ e.two_tap_disqualified
         /\ e.secondary_tap = d.secondary_tap
<1> DEFINE g == ForgetPair(Closed(d))
           e == [g EXCEPT !.two_phase = "Idle", !.two_tap_disqualified = TRUE]
<1>1. Parted(d, g) /\ g.secondary_tap = d.secondary_tap
  BY ForgetClosedFields
<1>2. g \in StateType
  BY <1>1 DEF Parted, Ones
<1>3. CancelPair(d) = e
  BY DEF CancelPair, Closed
<1> HIDE DEF g
<1>4. /\ Ones(g, e) /\ e.two_finger_ids = g.two_finger_ids
      /\ e.scroll_open = g.scroll_open /\ e.scroll_ended = g.scroll_ended
      /\ e.scroll_began = g.scroll_began /\ e.secondary_tap = g.secondary_tap
      /\ e.two_phase = "Idle" /\ e.two_tap_disqualified
  BY <1>2 DEF Ones, Pointer, Quiet, StateType, TwoPhases
<1> QED BY <1>1, <1>3, <1>4 DEF Parted, Ones, Pointer, Quiet

\* A press the pair takes as its own closes its scroll and holds the pair.
LEMMA LatchSecondaryPressFields ==
  ASSUME NEW d \in StateType, d.scroll_open = (d.two_phase = "CommittedScroll")
  PROVE  LET e == LatchSecondaryPress(d) IN
         /\ Parted(d, e) /\ e.two_tap_disqualified
         /\ e.two_phase = "PhysicalSecondaryClickHeld"
         /\ e.secondary_tap = d.secondary_tap
<1> DEFINE g == ForgetPair(Closed(d))
           e == [g EXCEPT !.two_phase = "PhysicalSecondaryClickHeld",
                          !.two_tap_disqualified = TRUE]
<1>1. Parted(d, g) /\ g.secondary_tap = d.secondary_tap
  BY ForgetClosedFields
<1>2. g \in StateType
  BY <1>1 DEF Parted, Ones
<1>3. LatchSecondaryPress(d) = e
  BY DEF LatchSecondaryPress, Closed
<1> HIDE DEF g
<1>4. /\ Ones(g, e) /\ e.two_finger_ids = g.two_finger_ids
      /\ e.scroll_open = g.scroll_open /\ e.scroll_ended = g.scroll_ended
      /\ e.scroll_began = g.scroll_began /\ e.secondary_tap = g.secondary_tap
      /\ e.two_phase = "PhysicalSecondaryClickHeld" /\ e.two_tap_disqualified
  BY <1>2 DEF Ones, Pointer, Quiet, StateType, TwoPhases
<1> QED BY <1>1, <1>3, <1>4 DEF Parted, Ones, Pointer, Quiet

\* A pair that leaves the pad closes its scroll; it taps only as a candidate
\* nothing disqualified, with no button down.
LEMMA ReleasePairFields ==
  ASSUME NEW d \in StateType, NEW f,
         d.scroll_open = (d.two_phase = "CommittedScroll")
  PROVE  LET e == ReleasePair(d, f) IN
         /\ Parted(d, e) /\ e.two_phase = "Idle"
         /\ e.two_tap_disqualified = d.two_tap_disqualified
         /\ e.secondary_tap /\ ~d.secondary_tap =>
              /\ d.two_phase = "Candidate" /\ ~d.two_tap_disqualified
              /\ ~ButtonHeld(d)
<1> DEFINE g == ForgetPair(Closed(d))
           tapped == d.two_phase = "Candidate" /\ SecondaryTapQualifies(d, f)
           taps == g.secondary_tap \/ tapped
           e == [g EXCEPT !.two_phase = "Idle", !.secondary_tap = taps]
<1>1. /\ Parted(d, g) /\ g.secondary_tap = d.secondary_tap
      /\ g.two_tap_disqualified = d.two_tap_disqualified
  BY ForgetClosedFields
<1>2. g \in StateType
  BY <1>1 DEF Parted, Ones
<1>3. ReleasePair(d, f) = e
  BY DEF ReleasePair, Closed
<1>4. tapped \in BOOLEAN /\ (tapped => /\ d.two_phase = "Candidate"
                                       /\ ~d.two_tap_disqualified /\ ~ButtonHeld(d))
  BY DEF SecondaryTapQualifies
<1>5. taps \in BOOLEAN
  BY <1>2, <1>4 DEF StateType
<1> HIDE DEF g, tapped, taps
<1>6. /\ Ones(g, e) /\ e.two_finger_ids = g.two_finger_ids
      /\ e.scroll_open = g.scroll_open /\ e.scroll_ended = g.scroll_ended
      /\ e.scroll_began = g.scroll_began
      /\ e.secondary_tap = taps
      /\ e.two_phase = "Idle" /\ e.two_tap_disqualified = g.two_tap_disqualified
  BY <1>2, <1>5 DEF Ones, Pointer, Quiet, StateType, TwoPhases
<1> HIDE DEF e
<1>7. Parted(d, e)
  BY <1>1, <1>6 DEF Parted, Ones, Pointer, Quiet
<1> QED BY <1>1, <1>3, <1>4, <1>6, <1>7 DEF taps

\* A press ends a pair that scrolls or may, and disqualifies any other.
LEMMA PressCompetesFields ==
  ASSUME NEW d \in StateType, d.scroll_open = (d.two_phase = "CommittedScroll"),
         d.two_phase \notin Pairing => d.two_finger_ids = {}
  PROVE  LET e == PressCompetes(d) IN
         /\ Ones(d, e) /\ e.two_phase \notin Pairing /\ e.two_tap_disqualified
         /\ e.two_finger_ids = {} /\ ~e.scroll_open
         /\ e.scroll_ended = (d.scroll_ended \/ d.scroll_open)
         /\ e.scroll_began = d.scroll_began
         /\ e.secondary_tap = d.secondary_tap
<1>1. CASE d.two_phase \in Pairing
  <2>1. PressCompetes(d) = CancelPair(d)
    BY <1>1 DEF PressCompetes, Pairing
  <2> QED BY <2>1, CancelPairFields DEF Parted, Pairing
<1>2. CASE d.two_phase \notin Pairing
  <2> DEFINE e == [d EXCEPT !.two_tap_disqualified = TRUE]
  <2>1. PressCompetes(d) = e
    BY <1>2 DEF PressCompetes, Pairing
  <2>2. /\ Ones(d, e) /\ e.two_phase = d.two_phase /\ e.two_tap_disqualified
        /\ e.two_finger_ids = d.two_finger_ids /\ e.scroll_open = d.scroll_open
        /\ e.scroll_ended = d.scroll_ended
        /\ e.scroll_began = d.scroll_began
        /\ e.secondary_tap = d.secondary_tap
    BY DEF Ones, Pointer, Quiet, StateType
  <2>3. d.scroll_ended \in BOOLEAN
    BY DEF StateType
  <2> HIDE DEF e
  <2> QED BY <1>2, <2>1, <2>2, <2>3 DEF Pairing
<1> QED BY <1>1, <1>2

\* A pair that is anchored is a candidate made of the live contacts.
LEMMA AnchorPairFields ==
  ASSUME NEW d \in StateType, NEW f, f.discontinuity \in BOOLEAN
  PROVE  LET e == AnchorPair(d, f) IN
         /\ Ones(d, e) /\ e.two_phase = "Candidate"
         /\ e.two_finger_ids = LiveComplete(f)
         /\ d.two_tap_disqualified => e.two_tap_disqualified
         /\ e.scroll_open = d.scroll_open /\ e.scroll_ended = d.scroll_ended
         /\ e.scroll_began = d.scroll_began /\ e.secondary_tap = d.secondary_tap
<1> DEFINE held == ButtonHeld(d)
<1>1. held \in BOOLEAN /\ LiveComplete(f) \in SUBSET Ids
  BY DEF ButtonHeld, LiveComplete, Live
<1> HIDE DEF held
<1> QED BY <1>1 DEF AnchorPair, held, Ones, Pointer, Quiet, StateType, TwoPhases

\* A pair commits to a scroll once, and only under the motion of a frame.
LEMMA UpdatePairFields ==
  ASSUME NEW d \in StateType, NEW f, f.strayed \in BOOLEAN
  PROVE  LET e == UpdatePair(d, f) IN
         /\ Ones(d, e) /\ e.two_finger_ids = d.two_finger_ids
         /\ e.two_tap_disqualified = d.two_tap_disqualified
         /\ e.scroll_ended = d.scroll_ended /\ e.secondary_tap = d.secondary_tap
         /\ \/ /\ e.two_phase = d.two_phase /\ e.scroll_open = d.scroll_open
               /\ e.scroll_began = d.scroll_began
            \/ /\ d.two_phase = "Candidate" /\ ~ButtonHeld(d) /\ f.crossed
               /\ e.two_phase = "CommittedScroll"
               /\ e.scroll_open /\ e.scroll_began
<1>1. CASE /\ d.two_phase = "Candidate" /\ config.scroll_enabled
           /\ ~ButtonHeld(d) /\ f.crossed
  BY <1>1 DEF UpdatePair, Ones, Pointer, Quiet, StateType, TwoPhases
<1>2. CASE ~(/\ d.two_phase = "Candidate" /\ config.scroll_enabled
             /\ ~ButtonHeld(d) /\ f.crossed)
  BY <1>2 DEF UpdatePair, Ones, Pointer, Quiet, StateType, TwoPhases
<1> QED BY <1>1, <1>2

-----------------------------------------------------------------------------
(* The physical buttons.                                                   *)
IsFrame(f) ==
  /\ f.contact \in [Ids -> {"Absent", "Began", "Active", "Ended"}]
  /\ f.incomplete \subseteq Ids
  /\ f.left \in BOOLEAN /\ f.right \in BOOLEAN
  /\ f.discontinuity \in BOOLEAN /\ f.crossed \in BOOLEAN
  /\ f.strayed \in BOOLEAN /\ f.late \in BOOLEAN

\* The scroll that was open at the start of a frame, and what came of it.
ScrollAccount(p, d) ==
  /\ d.scroll_ended => p.scroll_open
  /\ d.scroll_open = ((p.scroll_open /\ ~d.scroll_ended) \/ d.scroll_began)

\* The arbiter between two frames.
Ready(p) ==
  /\ TapInv(p) /\ PairInv(p) /\ LatchInv(p) /\ ~Drafted(p)
  /\ p.two_phase \in Pairing => p.tap_phase = "Idle"

\* A draft in which the physical edges of the frame are taken: right is the
\* right button so far, pressed says whether a button went down.
Edged(p, f, d, right, pressed) ==
  /\ TapInv(d) /\ LeftMid(p, d) /\ PairInv(d) /\ ScrollAccount(p, d)
  /\ ~d.scroll_began /\ ~d.secondary_tap
  /\ d.physical_left_raw = f.left /\ d.physical_right = right
  /\ d.latched_right_down <=> LatchesPress(p, f)
  /\ d.latched_right_up <=>
       ~f.left /\ p.physical_left_raw /\ p.latched_right_owned
  /\ d.latched_right_owned <=>
       LatchesPress(p, f) \/ (p.latched_right_owned /\ f.left)
  /\ LatchInv(d)
  /\ pressed => /\ d.two_tap_disqualified /\ d.two_phase \notin Pairing
                /\ d.tap_phase = "Idle"
  /\ p.two_tap_disqualified => d.two_tap_disqualified
  /\ d.two_phase \in Pairing => d.tap_phase = "Idle"
  /\ p.tap_phase = "Idle" => d.tap_phase = "Idle"

PressesLeft(p, f)  == f.left /\ ~p.physical_left_raw
PressesRight(p, f) == f.right /\ ~p.physical_right

\* The fields of the buttons, the latch and the pair are Booleans.
LEMMA PhysicalType ==
  ASSUME NEW d \in StateType
  PROVE  /\ d.physical_left \in BOOLEAN /\ d.physical_left_raw \in BOOLEAN
         /\ d.physical_right \in BOOLEAN /\ d.latched_right_owned \in BOOLEAN
         /\ d.scroll_open \in BOOLEAN /\ d.scroll_ended \in BOOLEAN
         /\ d.scroll_began \in BOOLEAN /\ d.two_tap_disqualified \in BOOLEAN
         /\ d.latched_right_up \in BOOLEAN /\ d.latched_right_down \in BOOLEAN
  BY DEF StateType

\* No contacts are no pair.
LEMMA NoPair == ~IsPair({})
  BY DEF IsPair

\* The four ways the left button can go.
LEMMA LatchHolds ==
  ASSUME NEW p, Ready(p), NEW f, IsFrame(f), LatchesPress(p, f)
  PROVE  LET d == [LeftEdge(p, f) EXCEPT !.physical_left_raw = f.left] IN
         /\ Edged(p, f, d, p.physical_right, PressesLeft(p, f))
         /\ d.two_phase \notin Pairing
<1> DEFINE a == [p EXCEPT !.latched_right_owned = TRUE, !.physical_left = FALSE,
                          !.latched_right_down = TRUE]
           b == LatchSecondaryPress(a)
           c == CancelTapPolicy(b)
           d == [c EXCEPT !.physical_left_raw = f.left]
<1>0. p \in StateType /\ f.left
  BY DEF Ready, TapInv, LatchesPress
<1>1. /\ a \in StateType /\ Pointer(p, a) /\ Quiet(p, a)
      /\ a.tap_phase = p.tap_phase /\ a.latched_right_owned
      /\ ~a.physical_left /\ a.latched_right_down
      /\ a.latched_right_up = p.latched_right_up
      /\ a.physical_right = p.physical_right
      /\ a.two_phase = p.two_phase /\ a.scroll_open = p.scroll_open
      /\ a.scroll_ended = p.scroll_ended /\ a.scroll_began = p.scroll_began
      /\ a.secondary_tap = p.secondary_tap
  BY <1>0 DEF Pointer, Quiet, StateType
<1>2. LeftEdge(p, f) = c
  BY <1>0 DEF LeftEdge
<1> HIDE DEF a
<1>3. /\ Parted(a, b) /\ b.two_tap_disqualified
      /\ b.two_phase = "PhysicalSecondaryClickHeld"
      /\ b.secondary_tap = a.secondary_tap
  BY <1>1, LatchSecondaryPressFields DEF Ready, PairInv
<1> HIDE DEF b
<1>4. /\ b \in StateType /\ (b.tracking_id # None) = Interacting(b)
      /\ b.tap_disqualified => b.tracking_id # None
      /\ b.synthetic_left = (b.tap_phase \notin {"Idle", "FirstTapCandidate"})
      /\ LeftMid(p, b)
  BY <1>1, <1>3 DEF Parted, Ones, Ready, TapInv, Pointer, Quiet, Interacting,
       LeftMid, LeftAccount, Drafted
<1>5. /\ TapInv(c) /\ Others(b, c) /\ LeftMid(p, c) /\ c.tap_phase = "Idle"
  BY <1>0, <1>4, CancelTapPolicyHolds
<1> HIDE DEF c
<1>6. /\ d \in StateType /\ Pointer(c, d) /\ Quiet(c, d) /\ d.tap_phase = "Idle"
      /\ d.physical_left_raw = f.left /\ d.physical_left = c.physical_left
      /\ d.physical_right = c.physical_right
      /\ d.latched_right_owned = c.latched_right_owned
      /\ d.latched_right_down = c.latched_right_down
      /\ d.latched_right_up = c.latched_right_up
      /\ d.two_phase = c.two_phase /\ d.two_finger_ids = c.two_finger_ids
      /\ d.scroll_open = c.scroll_open /\ d.scroll_ended = c.scroll_ended
      /\ d.scroll_began = c.scroll_began /\ d.secondary_tap = c.secondary_tap
      /\ d.two_tap_disqualified = c.two_tap_disqualified
  BY <1>0, <1>5 DEF TapInv, Pointer, Quiet, StateType, IsFrame
<1> HIDE DEF d
<1>7. TapInv(d) /\ LeftMid(p, d)
  BY <1>5, <1>6 DEF TapInv, LeftMid, LeftAccount, Pointer, Quiet, Interacting
<1>8. /\ ~d.scroll_open /\ ~d.scroll_began /\ ~d.secondary_tap
      /\ d.scroll_ended = p.scroll_open
  BY <1>0, <1>1, <1>3, <1>5, <1>6, PhysicalType DEF Parted, Others, Ready, Drafted
<1>9. /\ d.two_phase = "PhysicalSecondaryClickHeld" /\ d.two_finger_ids = {}
      /\ d.two_tap_disqualified
  BY <1>3, <1>5, <1>6 DEF Parted, Others
<1>10. PairInv(d) /\ ScrollAccount(p, d) /\ d.two_phase \notin Pairing
  BY <1>0, <1>6, <1>8, <1>9, NoPair, PhysicalType DEF PairInv, ScrollAccount, Pairing
<1>11. /\ d.physical_left_raw = f.left /\ d.physical_right = p.physical_right
       /\ d.latched_right_down /\ d.latched_right_owned /\ ~d.physical_left
       /\ d.latched_right_up = p.latched_right_up
  BY <1>1, <1>3, <1>5, <1>6 DEF Parted, Ones, Others
<1>12. ~d.latched_right_up /\ LatchInv(d)
  BY <1>0, <1>6, <1>11, PhysicalType DEF Ready, Drafted, LatchInv
<1> QED BY <1>0, <1>2, <1>6, <1>7, <1>8, <1>9, <1>10, <1>11, <1>12, PhysicalType DEF Edged, d

\* The left button goes down and the pair does not take it: the tap and the
\* pair are cancelled.
LEMMA PressHolds ==
  ASSUME NEW p, Ready(p), NEW f, IsFrame(f), PressesLeft(p, f), ~LatchesPress(p, f)
  PROVE  LET d == [LeftEdge(p, f) EXCEPT !.physical_left_raw = f.left] IN
         /\ Edged(p, f, d, p.physical_right, PressesLeft(p, f))
         /\ d.two_phase \notin Pairing
<1> DEFINE a == [p EXCEPT !.physical_left = TRUE]
           b == CancelTapPolicy(a)
           c == PressCompetes(b)
           d == [c EXCEPT !.physical_left_raw = f.left]
<1>0. p \in StateType /\ f.left /\ ~p.physical_left_raw /\ ~p.latched_right_owned
  BY DEF Ready, TapInv, PressesLeft, LatchInv
<1>1. /\ a \in StateType /\ Pointer(p, a) /\ Quiet(p, a)
      /\ a.tap_phase = p.tap_phase /\ a.physical_left
      /\ a.latched_right_owned = p.latched_right_owned
      /\ a.latched_right_up = p.latched_right_up
      /\ a.latched_right_down = p.latched_right_down
      /\ a.physical_right = p.physical_right
      /\ a.two_phase = p.two_phase /\ a.scroll_open = p.scroll_open
      /\ a.two_finger_ids = p.two_finger_ids
      /\ a.scroll_ended = p.scroll_ended /\ a.scroll_began = p.scroll_began
      /\ a.secondary_tap = p.secondary_tap
  BY <1>0 DEF Pointer, Quiet, StateType, Others
<1>2. LeftEdge(p, f) = c
  BY <1>0 DEF LeftEdge
<1> HIDE DEF a
<1>3. /\ (a.tracking_id # None) = Interacting(a)
      /\ a.tap_disqualified => a.tracking_id # None
      /\ a.synthetic_left = (a.tap_phase \notin {"Idle", "FirstTapCandidate"})
      /\ LeftMid(p, a)
  BY <1>1 DEF Ready, TapInv, Pointer, Quiet, Interacting,
       LeftMid, LeftAccount, Drafted
<1>4. /\ TapInv(b) /\ Others(a, b) /\ LeftMid(p, b) /\ b.tap_phase = "Idle"
  BY <1>0, <1>1, <1>3, CancelTapPolicyHolds
<1> HIDE DEF b
<1>5. /\ b \in StateType /\ b.scroll_open = (b.two_phase = "CommittedScroll")
      /\ b.two_phase \notin Pairing => b.two_finger_ids = {}
  BY <1>1, <1>4 DEF Others, Ready, PairInv
<1>6. /\ Ones(b, c) /\ c.two_phase \notin Pairing /\ c.two_tap_disqualified
      /\ c.two_finger_ids = {} /\ ~c.scroll_open
      /\ c.scroll_ended = (b.scroll_ended \/ b.scroll_open)
      /\ c.scroll_began = b.scroll_began
      /\ c.secondary_tap = b.secondary_tap
  BY <1>5, PressCompetesFields
<1> HIDE DEF c
<1>7. /\ d \in StateType /\ Pointer(c, d) /\ Quiet(c, d) /\ d.tap_phase = c.tap_phase
      /\ d.physical_left_raw = f.left /\ d.physical_left = c.physical_left
      /\ d.physical_right = c.physical_right
      /\ d.latched_right_owned = c.latched_right_owned
      /\ d.latched_right_down = c.latched_right_down
      /\ d.latched_right_up = c.latched_right_up
      /\ d.two_phase = c.two_phase /\ d.two_finger_ids = c.two_finger_ids
      /\ d.scroll_open = c.scroll_open /\ d.scroll_ended = c.scroll_ended
      /\ d.scroll_began = c.scroll_began /\ d.secondary_tap = c.secondary_tap
      /\ d.two_tap_disqualified = c.two_tap_disqualified
  BY <1>0, <1>6 DEF Ones, Pointer, Quiet, StateType, IsFrame
<1> HIDE DEF d
<1>8. TapInv(d) /\ LeftMid(p, d) /\ d.tap_phase = "Idle"
  BY <1>4, <1>6, <1>7 DEF TapInv, LeftMid, LeftAccount, Pointer, Quiet, Interacting, Ones
<1>9. /\ ~d.scroll_open /\ ~d.scroll_began /\ ~d.secondary_tap
      /\ d.scroll_ended = p.scroll_open
  BY <1>0, <1>1, <1>4, <1>6, <1>7, PhysicalType DEF Others, Ready, Drafted
<1>10. PairInv(d) /\ ScrollAccount(p, d) /\ d.two_phase \notin Pairing
       /\ d.two_tap_disqualified
  BY <1>0, <1>6, <1>7, <1>9, NoPair, PhysicalType DEF PairInv, ScrollAccount, Pairing
<1>11. /\ d.physical_left_raw = f.left /\ d.physical_right = p.physical_right
       /\ d.latched_right_down = p.latched_right_down
       /\ d.latched_right_owned = p.latched_right_owned /\ d.physical_left
       /\ d.latched_right_up = p.latched_right_up
  BY <1>1, <1>4, <1>6, <1>7 DEF Ones, Others
<1>12. ~d.latched_right_up /\ ~d.latched_right_down /\ LatchInv(d)
  BY <1>0, <1>7, <1>11, PhysicalType DEF Ready, Drafted, LatchInv
<1> QED BY <1>0, <1>2, <1>7, <1>8, <1>9, <1>10, <1>11, <1>12, PhysicalType DEF Edged, d

\* The left button comes up and the latched right goes with it.
LEMMA ReleaseHolds ==
  ASSUME NEW p, Ready(p), NEW f, IsFrame(f), ~f.left, p.physical_left_raw,
         p.latched_right_owned
  PROVE  LET d == [LeftEdge(p, f) EXCEPT !.physical_left_raw = f.left] IN
         /\ Edged(p, f, d, p.physical_right, PressesLeft(p, f))
         /\ d.two_phase \notin Pairing
<1> DEFINE two == IF p.two_phase = "PhysicalSecondaryClickHeld"
                  THEN "Idle" ELSE p.two_phase
           a == [p EXCEPT !.latched_right_owned = FALSE, !.latched_right_up = TRUE,
                          !.physical_left = FALSE]
           c == [a EXCEPT !.two_phase = two]
           d == [c EXCEPT !.physical_left_raw = f.left]
<1>0. p \in StateType /\ ~LatchesPress(p, f) /\ two \in TwoPhases
  BY DEF Ready, TapInv, LatchesPress, StateType, TwoPhases
<1>1. LeftEdge(p, f) = c
  BY <1>0 DEF LeftEdge
<1>2. two \notin Pairing /\ p.two_phase \notin Pairing
  BY DEF Ready, PairInv, ButtonHeld, Pairing
<1> HIDE DEF two
<1>a. /\ a \in StateType /\ Pointer(p, a) /\ Quiet(p, a)
      /\ a.tap_phase = p.tap_phase /\ ~a.latched_right_owned
      /\ ~a.physical_left /\ a.latched_right_up
      /\ a.latched_right_down = p.latched_right_down
      /\ a.physical_right = p.physical_right
      /\ a.scroll_open = p.scroll_open
      /\ a.two_finger_ids = p.two_finger_ids
      /\ a.scroll_ended = p.scroll_ended /\ a.scroll_began = p.scroll_began
      /\ a.secondary_tap = p.secondary_tap
      /\ a.two_tap_disqualified = p.two_tap_disqualified
  <2>1. a \in StateType
    BY <1>0 DEF StateType
  <2>2. Pointer(p, a) /\ Quiet(p, a)
    BY <1>0 DEF Pointer, Quiet, StateType
  <2> QED BY <1>0, <2>1, <2>2 DEF StateType
<1> HIDE DEF a
<1>3. /\ c \in StateType /\ Pointer(p, c) /\ Quiet(p, c)
      /\ c.tap_phase = p.tap_phase /\ ~c.latched_right_owned
      /\ ~c.physical_left /\ c.latched_right_up
      /\ c.latched_right_down = p.latched_right_down
      /\ c.physical_right = p.physical_right
      /\ c.two_phase = two /\ c.scroll_open = p.scroll_open
      /\ c.two_finger_ids = p.two_finger_ids
      /\ c.scroll_ended = p.scroll_ended /\ c.scroll_began = p.scroll_began
      /\ c.secondary_tap = p.secondary_tap
      /\ c.two_tap_disqualified = p.two_tap_disqualified
  BY <1>0, <1>a DEF Pointer, Quiet, StateType
<1> HIDE DEF c
<1>4. /\ d \in StateType /\ Pointer(c, d) /\ Quiet(c, d) /\ d.tap_phase = c.tap_phase
      /\ d.physical_left_raw = f.left /\ d.physical_left = c.physical_left
      /\ d.physical_right = c.physical_right
      /\ d.latched_right_owned = c.latched_right_owned
      /\ d.latched_right_down = c.latched_right_down
      /\ d.latched_right_up = c.latched_right_up
      /\ d.two_phase = c.two_phase /\ d.two_finger_ids = c.two_finger_ids
      /\ d.scroll_open = c.scroll_open /\ d.scroll_ended = c.scroll_ended
      /\ d.scroll_began = c.scroll_began /\ d.secondary_tap = c.secondary_tap
      /\ d.two_tap_disqualified = c.two_tap_disqualified
  BY <1>0, <1>3 DEF Pointer, Quiet, StateType, IsFrame
<1> HIDE DEF d
<1>5. TapInv(d) /\ LeftMid(p, d)
  BY <1>3, <1>4 DEF Ready, Drafted, TapInv, LeftMid, LeftAccount, Pointer, Quiet, Interacting
<1>6. PairInv(d) /\ ScrollAccount(p, d)
  BY <1>0, <1>2, <1>3, <1>4, PhysicalType DEF Ready, Drafted, PairInv, ScrollAccount, Pairing
<1>7. LatchInv(d) /\ ~d.latched_right_down /\ ~d.scroll_began /\ ~d.secondary_tap
  BY <1>0, <1>3, <1>4, PhysicalType DEF Ready, Drafted, LatchInv
<1> QED BY <1>0, <1>1, <1>2, <1>3, <1>4, <1>5, <1>6, <1>7, PhysicalType DEF Edged, PressesLeft, d

\* The left button stays, or comes up with nothing latched.
LEMMA HoldHolds ==
  ASSUME NEW p, Ready(p), NEW f, IsFrame(f), f.left => p.physical_left_raw,
         ~(~f.left /\ p.physical_left_raw /\ p.latched_right_owned)
  PROVE  LET d == [LeftEdge(p, f) EXCEPT !.physical_left_raw = f.left] IN
         /\ Edged(p, f, d, p.physical_right, PressesLeft(p, f))
         /\ d.two_phase = p.two_phase
<1> DEFINE held == f.left /\ ~p.latched_right_owned
           c == [p EXCEPT !.physical_left = held]
           d == [c EXCEPT !.physical_left_raw = f.left]
<1>0. p \in StateType /\ ~LatchesPress(p, f) /\ held \in BOOLEAN
  BY DEF Ready, TapInv, LatchesPress
<1>1. LeftEdge(p, f) = c
  BY <1>0 DEF LeftEdge
<1>2. held => p.physical_left
  BY DEF Ready, LatchInv
<1>3. held = (f.left /\ ~p.latched_right_owned)
  OBVIOUS
<1> HIDE DEF held
<1>4. /\ c \in StateType /\ Pointer(p, c) /\ Quiet(p, c)
      /\ c.tap_phase = p.tap_phase
      /\ c.latched_right_owned = p.latched_right_owned
      /\ c.physical_left = held /\ c.latched_right_up = p.latched_right_up
      /\ c.latched_right_down = p.latched_right_down
      /\ c.physical_right = p.physical_right
      /\ c.two_phase = p.two_phase /\ c.scroll_open = p.scroll_open
      /\ c.two_finger_ids = p.two_finger_ids
      /\ c.scroll_ended = p.scroll_ended /\ c.scroll_began = p.scroll_began
      /\ c.secondary_tap = p.secondary_tap
      /\ c.two_tap_disqualified = p.two_tap_disqualified
  BY <1>0 DEF Pointer, Quiet, StateType
<1> HIDE DEF c
<1>5. /\ d \in StateType /\ Pointer(c, d) /\ Quiet(c, d) /\ d.tap_phase = c.tap_phase
      /\ d.physical_left_raw = f.left /\ d.physical_left = c.physical_left
      /\ d.physical_right = c.physical_right
      /\ d.latched_right_owned = c.latched_right_owned
      /\ d.latched_right_down = c.latched_right_down
      /\ d.latched_right_up = c.latched_right_up
      /\ d.two_phase = c.two_phase /\ d.two_finger_ids = c.two_finger_ids
      /\ d.scroll_open = c.scroll_open /\ d.scroll_ended = c.scroll_ended
      /\ d.scroll_began = c.scroll_began /\ d.secondary_tap = c.secondary_tap
      /\ d.two_tap_disqualified = c.two_tap_disqualified
  BY <1>0, <1>4 DEF Pointer, Quiet, StateType, IsFrame
<1> HIDE DEF d
<1>6. TapInv(d)
  BY <1>2, <1>4, <1>5 DEF Ready, TapInv, Pointer, Quiet, Interacting
<1>7. LeftMid(p, d)
  BY <1>4, <1>5 DEF Ready, Drafted, LeftMid, LeftAccount, Quiet
<1>8. PairInv(d) /\ ScrollAccount(p, d)
  BY <1>0, <1>2, <1>4, <1>5, PhysicalType DEF Ready, Drafted, PairInv, ScrollAccount, ButtonHeld
<1>9. LatchInv(d) /\ ~d.latched_right_down /\ ~d.latched_right_up
      /\ ~d.scroll_began /\ ~d.secondary_tap
  BY <1>0, <1>3, <1>4, <1>5, PhysicalType DEF Ready, Drafted, LatchInv, IsFrame
<1>10. d.latched_right_owned <=> LatchesPress(p, f) \/ (p.latched_right_owned /\ f.left)
  BY <1>0, <1>4, <1>5, PhysicalType DEF Ready, LatchInv
<1>11. d.two_phase \in Pairing => d.tap_phase = "Idle"
  BY <1>4, <1>5 DEF Ready
<1> QED BY <1>0, <1>1, <1>4, <1>5, <1>6, <1>7, <1>8, <1>9, <1>10, <1>11, PhysicalType DEF Edged, PressesLeft, d

Presses(p, f) == PressesLeft(p, f) \/ PressesRight(p, f)

\* A step of the one-finger policy, and one of the two-finger policy, keep
\* what the physical edges have established.
LEMMA EdgedOthers ==
  ASSUME NEW p, NEW f, NEW d, NEW e, NEW right, NEW pressed,
         Edged(p, f, d, right, pressed), Others(d, e), TapInv(e), LeftMid(p, e),
         d.tap_phase = "Idle" => e.tap_phase = "Idle"
  PROVE  Edged(p, f, e, right, pressed)
<1>1. PairInv(e) /\ ScrollAccount(p, e) /\ LatchInv(e)
  BY DEF Edged, Others, PairInv, ScrollAccount, LatchInv, ButtonHeld
<1> QED BY <1>1 DEF Edged, Others

\* What only the pair policy changes keeps the account of the edges.
LEMMA EdgedOnes ==
  ASSUME NEW p, NEW f, NEW d, NEW e, NEW right, NEW pressed,
         Edged(p, f, d, right, pressed), Ones(d, e), PairInv(e),
         ScrollAccount(p, e), ~e.scroll_began, ~e.secondary_tap,
         d.two_tap_disqualified => e.two_tap_disqualified,
         e.two_phase \in Pairing => e.tap_phase = "Idle",
         pressed => e.two_phase \notin Pairing
  PROVE  Edged(p, f, e, right, pressed)
<1>1. TapInv(e) /\ LeftMid(p, e) /\ LatchInv(e)
  BY DEF Edged, Ones, Pointer, Quiet, TapInv, LeftMid, LeftAccount, LatchInv,
         Interacting
<1> QED BY <1>1 DEF Edged, Ones

\* The left edge of a frame, in every case of the code.
LEMMA LeftEdgeHolds ==
  ASSUME NEW p, Ready(p), NEW f, IsFrame(f)
  PROVE  LET d == [LeftEdge(p, f) EXCEPT !.physical_left_raw = f.left] IN
         /\ Edged(p, f, d, p.physical_right, PressesLeft(p, f))
         /\ d.two_phase \in Pairing => d.two_phase = p.two_phase
<1>1. CASE LatchesPress(p, f)
  BY <1>1, LatchHolds
<1>2. CASE PressesLeft(p, f) /\ ~LatchesPress(p, f)
  BY <1>2, PressHolds
<1>3. CASE ~f.left /\ p.physical_left_raw /\ p.latched_right_owned
  BY <1>3, ReleaseHolds
<1>4. CASE /\ f.left => p.physical_left_raw
           /\ ~(~f.left /\ p.physical_left_raw /\ p.latched_right_owned)
  BY <1>4, HoldHolds
<1> QED BY <1>1, <1>2, <1>3, <1>4 DEF PressesLeft

\* Setting the right button changes that field alone.
LEMMA RightFields ==
  ASSUME NEW d \in StateType, NEW v \in BOOLEAN
  PROVE  LET e == [d EXCEPT !.physical_right = v] IN
         /\ e.physical_right = v
         /\ e \in StateType /\ Pointer(d, e) /\ Quiet(d, e) /\ e.tap_phase = d.tap_phase
         /\ e.physical_left_raw = d.physical_left_raw
         /\ e.physical_left = d.physical_left
         /\ e.latched_right_owned = d.latched_right_owned
         /\ e.latched_right_down = d.latched_right_down
         /\ e.latched_right_up = d.latched_right_up
         /\ e.two_phase = d.two_phase /\ e.two_finger_ids = d.two_finger_ids
         /\ e.scroll_open = d.scroll_open /\ e.scroll_ended = d.scroll_ended
         /\ e.scroll_began = d.scroll_began /\ e.secondary_tap = d.secondary_tap
         /\ e.two_tap_disqualified = d.two_tap_disqualified
  BY DEF Pointer, Quiet, StateType, Ones

\* Both button edges of a frame.
LEMMA PhysicalEdgesHolds ==
  ASSUME NEW p, Ready(p), NEW f, IsFrame(f)
  PROVE  LET d == PhysicalEdges(p, f) IN
         /\ Edged(p, f, d, f.right, Presses(p, f))
         /\ d.two_phase \in Pairing => d.two_phase = p.two_phase
<1> DEFINE left == [LeftEdge(p, f) EXCEPT !.physical_left_raw = f.left]
           b == CancelTapPolicy(left)
           right == IF PressesRight(p, f) THEN PressCompetes(b) ELSE left
           d == [right EXCEPT !.physical_right = f.right]
<1>0. p \in StateType /\ f.right \in BOOLEAN
  BY DEF Ready, TapInv, IsFrame
<1>1. /\ Edged(p, f, left, p.physical_right, PressesLeft(p, f))
      /\ left.two_phase \in Pairing => left.two_phase = p.two_phase
  BY LeftEdgeHolds
<1>2. PhysicalEdges(p, f) = d
  BY DEF PhysicalEdges, PressesRight
<1> HIDE DEF left
<1>3. /\ Edged(p, f, right, p.physical_right, Presses(p, f))
      /\ right.two_phase \in Pairing => right.two_phase = p.two_phase
  <2>1. CASE ~PressesRight(p, f)
    BY <1>1, <2>1 DEF Presses, PressesLeft, Edged
  <2>2. CASE PressesRight(p, f)
    <3>1. /\ TapInv(b) /\ Others(left, b) /\ LeftMid(p, b) /\ b.tap_phase = "Idle"
      BY <1>0, <1>1, CancelTapPolicyHolds DEF Edged, TapInv
    <3> HIDE DEF b
    <3>2. Edged(p, f, b, p.physical_right, PressesLeft(p, f))
      BY <1>1, <3>1, EdgedOthers
    <3> DEFINE c == PressCompetes(b)
    <3>3. right = c
      BY <2>2
    <3>4. /\ Ones(b, c) /\ c.two_phase \notin Pairing /\ c.two_tap_disqualified
          /\ c.two_finger_ids = {} /\ ~c.scroll_open
          /\ c.scroll_ended = (b.scroll_ended \/ b.scroll_open)
          /\ c.scroll_began = b.scroll_began
          /\ c.secondary_tap = b.secondary_tap
      BY <3>1, <3>2, PressCompetesFields DEF TapInv, Edged, PairInv
    <3> HIDE DEF c, right
    <3>5. PairInv(c) /\ ScrollAccount(p, c) /\ ~c.scroll_began /\ ~c.secondary_tap
      BY <3>1, <3>2, <3>4, NoPair, PhysicalType DEF Edged, TapInv, PairInv, ScrollAccount, Ones, Pairing
    <3>6. Edged(p, f, c, p.physical_right, PressesLeft(p, f))
      BY <3>2, <3>4, <3>5, EdgedOnes
    <3>7. c.tap_phase = "Idle"
      BY <3>1, <3>4 DEF Ones
    <3> QED BY <3>3, <3>4, <3>6, <3>7 DEF Edged
  <2> QED BY <2>1, <2>2
<1>4. (f.right => p.physical_right) \/ right.two_phase \notin Pairing
  BY <1>3 DEF Edged, Presses, PressesRight
<1>5. right \in StateType
  BY <1>3 DEF Edged, TapInv
<1> HIDE DEF right
<1>6. /\ d.physical_right = f.right
      /\ d \in StateType /\ Pointer(right, d) /\ Quiet(right, d) /\ d.tap_phase = right.tap_phase
      /\ d.physical_left_raw = right.physical_left_raw
      /\ d.physical_left = right.physical_left
      /\ d.latched_right_owned = right.latched_right_owned
      /\ d.latched_right_down = right.latched_right_down
      /\ d.latched_right_up = right.latched_right_up
      /\ d.two_phase = right.two_phase /\ d.two_finger_ids = right.two_finger_ids
      /\ d.scroll_open = right.scroll_open /\ d.scroll_ended = right.scroll_ended
      /\ d.scroll_began = right.scroll_began /\ d.secondary_tap = right.secondary_tap
      /\ d.two_tap_disqualified = right.two_tap_disqualified
  BY <1>0, <1>5, RightFields
<1> HIDE DEF d
<1>7. TapInv(d) /\ LeftMid(p, d)
  BY <1>3, <1>6 DEF Edged, TapInv, LeftMid, LeftAccount, Pointer, Quiet, Interacting
<1>8. PairInv(d) /\ ScrollAccount(p, d) /\ LatchInv(d)
  BY <1>3, <1>4, <1>6 DEF Edged, PairInv, ScrollAccount, LatchInv, ButtonHeld
<1> QED BY <1>2, <1>3, <1>6, <1>7, <1>8 DEF Edged, d

\* A draft before the contacts of the frame are looked at.
Mid(p, f, d) ==
  /\ Edged(p, f, d, f.right, Presses(p, f))
  /\ f.discontinuity => d.tap_phase = "Idle"
  /\ d.two_phase \in Pairing =>
       IF f.discontinuity
       THEN d.two_phase = "Candidate" /\ d.two_finger_ids = LiveComplete(f)
       ELSE d.two_phase = p.two_phase

\* A discontinuity cancels the tap and the interaction.
LEMMA CutHolds ==
  ASSUME NEW p \in StateType, NEW d, TapInv(d), LeftMid(p, d)
  PROVE  LET e == CancelTapPolicy(CancelInteraction(d)) IN
         /\ TapInv(e) /\ Others(d, e) /\ LeftMid(p, e) /\ e.tap_phase = "Idle"
         /\ e.tracking_id = None
<1>1. CASE d.tracking_id = None
  <2>1. CancelInteraction(d) = d
    BY <1>1 DEF CancelInteraction
  <2> QED BY <1>1, <2>1, CancelTapPolicyHolds DEF TapInv, Pointer
<1>2. CASE d.tracking_id # None
  <2>1. CancelInteraction(d) = EndInteraction(d)
    BY <1>2 DEF CancelInteraction
  <2> QED BY <2>1, GiveUpHolds
<1> QED BY <1>1, <1>2

\* A discontinuity cancels the pair, or anchors it anew on the contacts that
\* are complete.
LEMMA PairDiscontinuityHolds ==
  ASSUME NEW p, NEW f, IsFrame(f), NEW d, d.tap_phase = "Idle",
         Edged(p, f, d, f.right, Presses(p, f))
  PROVE  LET e == PairDiscontinuity(d, f) IN
         /\ Edged(p, f, e, f.right, Presses(p, f)) /\ e.tap_phase = "Idle"
         /\ e.two_phase \in Pairing =>
              e.two_phase = "Candidate" /\ e.two_finger_ids = LiveComplete(f)
<1> DEFINE e == PairDiscontinuity(d, f)
           gone == IF d.two_phase = "Idle" THEN d ELSE CancelPair(d)
           q == Presses(p, f)
<1>0. d \in StateType /\ d.scroll_open = (d.two_phase = "CommittedScroll")
  BY DEF Edged, TapInv, PairInv
<1>1. /\ Ones(d, gone) /\ gone.two_phase = "Idle"
      /\ gone.two_finger_ids = {} /\ ~gone.scroll_open
      /\ gone.scroll_ended = (d.scroll_ended \/ d.scroll_open)
      /\ gone.scroll_began = d.scroll_began
      /\ gone.secondary_tap = d.secondary_tap
      /\ d.two_tap_disqualified => gone.two_tap_disqualified
  <2>1. CASE d.two_phase = "Idle"
    BY <1>0, <2>1, PhysicalType DEF Ones, Pointer, Quiet, Edged, PairInv, Pairing
  <2>2. CASE d.two_phase # "Idle"
    BY <1>0, <2>2, CancelPairFields, NoPair DEF Parted
  <2> QED BY <2>1, <2>2
<1>2. gone \in StateType
  BY <1>1 DEF Ones
<1>3. CASE d.two_phase = "PhysicalSecondaryClickHeld"
  <2>1. e = d
    BY <1>3 DEF PairDiscontinuity
  <2> QED BY <1>3, <2>1 DEF Pairing
<1>4. CASE d.two_phase # "PhysicalSecondaryClickHeld" /\ e = gone
  <2> HIDE DEF gone, e, q
  <2>1. PairInv(gone) /\ ScrollAccount(p, gone) /\ ~gone.scroll_began /\ ~gone.secondary_tap
    BY <1>0, <1>1, <1>2, NoPair, PhysicalType DEF Edged, PairInv, ScrollAccount, Pairing
  <2>2. gone.two_phase \notin Pairing /\ gone.tap_phase = "Idle"
    BY <1>1 DEF Pairing, Ones
  <2>3. Edged(p, f, gone, f.right, q)
    BY <1>1, <2>1, <2>2, EdgedOnes DEF q
  <2> QED BY <1>4, <2>2, <2>3 DEF e, q
<1>5. CASE /\ config.scroll_enabled /\ ~ButtonHeld(d) /\ IsPair(LiveComplete(f))
           /\ e = AnchorPair(gone, f)
  <2> HIDE DEF gone, e, q
  <2>1. /\ Ones(gone, e) /\ e.two_phase = "Candidate"
        /\ e.two_finger_ids = LiveComplete(f)
        /\ gone.two_tap_disqualified => e.two_tap_disqualified
        /\ e.scroll_open = gone.scroll_open /\ e.scroll_ended = gone.scroll_ended
        /\ e.scroll_began = gone.scroll_began /\ e.secondary_tap = gone.secondary_tap
    BY <1>2, <1>5, AnchorPairFields DEF IsFrame
  <2>2. Ones(d, e)
    BY <1>1, <2>1 DEF Ones, Pointer, Quiet
  <2>3. PairInv(e) /\ ScrollAccount(p, e) /\ ~e.scroll_began /\ ~e.secondary_tap
    <3>1. ~ButtonHeld(e)
      BY <1>5, <2>2 DEF Ones, ButtonHeld
    <3>2. ~e.scroll_open /\ e.scroll_ended = (d.scroll_ended \/ d.scroll_open)
          /\ e.scroll_began = d.scroll_began /\ e.secondary_tap = d.secondary_tap
          /\ e \in StateType
      BY <1>1, <2>1 DEF Ones
    <3> QED BY <1>0, <1>5, <2>1, <3>1, <3>2, PhysicalType DEF Edged, PairInv, ScrollAccount, Pairing
  <2>4. ~q
    BY <1>5 DEF q, Presses, PressesLeft, PressesRight, Edged, LatchInv, ButtonHeld
  <2>5. e.tap_phase = "Idle"
    BY <2>2 DEF Ones
  <2>6. Edged(p, f, e, f.right, q)
    BY <1>1, <2>1, <2>2, <2>3, <2>4, <2>5, EdgedOnes DEF q
  <2> QED BY <2>1, <2>5, <2>6 DEF e, q
<1>6. CASE d.two_phase # "PhysicalSecondaryClickHeld"
  <2>1. \/ e = gone
        \/ /\ config.scroll_enabled /\ ~ButtonHeld(d) /\ IsPair(LiveComplete(f))
           /\ e = AnchorPair(gone, f)
    BY <1>6 DEF PairDiscontinuity
  <2> QED BY <1>4, <1>5, <1>6, <2>1
<1> QED BY <1>3, <1>6

\* After the edges and the discontinuity the draft is ready for contacts.
LEMMA DiscontinuityHolds ==
  ASSUME NEW p, Ready(p), NEW f, IsFrame(f)
  PROVE  Mid(p, f, Discontinuity(PhysicalEdges(p, f), f))
<1> DEFINE d == PhysicalEdges(p, f)
           c == CancelTapPolicy(CancelInteraction(d))
           e == PairDiscontinuity(c, f)
<1>1. /\ Edged(p, f, d, f.right, Presses(p, f))
      /\ d.two_phase \in Pairing => d.two_phase = p.two_phase
  BY PhysicalEdgesHolds
<1> HIDE DEF d
<1>2. CASE ~f.discontinuity
  BY <1>1, <1>2 DEF Discontinuity, Mid, d
<1>3. CASE f.discontinuity
  <2>1. /\ TapInv(c) /\ Others(d, c) /\ LeftMid(p, c) /\ c.tap_phase = "Idle"
    BY <1>1, CutHolds DEF Ready, TapInv, Edged
  <2>2. Edged(p, f, c, f.right, Presses(p, f))
    <3> HIDE DEF c
    <3> QED BY <1>1, <2>1, EdgedOthers
  <2>3. Discontinuity(d, f) = e
    BY <1>3 DEF Discontinuity
  <2> HIDE DEF c
  <2>4. /\ Edged(p, f, e, f.right, Presses(p, f)) /\ e.tap_phase = "Idle"
        /\ e.two_phase \in Pairing =>
             e.two_phase = "Candidate" /\ e.two_finger_ids = LiveComplete(f)
    BY <2>1, <2>2, PairDiscontinuityHolds
  <2> QED BY <1>3, <2>3, <2>4 DEF Mid, d
<1> QED BY <1>2, <1>3

\* A follow-up that comes too late is dropped, and a held drag let go of.
LEMMA ExpireHolds ==
  ASSUME NEW p \in StateType, NEW d, NEW late, TapInv(d), LeftMid(p, d)
  PROVE  LET e == ExpireFollowUp(d, late) IN
         /\ TapInv(e) /\ Others(d, e) /\ LeftMid(p, e) /\ Pointer(d, e)
         /\ d.tap_phase = "Idle" => e.tap_phase = "Idle"
<1>0. d \in StateType
  BY DEF TapInv
<1>1. CASE d.tap_phase = "FollowUpWindow" /\ late
  <2> DEFINE e == TapRests(EndSynthetic(d))
  <2>1. /\ Others(d, e) /\ Pointer(d, e) /\ LetGo(d, e) /\ e.tap_phase = "Idle"
    BY <1>0, LetGoRests
  <2>2. ExpireFollowUp(d, late) = e
    BY <1>1 DEF ExpireFollowUp
  <2> HIDE DEF e
  <2>3. TapInv(e)
    BY <2>1, SyntheticType DEF TapInv, Others, Pointer, LetGo, Interacting, Touching
  <2>4. LeftMid(p, e)
    BY <2>1, <1>0, SyntheticType DEF LeftMid, LeftAccount, Others, LetGo
  <2> QED BY <2>1, <2>2, <2>3, <2>4
<1>2. CASE ~(d.tap_phase = "FollowUpWindow" /\ late)
  BY <1>0, <1>2 DEF ExpireFollowUp, Others, Pointer
<1> QED BY <1>1, <1>2

\* The draft is ready for contacts when the late follow-up is dropped too.
LEMMA MidHolds ==
  ASSUME NEW p, Ready(p), NEW f, IsFrame(f)
  PROVE  Mid(p, f, ExpireFollowUp(Discontinuity(PhysicalEdges(p, f), f), f.late))
<1> DEFINE d == Discontinuity(PhysicalEdges(p, f), f)
           e == ExpireFollowUp(d, f.late)
<1>1. Mid(p, f, d)
  BY DiscontinuityHolds
<1> HIDE DEF d
<1>2. /\ TapInv(e) /\ Others(d, e) /\ LeftMid(p, e)
      /\ d.tap_phase = "Idle" => e.tap_phase = "Idle"
  BY <1>1, ExpireHolds DEF Ready, TapInv, Mid, Edged
<1> HIDE DEF e
<1>3. Edged(p, f, e, f.right, Presses(p, f))
  BY <1>1, <1>2, EdgedOthers DEF Mid
<1> QED BY <1>1, <1>2, <1>3 DEF Mid, Others, e, d

-----------------------------------------------------------------------------
(* The contacts.                                                           *)
\* One live contact is not a pair, and a pair is not one contact.
LEMMA LiveCount ==
  ASSUME NEW f, IsFrame(f)
  PROVE  /\ Cardinality(Live(f)) = 1 => \E i \in Ids : Live(f) = {i}
         /\ Cardinality(Live(f)) = 1 => Live(f) # {}
         /\ IsPair(Live(f)) => Live(f) # {} /\ Cardinality(Live(f)) # 1
<1>1. IsFiniteSet(Live(f)) /\ Live(f) \subseteq Ids
  BY ArbiterAssumption, FS_Subset DEF ArbiterAssumption, Live
<1>2. Cardinality(Live(f)) = 1 => \E i : Live(f) = {i}
  BY <1>1, FS_Singleton
<1>3. Cardinality(Live(f)) = 1 => Live(f) # {}
  BY FS_EmptySet
<1>4. ASSUME IsPair(Live(f)) PROVE Live(f) # {} /\ Cardinality(Live(f)) # 1
  <2>1. PICK i, j \in Live(f) : i # j /\ Live(f) = {i, j}
    BY <1>4 DEF IsPair
  <2>2. ASSUME Cardinality(Live(f)) = 1 PROVE FALSE
    <3>1. PICK k : Live(f) = {k}
      BY <1>2, <2>2
    <3> QED BY <2>1, <3>1
  <2> QED BY <2>1, <2>2
<1> QED BY <1>1, <1>2, <1>3, <1>4

Contacts(d, f) ==
  CASE Live(f) = {} -> NoFinger(d, f)
    [] Cardinality(Live(f)) = 1 -> OneFinger(d, f)
    [] OTHER -> SeveralFingers(d)

\* Whatever the number of contacts, the one-finger policy keeps the account,
\* and a pair finds the tap at rest.
LEMMA ContactsHold ==
  ASSUME NEW p \in StateType, NEW f, IsFrame(f), NEW d, Mid(p, f, d)
  PROVE  LET e == Contacts(d, f) IN
         /\ Contacted(p, d, e, f)
         /\ Live(f) # {} /\ Cardinality(Live(f)) # 1 =>
              e.tap_phase = "Idle" /\ e.tracking_id = None
<1>0. /\ TapInv(d) /\ LeftMid(p, d) /\ f.strayed \in BOOLEAN
      /\ f.discontinuity \in BOOLEAN /\ (f.discontinuity => d.tap_phase = "Idle")
  BY DEF Mid, Edged, IsFrame
<1>1. CASE Live(f) = {}
  <2>1. Contacts(d, f) = NoFinger(d, f)
    BY <1>1, LiveCount DEF Contacts
  <2> QED BY <1>0, <1>1, <2>1, NoFingerHolds, NoPair
<1>2. CASE Cardinality(Live(f)) = 1
  <2>1. Contacts(d, f) = OneFinger(d, f)
    BY <1>2, LiveCount DEF Contacts
  <2>2. PICK i \in Ids : Live(f) = {i}
    BY <1>2, LiveCount
  <2> QED BY <1>0, <1>2, <2>1, <2>2, OneFingerHolds
<1>3. CASE Live(f) # {} /\ Cardinality(Live(f)) # 1
  <2>1. Contacts(d, f) = SeveralFingers(d)
    BY <1>3 DEF Contacts
  <2> QED BY <1>0, <2>1, SeveralFingersHolds
<1> QED BY <1>1, <1>2, <1>3

\* What a frame decides, in terms of the state before it.
Decided(p, f, e) ==
  /\ TapInv(e) /\ PairInv(e) /\ LatchInv(e)
  /\ LeftAccount(p, e) /\ ScrollAccount(p, e)
  /\ e.physical_left_raw = f.left /\ e.physical_right = f.right
  /\ e.latched_right_down <=> LatchesPress(p, f)
  /\ e.latched_right_up <=>
       ~f.left /\ p.physical_left_raw /\ p.latched_right_owned
  /\ e.latched_right_owned <=>
       LatchesPress(p, f) \/ (p.latched_right_owned /\ f.left)
  /\ e.two_phase \in Pairing =>
       e.two_finger_ids = Live(f) /\ e.tap_phase = "Idle"
  /\ e.tap_phase \in Touching => e.tracking_id \in Live(f)
  /\ p.two_tap_disqualified \/ Presses(p, f) =>
       e.two_tap_disqualified \/ Live(f) = {}
  /\ Presses(p, f) =>
       e.two_phase \notin Pairing /\ ~e.synthetic_left /\ ~e.synthetic_down
  /\ e.synthetic_down => e.two_phase \notin Pairing
  /\ p.tap_phase = "Idle" => ~e.synthetic_left /\ ~e.synthetic_down
  /\ e.scroll_began \/ e.secondary_tap =>
       /\ p.two_phase = "Candidate" /\ ~Presses(p, f)
       /\ ~ButtonHeld(e) /\ ~e.synthetic_left /\ ~e.synthetic_down
  /\ e.secondary_tap => ~p.two_tap_disqualified /\ ~e.scroll_open
  /\ Live(f) # {} /\ Cardinality(Live(f)) # 1 =>
       e.tap_phase = "Idle" /\ e.tracking_id = None

\* The pair policy brings the draft to a decision.
LEMMA HandlePairHolds ==
  ASSUME NEW p \in StateType, NEW f, IsFrame(f), f.discontinuity => ~f.crossed,
         NEW d, Mid(p, f, d), NEW c, Contacted(p, d, c, f),
         Live(f) # {} /\ Cardinality(Live(f)) # 1 =>
           c.tap_phase = "Idle" /\ c.tracking_id = None
  PROVE  Decided(p, f, HandleTwoFinger(c, f))
<1> DEFINE enabled == \/ config.scroll_enabled \/ config.secondary_tap_enabled
                      \/ config.two_finger_physical_click_enabled
           drains == Live(f) = {} /\ (~enabled \/ c.two_phase = "Idle")
           b == IF drains THEN [c EXCEPT !.two_tap_disqualified = FALSE] ELSE c
           e == HandleTwoFinger(c, f)
           now == LiveComplete(f)
           missing == Live(f) \ now # {}
<1>0. p \in StateType /\ d \in StateType /\ c \in StateType
  BY DEF TapInv, Mid, Edged, Contacted
<1>1. e = IF enabled THEN HandlePair(b, f) ELSE b
  BY DEF HandleTwoFinger
\* The contacts of one finger leave the pair as it was.
<1>2. /\ TapInv(c) /\ LeftAccount(p, c) /\ PairInv(c) /\ ScrollAccount(p, c) /\ LatchInv(c)
      /\ ~c.scroll_began /\ ~c.secondary_tap
  BY DEF Contacted, Mid, Edged, Others, PairInv, ScrollAccount, LatchInv, ButtonHeld
<1>3. /\ Ones(c, b) /\ b.two_phase = c.two_phase /\ b.two_finger_ids = c.two_finger_ids
      /\ b.scroll_open = c.scroll_open /\ b.scroll_ended = c.scroll_ended
      /\ b.scroll_began = c.scroll_began /\ b.secondary_tap = c.secondary_tap
      /\ b.two_tap_disqualified = c.two_tap_disqualified \/ drains
  <2>1. CASE ~drains
    BY <1>0, <2>1 DEF Ones, Pointer, Quiet
  <2>2. CASE drains
    BY <1>0, <2>2 DEF Ones, Pointer, Quiet, StateType
  <2> QED BY <2>1, <2>2
<1>4. b \in StateType
  BY <1>3 DEF Ones
<1>5. /\ PairInv(b) /\ ScrollAccount(p, b) /\ ~b.scroll_began /\ ~b.secondary_tap
  BY <1>2, <1>3 DEF Ones, PairInv, ScrollAccount, ButtonHeld
<1>6. b.two_phase \in Pairing =>
        /\ ~c.synthetic_left /\ ~c.synthetic_down /\ ~Presses(p, f)
        /\ p.two_tap_disqualified => b.two_tap_disqualified
        /\ IF f.discontinuity
           THEN b.two_phase = "Candidate" /\ b.two_finger_ids = now
           ELSE b.two_phase = p.two_phase
  BY <1>2, <1>3 DEF Contacted, Mid, Edged, Others, PairInv, Pairing
<1>7. p.two_tap_disqualified \/ Presses(p, f) =>
        b.two_tap_disqualified \/ Live(f) = {}
  BY <1>3 DEF Contacted, Mid, Edged, Others
<1>8. Presses(p, f) => /\ b.two_phase \notin Pairing /\ ButtonHeld(b)
                       /\ ~c.synthetic_left /\ ~c.synthetic_down
  <2>1. Presses(p, f) => ButtonHeld(b)
    BY <1>3 DEF Contacted, Mid, Edged, Others, Ones, Presses, PressesLeft,
         PressesRight, LatchInv, ButtonHeld
  <2>2. Presses(p, f) => d.tap_phase = "Idle" /\ d.two_phase \notin Pairing
    BY DEF Mid, Edged
  <2> QED BY <1>3, <2>1, <2>2 DEF Contacted, Others
\* What is left is what the pair does.
<1>9. SUFFICES
        /\ Ones(b, e) /\ PairInv(e) /\ ScrollAccount(p, e)
        /\ e.two_phase \in Pairing =>
             e.two_finger_ids = Live(f) /\ IsPair(Live(f)) /\ ~Presses(p, f)
        /\ b.two_tap_disqualified => e.two_tap_disqualified
        /\ e.scroll_began \/ e.secondary_tap =>
             /\ b.two_phase = "Candidate" /\ ~f.discontinuity
             /\ ~ButtonHeld(b)
        /\ e.secondary_tap => ~b.two_tap_disqualified /\ ~e.scroll_open
  <2>1. TapInv(e) /\ LeftAccount(p, e) /\ LatchInv(e)
    BY <1>2, <1>3, <1>9 DEF Ones, Pointer, Quiet, TapInv, LeftAccount, LatchInv, Interacting
  <2>2. /\ e.physical_left_raw = f.left /\ e.physical_right = f.right
        /\ e.latched_right_down <=> LatchesPress(p, f)
        /\ e.latched_right_up <=>
             ~f.left /\ p.physical_left_raw /\ p.latched_right_owned
        /\ e.latched_right_owned <=>
             LatchesPress(p, f) \/ (p.latched_right_owned /\ f.left)
    BY <1>3, <1>9 DEF Ones, Contacted, Others, Mid, Edged
  <2>3. /\ e.two_phase \in Pairing => e.tap_phase = "Idle"
        /\ e.tap_phase \in Touching => e.tracking_id \in Live(f)
        /\ Live(f) # {} /\ Cardinality(Live(f)) # 1 =>
             e.tap_phase = "Idle" /\ e.tracking_id = None
    BY <1>3, <1>9, LiveCount DEF Ones, Pointer, Contacted
  <2>4. e.synthetic_left = c.synthetic_left /\ e.synthetic_down = c.synthetic_down
    BY <1>3, <1>9 DEF Ones, Quiet
  <2>5. e.synthetic_down => e.two_phase \notin Pairing
    BY <1>9, <2>4, NoPair DEF Contacted
  <2>a. p.tap_phase = "Idle" => ~e.synthetic_left /\ ~e.synthetic_down
    BY <2>4 DEF Contacted, Mid, Edged
  <2>6. ButtonHeld(e) <=> ButtonHeld(b)
    BY <1>9 DEF Ones, ButtonHeld
  <2>7. e.scroll_began \/ e.secondary_tap =>
       /\ p.two_phase = "Candidate" /\ ~Presses(p, f)
       /\ ~ButtonHeld(e) /\ ~e.synthetic_left /\ ~e.synthetic_down
    BY <1>6, <1>9, <2>4, <2>6 DEF Pairing
  <2>8. e.secondary_tap => ~p.two_tap_disqualified
    BY <1>6, <1>9 DEF Pairing
  <2> HIDE DEF b, e, now, drains, enabled
  <2> QED BY <1>7, <1>8, <1>9, <2>1, <2>2, <2>3, <2>4, <2>5, <2>7, <2>8, <2>a DEF Decided, e
<1> HIDE DEF b, drains
<1>10. Ones(b, b)
  BY <1>4 DEF Ones, Pointer, Quiet
<1>11. CASE e = b /\ b.two_phase \notin Pairing
  <2> HIDE DEF e
  <2> QED BY <1>5, <1>10, <1>11
<1>12. CASE ~enabled
  BY <1>1, <1>5, <1>11, <1>12 DEF PairInv
<1>13. CASE enabled /\ b.two_phase \notin Pairing
  <2>1. CASE e = b
    BY <1>11, <1>13, <2>1
  <2>2. CASE /\ e = AnchorPair(b, f) /\ IsPair(now) /\ ~missing /\ ~ButtonHeld(b)
             /\ config.scroll_enabled \/ config.secondary_tap_enabled
    <3>1. /\ Ones(b, e) /\ e.two_phase = "Candidate" /\ e.two_finger_ids = now
          /\ b.two_tap_disqualified => e.two_tap_disqualified
          /\ e.scroll_open = b.scroll_open /\ e.scroll_ended = b.scroll_ended
          /\ e.scroll_began = b.scroll_began /\ e.secondary_tap = b.secondary_tap
      BY <1>4, <2>2, AnchorPairFields DEF IsFrame
    <3>2. now = Live(f)
      BY <2>2 DEF LiveComplete
    <3> HIDE DEF e, now, missing
    <3>3. PairInv(e) /\ ScrollAccount(p, e)
      BY <1>5, <1>13, <2>2, <3>1, PhysicalType, <1>4 DEF PairInv, ScrollAccount, Ones, ButtonHeld, Pairing
    <3>4. ~Presses(p, f)
      BY <1>8, <2>2
    <3> QED BY <1>5, <2>2, <3>1, <3>2, <3>3, <3>4
  <2>3. \/ e = b
        \/ /\ e = AnchorPair(b, f) /\ IsPair(now) /\ ~missing /\ ~ButtonHeld(b)
           /\ config.scroll_enabled \/ config.secondary_tap_enabled
    <3>1. b.two_phase \in {"Idle", "PhysicalSecondaryClickHeld"}
      BY <1>4, <1>13 DEF StateType, TwoPhases, Pairing
    <3> QED BY <1>1, <1>13, <3>1 DEF HandlePair
  <2> QED BY <2>1, <2>2, <2>3
<1>14. CASE enabled /\ b.two_phase \in Pairing
  <2>0. b.scroll_open = (b.two_phase = "CommittedScroll") /\ IsPair(b.two_finger_ids) /\ ~Presses(p, f)
    BY <1>5, <1>6, <1>14 DEF PairInv
  <2>1. CASE e = UpdatePair(b, f) /\ ~missing /\ now = b.two_finger_ids
    <3>1. /\ Ones(b, e) /\ e.two_finger_ids = b.two_finger_ids
         /\ e.two_tap_disqualified = b.two_tap_disqualified
         /\ e.scroll_ended = b.scroll_ended /\ e.secondary_tap = b.secondary_tap
         /\ \/ /\ e.two_phase = b.two_phase /\ e.scroll_open = b.scroll_open
               /\ e.scroll_began = b.scroll_began
            \/ /\ b.two_phase = "Candidate" /\ ~ButtonHeld(b) /\ f.crossed
               /\ e.two_phase = "CommittedScroll"
               /\ e.scroll_open /\ e.scroll_began
      BY <1>4, <2>1, UpdatePairFields DEF IsFrame
    <3>2. Live(f) = b.two_finger_ids
      BY <2>1 DEF LiveComplete
    <3> HIDE DEF e, now, missing
    <3>3. PairInv(e) /\ ScrollAccount(p, e)
      BY <1>0, <1>5, <1>14, <2>0, <3>1, PhysicalType, <1>4 DEF PairInv, ScrollAccount, Ones, ButtonHeld, Pairing
    <3> QED BY <1>5, <2>0, <3>1, <3>2, <3>3
  <2>2. CASE e = CancelPair(b)
    <3>1. /\ Parted(b, e) /\ e.two_phase = "Idle" /\ e.two_tap_disqualified
          /\ e.secondary_tap = b.secondary_tap
      BY <1>4, <2>0, <2>2, CancelPairFields
    <3> HIDE DEF e
    <3>3. PairInv(e) /\ ScrollAccount(p, e)
      BY <1>0, <1>4, <1>5, <3>1, NoPair, PhysicalType DEF PairInv, ScrollAccount, Parted, Ones, Pairing
    <3> QED BY <1>5, <3>1, <3>3 DEF Parted, Pairing
  <2>3. CASE e = ReleasePair(b, f) /\ (missing \/ now # b.two_finger_ids) /\ ~missing
    <3>1. /\ Parted(b, e) /\ e.two_phase = "Idle"
          /\ e.two_tap_disqualified = b.two_tap_disqualified
          /\ e.secondary_tap /\ ~b.secondary_tap =>
              /\ b.two_phase = "Candidate" /\ ~b.two_tap_disqualified
              /\ ~ButtonHeld(b)
      BY <1>4, <2>0, <2>3, ReleasePairFields
    <3>2. ~f.discontinuity
      BY <1>6, <1>14, <2>3
    <3> HIDE DEF e, now, missing
    <3>3. PairInv(e) /\ ScrollAccount(p, e)
      BY <1>0, <1>4, <1>5, <3>1, NoPair, PhysicalType DEF PairInv, ScrollAccount, Parted, Ones, Pairing
    <3> QED BY <1>5, <3>1, <3>2, <3>3 DEF Parted, Pairing
  <2>4. \/ e = UpdatePair(b, f) /\ ~missing /\ now = b.two_finger_ids
        \/ e = CancelPair(b)
        \/ e = ReleasePair(b, f) /\ (missing \/ now # b.two_finger_ids) /\ ~missing
    <3>1. b.two_phase # "Idle" /\ b.two_phase # "PhysicalSecondaryClickHeld"
      BY <1>14 DEF Pairing
    <3> QED BY <1>1, <1>14, <3>1 DEF HandlePair
  <2> QED BY <2>1, <2>2, <2>3, <2>4
<1> QED BY <1>12, <1>13, <1>14

\* The lower policies decide a frame that they are given.
LEMMA ContactsDecide ==
  ASSUME NEW p \in StateType, NEW f, IsFrame(f), f.discontinuity => ~f.crossed,
         NEW d, Mid(p, f, d)
  PROVE  Decided(p, f, HandleContacts(d, f))
<1> DEFINE c == Contacts(d, f)
<1>1. HandleContacts(d, f) = HandleTwoFinger(c, f)
  BY DEF HandleContacts, Contacts
<1>2. /\ Contacted(p, d, c, f)
      /\ Live(f) # {} /\ Cardinality(Live(f)) # 1 =>
           c.tap_phase = "Idle" /\ c.tracking_id = None
  BY ContactsHold
<1> HIDE DEF c
<1> QED BY <1>1, <1>2, HandlePairHolds

\* handle_frame decides: from a ready arbiter every frame gives a draft whose
\* edges account for the sources and whose sources agree.
LEMMA FrameDecides ==
  ASSUME NEW f, IsFrame(f), f.discontinuity => ~f.crossed, Ready(arbiter)
  PROVE  Decided(arbiter, f, FrameDraft(f))
<1> DEFINE d == ExpireFollowUp(Discontinuity(PhysicalEdges(arbiter, f), f), f.late)
<1>1. Mid(arbiter, f, d) /\ arbiter \in StateType
  BY MidHolds DEF Ready, TapInv
<1>2. FrameDraft(f) = HandleContacts(d, f)
  BY DEF FrameDraft
<1> HIDE DEF d
<1> QED BY <1>1, <1>2, ContactsDecide

-----------------------------------------------------------------------------
(* The multiplexer: what a sequence of events makes of the wires.          *)
\* Every set of numbers that is not empty has a least member.
LEMMA LeastNat ==
  ASSUME NEW S \in SUBSET Nat, S # {}
  PROVE  \E m \in S : \A n \in S : m <= n
<1>1. PICK m \in S : \A n \in S : ~(<<n, m>> \in OpToRel(<, Nat))
  BY WFMin, NatLessThanWellFounded
<1>2. \A n \in S : ~(n < m)
  BY <1>1 DEF OpToRel
<1> QED BY <1>2

\* The maximum of a finite set of numbers is its largest member.
LEMMA MaxFromZero ==
  ASSUME NEW n \in Nat, NEW S \in SUBSET (0..n), S # {}
  PROVE  Max(S) \in S /\ \A k \in S : k <= Max(S)
<1> DEFINE back == {n - k : k \in S}
<1>1. back \in SUBSET Nat /\ back # {}
  <2>1. \A k \in S : n - k \in Nat
    OBVIOUS
  <2>2. PICK k : k \in S
    OBVIOUS
  <2> QED BY <2>1, <2>2
<1>2. PICK m \in back : \A b \in back : m <= b
  BY <1>1, LeastNat
<1>3. PICK k \in S : m = n - k
  BY <1>2
<1>4. \A j \in S : k >= j
  <2> SUFFICES ASSUME NEW j \in S PROVE k >= j
    OBVIOUS
  <2>1. n - k <= n - j
    BY <1>2, <1>3
  <2>2. k \in Nat /\ j \in Nat
    OBVIOUS
  <2> QED BY <2>1, <2>2
<1> QED BY <1>3, <1>4 DEF Max

\* So it is of a set of positive ones.
LEMMA MaxInSet ==
  ASSUME NEW n \in Nat, NEW S \in SUBSET (1..n), S # {}
  PROVE  Max(S) \in S /\ \A k \in S : k <= Max(S)
<1>1. S \in SUBSET (0..n)
  OBVIOUS
<1> QED BY <1>1, MaxFromZero

Before(es, i) == [w \in Wires |-> HeldBefore(es, i, w)]

\* Whether a wire is held before an event is a Boolean.
LEMMA HeldType ==
  ASSUME wire \in [Wires -> BOOLEAN], NEW es \in Seq(Events),
         NEW i \in 1..(Len(es) + 1), NEW w \in Wires
  PROVE  HeldBefore(es, i, w) \in BOOLEAN
<1> DEFINE earlier == {j \in 1..(i - 1) : es[j].on = w}
<1>1. CASE earlier = {}
  BY <1>1 DEF HeldBefore
<1>2. CASE earlier # {}
  <2>1. i - 1 \in Nat /\ earlier \in SUBSET (1..(i - 1))
    OBVIOUS
  <2>2. Max(earlier) \in earlier
    BY <1>2, <2>1, MaxInSet
  <2>3. es[Max(earlier)] \in Events
    BY <2>2
  <2>4. HeldBefore(es, i, w) = es[Max(earlier)].press
    BY <1>2 DEF HeldBefore
  <2> QED BY <2>3, <2>4 DEF Events
<1> QED BY <1>1, <1>2

\* An event more changes its own wire, and nothing before it.
LEMMA HeldAppended ==
  ASSUME NEW es \in Seq(Events), NEW e \in Events
  PROVE  LET fs == es \o <<e>> IN
         /\ fs \in Seq(Events) /\ Len(fs) = Len(es) + 1
         /\ \A i \in 1..Len(es) : fs[i] = es[i]
         /\ fs[Len(fs)] = e
         /\ \A i \in 1..(Len(es) + 1) : \A w \in Wires :
              HeldBefore(fs, i, w) = HeldBefore(es, i, w)
         /\ \A w \in Wires :
              HeldBefore(fs, Len(fs) + 1, w) =
                IF e.on = w THEN e.press ELSE HeldBefore(es, Len(es) + 1, w)
<1> DEFINE fs == es \o <<e>>
           n == Len(es)
<1>1. /\ fs \in Seq(Events) /\ Len(fs) = n + 1 /\ n \in Nat
      /\ \A i \in 1..n : fs[i] = es[i]
      /\ fs[n + 1] = e
  OBVIOUS
<1> HIDE DEF fs
<1>2. ASSUME NEW i \in 1..(n + 1), NEW w \in Wires
      PROVE  HeldBefore(fs, i, w) = HeldBefore(es, i, w)
  <2> DEFINE old == {j \in 1..(i - 1) : es[j].on = w}
             new == {j \in 1..(i - 1) : fs[j].on = w}
  <2>1. old = new /\ i - 1 \in Nat /\ old \in SUBSET (1..(i - 1))
    BY <1>1
  <2>2. CASE old = {}
    BY <2>1, <2>2 DEF HeldBefore
  <2>3. CASE old # {}
    <3>1. Max(old) \in old
      BY <2>1, <2>3, MaxInSet
    <3>2. fs[Max(old)] = es[Max(old)]
      BY <1>1, <3>1
    <3> QED BY <2>1, <2>3, <3>2 DEF HeldBefore
  <2> QED BY <2>2, <2>3
<1>3. ASSUME NEW w \in Wires
      PROVE  HeldBefore(fs, n + 2, w) =
               IF e.on = w THEN e.press ELSE HeldBefore(es, n + 1, w)
  <2> DEFINE old == {j \in 1..((n + 1) - 1) : es[j].on = w}
             new == {j \in 1..((n + 2) - 1) : fs[j].on = w}
  <2>1. CASE e.on = w
    <3>1. /\ n + 1 \in new /\ n + 1 \in Nat /\ new \in SUBSET (1..(n + 1))
          /\ \A k \in new : k <= n + 1
      BY <1>1, <2>1
    <3>2. Max(new) \in new /\ \A k \in new : k <= Max(new)
      BY <3>1, MaxInSet
    <3>3. Max(new) \in Nat /\ Max(new) <= n + 1
      <4>1. Max(new) \in new /\ new \in SUBSET (1..(n + 1))
        BY <3>1, <3>2
      <4> HIDE DEF new
      <4>2. Max(new) \in 1..(n + 1)
        BY <4>1, Zenon
      <4> QED BY <1>1, <4>2
    <3> HIDE DEF new, n
    <3>4. n + 1 <= Max(new)
      <4>1. n + 1 \in new /\ (\A k \in new : k <= Max(new))
        BY <3>1, <3>2
      <4> QED BY <4>1, Zenon
    <3>5. Max(new) = n + 1
      BY <3>1, <3>3, <3>4
    <3> QED BY <1>1, <2>1, <3>1, <3>5 DEF HeldBefore, new, n
  <2>2. CASE e.on # w
    <3>1. new = old /\ old \in SUBSET (1..n)
      BY <1>1, <2>2
    <3>2. CASE old = {}
      BY <2>2, <3>1, <3>2 DEF HeldBefore
    <3>3. CASE old # {}
      <4>1. Max(old) \in old
        BY <1>1, <3>1, <3>3, MaxInSet
      <4>2. fs[Max(old)] = es[Max(old)]
        BY <1>1, <3>1, <4>1
      <4> QED BY <2>2, <3>1, <3>3, <4>2 DEF HeldBefore
    <3> QED BY <3>2, <3>3
  <2> QED BY <2>1, <2>2
<1>4. Len(fs) + 1 = n + 2
  BY <1>1
<1> QED BY <1>1, <1>2, <1>3, <1>4 DEF fs

\* Where an event may stand: its wire changes, and the other owners of the
\* output have let go; left says that the left button is held physically.
Fits(h, e, left) ==
  /\ h[e.on] # e.press
  /\ e.press =>
       /\ e.on = "Right" => ~h["Scroll"] /\ (h["Left"] => left)
       /\ e.on = "Left" => ~h["Scroll"]
       /\ e.on = "Scroll" => ~h["Left"] /\ ~h["Right"]

\* The events so far fit; they leave the wires at l, r, s, and dr and ur say
\* whether the right button went down and came up among them.
Told(es, left, l, r, s, dr, ur) ==
  /\ es \in Seq(Events)
  /\ \A i \in DOMAIN es : Fits(Before(es, i), es[i], left)
  /\ WireAfter(es)["Left"] = l /\ WireAfter(es)["Right"] = r
  /\ WireAfter(es)["Scroll"] = s
  /\ Has(es, Down("Right")) <=> dr
  /\ Has(es, Up("Right")) <=> ur

\* What a sequence has when an event is appended to it on a condition.
LEMMA HasAppended ==
  ASSUME NEW es \in Seq(Events), NEW e \in Events, NEW x, NEW c \in BOOLEAN
  PROVE  Has(es \o If(c, e), x) <=> Has(es, x) \/ (c /\ x = e)
<1>1. CASE ~c
  BY <1>1 DEF If
<1>2. CASE c
  <2> DEFINE fs == es \o <<e>>
  <2>1. es \o If(c, e) = fs
    BY <1>2 DEF If
  <2>2. /\ DOMAIN fs = 1..(Len(es) + 1) /\ DOMAIN es = 1..Len(es)
        /\ \A i \in 1..Len(es) : fs[i] = es[i]
        /\ fs[Len(es) + 1] = e /\ Len(es) \in Nat
    OBVIOUS
  <2> HIDE DEF fs
  <2>3. ASSUME Has(es, x) PROVE Has(fs, x)
    <3>1. PICK k \in 1..Len(es) : es[k] = x
      BY <2>2, <2>3 DEF Has
    <3> QED BY <2>2, <3>1 DEF Has
  <2>4. Has(fs, e)
    BY <2>2 DEF Has
  <2>5. ASSUME Has(fs, x), x # e PROVE Has(es, x)
    <3>1. PICK k \in 1..(Len(es) + 1) : fs[k] = x
      BY <2>2, <2>5 DEF Has
    <3>2. k \in 1..Len(es)
      BY <2>2, <2>5, <3>1
    <3> QED BY <2>2, <3>1, <3>2 DEF Has
  <2> QED BY <1>2, <2>1, <2>3, <2>4, <2>5
<1> QED BY <1>1, <1>2

\* What Down and Up of a wire are made of.
LEMMA EventFields ==
  ASSUME NEW w \in Wires
  PROVE  /\ Down(w) \in Events /\ Down(w).press = TRUE /\ Down(w).on = w
         /\ Up(w) \in Events /\ Up(w).press = FALSE /\ Up(w).on = w
  BY DEF Events, Down, Up

\* No press is a release, and each names its wire.
LEMMA EventsDiffer ==
  /\ \A v, w \in Wires : Down(v) # Up(w)
  /\ \A v, w \in Wires : Down(v) = Down(w) => v = w
  /\ \A v, w \in Wires : Up(v) = Up(w) => v = w
  BY EventFields

\* Nothing told yet.
LEMMA ToldNothing ==
  ASSUME wire \in [Wires -> BOOLEAN], NEW left \in BOOLEAN
  PROVE  Told(<<>>, left, wire["Left"], wire["Right"], wire["Scroll"], FALSE, FALSE)
<1>1. DOMAIN <<>> = {} /\ Len(<<>>) = 0 /\ <<>> \in Seq(Events)
  OBVIOUS
<1>2. \A w \in Wires : WireAfter(<<>>)[w] = wire[w]
  BY <1>1 DEF WireAfter, HeldBefore
<1>3. {"Left", "Right", "Scroll"} = Wires
  BY DEF Wires
<1> QED BY <1>1, <1>2, <1>3 DEF Told, Has

\* What each group of events of a frame says, in the order of the code.
LeftPressed(p, f)    == /\ f.left /\ ~p.physical_left_raw /\ ~p.synthetic_left
                        /\ ~LatchesPress(p, f)
SyntheticPressed(d)  == d.synthetic_down /\ ~d.physical_left
LeftReleased(p, f)   == /\ ~f.left /\ p.physical_left_raw /\ ~p.synthetic_left
                        /\ ~p.latched_right_owned
SyntheticReleased(d) == d.synthetic_up /\ ~d.physical_left
RightPressed(p, f)   == f.right /\ ~p.physical_right /\ ~p.latched_right_owned
PairTapped(d, f)     == d.secondary_tap /\ ~f.right /\ ~d.latched_right_owned
Latched(d, f)        == d.latched_right_down /\ ~f.right
RightReleased(p, f)  == ~f.right /\ p.physical_right /\ ~p.latched_right_owned
Unlatched(d, f)      == d.latched_right_up /\ ~f.right

RightDown(p, d, f) == RightPressed(p, f) \/ PairTapped(d, f) \/ Latched(d, f)
RightUp(p, d, f) == RightReleased(p, f) \/ PairTapped(d, f) \/ Unlatched(d, f)

\* The left releases come before the presses.
Early(p, d, f) ==
  \/ /\ RightDown(p, d, f)
     /\ ~(/\ LeftPressed(p, f) \/ SyntheticPressed(d)
          /\ LeftReleased(p, f) \/ SyntheticReleased(d))
  \/ /\ p.synthetic_left /\ d.synthetic_up /\ d.synthetic_down
     /\ d.synthetic_left /\ ~d.physical_left

\* A conditional event is a sequence of at most one event.
LEMMA IfType == \A c \in BOOLEAN, e \in Events : If(c, e) \in Seq(Events)
<1> SUFFICES ASSUME NEW c \in BOOLEAN, NEW e \in Events
             PROVE  If(c, e) \in Seq(Events)
  OBVIOUS
<1>1. <<e>> \in Seq(Events) /\ <<>> \in Seq(Events)
  OBVIOUS
<1> QED BY <1>1 DEF If

\* An event more, if there is one.
Also(es, c, e) == es \o If(c, e)

Suits(es, c, e, left) == c => Fits(WireAfter(es), e, left)
Becomes(e, c, w, old, new) ==
  new <=> IF c /\ e.on = w THEN e.press ELSE old
Counts(e, c, x, old, new) == new <=> old \/ (c /\ e = x)

\* What an event more makes of an account that it fits.
LEMMA TellOne ==
  ASSUME wire \in [Wires -> BOOLEAN], NEW left \in BOOLEAN, NEW es,
         NEW l \in BOOLEAN, NEW r \in BOOLEAN, NEW s \in BOOLEAN,
         NEW dr \in BOOLEAN, NEW ur \in BOOLEAN,
         Told(es, left, l, r, s, dr, ur),
         NEW e \in Events, NEW c \in BOOLEAN,
         Suits(es, c, e, left),
         NEW l2 \in BOOLEAN, NEW r2 \in BOOLEAN, NEW s2 \in BOOLEAN,
         NEW dr2 \in BOOLEAN, NEW ur2 \in BOOLEAN,
         Becomes(e, c, "Left", l, l2),
         Becomes(e, c, "Right", r, r2),
         Becomes(e, c, "Scroll", s, s2),
         Counts(e, c, Down("Right"), dr, dr2),
         Counts(e, c, Up("Right"), ur, ur2)
  PROVE  Told(Also(es, c, e), left, l2, r2, s2, dr2, ur2)
<1>0. es \in Seq(Events) /\ e.press \in BOOLEAN
  BY DEF Told, Events
<1>h. /\ Has(es \o If(c, e), Down("Right")) <=> dr2
      /\ Has(es \o If(c, e), Up("Right")) <=> ur2
  BY <1>0, HasAppended DEF Told, Counts
<1>1. CASE ~c
  <2>1. es \o If(c, e) = es
    BY <1>0, <1>1 DEF If
  <2>2. l2 = l /\ r2 = r /\ s2 = s
    BY <1>1 DEF Becomes
  <2> QED BY <1>h, <2>1, <2>2 DEF Told, Also
<1>2. CASE c
  <2> DEFINE fs == es \o <<e>>
  <2>1. es \o If(c, e) = fs
    BY <1>2 DEF If
  <2>2. /\ fs \in Seq(Events) /\ Len(fs) = Len(es) + 1 /\ Len(es) \in Nat
        /\ \A i \in 1..Len(es) : fs[i] = es[i]
        /\ fs[Len(fs)] = e
        /\ \A i \in 1..(Len(es) + 1) : \A w \in Wires :
              HeldBefore(fs, i, w) = HeldBefore(es, i, w)
        /\ \A w \in Wires :
              HeldBefore(fs, Len(fs) + 1, w) =
                IF e.on = w THEN e.press ELSE HeldBefore(es, Len(es) + 1, w)
    BY <1>0, HeldAppended
  <2>3. DOMAIN fs = 1..(Len(es) + 1) /\ DOMAIN es = 1..Len(es)
    BY <1>0, <2>2
  <2> HIDE DEF fs
  <2>4. \A i \in 1..(Len(es) + 1) : Before(fs, i) = Before(es, i)
    BY <2>2 DEF Before
  <2>5. WireAfter(es) = Before(es, Len(es) + 1)
    BY DEF WireAfter, Before
  <2>6. ASSUME NEW i \in DOMAIN fs PROVE Fits(Before(fs, i), fs[i], left)
    <3>1. CASE i \in DOMAIN es
      BY <2>2, <2>3, <2>4, <3>1 DEF Told
    <3>2. CASE i = Len(es) + 1
      BY <1>2, <2>2, <2>4, <2>5, <3>2 DEF Suits
    <3> QED BY <2>2, <2>3, <3>1, <3>2
  <2>7. \A w \in Wires :
          WireAfter(fs)[w] = IF e.on = w THEN e.press ELSE WireAfter(es)[w]
    BY <2>2 DEF WireAfter
  <2>8. {"Left", "Right", "Scroll"} = Wires
    BY DEF Wires
  <2>9. /\ l2 = IF e.on = "Left" THEN e.press ELSE l
        /\ r2 = IF e.on = "Right" THEN e.press ELSE r
        /\ s2 = IF e.on = "Scroll" THEN e.press ELSE s
    BY <1>0, <1>2 DEF Becomes
  <2>10. /\ WireAfter(fs)["Left"] = l2 /\ WireAfter(fs)["Right"] = r2
         /\ WireAfter(fs)["Scroll"] = s2
    BY <2>7, <2>8, <2>9 DEF Told
  <2> QED BY <1>h, <2>1, <2>2, <2>6, <2>10 DEF Told, Also
<1> QED BY <1>1, <1>2

\* The left button goes down outside a scroll.
LEMMA LeftDownTold ==
  ASSUME wire \in [Wires -> BOOLEAN], NEW left \in BOOLEAN, NEW es,
         NEW l \in BOOLEAN, NEW r \in BOOLEAN, NEW s \in BOOLEAN,
         NEW dr \in BOOLEAN, NEW ur \in BOOLEAN, NEW c \in BOOLEAN,
         Told(es, left, l, r, s, dr, ur), c => ~l /\ ~s,
         NEW l2 \in BOOLEAN, l2 <=> l \/ c
  PROVE  Told(Also(es, c, Down("Left")), left, l2, r, s, dr, ur)
<1> DEFINE e == Down("Left")
<1>1. /\ e \in Events /\ e.press = TRUE /\ e.on = "Left"
      /\ e # Down("Right") /\ e # Up("Right")
  BY EventFields, EventsDiffer DEF Wires
<1>2. Suits(es, c, e, left)
  BY <1>1 DEF Told, Fits, Suits
<1> HIDE DEF e
<1>3. /\ Becomes(e, c, "Left", l, l2)
      /\ Becomes(e, c, "Right", r, r)
      /\ Becomes(e, c, "Scroll", s, s)
      /\ Counts(e, c, Down("Right"), dr, dr)
      /\ Counts(e, c, Up("Right"), ur, ur)
  BY <1>1 DEF Becomes, Counts
<1>4. Told(Also(es, c, e), left, l2, r, s, dr, ur)
  BY <1>1, <1>2, <1>3, TellOne
<1> QED BY <1>4 DEF e

\* The right button goes down outside a scroll, over a physical left at most.
LEMMA RightDownTold ==
  ASSUME wire \in [Wires -> BOOLEAN], NEW left \in BOOLEAN, NEW es,
         NEW l \in BOOLEAN, NEW r \in BOOLEAN, NEW s \in BOOLEAN,
         NEW dr \in BOOLEAN, NEW ur \in BOOLEAN, NEW c \in BOOLEAN,
         Told(es, left, l, r, s, dr, ur), c => ~r /\ ~s /\ (l => left),
         NEW r2 \in BOOLEAN, r2 <=> r \/ c, NEW dr2 \in BOOLEAN, dr2 <=> dr \/ c
  PROVE  Told(Also(es, c, Down("Right")), left, l, r2, s, dr2, ur)
<1> DEFINE e == Down("Right")
<1>1. /\ e \in Events /\ e.press = TRUE /\ e.on = "Right"
      /\ e # Up("Right")
  BY EventFields, EventsDiffer DEF Wires
<1>2. Suits(es, c, e, left)
  BY <1>1 DEF Told, Fits, Suits
<1> HIDE DEF e
<1>3. /\ Becomes(e, c, "Left", l, l)
      /\ Becomes(e, c, "Right", r, r2)
      /\ Becomes(e, c, "Scroll", s, s)
      /\ Counts(e, c, Down("Right"), dr, dr2)
      /\ Counts(e, c, Up("Right"), ur, ur)
  BY <1>1 DEF e, Becomes, Counts
<1>4. Told(Also(es, c, e), left, l, r2, s, dr2, ur)
  BY <1>1, <1>2, <1>3, TellOne
<1> QED BY <1>4 DEF e

\* A scroll begins with no button down.
LEMMA ScrollDownTold ==
  ASSUME wire \in [Wires -> BOOLEAN], NEW left \in BOOLEAN, NEW es,
         NEW l \in BOOLEAN, NEW r \in BOOLEAN, NEW s \in BOOLEAN,
         NEW dr \in BOOLEAN, NEW ur \in BOOLEAN, NEW c \in BOOLEAN,
         Told(es, left, l, r, s, dr, ur), c => ~s /\ ~l /\ ~r,
         NEW s2 \in BOOLEAN, s2 <=> s \/ c
  PROVE  Told(Also(es, c, Down("Scroll")), left, l, r, s2, dr, ur)
<1> DEFINE e == Down("Scroll")
<1>1. /\ e \in Events /\ e.press = TRUE /\ e.on = "Scroll"
      /\ e # Down("Right") /\ e # Up("Right")
  BY EventFields, EventsDiffer DEF Wires
<1>2. Suits(es, c, e, left)
  BY <1>1 DEF Told, Fits, Suits
<1> HIDE DEF e
<1>3. /\ Becomes(e, c, "Left", l, l)
      /\ Becomes(e, c, "Right", r, r)
      /\ Becomes(e, c, "Scroll", s, s2)
      /\ Counts(e, c, Down("Right"), dr, dr)
      /\ Counts(e, c, Up("Right"), ur, ur)
  BY <1>1 DEF Becomes, Counts
<1>4. Told(Also(es, c, e), left, l, r, s2, dr, ur)
  BY <1>1, <1>2, <1>3, TellOne
<1> QED BY <1>4 DEF e

\* The left button comes up.
LEMMA LeftUpTold ==
  ASSUME wire \in [Wires -> BOOLEAN], NEW left \in BOOLEAN, NEW es,
         NEW l \in BOOLEAN, NEW r \in BOOLEAN, NEW s \in BOOLEAN,
         NEW dr \in BOOLEAN, NEW ur \in BOOLEAN, NEW c \in BOOLEAN,
         Told(es, left, l, r, s, dr, ur), c => l,
         NEW l2 \in BOOLEAN, l2 <=> l /\ ~c
  PROVE  Told(Also(es, c, Up("Left")), left, l2, r, s, dr, ur)
<1> DEFINE e == Up("Left")
<1>1. /\ e \in Events /\ e.press = FALSE /\ e.on = "Left"
      /\ e # Down("Right") /\ e # Up("Right")
  BY EventFields, EventsDiffer DEF Wires
<1>2. Suits(es, c, e, left)
  BY <1>1 DEF Told, Fits, Suits
<1> HIDE DEF e
<1>3. /\ Becomes(e, c, "Left", l, l2)
      /\ Becomes(e, c, "Right", r, r)
      /\ Becomes(e, c, "Scroll", s, s)
      /\ Counts(e, c, Down("Right"), dr, dr)
      /\ Counts(e, c, Up("Right"), ur, ur)
  BY <1>1 DEF Becomes, Counts
<1>4. Told(Also(es, c, e), left, l2, r, s, dr, ur)
  BY <1>1, <1>2, <1>3, TellOne
<1> QED BY <1>4 DEF e

\* The right button comes up.
LEMMA RightUpTold ==
  ASSUME wire \in [Wires -> BOOLEAN], NEW left \in BOOLEAN, NEW es,
         NEW l \in BOOLEAN, NEW r \in BOOLEAN, NEW s \in BOOLEAN,
         NEW dr \in BOOLEAN, NEW ur \in BOOLEAN, NEW c \in BOOLEAN,
         Told(es, left, l, r, s, dr, ur), c => r,
         NEW r2 \in BOOLEAN, r2 <=> r /\ ~c, NEW ur2 \in BOOLEAN, ur2 <=> ur \/ c
  PROVE  Told(Also(es, c, Up("Right")), left, l, r2, s, dr, ur2)
<1> DEFINE e == Up("Right")
<1>1. /\ e \in Events /\ e.press = FALSE /\ e.on = "Right"
      /\ e # Down("Right")
  BY EventFields, EventsDiffer DEF Wires
<1>2. Suits(es, c, e, left)
  BY <1>1 DEF Told, Fits, Suits
<1> HIDE DEF e
<1>3. /\ Becomes(e, c, "Left", l, l)
      /\ Becomes(e, c, "Right", r, r2)
      /\ Becomes(e, c, "Scroll", s, s)
      /\ Counts(e, c, Down("Right"), dr, dr)
      /\ Counts(e, c, Up("Right"), ur, ur2)
  BY <1>1 DEF e, Becomes, Counts
<1>4. Told(Also(es, c, e), left, l, r2, s, dr, ur2)
  BY <1>1, <1>2, <1>3, TellOne
<1> QED BY <1>4 DEF e

\* A scroll ends.
LEMMA ScrollUpTold ==
  ASSUME wire \in [Wires -> BOOLEAN], NEW left \in BOOLEAN, NEW es,
         NEW l \in BOOLEAN, NEW r \in BOOLEAN, NEW s \in BOOLEAN,
         NEW dr \in BOOLEAN, NEW ur \in BOOLEAN, NEW c \in BOOLEAN,
         Told(es, left, l, r, s, dr, ur), c => s,
         NEW s2 \in BOOLEAN, s2 <=> s /\ ~c
  PROVE  Told(Also(es, c, Up("Scroll")), left, l, r, s2, dr, ur)
<1> DEFINE e == Up("Scroll")
<1>1. /\ e \in Events /\ e.press = FALSE /\ e.on = "Scroll"
      /\ e # Down("Right") /\ e # Up("Right")
  BY EventFields, EventsDiffer DEF Wires
<1>2. Suits(es, c, e, left)
  BY <1>1 DEF Told, Fits, Suits
<1> HIDE DEF e
<1>3. /\ Becomes(e, c, "Left", l, l)
      /\ Becomes(e, c, "Right", r, r)
      /\ Becomes(e, c, "Scroll", s, s2)
      /\ Counts(e, c, Down("Right"), dr, dr)
      /\ Counts(e, c, Up("Right"), ur, ur)
  BY <1>1 DEF Becomes, Counts
<1>4. Told(Also(es, c, e), left, l, r, s2, dr, ur)
  BY <1>1, <1>2, <1>3, TellOne
<1> QED BY <1>4 DEF e

\* The events of a frame one after the other.
Chain(p, d, f, early) ==
  LET e1 == Also(<<>>, early /\ LeftReleased(p, f), Up("Left"))
      e2 == Also(e1, early /\ SyntheticReleased(d), Up("Left"))
      e3 == Also(e2, d.scroll_ended, Up("Scroll"))
      e4 == Also(e3, LeftPressed(p, f), Down("Left"))
      e5 == Also(e4, SyntheticPressed(d), Down("Left"))
      e6 == Also(e5, RightPressed(p, f), Down("Right"))
      e7 == Also(e6, PairTapped(d, f), Down("Right"))
      e8 == Also(e7, Latched(d, f), Down("Right"))
      e9 == Also(e8, d.scroll_began, Down("Scroll"))
      e10 == Also(e9, ~early /\ LeftReleased(p, f), Up("Left"))
      e11 == Also(e10, ~early /\ SyntheticReleased(d), Up("Left"))
      e12 == Also(e11, RightReleased(p, f), Up("Right"))
      e13 == Also(e12, PairTapped(d, f), Up("Right"))
  IN Also(e13, Unlatched(d, f), Up("Right"))

\* Concatenation is associative.
Regrouped(s, a, b) ==
  /\ s \o (a \o b) = (s \o a) \o b
  /\ s \o a \in Seq(Events) /\ a \o b \in Seq(Events)
  /\ (s \o a) \o b \in Seq(Events)
  /\ <<>> \o s = s

\* Concatenation regroups.
LEMMA Regroup == \A s, a, b \in Seq(Events) : Regrouped(s, a, b)
<1>1. ASSUME NEW s \in Seq(Events), NEW a \in Seq(Events), NEW b \in Seq(Events)
      PROVE  Regrouped(s, a, b)
  BY DEF Regrouped
<1> QED BY <1>1

\* The order in which the code tells the edges, as a chain of single events.
LEMMA OrderedForm ==
  ASSUME NEW p \in StateType, NEW d \in StateType, NEW f, IsFrame(f)
  PROVE  Ordered(p, d, f) = Chain(p, d, f, Early(p, d, f))
<1> DEFINE c1 == If(LeftReleased(p, f), Up("Left"))
           c2 == If(SyntheticReleased(d), Up("Left"))
           u  == If(d.scroll_ended, Up("Scroll"))
           a  == If(LeftPressed(p, f), Down("Left"))
           b  == If(SyntheticPressed(d), Down("Left"))
           e  == If(RightPressed(p, f), Down("Right"))
           t  == If(PairTapped(d, f), Down("Right"))
           g  == If(Latched(d, f), Down("Right"))
           v  == If(d.scroll_began, Down("Scroll"))
           h  == If(RightReleased(p, f), Up("Right"))
           y  == If(PairTapped(d, f), Up("Right"))
           j  == If(Unlatched(d, f), Up("Right"))
           downs == (((a \o b) \o e) \o t) \o g
           ups   == c1 \o c2
           rups  == (h \o y) \o j
           early == Early(p, d, f)
<1>0. /\ d.scroll_ended \in BOOLEAN /\ d.scroll_began \in BOOLEAN
      /\ LeftReleased(p, f) \in BOOLEAN /\ SyntheticReleased(d) \in BOOLEAN
      /\ LeftPressed(p, f) \in BOOLEAN /\ SyntheticPressed(d) \in BOOLEAN
      /\ RightPressed(p, f) \in BOOLEAN /\ PairTapped(d, f) \in BOOLEAN
      /\ Latched(d, f) \in BOOLEAN /\ RightReleased(p, f) \in BOOLEAN
      /\ Unlatched(d, f) \in BOOLEAN
  BY DEF StateType, LeftReleased, SyntheticReleased, LeftPressed, SyntheticPressed,
     RightPressed, PairTapped, Latched, RightReleased, Unlatched
<1>1. {"Left", "Right", "Scroll"} = Wires
  BY DEF Wires
<1>2. /\ Down("Left") \in Events /\ Down("Right") \in Events /\ Down("Scroll") \in Events
      /\ Up("Left") \in Events /\ Up("Right") \in Events /\ Up("Scroll") \in Events
  BY <1>1, EventFields
<1>3. /\ c1 \in Seq(Events) /\ c2 \in Seq(Events) /\ u \in Seq(Events)
      /\ a \in Seq(Events) /\ b \in Seq(Events) /\ e \in Seq(Events)
      /\ t \in Seq(Events) /\ g \in Seq(Events) /\ v \in Seq(Events)
      /\ h \in Seq(Events) /\ y \in Seq(Events) /\ j \in Seq(Events)
      /\ <<>> \in Seq(Events)
  BY <1>0, <1>2, IfType
<1>4. Downs(p, d, f) = downs /\ LeftUps(p, d, f) = ups /\ RightUps(p, d, f) = rups
  BY DEF Downs, LeftUps, RightUps, LeftPressed, SyntheticPressed, RightPressed,
     PairTapped, Latched, LeftReleased, SyntheticReleased, RightReleased, Unlatched
<1>5. /\ Has(downs, Down("Right")) <=> RightDown(p, d, f)
      /\ Has(downs, Down("Left")) <=> LeftPressed(p, f) \/ SyntheticPressed(d)
      /\ Has(ups, Up("Left")) <=> LeftReleased(p, f) \/ SyntheticReleased(d)
  <2>1. ASSUME NEW x
        PROVE /\ Has(<<>>, x) <=> FALSE
              /\ Has(c1, x) <=> (LeftReleased(p, f) /\ x = Up("Left"))
              /\ Has(a, x) <=> (LeftPressed(p, f) /\ x = Down("Left"))
    <3>1. ~Has(<<>>, x)
      BY DEF Has
    <3>2. <<>> \o c1 = c1 /\ <<>> \o a = a
      BY <1>3
    <3>3. Has(<<>> \o c1, x) <=> Has(<<>>, x) \/ (LeftReleased(p, f) /\ x = Up("Left"))
      BY <1>0, <1>2, <1>3, HasAppended
    <3>4. Has(<<>> \o a, x) <=> Has(<<>>, x) \/ (LeftPressed(p, f) /\ x = Down("Left"))
      BY <1>0, <1>2, <1>3, HasAppended
    <3> HIDE DEF c1, a
    <3> QED BY <3>1, <3>2, <3>3, <3>4
  <2>2. ASSUME NEW x
        PROVE  /\ Has(ups, x) <=>
                    \/ LeftReleased(p, f) /\ x = Up("Left")
                    \/ SyntheticReleased(d) /\ x = Up("Left")
               /\ Has(downs, x) <=>
                    \/ LeftPressed(p, f) /\ x = Down("Left")
                    \/ SyntheticPressed(d) /\ x = Down("Left")
                    \/ RightPressed(p, f) /\ x = Down("Right")
                    \/ PairTapped(d, f) /\ x = Down("Right")
                    \/ Latched(d, f) /\ x = Down("Right")
    <3>0. /\ a \o b \in Seq(Events) /\ (a \o b) \o e \in Seq(Events)
          /\ ((a \o b) \o e) \o t \in Seq(Events)
      <4>1. Regrouped(a, b, e)
        BY <1>3, Regroup
      <4>2. (a \o b) \o e \in Seq(Events) /\ a \o b \in Seq(Events)
        BY <4>1 DEF Regrouped
      <4>3. Regrouped((a \o b) \o e, t, t)
        BY <1>3, <4>2, Regroup
      <4> QED BY <4>2, <4>3 DEF Regrouped
    <3>1. Has(ups, x) <=> Has(c1, x) \/ (SyntheticReleased(d) /\ x = Up("Left"))
      BY <1>0, <1>2, <1>3, HasAppended
    <3>2. Has(a \o b, x) <=> Has(a, x) \/ (SyntheticPressed(d) /\ x = Down("Left"))
      BY <1>0, <1>2, <1>3, HasAppended
    <3>3. Has((a \o b) \o e, x) <=>
            Has(a \o b, x) \/ (RightPressed(p, f) /\ x = Down("Right"))
      BY <1>0, <1>2, <3>0, HasAppended
    <3>4. Has(((a \o b) \o e) \o t, x) <=>
            Has((a \o b) \o e, x) \/ (PairTapped(d, f) /\ x = Down("Right"))
      BY <1>0, <1>2, <3>0, HasAppended
    <3>5. Has(downs, x) <=>
            Has(((a \o b) \o e) \o t, x) \/ (Latched(d, f) /\ x = Down("Right"))
      <4> DEFINE abet == ((a \o b) \o e) \o t
      <4>1. abet \in Seq(Events)
        BY <3>0
      <4> HIDE DEF abet
      <4>2. Has(abet \o g, x) <=> Has(abet, x) \/ (Latched(d, f) /\ x = Down("Right"))
        BY <1>0, <1>2, <4>1, HasAppended
      <4> QED BY <4>2 DEF abet
    <3> QED BY <2>1, <3>1, <3>2, <3>3, <3>4, <3>5
  <2>3. Down("Left") # Down("Right")
    BY <1>1, EventsDiffer
  <2> HIDE DEF downs, ups
  <2> QED BY <2>2, <2>3 DEF RightDown
<1> DEFINE first == IF early THEN ups ELSE <<>>
           later == IF early THEN <<>> ELSE ups
<1>6. Ordered(p, d, f) = ((((first \o u) \o downs) \o v) \o later) \o rups
  <2> HIDE DEF downs, ups, rups, u, v
  <2> QED BY <1>4, <1>5 DEF Ordered, Early, u, v
<1> DEFINE f1 == If(early /\ LeftReleased(p, f), Up("Left"))
           f2 == If(early /\ SyntheticReleased(d), Up("Left"))
           l1 == If(~early /\ LeftReleased(p, f), Up("Left"))
           l2 == If(~early /\ SyntheticReleased(d), Up("Left"))
<1>7. /\ first = (<<>> \o f1) \o f2 /\ later = l1 \o l2
      /\ f1 \in Seq(Events) /\ f2 \in Seq(Events)
      /\ l1 \in Seq(Events) /\ l2 \in Seq(Events)
  <2>1. CASE early
    <3>1. f1 = c1 /\ f2 = c2 /\ l1 = <<>> /\ l2 = <<>> /\ first = ups /\ later = <<>>
      BY <2>1 DEF If
    <3> HIDE DEF early, first, later, c1, c2, f1, f2, l1, l2
    <3>2. <<>> \o c1 = c1 /\ <<>> \o <<>> = <<>>
      BY <1>3
    <3> QED BY <1>3, <3>1, <3>2
  <2>2. CASE ~early
    <3>1. f1 = <<>> /\ f2 = <<>> /\ l1 = c1 /\ l2 = c2 /\ first = <<>> /\ later = ups
      BY <2>2 DEF If
    <3> HIDE DEF early, first, later, c1, c2, f1, f2, l1, l2
    <3>2. <<>> \o <<>> = <<>>
      OBVIOUS
    <3> QED BY <1>3, <3>1, <3>2
  <2> QED BY <2>1, <2>2
<1> HIDE DEF first, later, f1, f2, l1, l2, a, b, e, t, g, h, y, j, u, v, early
<1> DEFINE z3 == ((<<>> \o f1) \o f2) \o u
           z8 == ((((z3 \o a) \o b) \o e) \o t) \o g
           z9 == z8 \o v
           zb == (z9 \o l1) \o l2
<1>8. z3 \in Seq(Events)
  <2>1. Regrouped(<<>>, f1, f2) /\ Regrouped((<<>> \o f1) \o f2, u, u)
    <3>1. Regrouped(<<>>, f1, f2)
      BY <1>3, <1>7, Regroup
    <3>2. (<<>> \o f1) \o f2 \in Seq(Events)
      BY <3>1 DEF Regrouped
    <3> QED BY <1>3, <3>1, <3>2, Regroup
  <2> QED BY <2>1 DEF Regrouped
<1> HIDE DEF z3
<1>9. z3 \o downs = z8 /\ z8 \in Seq(Events)
  <2> DEFINE ab == a \o b
             abe == ab \o e
             abet == abe \o t
  <2>1. Regrouped(z3, a, b)
    BY <1>3, <1>8, Regroup
  <2>2. ab \in Seq(Events)
    BY <2>1 DEF Regrouped
  <2>3. Regrouped(z3, ab, e)
    BY <1>3, <1>8, <2>2, Regroup
  <2>4. abe \in Seq(Events)
    BY <2>3 DEF Regrouped
  <2>5. Regrouped(z3, abe, t)
    BY <1>3, <1>8, <2>4, Regroup
  <2>6. abet \in Seq(Events)
    BY <2>5 DEF Regrouped
  <2>7. Regrouped(z3, abet, g)
    BY <1>3, <1>8, <2>6, Regroup
  <2> QED BY <2>1, <2>3, <2>5, <2>7 DEF Regrouped
<1> HIDE DEF z8
<1>10. z9 \in Seq(Events) /\ z9 \o later = zb /\ zb \in Seq(Events)
  <2>1. Regrouped(z8, v, v)
    BY <1>3, <1>9, Regroup
  <2>2. z9 \in Seq(Events)
    BY <2>1 DEF Regrouped
  <2>3. Regrouped(z9, l1, l2)
    BY <1>7, <2>2, Regroup
  <2> HIDE DEF z9
  <2> QED BY <1>7, <2>2, <2>3 DEF Regrouped
<1> HIDE DEF zb, z9
<1>11. zb \o rups = ((zb \o h) \o y) \o j
  <2> DEFINE hy == h \o y
  <2>1. Regrouped(zb, h, y)
    BY <1>3, <1>10, Regroup
  <2>2. hy \in Seq(Events)
    BY <2>1 DEF Regrouped
  <2>3. Regrouped(zb, hy, j)
    BY <1>3, <1>10, <2>2, Regroup
  <2> QED BY <2>1, <2>3 DEF Regrouped
<1>12. Ordered(p, d, f) = ((zb \o h) \o y) \o j
  BY <1>6, <1>7, <1>9, <1>10, <1>11 DEF z3, z9
<1> QED BY <1>12 DEF Chain, Also, zb, z9, z8, z3, f1, f2, l1, l2, a, b, e, t, g, h, y, j, u, v, early

\* The sources of the state before the frame are what the wires hold.
Showing(p) ==
  /\ wire \in [Wires -> BOOLEAN]
  /\ wire["Left"] <=> p.physical_left \/ p.synthetic_left
  /\ wire["Right"] <=> p.physical_right \/ p.latched_right_owned
  /\ wire["Scroll"] <=> p.scroll_open

\* Releasing the right button and pressing the left one over two fingers.
Swaps(p, f) == /\ p.physical_right /\ ~f.right
               /\ ~p.physical_left_raw /\ f.left

\* What the multiplexer needs to know of the state before the frame.
Sound(p) ==
  /\ p \in StateType /\ PairInv(p) /\ LatchInv(p)
  /\ p.physical_left => p.tap_phase = "Idle"
  /\ p.physical_left \/ p.two_phase = "Candidate" => ~p.synthetic_left

\* And of the draft: its sources, its edges, and which of them exclude others.
Accounted(p, f, d) ==
  /\ d \in StateType /\ LatchInv(d) /\ LeftAccount(p, d) /\ ScrollAccount(p, d)
  /\ d.physical_left_raw = f.left /\ d.physical_right = f.right
  /\ d.latched_right_down <=> LatchesPress(p, f)
  /\ d.latched_right_up <=>
       ~f.left /\ p.physical_left_raw /\ p.latched_right_owned
  /\ d.latched_right_owned <=>
       LatchesPress(p, f) \/ (p.latched_right_owned /\ f.left)
  /\ d.physical_left => ~d.synthetic_left
  /\ p.physical_left \/ Presses(p, f) => ~d.synthetic_left /\ ~d.synthetic_down
  /\ Presses(p, f) \/ d.synthetic_down \/ d.secondary_tap => ~d.scroll_open
  /\ d.scroll_began \/ d.secondary_tap =>
       p.two_phase = "Candidate" /\ ~Presses(p, f) /\ ~d.synthetic_down

\* A decided frame is accounted for.
LEMMA DecidedIsAccounted ==
  ASSUME NEW p, NEW f, NEW d, Sound(p), Decided(p, f, d)
  PROVE  Accounted(p, f, d)
<1>2. /\ d.physical_left => ~d.synthetic_left
      /\ p.physical_left => ~d.synthetic_left /\ ~d.synthetic_down
  BY DEF Sound, Decided, TapInv
<1>3. d.two_phase \notin Pairing => ~d.scroll_open
  BY DEF Decided, PairInv, Pairing
<1> QED BY <1>2, <1>3 DEF Decided, TapInv, Accounted

\* An arbiter that is ready is sound.
LEMMA ReadyIsSound ==
  ASSUME NEW p, Ready(p)
  PROVE  Sound(p)
  BY DEF Ready, TapInv, Sound, Pairing

\* The events of a decided frame fit: each changes its wire, no press is made
\* beside one that excludes it, the wires end where the sources are, and a right
\* press with its release is a secondary tap.
LEMMA FrameIsTold ==
  ASSUME NEW p \in StateType, NEW d \in StateType, NEW f, IsFrame(f),
         Sound(p), Accounted(p, f, d), Showing(p), ~Swaps(p, f)
  PROVE  /\ Told(Ordered(p, d, f), d.physical_left,
                 d.physical_left \/ d.synthetic_left,
                 d.physical_right \/ d.latched_right_owned, d.scroll_open,
                 RightDown(p, d, f), RightUp(p, d, f))
         /\ RightDown(p, d, f) /\ RightUp(p, d, f) => d.secondary_tap
<1> DEFINE C == LeftReleased(p, f)
           D == SyntheticReleased(d)
           A == LeftPressed(p, f)
           B == SyntheticPressed(d)
           E == RightPressed(p, f)
           F == PairTapped(d, f)
           G == Latched(d, f)
           H == RightReleased(p, f)
           J == Unlatched(d, f)
           U == d.scroll_ended
           V == d.scroll_began
           early == Early(p, d, f)
           l0 == wire["Left"]
           r0 == wire["Right"]
           s0 == wire["Scroll"]
           pl == d.physical_left
<1>1. /\ A \in BOOLEAN /\ B \in BOOLEAN /\ C \in BOOLEAN /\ D \in BOOLEAN
      /\ E \in BOOLEAN /\ F \in BOOLEAN /\ G \in BOOLEAN /\ H \in BOOLEAN
      /\ J \in BOOLEAN /\ U \in BOOLEAN /\ V \in BOOLEAN
      /\ early \in BOOLEAN /\ l0 \in BOOLEAN /\ r0 \in BOOLEAN
      /\ s0 \in BOOLEAN /\ pl \in BOOLEAN
      /\ d.synthetic_left \in BOOLEAN /\ d.latched_right_owned \in BOOLEAN
      /\ d.physical_right \in BOOLEAN /\ d.scroll_open \in BOOLEAN
  BY DEF StateType, LeftReleased, SyntheticReleased, LeftPressed, SyntheticPressed,
     RightPressed, PairTapped, Latched, RightReleased, Unlatched, Showing, Wires, Early, RightDown
\* The left button.
<1>2. /\ C => ~A /\ ~B /\ ~D /\ l0 /\ ~pl
      /\ A => ~B /\ ~D /\ ~l0 /\ pl
      /\ B => ~pl /\ (l0 => D /\ early)
      /\ D => ~pl /\ (l0 \/ B) /\ (early => l0)
      /\ (pl \/ d.synthetic_left) <=>
           \/ l0 /\ ~C /\ ~D
           \/ A
           \/ B /\ (D => early)
  <2>1. /\ p.physical_left_raw \in BOOLEAN /\ p.synthetic_left \in BOOLEAN
        /\ p.latched_right_owned \in BOOLEAN /\ p.physical_left \in BOOLEAN
        /\ f.left \in BOOLEAN
        /\ d.synthetic_down \in BOOLEAN /\ d.synthetic_up \in BOOLEAN
    BY DEF StateType, IsFrame
  <2>2. /\ p.physical_left <=> p.physical_left_raw /\ ~p.latched_right_owned
        /\ p.latched_right_owned => p.physical_left_raw
        /\ p.physical_left => ~p.synthetic_left
    BY <2>1 DEF Sound, LatchInv
  <2>3. LatchesPress(p, f) => f.left /\ ~p.physical_left_raw
    BY DEF LatchesPress
  <2>4. pl <=> f.left /\ ~(LatchesPress(p, f) \/ (p.latched_right_owned /\ f.left))
    BY <1>1, <2>1 DEF Accounted, LatchInv
  <2>5. /\ pl => ~d.synthetic_left
        /\ p.physical_left => ~d.synthetic_left /\ ~d.synthetic_down
    BY DEF Accounted
  <2>6. LeftAccount(p, d)
    BY DEF Accounted
  <2>7. B /\ D => (early <=> p.synthetic_left)
    BY <1>1, <2>1, <2>6 DEF Early, SyntheticPressed, SyntheticReleased, LeftAccount
  <2>8. l0 <=> p.physical_left \/ p.synthetic_left
    BY DEF Showing
  <2> HIDE DEF early
  <2> QED BY <1>1, <2>1, <2>2, <2>3, <2>4, <2>5, <2>6, <2>7, <2>8
       DEF LeftAccount, LeftReleased, SyntheticReleased, LeftPressed, SyntheticPressed
\* The right button.
<1>3. /\ E => ~F /\ ~G /\ ~H /\ ~J /\ ~r0
      /\ F => ~G /\ ~H /\ ~J /\ ~r0
      /\ G => ~H /\ ~J /\ ~r0
      /\ H => ~J /\ r0
      /\ J => r0
      /\ (d.physical_right \/ d.latched_right_owned) <=>
           (r0 /\ ~H /\ ~J) \/ E \/ G
  <2>1. /\ p.physical_left_raw \in BOOLEAN /\ p.physical_right \in BOOLEAN
        /\ p.latched_right_owned \in BOOLEAN
        /\ f.left \in BOOLEAN /\ f.right \in BOOLEAN
        /\ d.latched_right_down \in BOOLEAN /\ d.latched_right_up \in BOOLEAN
    BY DEF StateType, IsFrame
  <2>2. p.latched_right_owned => p.physical_left_raw
    BY DEF Sound, LatchInv
  <2>3. LatchesPress(p, f) => f.left /\ ~p.physical_left_raw
    BY DEF LatchesPress
  <2>4. /\ d.physical_right = f.right
        /\ d.latched_right_down <=> LatchesPress(p, f)
        /\ d.latched_right_up <=>
             ~f.left /\ p.physical_left_raw /\ p.latched_right_owned
        /\ d.latched_right_owned <=>
             LatchesPress(p, f) \/ (p.latched_right_owned /\ f.left)
    BY DEF Accounted
  <2>5. d.secondary_tap => ~p.physical_right /\ ~p.latched_right_owned /\ ~LatchesPress(p, f)
    <3>1. d.secondary_tap => ~ButtonHeld(p) /\ ~Presses(p, f)
      BY DEF Accounted, Sound, PairInv, Pairing
    <3> QED BY <2>3, <3>1 DEF ButtonHeld, Presses, PressesLeft
  <2>6. r0 <=> p.physical_right \/ p.latched_right_owned
    BY DEF Showing
  <2> QED BY <1>1, <2>1, <2>2, <2>3, <2>4, <2>5, <2>6
       DEF RightPressed, PairTapped, Latched, RightReleased, Unlatched, Swaps
\* The scroll.
<1>4. /\ U => s0
      /\ d.scroll_open <=> (s0 /\ ~U) \/ V
      /\ A \/ B \/ E \/ F \/ G => U \/ ~s0
      /\ V => ~s0 /\ ~l0 /\ ~r0 /\ ~A /\ ~B /\ ~E /\ ~F /\ ~G
  <2>1. /\ d.scroll_ended => p.scroll_open
        /\ d.scroll_open = ((p.scroll_open /\ ~d.scroll_ended) \/ d.scroll_began)
        /\ s0 <=> p.scroll_open
    BY DEF Accounted, ScrollAccount, Showing
  <2>2. A \/ E \/ G => Presses(p, f)
    BY DEF LeftPressed, RightPressed, Latched, Accounted, LatchesPress, Presses,
         PressesLeft, PressesRight
  <2>3. Presses(p, f) \/ B => ~d.scroll_open
    BY DEF Accounted, SyntheticPressed
  <2>4. V \/ d.secondary_tap =>
          /\ ~p.scroll_open /\ ~ButtonHeld(p) /\ ~p.synthetic_left
          /\ ~Presses(p, f) /\ ~d.synthetic_down
    BY DEF Accounted, Sound, PairInv, Pairing
  <2>6. d.secondary_tap => ~d.scroll_open
    BY DEF Accounted
  <2>7. /\ l0 <=> p.physical_left \/ p.synthetic_left
        /\ r0 <=> p.physical_right \/ p.latched_right_owned
    BY DEF Showing
  <2>8. /\ p.scroll_open \in BOOLEAN /\ p.physical_left \in BOOLEAN
        /\ p.physical_right \in BOOLEAN /\ p.latched_right_owned \in BOOLEAN
        /\ d.synthetic_down \in BOOLEAN /\ d.secondary_tap \in BOOLEAN
    BY DEF StateType
  <2>9. (B => d.synthetic_down) /\ (F => d.secondary_tap)
    BY <2>8 DEF SyntheticPressed, PairTapped
  <2> HIDE DEF A, B, C, D, E, F, G, H, J, early
  <2> QED BY <1>1, <2>1, <2>2, <2>3, <2>4, <2>6, <2>7, <2>8, <2>9 DEF ButtonHeld
\* Over what the left button holds, the right one goes down.
<1>5. E \/ F \/ G => pl \/ ((~l0 \/ C \/ D) /\ ~A /\ ~B /\ (C \/ D => early))
  <2>1. E \/ G => Presses(p, f)
    BY DEF RightPressed, Latched, Accounted, LatchesPress, Presses,
         PressesLeft, PressesRight
  <2>2. Presses(p, f) => ~d.synthetic_left /\ ~d.synthetic_down
    BY DEF Accounted
  <2>3. F => /\ ~p.physical_left /\ ~p.synthetic_left /\ ~Presses(p, f)
             /\ ~d.synthetic_down
    BY DEF Accounted, Sound, PairInv, Pairing, PairTapped, ButtonHeld
  <2>4. A => Presses(p, f)
    BY DEF LeftPressed, Presses, PressesLeft
  <2>5. B => d.synthetic_down
    BY DEF SyntheticPressed
  <2>6. E \/ F \/ G => (~(A \/ B) \/ ~(C \/ D) => early)
    BY DEF Early, RightDown
  <2>7. l0 <=> p.physical_left \/ p.synthetic_left
    BY DEF Showing
  <2> HIDE DEF A, B, C, D, E, F, G, H, J, early
  <2> QED BY <1>1, <1>2, <2>1, <2>2, <2>3, <2>4, <2>5, <2>6, <2>7
<1>6. /\ RightDown(p, d, f) = (E \/ F \/ G) /\ RightUp(p, d, f) = (H \/ F \/ J)
      /\ F => d.secondary_tap
  BY DEF RightDown, RightUp, PairTapped
<1> HIDE DEF A, B, C, D, E, F, G, H, J, early, l0, r0, s0, pl, U, V
<1>0. /\ wire \in [Wires -> BOOLEAN]
      /\ TRUE \in BOOLEAN /\ FALSE \in BOOLEAN
  BY DEF Showing
<1> DEFINE k1 == early /\ C
           k2 == early /\ D
           k3 == ~early /\ C
           k4 == ~early /\ D
           l1 == l0 /\ ~k1
           l2 == l1 /\ ~k2
           l4 == l2 \/ A
           l5 == l4 \/ B
           la == l5 /\ ~k3
           lb == la /\ ~k4
           s3 == s0 /\ ~U
           s9 == s3 \/ V
           r6 == r0 \/ E
           r7 == r6 \/ F
           r8 == r7 \/ G
           rc == r8 /\ ~H
           rd == rc /\ ~F
           re == rd /\ ~J
           no == FALSE
           d6 == no \/ E
           d7 == d6 \/ F
           d8 == d7 \/ G
           uc == no \/ H
           ud == uc \/ F
           ue == ud \/ J
<1>7. /\ k1 \in BOOLEAN /\ k2 \in BOOLEAN /\ k3 \in BOOLEAN /\ k4 \in BOOLEAN
      /\ l1 \in BOOLEAN /\ l2 \in BOOLEAN /\ l4 \in BOOLEAN /\ l5 \in BOOLEAN
      /\ la \in BOOLEAN /\ lb \in BOOLEAN /\ s3 \in BOOLEAN /\ s9 \in BOOLEAN
      /\ r6 \in BOOLEAN /\ r7 \in BOOLEAN /\ r8 \in BOOLEAN /\ rc \in BOOLEAN
      /\ rd \in BOOLEAN /\ re \in BOOLEAN /\ d6 \in BOOLEAN /\ d7 \in BOOLEAN
      /\ d8 \in BOOLEAN /\ uc \in BOOLEAN /\ ud \in BOOLEAN /\ ue \in BOOLEAN
      /\ no \in BOOLEAN
  BY <1>1
<1>8. /\ k1 <=> early /\ C
      /\ k2 <=> early /\ D
      /\ k3 <=> ~early /\ C
      /\ k4 <=> ~early /\ D
      /\ l1 <=> l0 /\ ~k1
      /\ l2 <=> l1 /\ ~k2
      /\ l4 <=> l2 \/ A
      /\ l5 <=> l4 \/ B
      /\ la <=> l5 /\ ~k3
      /\ lb <=> la /\ ~k4
      /\ s3 <=> s0 /\ ~U
      /\ s9 <=> s3 \/ V
  BY <1>1
<1>9. /\ r6 <=> r0 \/ E
      /\ r7 <=> r6 \/ F
      /\ r8 <=> r7 \/ G
      /\ rc <=> r8 /\ ~H
      /\ rd <=> rc /\ ~F
      /\ re <=> rd /\ ~J
      /\ d6 <=> no \/ E
      /\ d7 <=> d6 \/ F
      /\ d8 <=> d7 \/ G
      /\ uc <=> no \/ H
      /\ ud <=> uc \/ F
      /\ ue <=> ud \/ J
      /\ ~no
  BY <1>1
<1> DEFINE e1 == Also(<<>>, k1, Up("Left"))
           e2 == Also(e1, k2, Up("Left"))
           e3 == Also(e2, U, Up("Scroll"))
           e4 == Also(e3, A, Down("Left"))
           e5 == Also(e4, B, Down("Left"))
           e6 == Also(e5, E, Down("Right"))
           e7 == Also(e6, F, Down("Right"))
           e8 == Also(e7, G, Down("Right"))
           e9 == Also(e8, V, Down("Scroll"))
           ea == Also(e9, k3, Up("Left"))
           eb == Also(ea, k4, Up("Left"))
           ec == Also(eb, H, Up("Right"))
           ed == Also(ec, F, Up("Right"))
           ee == Also(ed, J, Up("Right"))
<1>10. Ordered(p, d, f) = ee
  BY OrderedForm DEF Chain, A, B, C, D, E, F, G, H, J, U, V, early
<1> HIDE DEF k1, k2, k3, k4, l1, l2, l4, l5, la, lb, s3, s9, r6, r7, r8, rc, rd,
         re, d6, d7, d8, uc, ud, ue, no
<1>11. /\ (k1 => l0) /\ (k2 => l1) /\ (U => s0) /\ (A => ~l2 /\ ~s3)
       /\ B => ~l4 /\ ~s3
       /\ E => ~r0 /\ ~s3 /\ (l5 => pl)
       /\ F => ~r6 /\ ~s3 /\ (l5 => pl)
       /\ G => ~r7 /\ ~s3 /\ (l5 => pl)
       /\ V => ~s3 /\ ~l5 /\ ~r8
       /\ (k3 => l5) /\ (k4 => la) /\ (H => r8) /\ (F => rc) /\ (J => rd)
  BY <1>1, <1>2, <1>3, <1>4, <1>5, <1>7, <1>8, <1>9
<1>12. Told(<<>>, pl, l0, r0, s0, no, no)
  BY <1>0, <1>1, ToldNothing DEF l0, r0, s0, no
<1>13. Told(e1, pl, l1, r0, s0, no, no)
  BY <1>0, <1>1, <1>7, <1>8, <1>11, <1>12, LeftUpTold
<1>14. Told(e2, pl, l2, r0, s0, no, no)
  BY <1>0, <1>1, <1>7, <1>8, <1>11, <1>13, LeftUpTold
<1>15. Told(e3, pl, l2, r0, s3, no, no)
  BY <1>0, <1>1, <1>7, <1>8, <1>11, <1>14, ScrollUpTold
<1>16. Told(e4, pl, l4, r0, s3, no, no)
  BY <1>0, <1>1, <1>7, <1>8, <1>11, <1>15, LeftDownTold
<1>17. Told(e5, pl, l5, r0, s3, no, no)
  BY <1>0, <1>1, <1>7, <1>8, <1>11, <1>16, LeftDownTold
<1>18. Told(e6, pl, l5, r6, s3, d6, no)
  BY <1>0, <1>1, <1>7, <1>9, <1>11, <1>17, RightDownTold
<1>19. Told(e7, pl, l5, r7, s3, d7, no)
  BY <1>0, <1>1, <1>7, <1>9, <1>11, <1>18, RightDownTold
<1>20. Told(e8, pl, l5, r8, s3, d8, no)
  BY <1>0, <1>1, <1>7, <1>9, <1>11, <1>19, RightDownTold
<1>21. Told(e9, pl, l5, r8, s9, d8, no)
  BY <1>0, <1>1, <1>7, <1>8, <1>11, <1>20, ScrollDownTold
<1>22. Told(ea, pl, la, r8, s9, d8, no)
  BY <1>0, <1>1, <1>7, <1>8, <1>11, <1>21, LeftUpTold
<1>23. Told(eb, pl, lb, r8, s9, d8, no)
  BY <1>0, <1>1, <1>7, <1>8, <1>11, <1>22, LeftUpTold
<1>24. Told(ec, pl, lb, rc, s9, d8, uc)
  BY <1>0, <1>1, <1>7, <1>9, <1>11, <1>23, RightUpTold
<1>25. Told(ed, pl, lb, rd, s9, d8, ud)
  BY <1>0, <1>1, <1>7, <1>9, <1>11, <1>24, RightUpTold
<1>26. Told(ee, pl, lb, re, s9, d8, ue)
  BY <1>0, <1>1, <1>7, <1>9, <1>11, <1>25, RightUpTold
<1> HIDE DEF ee
<1>27. /\ lb = (pl \/ d.synthetic_left)
       /\ re = (d.physical_right \/ d.latched_right_owned)
       /\ s9 = d.scroll_open
       /\ d8 = RightDown(p, d, f) /\ ue = RightUp(p, d, f)
  <2>1. lb <=> (pl \/ d.synthetic_left)
    BY <1>1, <1>2, <1>7, <1>8
  <2>2. re <=> (d.physical_right \/ d.latched_right_owned)
    BY <1>1, <1>3, <1>7, <1>9
  <2>3. s9 <=> d.scroll_open
    BY <1>1, <1>4, <1>7, <1>8
  <2>4. (ue <=> (H \/ F \/ J)) /\ (d8 <=> (E \/ F \/ G))
    BY <1>1, <1>7, <1>9
  <2> QED BY <1>1, <1>6, <1>7, <2>1, <2>2, <2>3, <2>4
<1>28. RightDown(p, d, f) /\ RightUp(p, d, f) => d.secondary_tap
  BY <1>1, <1>3, <1>6
<1> QED BY <1>10, <1>26, <1>27, <1>28 DEF pl

-----------------------------------------------------------------------------
(* The steps of the arbiter.                                               *)

\* The draft with what it collected told.
Settled(d) ==
  [d EXCEPT !.synthetic_down = FALSE, !.synthetic_up = FALSE,
            !.secondary_tap = FALSE, !.latched_right_down = FALSE,
            !.latched_right_up = FALSE, !.scroll_ended = FALSE,
            !.scroll_began = FALSE]

\* What a settled state keeps of the draft.
Kept(d, e) ==
  /\ e \in StateType /\ Pointer(d, e) /\ e.tap_phase = d.tap_phase
  /\ e.synthetic_left = d.synthetic_left
  /\ e.physical_left = d.physical_left
  /\ e.physical_left_raw = d.physical_left_raw
  /\ e.physical_right = d.physical_right
  /\ e.latched_right_owned = d.latched_right_owned
  /\ e.two_phase = d.two_phase /\ e.two_finger_ids = d.two_finger_ids
  /\ e.scroll_open = d.scroll_open
  /\ e.two_tap_disqualified = d.two_tap_disqualified

\* Settling a draft changes nothing that an owner needs.
LEMMA SettledFields ==
  ASSUME NEW d \in StateType
  PROVE  Kept(d, Settled(d)) /\ ~Drafted(Settled(d))
<1> DEFINE e == Settled(d)
<1>1. e \in StateType
  BY DEF Settled, StateType
<1>2. /\ e.lifecycle = d.lifecycle /\ e.tracking_id = d.tracking_id
      /\ e.tap_disqualified = d.tap_disqualified /\ e.tap_phase = d.tap_phase
      /\ e.synthetic_left = d.synthetic_left
      /\ e.physical_left = d.physical_left
      /\ e.physical_left_raw = d.physical_left_raw
      /\ e.physical_right = d.physical_right
  BY DEF Settled, StateType
<1>3. /\ e.latched_right_owned = d.latched_right_owned
      /\ e.two_phase = d.two_phase /\ e.two_finger_ids = d.two_finger_ids
      /\ e.scroll_open = d.scroll_open
      /\ e.two_tap_disqualified = d.two_tap_disqualified
  BY DEF Settled, StateType
<1>4. ~Drafted(e)
  BY DEF Settled, StateType, Drafted
<1> QED BY <1>1, <1>2, <1>3, <1>4 DEF Kept, Pointer

\* Forgetting the edges of a frame leaves the sources as they agreed.
LEMMA SettledHolds ==
  ASSUME NEW d, NEW e, Kept(d, e)
  PROVE  /\ TapInv(d) => TapInv(e)
         /\ PairInv(d) => PairInv(e)
         /\ LatchInv(d) => LatchInv(e)
  BY DEF Kept, Pointer, TapInv, PairInv, LatchInv, Interacting, ButtonHeld

\* What a decision tells is a sequence of events, and the wires stay wires.
LEMMA AlsoType ==
  ASSUME NEW es \in Seq(Events), NEW c \in BOOLEAN, NEW e \in Events
  PROVE  Also(es, c, e) \in Seq(Events)
<1>1. If(c, e) \in Seq(Events)
  BY IfType
<1> QED BY <1>1 DEF Also

\* The wires after a sequence of events are wires.
LEMMA WiresStay ==
  ASSUME wire \in [Wires -> BOOLEAN], NEW es \in Seq(Events)
  PROVE  WireAfter(es) \in [Wires -> BOOLEAN]
<1>1. Len(es) + 1 \in 1..(Len(es) + 1)
  OBVIOUS
<1>2. \A w \in Wires : HeldBefore(es, Len(es) + 1, w) \in BOOLEAN
  BY <1>1, HeldType
<1> QED BY <1>2 DEF WireAfter

\* The six events of the three wires.
LEMMA AllEvents ==
  /\ Down("Left") \in Events /\ Down("Right") \in Events /\ Down("Scroll") \in Events
  /\ Up("Left") \in Events /\ Up("Right") \in Events /\ Up("Scroll") \in Events
  BY EventFields DEF Wires

\* What a frame tells is a sequence of events.
LEMMA OrderedType ==
  ASSUME NEW p \in StateType, NEW d \in StateType, NEW f, IsFrame(f)
  PROVE  Ordered(p, d, f) \in Seq(Events)
<1> DEFINE early == Early(p, d, f)
           e1 == Also(<<>>, early /\ LeftReleased(p, f), Up("Left"))
           e2 == Also(e1, early /\ SyntheticReleased(d), Up("Left"))
           e3 == Also(e2, d.scroll_ended, Up("Scroll"))
           e4 == Also(e3, LeftPressed(p, f), Down("Left"))
           e5 == Also(e4, SyntheticPressed(d), Down("Left"))
           e6 == Also(e5, RightPressed(p, f), Down("Right"))
           e7 == Also(e6, PairTapped(d, f), Down("Right"))
           e8 == Also(e7, Latched(d, f), Down("Right"))
           e9 == Also(e8, d.scroll_began, Down("Scroll"))
           e10 == Also(e9, ~early /\ LeftReleased(p, f), Up("Left"))
           e11 == Also(e10, ~early /\ SyntheticReleased(d), Up("Left"))
           e12 == Also(e11, RightReleased(p, f), Up("Right"))
           e13 == Also(e12, PairTapped(d, f), Up("Right"))
           e14 == Also(e13, Unlatched(d, f), Up("Right"))
<1>0. /\ d.scroll_ended \in BOOLEAN /\ d.scroll_began \in BOOLEAN
      /\ LeftReleased(p, f) \in BOOLEAN /\ SyntheticReleased(d) \in BOOLEAN
      /\ LeftPressed(p, f) \in BOOLEAN /\ SyntheticPressed(d) \in BOOLEAN
      /\ RightPressed(p, f) \in BOOLEAN /\ PairTapped(d, f) \in BOOLEAN
      /\ Latched(d, f) \in BOOLEAN /\ RightReleased(p, f) \in BOOLEAN
      /\ Unlatched(d, f) \in BOOLEAN
      /\ (early /\ LeftReleased(p, f)) \in BOOLEAN
      /\ (early /\ SyntheticReleased(d)) \in BOOLEAN
      /\ (~early /\ LeftReleased(p, f)) \in BOOLEAN
      /\ (~early /\ SyntheticReleased(d)) \in BOOLEAN
  BY DEF StateType, LeftReleased, SyntheticReleased, LeftPressed,
     SyntheticPressed, RightPressed, PairTapped, Latched, RightReleased, Unlatched
<1>1. Ordered(p, d, f) = e14
  BY OrderedForm DEF Chain
<1> HIDE DEF early
<1>2. <<>> \in Seq(Events)
  OBVIOUS
<1>3. e1 \in Seq(Events) /\ e2 \in Seq(Events)
  BY <1>0, <1>2, AllEvents, AlsoType
<1>4. e3 \in Seq(Events) /\ e4 \in Seq(Events) /\ e5 \in Seq(Events)
  BY <1>0, <1>3, AllEvents, AlsoType
<1> HIDE DEF e5
<1>5. e6 \in Seq(Events) /\ e7 \in Seq(Events) /\ e8 \in Seq(Events)
  BY <1>0, <1>4, AllEvents, AlsoType
<1> HIDE DEF e8
<1>6. e9 \in Seq(Events) /\ e10 \in Seq(Events) /\ e11 \in Seq(Events)
  BY <1>0, <1>5, AllEvents, AlsoType
<1> HIDE DEF e11
<1>7. e12 \in Seq(Events) /\ e13 \in Seq(Events) /\ e14 \in Seq(Events)
  BY <1>0, <1>6, AllEvents, AlsoType
<1> QED BY <1>1, <1>7

\* A step on a frame is a step on one of these.
LEMMA FrameIs ==
  ASSUME Frame
  PROVE  \E f :
           /\ IsFrame(f)
           /\ f.discontinuity => ~f.crossed
           /\ SameFrameSwap \/ ~Swaps(arbiter, f)
           /\ HandleFrame(f)
<1> SUFFICES
      ASSUME NEW left \in BOOLEAN, NEW right \in BOOLEAN,
             NEW discontinuity \in BOOLEAN,
             NEW contact \in {c \in [Ids -> {"Absent", "Began", "Active", "Ended"}] :
                                Follows(c, discontinuity)},
             NEW incomplete \in {s \in SUBSET {i \in Ids : contact[i] # "Absent"} :
                                   Cardinality(s) <= MaxIncomplete},
             NEW crossed \in Possible(Moving /\ ~discontinuity),
             NEW strayed \in Possible(Moving /\ ~discontinuity),
             NEW late \in Possible(Timing),
             SameFrameSwap \/ ~(/\ arbiter.physical_right /\ ~right
                                /\ ~arbiter.physical_left_raw /\ left),
             HandleFrame([contact |-> contact, incomplete |-> incomplete,
                          left |-> left, right |-> right,
                          discontinuity |-> discontinuity, crossed |-> crossed,
                          strayed |-> strayed, late |-> late])
      PROVE  \E f :
               /\ IsFrame(f)
               /\ f.discontinuity => ~f.crossed
               /\ SameFrameSwap \/ ~Swaps(arbiter, f)
               /\ HandleFrame(f)
  BY DEF Frame
<1> DEFINE f == [contact |-> contact, incomplete |-> incomplete,
                 left |-> left, right |-> right,
                 discontinuity |-> discontinuity, crossed |-> crossed,
                 strayed |-> strayed, late |-> late]
<1>2. /\ crossed \in BOOLEAN /\ strayed \in BOOLEAN /\ late \in BOOLEAN
      /\ discontinuity => ~crossed
  BY DEF Possible
<1>3. IsFrame(f)
  BY <1>2 DEF IsFrame
<1>4. /\ f.discontinuity => ~f.crossed
      /\ SameFrameSwap \/ ~Swaps(arbiter, f)
  BY <1>2 DEF Swaps
<1> HIDE DEF f
<1>5. HandleFrame(f)
  BY DEF f
<1> QED BY <1>3, <1>4, <1>5

\* What is invariant makes the arbiter ready for a frame.
LEMMA OwnersReady ==
  ASSUME OwnersInv, ~regressed
  PROVE  Ready(arbiter) /\ arbiter \in StateType
  BY DEF OwnersInv, Ready, PadInv, TypeOK

\* A pair is being held exactly in the two phases that pair.
LEMMA PairingIs ==
  ASSUME NEW s, NEW phase, IsPair(s) <=> phase \in Pairing
  PROVE  IsPair(s) = (phase \in {"Candidate", "CommittedScroll"})
<1>1. IsPair(s) \in BOOLEAN
  BY DEF IsPair
<1> QED BY <1>1 DEF Pairing

\* What the two policies say of their fields, as the type invariant puts it.
LEMMA Typed ==
  ASSUME NEW e, TapInv(e), PairInv(e)
  PROVE  /\ e \in StateType
         /\ (e.tracking_id # None) = Interacting(e)
         /\ IsPair(e.two_finger_ids) =
              (e.two_phase \in {"Candidate", "CommittedScroll"})
  BY PairingIs DEF TapInv, PairInv

\* Every frame keeps the owners.
LEMMA FrameKeepsOwners ==
  ASSUME OwnersInv, NEW f, IsFrame(f), f.discontinuity => ~f.crossed, HandleFrame(f)
  PROVE  OwnersInv'
<1> DEFINE d == FrameDraft(f)
           es == Ordered(arbiter, d, f)
<1>1. ~regressed /\ Decide(d, es) /\ pad' = Live(f)
      /\ cluster' = (IF pad = {} THEN {} ELSE cluster) \cup Marks(f)
      /\ config' = config /\ regressed' = regressed
  BY DEF HandleFrame
<1>2. Ready(arbiter) /\ arbiter \in StateType
  BY <1>1, OwnersReady
<1>3. Decided(arbiter, f, d)
  BY <1>2, FrameDecides
<1> HIDE DEF d
<1>4. d \in StateType
  BY <1>3 DEF Decided, TapInv
<1>5. es \in Seq(Events)
  BY <1>2, <1>4, OrderedType
<1> HIDE DEF es
<1>6. arbiter' = Settled(d) /\ said' = es /\ wire' = WireAfter(es)
  BY <1>1 DEF Decide, Settled
<1>7. Kept(d, arbiter') /\ ~Drafted(arbiter')
  BY <1>4, <1>6, SettledFields
<1>8. TapInv(arbiter') /\ PairInv(arbiter') /\ LatchInv(arbiter')
  BY <1>3, <1>7, SettledHolds DEF Decided
<1>9. TapInv(arbiter)' /\ PairInv(arbiter)'
  BY <1>1, <1>8 DEF TapInv, PairInv
<1>10. TypeOK'
  <2>1. wire' \in [Wires -> BOOLEAN]
    BY <1>5, <1>6, WiresStay DEF OwnersInv, TypeOK
  <2>2. pad' \subseteq Ids
    BY <1>1 DEF Live
  <2>3. cluster' \subseteq {"held", "pressed", "cut"}
    BY <1>1 DEF Marks, OwnersInv, TypeOK
  <2>4. config' \in Configs /\ regressed' \in BOOLEAN
    BY <1>1 DEF OwnersInv, TypeOK
  <2>5. /\ arbiter' \in StateType
        /\ (arbiter'.tracking_id # None) = Interacting(arbiter')
        /\ IsPair(arbiter'.two_finger_ids) =
              (arbiter'.two_phase \in {"Candidate", "CommittedScroll"})
    BY <1>8, Typed
  <2> QED BY <1>5, <1>6, <2>1, <2>2, <2>3, <2>4, <2>5 DEF TypeOK, Interacting
<1>11. PadInv'
  <2>1. /\ arbiter'.two_phase \in Pairing =>
             arbiter'.two_finger_ids = pad' /\ arbiter'.tap_phase = "Idle"
        /\ arbiter'.tap_phase \in Touching => arbiter'.tracking_id \in pad'
    BY <1>1, <1>3, <1>7 DEF Decided, Kept, Pointer
  <2>2. ASSUME "pressed" \in cluster', pad' # {}
        PROVE  arbiter'.two_tap_disqualified
    <3>1. "pressed" \in Marks(f) => Presses(arbiter, f)
      BY DEF Marks, Presses, PressesLeft, PressesRight
    <3>2. "pressed" \in cluster /\ pad # {} => arbiter.two_tap_disqualified
      BY <1>1 DEF OwnersInv, PadInv
    <3>3. d.two_tap_disqualified
      BY <1>1, <1>3, <2>2, <3>1, <3>2 DEF Decided
    <3> QED BY <1>7, <3>3 DEF Kept
  <2> QED BY <2>1, <2>2 DEF PadInv
<1> QED BY <1>7, <1>8, <1>9, <1>10, <1>11 DEF OwnersInv, Drafted, LatchInv

\* A new arbiter holds nothing, and its sources agree.
LEMMA FreshHolds ==
  /\ Fresh \in StateType /\ TapInv(Fresh) /\ PairInv(Fresh) /\ LatchInv(Fresh)
  /\ ~Drafted(Fresh) /\ Fresh.two_phase = "Idle" /\ Fresh.tap_phase = "Idle"
  /\ ~Fresh.physical_left /\ ~Fresh.synthetic_left /\ ~Fresh.physical_right
  /\ ~Fresh.latched_right_owned /\ ~Fresh.scroll_open
<1>1. Fresh \in StateType
  BY DEF Fresh, StateType, Phases, TwoPhases
<1>2. /\ Fresh.tracking_id = None /\ Fresh.lifecycle = "Idle"
      /\ ~Fresh.tap_disqualified /\ Fresh.two_finger_ids = {}
      /\ ~Fresh.physical_left_raw
      /\ Fresh.two_phase = "Idle" /\ Fresh.tap_phase = "Idle"
      /\ ~Fresh.physical_left /\ ~Fresh.synthetic_left /\ ~Fresh.physical_right
      /\ ~Fresh.latched_right_owned /\ ~Fresh.scroll_open
  BY DEF Fresh
<1>3. ~Drafted(Fresh)
  BY DEF Fresh, Drafted
<1>4. /\ Fresh.physical_left \in BOOLEAN /\ Fresh.synthetic_left \in BOOLEAN
      /\ Fresh.scroll_open \in BOOLEAN
  BY DEF Fresh
<1> HIDE DEF Fresh
<1>5. TapInv(Fresh)
  BY <1>1, <1>2, <1>4 DEF TapInv, Interacting, Touching
<1>6. PairInv(Fresh) /\ LatchInv(Fresh)
  BY <1>2, <1>4, NoPair DEF PairInv, LatchInv, Pairing
<1> QED BY <1>1, <1>2, <1>3, <1>5, <1>6

\* The invariant holds in the beginning.
LEMMA InitOwners ==
  ASSUME Init
  PROVE  OwnersInv
<1>1. arbiter = Fresh /\ pad = {} /\ cluster = {} /\ said = <<>>
      /\ wire \in [Wires -> BOOLEAN] /\ config \in Configs /\ regressed = FALSE
  BY DEF Init
<1>2. TypeOK
  <2>1. /\ Fresh \in StateType
        /\ (Fresh.tracking_id # None) = Interacting(Fresh)
        /\ IsPair(Fresh.two_finger_ids) =
              (Fresh.two_phase \in {"Candidate", "CommittedScroll"})
    BY FreshHolds, Typed
  <2>2. <<>> \in Seq(Events)
    OBVIOUS
  <2> QED BY <1>1, <2>1, <2>2 DEF TypeOK
<1>3. PadInv
  BY <1>1, FreshHolds DEF PadInv, Pairing, Touching
<1> QED BY <1>1, <1>2, <1>3, FreshHolds DEF OwnersInv

\* A regressed frame keeps every press, and stops.
LEMMA RegressKeeps ==
  ASSUME NEW d \in StateType, (d.tracking_id # None) = Interacting(d),
         IsPair(d.two_finger_ids) <=> d.two_phase \in Pairing
  PROVE  LET one == TapRests(CancelInteraction(d))
             two == IF one.two_phase = "Idle" THEN one
                    ELSE [ForgetPair(one) EXCEPT !.two_phase = "Idle",
                                                 !.two_tap_disqualified = TRUE]
         IN /\ two \in StateType
            /\ (two.tracking_id # None) = Interacting(two)
            /\ IsPair(two.two_finger_ids) <=> two.two_phase \in Pairing
            /\ two.tap_phase = "Idle" /\ two.tracking_id = None
            /\ two.two_finger_ids \in {{}, d.two_finger_ids}
            /\ two.synthetic_left = d.synthetic_left
            /\ two.scroll_open = d.scroll_open
            /\ two.physical_left = d.physical_left
            /\ two.physical_left_raw = d.physical_left_raw
            /\ two.physical_right = d.physical_right
            /\ two.latched_right_owned = d.latched_right_owned
<1> DEFINE zero == CancelInteraction(d)
           one == TapRests(zero)
           two == IF one.two_phase = "Idle" THEN one
                  ELSE [ForgetPair(one) EXCEPT !.two_phase = "Idle",
                                               !.two_tap_disqualified = TRUE]
<1>1. /\ Others(d, zero) /\ Quiet(d, zero)
      /\ zero.tracking_id = None /\ zero.lifecycle = "Idle"
  <2>1. CASE d.tracking_id = None
    BY <2>1 DEF CancelInteraction, Others, Quiet, Interacting, StateType
  <2>2. CASE d.tracking_id # None
    BY <2>2, EndInteractionFields DEF CancelInteraction
  <2> QED BY <2>1, <2>2
<1>2. zero \in StateType
  BY <1>1 DEF Others
<1> HIDE DEF zero
<1>3. /\ Others(zero, one) /\ Pointer(zero, one) /\ Quiet(zero, one)
      /\ one.tap_phase = "Idle"
  BY <1>2, TapRestsFields
<1>4. one \in StateType
  BY <1>3 DEF Others
<1>5. /\ (one.tracking_id # None) = Interacting(one)
      /\ IsPair(one.two_finger_ids) <=> one.two_phase \in Pairing
      /\ one.tap_phase = "Idle" /\ one.tracking_id = None
      /\ one.two_finger_ids = d.two_finger_ids
      /\ one.synthetic_left = d.synthetic_left
      /\ one.scroll_open = d.scroll_open
      /\ one.physical_left = d.physical_left
      /\ one.physical_left_raw = d.physical_left_raw
      /\ one.physical_right = d.physical_right
      /\ one.latched_right_owned = d.latched_right_owned
  BY <1>1, <1>3 DEF Others, Pointer, Quiet, Interacting
<1> HIDE DEF one
<1>6. CASE one.two_phase = "Idle"
  BY <1>4, <1>5, <1>6 DEF one, zero
<1>7. CASE one.two_phase # "Idle"
  <2> DEFINE e == [ForgetPair(one) EXCEPT !.two_phase = "Idle",
                                          !.two_tap_disqualified = TRUE]
  <2>1. /\ e \in StateType /\ e.two_finger_ids = {} /\ e.two_phase = "Idle"
        /\ e.tracking_id = one.tracking_id /\ e.lifecycle = one.lifecycle
        /\ e.tap_phase = one.tap_phase
        /\ e.synthetic_left = one.synthetic_left
        /\ e.scroll_open = one.scroll_open
        /\ e.physical_left = one.physical_left
        /\ e.physical_left_raw = one.physical_left_raw
        /\ e.physical_right = one.physical_right
        /\ e.latched_right_owned = one.latched_right_owned
    BY <1>4 DEF ForgetPair, StateType, TwoPhases
  <2>2. two = e
    BY <1>7
  <2> HIDE DEF e
  <2> QED BY <1>5, <2>1, <2>2, NoPair DEF Interacting, Pairing, one, zero
<1> QED BY <1>6, <1>7 DEF one, zero

\* A clock that goes backwards changes neither sources nor wires.
LEMMA RegressKeepsOwners ==
  ASSUME TypeOK, LatchInv(arbiter), Regress
  PROVE  /\ OwnersInv' /\ said' = <<>>
         /\ WireFollowsSources => WireFollowsSources'
         /\ LowerRests => LowerRests'
         /\ arbiter'.synthetic_left = arbiter.synthetic_left
         /\ arbiter'.physical_left_raw = arbiter.physical_left_raw
         /\ arbiter'.physical_right = arbiter.physical_right
<1> DEFINE one == TapRests(CancelInteraction(arbiter))
           two == IF one.two_phase = "Idle" THEN one
                  ELSE [ForgetPair(one) EXCEPT !.two_phase = "Idle",
                                               !.two_tap_disqualified = TRUE]
<1>1. /\ arbiter \in StateType
      /\ (arbiter.tracking_id # None) = Interacting(arbiter)
      /\ IsPair(arbiter.two_finger_ids) <=> arbiter.two_phase \in Pairing
      /\ LatchInv(arbiter) /\ wire \in [Wires -> BOOLEAN]
  BY DEF TypeOK, Pairing
<1>2. /\ two \in StateType
      /\ (two.tracking_id # None) = Interacting(two)
      /\ IsPair(two.two_finger_ids) <=> two.two_phase \in Pairing
      /\ two.tap_phase = "Idle" /\ two.tracking_id = None
      /\ two.two_finger_ids \in {{}, arbiter.two_finger_ids}
      /\ two.synthetic_left = arbiter.synthetic_left
      /\ two.scroll_open = arbiter.scroll_open
      /\ two.physical_left = arbiter.physical_left
      /\ two.physical_left_raw = arbiter.physical_left_raw
      /\ two.physical_right = arbiter.physical_right
      /\ two.latched_right_owned = arbiter.latched_right_owned
  BY <1>1, RegressKeeps
<1>3. /\ Decide(two, <<>>) /\ regressed' = TRUE
      /\ config' = config /\ pad' = pad /\ cluster' = cluster
  BY DEF Regress
<1> HIDE DEF two
<1>4. arbiter' = Settled(two) /\ said' = <<>> /\ wire' = WireAfter(<<>>)
  BY <1>3 DEF Decide, Settled
<1>5. Kept(two, arbiter') /\ ~Drafted(arbiter')
  BY <1>2, <1>4, SettledFields
<1>6. <<>> \in Seq(Events)
  OBVIOUS
<1>7. wire' \in [Wires -> BOOLEAN] /\ \A w \in Wires : wire'[w] = wire[w]
  <2>1. \A w \in Wires : WireAfter(<<>>)[w] = wire[w]
    BY DEF WireAfter, HeldBefore
  <2> QED BY <1>1, <1>4, <1>6, <2>1, WiresStay
<1>8. TypeOK'
  <2>1. /\ arbiter' \in StateType
        /\ (arbiter'.tracking_id # None) = Interacting(arbiter')
        /\ IsPair(arbiter'.two_finger_ids) <=> arbiter'.two_phase \in Pairing
    BY <1>2, <1>5 DEF Kept, Pointer, Interacting
  <2>2. IsPair(arbiter'.two_finger_ids) =
          (arbiter'.two_phase \in {"Candidate", "CommittedScroll"})
    BY <2>1, PairingIs
  <2>3. /\ config' \in Configs /\ regressed' \in BOOLEAN /\ pad' \subseteq Ids
        /\ cluster' \subseteq {"held", "pressed", "cut"} /\ said' \in Seq(Events)
    BY <1>3, <1>4, <1>6 DEF TypeOK
  <2> QED BY <1>7, <2>1, <2>2, <2>3 DEF TypeOK, Interacting
<1>9. LatchInv(arbiter')
  BY <1>1, <1>2, <1>5 DEF LatchInv, Kept
<1>10. WireFollowsSources => WireFollowsSources'
  <2>1. {"Left", "Right", "Scroll"} = Wires
    BY DEF Wires
  <2> QED BY <1>2, <1>5, <1>7, <2>1 DEF WireFollowsSources, Kept
<1>11. LowerRests => LowerRests'
  BY <1>2, <1>5 DEF LowerRests, Kept, Pointer
<1>12. OwnersInv'
  BY <1>3, <1>5, <1>8, <1>9 DEF OwnersInv, Drafted, LatchInv
<1> QED BY <1>2, <1>4, <1>5, <1>10, <1>11, <1>12 DEF Kept

\* The expired follow-up lets go of the tap's button, if it still holds it.
LEMMA TickKeepsOwners ==
  ASSUME OwnersInv, Tick
  PROVE  /\ OwnersInv'
         /\ said' \in Seq(Events)
         /\ arbiter'.physical_right = arbiter.physical_right
         /\ WireFollowsSources =>
              /\ WireFollowsSources'
              /\ Told(said', arbiter'.physical_left, FALSE, wire["Right"],
                      wire["Scroll"], FALSE, FALSE)
<1> DEFINE ended == EndSynthetic(arbiter)
           d == TapRests(ended)
           es == If(d.synthetic_up, Up("Left"))
<1>1. /\ ~regressed /\ arbiter.tap_phase = "FollowUpWindow" /\ Decide(d, es)
      /\ config' = config /\ regressed' = regressed /\ pad' = pad
      /\ cluster' = cluster
  BY DEF Tick, ExpireFollowUp
<1>2. /\ TapInv(arbiter) /\ PairInv(arbiter) /\ LatchInv(arbiter) /\ PadInv
      /\ ~Drafted(arbiter) /\ arbiter \in StateType
      /\ wire \in [Wires -> BOOLEAN]
  BY <1>1 DEF OwnersInv, TypeOK
<1>3. Others(arbiter, ended) /\ Pointer(arbiter, ended) /\ LetGo(arbiter, ended)
  BY <1>2, EndSyntheticFields
<1>4. ended \in StateType
  BY <1>3 DEF Others
<1> HIDE DEF ended
<1>5. /\ Others(ended, d) /\ Pointer(ended, d) /\ Quiet(ended, d)
      /\ d.tap_phase = "Idle"
  BY <1>4, TapRestsFields
<1>6. /\ d \in StateType /\ ~d.synthetic_left /\ ~d.physical_left
      /\ d.synthetic_up
  <2>1. arbiter.synthetic_left /\ ~arbiter.physical_left
    BY <1>1, <1>2 DEF TapInv
  <2> QED BY <1>3, <1>5, <2>1 DEF LetGo, Others, Quiet
<1>7. TapInv(d) /\ PairInv(d) /\ LatchInv(d)
  <2> HIDE DEF d
  <2>1. Others(arbiter, d) /\ Pointer(arbiter, d)
    BY <1>3, <1>5 DEF Others, Pointer
  <2>2. d.synthetic_left = (d.tap_phase \notin {"Idle", "FirstTapCandidate"})
    BY <1>5, <1>6, SyntheticType
  <2>3. TapInv(d)
    BY <1>2, <1>5, <1>6, <2>1, <2>2 DEF TapInv, Pointer, Interacting, Touching
  <2>4. PairInv(d)
    BY <1>2, <2>1 DEF PairInv, Others, ButtonHeld
  <2>5. LatchInv(d)
    BY <1>2, <2>1 DEF LatchInv, Others
  <2> QED BY <2>3, <2>4, <2>5
<1> HIDE DEF d
<1>8. es = Also(<<>>, TRUE, Up("Left"))
  BY <1>6 DEF Also, If
<1>9. es \in Seq(Events)
  BY <1>6, AllEvents, IfType
<1>10. arbiter' = Settled(d) /\ said' = es /\ wire' = WireAfter(es)
  BY <1>1 DEF Decide, Settled
<1> HIDE DEF es
<1>11. Kept(d, arbiter') /\ ~Drafted(arbiter')
  BY <1>6, <1>10, SettledFields
<1>12. TapInv(arbiter') /\ PairInv(arbiter') /\ LatchInv(arbiter')
  BY <1>7, <1>11, SettledHolds
<1>13. wire' \in [Wires -> BOOLEAN]
  BY <1>2, <1>9, <1>10, WiresStay
<1>14. TypeOK'
  <2>1. /\ arbiter' \in StateType
        /\ (arbiter'.tracking_id # None) = Interacting(arbiter')
        /\ IsPair(arbiter'.two_finger_ids) =
              (arbiter'.two_phase \in {"Candidate", "CommittedScroll"})
    BY <1>12, Typed
  <2>2. /\ config' \in Configs /\ regressed' \in BOOLEAN /\ pad' \subseteq Ids
        /\ cluster' \subseteq {"held", "pressed", "cut"}
    BY <1>1 DEF OwnersInv, TypeOK
  <2> QED BY <1>9, <1>10, <1>13, <2>1, <2>2 DEF TypeOK, Interacting
<1>15. PadInv'
  <2>1. /\ arbiter'.two_phase = arbiter.two_phase
        /\ arbiter'.tap_phase = "Idle"
        /\ arbiter.two_tap_disqualified => arbiter'.two_tap_disqualified
    BY <1>3, <1>5, <1>11 DEF Others, Kept, d
  <2> QED BY <1>1, <1>2, <2>1 DEF PadInv, Pairing, Touching
<1>16. OwnersInv'
  BY <1>1, <1>11, <1>12, <1>14, <1>15
     DEF OwnersInv, Drafted, LatchInv, TapInv, PairInv
<1>17. ASSUME WireFollowsSources
       PROVE  /\ WireFollowsSources'
              /\ Told(es, FALSE, FALSE, wire["Right"], wire["Scroll"], FALSE, FALSE)
  <2> DEFINE l == wire["Left"]
             r == wire["Right"]
             s == wire["Scroll"]
             no == FALSE
             yes == TRUE
             left == FALSE
             l2 == FALSE
  <2>0. wire \in [Wires -> BOOLEAN]
    BY <1>2
  <2>1. l \in BOOLEAN /\ r \in BOOLEAN /\ s \in BOOLEAN /\ no \in BOOLEAN
        /\ left \in BOOLEAN /\ l2 \in BOOLEAN
        /\ yes \in BOOLEAN
    BY <1>2 DEF Wires
  <2>a. l
    BY <1>1, <1>2, <1>17 DEF WireFollowsSources, TapInv
  <2>2. Told(<<>>, left, l, r, s, no, no)
    BY <1>2, <2>1, ToldNothing
  <2>3. (l2 <=> l /\ ~yes) /\ (yes => l)
    BY <2>1, <2>a
  <2> HIDE DEF no, yes, l, r, s, left, l2
  <2>4. Told(Also(<<>>, yes, Up("Left")), left, l2, r, s, no, no)
    BY <2>0, <2>1, <2>2, <2>3, LeftUpTold
  <2>5. Told(es, FALSE, FALSE, wire["Right"], wire["Scroll"], FALSE, FALSE)
    BY <1>8, <2>4 DEF no, yes, r, s, left, l2
  <2>6. /\ d.physical_left = arbiter.physical_left
        /\ d.physical_right = arbiter.physical_right
        /\ d.latched_right_owned = arbiter.latched_right_owned
        /\ d.scroll_open = arbiter.scroll_open
    BY <1>3, <1>5 DEF Others, d
  <2>7. WireFollowsSources'
    BY <1>6, <1>10, <1>11, <1>17, <2>5, <2>6 DEF WireFollowsSources, Kept, Told
  <2> QED BY <2>5, <2>7
<1>18. arbiter'.physical_left = FALSE
  BY <1>6, <1>11 DEF Kept, StateType
<1>19. arbiter'.physical_right = arbiter.physical_right
  BY <1>3, <1>5, <1>11 DEF Others, Kept, d
<1> QED BY <1>9, <1>10, <1>16, <1>17, <1>18, <1>19

\* Each wire of a new arbiter has no source.
LEMMA FreshHoldsNothing ==
  /\ (Fresh.physical_left \/ Fresh.synthetic_left) = FALSE
  /\ (Fresh.physical_right \/ Fresh.latched_right_owned) = FALSE
  /\ Fresh.scroll_open = FALSE
  BY DEF Fresh

\* Releasing everything tells a release for each wire that holds.
LEMMA ReleaseAllKeepsOwners ==
  ASSUME TypeOK, ReleaseAll
  PROVE  /\ OwnersInv'
         /\ WireFollowsSources =>
              /\ WireFollowsSources'
              /\ \E dr : Told(said', FALSE, FALSE, FALSE, FALSE, FALSE, dr)
<1> DEFINE a == arbiter.physical_left \/ arbiter.synthetic_left
           b == arbiter.physical_right \/ arbiter.latched_right_owned
           c == arbiter.scroll_open
           e1 == Also(<<>>, a, Up("Left"))
           e2 == Also(e1, b, Up("Right"))
           e3 == Also(e2, c, Up("Scroll"))
<1>1. /\ arbiter \in StateType /\ wire \in [Wires -> BOOLEAN]
      /\ config' \in Configs /\ regressed' \in BOOLEAN /\ pad' \subseteq Ids
      /\ cluster' = {}
  BY DEF TypeOK, ReleaseAll
<1>2. a \in BOOLEAN /\ b \in BOOLEAN /\ c \in BOOLEAN
  BY <1>1 DEF StateType
<1>3. (If(a, Up("Left")) \o If(b, Up("Right"))) \o If(c, Up("Scroll")) = e3
  <2>1. If(a, Up("Left")) \in Seq(Events)
    BY <1>2, AllEvents, IfType
  <2>2. <<>> \o If(a, Up("Left")) = If(a, Up("Left"))
    BY <2>1
  <2> QED BY <2>2 DEF Also
<1>4. Decide(Fresh, e3)
  BY <1>3 DEF ReleaseAll
<1>5. e3 \in Seq(Events)
  <2>1. <<>> \in Seq(Events)
    OBVIOUS
  <2> HIDE DEF a, b, c
  <2> QED BY <1>2, <2>1, AllEvents, AlsoType
<1> HIDE DEF e3
<1>6. arbiter' = Settled(Fresh) /\ said' = e3 /\ wire' = WireAfter(e3)
  BY <1>4 DEF Decide, Settled
<1>7. Kept(Fresh, arbiter') /\ ~Drafted(arbiter')
  BY <1>6, FreshHolds, SettledFields
<1>8. TapInv(arbiter') /\ PairInv(arbiter') /\ LatchInv(arbiter')
  BY <1>7, FreshHolds, SettledHolds
<1>9. TypeOK'
  <2>1. /\ arbiter' \in StateType
        /\ (arbiter'.tracking_id # None) = Interacting(arbiter')
        /\ IsPair(arbiter'.two_finger_ids) =
              (arbiter'.two_phase \in {"Candidate", "CommittedScroll"})
    BY <1>8, Typed
  <2>2. wire' \in [Wires -> BOOLEAN]
    BY <1>1, <1>5, <1>6, WiresStay
  <2> QED BY <1>1, <1>5, <1>6, <2>1, <2>2 DEF TypeOK, Interacting
<1>10. arbiter'.two_phase = "Idle" /\ arbiter'.tap_phase = "Idle"
  BY <1>7, FreshHolds DEF Kept
<1>11. PadInv' /\ TapInv(arbiter)' /\ PairInv(arbiter)'
  BY <1>1, <1>8, <1>10 DEF PadInv, TapInv, PairInv, Touching, Pairing
<1>12. OwnersInv'
  BY <1>7, <1>8, <1>9, <1>11 DEF OwnersInv, Drafted, LatchInv
<1>13. ASSUME WireFollowsSources
       PROVE  /\ WireFollowsSources'
              /\ \E dr : Told(e3, FALSE, FALSE, FALSE, FALSE, FALSE, dr)
  <2> DEFINE l == wire["Left"]
             r == wire["Right"]
             s == wire["Scroll"]
             left == FALSE
             no == FALSE
             gone == FALSE
  <2>0. wire \in [Wires -> BOOLEAN]
    BY <1>1
  <2>1. l \in BOOLEAN /\ r \in BOOLEAN /\ s \in BOOLEAN /\ no \in BOOLEAN
        /\ left \in BOOLEAN /\ gone \in BOOLEAN
    BY <1>1 DEF Wires
  <2>2. Told(<<>>, left, l, r, s, no, no)
    BY <2>0, <2>1, ToldNothing
  <2>3. /\ (gone <=> l /\ ~a) /\ (a => l)
        /\ (gone <=> r /\ ~b) /\ (b => r)
        /\ (gone <=> s /\ ~c) /\ (c => s)
    BY <1>13, <1>2, <2>1 DEF WireFollowsSources
  <2> HIDE DEF a, b, c, no, l, r, s, left, gone, e1, e2
  <2>4. Told(e1, left, gone, r, s, no, no)
    BY <1>2, <2>0, <2>1, <2>2, <2>3, LeftUpTold DEF e1
  <2> DEFINE ur == no \/ b
  <2>5. ur \in BOOLEAN /\ (ur <=> no \/ b)
    BY <1>2, <2>1
  <2> HIDE DEF ur
  <2>6. Told(e2, left, gone, gone, s, no, ur)
    BY <1>2, <2>0, <2>1, <2>3, <2>4, <2>5, RightUpTold DEF e2
  <2>7. Told(e3, left, gone, gone, gone, no, ur)
    BY <1>2, <2>0, <2>1, <2>3, <2>5, <2>6, ScrollUpTold DEF e3
  <2>8. Told(e3, FALSE, FALSE, FALSE, FALSE, FALSE, ur)
    BY <2>7 DEF left, gone, no
  <2>9. WireFollowsSources'
    <3>1. /\ wire'["Left"] = FALSE /\ wire'["Right"] = FALSE
          /\ wire'["Scroll"] = FALSE
      BY <1>6, <2>8 DEF Told
    <3> QED BY <1>7, <3>1, FreshHoldsNothing DEF WireFollowsSources, Kept
  <2> QED BY <2>8, <2>9
<1> QED BY <1>6, <1>12, <1>13

\* The arbiter that takes new settings owns nothing that they could take away.
LEMMA ReplaceKeepsOwners ==
  ASSUME OwnersInv, ReplaceConfig
  PROVE  OwnersInv' /\ said' = <<>>
         /\ (WireFollowsSources => WireFollowsSources')
<1>1. /\ Quiescent /\ ~regressed /\ config' \in Configs /\ said' = <<>>
      /\ arbiter' = arbiter /\ regressed' = regressed /\ wire' = wire
      /\ pad' = pad /\ cluster' = cluster
  BY DEF ReplaceConfig
<1>2. TapInv(arbiter) /\ PairInv(arbiter) /\ PadInv
  BY <1>1 DEF OwnersInv
<1>3. <<>> \in Seq(Events)
  OBVIOUS
<1>4. TypeOK'
  BY <1>1, <1>3 DEF OwnersInv, TypeOK, Interacting
<1>5. TapInv(arbiter)'
  <2>1. arbiter.tap_phase # "FollowUpWindow"
    BY <1>1, <1>2 DEF Quiescent, TapInv
  <2> QED BY <1>1, <1>2, <2>1 DEF TapInv, Interacting
<1>6. PairInv(arbiter)'
  <2>1. arbiter.two_phase \notin Pairing
    BY <1>1, <1>2, NoPair DEF Quiescent, PairInv
  <2> QED BY <1>1, <1>2, <2>1 DEF PairInv, ButtonHeld
<1>7. PadInv' /\ LatchInv(arbiter)' /\ ~Drafted(arbiter)'
  BY <1>1, <1>2 DEF OwnersInv, PadInv, LatchInv, Drafted
<1>8. WireFollowsSources => WireFollowsSources'
  BY <1>1 DEF WireFollowsSources
<1> QED BY <1>1, <1>4, <1>5, <1>6, <1>7, <1>8 DEF OwnersInv

\* An account of a decision fits at every event of it.
LEMMA ToldFits ==
  ASSUME NEW es, NEW left, NEW l, NEW r, NEW s, NEW dr, NEW ur,
         Told(es, left, l, r, s, dr, ur)
  PROVE  /\ \A i \in DOMAIN es : Fits(Before(es, i), es[i], left)
         /\ SecondaryTap(es) => dr /\ ur
  BY DEF Told, SecondaryTap

\* What a decision says is true of the wires, and of the cluster.
Truthful ==
  /\ \A i \in DOMAIN said' :
       Fits(Before(said', i), said'[i], arbiter'.physical_left)
  /\ SecondaryTap(said') => "pressed" \notin cluster'

\* After a frame the wires follow the sources, and what it told is truthful.
LEMMA FrameTells ==
  ASSUME OwnersInv, WireFollowsSources, NEW f, IsFrame(f),
         f.discontinuity => ~f.crossed, ~Swaps(arbiter, f), HandleFrame(f)
  PROVE  WireFollowsSources' /\ Truthful
<1> DEFINE d == FrameDraft(f)
           es == Ordered(arbiter, d, f)
<1>1. ~regressed /\ Decide(d, es)
      /\ cluster' = (IF pad = {} THEN {} ELSE cluster) \cup Marks(f)
  BY DEF HandleFrame
<1>2. Ready(arbiter) /\ arbiter \in StateType
  BY <1>1, OwnersReady
<1>3. Decided(arbiter, f, d)
  BY <1>2, FrameDecides
<1> HIDE DEF d
<1>4. d \in StateType
  BY <1>3 DEF Decided, TapInv
<1>5. Showing(arbiter)
  BY DEF Showing, WireFollowsSources, OwnersInv, TypeOK
<1>6. /\ Told(es, d.physical_left,
              d.physical_left \/ d.synthetic_left,
              d.physical_right \/ d.latched_right_owned, d.scroll_open,
              RightDown(arbiter, d, f), RightUp(arbiter, d, f))
      /\ RightDown(arbiter, d, f) /\ RightUp(arbiter, d, f) => d.secondary_tap
  BY <1>2, <1>3, <1>4, <1>5, ReadyIsSound, DecidedIsAccounted, FrameIsTold
<1> HIDE DEF es
<1>7. arbiter' = Settled(d) /\ said' = es /\ wire' = WireAfter(es)
  BY <1>1 DEF Decide, Settled
<1>8. Kept(d, arbiter')
  BY <1>4, <1>7, SettledFields
<1>9. WireFollowsSources'
  BY <1>6, <1>7, <1>8 DEF WireFollowsSources, Kept, Told
<1>10. \A i \in DOMAIN said' : Fits(Before(said', i), said'[i], arbiter'.physical_left)
  BY <1>6, <1>7, <1>8, ToldFits DEF Kept
<1>11. ASSUME SecondaryTap(said') PROVE "pressed" \notin cluster'
  <2>1. d.secondary_tap
    BY <1>6, <1>7, <1>11, ToldFits
  <2>2. ~arbiter.two_tap_disqualified /\ ~Presses(arbiter, f)
    BY <1>3, <2>1 DEF Decided
  <2>3. "pressed" \notin Marks(f)
    BY <2>2 DEF Marks, Presses, PressesLeft, PressesRight
  <2>4. pad = {} \/ "pressed" \notin cluster
    BY <1>1, <2>2 DEF OwnersInv, PadInv
  <2> QED BY <1>1, <2>3, <2>4
<1> QED BY <1>9, <1>10, <1>11 DEF Truthful

\* A step that tells nothing is truthful.
LEMMA SilenceIsTruthful ==
  ASSUME said' = <<>>
  PROVE  Truthful
<1>1. DOMAIN <<>> = {}
  OBVIOUS
<1> QED BY <1>1 DEF Truthful, SecondaryTap, Has

-----------------------------------------------------------------------------
\* Every step keeps the invariant.
LEMMA OwnersKept ==
  ASSUME OwnersInv, [Next]_vars
  PROVE  OwnersInv'
<1>1. CASE Frame
  <2>1. PICK f : IsFrame(f) /\ (f.discontinuity => ~f.crossed) /\ HandleFrame(f)
    BY <1>1, FrameIs
  <2> QED BY <2>1, FrameKeepsOwners
<1>2. CASE Regress
  BY <1>2, RegressKeepsOwners DEF OwnersInv
<1>3. CASE Tick
  BY <1>3, TickKeepsOwners
<1>4. CASE ReleaseAll
  BY <1>4, ReleaseAllKeepsOwners DEF OwnersInv
<1>5. CASE ReplaceConfig
  BY <1>5, ReplaceKeepsOwners
<1>6. CASE UNCHANGED vars
  BY <1>6 DEF vars, OwnersInv, TypeOK, Drafted, LatchInv, TapInv, PairInv,
     PadInv, Interacting, ButtonHeld
<1> QED BY <1>1, <1>2, <1>3, <1>4, <1>5, <1>6 DEF Next

\* After every step the wires follow the sources, and it told the truth.
LEMMA StepsTell ==
  ASSUME OwnersInv, WireFollowsSources, SameFrameSwap = FALSE, Next
  PROVE  WireFollowsSources' /\ Truthful
<1>1. CASE Frame
  <2>1. PICK f : /\ IsFrame(f) /\ (f.discontinuity => ~f.crossed)
                 /\ ~Swaps(arbiter, f) /\ HandleFrame(f)
    BY <1>1, FrameIs
  <2> QED BY <2>1, FrameTells
<1>2. CASE Regress
  BY <1>2, RegressKeepsOwners, SilenceIsTruthful DEF OwnersInv
<1>3. CASE Tick
  <2>1. /\ WireFollowsSources'
        /\ Told(said', arbiter'.physical_left, FALSE, wire["Right"],
                wire["Scroll"], FALSE, FALSE)
    BY <1>3, TickKeepsOwners
  <2> QED BY <2>1, ToldFits DEF Truthful
<1>4. CASE ReleaseAll
  <2>1. PICK dr : /\ WireFollowsSources'
                  /\ Told(said', FALSE, FALSE, FALSE, FALSE, FALSE, dr)
    BY <1>4, ReleaseAllKeepsOwners DEF OwnersInv
  <2>2. arbiter'.physical_left = FALSE
    <3>1. arbiter' = Settled(Fresh)
      BY <1>4 DEF ReleaseAll, Decide, Settled
    <3>2. Kept(Fresh, arbiter')
      BY <3>1, FreshHolds, SettledFields
    <3> QED BY <3>2 DEF Kept, Fresh
  <2> QED BY <2>1, <2>2, ToldFits DEF Truthful
<1>5. CASE ReplaceConfig
  BY <1>5, ReplaceKeepsOwners, SilenceIsTruthful
<1> QED BY <1>1, <1>2, <1>3, <1>4, <1>5 DEF Next

\* In the beginning the wires follow the sources.
LEMMA InitFollows ==
  ASSUME Init
  PROVE  WireFollowsSources
<1>1. arbiter = Fresh /\ wire = [w \in Wires |-> FALSE]
  BY DEF Init
<1>2. wire["Left"] = FALSE /\ wire["Right"] = FALSE /\ wire["Scroll"] = FALSE
  BY <1>1 DEF Wires
<1> QED BY <1>1, <1>2, FreshHoldsNothing DEF WireFollowsSources

\* What the invariant says of what is held.
LEMMA OwnersOwn == OwnersInv => TypeOK /\ HoldsAreOwned
  BY DEF OwnersInv, HoldsAreOwned, TapInv, PairInv, PadInv, LatchInv,
     Touching, Pairing

\* Whatever the frames, resets and settings, until a clock goes backwards: an open
\* scroll, a latched right and a synthetic left are each owned by the phase that
\* will release them, and every field has its type (arbiter.rs commits a draft
\* only as a whole).
THEOREM HoldsHaveOwners == Spec => [](TypeOK /\ HoldsAreOwned)
<1>1. Init => OwnersInv
  BY InitOwners
<1>2. OwnersInv /\ [Next]_vars => OwnersInv'
  BY OwnersKept
<1>3. OwnersInv => TypeOK /\ HoldsAreOwned
  BY OwnersOwn
<1> QED BY <1>1, <1>2, <1>3, PTL DEF Spec

\* The invariant of the wires.
WiresInv == OwnersInv /\ WireFollowsSources

\* Every step keeps the invariant of the wires.
LEMMA WiresKept ==
  ASSUME SameFrameSwap = FALSE, WiresInv, [Next]_vars
  PROVE  WiresInv'
<1>1. OwnersInv'
  BY OwnersKept DEF WiresInv
<1>2. CASE Next
  BY <1>1, <1>2, StepsTell DEF WiresInv
<1>3. CASE UNCHANGED vars
  BY <1>1, <1>3 DEF WiresInv, WireFollowsSources, vars
<1> QED BY <1>2, <1>3

\* What the desktop was told to hold is what some source of the arbiter holds:
\* no press stays down that nobody will release, if no frame releases the right
\* button and presses the left at once.
THEOREM PressesHaveOwners ==
  ASSUME SameFrameSwap = FALSE
  PROVE  Spec => []EveryPressIsOwned
<1>1. Init => WiresInv
  BY InitOwners, InitFollows DEF WiresInv
<1>2. WiresInv /\ [Next]_vars => WiresInv'
  BY WiresKept
<1>3. WiresInv => EveryPressIsOwned
  BY OwnersOwn DEF WiresInv, EveryPressIsOwned
<1> QED BY <1>1, <1>2, <1>3, PTL DEF Spec

\* The formulas the wires' action properties say of a step.
Alternating ==
  \A i \in DOMAIN said' : HeldBefore(said', i, said'[i].on) # said'[i].press

Handed ==
  \A i \in DOMAIN said' : said'[i].press =>
    LET held(w) == HeldBefore(said', i, w) IN
    CASE said'[i].on = "Right" ->
           ~held("Scroll") /\ (held("Left") => arbiter'.physical_left)
      [] said'[i].on = "Left" -> ~held("Scroll")
      [] said'[i].on = "Scroll" -> ~held("Left") /\ ~held("Right")

Untapped == SecondaryTap(said') => "pressed" \notin cluster'

\* A step that tells the truth alternates, hands over and taps as it should.
LEMMA StepsFit ==
  ASSUME SameFrameSwap = FALSE, WiresInv, WiresInv', Next
  PROVE  Alternating /\ Handed /\ Untapped
<1>1. Truthful /\ said' \in Seq(Events)
  BY StepsTell DEF WiresInv, OwnersInv, TypeOK
<1>2. {"Left", "Right", "Scroll"} = Wires
  BY DEF Wires
<1>3. ASSUME NEW i \in DOMAIN said'
      PROVE  /\ said'[i].on \in Wires
             /\ Fits(Before(said', i), said'[i], arbiter'.physical_left)
             /\ \A w \in Wires : Before(said', i)[w] = HeldBefore(said', i, w)
  <2>1. said'[i] \in Events
    BY <1>1
  <2> QED BY <1>1, <2>1 DEF Truthful, Before, Events
<1>4. Alternating
  BY <1>3 DEF Fits, Alternating
<1>5. Handed
  BY <1>2, <1>3 DEF Fits, Handed
<1>6. Untapped
  BY <1>1 DEF Truthful, Untapped
<1> QED BY <1>4, <1>5, <1>6

\* The presses and releases of each wire alternate, and no press is made while a
\* wire that excludes it is held: a scroll ends before a button goes down, a
\* synthetic left before the right.
THEOREM HandoversAreClean ==
  ASSUME SameFrameSwap = FALSE
  PROVE  Spec => EventsAlternate /\ CleanHandover
<1>1. Init => WiresInv
  BY InitOwners, InitFollows DEF WiresInv
<1>2. WiresInv /\ [Next]_vars => WiresInv'
  BY WiresKept
<1>3. WiresInv /\ WiresInv' /\ [Next]_vars => [Alternating /\ Handed]_vars
  BY StepsFit
<1> QED BY <1>1, <1>2, <1>3, PTL
     DEF Spec, EventsAlternate, CleanHandover, Alternating, Handed

\* A cluster in which a button went down never ends as a secondary tap.
THEOREM NoTapFollowsAPress ==
  ASSUME SameFrameSwap = FALSE
  PROVE  Spec => NoTapAfterPress
<1>1. Init => WiresInv
  BY InitOwners, InitFollows DEF WiresInv
<1>2. WiresInv /\ [Next]_vars => WiresInv'
  BY WiresKept
<1>3. WiresInv /\ WiresInv' /\ [Next]_vars => [Untapped]_vars
  BY StepsFit
<1> QED BY <1>1, <1>2, <1>3, PTL DEF Spec, NoTapAfterPress, Untapped

-----------------------------------------------------------------------------
(* The three-finger drag.                                                  *)

\* The drag that holds the button, and one that has not pressed it yet.
Holding(g) == g.phase \in {"Dragging", "Locked", "LockedContact"}
Unmoved(g) == /\ g.phase = "Dragging" /\ mode.drag = "Stable"
              /\ ~g.moved /\ ~g.strayed

\* What the drag compares in a frame: motion that arms a locked drag again has
\* left the tap radius.
Compared(g, f) ==
  /\ f.strayed \in BOOLEAN /\ f.crossed \in BOOLEAN /\ f.ready \in BOOLEAN
  /\ g.phase = "LockedContact" => (f.crossed => f.strayed)

\* What one frame can make of the drag.
Dragged(g, f, live, o) ==
  /\ o.drag \in DragType /\ o.blocks \in BOOLEAN
  /\ Holding(g) \/ Holding(o.drag) => o.blocks
  /\ o.drag.phase \in {"Candidate", "LockedContact"} =>
       o.drag.ids = live /\ Cardinality(live) = 3
  /\ o.drag.phase = "Candidate" /\ mode.drag_enabled /\ ~o.drag.settled =>
       o.blocks
  /\ o.action \in {"Begin", "Move"} =>
       Holding(o.drag) /\ g.phase # "Idle" /\ ~Unmoved(o.drag)
  /\ Holding(g) /\ ~Holding(o.drag) => o.action = "End" \/ Unmoved(g)
  /\ o.action = "Tap" =>
       live = {} /\ ~Holding(o.drag) /\ (g.phase = "Candidate" \/ Unmoved(g))
  /\ o.action = "End" => ~Holding(o.drag) /\ g.phase # "Idle"
  /\ Unmoved(o.drag) => ~Holding(g) \/ Unmoved(g)

\* The candidate keeps its fingers, or becomes a drag.
LEMMA UpdateCandidateHolds ==
  ASSUME NEW g \in DragType, NEW f, Compared(g, f), mode \in ModeType,
         NEW held \in BOOLEAN, held <=> g.phase = "LockedContact",
         g.phase \in {"Candidate", "LockedContact"}, Cardinality(g.ids) = 3
  PROVE  Dragged(g, f, g.ids, UpdateCandidate(g, f, held))
<1> DEFINE strayed == g.strayed \/ f.strayed
           s == [g EXCEPT !.strayed = strayed]
           entering == ~held /\ ~s.settled
           settled == s.settled \/ entering
           armed == [s EXCEPT !.settled = settled, !.phase = "Dragging"]
           ready == [s EXCEPT !.settled = TRUE]
           action == IF mode.drag = "Stable" THEN "Arm"
                     ELSE IF held THEN "Move" ELSE "Begin"
           o == UpdateCandidate(g, f, held)
<1>1. strayed \in BOOLEAN
  BY DEF Compared, DragType
<1> HIDE DEF strayed
<1>2. s \in DragType /\ s.phase = g.phase /\ s.ids = g.ids
      /\ s.strayed = strayed /\ s.moved = g.moved /\ s.settled = g.settled
  BY <1>1 DEF DragType
<1> HIDE DEF s
<1>3. settled \in BOOLEAN
  BY <1>2 DEF DragType
<1> HIDE DEF settled
<1>4. armed \in DragType /\ armed.phase = "Dragging"
      /\ armed.strayed = s.strayed /\ armed.moved = s.moved
  BY <1>2, <1>3 DEF DragType, DragPhases
<1>5. ready \in DragType /\ ready.phase = s.phase /\ ready.ids = s.ids /\ ready.settled
  BY <1>2 DEF DragType
<1>6. \/ entering /\ o = Outcome(s, "None", mode.drag_enabled)
      \/ entering /\ mode.drag = "Stable" /\ o = Outcome(armed, "Arm", TRUE)
      \/ entering /\ o = Outcome(ready, "None", mode.drag_enabled)
      \/ ~entering /\ f.crossed /\ o = Outcome(armed, action, TRUE)
      \/ ~entering /\ o = Outcome(s, "None", held)
  BY DEF UpdateCandidate, s, strayed, settled
<1> SUFFICES Dragged(g, f, g.ids, o)
  BY DEF o
<1> HIDE DEF armed, ready, o
<1>7. CASE entering /\ o = Outcome(s, "None", mode.drag_enabled)
  BY <1>2, <1>7 DEF Outcome, Dragged, Holding, Unmoved, ModeType
<1>8. CASE entering /\ mode.drag = "Stable" /\ o = Outcome(armed, "Arm", TRUE)
  BY <1>4, <1>8 DEF Outcome, Dragged, Holding, Unmoved
<1>9. CASE entering /\ o = Outcome(ready, "None", mode.drag_enabled)
  BY <1>2, <1>5, <1>9 DEF Outcome, Dragged, Holding, Unmoved, ModeType
<1>10. CASE ~entering /\ f.crossed /\ o = Outcome(armed, action, TRUE)
  <2>1. action \in {"Arm", "Move", "Begin"} /\ (action # "Arm" => mode.drag # "Stable")
    OBVIOUS
  <2> HIDE DEF action
  <2>2. held => s.strayed
    BY <1>2, <1>10 DEF strayed, Compared
  <2>3. held \/ g.phase = "Candidate"
    OBVIOUS
  <2> QED BY <1>4, <1>10, <2>1, <2>2, <2>3 DEF Outcome, Dragged, Holding, Unmoved
<1>11. CASE ~entering /\ o = Outcome(s, "None", held)
  BY <1>2, <1>11 DEF Outcome, Dragged, Holding, Unmoved
<1> QED BY <1>6, <1>7, <1>8, <1>9, <1>10, <1>11 DEF o

\* A drag at rest has no fingers and holds nothing.
LEMMA DragRestsFields ==
  DragRests \in DragType /\ DragRests.phase = "Idle"
  BY DEF DragRests, DragType, DragPhases

\* An idle drag waits for three fingers.
LEMMA DragIdleHolds ==
  ASSUME NEW g \in DragType, g.phase = "Idle", NEW f, Compared(g, f),
         NEW live \in SUBSET Ids, mode \in ModeType
  PROVE  Dragged(g, f, live, DragIdle(g, f, live))
<1> DEFINE entered == g.entered \/ mode.entry_debounce
           fresh == IF mode.entry_debounce /\ live = {}
                    THEN [g EXCEPT !.entered = FALSE, !.settled = FALSE]
                    ELSE [g EXCEPT !.entered = entered]
           settled == ~mode.entry_debounce \/ (g.entered /\ f.ready)
           started == StartCandidate(fresh, "Candidate", live, settled)
           o == DragIdle(g, f, live)
<1>1. entered \in BOOLEAN /\ settled \in BOOLEAN
  BY DEF DragType, ModeType, Compared
<1> HIDE DEF entered
<1>2. fresh \in DragType /\ fresh.phase = "Idle"
  BY <1>1 DEF DragType
<1>3. \/ /\ Cardinality(live) = 3
         /\ o = Outcome(started, "None", mode.drag_enabled /\ ~settled)
      \/ o = Outcome(fresh, "None", FALSE)
  BY DEF DragIdle, entered
<1> SUFFICES Dragged(g, f, live, o)
  BY DEF o
<1> HIDE DEF fresh, settled, o
<1>4. /\ started \in DragType /\ started.phase = "Candidate" /\ started.ids = live
      /\ started.settled = settled
  BY <1>1, <1>2 DEF StartCandidate, DragType, DragPhases
<1> HIDE DEF started
<1>5. mode.drag_enabled \in BOOLEAN
  BY DEF ModeType
<1>6. CASE /\ Cardinality(live) = 3
           /\ o = Outcome(started, "None", mode.drag_enabled /\ ~settled)
  BY <1>1, <1>4, <1>5, <1>6 DEF Outcome, Dragged, Holding, Unmoved
<1>7. CASE o = Outcome(fresh, "None", FALSE)
  BY <1>2, <1>7 DEF Outcome, Dragged, Holding, Unmoved
<1> QED BY <1>3, <1>6, <1>7 DEF o

\* A locked drag is at rest but for the button it holds.
LEMMA LockFields ==
  ASSUME NEW g \in DragType
  PROVE  /\ Lock(g) \in DragType /\ Lock(g).phase = "Locked"
         /\ [Lock(g) EXCEPT !.strayed = FALSE] \in DragType
         /\ [Lock(g) EXCEPT !.strayed = FALSE].phase = "Locked"
  BY DEF Lock, DragType, DragPhases

\* Every phase of the drag keeps to what one frame can make of it.
LEMMA DragHoldsUp ==
  ASSUME NEW g \in DragType, NEW f, Compared(g, f), NEW live \in SUBSET Ids,
         mode \in ModeType,
         g.phase \in {"Candidate", "LockedContact"} => Cardinality(g.ids) = 3
  PROVE  Dragged(g, f, live, ProcessDrag(g, f, live))
<1> DEFINE o == ProcessDrag(g, f, live)
           lifted == [Lock(g) EXCEPT !.strayed = FALSE]
           moving == [g EXCEPT !.moved = TRUE]
<1>1. CASE g.phase = "Idle"
  BY <1>1, DragIdleHolds DEF ProcessDrag
<1>2. CASE g.phase = "Candidate"
  <2>1. CASE live = g.ids
    <3>1. o = UpdateCandidate(g, f, FALSE)
      BY <1>2, <2>1 DEF ProcessDrag, DragCandidate
    <3> DEFINE held == FALSE
    <3>2. held \in BOOLEAN /\ ~held
      OBVIOUS
    <3> HIDE DEF held
    <3>3. Dragged(g, f, g.ids, UpdateCandidate(g, f, held))
      BY <1>2, <3>2, UpdateCandidateHolds
    <3> QED BY <2>1, <3>1, <3>3 DEF held
  <2>2. CASE live # g.ids
    <3>1. \/ live = {} /\ o = Outcome(DragRests, "Tap", TRUE)
          \/ o = Outcome(DragRests, "None", FALSE)
      BY <1>2, <2>2 DEF ProcessDrag, DragCandidate
    <3> SUFFICES Dragged(g, f, live, o)
      BY DEF o
    <3> HIDE DEF o
    <3>2. CASE live = {} /\ o = Outcome(DragRests, "Tap", TRUE)
      BY <1>2, <3>2, DragRestsFields DEF Outcome, Dragged, Holding, Unmoved
    <3>3. CASE o = Outcome(DragRests, "None", FALSE)
      BY <1>2, <3>3, DragRestsFields DEF Outcome, Dragged, Holding, Unmoved
    <3> QED BY <3>1, <3>2, <3>3
  <2> QED BY <2>1, <2>2
<1>3. CASE g.phase = "Dragging"
  <2>1. \/ live = {} /\ Unmoved(g) /\ o = Outcome(DragRests, "Tap", TRUE)
        \/ o = Outcome(lifted, "None", TRUE)
        \/ o = Outcome(DragRests, "End", TRUE)
        \/ o = Outcome(g, "None", TRUE)
        \/ mode.drag = "Stable" /\ o = Outcome(moving, "Move", TRUE)
        \/ mode.drag # "Stable" /\ o = Outcome(g, "Move", TRUE)
    <3>1. CASE live = {}
      BY <1>3, <3>1 DEF ProcessDrag, Dragging, DragLifted, Unmoved, QualifiesTap
    <3>2. CASE live # {}
      <4>1. o = Dragging(g, f, live)
        BY <1>3 DEF ProcessDrag
      <4>2. CASE ~(live \subseteq g.ids)
        BY <3>2, <4>1, <4>2 DEF Dragging
      <4>3. CASE live \subseteq g.ids /\ mode.drag = "Stable"
        BY <3>2, <4>1, <4>3 DEF Dragging
      <4>4. CASE live \subseteq g.ids /\ mode.drag # "Stable"
        BY <3>2, <4>1, <4>4 DEF Dragging
      <4> QED BY <4>2, <4>3, <4>4
    <3> QED BY <3>1, <3>2
  <2>2. lifted \in DragType /\ lifted.phase = "Locked"
    BY LockFields
  <2>3. moving \in DragType /\ moving.phase = "Dragging" /\ moving.moved
    BY <1>3 DEF DragType
  <2> SUFFICES Dragged(g, f, live, o)
    BY DEF o
  <2> HIDE DEF o, lifted, moving
  <2>4. CASE live = {} /\ Unmoved(g) /\ o = Outcome(DragRests, "Tap", TRUE)
    BY <2>4, DragRestsFields DEF Outcome, Dragged, Holding, Unmoved
  <2>5. CASE o = Outcome(lifted, "None", TRUE)
    BY <2>2, <2>5 DEF Outcome, Dragged, Holding, Unmoved
  <2>6. CASE o = Outcome(DragRests, "End", TRUE)
    BY <1>3, <2>6, DragRestsFields DEF Outcome, Dragged, Holding, Unmoved
  <2>7. CASE o = Outcome(g, "None", TRUE)
    BY <1>3, <2>7 DEF Outcome, Dragged, Holding, Unmoved
  <2>8. CASE mode.drag = "Stable" /\ o = Outcome(moving, "Move", TRUE)
    BY <1>3, <2>3, <2>8 DEF Outcome, Dragged, Holding, Unmoved
  <2>9. CASE mode.drag # "Stable" /\ o = Outcome(g, "Move", TRUE)
    BY <1>3, <2>9 DEF Outcome, Dragged, Holding, Unmoved
  <2> QED BY <2>1, <2>4, <2>5, <2>6, <2>7, <2>8, <2>9 DEF o
<1>4. CASE g.phase = "Locked"
  <2> DEFINE started == StartCandidate(g, "LockedContact", live, TRUE)
  <2>1. \/ Cardinality(live) = 3 /\ o = Outcome(started, "None", TRUE)
        \/ o = Outcome(g, "None", TRUE)
    BY <1>4 DEF ProcessDrag, DragLocked
  <2>2. /\ started \in DragType /\ started.phase = "LockedContact"
        /\ started.ids = live
    BY DEF StartCandidate, DragType, DragPhases
  <2> SUFFICES Dragged(g, f, live, o)
    BY DEF o
  <2> HIDE DEF o, started
  <2>3. CASE Cardinality(live) = 3 /\ o = Outcome(started, "None", TRUE)
    BY <1>4, <2>2, <2>3 DEF Outcome, Dragged, Holding, Unmoved
  <2>4. CASE o = Outcome(g, "None", TRUE)
    BY <1>4, <2>4 DEF Outcome, Dragged, Holding, Unmoved
  <2> QED BY <2>1, <2>3, <2>4 DEF o
<1>5. CASE g.phase = "LockedContact"
  <2>1. \/ live = g.ids /\ o = UpdateCandidate(g, f, TRUE)
        \/ o = Outcome(DragRests, "End", TRUE)
        \/ o = Outcome(Lock(g), "None", TRUE)
    BY <1>5 DEF ProcessDrag, DragLockedContact
  <2> SUFFICES Dragged(g, f, live, o)
    BY DEF o
  <2> HIDE DEF o
  <2>2. CASE live = g.ids /\ o = UpdateCandidate(g, f, TRUE)
    <3> DEFINE held == TRUE
    <3>1. /\ held \in BOOLEAN /\ (held <=> g.phase = "LockedContact")
          /\ Cardinality(g.ids) = 3
      BY <1>5
    <3> HIDE DEF held, lifted, moving
    <3>2. Dragged(g, f, g.ids, UpdateCandidate(g, f, held))
      BY <1>5, <3>1, UpdateCandidateHolds
    <3> QED BY <2>2, <3>2 DEF held
  <2>3. CASE o = Outcome(DragRests, "End", TRUE)
    BY <1>5, <2>3, DragRestsFields DEF Outcome, Dragged, Holding, Unmoved
  <2>4. CASE o = Outcome(Lock(g), "None", TRUE)
    BY <1>5, <2>4, LockFields DEF Outcome, Dragged, Holding, Unmoved
  <2> QED BY <2>1, <2>2, <2>3, <2>4 DEF o
<1> QED BY <1>1, <1>2, <1>3, <1>4, <1>5 DEF DragType, DragPhases

\* A discontinuity ends the pair or anchors it on the contacts of the frame; of
\* the rest it changes nothing.
LEMMA PairDiscontinuityFields ==
  ASSUME NEW d \in StateType, PairInv(d), NEW f, f.discontinuity \in BOOLEAN
  PROVE  LET e == PairDiscontinuity(d, f) IN
         /\ Ones(d, e) /\ PairInv(e)
         /\ \/ e.scroll_open = d.scroll_open /\ e.scroll_ended = d.scroll_ended
            \/ /\ ~e.scroll_open
               /\ e.scroll_ended = (d.scroll_ended \/ d.scroll_open)
         /\ e.scroll_began = d.scroll_began /\ e.secondary_tap = d.secondary_tap
         /\ d.two_tap_disqualified => e.two_tap_disqualified
         /\ e.two_phase \in Pairing =>
              /\ e.two_phase = "Candidate" /\ e.two_finger_ids = LiveComplete(f)
              /\ ~ButtonHeld(d)
<1> DEFINE e == PairDiscontinuity(d, f)
           gone == IF d.two_phase = "Idle" THEN d ELSE CancelPair(d)
           anchored == AnchorPair(gone, f)
<1>0. d.scroll_open = (d.two_phase = "CommittedScroll")
  BY DEF PairInv
<1>1. /\ Ones(d, gone) /\ gone.two_phase = "Idle"
      /\ gone.two_finger_ids = {} /\ ~gone.scroll_open
      /\ gone.scroll_ended = (d.scroll_ended \/ d.scroll_open)
      /\ gone.scroll_began = d.scroll_began
      /\ gone.secondary_tap = d.secondary_tap
      /\ d.two_tap_disqualified => gone.two_tap_disqualified
  <2>1. CASE d.two_phase = "Idle"
    BY <2>1, PhysicalType DEF Ones, Pointer, Quiet, PairInv, Pairing
  <2>2. CASE d.two_phase # "Idle"
    BY <1>0, <2>2, CancelPairFields DEF Parted
  <2> QED BY <2>1, <2>2
<1>2. gone \in StateType
  BY <1>1 DEF Ones
<1>3. \/ d.two_phase = "PhysicalSecondaryClickHeld" /\ e = d
      \/ e = gone
      \/ /\ config.scroll_enabled /\ ~ButtonHeld(d) /\ IsPair(LiveComplete(f))
         /\ e = anchored
  BY DEF PairDiscontinuity
<1> SUFFICES
      /\ Ones(d, e) /\ PairInv(e)
      /\ \/ e.scroll_open = d.scroll_open /\ e.scroll_ended = d.scroll_ended
         \/ /\ ~e.scroll_open
            /\ e.scroll_ended = (d.scroll_ended \/ d.scroll_open)
      /\ e.scroll_began = d.scroll_began /\ e.secondary_tap = d.secondary_tap
      /\ d.two_tap_disqualified => e.two_tap_disqualified
      /\ e.two_phase \in Pairing =>
           /\ e.two_phase = "Candidate" /\ e.two_finger_ids = LiveComplete(f)
           /\ ~ButtonHeld(d)
  OBVIOUS
<1> HIDE DEF e, gone
<1>4. CASE d.two_phase = "PhysicalSecondaryClickHeld" /\ e = d
  BY <1>4 DEF Ones, Pointer, Quiet, Pairing
<1>5. CASE e = gone
  BY <1>1, <1>2, <1>5, NoPair, PhysicalType DEF PairInv, Pairing
<1>6. CASE /\ config.scroll_enabled /\ ~ButtonHeld(d) /\ IsPair(LiveComplete(f))
           /\ e = anchored
  <2>1. /\ Ones(gone, anchored) /\ anchored.two_phase = "Candidate"
        /\ anchored.two_finger_ids = LiveComplete(f)
        /\ gone.two_tap_disqualified => anchored.two_tap_disqualified
        /\ anchored.scroll_open = gone.scroll_open
        /\ anchored.scroll_ended = gone.scroll_ended
        /\ anchored.scroll_began = gone.scroll_began
        /\ anchored.secondary_tap = gone.secondary_tap
    BY <1>2, AnchorPairFields
  <2> HIDE DEF anchored
  <2>2. Ones(d, e)
    BY <1>1, <1>6, <2>1 DEF Ones, Pointer, Quiet
  <2>3. ~ButtonHeld(e)
    BY <1>6, <2>2 DEF Ones, ButtonHeld
  <2>4. ~e.scroll_open /\ e.scroll_open \in BOOLEAN
    BY <1>1, <1>6, <2>1, <2>2 DEF Ones, StateType
  <2>5. PairInv(e)
    BY <1>6, <2>1, <2>3, <2>4 DEF PairInv, Pairing
  <2> QED BY <1>1, <1>6, <2>1, <2>2, <2>4, <2>5
<1> QED BY <1>3, <1>4, <1>5, <1>6

-----------------------------------------------------------------------------
(* The state below a drag that holds the button.                           *)

\* The one- and two-finger policies are at rest.
Rests(d) ==
  /\ d.tap_phase = "Idle" /\ d.tracking_id = None
  /\ d.two_finger_ids = {} /\ ~d.scroll_open

\* So they are below a drag, whose button is nobody else's.
Held(p) ==
  /\ p \in StateType /\ Rests(p) /\ p.lifecycle = "Idle" /\ ~p.tap_disqualified
  /\ ~Drafted(p) /\ LatchInv(p) /\ PairInv(p)
  /\ ~p.physical_left_raw /\ ~p.physical_right

\* What the edges and the discontinuity make of it: the button is still held.
Gripped(p, f, d) ==
  /\ d \in StateType /\ Pointer(p, d) /\ Quiet(p, d) /\ d.tap_phase = "Idle"
  /\ d.physical_left_raw = f.left /\ ~d.physical_right
  /\ d.physical_left <=> f.left /\ ~LatchesPress(p, f)
  /\ d.latched_right_owned <=> LatchesPress(p, f)
  /\ d.latched_right_down <=> LatchesPress(p, f)
  /\ ~d.latched_right_up /\ PairInv(d)
  /\ ~d.scroll_open /\ ~d.scroll_ended /\ ~d.scroll_began /\ ~d.secondary_tap
  /\ d.two_phase \in Pairing =>
       /\ ~f.left /\ f.discontinuity
       /\ d.two_phase = "Candidate" /\ d.two_finger_ids = LiveComplete(f)
  /\ p.two_tap_disqualified \/ f.left => d.two_tap_disqualified

\* The left edge under a drag.
LEMMA HeldLeftEdge ==
  ASSUME NEW p, Held(p), NEW f, IsFrame(f)
  PROVE  LET c == LeftEdge(p, f) IN
         /\ c \in StateType /\ Pointer(p, c) /\ Quiet(p, c) /\ c.tap_phase = "Idle"
         /\ c.physical_left <=> f.left /\ ~LatchesPress(p, f)
         /\ c.latched_right_owned <=> LatchesPress(p, f)
         /\ c.latched_right_down <=> LatchesPress(p, f)
         /\ ~c.latched_right_up /\ c.two_phase \notin Pairing
         /\ c.two_finger_ids = {} /\ ~c.scroll_open
         /\ ~c.scroll_ended /\ ~c.scroll_began /\ ~c.secondary_tap
         /\ p.two_tap_disqualified \/ f.left => c.two_tap_disqualified
<1>0. /\ p \in StateType /\ p.tap_phase = "Idle" /\ ~p.latched_right_owned
      /\ ~p.physical_left_raw /\ ~p.physical_left /\ p.two_finger_ids = {}
      /\ ~p.scroll_open /\ p.two_phase \notin Pairing
      /\ p.scroll_open = (p.two_phase = "CommittedScroll")
      /\ ~p.synthetic_down /\ ~p.synthetic_up /\ ~p.latched_right_down
      /\ ~p.latched_right_up
      /\ ~p.scroll_ended /\ ~p.scroll_began /\ ~p.secondary_tap
  BY NoPair, PhysicalType DEF Held, Rests, LatchInv, PairInv, Drafted
<1>1. CASE LatchesPress(p, f)
  <2> DEFINE a == [p EXCEPT !.latched_right_owned = TRUE,
                            !.physical_left = FALSE, !.latched_right_down = TRUE]
             b == LatchSecondaryPress(a)
  <2>1. /\ a \in StateType /\ Pointer(p, a) /\ Quiet(p, a)
        /\ a.tap_phase = p.tap_phase /\ a.latched_right_owned
        /\ ~a.physical_left /\ a.latched_right_down
        /\ a.latched_right_up = p.latched_right_up
        /\ a.two_phase = p.two_phase /\ a.scroll_open = p.scroll_open
        /\ a.scroll_ended = p.scroll_ended /\ a.scroll_began = p.scroll_began
        /\ a.secondary_tap = p.secondary_tap
    BY <1>0 DEF Pointer, Quiet, StateType
  <2>2. LeftEdge(p, f) = CancelTapPolicy(b)
    BY <1>1 DEF LeftEdge, LatchesPress
  <2> HIDE DEF a
  <2>3. /\ Parted(a, b) /\ b.two_tap_disqualified
        /\ b.two_phase = "PhysicalSecondaryClickHeld"
        /\ b.secondary_tap = a.secondary_tap
    BY <1>0, <2>1, LatchSecondaryPressFields
  <2> HIDE DEF b
  <2>4. CancelTapPolicy(b) = b
    BY <1>0, <2>1, <2>3 DEF CancelTapPolicy, Parted, Ones
  <2>5. /\ b \in StateType /\ Pointer(p, b) /\ Quiet(p, b) /\ b.tap_phase = "Idle"
        /\ ~b.physical_left /\ b.latched_right_owned /\ b.latched_right_down
        /\ ~b.latched_right_up /\ b.two_finger_ids = {} /\ ~b.scroll_open
        /\ ~b.scroll_began /\ ~b.secondary_tap
    BY <1>0, <2>1, <2>3 DEF Parted, Ones, Pointer, Quiet
  <2>6. ~b.scroll_ended
    BY <1>0, <2>1, <2>3 DEF Parted
  <2> QED BY <1>1, <2>2, <2>3, <2>4, <2>5, <2>6 DEF Pairing, LatchesPress
<1>2. CASE f.left /\ ~LatchesPress(p, f)
  <2> DEFINE a == [p EXCEPT !.physical_left = TRUE]
             b == PressCompetes(a)
  <2>1. /\ a \in StateType /\ Pointer(p, a) /\ Quiet(p, a)
        /\ a.tap_phase = p.tap_phase /\ a.physical_left
        /\ a.latched_right_owned = p.latched_right_owned
        /\ a.latched_right_down = p.latched_right_down
        /\ a.latched_right_up = p.latched_right_up
        /\ a.two_phase = p.two_phase /\ a.two_finger_ids = p.two_finger_ids
        /\ a.scroll_open = p.scroll_open
        /\ a.scroll_ended = p.scroll_ended /\ a.scroll_began = p.scroll_began
        /\ a.secondary_tap = p.secondary_tap
    BY <1>0 DEF Pointer, Quiet, StateType
  <2>2. LeftEdge(p, f) = PressCompetes(CancelTapPolicy(a))
    BY <1>0, <1>2 DEF LeftEdge
  <2> HIDE DEF a
  <2>3. CancelTapPolicy(a) = a
    BY <1>0, <2>1 DEF CancelTapPolicy
  <2>4. /\ Ones(a, b) /\ b.two_phase \notin Pairing /\ b.two_tap_disqualified
        /\ b.two_finger_ids = {} /\ ~b.scroll_open
        /\ b.scroll_ended = (a.scroll_ended \/ a.scroll_open)
        /\ b.scroll_began = a.scroll_began
        /\ b.secondary_tap = a.secondary_tap
    BY <1>0, <2>1, PressCompetesFields
  <2> HIDE DEF b
  <2>5. /\ b \in StateType /\ Pointer(p, b) /\ Quiet(p, b) /\ b.tap_phase = "Idle"
        /\ b.physical_left /\ ~b.latched_right_owned /\ ~b.latched_right_down
        /\ ~b.latched_right_up /\ ~b.scroll_began /\ ~b.secondary_tap
    BY <1>0, <2>1, <2>4 DEF Ones, Pointer, Quiet
  <2>6. ~b.scroll_ended
    BY <1>0, <2>1, <2>4
  <2>7. LeftEdge(p, f) = b
    BY <2>2, <2>3 DEF b
  <2> QED BY <1>2, <2>4, <2>5, <2>6, <2>7
<1>3. CASE ~f.left
  <2> DEFINE v == f.left /\ ~p.latched_right_owned
             b == [p EXCEPT !.physical_left = v]
  <2>1. LeftEdge(p, f) = b
    BY <1>0, <1>3 DEF LeftEdge, LatchesPress
  <2>2. v \in BOOLEAN /\ ~v /\ ~LatchesPress(p, f)
    BY <1>3 DEF LatchesPress
  <2> HIDE DEF v
  <2>3. /\ b \in StateType /\ Pointer(p, b) /\ Quiet(p, b)
        /\ b.tap_phase = p.tap_phase /\ b.physical_left = v
        /\ b.latched_right_owned = p.latched_right_owned
        /\ b.latched_right_down = p.latched_right_down
        /\ b.latched_right_up = p.latched_right_up
        /\ b.two_phase = p.two_phase /\ b.two_finger_ids = p.two_finger_ids
        /\ b.scroll_open = p.scroll_open
        /\ b.scroll_ended = p.scroll_ended /\ b.scroll_began = p.scroll_began
        /\ b.secondary_tap = p.secondary_tap
        /\ b.two_tap_disqualified = p.two_tap_disqualified
    BY <1>0, <2>2 DEF Pointer, Quiet, StateType
  <2> HIDE DEF b
  <2> QED BY <1>0, <1>3, <2>1, <2>2, <2>3
<1> QED BY <1>1, <1>2, <1>3 DEF IsFrame

\* Both buttons: the right one is up.
LEMMA HeldEdges ==
  ASSUME NEW p, Held(p), NEW f, IsFrame(f), ~f.right
  PROVE  /\ Gripped(p, f, PhysicalEdges(p, f))
         /\ PhysicalEdges(p, f).two_phase \notin Pairing
<1> DEFINE c == LeftEdge(p, f)
           b == [c EXCEPT !.physical_left_raw = f.left]
           d == [b EXCEPT !.physical_right = f.right]
<1>1. PhysicalEdges(p, f) = d
  BY DEF PhysicalEdges
<1>2. /\ c \in StateType /\ Pointer(p, c) /\ Quiet(p, c) /\ c.tap_phase = "Idle"
      /\ c.physical_left <=> f.left /\ ~LatchesPress(p, f)
      /\ c.latched_right_owned <=> LatchesPress(p, f)
      /\ c.latched_right_down <=> LatchesPress(p, f)
      /\ ~c.latched_right_up /\ c.two_phase \notin Pairing
      /\ c.two_finger_ids = {} /\ ~c.scroll_open
      /\ ~c.scroll_ended /\ ~c.scroll_began /\ ~c.secondary_tap
      /\ p.two_tap_disqualified \/ f.left => c.two_tap_disqualified
  BY HeldLeftEdge
<1> HIDE DEF c
<1>3. /\ b \in StateType /\ Pointer(c, b) /\ Quiet(c, b) /\ b.tap_phase = c.tap_phase
      /\ b.physical_left_raw = f.left /\ b.physical_left = c.physical_left
      /\ b.latched_right_owned = c.latched_right_owned
      /\ b.latched_right_down = c.latched_right_down
      /\ b.latched_right_up = c.latched_right_up
      /\ b.two_phase = c.two_phase /\ b.two_finger_ids = c.two_finger_ids
      /\ b.scroll_open = c.scroll_open /\ b.scroll_ended = c.scroll_ended
      /\ b.scroll_began = c.scroll_began /\ b.secondary_tap = c.secondary_tap
      /\ b.two_tap_disqualified = c.two_tap_disqualified
  BY <1>2 DEF Pointer, Quiet, StateType, IsFrame
<1> HIDE DEF b
<1>4. /\ d.physical_right = f.right
      /\ d \in StateType /\ Pointer(b, d) /\ Quiet(b, d) /\ d.tap_phase = b.tap_phase
      /\ d.physical_left_raw = b.physical_left_raw
      /\ d.physical_left = b.physical_left
      /\ d.latched_right_owned = b.latched_right_owned
      /\ d.latched_right_down = b.latched_right_down
      /\ d.latched_right_up = b.latched_right_up
      /\ d.two_phase = b.two_phase /\ d.two_finger_ids = b.two_finger_ids
      /\ d.scroll_open = b.scroll_open /\ d.scroll_ended = b.scroll_ended
      /\ d.scroll_began = b.scroll_began /\ d.secondary_tap = b.secondary_tap
      /\ d.two_tap_disqualified = b.two_tap_disqualified
  BY <1>3, RightFields DEF IsFrame
<1> HIDE DEF d
<1>5. Pointer(p, d) /\ Quiet(p, d)
  BY <1>2, <1>3, <1>4 DEF Pointer, Quiet
<1>6. PairInv(d)
  BY <1>2, <1>3, <1>4, NoPair, PhysicalType DEF PairInv, Pairing
<1> QED BY <1>1, <1>2, <1>3, <1>4, <1>5, <1>6 DEF Gripped

\* Edges, discontinuity and a late follow-up leave a drag's button held.
LEMMA HeldMid ==
  ASSUME NEW p, Held(p), NEW f, IsFrame(f), ~f.right
  PROVE  Gripped(p, f, ExpireFollowUp(Discontinuity(PhysicalEdges(p, f), f), f.late))
<1> DEFINE d == PhysicalEdges(p, f)
           c == Discontinuity(d, f)
           e == PairDiscontinuity(d, f)
<1>1. Gripped(p, f, d) /\ d.two_phase \notin Pairing
  BY HeldEdges
<1> HIDE DEF d
<1>2. Gripped(p, f, c)
  <2>1. CASE ~f.discontinuity
    BY <1>1, <2>1 DEF Discontinuity
  <2>2. CASE f.discontinuity
    <3>1. CancelInteraction(d) = d /\ CancelTapPolicy(d) = d
      BY <1>1 DEF Gripped, Held, Rests, Pointer, CancelInteraction, CancelTapPolicy
    <3>2. c = e
      BY <2>2, <3>1 DEF Discontinuity
    <3>3. d \in StateType /\ PairInv(d)
      BY <1>1 DEF Gripped
    <3>4. /\ Ones(d, e) /\ PairInv(e)
          /\ \/ e.scroll_open = d.scroll_open /\ e.scroll_ended = d.scroll_ended
             \/ /\ ~e.scroll_open
                /\ e.scroll_ended = (d.scroll_ended \/ d.scroll_open)
          /\ e.scroll_began = d.scroll_began /\ e.secondary_tap = d.secondary_tap
          /\ d.two_tap_disqualified => e.two_tap_disqualified
          /\ e.two_phase \in Pairing =>
               /\ e.two_phase = "Candidate" /\ e.two_finger_ids = LiveComplete(f)
               /\ ~ButtonHeld(d)
      BY <3>3, PairDiscontinuityFields DEF IsFrame
    <3> HIDE DEF e
    <3>5. Pointer(p, e) /\ Quiet(p, e) /\ e \in StateType /\ e.tap_phase = "Idle"
      BY <1>1, <3>4 DEF Gripped, Ones, Pointer, Quiet
    <3>6. ~e.scroll_open /\ ~e.scroll_ended
      BY <1>1, <3>4 DEF Gripped
    <3>7. e.two_phase \in Pairing => ~f.left
      BY <1>1, <3>4 DEF Gripped, ButtonHeld
    <3>8. Gripped(p, f, e)
      BY <1>1, <2>2, <3>4, <3>5, <3>6, <3>7 DEF Gripped, Ones
    <3> QED BY <3>2, <3>8
  <2> QED BY <2>1, <2>2 DEF IsFrame
<1> HIDE DEF c
<1>3. ExpireFollowUp(c, f.late) = c
  BY <1>2 DEF ExpireFollowUp, Gripped
<1> QED BY <1>2, <1>3 DEF c, d

\* The drag lets go of the button.
LEMMA ReleaseLeftFields ==
  ASSUME NEW d \in StateType
  PROVE  LET e == ReleaseLeft(d) IN
         /\ Others(d, e) /\ Pointer(d, e) /\ e.tap_phase = d.tap_phase
         /\ e.synthetic_down = d.synthetic_down /\ ~e.synthetic_left
         /\ e.synthetic_up = (d.synthetic_up \/ d.synthetic_left)
<1>1. CASE d.synthetic_left
  BY <1>1 DEF ReleaseLeft, Others, Pointer, StateType
<1>2. CASE ~d.synthetic_left
  BY <1>2 DEF ReleaseLeft, Others, Pointer, StateType
<1> QED BY <1>1, <1>2

\* The drag takes the button.
LEMMA PressLeftFields ==
  ASSUME NEW d \in StateType
  PROVE  LET e == PressLeft(d) IN
         /\ Others(d, e) /\ Pointer(d, e) /\ e.tap_phase = d.tap_phase
         /\ e.synthetic_up = d.synthetic_up /\ e.synthetic_left
         /\ e.synthetic_down = (d.synthetic_down \/ ~d.synthetic_left)
<1>1. CASE d.synthetic_left
  BY <1>1 DEF PressLeft, Others, Pointer, StateType
<1>2. CASE ~d.synthetic_left
  BY <1>2 DEF PressLeft, Others, Pointer, StateType
<1> QED BY <1>1, <1>2

\* A drag that is interrupted leaves the frame to the other policies.
LEMMA GripReleased ==
  ASSUME NEW p, Held(p), NEW f, IsFrame(f), ~f.right, NEW d, Gripped(p, f, d)
  PROVE  Mid(p, f, ReleaseLeft(d))
<1> DEFINE e == ReleaseLeft(d)
<1>1. d \in StateType /\ p \in StateType
  BY DEF Gripped, Held
<1>2. /\ Others(d, e) /\ Pointer(d, e) /\ e.tap_phase = d.tap_phase
      /\ e.synthetic_down = d.synthetic_down /\ ~e.synthetic_left
      /\ e.synthetic_up = (d.synthetic_up \/ d.synthetic_left)
  BY <1>1, ReleaseLeftFields
<1> HIDE DEF e
<1>3. /\ e \in StateType /\ e.tap_phase = "Idle" /\ e.tracking_id = None
      /\ e.lifecycle = "Idle" /\ ~e.tap_disqualified /\ ~e.synthetic_down
      /\ e.synthetic_up = p.synthetic_left
  BY <1>1, <1>2, SyntheticType DEF Gripped, Held, Rests, Others, Pointer, Quiet, Drafted
<1>4. TapInv(e)
  BY <1>2, <1>3, SyntheticType DEF TapInv, Interacting, Touching
<1>5. LeftMid(p, e)
  BY <1>1, <1>2, <1>3, SyntheticType DEF LeftMid, LeftAccount
<1>6. /\ PairInv(e) /\ LatchInv(e)
  <2>1. PairInv(e)
    BY <1>2 DEF Gripped, Others, PairInv, ButtonHeld
  <2>2. LatchInv(e)
    BY <1>1, <1>2, PhysicalType DEF Gripped, Others, LatchInv, LatchesPress, IsFrame
  <2> QED BY <2>1, <2>2
<1>7. ~p.physical_left_raw /\ ~p.physical_right /\ ~p.latched_right_owned /\ ~p.scroll_open
  BY DEF Held, LatchInv, Rests
<1>8. ScrollAccount(p, e)
  BY <1>1, <1>2, <1>3, <1>7, PhysicalType DEF Gripped, Others, ScrollAccount
<1>9. Presses(p, f) <=> f.left
  BY <1>7 DEF Presses, PressesLeft, PressesRight
<1>10. Edged(p, f, e, f.right, Presses(p, f))
  <2>1. e.physical_right = f.right
    BY <1>1, <1>2, PhysicalType DEF Gripped, Others, IsFrame
  <2>2. /\ Presses(p, f) =>
             e.two_tap_disqualified /\ e.two_phase \notin Pairing
        /\ p.two_tap_disqualified => e.two_tap_disqualified
    BY <1>2, <1>9 DEF Gripped, Others
  <2> QED BY <1>2, <1>3, <1>4, <1>5, <1>6, <1>7, <1>8, <2>1, <2>2 DEF Edged, Gripped, Others
<1> QED BY <1>2, <1>3, <1>10 DEF Mid, Gripped, Others, e

-----------------------------------------------------------------------------
(* What a blocking owner leaves of the policies below.                     *)

\* The draft of a frame that a policy above has blocked, before the drag
\* touches the button.
Cleared(p, f, e) ==
  /\ e \in StateType /\ Rests(e) /\ e.lifecycle = "Idle" /\ ~e.tap_disqualified
  /\ LatchInv(e) /\ PairInv(e) /\ LeftAccount(p, e) /\ ScrollAccount(p, e)
  /\ ~e.synthetic_down /\ ~e.scroll_began /\ ~e.secondary_tap
  /\ e.synthetic_up => ~e.synthetic_left
  /\ e.physical_left_raw = f.left /\ e.physical_right = f.right
  /\ e.latched_right_down <=> LatchesPress(p, f)
  /\ e.latched_right_up <=>
       ~f.left /\ p.physical_left_raw /\ p.latched_right_owned
  /\ e.latched_right_owned <=>
       LatchesPress(p, f) \/ (p.latched_right_owned /\ f.left)

\* Forgetting a pair that neither scrolls nor may.
LEMMA ForgetPairFields ==
  ASSUME NEW d \in StateType
  PROVE  LET e == ForgetPair(d) IN
         /\ Ones(d, e) /\ e.two_finger_ids = {} /\ e.two_phase = d.two_phase
         /\ e.scroll_open = d.scroll_open /\ e.scroll_ended = d.scroll_ended
         /\ e.scroll_began = d.scroll_began /\ e.secondary_tap = d.secondary_tap
         /\ e.two_tap_disqualified = d.two_tap_disqualified
  BY DEF ForgetPair, Ones, Pointer, Quiet, StateType

\* Cancelling the policies below brings them to rest, and closes what they had
\* begun.
LEMMA CancelLowerHolds ==
  ASSUME NEW p \in StateType, NEW f, IsFrame(f), NEW d, Mid(p, f, d)
  PROVE  LET e == CancelLower(d) IN
         Cleared(p, f, e) /\ TapInv(e) /\ ~e.synthetic_left
<1> DEFINE one == CancelTapPolicy(CancelInteraction(d))
           e == CancelLower(d)
<1>1. /\ TapInv(one) /\ Others(d, one) /\ LeftMid(p, one)
      /\ one.tap_phase = "Idle" /\ one.tracking_id = None
  BY CutHolds DEF Mid, Edged
<1>2. e = (IF one.two_phase \in Pairing THEN CancelPair(one) ELSE ForgetPair(one))
  BY DEF CancelLower, Pairing
<1> HIDE DEF one, e
<1>3. Edged(p, f, one, f.right, Presses(p, f)) /\ one \in StateType
  BY <1>1, EdgedOthers DEF Mid, Edged, TapInv
<1>4. /\ Ones(one, e) /\ e.two_phase \notin Pairing
      /\ e.two_finger_ids = {} /\ ~e.scroll_open
      /\ e.scroll_ended = (one.scroll_ended \/ one.scroll_open)
      /\ e.scroll_began = one.scroll_began /\ e.secondary_tap = one.secondary_tap
  <2>1. CASE one.two_phase \in Pairing
    BY <1>2, <1>3, <2>1, CancelPairFields DEF Edged, PairInv, Parted, Pairing
  <2>2. CASE one.two_phase \notin Pairing
    <3>1. ~one.scroll_open /\ one.scroll_ended \in BOOLEAN
      BY <1>3, <2>2, PhysicalType DEF Edged, PairInv, Pairing
    <3> QED BY <1>2, <1>3, <2>2, <3>1, ForgetPairFields
  <2> QED BY <2>1, <2>2
<1>5. /\ e \in StateType /\ e.tap_phase = "Idle" /\ e.tracking_id = None
      /\ TapInv(e) /\ LeftMid(p, e) /\ LatchInv(e)
  BY <1>1, <1>3, <1>4 DEF Ones, Pointer, Quiet, TapInv, LeftMid, LeftAccount,
     LatchInv, Edged, Interacting
<1>6. e.lifecycle = "Idle" /\ ~e.tap_disqualified /\ ~e.synthetic_left
  BY <1>5, SyntheticType DEF TapInv, Interacting, StateType
<1>7. PairInv(e)
  BY <1>4, <1>5, NoPair, PhysicalType DEF PairInv, Pairing
<1>8. ScrollAccount(p, e) /\ ~e.scroll_began /\ ~e.secondary_tap
  BY <1>3, <1>4, <1>5, PhysicalType DEF Edged, ScrollAccount
<1> QED BY <1>3, <1>4, <1>5, <1>6, <1>7, <1>8 DEF Cleared, Rests, LeftMid, Edged, Ones, e

\* The same under a drag, whose button stays as it is.
LEMMA HeldCleared ==
  ASSUME NEW p, Held(p), NEW f, IsFrame(f), ~f.right, ~f.discontinuity,
         NEW d, Gripped(p, f, d), ~f.left
  PROVE  LET e == CancelLower(d) IN
         Cleared(p, f, e) /\ e.synthetic_left = p.synthetic_left
<1> DEFINE e == CancelLower(d)
<1>1. d \in StateType /\ p \in StateType /\ d.two_phase \notin Pairing
  BY DEF Gripped, Held
<1>2. CancelInteraction(d) = d /\ CancelTapPolicy(d) = d
  BY DEF Gripped, Held, Rests, Pointer, CancelInteraction, CancelTapPolicy
<1>3. e = ForgetPair(d)
  BY <1>1, <1>2 DEF CancelLower, Pairing
<1> HIDE DEF e
<1>4. /\ Ones(d, e) /\ e.two_finger_ids = {} /\ e.two_phase = d.two_phase
      /\ e.scroll_open = d.scroll_open /\ e.scroll_ended = d.scroll_ended
      /\ e.scroll_began = d.scroll_began /\ e.secondary_tap = d.secondary_tap
  BY <1>1, <1>3, ForgetPairFields
<1>5. /\ e \in StateType /\ e.tap_phase = "Idle" /\ e.tracking_id = None
      /\ e.lifecycle = "Idle" /\ ~e.tap_disqualified
      /\ e.synthetic_left = p.synthetic_left
      /\ ~e.synthetic_down /\ ~e.synthetic_up
  BY <1>4 DEF Gripped, Held, Rests, Drafted, Ones, Pointer, Quiet
<1>6. /\ ~e.scroll_open /\ ~e.scroll_ended /\ ~e.scroll_began /\ ~e.secondary_tap
      /\ PairInv(e)
  BY <1>1, <1>4, <1>5, NoPair, PhysicalType DEF Gripped, PairInv, Pairing
<1>7. ~LatchesPress(p, f)
  BY DEF LatchesPress
<1>8. /\ ~e.physical_left /\ e.physical_left_raw = f.left
      /\ e.physical_right = f.right
      /\ ~e.latched_right_owned /\ ~e.latched_right_down /\ ~e.latched_right_up
  BY <1>1, <1>4, <1>7, PhysicalType DEF Gripped, Ones, IsFrame
<1>9. LatchInv(e) /\ LeftAccount(p, e)
  BY <1>5, <1>8, PhysicalType, SyntheticType DEF LatchInv, LeftAccount
<1>10. ~p.physical_left_raw /\ ~p.scroll_open /\ ~p.latched_right_owned
  BY DEF Held, Rests, LatchInv
<1>11. ScrollAccount(p, e)
  BY <1>6, <1>10, <1>1, <1>5, PhysicalType DEF ScrollAccount
<1> QED BY <1>4, <1>5, <1>6, <1>7, <1>8, <1>9, <1>10, <1>11 DEF Cleared, Rests, e

\* A cleared draft is accounted for.
LEMMA ClearedIsAccounted ==
  ASSUME NEW p, NEW f, NEW e, Cleared(p, f, e),
         e.physical_left \/ p.physical_left \/ Presses(p, f) => ~e.synthetic_left
  PROVE  Accounted(p, f, e)
  BY DEF Cleared, Accounted, Rests

\* The button of the drag on a cleared draft, nobody else pressing.
LEMMA ButtonIsAccounted ==
  ASSUME NEW p \in StateType, NEW f, NEW e, Cleared(p, f, e), NEW action,
         ~e.physical_left, ~p.physical_left, ~Presses(p, f)
  PROVE  LET b == DragButton(e, f, action) IN
         /\ Accounted(p, f, b) /\ Rests(b) /\ PairInv(b)
         /\ b.lifecycle = "Idle" /\ ~b.tap_disqualified
         /\ action = "End" => ~b.synthetic_left
         /\ action \notin {"Begin", "Move"} /\ ~e.synthetic_left =>
              ~b.synthetic_left
<1> DEFINE b == DragButton(e, f, action)
<1>1. e \in StateType
  BY DEF Cleared
<1>2. b \in {PressLeft(e), ReleaseLeft(e), e}
  BY DEF DragButton
<1>3. /\ action = "End" => b = ReleaseLeft(e)
      /\ action \notin {"Begin", "Move", "End"} => b = e
  BY DEF DragButton
<1> HIDE DEF b
<1>4. CASE b = e
  <2>1. action # "End" \/ ~b.synthetic_left
    BY <1>1, <1>3, <1>4, ReleaseLeftFields
  <2> QED BY <1>4, <2>1, ClearedIsAccounted DEF Cleared, b
<1>5. CASE b = ReleaseLeft(e)
  <2>1. /\ Others(e, b) /\ Pointer(e, b) /\ b.tap_phase = e.tap_phase
        /\ b.synthetic_down = e.synthetic_down /\ ~b.synthetic_left
        /\ b.synthetic_up = (e.synthetic_up \/ e.synthetic_left)
    BY <1>1, <1>5, ReleaseLeftFields
  <2>2. LeftAccount(p, b)
    BY <1>1, <2>1, SyntheticType DEF Cleared, LeftAccount, Others
  <2>3. Cleared(p, f, b)
    BY <2>1, <2>2 DEF Cleared, Others, Pointer, Rests, LatchInv, PairInv, ButtonHeld, ScrollAccount
  <2>4. Accounted(p, f, b)
    BY <2>1, <2>3, ClearedIsAccounted
  <2> QED BY <2>1, <2>3, <2>4 DEF Cleared, b
<1>6. CASE b = PressLeft(e) /\ action \in {"Begin", "Move"}
  <2>1. /\ Others(e, b) /\ Pointer(e, b) /\ b.tap_phase = e.tap_phase
        /\ b.synthetic_up = e.synthetic_up /\ b.synthetic_left
        /\ b.synthetic_down = (e.synthetic_down \/ ~e.synthetic_left)
    BY <1>1, <1>6, PressLeftFields
  <2>2. LeftAccount(p, b)
    BY <1>1, <2>1, SyntheticType DEF Cleared, LeftAccount, Others
  <2>3. /\ b \in StateType /\ LatchInv(b) /\ PairInv(b) /\ ScrollAccount(p, b)
        /\ Rests(b) /\ b.lifecycle = "Idle" /\ ~b.tap_disqualified
        /\ ~b.scroll_began /\ ~b.secondary_tap
    BY <2>1 DEF Cleared, Others, Pointer, Rests, LatchInv, PairInv, ButtonHeld, ScrollAccount
  <2>4. Accounted(p, f, b)
    BY <2>1, <2>2, <2>3 DEF Accounted, Cleared, Others, Rests
  <2> QED BY <1>6, <2>3, <2>4 DEF b
<1>7. b = PressLeft(e) => action \in {"Begin", "Move"} \/ b \in {e, ReleaseLeft(e)}
  BY <1>3
<1> QED BY <1>2, <1>4, <1>5, <1>6, <1>7

-----------------------------------------------------------------------------
(* The invariant of the upper policies.                                    *)

\* The arbiter below them.
LowerInv ==
  /\ TypeOK /\ ~Drafted(arbiter) /\ LatchInv(arbiter) /\ ~arbiter.physical_right
  /\ cluster = {}
  /\ ~DragHolds => OwnersInv
  /\ DragHolds /\ ~regressed => Held(arbiter)

\* The drag, and what rests while it has or awaits the fingers.
DragInv ==
  /\ mode.drag = "Off" => drag.phase = "Idle"
  /\ drag.phase # "Idle" => LowerRests /\ ~arbiter.physical_left_raw
  /\ drag.phase \in {"Candidate", "LockedContact"} => Cardinality(drag.ids) = 3
  /\ DragHolds => gesture = GestureRests
  /\ drag.phase = "Candidate" /\ mode.drag_enabled /\ ~drag.settled =>
       gesture = GestureRests
  /\ Unmoved(drag) => ~arbiter.synthetic_left

\* The gesture, its route and what the desktop has been told of it.
GestureInv ==
  /\ gesture.committed # NoKind => mode.gestures /\ LowerRests
  /\ gesture.committed # NoKind /\ route.how # "Suppressed" =>
       shown = gesture.committed
  /\ mode.target = Unbound => route = RouteRests
  /\ RouteFollowsGesture

UpperInv == UpperTypeOK /\ LowerInv /\ DragInv /\ GestureInv

\* A frame as the upper policies take it.
IsUpperFrame(f) ==
  /\ IsFrame(f) /\ f.incomplete = {} /\ ~f.right
  /\ f.discontinuity => ~f.crossed
  /\ Compared(drag, f)

\* Before a frame the state below is what the two halves of it need.
LEMMA LowerReady ==
  ASSUME UpperInv, ~regressed
  PROVE  /\ arbiter \in StateType /\ ~arbiter.physical_right
         /\ mode \in ModeType /\ drag \in DragType
         /\ DragHolds => Held(arbiter)
         /\ ~DragHolds => Ready(arbiter) /\ OwnersInv
         /\ Sound(arbiter)
<1>1. /\ arbiter \in StateType /\ ~arbiter.physical_right
      /\ mode \in ModeType /\ drag \in DragType
      /\ DragHolds => Held(arbiter)
      /\ ~DragHolds => OwnersInv
  BY GestureAssumption DEF UpperInv, UpperTypeOK, LowerInv, TypeOK, GestureAssumption
<1>2. ~DragHolds => Ready(arbiter)
  BY <1>1, OwnersReady
<1>3. Held(arbiter) => Sound(arbiter)
  BY NoPair DEF Held, Rests, Sound, LatchInv, PairInv, Pairing
<1> QED BY <1>1, <1>2, <1>3, ReadyIsSound

\* The live contacts of a frame are complete.
LEMMA AllLive ==
  ASSUME NEW f, IsUpperFrame(f)
  PROVE  /\ LiveComplete(f) = Live(f) /\ Live(f) \in SUBSET Ids
         /\ IsFiniteSet(Live(f))
<1>1. Live(f) \in SUBSET Ids /\ LiveComplete(f) = Live(f)
  BY DEF IsUpperFrame, Live, LiveComplete
<1> QED BY <1>1, ArbiterAssumption, FS_Subset DEF ArbiterAssumption

\* A draft has the fields of a draft.
IsDraft(u) ==
  u = Draft(u.lower, u.drag, u.gesture, u.route, u.events, u.blocks)

\* A frame that the drag has looked at.
DragLooked(u, f) ==
  /\ IsDraft(u)
  /\ u.drag \in DragType /\ u.blocks \in BOOLEAN
  /\ mode.drag = "Off" => u.drag.phase = "Idle"
  /\ u.drag.phase \in {"Candidate", "LockedContact"} =>
       Cardinality(u.drag.ids) = 3
  /\ u.drag.phase # "Idle" => ~f.left
  /\ \/ u.gesture = gesture /\ u.route = route
     \/ u.gesture = GestureRests /\ u.route = RouteRests
  /\ u.blocks =>
       /\ Accounted(arbiter, f, u.lower) /\ Rests(u.lower) /\ PairInv(u.lower)
       /\ u.lower.lifecycle = "Idle" /\ ~u.lower.tap_disqualified
       /\ u.gesture = GestureRests /\ u.route = RouteRests
       /\ ~Holding(u.drag) \/ Unmoved(u.drag) => ~u.lower.synthetic_left
       /\ \/ u.events = <<>>
          \/ /\ u.events = TapEvents /\ Live(f) = {}
             /\ ~f.left /\ drag.phase # "Idle" /\ ~arbiter.synthetic_left
             /\ ~u.lower.synthetic_left /\ ~u.lower.synthetic_down
  /\ ~u.blocks =>
       /\ Mid(arbiter, f, u.lower) /\ ~Holding(u.drag) /\ u.events = <<>>
       /\ u.drag.phase = "Candidate" =>
            /\ Cardinality(Live(f)) = 3
            /\ mode.drag_enabled => u.drag.settled

\* The drag keeps the account whether it blocks the frame or not.
LEMMA DragStepHolds ==
  ASSUME UpperInv, ~regressed, NEW f, IsUpperFrame(f)
  PROVE  LET d == ExpireFollowUp(Discontinuity(PhysicalEdges(arbiter, f), f), f.late)
         IN DragLooked(DragStep(d, f), f)
<1> DEFINE d == ExpireFollowUp(Discontinuity(PhysicalEdges(arbiter, f), f), f.late)
           u == DragStep(d, f)
           o == ProcessDrag(drag, f, LiveComplete(f))
           e == CancelLower(d)
           b == DragButton(e, f, o.action)
<1>0. /\ IsFrame(f) /\ ~f.right /\ Compared(drag, f)
      /\ LiveComplete(f) = Live(f) /\ Live(f) \in SUBSET Ids
  BY AllLive DEF IsUpperFrame
<1>1. /\ arbiter \in StateType /\ ~arbiter.physical_right
      /\ mode \in ModeType /\ drag \in DragType
      /\ DragHolds => Held(arbiter)
      /\ ~DragHolds => Ready(arbiter) /\ OwnersInv
  BY LowerReady
<1>2. DragHolds <=> Holding(drag)
  BY DEF DragHolds, Holding
<1>3. DragHolds => Gripped(arbiter, f, d)
  BY <1>0, <1>1, HeldMid
<1>4. ~DragHolds => Mid(arbiter, f, d)
  BY <1>0, <1>1, MidHolds
<1> HIDE DEF d
<1>5. DragHolds => Mid(arbiter, f, ReleaseLeft(d))
  BY <1>0, <1>1, <1>3, GripReleased
<1>6. drag.phase = "Candidate" => d.tap_phase = "Idle" /\ ~d.synthetic_left
  <2>1. ASSUME drag.phase = "Candidate" PROVE d.tap_phase = "Idle" /\ TapInv(d)
    BY <1>2, <1>4, <2>1 DEF Holding, Mid, Edged, UpperInv, DragInv, LowerRests
  <2> QED BY <2>1 DEF TapInv, StateType
<1>7. drag.phase # "Idle" => Mid(arbiter, f, ReleaseLeft(d))
  <2>1. CASE drag.phase = "Candidate"
    BY <1>2, <1>4, <1>6, <2>1 DEF Holding, ReleaseLeft
  <2>2. CASE Holding(drag)
    BY <1>2, <1>5, <2>2
  <2> QED BY <1>1, <2>1, <2>2 DEF DragType, DragPhases, Holding
<1>8. d.physical_left_raw = f.left /\ d.latched_right_owned \in BOOLEAN /\ d \in StateType
  BY <1>3, <1>4 DEF Gripped, Mid, Edged, TapInv, StateType
<1>9. Dragged(drag, f, Live(f), o)
  BY <1>0, <1>1, DragHoldsUp DEF UpperInv, DragInv
<1>10. CASE mode.drag = "Off"
  <2>1. drag.phase = "Idle"
    BY <1>10 DEF UpperInv, DragInv
  <2>2. u = Draft(d, drag, gesture, route, <<>>, FALSE)
    BY <1>10 DEF DragStep
  <2>3. Mid(arbiter, f, d) /\ ~Holding(drag)
    BY <1>2, <1>4, <2>1 DEF Holding
  <2> HIDE DEF u
  <2>4. /\ u.lower = d /\ u.drag = drag /\ u.gesture = gesture /\ u.route = route
        /\ u.events = <<>> /\ u.blocks = FALSE /\ IsDraft(u)
    BY <2>2 DEF Draft, IsDraft
  <2> QED BY <1>1, <2>1, <2>3, <2>4 DEF DragLooked, u, d
<1>11. CASE mode.drag # "Off" /\ DragInterrupted(d, f)
  <2>1. CASE drag.phase = "Idle"
    <3>1. u = Draft(d, drag, gesture, route, <<>>, FALSE)
      BY <1>11, <2>1 DEF DragStep
    <3>2. Mid(arbiter, f, d) /\ ~Holding(drag)
      BY <1>2, <1>4, <2>1 DEF Holding
    <3> HIDE DEF u
    <3>3. /\ u.lower = d /\ u.drag = drag /\ u.gesture = gesture /\ u.route = route
          /\ u.events = <<>> /\ u.blocks = FALSE /\ IsDraft(u)
      BY <3>1 DEF Draft, IsDraft
    <3> QED BY <1>1, <2>1, <3>2, <3>3 DEF DragLooked, u, d
  <2>2. CASE drag.phase # "Idle"
    <3>1. u = Draft(ReleaseLeft(d), DragRests, GestureRests, RouteRests, <<>>, FALSE)
      BY <1>11, <2>2 DEF DragStep
    <3> HIDE DEF u
    <3>2. /\ u.lower = ReleaseLeft(d) /\ u.drag = DragRests
          /\ u.gesture = GestureRests /\ u.route = RouteRests
          /\ u.events = <<>> /\ u.blocks = FALSE /\ IsDraft(u)
      BY <3>1 DEF Draft, IsDraft
    <3> QED BY <1>7, <2>2, <3>2, DragRestsFields DEF DragLooked, Holding, u, d
  <2> QED BY <2>1, <2>2
<1>12. CASE mode.drag # "Off" /\ ~DragInterrupted(d, f) /\ ~o.blocks
  <2>1. u = Draft(d, o.drag, gesture, route, <<>>, FALSE)
    BY <1>12 DEF DragStep
  <2>2. ~DragHolds /\ ~Holding(o.drag)
    BY <1>2, <1>9, <1>12 DEF Dragged
  <2>3. Mid(arbiter, f, d)
    BY <1>4, <2>2
  <2>4. ~f.left
    BY <1>8, <1>12 DEF DragInterrupted
  <2> HIDE DEF u, o
  <2>5. /\ u.lower = d /\ u.drag = o.drag /\ u.gesture = gesture /\ u.route = route
        /\ u.events = <<>> /\ u.blocks = FALSE /\ IsDraft(u)
    BY <2>1 DEF Draft, IsDraft
  <2> QED BY <1>9, <1>12, <2>2, <2>3, <2>4, <2>5 DEF Dragged, DragLooked, u, d
<1>13. CASE mode.drag # "Off" /\ ~DragInterrupted(d, f) /\ o.blocks
  <2>1. u = Draft(b, o.drag, GestureRests, RouteRests,
                  IF o.action = "Tap" THEN TapEvents ELSE <<>>, TRUE)
    BY <1>13 DEF DragStep
  <2>2. ~f.left /\ ~f.discontinuity
    BY <1>8, <1>13 DEF DragInterrupted
  <2> HIDE DEF u, o, e, b
  <2>3. /\ u.lower = b /\ u.drag = o.drag
        /\ u.gesture = GestureRests /\ u.route = RouteRests
        /\ u.events = (IF o.action = "Tap" THEN TapEvents ELSE <<>>)
        /\ u.blocks = TRUE /\ IsDraft(u)
    BY <2>1 DEF Draft, IsDraft
  <2>4. Cleared(arbiter, f, e)
    BY <1>0, <1>1, <1>3, <1>4, <2>2, HeldCleared, CancelLowerHolds DEF e
  <2>5. /\ DragHolds => e.synthetic_left = arbiter.synthetic_left
        /\ ~DragHolds => ~e.synthetic_left
    BY <1>0, <1>1, <1>3, <1>4, <2>2, HeldCleared, CancelLowerHolds DEF e
  <2>6. ~e.physical_left /\ ~Presses(arbiter, f)
    BY <1>0, <1>1, <2>2, <2>4, PhysicalType DEF Cleared, LatchInv, Presses,
       PressesLeft, PressesRight
  <2>7. /\ Accounted(arbiter, f, b) /\ Rests(b) /\ PairInv(b)
        /\ b.lifecycle = "Idle" /\ ~b.tap_disqualified
        /\ o.action = "End" => ~b.synthetic_left
        /\ o.action \notin {"Begin", "Move"} /\ ~e.synthetic_left =>
             ~b.synthetic_left
    <3>1. CASE drag.phase # "Idle"
      <4>1. ~arbiter.physical_left
        BY <1>1, <3>1, PhysicalType DEF UpperInv, LowerInv, DragInv, LatchInv
      <4> QED BY <1>1, <2>4, <2>6, <4>1, ButtonIsAccounted DEF b
    <3>2. CASE drag.phase = "Idle"
      <4>1. o.action \notin {"Begin", "Move", "End"} /\ ~DragHolds
        BY <1>2, <1>9, <3>2 DEF Dragged, Holding, Unmoved
      <4>2. b = e /\ ~e.synthetic_left
        BY <2>5, <4>1 DEF b, DragButton
      <4> QED BY <2>4, <4>1, <4>2, ClearedIsAccounted DEF Cleared
    <3> QED BY <3>1, <3>2
  <2>8. ~Holding(o.drag) \/ Unmoved(o.drag) => ~b.synthetic_left
    <3>1. CASE ~DragHolds
      <4>1. o.action \in {"Begin", "Move"} => Holding(o.drag) /\ ~Unmoved(o.drag)
        BY <1>9 DEF Dragged
      <4> QED BY <2>5, <2>7, <3>1, <4>1
    <3>2. CASE DragHolds
      <4>1. ~Holding(o.drag) => o.action = "End" \/ Unmoved(drag)
        BY <1>2, <1>9, <3>2 DEF Dragged
      <4>2. Unmoved(drag) => ~e.synthetic_left
        BY <2>5, <3>2 DEF UpperInv, DragInv
      <4>3. /\ Unmoved(o.drag) => Unmoved(drag)
            /\ o.action \in {"Begin", "Move"} => Holding(o.drag) /\ ~Unmoved(o.drag)
        BY <1>2, <1>9, <3>2 DEF Dragged
      <4> QED BY <2>7, <4>1, <4>2, <4>3
    <3> QED BY <3>1, <3>2
  <2>9. ASSUME o.action = "Tap"
        PROVE  /\ Live(f) = {} /\ drag.phase # "Idle" /\ ~arbiter.synthetic_left
               /\ ~b.synthetic_left /\ ~b.synthetic_down
    <3>1. Live(f) = {} /\ (drag.phase = "Candidate" \/ Unmoved(drag))
      BY <1>9, <2>9 DEF Dragged
    <3>2. drag.phase = "Candidate" => ~arbiter.synthetic_left
      <4>1. drag.phase = "Candidate" => TapInv(arbiter) /\ arbiter.tap_phase = "Idle"
        BY <1>1, <1>2 DEF Holding, Ready, UpperInv, DragInv, LowerRests
      <4> QED BY <1>1, <4>1 DEF TapInv
    <3>3. b = e /\ ~e.synthetic_down
      BY <2>4, <2>9 DEF b, DragButton, Cleared
    <3>4. ~Holding(o.drag)
      BY <1>9, <2>9 DEF Dragged
    <3> QED BY <2>8, <3>1, <3>2, <3>3, <3>4 DEF UpperInv, DragInv, Unmoved
  <2> QED BY <1>9, <1>13, <2>2, <2>3, <2>7, <2>8, <2>9 DEF Dragged, DragLooked, u, d
<1> QED BY <1>10, <1>11, <1>12, <1>13 DEF d

-----------------------------------------------------------------------------
(* The gesture and its route.                                              *)

\* The route agrees with the gesture, and with what the desktop was told.
Routed(g, r, told) ==
  /\ g.committed # NoKind /\ r.how # "Suppressed" => told = g.committed
  /\ mode.target = Unbound => r = RouteRests
  /\ mode.target # Unbound =>
       r.kind = g.committed /\ (r.how = "None") = (g.committed = NoKind)

\* What one event tells the desktop: it goes on only with what it last began.
Proper(events, before) ==
  \A k \in DOMAIN events :
    events[k].what \in {"Update", "End"} => before = events[k].kind

\* What a frame does to the desktop's view.
ShownBy(events, before) ==
  IF events = <<>> THEN before
  ELSE CASE events[1].what = "Begin" -> events[1].kind
         [] events[1].what = "End"   -> NoKind
         [] OTHER -> before

\* At rest nothing is committed and nothing is routed.
LEMMA RestRouted ==
  /\ GestureRests \in GestureType /\ RouteRests \in RouteType
  /\ GestureRests.committed = NoKind
  /\ \A told : Routed(GestureRests, RouteRests, told)
  BY DEF GestureRests, RouteRests, GestureType, RouteType, Routed, Kinds, NoKind

\* Fields of an event.
LEMMA UpperEventFields ==
  ASSUME NEW kind \in Kinds, NEW what \in {"Begin", "Update", "End"}
  PROVE  /\ Event(what, kind) \in UpperEvents
         /\ Event(what, kind).what = what /\ Event(what, kind).kind = kind
  BY DEF Event, UpperEvents

\* One event, or none.
LEMMA OneEvent ==
  ASSUME NEW e \in UpperEvents
  PROVE  /\ <<e>> \in Seq(UpperEvents) /\ <<e>> # <<>> /\ <<e>>[1] = e
         /\ DOMAIN <<e>> = {1}
  OBVIOUS

\* Nothing is an event.
LEMMA NoEvent ==
  /\ <<>> \in Seq(UpperEvents) /\ DOMAIN <<>> = {}
  OBVIOUS

\* The events that no gesture begins or ends.
LEMMA PlainEvents ==
  /\ Action \in UpperEvents /\ Action.what = "Action"
  /\ TapEvents \in Seq(UpperEvents)
  /\ \A before : Proper(TapEvents, before) /\ ShownBy(TapEvents, before) = before
<1>1. Action \in UpperEvents /\ Action.what = "Action"
  BY DEF Action, Event, UpperEvents
<1>2. /\ Event("MiddleClick", NoKind) \in UpperEvents
      /\ Event("MiddleClick", NoKind).what = "MiddleClick"
  BY DEF Event, UpperEvents
<1>3. TapEvents \in {<<>>, <<Event("MiddleClick", NoKind)>>, <<Action>>}
  BY DEF TapEvents
<1>4. ASSUME NEW e \in {Event("MiddleClick", NoKind), Action}
      PROVE  \A before : Proper(<<e>>, before) /\ ShownBy(<<e>>, before) = before
  <2>1. e \in UpperEvents /\ e.what \in {"MiddleClick", "Action"}
    BY <1>1, <1>2
  <2>2. /\ <<e>> \in Seq(UpperEvents) /\ <<e>> # <<>> /\ <<e>>[1] = e
        /\ DOMAIN <<e>> = {1}
    BY <2>1, OneEvent
  <2> QED BY <2>1, <2>2 DEF Proper, ShownBy
<1>5. \A before : Proper(<<>>, before) /\ ShownBy(<<>>, before) = before
  BY NoEvent DEF Proper, ShownBy
<1>6. TapEvents \in Seq(UpperEvents)
  BY <1>1, <1>2, <1>3, OneEvent, NoEvent
<1> QED BY <1>1, <1>3, <1>4, <1>5, <1>6

\* What a frame can make of a gesture, its route and the desktop's view.
Gestured(s, rr, out, before) ==
  /\ s.gesture \in GestureType /\ rr \in RouteType /\ out \in Seq(UpperEvents)
  /\ Routed(s.gesture, rr, ShownBy(out, before)) /\ Proper(out, before)
  /\ s.blocks \in BOOLEAN
  /\ \A k \in DOMAIN out : out[k].what # "MiddleClick"
  /\ ~s.blocks => s.gesture.committed = NoKind /\ s.events = <<>>

\* A gesture ends, goes on, begins or waits, and its route with it.
LEMMA ProcessGestureHolds ==
  ASSUME NEW g \in GestureType, NEW r \in RouteType, NEW f, NEW live \in SUBSET Ids,
         NEW before, Routed(g, r, before), mode \in ModeType, IsFiniteSet(live)
  PROVE  LET s == ProcessGesture(g, f, live)
             t == Route(r, s.events)
         IN Gestured(s, t.route, t.out, before)
<1> DEFINE s == ProcessGesture(g, f, live)
           t == Route(r, s.events)
<1>1. CASE g.committed # NoKind
  <2>0. g.committed \in Kinds
    BY <1>1 DEF GestureType
  <2> DEFINE update == Event("Update", g.committed)
             end == Event("End", g.committed)
  <2>1. CASE live = g.anchor
    <3>1. s = Seen(g, <<update>>, TRUE)
      BY <1>1, <2>1 DEF ProcessGesture
    <3>2. /\ update \in UpperEvents /\ update.what = "Update"
          /\ update.kind = g.committed
      BY <2>0, UpperEventFields
    <3> HIDE DEF update, s
    <3>3. /\ <<update>> \in Seq(UpperEvents) /\ <<update>> # <<>>
          /\ <<update>>[1] = update /\ DOMAIN <<update>> = {1}
      BY <3>2, OneEvent
    <3>4. s.gesture = g /\ s.events = <<update>> /\ s.blocks = TRUE
      BY <3>1 DEF Seen
    <3>5. /\ t.route = r
          /\ \/ t.out = <<update>> /\ (mode.target = Unbound \/ r.how # "Suppressed")
             \/ t.out = <<>>
      BY <1>1, <3>2, <3>3, <3>4 DEF Route, RouteEvent, If, Routed
    <3> HIDE DEF t
    <3>6. CASE t.out = <<>>
      BY <1>1, <3>4, <3>5, <3>6, NoEvent DEF Gestured, ShownBy, Proper, s, t
    <3>7. CASE t.out = <<update>> /\ (mode.target = Unbound \/ r.how # "Suppressed")
      <4>1. r.how # "Suppressed"
        BY <3>7 DEF Routed, RouteRests
      <4>2. before = g.committed
        BY <1>1, <4>1 DEF Routed
      <4> QED BY <1>1, <3>2, <3>3, <3>4, <3>5, <3>7, <4>2 DEF Gestured, ShownBy, Proper, s, t
    <3> QED BY <3>5, <3>6, <3>7
  <2>2. CASE live # g.anchor
    <3>1. s = Seen(GestureRests, <<end>>, TRUE)
      BY <1>1, <2>2 DEF ProcessGesture
    <3>2. /\ end \in UpperEvents /\ end.what = "End"
          /\ end.kind = g.committed
      BY <2>0, UpperEventFields
    <3> HIDE DEF end, s
    <3>3. /\ <<end>> \in Seq(UpperEvents) /\ <<end>> # <<>>
          /\ <<end>>[1] = end /\ DOMAIN <<end>> = {1}
      BY <3>2, OneEvent
    <3>4. s.gesture = GestureRests /\ s.events = <<end>> /\ s.blocks = TRUE
      BY <3>1 DEF Seen
    <3>5. /\ t.route = RouteRests
          /\ \/ t.out = <<end>> /\ (mode.target = Unbound \/ r.how # "Suppressed")
             \/ t.out = <<>>
      BY <1>1, <3>2, <3>3, <3>4 DEF Route, RouteEvent, If, Routed
    <3> HIDE DEF t
    <3>6. CASE t.out = <<>>
      BY <1>1, <3>4, <3>5, <3>6, NoEvent, RestRouted DEF Gestured, ShownBy, Proper, s, t
    <3>7. CASE t.out = <<end>> /\ (mode.target = Unbound \/ r.how # "Suppressed")
      <4>1. r.how # "Suppressed"
        BY <3>7 DEF Routed, RouteRests
      <4>2. before = g.committed
        BY <1>1, <4>1 DEF Routed
      <4> QED BY <1>1, <3>2, <3>3, <3>4, <3>5, <3>7, <4>2, RestRouted DEF Gestured, Proper, s, t
    <3> QED BY <3>5, <3>6, <3>7
  <2> QED BY <2>1, <2>2
<1>2. CASE g.committed = NoKind
  <2> DEFINE kind == Cardinality(live)
             begin == Event("Begin", kind)
             begun == [g EXCEPT !.committed = kind]
             anchored == [g EXCEPT !.anchor = live]
  <2>1. \/ kind \in FingerRange /\ s = Seen(begun, <<begin>>, TRUE)
        \/ \E h \in {GestureRests, anchored, g} : s = Seen(h, <<>>, FALSE)
    <3>1. CASE kind \notin FingerRange
      BY <1>2, <3>1 DEF ProcessGesture
    <3>2. CASE kind \in FingerRange /\ live # g.anchor
      BY <1>2, <3>2 DEF ProcessGesture
    <3>3. CASE kind \in FingerRange /\ live = g.anchor
      BY <1>2, <3>3 DEF ProcessGesture
    <3> QED BY <3>1, <3>2, <3>3
  <2>2. anchored \in GestureType /\ anchored.committed = g.committed
    BY DEF GestureType
  <2> HIDE DEF s, begin, begun, anchored
  <2>3. CASE \E h \in {GestureRests, anchored, g} : s = Seen(h, <<>>, FALSE)
    <3>1. PICK h \in {GestureRests, anchored, g} : s = Seen(h, <<>>, FALSE)
      BY <2>3
    <3>2. s.gesture = h /\ s.events = <<>> /\ s.blocks = FALSE
      BY <3>1 DEF Seen
    <3>3. h \in GestureType /\ h.committed = NoKind
      BY <1>2, <2>2, <3>1, RestRouted
    <3>4. t.route = r /\ t.out = <<>>
      BY <3>2 DEF Route
    <3>5. Routed(h, r, before)
      BY <1>2, <3>3 DEF Routed
    <3> HIDE DEF t
    <3> QED BY <3>2, <3>3, <3>4, <3>5, NoEvent DEF Gestured, ShownBy, Proper, s, t
  <2>4. CASE kind \in FingerRange /\ s = Seen(begun, <<begin>>, TRUE)
    <3>1. kind \in Kinds /\ kind # NoKind
      BY <2>4 DEF FingerRange, Kinds, NoKind
    <3> HIDE DEF kind
    <3>2. /\ begin \in UpperEvents /\ begin.what = "Begin" /\ begin.kind = kind
      BY <3>1, UpperEventFields DEF begin
    <3>3. begun \in GestureType /\ begun.committed = kind
      BY <3>1 DEF begun, GestureType
    <3>4. /\ <<begin>> \in Seq(UpperEvents) /\ <<begin>> # <<>>
          /\ <<begin>>[1] = begin /\ DOMAIN <<begin>> = {1}
      BY <3>2, OneEvent
    <3>5. s.gesture = begun /\ s.events = <<begin>> /\ s.blocks = TRUE
      BY <2>4 DEF Seen
    <3> DEFINE passed == [how |-> "Passthrough", kind |-> kind]
               suppressed == [how |-> "Suppressed", kind |-> kind]
    <3>6. /\ passed \in RouteType /\ passed.how = "Passthrough" /\ passed.kind = kind
          /\ suppressed \in RouteType /\ suppressed.how = "Suppressed"
          /\ suppressed.kind = kind
      BY <3>1 DEF RouteType
    <3>7. \/ mode.target = Unbound /\ t.route = r /\ t.out = <<begin>>
          \/ mode.target = "Passthrough" /\ t.route = passed /\ t.out = <<begin>>
          \/ mode.target # Unbound /\ t.route = suppressed /\ t.out \in {<<>>, <<Action>>}
      BY <3>2, <3>4, <3>5 DEF Route, RouteEvent, If
    <3> HIDE DEF passed, suppressed, t
    <3>8. CASE mode.target = Unbound /\ t.route = r /\ t.out = <<begin>>
      BY <3>1, <3>2, <3>3, <3>4, <3>5, <3>8 DEF Gestured, Routed, ShownBy, Proper, s, t
    <3>9. CASE mode.target = "Passthrough" /\ t.route = passed /\ t.out = <<begin>>
      BY <3>1, <3>2, <3>3, <3>4, <3>5, <3>6, <3>9 DEF Gestured, Routed, ShownBy, Proper, Unbound, s, t
    <3>10. CASE mode.target # Unbound /\ t.route = suppressed /\ t.out \in {<<>>, <<Action>>}
      <4>1. Routed(begun, suppressed, before)
        BY <3>1, <3>3, <3>6, <3>10 DEF Routed
      <4>2. CASE t.out = <<>>
        BY <3>3, <3>5, <3>6, <3>10, <4>1, <4>2, NoEvent DEF Gestured, ShownBy, Proper, s, t
      <4>3. CASE t.out = <<Action>>
        <5>1. /\ <<Action>> \in Seq(UpperEvents) /\ <<Action>> # <<>>
              /\ <<Action>>[1] = Action /\ DOMAIN <<Action>> = {1}
          BY PlainEvents, OneEvent
        <5> QED BY <3>3, <3>5, <3>6, <3>10, <4>1, <4>3, <5>1, PlainEvents DEF Gestured, ShownBy, Proper, s, t
      <4> QED BY <3>10, <4>2, <4>3
    <3> QED BY <3>7, <3>8, <3>9, <3>10
  <2> QED BY <2>1, <2>3, <2>4
<1> QED BY <1>1, <1>2

-----------------------------------------------------------------------------
(* The whole frame of the upper policies.                                  *)

\* A pair is not three contacts.
LEMMA PairCount ==
  ASSUME NEW S, IsPair(S)
  PROVE  Cardinality(S) # 3
<1>1. PICK i \in S, j \in S : i # j /\ S = {i, j}
  BY DEF IsPair
<1>2. IsFiniteSet({j}) /\ Cardinality({j}) = 1
  BY FS_Singleton
<1>3. Cardinality({j} \cup {i}) = 2
  BY <1>1, <1>2, FS_AddElement
<1>4. S = {j} \cup {i}
  BY <1>1
<1> QED BY <1>3, <1>4

\* A frame that an upper policy has blocked, with its state below.
Blocked(v, f) ==
  /\ Accounted(arbiter, f, v.lower) /\ Rests(v.lower) /\ PairInv(v.lower)
  /\ v.lower.lifecycle = "Idle" /\ ~v.lower.tap_disqualified
  /\ ~Holding(v.drag) \/ Unmoved(v.drag) => ~v.lower.synthetic_left

\* What the upper policies have made of a frame, whoever blocked it.
UpperLooked(v, f) ==
  /\ IsDraft(v) /\ v.blocks \in BOOLEAN /\ v.drag \in DragType
  /\ mode.drag = "Off" => v.drag.phase = "Idle"
  /\ v.drag.phase \in {"Candidate", "LockedContact"} => Cardinality(v.drag.ids) = 3
  /\ v.drag.phase # "Idle" => ~f.left
  /\ v.gesture \in GestureType /\ v.route \in RouteType
  /\ v.events \in Seq(UpperEvents)
  /\ Routed(v.gesture, v.route, ShownBy(v.events, shown)) /\ Proper(v.events, shown)
  /\ v.gesture.committed # NoKind => mode.gestures /\ v.blocks
  /\ Holding(v.drag) => v.blocks /\ v.gesture = GestureRests
  /\ v.drag.phase = "Candidate" /\ mode.drag_enabled /\ ~v.drag.settled =>
       v.gesture = GestureRests
  /\ \A k \in DOMAIN v.events : v.events[k].what = "MiddleClick" =>
       /\ Live(f) = {} /\ ~f.left /\ drag.phase # "Idle" /\ v.blocks
       /\ ~arbiter.synthetic_left
       /\ ~v.lower.synthetic_left /\ ~v.lower.synthetic_down

\* The state below, before the lower policies have seen the frame.
Waiting(v, f) ==
  /\ v.blocks => Blocked(v, f)
  /\ ~v.blocks =>
       /\ Mid(arbiter, f, v.lower)
       /\ v.drag.phase = "Candidate" => Cardinality(Live(f)) = 3

\* The gesture blocks the frame, or leaves it to the policies below.
LEMMA GestureStepHolds ==
  ASSUME UpperInv, ~regressed, NEW f, IsUpperFrame(f), NEW u, DragLooked(u, f)
  PROVE  LET v == GestureStep(u, f) IN UpperLooked(v, f) /\ Waiting(v, f)
<1> DEFINE s == ProcessGesture(u.gesture, f, LiveComplete(f))
           t == Route(u.route, s.events)
           v == GestureStep(u, f)
<1>1. /\ mode \in ModeType /\ arbiter \in StateType /\ IsFrame(f)
      /\ LiveComplete(f) = Live(f) /\ Live(f) \in SUBSET Ids /\ IsFiniteSet(Live(f))
  BY LowerReady, AllLive DEF IsUpperFrame
<1>2. /\ gesture \in GestureType /\ route \in RouteType
      /\ Routed(gesture, route, shown)
      /\ gesture.committed # NoKind => mode.gestures
  BY DEF UpperInv, UpperTypeOK, GestureInv, Routed, RouteFollowsGesture
<1>3. /\ u.gesture \in GestureType /\ u.route \in RouteType
      /\ Routed(u.gesture, u.route, shown)
      /\ u.gesture.committed # NoKind => mode.gestures
  <2>1. CASE u.gesture = gesture /\ u.route = route
    BY <1>2, <2>1
  <2>2. CASE u.gesture = GestureRests /\ u.route = RouteRests
    BY <2>2, RestRouted
  <2> QED BY <2>1, <2>2 DEF DragLooked
<1>4. CASE u.blocks \/ ~mode.gestures
  <2>1. v = u
    BY <1>4 DEF GestureStep
  <2>2. /\ u.events \in Seq(UpperEvents) /\ Proper(u.events, shown)
        /\ ShownBy(u.events, shown) = shown
    <3>1. CASE u.events = <<>>
      BY <3>1, NoEvent DEF Proper, ShownBy
    <3>2. CASE u.events = TapEvents
      BY <3>2, PlainEvents
    <3> QED BY <3>1, <3>2 DEF DragLooked
  <2>3. Waiting(u, f)
    BY DEF DragLooked, Waiting, Blocked
  <2>4. u.gesture.committed # NoKind => mode.gestures /\ u.blocks
    BY <1>3, <1>4
  <2>5. \A k \in DOMAIN u.events : u.events[k].what = "MiddleClick" =>
          /\ Live(f) = {} /\ ~f.left /\ drag.phase # "Idle" /\ u.blocks
          /\ ~arbiter.synthetic_left
          /\ ~u.lower.synthetic_left /\ ~u.lower.synthetic_down
    <3>1. CASE u.events = <<>>
      BY <3>1, NoEvent
    <3>2. CASE u.events # <<>>
      BY <3>2 DEF DragLooked
    <3> QED BY <3>1, <3>2
  <2>6. /\ Holding(u.drag) => u.blocks /\ u.gesture = GestureRests
        /\ u.drag.phase = "Candidate" /\ mode.drag_enabled /\ ~u.drag.settled =>
             u.gesture = GestureRests
    BY DEF DragLooked
  <2> HIDE DEF v
  <2>7. UpperLooked(u, f)
    BY <1>3, <2>2, <2>4, <2>5, <2>6 DEF DragLooked, UpperLooked
  <2> QED BY <2>1, <2>3, <2>7 DEF v
<1>5. CASE ~u.blocks /\ mode.gestures
  <2>0. Gestured(s, t.route, t.out, shown)
    BY <1>1, <1>3, ProcessGestureHolds
  <2>1. /\ Mid(arbiter, f, u.lower) /\ ~Holding(u.drag) /\ u.events = <<>>
        /\ u.drag.phase = "Candidate" =>
             /\ Cardinality(Live(f)) = 3
             /\ mode.drag_enabled => u.drag.settled
    BY <1>5 DEF DragLooked
  <2>2. CASE s.blocks
    <3> DEFINE e == CancelLower(u.lower)
    <3>1. v = Draft(e, u.drag, s.gesture, t.route, t.out, TRUE)
      BY <1>5, <2>2 DEF GestureStep
    <3>2. Cleared(arbiter, f, e) /\ ~e.synthetic_left
      BY <1>1, <2>1, CancelLowerHolds
    <3> HIDE DEF v, s, t, e
    <3>3. /\ v.lower = e /\ v.drag = u.drag /\ v.gesture = s.gesture
          /\ v.route = t.route /\ v.events = t.out /\ v.blocks = TRUE /\ IsDraft(v)
      BY <3>1 DEF Draft, IsDraft
    <3>4. Accounted(arbiter, f, e)
      BY <3>2, ClearedIsAccounted
    <3>5. Blocked(v, f)
      BY <3>2, <3>3, <3>4 DEF Cleared, Blocked
    <3>6. UpperLooked(v, f)
      BY <1>5, <2>0, <2>1, <3>3 DEF DragLooked, UpperLooked, Gestured
    <3> QED BY <3>3, <3>5, <3>6 DEF Waiting, v
  <2>3. CASE ~s.blocks
    <3>1. v = [u EXCEPT !.gesture = s.gesture]
      BY <1>5, <2>3 DEF GestureStep
    <3>2. s.gesture.committed = NoKind /\ s.events = <<>> /\ s.gesture \in GestureType
      BY <2>0, <2>3 DEF Gestured
    <3>3. t.route = u.route /\ t.out = <<>>
      BY <3>2 DEF Route
    <3>4. Routed(s.gesture, u.route, shown)
      BY <2>0, <3>3 DEF Gestured, ShownBy
    <3> HIDE DEF v, s, t
    <3>5. v = Draft(u.lower, u.drag, s.gesture, u.route, u.events, u.blocks)
      BY <3>1 DEF DragLooked, IsDraft, Draft
    <3>6. /\ v.lower = u.lower /\ v.drag = u.drag /\ v.gesture = s.gesture
          /\ v.route = u.route /\ v.events = u.events /\ v.blocks = u.blocks
          /\ IsDraft(v)
      BY <3>5 DEF Draft, IsDraft
    <3>7. v.events = <<>> /\ v.blocks = FALSE
      BY <1>5, <2>1, <3>6 DEF DragLooked
    <3>8. Waiting(v, f)
      BY <2>1, <3>6, <3>7 DEF Waiting
    <3>9. Proper(v.events, shown) /\ ShownBy(v.events, shown) = shown
      BY <3>7, NoEvent DEF Proper, ShownBy
    <3>10. UpperLooked(v, f)
      BY <1>3, <2>1, <3>2, <3>4, <3>6, <3>7, <3>9, NoEvent DEF DragLooked, UpperLooked
    <3> QED BY <3>8, <3>10 DEF v
  <2> QED BY <2>0, <2>2, <2>3 DEF Gestured
<1> QED BY <1>4, <1>5 DEF DragLooked

\* What a frame leaves of the state below.
Lowered(w, f) ==
  /\ Accounted(arbiter, f, w.lower) /\ PairInv(w.lower)
  /\ Holding(w.drag) =>
       /\ Rests(w.lower) /\ w.lower.lifecycle = "Idle" /\ ~w.lower.tap_disqualified
  /\ ~Holding(w.drag) =>
       /\ TapInv(w.lower)
       /\ w.lower.two_phase \in Pairing =>
            w.lower.two_finger_ids = Live(f) /\ w.lower.tap_phase = "Idle"
       /\ w.lower.tap_phase \in Touching => w.lower.tracking_id \in Live(f)
  /\ w.drag.phase # "Idle" \/ w.gesture.committed # NoKind => Rests(w.lower)
  /\ Unmoved(w.drag) => ~w.lower.synthetic_left

\* A blocked frame leaves the policies below at rest.
LEMMA BlockedLowers ==
  ASSUME NEW v, NEW f, Blocked(v, f)
  PROVE  Lowered(v, f)
<1>1. /\ v.lower \in StateType /\ v.lower.tap_phase = "Idle"
      /\ v.lower.tracking_id = None /\ v.lower.two_finger_ids = {}
      /\ v.lower.lifecycle = "Idle" /\ PairInv(v.lower)
  BY DEF Blocked, Accounted, Rests
<1>2. v.lower.two_phase \notin Pairing
  BY <1>1, NoPair DEF PairInv
<1>3. ~Holding(v.drag) => TapInv(v.lower)
  BY <1>1 DEF Blocked, TapInv, Interacting, Touching, StateType
<1> QED BY <1>1, <1>2, <1>3 DEF Blocked, Lowered, Touching

\* The draft of a frame, whoever had the last word on it.
LEMMA UpperDraftHolds ==
  ASSUME UpperInv, ~regressed, NEW f, IsUpperFrame(f)
  PROVE  LET w == UpperDraft(f) IN UpperLooked(w, f) /\ Lowered(w, f)
<1> DEFINE d == ExpireFollowUp(Discontinuity(PhysicalEdges(arbiter, f), f), f.late)
           v == GestureStep(DragStep(d, f), f)
           w == UpperDraft(f)
<1>1. UpperLooked(v, f) /\ Waiting(v, f)
  BY DragStepHolds, GestureStepHolds
<1>2. w = IF v.blocks THEN v ELSE [v EXCEPT !.lower = HandleContacts(@, f)]
  BY DEF UpperDraft
<1> HIDE DEF v, w
<1>3. CASE v.blocks
  BY <1>1, <1>2, <1>3, BlockedLowers DEF Waiting, w
<1>4. CASE ~v.blocks
  <2> DEFINE e == HandleContacts(v.lower, f)
  <2>1. w = [v EXCEPT !.lower = e]
    BY <1>2, <1>4
  <2>2. /\ arbiter \in StateType /\ IsFrame(f) /\ (f.discontinuity => ~f.crossed)
        /\ Sound(arbiter)
    BY LowerReady DEF IsUpperFrame
  <2>3. Decided(arbiter, f, e)
    BY <1>1, <1>4, <2>2, ContactsDecide DEF Waiting
  <2> HIDE DEF e
  <2>4. w = Draft(e, v.drag, v.gesture, v.route, v.events, v.blocks)
    BY <1>1, <2>1 DEF UpperLooked, IsDraft, Draft
  <2>5. /\ w.lower = e /\ w.drag = v.drag /\ w.gesture = v.gesture
        /\ w.route = v.route /\ w.events = v.events /\ w.blocks = v.blocks
        /\ IsDraft(w)
    BY <2>4 DEF Draft, IsDraft
  <2>6. UpperLooked(w, f)
    BY <1>1, <1>4, <2>5 DEF UpperLooked
  <2>7. /\ ~Holding(v.drag) /\ v.gesture.committed = NoKind
        /\ v.drag \in DragType
    BY <1>1, <1>4 DEF UpperLooked
  <2>8. Accounted(arbiter, f, e)
    BY <2>2, <2>3, DecidedIsAccounted
  <2>9. ASSUME v.drag.phase # "Idle" PROVE Rests(e)
    <3>1. Cardinality(Live(f)) = 3
      BY <1>1, <1>4, <2>7, <2>9 DEF Waiting, Holding, DragType, DragPhases
    <3>2. e.tap_phase = "Idle" /\ e.tracking_id = None
      BY <2>3, <3>1, FS_EmptySet DEF Decided
    <3>3. e.two_phase \notin Pairing
      <4>1. e.two_phase \in Pairing => IsPair(Live(f))
        BY <2>3 DEF Decided, PairInv
      <4> QED BY <3>1, <4>1, PairCount
    <3> QED BY <2>3, <3>2, <3>3 DEF Decided, PairInv, Rests, Pairing
  <2>10. Lowered(w, f)
    BY <2>3, <2>5, <2>7, <2>8, <2>9 DEF Decided, Lowered, Holding, Unmoved
  <2> QED BY <2>6, <2>10 DEF w
<1> QED BY <1>1, <1>3, <1>4 DEF UpperLooked

\* A step on a frame is a step on one that the upper policies can take.
LEMMA UpperFrameIs ==
  ASSUME UpperTypeOK, pad \subseteq Ids, UpperFrames
  PROVE  \E f : IsUpperFrame(f) /\ UpperFrame(f)
<1>1. PICK left \in BOOLEAN, discontinuity \in BOOLEAN, gone \in SUBSET pad,
           next \in landed..MaxTouches :
  LET new    == (landed + 1)..next
      live   == (pad \ gone) \cup new
      steady == ~discontinuity /\ live = pad
  IN /\ Cardinality(live) <= MaxFingers
     /\ \E crossed, strayed \in
              Possible(~discontinuity /\ (Moving \/ (DragCompares /\ steady))),
            late \in Possible(Timing \/ (drag.phase # "Idle" /\ live = {})),
            ready \in Possible(drag.entered /\ ~drag.settled
                              /\ Cardinality(live) = 3),
            moved \in IF drag.phase = "Dragging" /\ live \cap pad # {}
                      THEN {"still", "small", "far"} ELSE {"still"},
            shape \in IF mode.gestures /\ live = gesture.anchor
                         /\ gesture.committed = NoKind /\ live # {}
                      THEN {"neither", "gesture", "scroll"} ELSE {"neither"} :
          /\ DragCompares => (shape = "gesture" => crossed)
                             /\ (crossed => strayed)
          /\ \E f \in {[contact |-> Landing(gone, new, discontinuity),
                         incomplete |-> {}, left |-> left, right |-> FALSE,
                         discontinuity |-> discontinuity, crossed |-> crossed,
                         strayed |-> strayed, late |-> late, ready |-> ready,
                         moved |-> moved, shape |-> shape]} : UpperFrame(f)
  BY DEF UpperFrames
<1> DEFINE new == (landed + 1)..next
           live == (pad \ gone) \cup new
           contact == Landing(gone, new, discontinuity)
           measured == ~discontinuity /\
             (Moving \/ (DragCompares /\ (~discontinuity /\ live = pad)))
<1>2. PICK crossed \in Possible(measured), strayed \in Possible(measured),
           late \in Possible(Timing \/ (drag.phase # "Idle" /\ live = {})),
           ready \in Possible(drag.entered /\ ~drag.settled
                              /\ Cardinality(live) = 3),
           moved \in IF drag.phase = "Dragging" /\ live \cap pad # {}
                     THEN {"still", "small", "far"} ELSE {"still"},
           shape \in IF mode.gestures /\ live = gesture.anchor
                        /\ gesture.committed = NoKind /\ live # {}
                     THEN {"neither", "gesture", "scroll"} ELSE {"neither"} :
        /\ DragCompares => (shape = "gesture" => crossed) /\ (crossed => strayed)
        /\ \E f \in {[contact |-> contact,
                       incomplete |-> {}, left |-> left, right |-> FALSE,
                       discontinuity |-> discontinuity, crossed |-> crossed,
                       strayed |-> strayed, late |-> late, ready |-> ready,
                       moved |-> moved, shape |-> shape]} : UpperFrame(f)
  BY <1>1
<1>3. /\ crossed \in BOOLEAN /\ strayed \in BOOLEAN /\ late \in BOOLEAN
      /\ ready \in BOOLEAN /\ (discontinuity => ~crossed)
  BY DEF Possible
<1>4. contact \in [Ids -> {"Absent", "Began", "Active", "Ended"}]
  BY DEF Landing
<1> DEFINE f == [contact |-> contact,
                 incomplete |-> {}, left |-> left, right |-> FALSE,
                 discontinuity |-> discontinuity, crossed |-> crossed,
                 strayed |-> strayed, late |-> late, ready |-> ready,
                 moved |-> moved, shape |-> shape]
<1> HIDE DEF contact
<1>5. IsUpperFrame(f)
  BY <1>2, <1>3, <1>4 DEF IsUpperFrame, IsFrame, Compared, DragCompares
<1> HIDE DEF f
<1>6. UpperFrame(f)
  BY <1>2 DEF f
<1> QED BY <1>5, <1>6

\* What a step of the upper policies tells is true of the wires and of the
\* gesture the desktop was shown; a middle click comes alone.
UpperTruthful ==
  /\ \A i \in DOMAIN said' :
       Fits(Before(said', i), said'[i], arbiter'.physical_left)
  /\ Proper(upper', shown)
  /\ \A k \in DOMAIN upper' : upper'[k].what = "MiddleClick" =>
       pad' = {} /\ ~wire'["Left"] /\ said' = <<>>

\* The contacts counted stay within their bound.
LEMMA LandedBound ==
  ASSUME UpperTypeOK, NEW f, UpperFrame(f), IsUpperFrame(f)
  PROVE  landed' \in 0..MaxTouches
<1>1. MaxTouches \in Nat /\ Ids = 1..MaxTouches /\ landed \in 0..MaxTouches
  BY GestureAssumption DEF GestureAssumption, UpperTypeOK
<1>2. landed' = IF Live(f) = {} THEN 0 ELSE Max({landed} \cup Live(f))
  BY DEF UpperFrame
<1>3. Live(f) \in SUBSET Ids
  BY AllLive
<1>4. {landed} \cup Live(f) \in SUBSET (0..MaxTouches) /\ {landed} \cup Live(f) # {}
  BY <1>1, <1>3
<1>5. Max({landed} \cup Live(f)) \in {landed} \cup Live(f)
  BY <1>1, <1>4, MaxFromZero
<1> QED BY <1>1, <1>2, <1>4, <1>5

\* What a frame leaves of the arbiter.
LEMMA FrameLowers ==
  ASSUME UpperInv, NEW f, IsUpperFrame(f), UpperFrame(f)
  PROVE  LET w == UpperDraft(f) IN
         /\ Kept(w.lower, arbiter') /\ ~Drafted(arbiter')
         /\ UpperLooked(w, f) /\ Lowered(w, f)
         /\ said' = Ordered(arbiter, w.lower, f) /\ said' \in Seq(Events)
         /\ wire' = WireAfter(said') /\ wire' \in [Wires -> BOOLEAN]
         /\ ~regressed /\ regressed' = regressed /\ pad' = Live(f) /\ pad' \subseteq Ids
         /\ config' = config /\ cluster' = cluster /\ mode' = mode
         /\ drag' = w.drag /\ gesture' = w.gesture /\ route' = w.route
         /\ upper' = w.events /\ shown' = ShownBy(w.events, shown)
<1> DEFINE w == UpperDraft(f)
<1>1. /\ ~regressed /\ Decide(w.lower, Ordered(arbiter, w.lower, f))
      /\ pad' = Live(f) /\ drag' = w.drag /\ gesture' = w.gesture
      /\ route' = w.route /\ upper' = w.events /\ shown' = ShownAfter(w.events)
      /\ config' = config /\ regressed' = regressed /\ cluster' = cluster
      /\ mode' = mode
  BY DEF UpperFrame
<1>2. UpperLooked(w, f) /\ Lowered(w, f)
  BY <1>1, UpperDraftHolds
<1>3. shown' = ShownBy(w.events, shown)
  BY <1>1 DEF ShownAfter, ShownBy
<1> HIDE DEF w
<1>4. w.lower \in StateType
  BY <1>2 DEF Lowered, Accounted
<1>5. arbiter \in StateType /\ IsFrame(f) /\ wire \in [Wires -> BOOLEAN]
  BY <1>1, LowerReady DEF IsUpperFrame, UpperInv, LowerInv, TypeOK
<1>6. /\ said' = Ordered(arbiter, w.lower, f) /\ wire' = WireAfter(said')
      /\ arbiter' = Settled(w.lower)
  BY <1>1 DEF Decide, Settled
<1>7. said' \in Seq(Events)
  BY <1>4, <1>5, <1>6, OrderedType
<1>8. wire' \in [Wires -> BOOLEAN]
  BY <1>5, <1>6, <1>7, WiresStay
<1>9. Kept(w.lower, arbiter') /\ ~Drafted(arbiter')
  BY <1>4, <1>6, SettledFields
<1>10. pad' \subseteq Ids
  BY <1>1, AllLive
<1> QED BY <1>1, <1>2, <1>3, <1>6, <1>7, <1>8, <1>9, <1>10 DEF w

\* A state below in which the synthetic left may be the drag's keeps its type.
LEMMA LoweredTyped ==
  ASSUME NEW w, NEW f, Lowered(w, f)
  PROVE  /\ w.lower \in StateType /\ LatchInv(w.lower) /\ PairInv(w.lower)
         /\ (w.lower.tracking_id # None) = Interacting(w.lower)
         /\ w.lower.physical_left_raw = f.left /\ w.lower.physical_right = f.right
<1>1. CASE Holding(w.drag)
  BY <1>1 DEF Lowered, Accounted, Rests, Interacting
<1>2. CASE ~Holding(w.drag)
  BY <1>2 DEF Lowered, Accounted, TapInv
<1> QED BY <1>1, <1>2

\* What the gesture's events leave on the desktop is a gesture or none.
LEMMA ShownType ==
  ASSUME NEW events \in Seq(UpperEvents), NEW before \in Kinds \cup {NoKind}
  PROVE  ShownBy(events, before) \in Kinds \cup {NoKind}
<1>1. CASE events = <<>>
  BY <1>1 DEF ShownBy
<1>2. CASE events # <<>>
  <2> DEFINE e == events[1]
  <2>1. e \in UpperEvents
    BY <1>2
  <2>2. e.what = "Begin" => e.kind \in Kinds
    BY <2>1 DEF UpperEvents
  <2>3. ShownBy(events, before) \in {e.kind, NoKind, before}
        /\ \/ ShownBy(events, before) = e.kind /\ e.what = "Begin"
           \/ ShownBy(events, before) \in {NoKind, before}
    BY <1>2 DEF ShownBy
  <2> QED BY <2>2, <2>3
<1> QED BY <1>1, <1>2

\* A frame keeps the invariant of the upper policies.
LEMMA UpperFrameKeeps ==
  ASSUME UpperInv, NEW f, IsUpperFrame(f), UpperFrame(f)
  PROVE  UpperInv'
<1> DEFINE w == UpperDraft(f)
<1>1. /\ Kept(w.lower, arbiter') /\ ~Drafted(arbiter')
      /\ UpperLooked(w, f) /\ Lowered(w, f)
      /\ said' \in Seq(Events) /\ wire' \in [Wires -> BOOLEAN]
      /\ ~regressed /\ regressed' = regressed /\ pad' = Live(f) /\ pad' \subseteq Ids
      /\ config' = config /\ cluster' = cluster /\ mode' = mode
      /\ drag' = w.drag /\ gesture' = w.gesture /\ route' = w.route
      /\ upper' = w.events /\ shown' = ShownBy(w.events, shown)
  BY FrameLowers
<1> HIDE DEF w
<1>2. UpperTypeOK'
  <2>1. landed' \in 0..MaxTouches
    BY LandedBound DEF UpperInv
  <2>2. shown' \in Kinds \cup {NoKind}
    BY <1>1, ShownType DEF UpperInv, UpperTypeOK, UpperLooked
  <2> QED BY <1>1, <2>1, <2>2 DEF UpperInv, UpperTypeOK, UpperLooked
<1>3. /\ arbiter' \in StateType /\ LatchInv(arbiter') /\ PairInv(arbiter')
      /\ (arbiter'.tracking_id # None) = Interacting(arbiter')
      /\ IsPair(arbiter'.two_finger_ids) =
           (arbiter'.two_phase \in {"Candidate", "CommittedScroll"})
      /\ arbiter'.physical_left_raw = f.left /\ ~arbiter'.physical_right
  <2>1. ~f.right
    BY DEF IsUpperFrame
  <2>2. /\ w.lower \in StateType /\ LatchInv(w.lower) /\ PairInv(w.lower)
        /\ (w.lower.tracking_id # None) = Interacting(w.lower)
        /\ w.lower.physical_left_raw = f.left /\ w.lower.physical_right = f.right
    BY <1>1, LoweredTyped
  <2>3. LatchInv(arbiter') /\ PairInv(arbiter')
    BY <1>1, <2>2, SettledHolds
  <2>4. IsPair(arbiter'.two_finger_ids) =
           (arbiter'.two_phase \in {"Candidate", "CommittedScroll"})
    BY <2>3, PairingIs DEF PairInv
  <2> QED BY <1>1, <2>1, <2>2, <2>3, <2>4 DEF Kept, Pointer, Interacting
<1>4. TypeOK' /\ cluster' = {}
  <2>1. cluster' = {} /\ config' \in Configs /\ regressed' \in BOOLEAN
    BY <1>1 DEF UpperInv, LowerInv, TypeOK
  <2> QED BY <1>1, <1>3, <2>1 DEF TypeOK, Interacting
<1>5. DragHolds' <=> Holding(w.drag)
  BY <1>1 DEF DragHolds, Holding
<1>6. w.drag.phase # "Idle" => ~f.left
  BY <1>1 DEF UpperLooked
<1>7. LowerInv'
  <2>1. ASSUME Holding(w.drag) PROVE Held(arbiter')
    <3>1. Rests(arbiter') /\ arbiter'.lifecycle = "Idle" /\ ~arbiter'.tap_disqualified
      BY <1>1, <2>1 DEF Lowered, Rests, Kept, Pointer
    <3>2. ~arbiter'.physical_left_raw
      BY <1>3, <1>6, <2>1 DEF Holding
    <3> QED BY <1>1, <1>3, <3>1, <3>2 DEF Held
  <2>2. ASSUME ~Holding(w.drag) PROVE OwnersInv'
    <3>1. TapInv(arbiter')
      BY <1>1, <2>2, SettledHolds DEF Lowered
    <3>2. TapInv(arbiter)' /\ PairInv(arbiter)'
      BY <1>1, <1>3, <3>1 DEF TapInv, PairInv
    <3>3. PadInv'
      BY <1>1, <1>4, <2>2 DEF Lowered, PadInv, Kept, Pointer
    <3> QED BY <1>1, <1>3, <1>4, <3>2, <3>3 DEF OwnersInv, Drafted, LatchInv
  <2>3. Held(arbiter') => Held(arbiter)'
    BY <1>1 DEF Held, PairInv, LatchInv, Rests, Drafted
  <2>4. DragHolds' => Held(arbiter)'
    BY <1>5, <2>1, <2>3
  <2>5. ~DragHolds' => OwnersInv'
    BY <1>5, <2>2
  <2> QED BY <1>1, <1>3, <1>4, <2>4, <2>5 DEF LowerInv, Drafted, LatchInv
<1>8. Rests(w.lower) => LowerRests'
  BY <1>1 DEF Rests, LowerRests, Kept, Pointer
<1>9. DragInv'
  <2>1. mode'.drag = "Off" => drag'.phase = "Idle"
    BY <1>1 DEF UpperLooked
  <2>2. drag'.phase # "Idle" => LowerRests' /\ ~arbiter'.physical_left_raw
    BY <1>1, <1>3, <1>6, <1>8 DEF Lowered
  <2>3. /\ drag'.phase \in {"Candidate", "LockedContact"} => Cardinality(drag'.ids) = 3
        /\ DragHolds' => gesture' = GestureRests
        /\ drag'.phase = "Candidate" /\ mode'.drag_enabled /\ ~drag'.settled =>
             gesture' = GestureRests
    BY <1>1, <1>5 DEF UpperLooked
  <2>4. Unmoved(drag)' => ~arbiter'.synthetic_left
    BY <1>1 DEF Unmoved, Lowered, Kept
  <2> QED BY <2>1, <2>2, <2>3, <2>4 DEF DragInv, Unmoved
<1>10. GestureInv'
  <2>1. gesture'.committed # NoKind => mode'.gestures /\ LowerRests'
    BY <1>1, <1>8 DEF UpperLooked, Lowered
  <2>2. /\ gesture'.committed # NoKind /\ route'.how # "Suppressed" =>
             shown' = gesture'.committed
        /\ mode'.target = Unbound => route' = RouteRests
        /\ mode'.target # Unbound =>
             /\ route'.kind = gesture'.committed
             /\ (route'.how = "None") = (gesture'.committed = NoKind)
    BY <1>1 DEF UpperLooked, Routed
  <2> QED BY <2>1, <2>2 DEF GestureInv, RouteFollowsGesture
<1> QED BY <1>2, <1>7, <1>9, <1>10 DEF UpperInv

\* A frame whose edges all say nothing tells nothing.
LEMMA NothingTold ==
  ASSUME NEW p \in StateType, NEW d \in StateType, NEW f, IsFrame(f),
         ~LeftPressed(p, f), ~SyntheticPressed(d), ~LeftReleased(p, f),
         ~SyntheticReleased(d), ~RightPressed(p, f), ~PairTapped(d, f),
         ~Latched(d, f), ~RightReleased(p, f), ~Unlatched(d, f),
         ~d.scroll_ended, ~d.scroll_began
  PROVE  Ordered(p, d, f) = <<>>
<1>1. Ordered(p, d, f) = Chain(p, d, f, Early(p, d, f))
  BY OrderedForm
<1>2. \A c, e : ~c => Also(<<>>, c, e) = <<>>
  <2>1. <<>> \o <<>> = <<>>
    OBVIOUS
  <2> QED BY <2>1 DEF Also, If
<1> DEFINE early == Early(p, d, f)
<1>3. /\ Also(<<>>, early /\ LeftReleased(p, f), Up("Left")) = <<>>
      /\ Also(<<>>, early /\ SyntheticReleased(d), Up("Left")) = <<>>
      /\ Also(<<>>, d.scroll_ended, Up("Scroll")) = <<>>
      /\ Also(<<>>, LeftPressed(p, f), Down("Left")) = <<>>
      /\ Also(<<>>, SyntheticPressed(d), Down("Left")) = <<>>
      /\ Also(<<>>, RightPressed(p, f), Down("Right")) = <<>>
      /\ Also(<<>>, PairTapped(d, f), Down("Right")) = <<>>
      /\ Also(<<>>, Latched(d, f), Down("Right")) = <<>>
      /\ Also(<<>>, d.scroll_began, Down("Scroll")) = <<>>
      /\ Also(<<>>, ~early /\ LeftReleased(p, f), Up("Left")) = <<>>
      /\ Also(<<>>, ~early /\ SyntheticReleased(d), Up("Left")) = <<>>
      /\ Also(<<>>, RightReleased(p, f), Up("Right")) = <<>>
      /\ Also(<<>>, PairTapped(d, f), Up("Right")) = <<>>
      /\ Also(<<>>, Unlatched(d, f), Up("Right")) = <<>>
  <2> HIDE DEF early
  <2> QED BY <1>2
<1> HIDE DEF early
<1>4. Chain(p, d, f, early) = <<>>
  BY <1>3 DEF Chain
<1> QED BY <1>1, <1>4 DEF early

\* A three-finger tap finds the button released, and nobody else says anything.
LEMMA TapIsAlone ==
  ASSUME UpperInv, ~regressed, NEW f, IsUpperFrame(f), NEW d,
         Accounted(arbiter, f, d), ~f.left, drag.phase # "Idle",
         ~arbiter.synthetic_left, ~d.synthetic_left, ~d.synthetic_down
  PROVE  /\ Ordered(arbiter, d, f) = <<>>
         /\ ~d.physical_left
<1>1. /\ arbiter \in StateType /\ ~arbiter.physical_right /\ Sound(arbiter)
      /\ IsFrame(f) /\ ~f.right /\ d \in StateType /\ LatchInv(d)
      /\ LowerRests /\ ~arbiter.physical_left_raw
  BY LowerReady DEF IsUpperFrame, Accounted, UpperInv, DragInv
<1>2. arbiter.two_phase # "Candidate" /\ ~arbiter.scroll_open
  BY <1>1, NoPair DEF LowerRests, Sound, PairInv, Pairing
<1>3. ~d.physical_left /\ ~d.latched_right_down /\ ~d.latched_right_up
  BY <1>1, PhysicalType DEF Accounted, LatchInv, LatchesPress
<1>4. ~d.scroll_ended /\ ~d.scroll_began /\ ~d.secondary_tap
  BY <1>2 DEF Accounted, ScrollAccount
<1>5. ~d.synthetic_up
  BY <1>1, <1>3, SyntheticType DEF Accounted, LeftAccount
<1>6. Ordered(arbiter, d, f) = <<>>
  BY <1>1, <1>3, <1>4, <1>5, NothingTold
     DEF LeftPressed, SyntheticPressed, LeftReleased, SyntheticReleased,
         RightPressed, PairTapped, Latched, RightReleased, Unlatched
<1> QED BY <1>3, <1>6

\* After a frame the wires follow the sources, and what it told is truthful.
LEMMA UpperFrameTells ==
  ASSUME UpperInv, WireFollowsSources, NEW f, IsUpperFrame(f), UpperFrame(f)
  PROVE  WireFollowsSources' /\ UpperTruthful
<1> DEFINE w == UpperDraft(f)
           d == w.lower
           es == Ordered(arbiter, d, f)
<1>1. /\ Kept(d, arbiter') /\ UpperLooked(w, f) /\ Lowered(w, f)
      /\ said' = es /\ wire' = WireAfter(said')
      /\ ~regressed /\ pad' = Live(f) /\ upper' = w.events
  BY FrameLowers
<1> HIDE DEF w
<1>2. /\ arbiter \in StateType /\ ~arbiter.physical_right /\ Sound(arbiter)
      /\ IsFrame(f)
  BY <1>1, LowerReady DEF IsUpperFrame
<1>3. Accounted(arbiter, f, d) /\ d \in StateType
  BY <1>1 DEF Lowered, Accounted
<1>4. Showing(arbiter)
  BY DEF Showing, WireFollowsSources, UpperInv, LowerInv, TypeOK
<1>5. ~Swaps(arbiter, f)
  BY <1>2 DEF Swaps
<1>6. Told(es, d.physical_left,
           d.physical_left \/ d.synthetic_left,
           d.physical_right \/ d.latched_right_owned, d.scroll_open,
           RightDown(arbiter, d, f), RightUp(arbiter, d, f))
  BY <1>2, <1>3, <1>4, <1>5, FrameIsTold
<1>7. ASSUME NEW k \in DOMAIN upper', upper'[k].what = "MiddleClick"
      PROVE  pad' = {} /\ es = <<>> /\ ~d.physical_left /\ ~d.synthetic_left
  <2>1. /\ Live(f) = {} /\ ~f.left /\ drag.phase # "Idle"
        /\ ~arbiter.synthetic_left
        /\ ~d.synthetic_left /\ ~d.synthetic_down
    BY <1>1, <1>7 DEF UpperLooked
  <2> QED BY <1>1, <1>3, <2>1, TapIsAlone
<1> HIDE DEF d, es
<1>8. WireFollowsSources'
  BY <1>1, <1>6 DEF WireFollowsSources, Kept, Told
<1>9. \A i \in DOMAIN said' : Fits(Before(said', i), said'[i], arbiter'.physical_left)
  BY <1>1, <1>6, ToldFits DEF Kept
<1>10. Proper(upper', shown)
  BY <1>1 DEF UpperLooked
<1>11. ASSUME NEW k \in DOMAIN upper', upper'[k].what = "MiddleClick"
       PROVE  pad' = {} /\ ~wire'["Left"] /\ said' = <<>>
  <2>1. ~wire'["Left"]
    BY <1>1, <1>6, <1>7, <1>11 DEF Told
  <2> QED BY <1>1, <1>7, <1>11, <2>1
<1> QED BY <1>8, <1>9, <1>10, <1>11 DEF UpperTruthful

\* A step that leaves the upper policies alone, or puts them to rest.
UpperStays == /\ UNCHANGED <<mode, drag, gesture, route, landed, shown>>
              /\ upper' = <<>>
UpperCleared ==
  /\ drag' = DragRests /\ gesture' = GestureRests /\ route' = RouteRests
  /\ upper' = <<>> /\ mode' \in Modes /\ UNCHANGED <<landed, shown>>

\* The upper policies keep their types over both.
LEMMA StaysTyped ==
  ASSUME UpperTypeOK, UpperStays \/ UpperCleared
  PROVE  UpperTypeOK'
<1>1. DragRests \in DragType
  BY DragRestsFields
<1> QED BY <1>1, RestRouted, NoEvent DEF UpperTypeOK, UpperStays, UpperCleared

\* At rest the upper policies ask nothing of the state below.
LEMMA ClearedHolds ==
  ASSUME OwnersInv', UpperCleared, UpperTypeOK,
         ~arbiter'.physical_right, cluster' = {}
  PROVE  UpperInv'
<1>1. drag'.phase = "Idle" /\ gesture'.committed = NoKind
  BY DragRestsFields, RestRouted DEF UpperCleared
<1>2. ~DragHolds'
  BY <1>1 DEF DragHolds
<1>3. LowerInv'
  BY <1>2 DEF LowerInv, OwnersInv
<1>4. DragInv'
  BY <1>1, <1>2 DEF DragInv, Unmoved
<1>5. route'.kind = NoKind /\ route'.how = "None" /\ route' = RouteRests
  BY DEF UpperCleared, RouteRests
<1>6. GestureInv'
  BY <1>1, <1>5 DEF GestureInv, RouteFollowsGesture
<1>7. UpperTypeOK'
  BY StaysTyped
<1> QED BY <1>3, <1>4, <1>6, <1>7 DEF UpperInv

\* A regressed frame stops the arbiter under whoever holds the fingers.
LEMMA UpperRegressKeeps ==
  ASSUME UpperInv, UpperRegress
  PROVE  /\ UpperInv'
         /\ WireFollowsSources => WireFollowsSources' /\ UpperTruthful
<1>1. Regress /\ UpperStays /\ regressed' = TRUE /\ cluster' = cluster
  BY DEF UpperRegress, UpperStays, Regress
<1>2. /\ OwnersInv' /\ said' = <<>>
      /\ WireFollowsSources => WireFollowsSources'
      /\ LowerRests => LowerRests'
      /\ arbiter'.synthetic_left = arbiter.synthetic_left
      /\ arbiter'.physical_left_raw = arbiter.physical_left_raw
      /\ arbiter'.physical_right = arbiter.physical_right
  BY <1>1, RegressKeepsOwners DEF UpperInv, LowerInv
<1>3. UpperTypeOK'
  BY <1>1, StaysTyped DEF UpperInv
<1>4. LowerInv'
  BY <1>1, <1>2 DEF UpperInv, LowerInv, OwnersInv
<1>5. DragInv'
  BY <1>1, <1>2 DEF UpperInv, UpperStays, DragInv, DragHolds, Unmoved
<1>6. GestureInv'
  BY <1>1, <1>2 DEF UpperInv, UpperStays, GestureInv, RouteFollowsGesture
<1>7. UpperTruthful
  BY <1>1, <1>2, NoEvent DEF UpperStays, UpperTruthful, Proper
<1> QED BY <1>2, <1>3, <1>4, <1>5, <1>6, <1>7 DEF UpperInv

\* A tick comes only while the tap waits, when no upper policy has the fingers.
LEMMA UpperTickKeeps ==
  ASSUME UpperInv, UpperTick
  PROVE  /\ UpperInv'
         /\ WireFollowsSources => WireFollowsSources' /\ UpperTruthful
<1>1. /\ Tick /\ UpperStays /\ arbiter.tap_phase = "FollowUpWindow"
      /\ cluster' = cluster
  BY DEF UpperTick, UpperStays, Tick
<1>2. drag.phase = "Idle" /\ gesture.committed = NoKind /\ OwnersInv
  BY <1>1 DEF UpperInv, LowerInv, DragInv, GestureInv, LowerRests, DragHolds
<1>3. /\ OwnersInv' /\ said' \in Seq(Events)
      /\ arbiter'.physical_right = arbiter.physical_right
      /\ WireFollowsSources =>
           /\ WireFollowsSources'
           /\ Told(said', arbiter'.physical_left, FALSE, wire["Right"],
                   wire["Scroll"], FALSE, FALSE)
  BY <1>1, <1>2, TickKeepsOwners
<1>4. UpperTypeOK'
  BY <1>1, StaysTyped DEF UpperInv
<1>5. drag' = drag /\ gesture' = gesture /\ route' = route /\ mode' = mode
  BY <1>1 DEF UpperStays
<1>6. LowerInv' /\ DragInv'
  BY <1>1, <1>2, <1>3, <1>5
     DEF UpperInv, LowerInv, OwnersInv, DragInv, DragHolds, Unmoved
<1>7. GestureInv'
  BY <1>2, <1>5 DEF UpperInv, GestureInv, RouteFollowsGesture
<1>8. WireFollowsSources => UpperTruthful
  BY <1>1, <1>3, NoEvent, ToldFits DEF UpperStays, UpperTruthful, Proper
<1> QED BY <1>3, <1>4, <1>6, <1>7, <1>8 DEF UpperInv

\* Releasing everything puts the upper policies to rest with the lower ones.
LEMMA UpperReleaseAllKeeps ==
  ASSUME UpperInv, UpperReleaseAll
  PROVE  /\ UpperInv'
         /\ WireFollowsSources => WireFollowsSources' /\ UpperTruthful
<1>1. ReleaseAll /\ UpperCleared /\ cluster' = {} /\ UpperTypeOK
  BY DEF UpperReleaseAll, ReleaseAll, UpperCleared, UpperInv, UpperTypeOK
<1>2. /\ OwnersInv'
      /\ WireFollowsSources =>
           /\ WireFollowsSources'
           /\ \E dr : Told(said', FALSE, FALSE, FALSE, FALSE, FALSE, dr)
  BY <1>1, ReleaseAllKeepsOwners DEF UpperInv, LowerInv
<1>3. arbiter'.physical_left = FALSE /\ ~arbiter'.physical_right
  <2>1. arbiter' = Settled(Fresh)
    BY <1>1 DEF ReleaseAll, Decide, Settled
  <2>2. Kept(Fresh, arbiter')
    BY <2>1, FreshHolds, SettledFields
  <2> QED BY <2>2, FreshHolds DEF Kept, Fresh
<1>4. UpperInv'
  BY <1>1, <1>2, <1>3, ClearedHolds
<1>5. ASSUME WireFollowsSources PROVE UpperTruthful
  <2>1. PICK dr : Told(said', FALSE, FALSE, FALSE, FALSE, FALSE, dr)
    BY <1>2, <1>5
  <2> QED BY <1>1, <1>3, <2>1, NoEvent, ToldFits DEF UpperCleared, UpperTruthful, Proper
<1> QED BY <1>2, <1>4, <1>5

\* New settings find everybody at rest.
LEMMA UpperReplaceKeeps ==
  ASSUME UpperInv, UpperReplace
  PROVE  /\ UpperInv'
         /\ WireFollowsSources => WireFollowsSources' /\ UpperTruthful
<1>1. /\ ReplaceConfig /\ UpperCleared /\ UpperTypeOK /\ drag.phase = "Idle"
      /\ cluster' = cluster /\ arbiter' = arbiter
  BY DEF UpperReplace, ReplaceConfig, UpperCleared, UpperQuiescent, UpperInv
<1>2. OwnersInv
  BY <1>1 DEF UpperInv, LowerInv, DragHolds
<1>3. OwnersInv' /\ said' = <<>> /\ (WireFollowsSources => WireFollowsSources')
  BY <1>1, <1>2, ReplaceKeepsOwners
<1>4. UpperInv'
  BY <1>1, <1>3, ClearedHolds DEF UpperInv, LowerInv
<1>5. UpperTruthful
  BY <1>1, <1>3, NoEvent DEF UpperCleared, UpperTruthful, Proper
<1> QED BY <1>3, <1>4, <1>5

\* The invariant of the upper policies and of the wires.
UpperWiresInv == UpperInv /\ WireFollowsSources

\* It holds in the beginning.
LEMMA UpperInitHolds ==
  ASSUME UpperInit
  PROVE  UpperWiresInv
<1>1. /\ Init /\ mode \in Modes /\ drag = DragRests /\ gesture = GestureRests
      /\ route = RouteRests /\ upper = <<>> /\ landed = 0 /\ shown = NoKind
  BY DEF UpperInit
<1>2. OwnersInv /\ WireFollowsSources
  BY <1>1, InitOwners, InitFollows
<1>3. ~arbiter.physical_right /\ cluster = {}
  BY <1>1, FreshHolds DEF Init
<1>4. drag.phase = "Idle" /\ gesture.committed = NoKind
  BY <1>1, DragRestsFields, RestRouted
<1>5. UpperTypeOK
  <2>1. MaxTouches \in Nat
    BY GestureAssumption DEF GestureAssumption
  <2> QED BY <1>1, <2>1, DragRestsFields, RestRouted, NoEvent DEF UpperTypeOK
<1>6. LowerInv /\ DragInv
  BY <1>2, <1>3, <1>4 DEF LowerInv, DragInv, DragHolds, OwnersInv, Unmoved
<1>7. GestureInv
  BY <1>1, <1>4, RestRouted DEF GestureInv, RouteFollowsGesture, RouteRests
<1> QED BY <1>2, <1>5, <1>6, <1>7 DEF UpperWiresInv, UpperInv

\* Every step keeps it, and tells the truth.
LEMMA UpperStepKeeps ==
  ASSUME UpperWiresInv, UpperNext
  PROVE  UpperWiresInv' /\ UpperTruthful
<1>1. CASE UpperFrames
  <2>1. UpperTypeOK /\ pad \subseteq Ids
    BY DEF UpperWiresInv, UpperInv, LowerInv, TypeOK
  <2>2. PICK f : IsUpperFrame(f) /\ UpperFrame(f)
    BY <1>1, <2>1, UpperFrameIs
  <2> QED BY <2>2, UpperFrameKeeps, UpperFrameTells DEF UpperWiresInv
<1>2. CASE UpperRegress
  BY <1>2, UpperRegressKeeps DEF UpperWiresInv
<1>3. CASE UpperTick
  BY <1>3, UpperTickKeeps DEF UpperWiresInv
<1>4. CASE UpperReleaseAll
  BY <1>4, UpperReleaseAllKeeps DEF UpperWiresInv
<1>5. CASE UpperReplace
  BY <1>5, UpperReplaceKeeps DEF UpperWiresInv
<1> QED BY <1>1, <1>2, <1>3, <1>4, <1>5 DEF UpperNext

\* A step that changes nothing changes none of it.
LEMMA UpperStutters ==
  ASSUME UpperWiresInv, UNCHANGED gvars
  PROVE  UpperWiresInv'
<1>1. UNCHANGED vars /\ UNCHANGED uvars
  BY DEF gvars
<1>2. OwnersInv => OwnersInv'
  BY <1>1, OwnersKept
<1>3. /\ config' = config /\ arbiter' = arbiter /\ regressed' = regressed
      /\ said' = said /\ wire' = wire /\ pad' = pad /\ cluster' = cluster
      /\ mode' = mode /\ drag' = drag /\ gesture' = gesture /\ route' = route
      /\ upper' = upper /\ landed' = landed /\ shown' = shown
  BY <1>1 DEF vars, uvars
<1>4. UpperTypeOK'
  BY <1>3 DEF UpperWiresInv, UpperInv, UpperTypeOK
<1>5. LowerInv'
  BY <1>2, <1>3 DEF UpperWiresInv, UpperInv, LowerInv, TypeOK, Drafted, LatchInv,
     PairInv, Held, Rests, DragHolds, Interacting, ButtonHeld
<1>6. DragInv'
  BY <1>3 DEF UpperWiresInv, UpperInv, DragInv, DragHolds, LowerRests, Unmoved
<1>7. GestureInv'
  BY <1>3 DEF UpperWiresInv, UpperInv, GestureInv, LowerRests, RouteFollowsGesture
<1>8. WireFollowsSources'
  BY <1>3 DEF UpperWiresInv, WireFollowsSources
<1> QED BY <1>4, <1>5, <1>6, <1>7, <1>8 DEF UpperWiresInv, UpperInv

\* What the invariant says of the owners of the fingers and of the button.
LEMMA UpperOwnersAgree == UpperInv => OwnersAgree
<1> SUFFICES ASSUME UpperInv PROVE OwnersAgree
  OBVIOUS
<1>1. LeftHasOneOwner
  <2>1. CASE regressed
    BY <2>1 DEF LeftHasOneOwner
  <2>2. CASE ~regressed /\ DragHolds
    BY <2>2 DEF UpperInv, LowerInv, Held, Rests, LeftHasOneOwner, TapHolds
  <2>3. CASE ~regressed /\ ~DragHolds
    <3>1. TapInv(arbiter)
      BY <2>3 DEF UpperInv, LowerInv, OwnersInv
    <3>2. TapHolds \in BOOLEAN /\ DragHolds \in BOOLEAN
      BY DEF TapHolds, DragHolds
    <3> QED BY <2>3, <3>1, <3>2 DEF TapInv, LeftHasOneOwner, TapHolds
  <2> QED BY <2>1, <2>2, <2>3
<1>2. OneOwner
  BY DragRestsFields, RestRouted DEF UpperInv, DragInv, GestureInv, OneOwner, DragHolds
<1> QED BY <1>1, <1>2 DEF UpperInv, OwnersAgree

\* The three-finger drag, the gestures, the tap and the pair share the fingers and
\* the left button: whatever the frames, resets and settings, at most one of them
\* has the fingers, and the synthetic left button that two of them press and
\* release is held for exactly one of them.
THEOREM FingersHaveOneOwner == UpperSpec => []OwnersAgree
<1>1. UpperInit => UpperWiresInv
  BY UpperInitHolds
<1>2. UpperWiresInv /\ [UpperNext]_gvars => UpperWiresInv'
  BY UpperStepKeeps, UpperStutters
<1>3. UpperWiresInv => OwnersAgree
  BY UpperOwnersAgree DEF UpperWiresInv
<1> QED BY <1>1, <1>2, <1>3, PTL DEF UpperSpec

\* With the upper policies in front, what the desktop was told to hold on each
\* wire is still exactly what the sources of the arbiter hold, the drag among them.
THEOREM WiresFollowSources == UpperSpec => []WireFollowsSources
<1>1. UpperInit => UpperWiresInv
  BY UpperInitHolds
<1>2. UpperWiresInv /\ [UpperNext]_gvars => UpperWiresInv'
  BY UpperStepKeeps, UpperStutters
<1>3. UpperWiresInv => WireFollowsSources
  BY DEF UpperWiresInv
<1> QED BY <1>1, <1>2, <1>3, PTL DEF UpperSpec

\* With bindings configured a route is chosen with each gesture and forgotten
\* with it, over every reset, drag and change of settings.
THEOREM NoRouteOutlivesItsGesture == UpperSpec => []RouteFollowsGesture
<1>1. UpperInit => UpperWiresInv
  BY UpperInitHolds
<1>2. UpperWiresInv /\ [UpperNext]_gvars => UpperWiresInv'
  BY UpperStepKeeps, UpperStutters
<1>3. UpperWiresInv => RouteFollowsGesture
  BY DEF UpperWiresInv, UpperInv, GestureInv
<1> QED BY <1>1, <1>2, <1>3, PTL DEF UpperSpec

\* The formulas the upper action properties say of a step.
Continued ==
  \A k \in DOMAIN upper' :
    upper'[k].what \in {"Update", "End"} => shown = upper'[k].kind

TapsAlone ==
  \A k \in DOMAIN upper' :
    upper'[k].what = "MiddleClick" =>
      pad' = {} /\ ~wire'["Left"] /\ said' = <<>>

\* A step that tells the truth tells it in turn.
LEMMA UpperStepsFit ==
  ASSUME UpperWiresInv, UpperWiresInv', UpperNext
  PROVE  Alternating /\ Continued /\ TapsAlone
<1>1. UpperTruthful /\ said' \in Seq(Events)
  BY UpperStepKeeps DEF UpperWiresInv, UpperInv, LowerInv, TypeOK
<1>2. ASSUME NEW i \in DOMAIN said'
      PROVE  HeldBefore(said', i, said'[i].on) # said'[i].press
  <2>1. said'[i] \in Events
    BY <1>1
  <2>2. Fits(Before(said', i), said'[i], arbiter'.physical_left)
    BY <1>1 DEF UpperTruthful
  <2> QED BY <2>1, <2>2 DEF Fits, Before, Events
<1> QED BY <1>1, <1>2 DEF UpperTruthful, Proper, Alternating, Continued, TapsAlone

\* The desktop is told of presses and releases in turn, of the middle and the end
\* of the gesture it was last told has begun and of no other, and of a
\* three-finger tap only when the last finger has lifted and no button is
\* pressed, held or released beside it.
THEOREM EverybodyIsToldInTurn == UpperSpec => ToldInTurn
<1>1. UpperInit => UpperWiresInv
  BY UpperInitHolds
<1>2. UpperWiresInv /\ [UpperNext]_gvars => UpperWiresInv'
  BY UpperStepKeeps, UpperStutters
<1>3. UpperWiresInv /\ UpperWiresInv' /\ [UpperNext]_gvars =>
        [Alternating]_vars /\ [Continued]_gvars /\ [TapsAlone]_gvars
  <2>1. ASSUME UpperWiresInv, UpperWiresInv', UpperNext
        PROVE  [Alternating]_vars /\ [Continued]_gvars /\ [TapsAlone]_gvars
    BY <2>1, UpperStepsFit
  <2>2. ASSUME UNCHANGED gvars
        PROVE  [Alternating]_vars /\ [Continued]_gvars /\ [TapsAlone]_gvars
    BY <2>2 DEF gvars
  <2> QED BY <2>1, <2>2
<1> QED BY <1>1, <1>2, <1>3, PTL
     DEF UpperSpec, ToldInTurn, EventsAlternate, UpdatesFollowBegin, TapIsQuiet,
         Alternating, Continued, TapsAlone
=============================================================================
