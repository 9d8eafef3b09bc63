------------------------------- MODULE Arbiter -------------------------------
(***************************************************************************)
(* The interaction arbiter (touchpad-core/src/arbiter.rs): it turns the    *)
(* decoder's contact frames into button and scroll events. One finger is a *)
(* pointer candidate and runs the tap, tap-and-drag and drag-lock policy;  *)
(* two are a scroll or secondary-tap candidate; a physical press competes  *)
(* with all of them. Every owner has its own source of a button, and a     *)
(* multiplexer shows the output only their disjunction.                    *)
(*                                                                         *)
(* Geometry and time enter as three facts about a frame, each compared     *)
(* with its limit where the code compares: the motion reaches the commit   *)
(* threshold, a contact leaves the tap radius, a deadline has passed.      *)
(* Pointer moves and scroll deltas are left out; three-finger drag and     *)
(* continuous gestures are configured off. The resting phases Idle,        *)
(* Cancelled and Finished, which no guard tells apart, are one.            *)
(***************************************************************************)
EXTENDS Naturals, Sequences, FiniteSetsExt

CONSTANTS
  Ids,            \* tracking ids
  None,           \* no tracking id
  Configs,        \* the configurations in use
  MaxIncomplete,  \* contacts of one frame that lack a coordinate, a bound
  Vanishing,      \* a contact may be gone without an Ended record
  SameFrameSwap   \* one frame may release the right and press the left button

ConfigType ==
  {c \in [tap_enabled: BOOLEAN, tap_and_drag_enabled: BOOLEAN,
          drag_lock_enabled: BOOLEAN, scroll_enabled: BOOLEAN,
          secondary_tap_enabled: BOOLEAN,
          two_finger_physical_click_enabled: BOOLEAN] :
     /\ c.tap_and_drag_enabled => c.tap_enabled
     /\ c.drag_lock_enabled => c.tap_and_drag_enabled}

ASSUME ArbiterAssumption ==
  /\ IsFiniteSet(Ids) /\ None \notin Ids /\ Configs \subseteq ConfigType
  /\ MaxIncomplete \in Nat /\ Vanishing \in BOOLEAN
  /\ SameFrameSwap \in BOOLEAN

VARIABLES
  config,    \* Arbiter.config
  arbiter,   \* Arbiter.state, one field for each of its fields told apart here
  regressed, \* a regressed frame stopped the stream; only release_all resumes
  said,      \* the events of the last decision, in order
  wire,      \* what the output holds after them
  pad,       \* the contacts live in the last frame
  cluster    \* what happened since the pad was last empty: a record for the
             \* properties, never read by the arbiter
vars == <<config, arbiter, regressed, said, wire, pad, cluster>>

Phases == {"Idle", "FirstTapCandidate", "FollowUpWindow", "TapDragCandidate",
           "TapDragContact", "LockedWithoutContact", "LockedContact"}
TwoPhases == {"Idle", "Candidate", "CommittedScroll",
              "PhysicalSecondaryClickHeld"}
Wires == {"Left", "Right", "Scroll"}
Events == [press: BOOLEAN, on: Wires]
Down(w) == [press |-> TRUE, on |-> w]
Up(w)   == [press |-> FALSE, on |-> w]

(* ArbiterState, and with it DraftOutput: the edges and scroll events that *)
(* the decision being drafted has collected, none between two decisions.   *)
StateType ==
  [lifecycle: {"Idle", "Candidate", "Committed"}, tracking_id: Ids \cup {None},
   tap_phase: Phases, tap_strayed: BOOLEAN, tap_disqualified: BOOLEAN,
   drag_committed: BOOLEAN, synthetic_left: BOOLEAN, physical_left: BOOLEAN,
   physical_left_raw: BOOLEAN, physical_right: BOOLEAN,
   latched_right_owned: BOOLEAN, two_phase: TwoPhases,
   two_finger_ids: SUBSET Ids, two_strayed: BOOLEAN, scroll_open: BOOLEAN,
   two_tap_disqualified: BOOLEAN,
   synthetic_down: BOOLEAN, synthetic_up: BOOLEAN, secondary_tap: BOOLEAN,
   latched_right_down: BOOLEAN, latched_right_up: BOOLEAN,
   scroll_ended: BOOLEAN, scroll_began: BOOLEAN]

Fresh ==
  [lifecycle |-> "Idle", tracking_id |-> None, tap_phase |-> "Idle",
   tap_strayed |-> FALSE, tap_disqualified |-> FALSE, drag_committed |-> FALSE,
   synthetic_left |-> FALSE, physical_left |-> FALSE,
   physical_left_raw |-> FALSE, physical_right |-> FALSE,
   latched_right_owned |-> FALSE, two_phase |-> "Idle", two_finger_ids |-> {},
   two_strayed |-> FALSE, scroll_open |-> FALSE, two_tap_disqualified |-> FALSE,
   synthetic_down |-> FALSE, synthetic_up |-> FALSE, secondary_tap |-> FALSE,
   latched_right_down |-> FALSE, latched_right_up |-> FALSE,
   scroll_ended |-> FALSE, scroll_began |-> FALSE]

-----------------------------------------------------------------------------
(* Frames                                                                  *)

(* A frame f has the state of each contact (f.contact), the set of those   *)
(* that lack a coordinate (f.incomplete), the physical buttons (f.left,    *)
(* f.right), f.discontinuity, and the three comparisons described above    *)
(* (f.crossed, f.strayed, f.late).                                         *)
Live(f)         == {i \in Ids : f.contact[i] \in {"Began", "Active"}}
LiveComplete(f) == Live(f) \ f.incomplete
EndedComplete(f) == {i \in Ids : f.contact[i] = "Ended"} \ f.incomplete
IsPair(s)       == \E i, j \in s : i # j /\ s = {i, j}
Alone(f)        == CHOOSE i \in Ids : Live(f) = {i}

Interacting(d)  == d.lifecycle \in {"Candidate", "Committed"}
(* physical_button_ownership_held                                          *)
ButtonHeld(d)   == d.physical_left \/ d.physical_right \/ d.latched_right_owned

-----------------------------------------------------------------------------
(* One finger: pointer lifecycle, tap, tap-and-drag, drag lock             *)

BeginSynthetic(d) ==
  [d EXCEPT !.synthetic_left = TRUE,
            !.synthetic_down = @ \/ (~d.synthetic_left /\ ~d.physical_left)]

EndSynthetic(d) ==
  [d EXCEPT !.synthetic_left = FALSE,
            !.synthetic_up = @ \/ (d.synthetic_left /\ ~d.physical_left)]

(* The tap family rests: no candidate, no follow-up, no drag.              *)
TapRests(d) ==
  [d EXCEPT !.tap_phase = "Idle", !.tap_strayed = FALSE,
            !.drag_committed = FALSE]

CancelTapPolicy(d) ==
  IF d.tap_phase = "Idle" THEN d ELSE TapRests(EndSynthetic(d))

(* cancel_interaction and finish_interaction.                              *)
EndInteraction(d) ==
  [d EXCEPT !.lifecycle = "Idle", !.tracking_id = None,
            !.tap_disqualified = FALSE]

CancelInteraction(d) == IF d.tracking_id = None THEN d ELSE EndInteraction(d)

TapCandidate(d, phase) ==
  [d EXCEPT !.tap_phase = phase, !.tap_strayed = FALSE]

BeginTapFamily(d) ==
  IF d.tap_disqualified THEN TapRests(d)
  ELSE CASE d.tap_phase = "FollowUpWindow" ->
              IF config.tap_and_drag_enabled
              THEN [TapCandidate(d, "TapDragCandidate")
                      EXCEPT !.drag_committed = FALSE]
              ELSE TapCandidate(d, "Idle")
         [] d.tap_phase = "LockedWithoutContact" ->
              [TapCandidate(d, "LockedContact") EXCEPT !.drag_committed = FALSE]
         [] OTHER ->
              TapCandidate(d, IF config.tap_enabled /\ ~d.physical_left
                              THEN "FirstTapCandidate" ELSE "Idle")

(* A contact that begins with both coordinates becomes a candidate; one    *)
(* seeded across a discontinuity is out of the tap family.                 *)
BeginContact(d, f, i) ==
  IF i \in f.incomplete THEN d
  ELSE [BeginTapFamily([d EXCEPT !.tap_disqualified = @ \/ f.discontinuity])
          EXCEPT !.lifecycle = "Candidate", !.tracking_id = i]

(* commit_pointer: motion wins over the tap and makes a follow-up a drag.  *)
CommitPointer(d) ==
  LET moving == [d EXCEPT !.lifecycle = "Committed"] IN
  CASE d.tap_phase = "FirstTapCandidate" -> TapCandidate(moving, "Idle")
    [] d.tap_phase = "TapDragCandidate" ->
         [TapCandidate(moving, "TapDragContact") EXCEPT !.drag_committed = TRUE]
    [] d.tap_phase \in {"TapDragContact", "LockedContact"} ->
         [moving EXCEPT !.drag_committed = TRUE]
    [] OTHER -> moving

(* The displacement of a tap candidate is followed while it is down only   *)
(* in these phases; the release position always counts.                    *)
NoteDisplacement(d, f) ==
  IF d.tap_phase \in {"FirstTapCandidate", "LockedContact"}
  THEN [d EXCEPT !.tap_strayed = @ \/ f.strayed] ELSE d

TapQualifies(d, f) ==
  ~f.late /\ ~d.tap_strayed /\ ~d.physical_left /\ ~d.tap_disqualified

(* resolve_release_frame; "clean" says that an Ended record with both      *)
(* coordinates was in the frame.                                           *)
ResolveRelease(d0, f) ==
  LET clean == d0.tracking_id \in EndedComplete(f)
      d     == IF clean /\ d0.tap_phase # "Idle"
               THEN [d0 EXCEPT !.tap_strayed = @ \/ f.strayed] ELSE d0
      tap   == clean /\ config.tap_enabled /\ TapQualifies(d, f)
      Phase(e, p) == [TapRests(e) EXCEPT !.tap_phase = p]
  IN CASE d.tap_phase = "FirstTapCandidate" ->
            IF ~tap THEN TapRests(d)
            ELSE IF config.tap_and_drag_enabled
                 THEN Phase(BeginSynthetic(d), "FollowUpWindow")
                 ELSE TapRests(EndSynthetic(BeginSynthetic(d)))
       [] d.tap_phase = "TapDragCandidate" ->
            IF tap /\ config.tap_and_drag_enabled
            THEN Phase(BeginSynthetic(EndSynthetic(d)), "FollowUpWindow")
            ELSE TapRests(EndSynthetic(d))
       [] d.tap_phase = "TapDragContact" ->
            IF d.drag_committed /\ config.drag_lock_enabled
            THEN Phase(d, "LockedWithoutContact")
            ELSE TapRests(EndSynthetic(d))
       [] d.tap_phase = "LockedContact" ->
            IF ~d.drag_committed /\ tap THEN TapRests(EndSynthetic(d))
                                        ELSE Phase(d, "LockedWithoutContact")
       [] OTHER -> d

ResolveReplacement(d) ==
  LET Locked == [TapRests(d) EXCEPT !.tap_phase = "LockedWithoutContact"] IN
  CASE d.tap_phase = "FirstTapCandidate" -> TapRests(d)
    [] d.tap_phase = "TapDragCandidate" -> TapRests(EndSynthetic(d))
    [] d.tap_phase = "TapDragContact" ->
         IF d.drag_committed /\ config.drag_lock_enabled THEN Locked
                                        ELSE TapRests(EndSynthetic(d))
    [] d.tap_phase = "LockedContact" -> Locked
    [] OTHER -> d

(* No live contact: the final position may still commit the pointer.       *)
NoFinger(d, f) ==
  LET last == IF /\ d.lifecycle = "Candidate" /\ f.crossed
                 /\ d.tracking_id \in EndedComplete(f)
              THEN CommitPointer(d) ELSE d
  IN IF Interacting(d) THEN EndInteraction(ResolveRelease(last, f)) ELSE d

OneFinger(d, f) ==
  LET i == Alone(f) IN
  IF ~Interacting(d)
  THEN IF f.contact[i] = "Began" THEN BeginContact(d, f, i)
       ELSE IF d.tap_phase = "LockedWithoutContact" /\ i \in f.incomplete
            THEN CancelTapPolicy(d) ELSE d
  ELSE IF i = d.tracking_id
  THEN IF i \in f.incomplete THEN CancelTapPolicy(EndInteraction(d))
       ELSE IF d.lifecycle = "Committed" THEN d
       ELSE IF f.crossed THEN CommitPointer(NoteDisplacement(d, f))
                         ELSE NoteDisplacement(d, f)
  ELSE IF f.contact[i] = "Began"
  THEN BeginContact(EndInteraction(ResolveReplacement(d)), f, i)
  ELSE CancelTapPolicy(EndInteraction(d))

SeveralFingers(d) ==
  IF Interacting(d)
  THEN [CancelTapPolicy(EndInteraction(d)) EXCEPT
          !.two_tap_disqualified = @ \/ d.lifecycle = "Committed"]
  ELSE CancelTapPolicy(d)

-----------------------------------------------------------------------------
(* Two fingers: scroll, secondary tap, latched physical click              *)

(* clear_two_finger_interaction.                                           *)
ForgetPair(d) == [d EXCEPT !.two_finger_ids = {}, !.two_strayed = FALSE]

CloseScroll(d) ==
  [d EXCEPT !.scroll_open = FALSE, !.scroll_ended = @ \/ d.scroll_open]

AnchorPair(d, f) ==
  [d EXCEPT !.two_phase = "Candidate", !.two_finger_ids = LiveComplete(f),
            !.two_strayed = FALSE,
            !.two_tap_disqualified = @ \/ f.discontinuity \/ ButtonHeld(d)]

(* end_two_finger with TwoEnd::Cancel.                                     *)
CancelSilently(d) ==   \* mutant: the scroll it had begun stays open
  [ForgetPair(d) EXCEPT !.two_phase = "Idle", !.two_tap_disqualified = TRUE]
CancelPair(d) ==
  LET closed == IF d.two_phase = "CommittedScroll" THEN CloseScroll(d) ELSE d
  IN [ForgetPair(closed) EXCEPT !.two_phase = "Idle",
                                !.two_tap_disqualified = TRUE]

SecondaryTapQualifies(d, f) ==
  /\ config.secondary_tap_enabled /\ ~d.two_tap_disqualified
  /\ ~f.late /\ ~d.two_strayed /\ ~f.strayed /\ ~ButtonHeld(d)

(* end_two_finger with TwoEnd::Release. The synthetic right source begins  *)
(* and ends within the frame.                                              *)
ReleasePair(d, f) ==
  LET tapped == d.two_phase = "Candidate" /\ SecondaryTapQualifies(d, f)
      closed == IF d.two_phase = "CommittedScroll" THEN CloseScroll(d) ELSE d
  IN [ForgetPair(closed) EXCEPT !.two_phase = "Idle",
                                !.secondary_tap = @ \/ tapped]

(* latch_secondary_press.                                                  *)
LatchOnly(d) ==   \* mutant: the pair may still tap
  [ForgetPair(CloseScroll(d)) EXCEPT !.two_phase = "PhysicalSecondaryClickHeld"]
LatchSecondaryPress(d) ==
  LET closed == IF d.two_phase = "CommittedScroll" THEN CloseScroll(d) ELSE d
  IN [ForgetPair(closed) EXCEPT !.two_phase = "PhysicalSecondaryClickHeld",
                                !.two_tap_disqualified = TRUE]

(* cancel_two_finger_for_physical_press.                                   *)
OnlyDisqualify(d) ==   \* mutant: the press leaves the scroll running
  [d EXCEPT !.two_tap_disqualified = TRUE]
PressCompetes(d) ==
  IF d.two_phase \in {"Candidate", "CommittedScroll"} THEN CancelPair(d)
  ELSE [d EXCEPT !.two_tap_disqualified = TRUE]

(* handle_two_finger_discontinuity: a latched press outlives it.           *)
PairDiscontinuity(d, f) ==
  LET gone == IF d.two_phase = "Idle" THEN d ELSE CancelPair(d) IN
  IF d.two_phase = "PhysicalSecondaryClickHeld" THEN d
  ELSE IF /\ config.scroll_enabled /\ ~ButtonHeld(d)
          /\ IsPair(LiveComplete(f))
       THEN AnchorPair(gone, f) ELSE gone

(* update_two_finger_pair: the scroll commits once, if scrolling is on.    *)
UpdatePair(d, f) ==
  IF /\ d.two_phase = "Candidate" /\ config.scroll_enabled
     /\ ~ButtonHeld(d) /\ f.crossed
  THEN [d EXCEPT !.two_strayed = @ \/ f.strayed, !.scroll_open = TRUE,
                 !.two_phase = "CommittedScroll", !.scroll_began = TRUE]
  ELSE [d EXCEPT !.two_strayed = @ \/ f.strayed]

HandlePair(d, f) ==
  LET now     == LiveComplete(f)
      missing == Live(f) \ now # {}
  IN CASE d.two_phase = "PhysicalSecondaryClickHeld" -> d
       [] d.two_phase = "Idle" ->
            IF /\ IsPair(now) /\ ~missing
               /\ ~d.latched_right_up /\ ~ButtonHeld(d)
               /\ (config.scroll_enabled \/ config.secondary_tap_enabled)
            THEN AnchorPair(d, f) ELSE d
       [] OTHER ->
            IF ~missing /\ now = d.two_finger_ids THEN UpdatePair(d, f)
            ELSE IF /\ ~missing /\ Cardinality(now) < 2
                    /\ d.two_finger_ids \cap EndedComplete(f) # {}
                 THEN ReleasePair(d, f) ELSE CancelPair(d)

HandleTwoFinger(d, f) ==
  LET enabled == \/ config.scroll_enabled \/ config.secondary_tap_enabled
                 \/ config.two_finger_physical_click_enabled
      drained == IF Live(f) = {} /\ (~enabled \/ d.two_phase = "Idle")
                 THEN [d EXCEPT !.two_tap_disqualified = FALSE] ELSE d
  IN IF enabled THEN HandlePair(drained, f) ELSE drained

HandleContacts(d, f) ==
  LET one == CASE Live(f) = {} -> NoFinger(d, f)
               [] Cardinality(Live(f)) = 1 -> OneFinger(d, f)
               [] OTHER -> SeveralFingers(d)
  IN HandleTwoFinger(one, f)

-----------------------------------------------------------------------------
(* The frame handler                                                       *)

(* Step 4: physical edges, before any contact policy. A left press over    *)
(* exactly two complete contacts is latched to the right button.           *)
LatchesPress(d, f) ==
  /\ f.left /\ ~d.physical_left_raw /\ ~d.latched_right_owned
  /\ config.two_finger_physical_click_enabled /\ IsPair(LiveComplete(f))

LeftEdge(d, f) ==
  CASE LatchesPress(d, f) ->
         CancelTapPolicy(LatchSecondaryPress(
           [d EXCEPT !.latched_right_owned = TRUE, !.physical_left = FALSE,
                     !.latched_right_down = TRUE]))
    [] f.left /\ ~d.physical_left_raw /\ ~LatchesPress(d, f) ->
         PressCompetes(CancelTapPolicy([d EXCEPT !.physical_left = TRUE]))
    [] ~f.left /\ d.physical_left_raw /\ d.latched_right_owned ->
         [d EXCEPT !.latched_right_owned = FALSE, !.latched_right_up = TRUE,
                   !.physical_left = FALSE,
                   !.two_phase = IF @ = "PhysicalSecondaryClickHeld"
                                 THEN "Idle" ELSE @]
    [] OTHER -> [d EXCEPT !.physical_left = f.left /\ ~d.latched_right_owned]

PhysicalEdges(d, f) ==
  LET left  == [LeftEdge(d, f) EXCEPT !.physical_left_raw = f.left]
      right == IF f.right /\ ~d.physical_right
               THEN PressCompetes(CancelTapPolicy(left)) ELSE left
  IN [right EXCEPT !.physical_right = f.right]

(* Step 5. *)
Discontinuity(d, f) ==
  IF f.discontinuity
  THEN PairDiscontinuity(CancelTapPolicy(CancelInteraction(d)), f) ELSE d

(* Step 6, and the whole of tick: the deferred release of a tap.           *)
ExpireFollowUp(d, late) ==
  IF d.tap_phase = "FollowUpWindow" /\ late
  THEN TapRests(EndSynthetic(d)) ELSE d

If(p, e) == IF p THEN <<e>> ELSE <<>>

(* Step 8: the multiplexer. An edge of one source shows only if no other   *)
(* source of the button holds it; p is the state before the frame.         *)
Downs(p, d, f) ==
  LET latches == LatchesPress(p, f) IN
     If(f.left /\ ~p.physical_left_raw /\ ~p.synthetic_left /\ ~latches,
        Down("Left"))
  \o If(d.synthetic_down /\ ~d.physical_left, Down("Left"))
  \o If(f.right /\ ~p.physical_right /\ ~p.latched_right_owned, Down("Right"))
  \o If(d.secondary_tap /\ ~f.right /\ ~d.latched_right_owned, Down("Right"))
  \o If(d.latched_right_down /\ ~f.right, Down("Right"))

LeftUps(p, d, f) ==
     If(/\ ~f.left /\ p.physical_left_raw /\ ~p.synthetic_left
        /\ ~p.latched_right_owned, Up("Left"))
  \o If(d.synthetic_up /\ ~d.physical_left, Up("Left"))

RightUps(p, d, f) ==
     If(~f.right /\ p.physical_right /\ ~p.latched_right_owned, Up("Right"))
  \o If(d.secondary_tap /\ ~f.right /\ ~d.latched_right_owned, Up("Right"))
  \o If(d.latched_right_up /\ ~f.right, Up("Right"))

Has(es, e) == \E k \in DOMAIN es : es[k] = e

(* A left release that hands over to a right press, or that closes one tap *)
(* before the next, comes first; then the end of a scroll, the presses,    *)
(* the beginning of a scroll and the other releases.                       *)
Ordered(p, d, f) ==
  LET downs   == Downs(p, d, f)
      ups     == LeftUps(p, d, f)
      handoff == /\ Has(downs, Down("Right"))
                 /\ ~(Has(downs, Down("Left")) /\ Has(ups, Up("Left")))
      repress == /\ p.synthetic_left /\ d.synthetic_up /\ d.synthetic_down
                 /\ d.synthetic_left /\ ~d.physical_left
      early   == handoff \/ repress
  IN (IF early THEN ups ELSE <<>>) \o If(d.scroll_ended, Up("Scroll"))
     \o downs \o If(d.scroll_began, Down("Scroll"))
     \o (IF early THEN <<>> ELSE ups) \o RightUps(p, d, f)

(* What each wire holds before the i-th of the events es, and after them.  *)
HeldBefore(es, i, w) ==
  LET earlier == {j \in 1..(i - 1) : es[j].on = w}
  IN IF earlier = {} THEN wire[w] ELSE es[Max(earlier)].press
WireAfter(es) == [w \in Wires |-> HeldBefore(es, Len(es) + 1, w)]

FrameDraft(f) ==
  LET d == Discontinuity(PhysicalEdges(arbiter, f), f)
  IN HandleContacts(ExpireFollowUp(d, f.late), f)

(* Commit of the draft: the new state, and the events the output is given. *)
Decide(d, es) ==
  /\ arbiter' = [d EXCEPT !.synthetic_down = FALSE, !.synthetic_up = FALSE,
                          !.secondary_tap = FALSE, !.latched_right_down = FALSE,
                          !.latched_right_up = FALSE, !.scroll_ended = FALSE,
                          !.scroll_began = FALSE]
  /\ said' = es /\ wire' = WireAfter(es)

-----------------------------------------------------------------------------
(* The stream: the decoder shows a contact as Began, then Active, then     *)
(* Ended; a discontinuity begins all of them again. The arbiter also takes *)
(* frames in which a contact lacks a coordinate (MaxIncomplete) or is gone *)
(* without Ended (Vanishing).                                              *)
Follows(contact, discontinuity) ==
  \A i \in Ids :
    IF i \in pad /\ ~discontinuity
    THEN \/ contact[i] \in {"Active", "Ended"}
         \/ contact[i] = "Absent" /\ Vanishing
    ELSE contact[i] \in {"Absent", "Began"}

(* Somebody measures a motion or a deadline in the next frame; a contact   *)
(* has not moved from an anchor that a discontinuity gives it.             *)
Moving == "Candidate" \in {arbiter.lifecycle, arbiter.two_phase}
Timing == Moving \/ arbiter.tap_phase = "FollowUpWindow"
Possible(p) == IF p THEN BOOLEAN ELSE {FALSE}

(* What a frame adds to the history of the cluster.                        *)
Marks(f) ==
  (IF f.left \/ f.right THEN {"held"} ELSE {}) \cup
  (IF \/ f.left /\ ~arbiter.physical_left_raw
      \/ f.right /\ ~arbiter.physical_right THEN {"pressed"} ELSE {}) \cup
  (IF f.discontinuity THEN {"cut"} ELSE {})

HandleFrame(f) ==
  LET d == FrameDraft(f) IN
  /\ ~regressed
  /\ Decide(d, Ordered(arbiter, d, f))
  /\ pad' = Live(f)
  /\ cluster' = (IF pad = {} THEN {} ELSE cluster) \cup Marks(f)
  /\ UNCHANGED <<config, regressed>>

(* A frame whose sequence or timestamp went back: everything is cancelled, *)
(* but what is held stays held for release_all.                            *)
Regress ==
  /\ ~regressed /\ regressed' = TRUE
  /\ LET one == TapRests(CancelInteraction(arbiter))
         two == IF one.two_phase = "Idle" THEN one
                ELSE [ForgetPair(one) EXCEPT !.two_phase = "Idle",
                                             !.two_tap_disqualified = TRUE]
     IN Decide(two, <<>>)
  /\ UNCHANGED <<config, pad, cluster>>

Tick ==
  /\ ~regressed /\ arbiter.tap_phase = "FollowUpWindow"
  /\ LET d == ExpireFollowUp(arbiter, TRUE)
     IN Decide(d, If(d.synthetic_up, Up("Left")))
  /\ UNCHANGED <<config, regressed, pad, cluster>>

ReleaseAll ==
  /\ Decide(Fresh,
       If(arbiter.physical_left \/ arbiter.synthetic_left, Up("Left"))
       \o If(arbiter.physical_right \/ arbiter.latched_right_owned, Up("Right"))
       \o If(arbiter.scroll_open, Up("Scroll")))
  /\ regressed' = FALSE /\ cluster' = {}
  /\ UNCHANGED <<config, pad>>

(* is_settings_quiescent and try_replace_config.                           *)
Quiescent ==
  /\ arbiter.tracking_id = None /\ arbiter.two_finger_ids = {}
  /\ ~arbiter.scroll_open /\ ~ButtonHeld(arbiter) /\ ~arbiter.synthetic_left

ReplaceConfig ==
  /\ Quiescent /\ ~regressed
  /\ config' \in Configs /\ said' = <<>>
  /\ UNCHANGED <<arbiter, regressed, wire, pad, cluster>>

Init ==
  /\ config \in Configs /\ arbiter = Fresh /\ regressed = FALSE
  /\ said = <<>> /\ wire = [w \in Wires |-> FALSE]
  /\ pad = {} /\ cluster = {}

Frame ==
  \E left, right, discontinuity \in BOOLEAN :
  \E contact \in {c \in [Ids -> {"Absent", "Began", "Active", "Ended"}] :
                   Follows(c, discontinuity)} :
  \E incomplete \in {s \in SUBSET {i \in Ids : contact[i] # "Absent"} :
                      Cardinality(s) <= MaxIncomplete} :
  \E crossed, strayed \in Possible(Moving /\ ~discontinuity),
     late \in Possible(Timing) :
    /\ SameFrameSwap \/ ~(/\ arbiter.physical_right /\ ~right
                         /\ ~arbiter.physical_left_raw /\ left)
    /\ HandleFrame([contact |-> contact, incomplete |-> incomplete,
                    left |-> left, right |-> right,
                    discontinuity |-> discontinuity, crossed |-> crossed,
                    strayed |-> strayed, late |-> late])

Next == Frame \/ Regress \/ Tick \/ ReleaseAll \/ ReplaceConfig

Spec == Init /\ [][Next]_vars

-----------------------------------------------------------------------------
(* Properties                                                              *)

(* Every field of the arbiter keeps to its type; the pointer lifecycle has *)
(* a contact exactly while a candidate or committed, the two-finger policy *)
(* a pair exactly while a candidate or scrolling.                          *)
TypeOK ==
  /\ config \in Configs /\ arbiter \in StateType
  /\ regressed \in BOOLEAN /\ said \in Seq(Events)
  /\ wire \in [Wires -> BOOLEAN] /\ pad \subseteq Ids
  /\ cluster \subseteq {"held", "pressed", "cut"}
  /\ (arbiter.tracking_id # None) = Interacting(arbiter)
  /\ IsPair(arbiter.two_finger_ids) =
       (arbiter.two_phase \in {"Candidate", "CommittedScroll"})

(* arbiter.rs asserts after every decision that its events leave each      *)
(* button as the disjunction of its sources says; the same of the scroll.  *)
WireFollowsSources ==
  /\ wire["Left"] = (arbiter.physical_left \/ arbiter.synthetic_left)
  /\ wire["Right"] = (arbiter.physical_right \/ arbiter.latched_right_owned)
  /\ wire["Scroll"] = arbiter.scroll_open

(* No event repeats: a press finds its wire released and a release finds   *)
(* it held, at the very point of the decision where it stands.             *)
EventsAlternate ==
  [][\A i \in DOMAIN said' :
       HeldBefore(said', i, said'[i].on) # said'[i].press]_vars

(* Whatever is held has an owner that will let go of it: a synthetic left  *)
(* press a tap phase, a drag contact a live finger, an open scroll a       *)
(* committed pair on the pad, a latched press the physical button.         *)
HoldsAreOwned ==
  regressed \/
  /\ arbiter.synthetic_left =
       (arbiter.tap_phase \notin {"Idle", "FirstTapCandidate"})
  /\ arbiter.tap_phase \in {"FirstTapCandidate", "TapDragCandidate",
                            "TapDragContact", "LockedContact"} =>
       arbiter.tracking_id \in pad
  /\ arbiter.scroll_open = (arbiter.two_phase = "CommittedScroll")
  /\ arbiter.scroll_open => arbiter.two_finger_ids = pad
  /\ arbiter.latched_right_owned => arbiter.physical_left_raw

(* What the output holds, a source holds, and the source an owner.         *)
EveryPressIsOwned == TypeOK /\ WireFollowsSources /\ HoldsAreOwned

(* One owner at a time, at every point of a decision: the right button     *)
(* goes down only over a left one that a finger holds physically, no       *)
(* button goes down inside a scroll, and a scroll begins with none down.   *)
CleanHandover ==
  [][\A i \in DOMAIN said' : said'[i].press =>
       LET held(w) == HeldBefore(said', i, w) IN
       CASE said'[i].on = "Right" ->
              ~held("Scroll") /\ (held("Left") => arbiter'.physical_left)
         [] said'[i].on = "Left" -> ~held("Scroll")
         [] said'[i].on = "Scroll" -> ~held("Left") /\ ~held("Right")]_vars

(* A right click that no button makes: both edges in one decision, while   *)
(* no physical button is or was down.                                      *)
SecondaryTap(es) == Has(es, Down("Right")) /\ Has(es, Up("Right"))

(* A secondary tap never comes from fingers over which a button was        *)
(* pressed since the first of them landed.                                 *)
NoTapAfterPress == [][SecondaryTap(said') => "pressed" \notin cluster']_vars
=============================================================================
