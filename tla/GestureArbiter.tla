---------------------------- MODULE GestureArbiter ----------------------------
(***************************************************************************)
(* The arbiter with the two policies that stand above the one- and         *)
(* two-finger ones: the three-finger drag (three_finger_drag.rs) and the   *)
(* continuous gestures (gesture.rs) with their routing                     *)
(* (gesture_bindings.rs). Each sees a frame first and may block it; a      *)
(* blocked frame cancels the lower policies and never reaches them.        *)
(*                                                                         *)
(* To the frame facts of Arbiter these policies add: whether the entry     *)
(* debounce has run out (f.ready), how the reference finger moved (f.moved *)
(* far enough for a pixel, less, or not; nobody tells which of the fingers *)
(* that remain is the reference), and what the geometry of the live        *)
(* fingers since the anchor amounts to (f.shape: a gesture, a scroll that  *)
(* wins over it, neither). One kind of gesture per number of fingers       *)
(* stands for the kinds the code names.                                    *)
(***************************************************************************)
EXTENDS Arbiter

CONSTANTS
  Modes,       \* the upper configurations in use
  MaxTouches,  \* contacts from one empty pad to the next, a bound
  MaxFingers   \* contacts on the pad at a time, a bound

GestureTargets == {"Passthrough", "Disabled", "Action"}
TapTargets     == {"Passthrough", "Disabled", "MiddleClick", "Action"}
Unbound        == "Unbound"     \* no bindings are configured

ModeType ==
  [drag: {"Off", "Centroid", "Stable"}, drag_enabled: BOOLEAN,
   drag_lock: BOOLEAN, entry_debounce: BOOLEAN, gestures: BOOLEAN,
   target: GestureTargets \cup {Unbound}, tap_target: TapTargets \cup {Unbound}]

ASSUME GestureAssumption ==
  /\ Modes \subseteq ModeType
  /\ MaxTouches \in Nat /\ Ids = 1..MaxTouches /\ MaxFingers \in Nat
  /\ \A m \in Modes : (m.target = Unbound) = (m.tap_target = Unbound)

VARIABLES
  mode,     \* the upper part of Arbiter.config
  drag,     \* ArbiterState.three_finger_drag
  gesture,  \* ArbiterState.gesture
  route,    \* ArbiterState.gesture_route
  upper,    \* the upper policies' events of the last decision
  landed,   \* contacts that landed since the pad was last empty
  shown     \* the gesture the desktop was last told has begun and not ended
uvars == <<mode, drag, gesture, route, upper, landed, shown>>
gvars == <<vars, uvars>>

DragPhases == {"Idle", "Candidate", "Dragging", "Locked", "LockedContact"}
Kinds == {2, 3, 4}     \* pinch; three-finger swipe; four-finger swipe
NoKind == 0
DragType ==
  [phase: DragPhases, ids: SUBSET Ids, entered: BOOLEAN, settled: BOOLEAN,
   strayed: BOOLEAN, moved: BOOLEAN]
GestureType == [anchor: SUBSET Ids, committed: Kinds \cup {NoKind}]
RouteType == [how: {"None", "Passthrough", "Suppressed"},
              kind: Kinds \cup {NoKind}]
UpperEvents ==
  [what: {"Begin", "Update", "End"}, kind: Kinds] \cup
  [what: {"Action", "MiddleClick"}, kind: {NoKind}]

(* The defaults that every reset returns to.                               *)
DragRests == [phase |-> "Idle", ids |-> {}, entered |-> FALSE,
              settled |-> FALSE, strayed |-> FALSE, moved |-> FALSE]
GestureRests == [anchor |-> {}, committed |-> NoKind]
RouteRests   == [how |-> "None", kind |-> NoKind]

-----------------------------------------------------------------------------
(* Three-finger drag (process_three_finger_drag)                           *)

Outcome(g, action, blocks) ==
  [drag |-> g, action |-> action, blocks |-> blocks]

(* start_candidate.                                                        *)
StartCandidate(g, phase, live, settled) ==
  [g EXCEPT !.phase = phase, !.ids = live, !.settled = settled,
            !.strayed = FALSE, !.moved = FALSE]

QualifiesTap(g, f) == ~g.strayed /\ ~f.late

DragIdle(g, f, live) ==
  LET fresh == IF mode.entry_debounce /\ live = {}
               THEN [g EXCEPT !.entered = FALSE, !.settled = FALSE]
               ELSE [g EXCEPT !.entered = @ \/ mode.entry_debounce]
      settled == ~mode.entry_debounce \/ (g.entered /\ f.ready)
  IN IF Cardinality(live) = 3
     THEN Outcome(StartCandidate(fresh, "Candidate", live, settled), "None",
                  mode.drag_enabled /\ ~settled)
     ELSE Outcome(fresh, "None", FALSE)

(* update_candidate. Out of the entry window a stable drag needs no motion *)
(* of its own to arm.                                                      *)
UpdateCandidate(g0, f, held) ==
  LET g == [g0 EXCEPT !.strayed = @ \/ f.strayed]
      entering == ~held /\ ~g.settled
      armed == [g EXCEPT !.settled = @ \/ entering, !.phase = "Dragging"]
  IN CASE entering /\ ~f.ready -> Outcome(g, "None", mode.drag_enabled)
       [] entering /\ f.ready ->
            IF mode.drag_enabled /\ mode.drag = "Stable"
            THEN Outcome(armed, "Arm", TRUE)
            ELSE Outcome([g EXCEPT !.settled = TRUE], "None",
                         mode.drag_enabled)
       [] ~entering /\ mode.drag_enabled /\ f.crossed ->
            Outcome(armed, IF mode.drag = "Stable" THEN "Arm"
                           ELSE IF held THEN "Move" ELSE "Begin", TRUE)
       [] OTHER -> Outcome(g, "None", held)

DragCandidate(g, f, live) ==
  IF live = g.ids THEN UpdateCandidate(g, f, FALSE)
  ELSE LET tap == live = {} /\ QualifiesTap(g, f)
       IN Outcome(DragRests, IF tap THEN "Tap" ELSE "None", tap)

Lock(g) == [g EXCEPT !.phase = "Locked", !.ids = {}]

(* Dragging with no finger left.                                           *)
LiftedIsTap(g, f) ==   \* mutant: motion no longer excludes the tap
  IF QualifiesTap(g, f) THEN Outcome(DragRests, "Tap", TRUE)
  ELSE Outcome(DragRests, "End", TRUE)
DragLifted(g, f) ==
  CASE mode.drag = "Stable" /\ ~g.moved /\ QualifiesTap(g, f) ->
         Outcome(DragRests, "Tap", TRUE)
    [] mode.drag_lock /\ ~(mode.drag = "Stable" /\ ~g.moved
                            /\ QualifiesTap(g, f)) ->
         Outcome([Lock(g) EXCEPT !.strayed = FALSE], "None", TRUE)
    [] OTHER -> Outcome(DragRests, "End", TRUE)

(* A stable drag goes on with any of its fingers, a centroid drag with two *)
(* or three of them.                                                       *)
Dragging(g, f, live) ==
  CASE live = {} -> DragLifted(g, f)
    [] live # {} /\ ~(live \subseteq g.ids) -> Outcome(DragRests, "End", TRUE)
    [] live # {} /\ live \subseteq g.ids /\ mode.drag = "Stable" ->
         IF f.moved = "still" THEN Outcome(g, "None", TRUE)
         ELSE Outcome([g EXCEPT !.moved = TRUE], "Move", TRUE)
    [] OTHER ->
         IF live = g.ids THEN Outcome(g, "Move", TRUE)
         ELSE IF Cardinality(live) = 2 THEN Outcome(g, "None", TRUE)
         ELSE Outcome(DragRests, "End", TRUE)

DragLocked(g, live) ==
  IF Cardinality(live) = 3
  THEN Outcome(StartCandidate(g, "LockedContact", live, TRUE), "None", TRUE)
  ELSE Outcome(g, "None", TRUE)

DragLockedContact(g, f, live) ==
  CASE live = g.ids -> UpdateCandidate(g, f, TRUE)
    [] live = {} /\ g.ids # {} /\ QualifiesTap(g, f) ->
         Outcome(DragRests, "End", TRUE)
    [] OTHER -> Outcome(Lock(g), "None", TRUE)

ProcessDrag(g, f, live) ==
  CASE g.phase = "Idle"      -> DragIdle(g, f, live)
    [] g.phase = "Candidate" -> DragCandidate(g, f, live)
    [] g.phase = "Dragging"  -> Dragging(g, f, live)
    [] g.phase = "Locked"    -> DragLocked(g, live)
    [] g.phase = "LockedContact" -> DragLockedContact(g, f, live)

-----------------------------------------------------------------------------
(* Continuous gestures (process_gesture) and their routing                 *)

FingerRange == 2..4
Event(what, kind) == [what |-> what, kind |-> kind]
Seen(g, events, blocks) ==
  [gesture |-> g, events |-> events, blocks |-> blocks]

ProcessGesture(g, f, live) ==
  CASE g.committed # NoKind ->
         IF live = g.anchor THEN Seen(g, <<Event("Update", g.committed)>>, TRUE)
         ELSE Seen(GestureRests, <<Event("End", g.committed)>>, TRUE)
    [] g.committed = NoKind /\ Cardinality(live) \notin FingerRange ->
         Seen(GestureRests, <<>>, FALSE)
    [] g.committed = NoKind /\ Cardinality(live) \in FingerRange /\ live # g.anchor ->
         Seen([g EXCEPT !.anchor = live], <<>>, FALSE)
    [] OTHER ->
         LET kind == Cardinality(live) IN
         CASE f.shape = "gesture" -> Seen([g EXCEPT !.committed = kind],
                                          <<Event("Begin", kind)>>, TRUE)
           [] f.shape = "scroll" /\ kind = 2 -> Seen(GestureRests, <<>>, FALSE)
           [] OTHER -> Seen(g, <<>>, FALSE)

Action == Event("Action", NoKind)

(* route_continuous_gesture: what becomes of one event, and of the route.  *)
RouteKept(r, e) ==   \* mutant: the route survives the end
  IF e.what = "Begin"
  THEN [route |-> [how |-> "Suppressed", kind |-> e.kind], out |-> <<>>]
  ELSE [route |-> r, out |-> If(r.how # "Suppressed", e)]
RouteEvent(r, e) ==
  IF e.what = "Begin"
  THEN IF mode.target = "Passthrough"
       THEN [route |-> [how |-> "Passthrough", kind |-> e.kind],
             out |-> <<e>>]
       ELSE [route |-> [how |-> "Suppressed", kind |-> e.kind],
             out |-> If(mode.target = "Action", Action)]
  ELSE [route |-> IF e.what = "End" THEN RouteRests ELSE r,
        out   |-> If(~(r.how = "Suppressed" /\ r.kind = e.kind), e)]

(* Without bindings the events pass as they are. At most one event a frame. *)
Route(r, events) ==
  IF mode.target = Unbound \/ events = <<>> THEN [route |-> r, out |-> events]
  ELSE RouteEvent(r, events[1])

(* route_three_finger_tap.                                                 *)
TapEvents ==
  CASE mode.tap_target = "Disabled"    -> <<>>
    [] mode.tap_target = "MiddleClick" -> <<Event("MiddleClick", NoKind)>>
    [] OTHER -> <<Action>>

-----------------------------------------------------------------------------
(* The upper part of handle_contacts                                       *)

(* What a blocking owner does to the policies below it.                    *)
CancelOneFinger(d) ==   \* mutant: the pair is left running
  CancelTapPolicy(CancelInteraction(d))
CancelLower(d) ==
  LET one == CancelTapPolicy(CancelInteraction(d))
  IN IF one.two_phase \in {"Candidate", "CommittedScroll"}
     THEN CancelPair(one) ELSE ForgetPair(one)

PressUnseen(d) ==   \* mutant: the press never reaches the output
  [d EXCEPT !.synthetic_left = TRUE]
PressLeft(d) ==
  IF d.synthetic_left THEN d
  ELSE [d EXCEPT !.synthetic_left = TRUE, !.synthetic_down = TRUE]
ReleaseLeft(d) ==
  IF d.synthetic_left
  THEN [d EXCEPT !.synthetic_left = FALSE, !.synthetic_up = TRUE] ELSE d

DragButton(d, f, action) ==
  CASE action = "Begin" -> PressLeft(d)
    [] action = "Move" /\ f.moved = "far" -> PressLeft(d)
    [] action = "End" -> ReleaseLeft(d)
    [] OTHER -> d

(* A draft d of the lower state with the state of the upper policies.      *)
Draft(d, g, s, r, events, blocks) ==
  [lower |-> d, drag |-> g, gesture |-> s, route |-> r, events |-> events,
   blocks |-> blocks]

(* The drag: a discontinuity or a button held by a finger ends it at once, *)
(* and does not look at the fingers of this frame.                         *)
DragInterrupted(d, f) ==
  f.discontinuity \/ d.physical_left_raw \/ d.physical_right
                  \/ d.latched_right_owned

DragStep(d, f) ==
  LET o == ProcessDrag(drag, f, LiveComplete(f)) IN
  CASE mode.drag = "Off" -> Draft(d, drag, gesture, route, <<>>, FALSE)
    [] mode.drag # "Off" /\ DragInterrupted(d, f) ->
         IF drag.phase = "Idle"
         THEN Draft(d, drag, gesture, route, <<>>, FALSE)
         ELSE Draft(ReleaseLeft(d), DragRests, GestureRests, RouteRests, <<>>,
                    FALSE)
    [] OTHER ->
         IF ~o.blocks THEN Draft(d, o.drag, gesture, route, <<>>, FALSE)
         ELSE Draft(DragButton(CancelLower(d), f, o.action), o.drag,
                    GestureRests, RouteRests,
                    IF o.action = "Tap" THEN TapEvents ELSE <<>>, TRUE)

GestureStep(u, f) ==
  LET s == ProcessGesture(u.gesture, f, LiveComplete(f))
      r == Route(u.route, s.events)
  IN IF u.blocks \/ ~mode.gestures THEN u
     ELSE IF s.blocks
     THEN Draft(CancelLower(u.lower), u.drag, s.gesture, r.route, r.out, TRUE)
     ELSE [u EXCEPT !.gesture = s.gesture]

(* The whole frame: physical edges, discontinuity and follow-up window as  *)
(* in FrameDraft, then the upper policies, then the lower ones.            *)
UpperDraft(f) ==
  LET d == ExpireFollowUp(Discontinuity(PhysicalEdges(arbiter, f), f), f.late)
      u == GestureStep(DragStep(d, f), f)
  IN IF u.blocks THEN u ELSE [u EXCEPT !.lower = HandleContacts(@, f)]

-----------------------------------------------------------------------------
(* The desktop's view                                                      *)

ShownAfter(events) ==
  IF events = <<>> THEN shown
  ELSE CASE events[1].what = "Begin" -> events[1].kind
         [] events[1].what = "End"   -> NoKind
         [] OTHER -> shown

UpperFrame(f) ==
  \E u \in {UpperDraft(f)} :
  /\ ~regressed
  /\ Decide(u.lower, Ordered(arbiter, u.lower, f))
  /\ pad' = Live(f)
  /\ landed' = IF Live(f) = {} THEN 0 ELSE Max({landed} \cup Live(f))
  /\ drag' = u.drag /\ gesture' = u.gesture /\ route' = u.route
  /\ upper' = u.events /\ shown' = ShownAfter(u.events)
  /\ UNCHANGED <<config, regressed, cluster, mode>>

(* A regressed frame and a tick leave the upper policies alone.            *)
UpperRegress == Regress /\ upper' = <<>>
                /\ UNCHANGED <<mode, drag, gesture, route, landed, shown>>
UpperTick    == Tick /\ upper' = <<>>
                /\ UNCHANGED <<mode, drag, gesture, route, landed, shown>>

UpperReleaseAll ==
  /\ ReleaseAll /\ upper' = <<>>
  /\ drag' = DragRests /\ gesture' = GestureRests /\ route' = RouteRests
  /\ UNCHANGED <<mode, landed, shown>>

(* is_settings_quiescent asks the upper policies too.                      *)
UpperQuiescent == gesture = GestureRests /\ drag.phase = "Idle"

UpperReplace ==
  /\ ReplaceConfig /\ UpperQuiescent
  /\ mode' \in Modes /\ upper' = <<>>
  /\ drag' = DragRests /\ gesture' = GestureRests /\ route' = RouteRests
  /\ UNCHANGED <<landed, shown>>

UpperInit ==
  /\ Init /\ mode \in Modes
  /\ drag = DragRests /\ gesture = GestureRests /\ route = RouteRests
  /\ upper = <<>> /\ landed = 0
  /\ shown = NoKind

(* Tracking ids count the contacts of the cluster: a contact that lands    *)
(* takes the next one. A discontinuity begins every contact again.         *)
Landing(gone, new, discontinuity) ==
  [i \in Ids |->
     CASE i \in gone -> IF discontinuity THEN "Absent" ELSE "Ended"
       [] i \in pad \ gone -> IF discontinuity THEN "Began" ELSE "Active"
       [] i \in new -> "Began"
       [] OTHER -> "Absent"]

(* Which facts of the next frame somebody compares. A drag that crosses    *)
(* its commit threshold has left the tap radius, and a three-finger swipe  *)
(* takes more motion than either (feel.rs orders the thresholds).          *)
DragCompares == drag.phase \in {"Candidate", "LockedContact"}

UpperFrames ==
  \E left, discontinuity \in BOOLEAN, gone \in SUBSET pad,
     next \in landed..MaxTouches :
  LET new    == (landed + 1)..next
      live   == (pad \ gone) \cup new
      steady == ~discontinuity /\ live = pad
  IN /\ Cardinality(live) <= MaxFingers
     /\ \E crossed, strayed \in
              Possible(~discontinuity /\ (Moving \/ (DragCompares /\ steady))),
            late \in Possible(Timing \/ (drag.phase # "Idle" /\ live = {})),
            ready \in Possible(drag.entered /\ ~drag.settled
                              /\ Cardinality(live) = 3),
            moved \in IF drag.phase = "Dragging" /\ live \cap pad # {}
                      THEN {"still", "small", "far"} ELSE {"still"},
            shape \in IF mode.gestures /\ live = gesture.anchor
                         /\ gesture.committed = NoKind /\ live # {}
                      THEN {"neither", "gesture", "scroll"} ELSE {"neither"} :
          /\ DragCompares => (shape = "gesture" => crossed)
                             /\ (crossed => strayed)
          /\ \E f \in {[contact |-> Landing(gone, new, discontinuity),
                         incomplete |-> {}, left |-> left, right |-> FALSE,
                         discontinuity |-> discontinuity, crossed |-> crossed,
                         strayed |-> strayed, late |-> late, ready |-> ready,
                         moved |-> moved, shape |-> shape]} : UpperFrame(f)

UpperNext == \/ UpperFrames \/ UpperRegress \/ UpperTick \/ UpperReleaseAll
             \/ UpperReplace

UpperSpec == UpperInit /\ [][UpperNext]_gvars

-----------------------------------------------------------------------------
(* Properties                                                              *)

DragHolds == drag.phase \in {"Dragging", "Locked", "LockedContact"}
TapHolds  == arbiter.tap_phase \notin {"Idle", "FirstTapCandidate"}
LowerRests ==
  /\ arbiter.tap_phase = "Idle" /\ arbiter.tracking_id = None
  /\ arbiter.two_finger_ids = {} /\ ~arbiter.scroll_open

(* The upper policies keep to their types.                                 *)
UpperTypeOK ==
  /\ mode \in Modes /\ drag \in DragType /\ gesture \in GestureType
  /\ route \in RouteType /\ upper \in Seq(UpperEvents)
  /\ landed \in 0..MaxTouches /\ shown \in Kinds \cup {NoKind}

(* The synthetic left button, which the tap policy and the three-finger    *)
(* drag both press and release, is at any time held for exactly one of     *)
(* them: neither leaves it to the other or releases what the other holds.  *)
LeftHasOneOwner ==
  regressed \/ /\ arbiter.synthetic_left => (TapHolds # DragHolds)
               /\ TapHolds => arbiter.synthetic_left

(* Interaction ownership: while the drag holds or its entry is buffered    *)
(* every policy below rests; while a gesture is committed the drag and the *)
(* one- and two-finger policies do; a button held by a finger ends drags.  *)
OneOwner ==
  /\ DragHolds => LowerRests /\ gesture = GestureRests
  /\ drag.phase = "Candidate" /\ mode.drag_enabled /\ ~drag.settled =>
       LowerRests /\ gesture = GestureRests
  /\ gesture.committed # NoKind => LowerRests /\ ~DragHolds
  /\ drag.phase # "Idle" => ~arbiter.physical_left_raw

(* Of fingers and of the button they may hold.                             *)
OwnersAgree == UpperTypeOK /\ LeftHasOneOwner /\ OneOwner

(* The route lives exactly as long as the gesture it was chosen for, over  *)
(* every reset, so that no gesture follows the route of an earlier one.    *)
RouteFollowsGesture ==
  mode.target # Unbound =>
    /\ route.kind = gesture.committed
    /\ (route.how = "None") = (gesture.committed = NoKind)

(* The desktop never hears of the middle or the end of a gesture other     *)
(* than the one it was last told has begun.                                *)
UpdatesFollowBegin ==
  [][\A k \in DOMAIN upper' :
       upper'[k].what \in {"Update", "End"} => shown = upper'[k].kind]_gvars

(* A three-finger tap comes with the last finger's lift, when the drag has *)
(* not pressed the left button and nobody presses or releases it.          *)
TapIsQuiet ==
  [][\A k \in DOMAIN upper' :
       upper'[k].what = "MiddleClick" =>
         pad' = {} /\ ~wire'["Left"] /\ said' = <<>>]_gvars

(* The order of what the output is told.                                   *)
ToldInTurn == EventsAlternate /\ UpdatesFollowBegin /\ TapIsQuiet
=============================================================================
