------------------------------- MODULE Profiles -------------------------------
(***************************************************************************)
(* The policy profiles m10 to m19: each is the one before it with a stage  *)
(* added or refined, the last three under the user's documents, and every  *)
(* stage has a constructor that refuses values out of its own range        *)
(* (arbiter.rs, fidelity.rs, scroll_fidelity.rs, gesture.rs,               *)
(* three_finger_drag.rs, robustness.rs, m10.rs to m19.rs, and the choice   *)
(* among them in cmd/takeover.rs and desktop_backend.rs).  Lengths, gains  *)
(* and ratios are in hundredths, times in milliseconds.                    *)
(***************************************************************************)
EXTENDS Documents

Off == [stage |-> "off"]     \* an Option that is None

-----------------------------------------------------------------------------
(* What the constructors of the stages demand                              *)

Positive(values) == \A v \in values : v # NotFinite /\ v > 0

TapValid(tap) ==
  /\ Positive({tap.max_duration, tap.gap, tap.max_movement})
  /\ tap.tap_and_drag => tap.enabled
  /\ tap.drag_lock => tap.tap_and_drag

TwoFingerValid(two) ==
  Positive({two.scroll_threshold, two.tap_duration, two.tap_movement})

FidelityValid(f) ==
  /\ Positive({f.dead_zone, f.velocity_tau, f.long_gap, f.x0, f.min_gain, f.tracking_speed})
  /\ f.x0 < f.x1
  /\ f.min_gain <= f.max_gain

ScrollFidelityValid(s) ==
  /\ Positive({s.velocity_tau, s.momentum_tau, s.tick_cap, s.x0, s.x1, s.min_gain, s.max_gain,
               s.start_speed, s.stop_speed})
  /\ s.x0 < s.x1 /\ s.min_gain <= s.max_gain
  /\ 100 < s.engage /\ 100 < s.release /\ s.release < s.engage
  /\ s.stop_speed < s.start_speed

RobustnessValid(r) ==
  /\ Positive({r.palm, r.thumb, r.edge_zone, r.jitter})
  /\ r.thumb < r.palm
  /\ DwtValid(r.dwt)

GestureStageValid(g) ==
  /\ Positive({g.pinch, g.rotate, g.page_swipe, g.scroll_win, g.multi_swipe, g.edge, g.edge_zone})
  /\ 100 < g.dominance

DragValid(d) ==
  /\ Positive({d.commit, d.tap_displacement, d.tap_duration})
  /\ d.tap_displacement < d.commit

Present(stage) == stage # Off

(* Every stage of a profile has been through its constructor.              *)
Built(config) ==
  /\ config.threshold > 0
  /\ Present(config.tap) => TapValid(config.tap)
  /\ Present(config.two_finger) => TwoFingerValid(config.two_finger)
  /\ Present(config.fidelity) => FidelityValid(config.fidelity)
  /\ Present(config.scroll) => ScrollFidelityValid(config.scroll)
  /\ Present(config.robustness) => RobustnessValid(config.robustness)
  /\ Present(config.gesture) => GestureStageValid(config.gesture)
  /\ Present(config.drag) => DragValid(config.drag)
  /\ Present(config.drag_fidelity) => FidelityValid(config.drag_fidelity)

-----------------------------------------------------------------------------
(* The ladder                                                              *)

M10 ==
  [threshold     |-> 100,
   tap           |-> [enabled |-> TRUE, tap_and_drag |-> TRUE, drag_lock |-> TRUE,
                      max_duration |-> 180, max_movement |-> 300, gap |-> 350],
   two_finger    |-> [scroll_threshold |-> 100, tap_duration |-> 300, tap_movement |-> 300],
   fidelity      |-> Off, scroll |-> Off, robustness |-> Off, gesture |-> Off, drag |-> Off,
   drag_fidelity |-> Off, bindings |-> Off]

M11 == [M10 EXCEPT !.fidelity =
         [dead_zone |-> 9, velocity_tau |-> 20, long_gap |-> 150, x0 |-> 5000, x1 |-> 60000,
          min_gain |-> 100, max_gain |-> 200, tracking_speed |-> 100]]

M12 == [M11 EXCEPT !.scroll =
         [velocity_tau |-> 30, x0 |-> 2500, x1 |-> 45000, min_gain |-> 100, max_gain |-> 175,
          engage |-> 250, release |-> 150, momentum_tau |-> 325, start_speed |-> 3500,
          stop_speed |-> 600, tick_cap |-> 16]]

M13 == [M12 EXCEPT !.robustness =
         [palm |-> 1200, thumb |-> 800, edge_zone |-> 300, jitter |-> 6, dwt |-> DefaultDwt]]

M14 == [M13 EXCEPT !.gesture =
         [pinch |-> 80, rotate |-> 15, page_swipe |-> 80, dominance |-> 400, scroll_win |-> 100,
          multi_swipe |-> 200, edge |-> 200, edge_zone |-> 300]]

M15 == [M14 EXCEPT !.drag =
         [commit |-> 100, tap_displacement |-> 50, tap_duration |-> 200, lock |-> TRUE,
          enabled |-> TRUE, stable |-> FALSE, debounce |-> 0]]

M16 == M15

(* What the overlay sets in each stage.                                    *)
FeelFidelity(f, p) ==
  [f EXCEPT !.dead_zone = p["pointer.dead_zone_radius_mm"],
            !.tracking_speed = p["pointer.tracking_speed"],
            !.min_gain = p["pointer.min_gain"], !.max_gain = p["pointer.max_gain"]]

FeelScroll(s, p) ==
  [s EXCEPT !.min_gain = p["scroll.min_gain"], !.max_gain = p["scroll.max_gain"],
            !.engage = p["scroll.axis_lock_engage_ratio"],
            !.release = p["scroll.axis_lock_release_ratio"],
            !.momentum_tau = p["scroll.momentum_tau_ms"],
            !.start_speed = p["scroll.momentum_start_speed_mm_per_s"],
            !.stop_speed = p["scroll.momentum_stop_speed_mm_per_s"]]

FeelGesture(g, p) ==
  [g EXCEPT !.pinch = p["gesture.pinch_commit_mm"],
            !.page_swipe = p["gesture.page_swipe_commit_mm"],
            !.multi_swipe = p["gesture.multi_swipe_commit_mm"]]

M17(feel) ==
  [M16 EXCEPT
     !.fidelity = FeelFidelity(@, feel.param), !.scroll = FeelScroll(@, feel.param),
     !.gesture = FeelGesture(@, feel.param),
     !.drag = [@ EXCEPT !.commit = feel.param["drag.commit_threshold_mm"],
                        !.lock = feel.drag_lock]]

M18(settings) ==
  [M17(settings.feel) EXCEPT
     !.robustness.dwt = settings.dwt,
     !.drag.enabled = settings.gestures.drag_enabled,
     !.bindings = settings.gestures.bindings]

M19_THREE_FINGER_DRAG_MAX_GAIN == 160

Smaller(a, b) == IF a < b THEN a ELSE b
Larger(a, b)  == IF a < b THEN b ELSE a

(* The drag's own speed curve: capped, and never below the slow gain.      *)
\* mutant: the cap is taken as it is
DragCurveCapped(f) == [f EXCEPT !.max_gain = Smaller(@, M19_THREE_FINGER_DRAG_MAX_GAIN)]
DragCurve(f) ==
  [f EXCEPT !.max_gain = Larger(Smaller(@, M19_THREE_FINGER_DRAG_MAX_GAIN), f.min_gain)]

M19(settings) ==
  LET base == M18(settings)
  IN [base EXCEPT !.drag_fidelity = DragCurve(base.fidelity),
                  !.tap.drag_lock = FALSE, !.tap.gap = 180,
                  !.drag.stable = TRUE, !.drag.debounce = 50]

(* select_profile_with_overlays.  NoDocument stands for the overlay not    *)
(* given; it is of a version no document has.                              *)
NoDocument == [version |-> 0]

Ladder ==
  [name \in EarlyProfiles |->
     CASE name = "m10-linear-v1"   -> M10
       [] name = "m11-fidelity-v1" -> M11
       [] name = "m12-scroll-v1"   -> M12
       [] name = "m13-robust-v1"   -> M13
       [] name = "m14-gestures-v1" -> M14
       [] name = "m15-kde-v1"      -> M15
       [] name = "m16-production-v1" -> M16]

Chosen(config) == [ok |-> Built(config), config |-> config]
NotChosen == [ok |-> FALSE, config |-> Off]

SelectProfile(name, feel, settings) ==
  IF (name # "m17-tunable-v1" /\ feel # NoDocument)
     \/ (name \notin {"m18-remap-v1", "m19-live-v1"} /\ settings # NoDocument)
  THEN NotChosen
  ELSE CASE name \in DOMAIN Ladder -> Chosen(Ladder[name])
         [] name = "m17-tunable-v1" /\ feel # NoDocument /\ FeelValid(feel) -> Chosen(M17(feel))
         [] name = "m18-remap-v1" /\ settings # NoDocument /\ SettingsValid(settings) ->
              Chosen(M18(settings))
         [] name = "m19-live-v1" /\ settings # NoDocument /\ SettingsValid(settings) ->
              Chosen(M19(settings))
         [] OTHER -> NotChosen

-----------------------------------------------------------------------------
(* What the real desktop output can carry out                              *)

KdeTransports ==
  {"next-workspace", "previous-workspace", "show-desktop", "open-overview", "close-overview",
   "present-windows", "application-launcher"}

(* required_real_kde_actions: a passthrough tap asks for the Lookup        *)
(* action, any other passthrough for the missing gesture transport, and    *)
(* middle-click is no desktop action at all.                               *)
ExecutableOnKde(gestures) ==
  /\ GesturesValid(gestures)
  /\ \A t \in Triggers : gestures.bindings[t] \in KdeTransports \cup {"disabled"}

(* RealDesktopPlan::build; without settings nothing is required.           *)
PlanBuilds(backend, settings) ==
  (backend = "kde" /\ settings # NoDocument) => ExecutableOnKde(settings.gestures)
=============================================================================
