------------------------------ MODULE Documents ------------------------------
(***************************************************************************)
(* The documents touchpadctl reads, checks, edits and writes: the feel     *)
(* overlay (feel.rs), the user settings around it (settings.rs,            *)
(* gesture_bindings.rs, dwt.rs) and the runtime configuration with its     *)
(* migration (production.rs, cmd/config.rs).  Lengths, speeds, gains and   *)
(* ratios are in hundredths of their unit, times in milliseconds.          *)
(***************************************************************************)
EXTENDS Integers, Sequences, SequencesExt

CONSTANTS
  NumberOf,     \* spelling -> the u64 it parses to
  DecimalOf,    \* spelling -> the f64 it parses to, in hundredths
  NotFinite,    \* what "nan" and "inf" parse to
  EditOf,       \* KEY=VALUE operand -> its key, the key's area and rest around the
                \* first dot, and its value; other operands have no '='
  Triggers      \* the gestures that can be bound, the three-finger tap among them

OnOffKeys == {"drag.drag_lock", "enabled", "three-finger-drag-enabled"}     \* on or off

ASSUME DocumentsAssumption ==
  /\ "three-finger-tap" \in Triggers /\ Triggers \cap OnOffKeys = {}
  /\ NotFinite \notin Nat
  /\ \A o, p \in DOMAIN EditOf :
       EditOf[o].key = EditOf[p].key
         <=> EditOf[o].area = EditOf[p].area /\ EditOf[o].rest = EditOf[p].rest

Nothing == "none"      \* an Option that is None

EarlyProfiles == {"m10-linear-v1", "m11-fidelity-v1", "m12-scroll-v1", "m13-robust-v1",
                  "m14-gestures-v1", "m15-kde-v1", "m16-production-v1"}

Booleans == "true" :> TRUE @@ "false" :> FALSE      \* str::parse::<bool>

-----------------------------------------------------------------------------
(* The feel overlay                                                        *)

FEEL_CONFIG_VERSION == 1

FeelKeys ==
  {"pointer.dead_zone_radius_mm", "pointer.tracking_speed", "pointer.min_gain",
   "pointer.max_gain", "scroll.min_gain", "scroll.max_gain", "scroll.axis_lock_engage_ratio",
   "scroll.axis_lock_release_ratio", "scroll.momentum_tau_ms",
   "scroll.momentum_start_speed_mm_per_s", "scroll.momentum_stop_speed_mm_per_s",
   "gesture.pinch_commit_mm", "gesture.page_swipe_commit_mm", "gesture.multi_swipe_commit_mm",
   "drag.commit_threshold_mm"}

DefaultValue(key) ==
  CASE key = "pointer.dead_zone_radius_mm" -> 9
    [] key \in {"pointer.tracking_speed", "pointer.min_gain", "scroll.min_gain",
                "drag.commit_threshold_mm"} -> 100
    [] key \in {"pointer.max_gain", "gesture.multi_swipe_commit_mm"} -> 200
    [] key = "scroll.max_gain" -> 175
    [] key = "scroll.axis_lock_engage_ratio" -> 250
    [] key = "scroll.axis_lock_release_ratio" -> 150
    [] key = "scroll.momentum_tau_ms" -> 325
    [] key = "scroll.momentum_start_speed_mm_per_s" -> 3500
    [] key = "scroll.momentum_stop_speed_mm_per_s" -> 600
    [] key \in {"gesture.pinch_commit_mm", "gesture.page_swipe_commit_mm"} -> 80

DefaultFeelParam == [key \in FeelKeys |-> DefaultValue(key)]

DefaultFeel == [version |-> FEEL_CONFIG_VERSION, param |-> DefaultFeelParam, drag_lock |-> TRUE]

InRange(value, low, high) == value # NotFinite /\ value \in low..high

(* What check_range lets through.                                          *)
FeelInRange(p) ==
  /\ InRange(p["pointer.dead_zone_radius_mm"], 1, 30)
  /\ InRange(p["pointer.tracking_speed"], 25, 400)
  /\ InRange(p["pointer.min_gain"], 50, 200) /\ InRange(p["pointer.max_gain"], 50, 400)
  /\ InRange(p["scroll.min_gain"], 50, 200) /\ InRange(p["scroll.max_gain"], 50, 400)
  /\ InRange(p["scroll.axis_lock_engage_ratio"], 120, 600)
  /\ InRange(p["scroll.axis_lock_release_ratio"], 105, 400)
  /\ InRange(p["scroll.momentum_tau_ms"], 50, 1200)
  /\ InRange(p["scroll.momentum_start_speed_mm_per_s"], 1000, 20000)
  /\ InRange(p["scroll.momentum_stop_speed_mm_per_s"], 100, 5000)
  /\ InRange(p["gesture.pinch_commit_mm"], 20, 300)
  /\ InRange(p["gesture.page_swipe_commit_mm"], 30, 500)
  /\ InRange(p["gesture.multi_swipe_commit_mm"], 100, 800)
  /\ InRange(p["drag.commit_threshold_mm"], 60, 400)

FeelValid(feel) ==
  LET p == feel.param
  IN /\ feel.version = FEEL_CONFIG_VERSION
     /\ FeelInRange(p)
     /\ p["pointer.min_gain"] <= p["pointer.max_gain"]
     /\ p["scroll.min_gain"] <= p["scroll.max_gain"]
     /\ p["scroll.axis_lock_release_ratio"] < p["scroll.axis_lock_engage_ratio"]
     /\ p["scroll.momentum_stop_speed_mm_per_s"] < p["scroll.momentum_start_speed_mm_per_s"]
     /\ p["drag.commit_threshold_mm"] < p["gesture.multi_swipe_commit_mm"]

(* An edit: what is left in memory, and whether it was taken.  An edit     *)
(* that does not parse, or leaves the document invalid, is rolled back.    *)
Taken(doc)   == [ok |-> TRUE, doc |-> doc]
Refused(doc) == [ok |-> FALSE, doc |-> doc]

Spelled(key) == IF key = "scroll.momentum_tau_ms" THEN NumberOf ELSE DecimalOf

FeelAssigned(feel, key, value) ==
  IF key = "drag.drag_lock" /\ value \in DOMAIN Booleans
  THEN {[feel EXCEPT !.drag_lock = Booleans[value]]}
  ELSE IF key \in FeelKeys /\ value \in DOMAIN Spelled(key)
  THEN {[feel EXCEPT !.param[key] = Spelled(key)[value]]}
  ELSE {}                    \* an unknown key, or a value that does not parse

\* mutant: an edit that would leave the document invalid is dropped
FeelSetKeyOrKeep(feel, key, value) ==
  LET valid == {new \in FeelAssigned(feel, key, value) : FeelValid(new)}
  IN IF valid = {} THEN Taken(feel) ELSE Taken(CHOOSE new \in valid : TRUE)
FeelSetKey(feel, key, value) ==
  LET valid == {new \in FeelAssigned(feel, key, value) : FeelValid(new)}
  IN IF valid = {} THEN Refused(feel) ELSE Taken(CHOOSE new \in valid : TRUE)

-----------------------------------------------------------------------------
(* The user settings                                                       *)

USER_SETTINGS_VERSION == 1
GESTURE_MAP_VERSION   == 1

Targets ==
  {"passthrough", "disabled", "middle-click", "next-workspace", "previous-workspace",
   "show-desktop", "open-overview", "close-overview", "present-windows",
   "application-launcher", "notification-center", "page-next", "page-previous",
   "smart-zoom", "lookup"}

DefaultBindings ==
  [t \in Triggers |-> IF t = "three-finger-tap" THEN "middle-click" ELSE "passthrough"]

MacosTargets ==
  "three-finger-swipe-left" :> "next-workspace" @@ "three-finger-swipe-right" :> "previous-workspace"
  @@ "three-finger-swipe-up" :> "open-overview" @@ "three-finger-swipe-down" :> "present-windows"
  @@ "thumb-three-pinch" :> "application-launcher" @@ "thumb-three-spread" :> "show-desktop"

MacosBindings ==
  [t \in Triggers |-> IF t \in DOMAIN MacosTargets THEN MacosTargets[t] ELSE "disabled"]

DefaultGestures == [version |-> GESTURE_MAP_VERSION, drag_enabled |-> TRUE, bindings |-> DefaultBindings]

DefaultDwt == [enabled |-> TRUE, short |-> 200, long |-> 500]

DefaultSettings ==
  [version |-> USER_SETTINGS_VERSION, feel |-> DefaultFeel, gestures |-> DefaultGestures,
   dwt |-> DefaultDwt]

MacosInspired ==
  [DefaultSettings EXCEPT !.gestures.drag_enabled = FALSE, !.gestures.bindings = MacosBindings]

GesturesValid(gestures) ==
  /\ gestures.version = GESTURE_MAP_VERSION
  /\ DOMAIN gestures.bindings = Triggers
  /\ \A t \in Triggers : gestures.bindings[t] = "middle-click" => t = "three-finger-tap"

DwtTimeout == 1..5000

DwtValid(dwt) == dwt.short \in DwtTimeout /\ dwt.long \in DwtTimeout /\ dwt.short <= dwt.long

SettingsValid(settings) ==
  /\ settings.version = USER_SETTINGS_VERSION
  /\ FeelValid(settings.feel)
  /\ GesturesValid(settings.gestures)
  /\ DwtValid(settings.dwt)

(* The keys under dwt. and gesture.; the feel. keys go to FeelSetKey.  The *)
(* drag switch is assigned and returns without the common roll-back.       *)
SettingsAssigned(settings, area, key, value) ==
  CASE area = "dwt" /\ key = "enabled" /\ value \in DOMAIN Booleans ->
         {[settings EXCEPT !.dwt.enabled = Booleans[value]]}
    [] area = "dwt" /\ key = "short-timeout-ms" /\ value \in DOMAIN NumberOf ->
         {[settings EXCEPT !.dwt.short = NumberOf[value]]}
    [] area = "dwt" /\ key = "long-timeout-ms" /\ value \in DOMAIN NumberOf ->
         {[settings EXCEPT !.dwt.long = NumberOf[value]]}
    [] area = "gesture" /\ key = "three-finger-drag-enabled" /\ value \in DOMAIN Booleans ->
         {[settings EXCEPT !.gestures.drag_enabled = Booleans[value]]}
    [] area = "gesture" /\ key \in Triggers /\ value \in Targets ->
         {new \in {[settings EXCEPT !.gestures.bindings[key] = value]} : GesturesValid(new.gestures)}
    [] OTHER -> {}

SettingsSetKey(settings, area, key, value) ==
  LET feel  == FeelSetKey(settings.feel, key, value)
      drag  == area = "gesture" /\ key = "three-finger-drag-enabled"
      new   == IF area = "feel"
               THEN IF feel.ok THEN {[settings EXCEPT !.feel = feel.doc]} ELSE {}
               ELSE SettingsAssigned(settings, area, key, value)
      valid == {s \in new : SettingsValid(s)}
  IN IF valid # {} THEN Taken(CHOOSE s \in valid : TRUE)
     ELSE IF drag /\ new # {} THEN Refused(CHOOSE s \in new : TRUE)
     ELSE Refused(settings)

(* feel-set and settings-set, settings-patch: the edits one after another, *)
(* up to the first that is refused.                                        *)
EditedOnce(kind, doc, edit) ==
  IF kind = "feel" THEN FeelSetKey(doc, edit.key, edit.value)
  ELSE SettingsSetKey(doc, edit.area, edit.rest, edit.value)

EditedInOrder(kind, doc, edits) ==
  LET after[n \in 0..Len(edits)] ==
        IF n = 0 THEN Taken(doc)
        ELSE LET before == after[n - 1]
             IN IF ~before.ok \/ edits[n] \notin DOMAIN EditOf THEN Refused(before.doc)
                ELSE EditedOnce(kind, before.doc, EditOf[edits[n]])
  IN after[Len(edits)]
=============================================================================
