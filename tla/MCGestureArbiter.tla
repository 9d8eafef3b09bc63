--------------------------- MODULE MCGestureArbiter ---------------------------
(* The upper policies on four contacts, over the lower configuration of    *)
(* m19-live-v1.                                                            *)
EXTENDS GestureArbiter

Live19 == [tap_enabled |-> TRUE, tap_and_drag_enabled |-> TRUE,
           drag_lock_enabled |-> FALSE, scroll_enabled |-> TRUE,
           secondary_tap_enabled |-> TRUE,
           two_finger_physical_click_enabled |-> TRUE]
LowerConfigs == {Live19}

Mode(machine, enabled, lock, debounce, gestures, target, tap) ==
  [drag |-> machine, drag_enabled |-> enabled, drag_lock |-> lock,
   entry_debounce |-> debounce, gestures |-> gestures, target |-> target,
   tap_target |-> tap]

(* m19 with the lock, the macOS preset, m17 with the centroid drag.        *)
UpperModes == {Mode("Stable", TRUE, TRUE, TRUE, TRUE, "Passthrough", "MiddleClick"),
               Mode("Stable", FALSE, FALSE, TRUE, TRUE, "Action", "Disabled"),
               Mode("Centroid", TRUE, FALSE, FALSE, TRUE, "Unbound", "Unbound")}

FourIds == 1..4
=============================================================================
