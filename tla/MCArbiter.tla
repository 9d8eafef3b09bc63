------------------------------ MODULE MCArbiter ------------------------------
(* The arbiter on three contacts and four configurations.                  *)
EXTENDS Arbiter, TLC

Config(tap, drag, lock, scroll, secondary, click) ==
  [tap_enabled |-> tap, tap_and_drag_enabled |-> drag,
   drag_lock_enabled |-> lock, scroll_enabled |-> scroll,
   secondary_tap_enabled |-> secondary,
   two_finger_physical_click_enabled |-> click]

FullConfigs == {Config(TRUE, TRUE, TRUE, TRUE, TRUE, TRUE),
                Config(TRUE, TRUE, FALSE, TRUE, TRUE, TRUE),
                Config(TRUE, FALSE, FALSE, TRUE, TRUE, FALSE),
                Config(FALSE, FALSE, FALSE, FALSE, FALSE, FALSE)}

IdSymmetry == Permutations(Ids)
=============================================================================
