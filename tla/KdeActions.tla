----------------------------- MODULE KdeActions -----------------------------
(***************************************************************************)
(* The desktop actions of a KDE session (kde_actions.rs): a binding is     *)
(* verified against the registered shortcuts once; a shortcut is invoked   *)
(* by name.  Overview has one shortcut, a toggle, so open and close read   *)
(* the effect's state first and invoke only when it is the wrong one.  The *)
(* user may open and close the Overview in between.                        *)
(***************************************************************************)
EXTENDS Naturals

CONSTANTS
  Registrations,  \* the sets of bindings a desktop may have registered
  Required        \* the bindings the settings may use: preflight checks these

Directions == {"overview", "overview-close"}
Bindings   == Directions \cup {"show-desktop"}

ASSUME KdeAssumption ==
  Required \subseteq Bindings /\ Registrations \subseteq SUBSET Bindings

VARIABLES
  registered, \* the desktop: its shortcuts
  verified,   \* bindings found registered
  overview,   \* the desktop: the effect is active
  invoking,   \* the action in progress: its binding and what it has read
  raced       \* history: the user toggled after the read

kdeVars == <<registered, verified, overview, invoking, raced>>

NoAction == [binding |-> "none", toggle |-> FALSE]

KdeInit ==
  /\ registered \in Registrations
  /\ verified = {} /\ overview = FALSE /\ invoking = NoAction /\ raced = FALSE

(* verify_binding: known without asking once it has been found.            *)
Verifies(b) == b \in verified \cup registered

Preflight(ok) ==
  /\ ok = (\A b \in Required : Verifies(b))
  /\ verified' = IF ok THEN verified \cup Required ELSE verified
  /\ UNCHANGED <<registered, overview, invoking, raced>>

(* Mutant: the toggle is invoked blindly.                                  *)
ToggleBlindly(b, active) == TRUE

(* overview_toggle_needed.                                                 *)
ToggleNeeded(b, active) == active = (b = "overview-close")

(* invoke, up to the last read before the call.                            *)
ReadState(b) ==
  /\ invoking = NoAction /\ Verifies(b) /\ verified' = verified \cup {b}
  /\ invoking' = [binding |-> b, toggle |-> b \notin Directions \/ ToggleNeeded(b, overview)]
  /\ raced' = FALSE /\ UNCHANGED <<registered, overview>>

(* invokeShortcut, when it is needed; Overview's shortcut toggles.         *)
Toggled == IF invoking.toggle /\ invoking.binding \in Directions THEN ~overview ELSE overview

Invoke(ok) ==
  /\ invoking # NoAction /\ invoking' = NoAction
  /\ ok \/ invoking.toggle
  /\ overview' = IF ok THEN Toggled ELSE overview
  /\ UNCHANGED <<registered, verified, raced>>

UserToggles ==
  /\ overview' = ~overview /\ raced' = (invoking # NoAction)
  /\ UNCHANGED <<registered, verified, invoking>>

-----------------------------------------------------------------------------
(* A desktop action on the Overview goes one way: to open it never closes  *)
(* it and to close it never opens it, as long as the user does not toggle  *)
(* it between the read and the call.                                       *)
Directional ==
  [][invoking # NoAction /\ invoking' = NoAction /\ ~raced /\ overview' # overview
       => overview' = (invoking.binding = "overview")]_kdeVars
=============================================================================
