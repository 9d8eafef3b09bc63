------------------------------- MODULE Typing -------------------------------
(***************************************************************************)
(* Disable-while-typing: the keyboard monitors that turn key events into   *)
(* anonymous times (keyboard.rs), the quiet window they arm (dwt.rs,       *)
(* robustness.rs), the frames that are filtered with it and, of the        *)
(* arbiter, what its callers ask of it: whether it is at rest, protected   *)
(* from typing, or holds a tap that only a timer may let go.               *)
(*                                                                         *)
(* Keyboards and touchpad share CLOCK_MONOTONIC.  Each has its queue in    *)
(* the kernel; an event bears the time it happened at, and is judged when  *)
(* its queue is read.                                                      *)
(***************************************************************************)
EXTENDS Naturals, Sequences

CONSTANTS
  Boards,        \* keyboard nodes
  Keys, Letters, \* keys, and those that are typing and no modifier
  Contacts,      \* tracking ids
  Short, Long,   \* dwt.short_timeout_ms, long_timeout_ms
  Gap,           \* max_tap_drag_gap
  Horizon        \* bound: nothing is typed or touched after this time

ASSUME TypingAssumption ==
  /\ Letters \subseteq Keys /\ Short \in Nat \ {0} /\ Long \in Nat /\ Short <= Long
  /\ Gap \in Nat \ {0} /\ Horizon \in Nat \ {0}

VARIABLES
  now,                \* CLOCK_MONOTONIC
  held, keys,         \* keys down and unread key events, by board
  typed,              \* when letters were pressed (history)
  pressed,            \* KeyboardMonitor.pressed
  activity,           \* the times the read in progress has collected
  window,             \* last_typing and typing_deadline
  down, touches,      \* contacts on the pad, frames not read
  roles,              \* RobustnessState.tracked
  shown, hidden,      \* contacts the arbiter has seen, has been spared
  arb, completed,     \* the arbiter's state, when the pending tap ended
  lastInput, accepted \* last_input_timestamp, last_input_sequence

untimedVars == <<held, keys, typed, pressed, activity, window, down, touches,
                 roles, shown, hidden, arb, completed, lastInput, accepted>>
typingVars  == <<now, untimedVars>>

KeyEvents  == [key : Keys, value : {"press", "release", "repeat"}, at : Nat]
Suppressed == {"TypingSuppressed", "Palm"}   \* Palm stands for EdgeSuppressed too
Roles      == Suppressed \cup {"Finger"}     \* and Finger for Thumb
Untracked  == [role |-> "none", since |-> 0]

(* rest: settings-quiescent; open: a contact is owned, nothing committed;  *)
(* committed; tapped: the left button held in the follow-up window; held:  *)
(* the button held by a drag or a tap-drag candidate.                      *)
ArbiterStates == {"rest", "open", "committed", "tapped", "held"}
Quiescent == arb = "rest"
Protected == arb \in {"committed", "tapped", "held"}

TypingInit ==
  /\ now = 1 /\ held = [b \in Boards |-> {}] /\ keys = [b \in Boards |-> <<>>]
  /\ typed = {} /\ pressed = [b \in Boards |-> {}] /\ activity = <<>>
  /\ window = [last |-> 0, deadline |-> 0]
  /\ down = {} /\ touches = <<>> /\ roles = [c \in Contacts |-> Untracked]
  /\ shown = {} /\ hidden = {} /\ arb = "rest" /\ completed = 0
  /\ lastInput = 0 /\ accepted = 0

-----------------------------------------------------------------------------
(* The devices.                                                            *)

KeyHappens(b, k, value) ==
  /\ now <= Horizon
  /\ IF value = "press" THEN k \notin held[b] ELSE k \in held[b]
  /\ held' = [held EXCEPT ![b] = CASE value = "press"   -> @ \cup {k}
                                   [] value = "release" -> @ \ {k}
                                   [] OTHER             -> @]
  /\ keys' = [keys EXCEPT ![b] = Append(@, [key |-> k, value |-> value, at |-> now])]
  /\ typed' = IF value = "press" /\ k \in Letters THEN typed \cup {now} ELSE typed
  /\ UNCHANGED <<now, pressed, activity, window, down, touches, roles, shown, hidden,
                 arb, completed, lastInput, accepted>>

(* One committed frame; after a resync every contact is reported as begun. *)
TouchHappens(next, resync) ==
  /\ now <= Horizon /\ (next \cup down # {} \/ resync) /\ down' = next
  /\ touches' = Append(touches,
       [at |-> now, discontinuity |-> resync,
        contacts |-> [c \in next \cup (IF resync THEN {} ELSE down) |->
                        IF c \notin next THEN "Ended"
                        ELSE IF c \in down /\ ~resync THEN "Active" ELSE "Began"]])
  /\ UNCHANGED <<now, held, keys, typed, pressed, activity, window, roles, shown, hidden, arb,
                 completed, lastInput, accepted>>

-----------------------------------------------------------------------------
(* KeyboardMonitor::read_activity.                                         *)

Triggers(key)   == key \in Letters

(* A press is activity once until its release; repeats are not.            *)
IsActivity(b, e) ==
  e.value = "press" /\ e.key \notin pressed[b] /\ Triggers(e.key)

(* One event of the read; it goes on until the queue is empty.             *)
ReadKey(b) ==
  /\ keys[b] # <<>> /\ keys' = [keys EXCEPT ![b] = Tail(@)]
  /\ LET e == Head(keys[b])
     IN  /\ pressed' = [pressed EXCEPT ![b] = CASE e.value = "press"   -> @ \cup {e.key}
                                                 [] e.value = "release" -> @ \ {e.key}
                                                 [] OTHER               -> @]
         /\ activity' = IF IsActivity(b, e) THEN Append(activity, e.at) ELSE activity
  /\ UNCHANGED <<now, held, typed, window, down, touches, roles, shown, hidden, arb,
                 completed, lastInput, accepted>>

(* note_typing_with_config: a key within the window makes it a long one.   *)
Noted(w, at) ==
  [last |-> at, deadline |-> at + (IF at <= w.deadline THEN Long ELSE Short)]

(* note_typing: nothing is armed in a protected interaction, by a disabled *)
(* policy, or on a bridge that has stopped.                                *)
Armed(w, at, enabled) == IF Protected \/ ~enabled THEN w ELSE Noted(w, at)

(* The times of a read that went through, one after the other.             *)
NoteActivity(enabled) ==
  /\ activity # <<>> /\ activity' = Tail(activity)
  /\ window' = Armed(window, Head(activity), enabled)
  /\ UNCHANGED <<now, held, keys, typed, pressed, down, touches, roles, shown, hidden,
                 arb, completed, lastInput, accepted>>

(* A read error: what this read had collected is lost with the monitor.    *)
LoseKeys(b) ==
  /\ keys' = [keys EXCEPT ![b] = <<>>] /\ activity' = <<>>
  /\ UNCHANGED <<now, held, typed, pressed, window, down, touches, roles, shown,
                 hidden, arb, completed, lastInput, accepted>>

-----------------------------------------------------------------------------
(* filter_frame and what the arbiter makes of the rest.                    *)

AnyOrder(at, enabled) ==   \* mutant: a later key counts
  enabled /\ at <= window.deadline
TypingActive(at, enabled) ==
  enabled /\ window.last <= at /\ at <= window.deadline

(* classify_new: typing, then where and how large the contact is.          *)
Classify(f, c, looks, enabled) ==
  [role |-> IF TypingActive(f.at, enabled) THEN "TypingSuppressed" ELSE looks[c],
   since |-> f.at]

Kept(f) == IF f.discontinuity THEN [c \in Contacts |-> Untracked] ELSE roles

RoleIn(f, c, looks, enabled) ==
  IF Kept(f)[c] # Untracked THEN Kept(f)[c] ELSE Classify(f, c, looks, enabled)

(* An untracked contact that ends is passed on.                            *)
Passes(f, c, looks, enabled) ==
  IF f.contacts[c] = "Ended" /\ Kept(f)[c] = Untracked THEN TRUE
  ELSE RoleIn(f, c, looks, enabled).role \notin Suppressed

Expired(at) == arb = "tapped" /\ at - completed > Gap

(* The states a frame may leave the arbiter in, from the state s, with the *)
(* contacts that are still down and were not filtered out.                 *)
Outcomes(s, live, discontinuity) ==
  IF live # {}
  THEN CASE s = "rest"      -> {"rest", "open"}
         [] s = "open"      -> {"rest", "open"} \cup (IF discontinuity THEN {} ELSE {"committed"})
         [] s = "committed" -> {"rest"} \cup (IF discontinuity THEN {} ELSE {"committed"})
         [] OTHER           -> {"rest"} \cup (IF discontinuity THEN {} ELSE {"held"})
  ELSE CASE s = "open"   -> {"rest"} \cup (IF discontinuity THEN {} ELSE {"tapped"})
         [] s = "held"   -> {"rest", "held"} \cup (IF discontinuity THEN {} ELSE {"tapped"})
         [] s = "tapped" -> IF discontinuity THEN {"rest"} ELSE {"tapped"}
         [] OTHER        -> {"rest"}

ProcessFrame(enabled) ==
  /\ touches # <<>> /\ touches' = Tail(touches)
  /\ LET f == Head(touches)  ids == DOMAIN f.contacts
         live == {c \in ids : f.contacts[c] # "Ended"}
     IN  \E looks \in [ids -> {"Palm", "Finger"}] :
           LET pass == {c \in ids : Passes(f, c, looks, enabled)}
               old(S) == IF f.discontinuity THEN {} ELSE S
           IN  /\ \A c \in ids : Kept(f)[c] # Untracked => looks[c] = "Finger"
               /\ roles' = [c \in Contacts |->
                              IF c \in live THEN RoleIn(f, c, looks, enabled)
                              ELSE IF c \in ids THEN Untracked ELSE Kept(f)[c]]
               /\ shown' = (old(shown) \cup pass) \cap live
               /\ hidden' = (old(hidden) \cup (ids \ pass)) \cap live
               /\ arb' \in Outcomes(IF Expired(f.at) THEN "rest" ELSE arb,
                                    pass \cap live, f.discontinuity)
               /\ completed' = IF arb' # "tapped" THEN 0
                               ELSE IF arb = "tapped" THEN completed ELSE f.at
               /\ lastInput' = f.at /\ accepted' = accepted + 1
  /\ UNCHANGED <<now, held, keys, typed, pressed, activity, window, down>>

(* Arbiter::tick: the only thing a timer does is to let the tap go.        *)
TickAt(at) ==
  /\ arb' = IF Expired(at) THEN "rest" ELSE arb
  /\ completed' = IF Expired(at) THEN 0 ELSE completed
  /\ UNCHANGED <<now, held, keys, typed, pressed, activity, window, down, touches,
                 roles, shown, hidden, lastInput, accepted>>

-----------------------------------------------------------------------------
(* A touch is only kept out for typing when a letter had been pressed by   *)
(* the time it began, and less than the long window before: not by a key   *)
(* that came later but was read first, a modifier or a key long past.      *)
TypingOnlyWhenArmed ==
  \A c \in Contacts : roles[c].role = "TypingSuppressed" =>
    \E t \in typed : t <= roles[c].since /\ roles[c].since <= t + Long

(* Between two discontinuities a touch is seen from its beginning to its   *)
(* end, or not at all.                                                     *)
WholeOrNothing == shown \cap hidden = {}
=============================================================================
