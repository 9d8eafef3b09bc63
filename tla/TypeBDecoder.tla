---------------------------- MODULE TypeBDecoder ----------------------------
(***************************************************************************)
(* The Type-B slot decoder of touchpad-linux (decode.rs): raw events in,   *)
(* one contact frame per SYN_REPORT out, and the recovery from             *)
(* SYN_DROPPED.  This module holds the decoder's state and one action per  *)
(* kind of event; TraceDecoder feeds it arbitrary recorded events and      *)
(* EvdevStream the kernel's queue.                                         *)
(*                                                                         *)
(* An event is [kind, code, val]; None stands for -1 in a tracking id and  *)
(* for an out-of-range slot selection.  Diagnostics, millimetres and the   *)
(* axes a contact may lack (pressure, lengths, orientation) are left out:  *)
(* Axes are the two a contact is held for.  The frame's sequence number is *)
(* counted modulo 2, which tells a frame from the one before it.           *)
(***************************************************************************)
EXTENDS Naturals

CONSTANTS
  Slots, FirstSlot,   \* the device's slots, and slot 0 among them
  Ids,                \* tracking ids (>= 0)
  Axes, Values,       \* position axes and what they may read
  Buttons,            \* physical buttons
  None

ASSUME DecoderAssumption ==
  /\ FirstSlot \in Slots
  /\ None \notin Slots \cup Ids \cup Values \cup Axes \cup Buttons

VARIABLES
  sync,        \* SyncState
  current,     \* current_slot, None while slot_selection_valid is false
  committed,   \* SlotState: tracking_id and positions
  published,   \* the slots whose SlotState.published is set
  pending,     \* PendingSlot: effective lifecycle, field bucket, what is over
  buttons,     \* the buttons down
  frame        \* the last frame given to the sink

decoder == <<sync, current, committed, published, pending, buttons, frame>>

SyncStates == {"Normal", "DroppedAwaitingBoundary", "Recovering", "Degraded"}
Position == [Axes -> Values \cup {None}]
Unknown  == [a \in Axes |-> None]
NoContact == [id |-> None, pos |-> Unknown]
Contacts  == [id : Ids \cup {None}, pos : Position]

Complete(pos) == \A a \in Axes : pos[a] # None

(* PendingLifecycle: Active { fresh: false } is "carried", Active { fresh:  *)
(* true } is "fresh".  over holds ended_committed and began_then_ended.     *)
Lives == {"empty", "carried", "fresh", "ended"}
Pendings == [life : Lives, id : Ids \cup {None}, pos : Position,
             over : SUBSET {"committed", "begun"}]
Live(p) == p.life \in {"carried", "fresh"}
CycleEmpty(c) ==   \* mutant: a carried contact is forgotten
  [life |-> "empty", id |-> c.id, pos |-> Unknown, over |-> {}]
Cycle(c) == [life |-> IF c.id = None THEN "empty" ELSE "carried",
             id |-> c.id, pos |-> Unknown, over |-> {}]

Shown(state, c) == [state |-> state, id |-> c.id, pos |-> c.pos]
Nobody == Shown("none", NoContact)
States == {"none", "Began", "Active", "Ended"}
Frames == [sequence : {0, 1}, kind : {"normal", "discontinuity"},
           contacts : [Slots -> [state : States, id : Ids \cup {None},
                                 pos : Position]],
           buttons : SUBSET Buttons]

DecoderInit ==
  /\ sync = "Normal" /\ current = FirstSlot
  /\ committed = [s \in Slots |-> NoContact] /\ published = {}
  /\ pending = [s \in Slots |-> Cycle(NoContact)]
  /\ buttons = {}
  /\ frame = [sequence |-> 0, kind |-> "normal",
              contacts |-> [s \in Slots |-> Nobody], buttons |-> {}]

-----------------------------------------------------------------------------
(* on_abs and on_key: events of one packet, in Normal only.                 *)

SelectPrevious(e) ==   \* mutant: an invalid selection keeps the old slot
  /\ current' = IF e.val = None THEN current ELSE e.val
  /\ UNCHANGED <<committed, published, pending, buttons, frame>>

(* ABS_MT_SLOT: an out-of-range selection selects nothing.                  *)
Select(e) ==
  /\ current' = e.val
  /\ UNCHANGED <<committed, published, pending, buttons, frame>>

TrackedKeepsFields(p, id) ==   \* mutant: a replacement inherits the fields
  CASE id # None /\ Live(p) /\ p.id = id -> p
    [] id # None -> [p EXCEPT !.life = "fresh", !.id = id]
    [] id = None /\ p.life = "carried" ->
         [p EXCEPT !.life = "ended", !.id = None, !.over = @ \cup {"committed"}]
    [] id = None /\ p.life = "fresh" ->
         [life |-> "ended", id |-> None, pos |-> Unknown,
          over |-> p.over \cup {"begun"}]
    [] OTHER -> p

(* ABS_MT_TRACKING_ID, applied when it arrives: the same id again is        *)
(* nothing, another id starts a clean lifecycle, -1 ends the live one.      *)
Tracked(p, id) ==
  CASE id # None /\ Live(p) /\ p.id = id -> p
    [] id # None /\ ~(Live(p) /\ p.id = id) ->
         [p EXCEPT !.life = "fresh", !.id = id, !.pos = Unknown]
    [] id = None /\ p.life = "carried" ->
         [p EXCEPT !.life = "ended", !.id = None, !.over = @ \cup {"committed"}]
    [] id = None /\ p.life = "fresh" ->
         [life |-> "ended", id |-> None, pos |-> Unknown,
          over |-> p.over \cup {"begun"}]
    [] OTHER -> p

Track(e) ==
  /\ pending' = [s \in Slots |-> IF s = current THEN Tracked(pending[s], e.val)
                                 ELSE pending[s]]
  /\ UNCHANGED <<current, committed, published, buttons, frame>>

(* A position belongs to the lifecycle live when it arrives, or to nobody.  *)
WithField(p, e) == IF Live(p) THEN [p EXCEPT !.pos[e.code] = e.val] ELSE p

Field(e) ==
  /\ pending' = [s \in Slots |-> IF s = current THEN WithField(pending[s], e)
                                 ELSE pending[s]]
  /\ UNCHANGED <<current, committed, published, buttons, frame>>

Key(e) ==
  /\ buttons' = IF e.kind = "press" THEN buttons \cup {e.code}
                ELSE buttons \ {e.code}
  /\ UNCHANGED <<current, committed, published, pending, frame>>

-----------------------------------------------------------------------------
(* commit: SYN_REPORT in Normal merges the packet and publishes a frame.    *)

Overlay(base, new) == [a \in Axes |-> IF new[a] = None THEN base[a] ELSE new[a]]
Updated(c, p) == [c EXCEPT !.pos = Overlay(@, p.pos)]

Merged(s) ==
  LET p == pending[s]
  IN  CASE p.life = "fresh"   -> [id |-> p.id, pos |-> p.pos]
        [] p.life = "carried" -> Updated(committed[s], p)
        [] p.life \in {"empty", "ended"} /\ p.over # {} -> NoContact
        [] OTHER -> committed[s]

Held(c) == c.id # None /\ Complete(c.pos)

(* committed.reset() forgets that the slot was published.                   *)
Known(s) == s \in published /\ pending[s].life # "fresh"

(* Only a contact the consumer was told about is reported as ended.         *)
Ends(s) == "committed" \in pending[s].over /\ s \in published

Entry(s) ==
  LET c == Merged(s)
  IN  CASE Held(c) /\ Known(s)  -> Shown("Active", c)
        [] Held(c) /\ ~Known(s) -> Shown("Began", c)
        [] c.id = None /\ Ends(s) ->
             Shown("Ended", Updated(committed[s], pending[s]))
        [] OTHER -> Nobody

Publish(kind, contacts, pressed) ==
  frame' = [sequence |-> 1 - frame.sequence, kind |-> kind,
            contacts |-> contacts, buttons |-> pressed]

Commit ==
  /\ committed' = [s \in Slots |-> Merged(s)]
  /\ published' = {s \in Slots : Held(Merged(s))}
  /\ pending'   = [s \in Slots |-> Cycle(Merged(s))]
  /\ Publish("normal", [s \in Slots |-> Entry(s)], buttons)
  /\ UNCHANGED <<current, buttons>>

-----------------------------------------------------------------------------
(* feed: what each event does in the state the decoder is in.               *)

(* SYN_DROPPED, in Normal or again before the boundary.                     *)
Drop(e) ==
  /\ e.kind = "dropped" /\ sync \in {"Normal", "DroppedAwaitingBoundary"}
  /\ sync' = "DroppedAwaitingBoundary"
  /\ UNCHANGED <<current, committed, published, pending, buttons, frame>>

(* Everything up to the next boundary is ignored after a drop; so is any    *)
(* code the decoder does not know, and an id below -1.                      *)
Ignore(e) ==
  /\ \/ sync = "DroppedAwaitingBoundary" /\ e.kind \notin {"sync", "dropped"}
     \/ sync = "Normal" /\ e.kind = "other"
  /\ UNCHANGED <<sync, current, committed, published, pending, buttons, frame>>

Apply(e) ==
  /\ sync = "Normal" /\ UNCHANGED sync
  /\ \/ e.kind = "slot" /\ Select(e)
     \/ e.kind = "id" /\ Track(e)
     \/ e.kind = "axis" /\ Field(e)
     \/ e.kind \in {"press", "release"} /\ Key(e)
     \/ e.kind = "sync" /\ Commit

(* The boundary after a drop: the snapshot is queried inside this call.     *)
Recover(e) ==
  /\ sync = "DroppedAwaitingBoundary" /\ e.kind = "sync"
  /\ sync' = "Recovering"
  /\ UNCHANGED <<current, committed, published, pending, buttons, frame>>

Feed(e) == Drop(e) \/ Ignore(e) \/ Apply(e) \/ Recover(e)

HalfPacketKept(contacts) == pending   \* mutant: the cut packet survives
Renewed(contacts) == [s \in Slots |-> Cycle(contacts[s])]

(* apply_snapshot and publish_discontinuity_frame: a valid snapshot         *)
(* replaces everything, slot 0 is selected, every contact begins anew.  The *)
(* just_resynced it leaves behind is read where a batch is fed.             *)
Install(contacts, pressed) ==
  /\ sync = "Recovering"
  /\ \A s \in Slots : contacts[s].id # None => Complete(contacts[s].pos)
  /\ sync' = "Normal" /\ current' = FirstSlot
  /\ committed' = contacts
  /\ published' = {s \in Slots : contacts[s].id # None}
  /\ pending' = Renewed(contacts)
  /\ buttons' = pressed
  /\ Publish("discontinuity",
             [s \in Slots |-> IF contacts[s].id = None THEN Nobody
                              ELSE Shown("Began", contacts[s])], pressed)

(* The query failed, no source is configured, or the snapshot is invalid.   *)
Degrade ==
  /\ sync = "Recovering" /\ sync' = "Degraded"
  /\ UNCHANGED <<current, committed, published, pending, buttons, frame>>
=============================================================================
