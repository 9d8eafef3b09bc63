---------------------------- MODULE TraceDecoder ----------------------------
(***************************************************************************)
(* The decoder fed with a recorded trace (replay.rs), which may hold any   *)
(* events in any order: selections out of range, fields of no contact,     *)
(* repeated, replaced and unmatched tracking ids, drops followed by any    *)
(* snapshot or by none.                                                    *)
(*                                                                         *)
(* said is the reference: what the events read so far, taken one by one by *)
(* the Type-B protocol, say of every slot's contact, with the slot they    *)
(* selected in at.  It knows of no packets, commits or inherited fields.   *)
(***************************************************************************)
EXTENDS TypeBDecoder

VARIABLES at, said

vars == <<decoder, at, said>>

Event(kind, code, val) == [kind |-> kind, code |-> code, val |-> val]
SlotEvents == {Event("slot", None, s) : s \in Slots \cup {None}}
IdEvents   == {Event("id", None, i) : i \in Ids \cup {None}}
AxisEvents == {Event("axis", a, v) : a \in Axes, v \in Values}
KeyEvents  == {Event(k, b, None) : k \in {"press", "release"}, b \in Buttons}
SynEvents  == {Event(k, None, None) : k \in {"sync", "dropped", "other"}}
Events == SlotEvents \cup IdEvents \cup AxisEvents \cup KeyEvents
            \cup SynEvents

Init == DecoderInit /\ at = FirstSlot /\ said = [s \in Slots |-> NoContact]

(* What an event says of the contact in the selected slot.                  *)
Heard(c, e) ==
  CASE e.kind = "id" /\ e.val # c.id -> [id |-> e.val, pos |-> Unknown]
    [] e.kind = "axis" /\ c.id # None -> [c EXCEPT !.pos[e.code] = e.val]
    [] OTHER -> c

Hear(e) ==
  IF sync # "Normal" THEN UNCHANGED <<at, said>>
  ELSE /\ at' = IF e.kind = "slot" THEN e.val ELSE at
       /\ said' = [s \in Slots |-> IF s = at THEN Heard(said[s], e) ELSE said[s]]

Snapshots ==
  {c \in [Slots -> Contacts] :
     \A s \in Slots : IF c[s].id = None THEN c[s] = NoContact
                      ELSE Complete(c[s].pos)}

FeedOne == \E e \in Events : Feed(e) /\ Hear(e)
Resynchronize ==
  \E contacts \in Snapshots, pressed \in SUBSET Buttons :
    Install(contacts, pressed) /\ said' = contacts /\ at' = FirstSlot
FailRecovery == Degrade /\ UNCHANGED <<at, said>>

Next == FeedOne \/ Resynchronize \/ FailRecovery

Spec == Init /\ [][Next]_vars

-----------------------------------------------------------------------------

TypeOK ==
  /\ sync \in SyncStates /\ current \in Slots \cup {None}
  /\ committed \in [Slots -> Contacts] /\ published \subseteq Slots
  /\ pending \in [Slots -> Pendings]
  /\ buttons \subseteq Buttons /\ frame \in Frames
  /\ at \in Slots \cup {None} /\ said \in [Slots -> Contacts]

(* The contact the decoder would commit in slot s if the packet ended now.  *)
Effective(s) ==
  LET p == pending[s]
  IN  CASE p.life = "fresh"   -> [id |-> p.id, pos |-> p.pos]
        [] p.life = "carried" -> Updated(committed[s], p)
        [] p.life \in {"empty", "ended"} -> NoContact

(* While the stream is intact, the decoder's half-merged packet means       *)
(* exactly what the events said: no field is inherited by a replacement,    *)
(* lost, or given to a slot that was not selected.                          *)
InStep ==
  sync = "Normal" => at = current /\ \A s \in Slots : Effective(s) = said[s]

(* A frame shows exactly the contacts the events said are down with both    *)
(* coordinates known, each with the coordinates said of that very contact.  *)
FramesShowTheStream ==
  [][frame' # frame =>
       \A s \in Slots :
         LET k == frame'.contacts[s]
         IN  /\ k.state \in {"Began", "Active"} <=> Held(said'[s])
             /\ k.state \in {"Began", "Active"} =>
                  k.id = said'[s].id /\ k.pos = said'[s].pos]_vars

(* A consumer may track contacts frame by frame: an Active or Ended contact *)
(* was shown under the same id in the frame before, and after a loss of     *)
(* continuity every contact begins again.                                   *)
ContactOrder ==
  [][frame' # frame =>
       \A s \in Slots :
         frame'.contacts[s].state \in {"Active", "Ended"} =>
           /\ frame'.kind = "normal"
           /\ frame.contacts[s].state \in {"Began", "Active"}
           /\ frame.contacts[s].id = frame'.contacts[s].id]_vars

(* The consumer's view: each frame alone, and each after the one before.    *)
FramesAreFaithful == FramesShowTheStream /\ ContactOrder
=============================================================================
