---------------------------- MODULE DecoderProofs ---------------------------
(***************************************************************************)
(* Proofs about the decoder: on arbitrary traces, when a file is replayed  *)
(* into it, and behind the kernel's queue - for every set of slots, ids,   *)
(* axes, values, buttons and time stamps, every sequence of events, every  *)
(* file and either caller, every queue and batch size and every length of  *)
(* the hardware's doings.  What is proved of traces and files cites none   *)
(* of EvdevStream's assumptions.                                           *)
(***************************************************************************)
EXTENDS Replay, EvdevStream, SequenceTheorems, FiniteSetTheorems, WellFoundedInduction, TLAPS

-----------------------------------------------------------------------------
(* The decoder.  ShownBooks ties the half-merged packet to the committed   *)
(* state and to the last frame, slot by slot; with it InStep, that the     *)
(* half-merged packet means what the events said, is inductive.  A frame   *)
(* is Merged of every slot, which is Effective, so it shows what was said; *)
(* and it calls a contact Active or Ended only if the slot was published,  *)
(* which ShownBooks says the last frame shows.                             *)

(* How the committed state and the last frame hang together: the slots     *)
(* marked published are those the last frame shows, and a carried          *)
(* lifecycle is the committed one.                                         *)
LifeBooks(s) ==
  /\ pending[s].life = "carried" =>
       /\ pending[s].id = committed[s].id /\ committed[s].id # None
       /\ pending[s].over = {}
  /\ pending[s].life = "fresh" => pending[s].id # None
  /\ pending[s].life = "ended" => pending[s].id = None /\ pending[s].over # {}
  /\ pending[s].life = "empty" =>
       pending[s].id = None /\ pending[s].over = {} /\ committed[s] = NoContact

FrameBooks(s) ==
  /\ s \in published <=> Held(committed[s])
  /\ s \in published <=> frame.contacts[s].state \in {"Began", "Active"}
  /\ s \in published => frame.contacts[s].id = committed[s].id

ShownBooks == \A s \in Slots : LifeBooks(s) /\ FrameBooks(s)

IInv == TypeOK /\ ShownBooks /\ InStep

-----------------------------------------------------------------------------
(* Types of what the actions build.                                        *)

(* A position overlaid with another is a position. *)
LEMMA OverlayType ==
  ASSUME NEW p \in Position, NEW q \in Position
  PROVE  Overlay(p, q) \in Position
BY DEF Overlay, Position

(* The unknown position is a position, and nobody's contact a contact. *)
LEMMA UnknownType == Unknown \in Position /\ NoContact \in Contacts
BY DEF Unknown, Position, NoContact, Contacts

(* The decoder's own variables, wherever its events come from. *)
DecoderTyped ==
  /\ sync \in SyncStates /\ current \in Slots \cup {None}
  /\ committed \in [Slots -> Contacts] /\ published \subseteq Slots
  /\ pending \in [Slots -> Pendings]
  /\ buttons \subseteq Buttons /\ frame \in Frames

LEMMA TypedDecoder ==
  TypeOK <=> DecoderTyped /\ at \in Slots \cup {None} /\ said \in [Slots -> Contacts]
BY DEF TypeOK, DecoderTyped

(* An event that can be fed carries a known slot, id, axis or button. *)
Readable(e) ==
  /\ e.kind = "slot" => e.val \in Slots \cup {None}
  /\ e.kind = "id" => e.val \in Ids \cup {None}
  /\ e.kind = "axis" => e.code \in Axes /\ e.val \in Values
  /\ e.kind \in {"press", "release"} => e.code \in Buttons

LEMMA EventType ==
  ASSUME NEW e \in Events
  PROVE  Readable(e)
BY DEF Events, SlotEvents, IdEvents, AxisEvents, KeyEvents, SynEvents, Event, Readable

(* What on_abs makes of a pending slot is a pending slot. *)
LEMMA TrackedType ==
  ASSUME NEW p \in Pendings, NEW id \in Ids \cup {None}
  PROVE  Tracked(p, id) \in Pendings
BY UnknownType DEF Tracked, Pendings, Live, Lives

LEMMA FieldType ==
  ASSUME NEW p \in Pendings, NEW e, e.code \in Axes, e.val \in Values
  PROVE  WithField(p, e) \in Pendings
BY DEF WithField, Pendings, Live, Lives, Position

(* The cycle after a commit starts from a pending slot. *)
LEMMA CycleType ==
  ASSUME NEW c \in Contacts
  PROVE  Cycle(c) \in Pendings
BY UnknownType DEF Cycle, Pendings, Contacts, Lives

(* What a commit merges is a contact. *)
LEMMA MergedType ==
  ASSUME DecoderTyped, NEW s \in Slots
  PROVE  /\ Merged(s) \in Contacts
         /\ Updated(committed[s], pending[s]) \in Contacts
<1>1. committed[s] \in Contacts /\ pending[s] \in Pendings
  BY DEF DecoderTyped
<1>2. Updated(committed[s], pending[s]) \in Contacts
  BY <1>1, OverlayType DEF Updated, Contacts, Pendings
<1>3. [id |-> pending[s].id, pos |-> pending[s].pos] \in Contacts
  BY <1>1 DEF Contacts, Pendings
<1>. QED BY <1>1, <1>2, <1>3, UnknownType DEF Merged, Lives, Pendings

(* The entry of a slot in a frame is an entry. *)
LEMMA EntryType ==
  ASSUME DecoderTyped, NEW s \in Slots
  PROVE  Entry(s) \in [state : States, id : Ids \cup {None}, pos : Position]
BY MergedType, UnknownType
DEF Entry, Shown, Nobody, States, Contacts, NoContact

(* What the reference makes of an event is a contact. *)
LEMMA HeardType ==
  ASSUME NEW c \in Contacts, NEW e \in Events
  PROVE  Heard(c, e) \in Contacts
BY EventType, UnknownType DEF Readable, Heard, Contacts, Position

-----------------------------------------------------------------------------
(* Type correctness. *)

LEMMA InitType == Init => TypeOK
BY DecoderAssumption, UnknownType, CycleType
DEF Init, DecoderInit, TypeOK, SyncStates, Frames, Nobody, Shown, States,
    NoContact, Contacts

LEMMA CommitType ==
  ASSUME DecoderTyped, Commit
  PROVE  /\ committed' \in [Slots -> Contacts] /\ published' \subseteq Slots
         /\ pending' \in [Slots -> Pendings] /\ frame' \in Frames
         /\ buttons' \subseteq Buttons /\ current' \in Slots \cup {None}
<1>1. committed' \in [Slots -> Contacts] /\ published' \subseteq Slots
  BY MergedType DEF Commit
<1>2. pending' \in [Slots -> Pendings]
  BY MergedType, CycleType DEF Commit
<1>3. [s \in Slots |-> Entry(s)]
        \in [Slots -> [state : States, id : Ids \cup {None}, pos : Position]]
  BY EntryType
<1>4. frame.sequence \in {0, 1} /\ buttons \subseteq Buttons
  BY DEF DecoderTyped, Frames
<1>5. frame' \in Frames
  BY <1>3, <1>4 DEF Commit, Publish, Frames
<1>. QED BY <1>1, <1>2, <1>5 DEF Commit, DecoderTyped

(* Feeding an event keeps the decoder's types. *)
LEMMA FeedType ==
  ASSUME DecoderTyped, NEW e, Readable(e), Feed(e)
  PROVE  DecoderTyped'
<1>1. CASE Drop(e)
  BY <1>1 DEF Drop, DecoderTyped, SyncStates
<1>2. CASE Ignore(e)
  BY <1>2 DEF Ignore, DecoderTyped
<1>3. CASE Recover(e)
  BY <1>3 DEF Recover, DecoderTyped, SyncStates
<1>4. CASE Apply(e)
  <2>1. CASE e.kind = "slot" /\ Select(e)
    BY <1>4, <2>1 DEF Readable, Apply, Select, DecoderTyped
  <2>2. CASE e.kind = "id" /\ Track(e)
    <3>1. pending' \in [Slots -> Pendings]
      BY <2>2, TrackedType DEF Readable, Track, DecoderTyped
    <3>. QED BY <1>4, <2>2, <3>1 DEF Apply, Track, DecoderTyped
  <2>3. CASE e.kind = "axis" /\ Field(e)
    <3>1. pending' \in [Slots -> Pendings]
      BY <2>3, FieldType DEF Readable, Field, DecoderTyped
    <3>. QED BY <1>4, <2>3, <3>1 DEF Apply, Field, DecoderTyped
  <2>4. CASE e.kind \in {"press", "release"} /\ Key(e)
    <3>1. buttons' \subseteq Buttons
      BY <2>4 DEF Readable, Key, DecoderTyped
    <3>. QED BY <1>4, <2>4, <3>1 DEF Apply, Key, DecoderTyped
  <2>5. CASE e.kind = "sync" /\ Commit
    BY <1>4, <2>5, CommitType DEF Apply, DecoderTyped
  <2>. QED BY <1>4, <2>1, <2>2, <2>3, <2>4, <2>5 DEF Apply
<1>. QED BY <1>1, <1>2, <1>3, <1>4 DEF Feed

(* So does installing a snapshot. *)
LEMMA InstallType ==
  ASSUME DecoderTyped, NEW contacts \in Snapshots, NEW held \in SUBSET Buttons,
         Install(contacts, held)
  PROVE  DecoderTyped' /\ contacts \in [Slots -> Contacts]
<1>1. contacts \in [Slots -> Contacts]
  BY DEF Snapshots
<1>2. pending' \in [Slots -> Pendings]
  BY <1>1, CycleType DEF Install, Renewed
<1>3. [s \in Slots |-> IF contacts[s].id = None THEN Nobody
                       ELSE Shown("Began", contacts[s])]
        \in [Slots -> [state : States, id : Ids \cup {None}, pos : Position]]
  BY <1>1, UnknownType DEF Nobody, Shown, States, Contacts, NoContact
<1>4. frame.sequence \in {0, 1}
  BY DEF DecoderTyped, Frames
<1>5. frame' \in Frames
  BY <1>3, <1>4 DEF Install, Renewed, Publish, Frames
<1>. QED BY <1>1, <1>2, <1>5, DecoderAssumption
         DEF Install, Renewed, DecoderTyped, SyncStates

LEMMA TypeStep == TypeOK /\ [Next]_vars => TypeOK'
<1>. SUFFICES ASSUME TypeOK, [Next]_vars PROVE TypeOK'
  OBVIOUS
<1>0. DecoderTyped
  BY TypedDecoder
<1>1. ASSUME NEW e \in Events, Feed(e), Hear(e) PROVE TypeOK'
  <2>1. at' \in Slots \cup {None} /\ said' \in [Slots -> Contacts]
    <3>1. CASE sync # "Normal"
      BY <1>1, <3>1 DEF Hear, TypeOK
    <3>2. CASE sync = "Normal"
      <4>1. at' \in Slots \cup {None}
        BY <1>1, <3>2, EventType DEF Readable, Hear, TypeOK
      <4>2. said' \in [Slots -> Contacts]
        BY <1>1, <3>2, HeardType DEF Hear, TypeOK
      <4>. QED BY <4>1, <4>2
    <3>. QED BY <3>1, <3>2
  <2>2. DecoderTyped'
    BY <1>0, <1>1, EventType, FeedType
  <2>. QED BY <2>1, <2>2 DEF TypeOK, DecoderTyped
<1>2. ASSUME NEW contacts \in Snapshots, NEW held \in SUBSET Buttons,
             Install(contacts, held), said' = contacts, at' = FirstSlot
      PROVE  TypeOK'
  <2>1. DecoderTyped' /\ contacts \in [Slots -> Contacts]
    BY <1>0, <1>2, InstallType
  <2>. QED BY <1>2, <2>1, DecoderAssumption DEF TypeOK, DecoderTyped
<1>3. CASE FailRecovery
  BY <1>3 DEF FailRecovery, Degrade, TypeOK, SyncStates
<1>4. CASE UNCHANGED vars
  BY <1>4 DEF vars, decoder, TypeOK
<1>. QED BY <1>1, <1>2, <1>3, <1>4 DEF Next, FeedOne, Resynchronize

-----------------------------------------------------------------------------
(* What one event does to one slot's packet. *)

(* Tracking ids keep the packet's books. *)
LEMMA TrackedBooks ==
  ASSUME DecoderTyped, NEW s \in Slots, LifeBooks(s), NEW id \in Ids \cup {None},
         NEW q, q = Tracked(pending[s], id)
  PROVE  /\ q.life = "carried" => q.id = committed[s].id
                                  /\ committed[s].id # None /\ q.over = {}
         /\ q.life = "fresh" => q.id # None
         /\ q.life = "ended" => q.id = None /\ q.over # {}
         /\ q.life = "empty" => q.id = None /\ q.over = {}
                                /\ committed[s] = NoContact
<1>1. pending[s] \in Pendings
  BY DEF DecoderTyped
<1>. QED BY <1>1 DEF Tracked, LifeBooks, Pendings, Live, Lives

(* The contact a packet would commit, of any pending slot. *)
Meaning(c, p) ==
  CASE p.life = "fresh"   -> [id |-> p.id, pos |-> p.pos]
    [] p.life = "carried" -> Updated(c, p)
    [] p.life \in {"empty", "ended"} -> NoContact

(* A tracking id means to the packet what the reference hears. *)
LEMMA TrackedMeaning ==
  ASSUME NEW c \in Contacts, NEW p \in Pendings, NEW e, e.kind = "id",
         e.val \in Ids \cup {None},
         p.life = "carried" => p.id = c.id,
         p.life = "fresh" => p.id # None,
         p.life = "carried" => c.id # None
  PROVE  Meaning(c, Tracked(p, e.val)) = Heard(Meaning(c, p), e)
<1>1. CASE p.life = "carried"
  <2>1. Meaning(c, p) = Updated(c, p) /\ Meaning(c, p).id = c.id
    BY <1>1 DEF Meaning, Updated, Contacts
  <2>2. CASE e.val = c.id
    BY <1>1, <2>1, <2>2 DEF Tracked, Heard, Live
  <2>3. CASE e.val # c.id /\ e.val = None
    <3>1. Tracked(p, e.val).life = "ended"
      BY <1>1, <2>3 DEF Tracked, Live, Pendings
    <3>2. Heard(Meaning(c, p), e) = NoContact
      BY <2>1, <2>3 DEF Heard, NoContact
    <3>. QED BY <3>1, <3>2 DEF Meaning
  <2>4. CASE e.val # c.id /\ e.val # None
    <3>1. /\ Tracked(p, e.val).life = "fresh" /\ Tracked(p, e.val).id = e.val
          /\ Tracked(p, e.val).pos = Unknown
      BY <1>1, <2>4 DEF Tracked, Live, Pendings
    <3>2. Heard(Meaning(c, p), e) = [id |-> e.val, pos |-> Unknown]
      BY <2>1, <2>4 DEF Heard
    <3>. QED BY <3>1, <3>2 DEF Meaning
  <2>. QED BY <2>2, <2>3, <2>4
<1>2. CASE p.life = "fresh"
  <2>1. Meaning(c, p) = [id |-> p.id, pos |-> p.pos]
    BY <1>2 DEF Meaning
  <2>2. CASE e.val = p.id
    BY <1>2, <2>1, <2>2 DEF Tracked, Heard, Live
  <2>3. CASE e.val # p.id /\ e.val = None
    <3>1. Tracked(p, e.val).life = "ended"
      BY <1>2, <2>3 DEF Tracked, Live, Pendings
    <3>2. Heard(Meaning(c, p), e) = NoContact
      BY <2>1, <2>3 DEF Heard, NoContact
    <3>. QED BY <3>1, <3>2 DEF Meaning
  <2>4. CASE e.val # p.id /\ e.val # None
    <3>1. /\ Tracked(p, e.val).life = "fresh" /\ Tracked(p, e.val).id = e.val
          /\ Tracked(p, e.val).pos = Unknown
      BY <1>2, <2>4 DEF Tracked, Live, Pendings
    <3>2. Heard(Meaning(c, p), e) = [id |-> e.val, pos |-> Unknown]
      BY <2>1, <2>4 DEF Heard
    <3>. QED BY <3>1, <3>2 DEF Meaning
  <2>. QED BY <2>2, <2>3, <2>4
<1>3. CASE p.life \in {"empty", "ended"}
  <2>1. Meaning(c, p) = NoContact
    BY <1>3 DEF Meaning
  <2>2. CASE e.val = None
    BY <1>3, <2>1, <2>2 DEF Tracked, Heard, Live, NoContact
  <2>3. CASE e.val # None
    <3>1. /\ Tracked(p, e.val).life = "fresh" /\ Tracked(p, e.val).id = e.val
          /\ Tracked(p, e.val).pos = Unknown
      BY <1>3, <2>3 DEF Tracked, Live, Pendings
    <3>2. Heard(Meaning(c, p), e) = [id |-> e.val, pos |-> Unknown]
      BY <2>1, <2>3 DEF Heard, NoContact
    <3>. QED BY <3>1, <3>2 DEF Meaning
  <2>. QED BY <2>2, <2>3
<1>. QED BY <1>1, <1>2, <1>3 DEF Pendings, Lives

(* So does a position. *)
LEMMA FieldMeaning ==
  ASSUME NEW c \in Contacts, NEW p \in Pendings, NEW e, e.kind = "axis",
         e.code \in Axes, e.val \in Values,
         p.life = "fresh" => p.id # None,
         p.life = "carried" => c.id # None
  PROVE  Meaning(c, WithField(p, e)) = Heard(Meaning(c, p), e)
<1>0. e.val # None
  BY DecoderAssumption
<1>1. CASE p.life = "carried"
  <2>1. Meaning(c, p) = [id |-> c.id, pos |-> Overlay(c.pos, p.pos)]
    BY <1>1 DEF Meaning, Updated, Contacts
  <2>2. Meaning(c, WithField(p, e)) =
          [id |-> c.id, pos |-> Overlay(c.pos, [p.pos EXCEPT ![e.code] = e.val])]
    BY <1>1 DEF Meaning, Updated, Contacts, WithField, Live, Pendings
  <2>3. Overlay(c.pos, [p.pos EXCEPT ![e.code] = e.val])
          = [Overlay(c.pos, p.pos) EXCEPT ![e.code] = e.val]
    BY <1>0 DEF Overlay, Pendings, Position
  <2>4. Heard(Meaning(c, p), e)
          = [id |-> c.id, pos |-> [Overlay(c.pos, p.pos) EXCEPT ![e.code] = e.val]]
    BY <1>1, <2>1 DEF Heard
  <2>. QED BY <2>2, <2>3, <2>4
<1>2. CASE p.life = "fresh"
  BY <1>2 DEF Meaning, WithField, Heard, Live, Pendings
<1>3. CASE p.life \in {"empty", "ended"}
  BY <1>3 DEF Meaning, WithField, Heard, Live, NoContact
<1>. QED BY <1>1, <1>2, <1>3 DEF Pendings, Lives

(* A commit merges into each slot what its packet means. *)
LEMMA MergedIsEffective ==
  ASSUME DecoderTyped, NEW s \in Slots, LifeBooks(s)
  PROVE  Merged(s) = Effective(s)
BY DEF DecoderTyped, Merged, Effective, LifeBooks, Pendings, Lives

(* A new cycle means the contact it starts from. *)
LEMMA CycleMeaning ==
  ASSUME NEW c \in Contacts, c.id = None => c = NoContact
  PROVE  Meaning(c, Cycle(c)) = c
<1>1. CASE c.id = None
  BY <1>1 DEF Meaning, Cycle
<1>2. CASE c.id # None
  <2>1. Overlay(c.pos, Unknown) = c.pos
    BY DEF Overlay, Unknown, Contacts, Position
  <2>. QED BY <1>2, <2>1 DEF Meaning, Cycle, Updated, Contacts
<1>. QED BY <1>1, <1>2

(* An ended or empty packet merges to nobody. *)
LEMMA MergedNobody ==
  ASSUME DecoderTyped, NEW s \in Slots, LifeBooks(s), Merged(s).id = None
  PROVE  Merged(s) = NoContact
BY DEF DecoderTyped, Merged, LifeBooks, Pendings, Lives, Updated, Contacts

-----------------------------------------------------------------------------
(* The books are inductive. *)

LEMMA InitBooks == Init => ShownBooks /\ InStep
BY UnknownType
DEF Init, DecoderInit, ShownBooks, LifeBooks, FrameBooks, InStep, Effective,
    Cycle, NoContact, Held, Nobody, Shown

LEMMA CommitBooks ==
  ASSUME DecoderTyped, ShownBooks, Commit
  PROVE  ShownBooks'
<1>. SUFFICES ASSUME NEW s \in Slots PROVE LifeBooks(s)' /\ FrameBooks(s)'
  BY DEF ShownBooks
<1>0. LifeBooks(s) /\ Merged(s) \in Contacts
  BY MergedType DEF ShownBooks
<1>1. /\ committed'[s] = Merged(s) /\ pending'[s] = Cycle(Merged(s))
      /\ frame'.contacts[s] = Entry(s) /\ (s \in published' <=> Held(Merged(s)))
  BY DEF Commit, Publish
<1>2. LifeBooks(s)'
  BY <1>0, <1>1, MergedNobody DEF LifeBooks, Cycle
<1>3. Held(Merged(s)) => Entry(s).state \in {"Began", "Active"}
                         /\ Entry(s).id = Merged(s).id
  BY DEF Entry, Shown, Held, Known, Complete
<1>4. ~Held(Merged(s)) => Entry(s).state \in {"Ended", "none"}
  BY DEF Entry, Shown, Nobody, Held, Ends, Complete
<1>5. FrameBooks(s)'
  BY <1>1, <1>3, <1>4 DEF FrameBooks, Held
<1>. QED BY <1>2, <1>5

LEMMA InstallBooks ==
  ASSUME NEW contacts \in Snapshots, NEW held, Install(contacts, held)
  PROVE  ShownBooks'
<1>. SUFFICES ASSUME NEW s \in Slots PROVE LifeBooks(s)' /\ FrameBooks(s)'
  BY DEF ShownBooks
<1>1. contacts[s] \in Contacts /\ (contacts[s].id = None => contacts[s] = NoContact)
      /\ (contacts[s].id # None => Complete(contacts[s].pos))
  BY DEF Snapshots
<1>2. /\ committed'[s] = contacts[s] /\ pending'[s] = Cycle(contacts[s])
      /\ (s \in published' <=> contacts[s].id # None)
      /\ frame'.contacts[s] = IF contacts[s].id = None THEN Nobody
                              ELSE Shown("Began", contacts[s])
  BY DEF Install, Renewed, Publish
<1>3. LifeBooks(s)'
  BY <1>1, <1>2 DEF LifeBooks, Cycle
<1>4. FrameBooks(s)'
  BY <1>1, <1>2 DEF FrameBooks, Held, Nobody, Shown
<1>. QED BY <1>3, <1>4

LEMMA FeedBooks ==
  ASSUME DecoderTyped, ShownBooks, NEW e, Readable(e), Feed(e)
  PROVE  ShownBooks'
<1>0. ASSUME UNCHANGED <<committed, published, pending, frame>>
      PROVE  ShownBooks'
  BY <1>0 DEF ShownBooks, LifeBooks, FrameBooks, Held
<1>1. CASE Drop(e) \/ Ignore(e) \/ Recover(e)
  BY <1>0, <1>1 DEF Drop, Ignore, Recover
<1>2. CASE e.kind = "slot" /\ Select(e)
  BY <1>0, <1>2 DEF Select
<1>3. CASE e.kind \in {"press", "release"} /\ Key(e)
  BY <1>0, <1>3 DEF Key
<1>4. CASE e.kind = "id" /\ Track(e)
  <2>. SUFFICES ASSUME NEW s \in Slots PROVE LifeBooks(s)' /\ FrameBooks(s)'
    BY DEF ShownBooks
  <2>1. LifeBooks(s) /\ FrameBooks(s)
    BY DEF ShownBooks
  <2>2. FrameBooks(s)'
    BY <1>4, <2>1 DEF Track, FrameBooks, Held
  <2>3. CASE s = current
    <3>1. pending'[s] = Tracked(pending[s], e.val) /\ committed' = committed
      BY <1>4, <2>3 DEF Track
    <3>2. e.val \in Ids \cup {None}
      BY <1>4 DEF Readable
    <3>3. LifeBooks(s)'
      BY <2>1, <3>1, <3>2, TrackedBooks DEF LifeBooks
    <3>. QED BY <2>2, <3>3
  <2>4. CASE s # current
    BY <1>4, <2>1, <2>2, <2>4 DEF Track, LifeBooks
  <2>. QED BY <2>3, <2>4
<1>5. CASE e.kind = "axis" /\ Field(e)
  <2>. SUFFICES ASSUME NEW s \in Slots PROVE LifeBooks(s)' /\ FrameBooks(s)'
    BY DEF ShownBooks
  <2>1. LifeBooks(s) /\ FrameBooks(s) /\ pending[s] \in Pendings
    BY DEF ShownBooks, DecoderTyped
  <2>2. /\ pending'[s].life = pending[s].life /\ pending'[s].id = pending[s].id
        /\ pending'[s].over = pending[s].over /\ committed' = committed
    BY <1>5, <2>1 DEF Field, WithField, Pendings
  <2>3. LifeBooks(s)'
    BY <2>1, <2>2 DEF LifeBooks
  <2>4. FrameBooks(s)'
    BY <1>5, <2>1 DEF Field, FrameBooks, Held
  <2>. QED BY <2>3, <2>4
<1>6. CASE e.kind = "sync" /\ Commit
  BY <1>6, CommitBooks
<1>. QED BY <1>1, <1>2, <1>3, <1>4, <1>5, <1>6 DEF Feed, Apply

LEMMA BooksStep == TypeOK /\ ShownBooks /\ [Next]_vars => ShownBooks'
<1>. SUFFICES ASSUME TypeOK, ShownBooks, [Next]_vars PROVE ShownBooks'
  OBVIOUS
<1>1. ASSUME UNCHANGED <<committed, published, pending, frame>>
      PROVE  ShownBooks'
  BY <1>1 DEF ShownBooks, LifeBooks, FrameBooks, Held
<1>2. ASSUME NEW e \in Events, Feed(e) PROVE ShownBooks'
  BY <1>2, TypedDecoder, EventType, FeedBooks
<1>3. ASSUME NEW contacts \in Snapshots, NEW held,
             Install(contacts, held)
      PROVE  ShownBooks'
  BY <1>3, InstallBooks
<1>4. CASE FailRecovery
  BY <1>1, <1>4 DEF FailRecovery, Degrade
<1>5. CASE UNCHANGED vars
  BY <1>1, <1>5 DEF vars, decoder
<1>. QED BY <1>2, <1>3, <1>4, <1>5 DEF Next, FeedOne, Resynchronize

-----------------------------------------------------------------------------
(* The packet stays in step with the stream. *)

(* What a slot's packet means is Meaning. *)
LEMMA EffectiveMeaning ==
  ASSUME NEW s \in Slots
  PROVE  /\ Effective(s) = Meaning(committed[s], pending[s])
         /\ Effective(s)' = Meaning(committed'[s], pending'[s])
BY DEF Effective, Meaning

LEMMA InStepStep == IInv /\ [Next]_vars => InStep'
<1>. SUFFICES ASSUME IInv, [Next]_vars, sync' = "Normal"
              PROVE  at' = current' /\ \A s \in Slots : Effective(s)' = said'[s]
  BY DEF InStep
<1>1. ASSUME sync = "Normal", UNCHANGED <<committed, pending, said>>
      PROVE  \A s \in Slots : Effective(s)' = said'[s]
  BY <1>1, EffectiveMeaning DEF IInv, InStep
<1>2. ASSUME NEW e \in Events, Feed(e), Hear(e)
      PROVE  at' = current' /\ \A s \in Slots : Effective(s)' = said'[s]
  <2>1. sync = "Normal" /\ ((Ignore(e) /\ e.kind = "other") \/ Apply(e))
    BY <1>2 DEF Feed, Drop, Ignore, Apply, Recover
  <2>2. /\ at = current /\ \A s \in Slots : Effective(s) = said[s]
        /\ TypeOK /\ ShownBooks
    BY <2>1 DEF IInv, InStep
  <2>3. /\ at' = IF e.kind = "slot" THEN e.val ELSE at
        /\ said' = [s \in Slots |-> IF s = current THEN Heard(said[s], e)
                                     ELSE said[s]]
    BY <1>2, <2>1, <2>2 DEF Hear
  <2>4. e.kind \notin {"id", "axis"} => said' = said
    BY <2>2, <2>3 DEF Heard, TypeOK
  <2>5. CASE Ignore(e) /\ e.kind = "other"
    BY <1>1, <2>1, <2>2, <2>3, <2>4, <2>5 DEF Ignore
  <2>6. CASE e.kind = "slot" /\ Select(e)
    BY <1>1, <2>1, <2>3, <2>4, <2>6 DEF Select
  <2>7. CASE e.kind \in {"press", "release"} /\ Key(e)
    BY <1>1, <2>1, <2>2, <2>3, <2>4, <2>7 DEF Key
  <2>8. CASE e.kind = "id" /\ Track(e)
    <3>1. at' = current'
      BY <2>2, <2>3, <2>8 DEF Track
    <3>2. ASSUME NEW s \in Slots PROVE Effective(s)' = said'[s]
      <4>1. LifeBooks(s) /\ pending[s] \in Pendings /\ committed[s] \in Contacts
            /\ e.val \in Ids \cup {None}
        BY <2>2, <2>8, EventType DEF Readable, ShownBooks, TypeOK
      <4>2. /\ pending'[s] = IF s = current THEN Tracked(pending[s], e.val)
                             ELSE pending[s]
            /\ committed' = committed
        BY <2>8 DEF Track
      <4>3. Meaning(committed[s], Tracked(pending[s], e.val))
              = Heard(Meaning(committed[s], pending[s]), e)
        BY <2>8, <4>1, TrackedMeaning DEF LifeBooks
      <4>. QED BY <2>2, <2>3, <4>2, <4>3, EffectiveMeaning
    <3>. QED BY <3>1, <3>2
  <2>9. CASE e.kind = "axis" /\ Field(e)
    <3>1. at' = current'
      BY <2>2, <2>3, <2>9 DEF Field
    <3>2. ASSUME NEW s \in Slots PROVE Effective(s)' = said'[s]
      <4>1. LifeBooks(s) /\ pending[s] \in Pendings /\ committed[s] \in Contacts
            /\ e.code \in Axes /\ e.val \in Values
        BY <2>2, <2>9, EventType DEF Readable, ShownBooks, TypeOK
      <4>2. /\ pending'[s] = IF s = current THEN WithField(pending[s], e)
                             ELSE pending[s]
            /\ committed' = committed
        BY <2>9 DEF Field
      <4>3. Meaning(committed[s], WithField(pending[s], e))
              = Heard(Meaning(committed[s], pending[s]), e)
        BY <2>9, <4>1, FieldMeaning DEF LifeBooks
      <4>. QED BY <2>2, <2>3, <4>2, <4>3, EffectiveMeaning
    <3>. QED BY <3>1, <3>2
  <2>10. CASE e.kind = "sync" /\ Commit
    <3>1. at' = current'
      BY <2>2, <2>3, <2>10 DEF Commit
    <3>2. ASSUME NEW s \in Slots PROVE Effective(s)' = said'[s]
      <4>1. LifeBooks(s) /\ Merged(s) \in Contacts
        BY <2>2, TypedDecoder, MergedType DEF ShownBooks
      <4>2. committed'[s] = Merged(s) /\ pending'[s] = Cycle(Merged(s))
        BY <2>10 DEF Commit
      <4>3. Meaning(Merged(s), Cycle(Merged(s))) = Merged(s)
        BY <2>2, <4>1, TypedDecoder, CycleMeaning, MergedNobody
      <4>4. Merged(s) = said[s]
        BY <2>2, <4>1, TypedDecoder, MergedIsEffective
      <4>. QED BY <2>4, <2>10, <4>2, <4>3, <4>4, EffectiveMeaning
    <3>. QED BY <3>1, <3>2
  <2>. QED BY <2>1, <2>5, <2>6, <2>7, <2>8, <2>9, <2>10 DEF Apply
<1>3. ASSUME NEW contacts \in Snapshots, NEW held \in SUBSET Buttons,
             Install(contacts, held), said' = contacts, at' = FirstSlot
      PROVE  at' = current' /\ \A s \in Slots : Effective(s)' = said'[s]
  <2>1. at' = current'
    BY <1>3 DEF Install, Renewed
  <2>2. ASSUME NEW s \in Slots PROVE Effective(s)' = said'[s]
    <3>1. contacts[s] \in Contacts
          /\ (contacts[s].id = None => contacts[s] = NoContact)
      BY DEF Snapshots
    <3>2. committed'[s] = contacts[s] /\ pending'[s] = Cycle(contacts[s])
      BY <1>3 DEF Install, Renewed
    <3>. QED BY <1>3, <3>1, <3>2, CycleMeaning, EffectiveMeaning
  <2>. QED BY <2>1, <2>2
<1>4. CASE FailRecovery
  BY <1>4 DEF FailRecovery, Degrade
<1>5. CASE UNCHANGED vars
  BY <1>1, <1>5 DEF vars, decoder, IInv, InStep
<1>. QED BY <1>2, <1>3, <1>4, <1>5 DEF Next, FeedOne, Resynchronize

-----------------------------------------------------------------------------
(* The theorems. *)

(* The strengthening is an invariant of every trace. *)
THEOREM DecoderInvariant == Spec => []IInv
<1>1. Init => IInv
  BY InitType, InitBooks DEF IInv
<1>2. IInv /\ [Next]_vars => IInv'
  BY TypeStep, BooksStep, InStepStep DEF IInv
<1>. QED BY <1>1, <1>2, PTL DEF Spec

(* Every variable of the decoder keeps its type on every trace. *)
THEOREM TypeCorrect == Spec => []TypeOK
BY DecoderInvariant, PTL DEF IInv

(* The half-merged packet means what the events said: on_abs neither       *)
(* inherits, loses nor misplaces a field, whatever the trace holds.        *)
THEOREM PacketInStep == Spec => []InStep
BY DecoderInvariant, PTL DEF IInv

(* Only a commit and an installed snapshot publish. *)
LEMMA WhoPublishes ==
  ASSUME Next, frame' # frame
  PROVE  \/ \E e \in Events : /\ e.kind = "sync" /\ sync = "Normal"
                              /\ Commit /\ Hear(e)
         \/ Resynchronize
<1>1. ASSUME NEW e \in Events, Feed(e), Hear(e)
      PROVE  e.kind = "sync" /\ sync = "Normal" /\ Commit
  BY <1>1 DEF Feed, Drop, Ignore, Recover, Apply, Select, Track, Field, Key
<1>2. ~FailRecovery
  BY DEF FailRecovery, Degrade
<1>. QED BY <1>1, <1>2 DEF Next, FeedOne

(* An Active or Ended contact was shown, under that id, in the frame       *)
(* before: commit and publish_discontinuity_frame keep the consumer's      *)
(* contact list in order.                                                  *)
THEOREM ContactsInOrder == Spec => ContactOrder
<1>. DEFINE Ordered(s) ==
       frame'.contacts[s].state \in {"Active", "Ended"} =>
         /\ frame'.kind = "normal"
         /\ frame.contacts[s].state \in {"Began", "Active"}
         /\ frame.contacts[s].id = frame'.contacts[s].id
<1>1. ASSUME IInv, Next, frame' # frame, NEW s \in Slots
      PROVE  Ordered(s)
  <2>1. TypeOK /\ LifeBooks(s) /\ FrameBooks(s)
    BY <1>1 DEF IInv, ShownBooks
  <2>2. CASE Commit
    <3>1. frame'.contacts[s] = Entry(s) /\ frame'.kind = "normal"
      BY <2>2 DEF Commit, Publish
    <3>2. Entry(s).state = "Active" =>
            /\ s \in published /\ pending[s].life # "fresh"
            /\ Entry(s).id = Merged(s).id /\ Merged(s).id # None
      BY DEF Entry, Shown, Nobody, Held, Known, Ends, Complete
    <3>3. pending[s].life # "fresh" /\ Merged(s).id # None
            => Merged(s).id = committed[s].id
      BY <2>1
      DEF TypeOK, Merged, LifeBooks, Pendings, Lives, Updated, Contacts,
          NoContact
    <3>4. Entry(s).state = "Ended" =>
            s \in published /\ Entry(s).id = committed[s].id
      <4>1. Updated(committed[s], pending[s]).id = committed[s].id
        BY <2>1 DEF TypeOK, Updated, Contacts
      <4>. QED
        BY <4>1 DEF Entry, Shown, Nobody, Held, Known, Ends, Complete
    <3>. QED BY <2>1, <3>1, <3>2, <3>3, <3>4 DEF FrameBooks
  <2>3. CASE Resynchronize
    BY <2>3 DEF Resynchronize, Install, Renewed, Publish, Nobody, Shown
  <2>. QED BY <1>1, <2>2, <2>3, WhoPublishes
<1>2. IInv /\ [Next]_vars =>
        [frame' # frame => \A s \in Slots : Ordered(s)]_vars
  BY <1>1
<1>. QED BY <1>2, DecoderInvariant, PTL DEF Spec, ContactOrder

(* Every frame shows exactly the contacts the events said are down with    *)
(* both coordinates known, with the coordinates said of them.              *)
THEOREM FramesFaithful == Spec => FramesShowTheStream
<1>. DEFINE Faithful(s) ==
       LET k == frame'.contacts[s]
       IN  /\ k.state \in {"Began", "Active"} <=> Held(said'[s])
           /\ k.state \in {"Began", "Active"} =>
                k.id = said'[s].id /\ k.pos = said'[s].pos
<1>1. ASSUME IInv, Next, frame' # frame, NEW s \in Slots
      PROVE  Faithful(s)
  <2>1. TypeOK /\ LifeBooks(s)
    BY <1>1 DEF IInv, ShownBooks
  <2>2. ASSUME NEW e \in Events, e.kind = "sync", sync = "Normal", Commit,
               Hear(e)
        PROVE  Faithful(s)
    <3>1. said'[s] = Merged(s)
      <4>1. said' = said
        BY <2>1, <2>2 DEF Hear, Heard, TypeOK
      <4>. QED
        BY <1>1, <2>1, <2>2, <4>1, TypedDecoder, MergedIsEffective DEF IInv, InStep
    <3>2. frame'.contacts[s] = Entry(s)
      BY <2>2 DEF Commit, Publish
    <3>3. Held(Merged(s)) =>
            /\ Entry(s).state \in {"Began", "Active"}
            /\ Entry(s).id = Merged(s).id /\ Entry(s).pos = Merged(s).pos
      BY DEF Entry, Shown, Held, Known, Complete
    <3>4. ~Held(Merged(s)) => Entry(s).state \in {"Ended", "none"}
      BY DEF Entry, Shown, Nobody, Held, Ends, Complete
    <3>. QED BY <3>1, <3>2, <3>3, <3>4 DEF Held
  <2>3. ASSUME NEW contacts \in Snapshots, NEW held \in SUBSET Buttons,
               Install(contacts, held), said' = contacts
        PROVE  Faithful(s)
    BY <2>3 DEF Install, Renewed, Publish, Nobody, Shown, Held, Snapshots
  <2>. QED BY <1>1, <2>2, <2>3, WhoPublishes DEF Resynchronize
<1>2. IInv /\ [Next]_vars =>
        [frame' # frame => \A s \in Slots : Faithful(s)]_vars
  BY <1>1
<1>. QED BY <1>2, DecoderInvariant, PTL DEF Spec, FramesShowTheStream

-----------------------------------------------------------------------------
(* The replay.  Every step of it that touches the decoder is one of the    *)
(* decoder's own steps, so the theorems about the decoder fed with any     *)
(* events carry over.  A line that could not be taken leaves the reader    *)
(* failed (ReadBooks), from which no step reads; and Ok is returned only   *)
(* from a finished reader with the decoder in Normal.                      *)

(* What the reader's state says of the file, and the outcome of the state.  *)
ReadBooks ==
  /\ last \in Nat /\ last \in Times \cup {0}
  /\ reader \in ReaderStates /\ outcome \in Outcomes
  /\ soured => reader = "Failed"
  /\ sync = "Recovering" => reader = "ReadingEvents"
  /\ outcome # "running" => sync # "Recovering"
  /\ holed => writeFailed
  /\ outcome = "Ok" => reader = "Finished" /\ sync = "Normal" /\ ~writeFailed

LEMMA OnlyDecoderSteps == [ReplayNext]_replayVars => [Next]_vars
<1> SUFFICES ASSUME [ReplayNext]_replayVars PROVE [Next]_vars
  OBVIOUS
<1>1. CASE Read
  BY <1>1 DEF Read, OpenFails, BadHeader, EmptyTrace, TakeHeader, ReadError,
    BadEvent, EndOfTrace, Untouched, vars
<1>2. CASE TakeEvent
  <2>1. PICK l \in EventLines : Feed(l.event) /\ Hear(l.event)
    BY <1>2 DEF TakeEvent
  <2>2. l.event \in Events
    BY <2>1 DEF EventLines
  <2> QED BY <2>1, <2>2 DEF Next, FeedOne
<1>3. CASE SourceAnswers \/ NoSnapshot
  BY <1>3 DEF SourceAnswers, NoSnapshot, Next
<1>4. CASE RefusedEvent
  BY <1>4 DEF RefusedEvent, Untouched, vars
<1>5. CASE UNCHANGED replayVars
  BY <1>5 DEF replayVars, vars
<1> QED BY <1>1, <1>2, <1>3, <1>4, <1>5 DEF ReplayNext, Decode

(* Replaying a trace is feeding the decoder some events: every behaviour of *)
(* the replay, read as the decoder's, is one of the decoder's.              *)
THEOREM ReplayDecodes == ReplaySpec => DecodesTheTrace
<1>1. ReplayInit => Init
  BY DEF ReplayInit
<1> QED BY <1>1, OnlyDecoderSteps, PTL DEF ReplaySpec, DecodesTheTrace, Spec

(* While a trace is being replayed, the half-read packet means exactly what *)
(* the lines taken so far say.                                              *)
THEOREM ReplayInStep == ReplaySpec => []InStep
  BY ReplayDecodes, PacketInStep, PTL DEF DecodesTheTrace

(* Every frame a replay prints shows exactly the contacts its lines say are *)
(* down, with their own coordinates, and continues the frame before.        *)
THEOREM ReplayFramesFaithful == ReplaySpec => FramesAreFaithful
<1>1. Spec => FramesAreFaithful
  BY FramesFaithful, ContactsInOrder DEF FramesAreFaithful
<1> QED BY <1>1, ReplayDecodes, PTL DEF DecodesTheTrace

LEMMA FeedKeepsSoured ==
  ASSUME ReadBooks, ReplayNext PROVE soured => ~ TakeEvent /\ ~ SourceAnswers /\ ~ NoSnapshot
  BY DEF ReadBooks, TakeEvent, SourceAnswers, NoSnapshot, Calling

LEMMA BooksInit == ReplayInit => ReadBooks
  BY DEF ReplayInit, Init, DecoderInit, ReadBooks, Outcomes, ReaderStates

LEMMA ReadBooksStep ==
  ReadBooks /\ [ReplayNext]_replayVars => ReadBooks' /\ last' >= last
<1> SUFFICES ASSUME ReadBooks, [ReplayNext]_replayVars
             PROVE ReadBooks' /\ last' >= last
  OBVIOUS
<1> USE TimesAssumption
<1>1. CASE OpenFails \/ BadHeader \/ EmptyTrace \/ ReadError \/ BadEvent
  <2>1. /\ outcome = "running" /\ sync # "Recovering"
        /\ outcome' \in {"Trace", "running"}
        /\ reader' \in {reader, "Failed"}
        /\ (soured' => (soured /\ reader' = reader) \/ reader' = "Failed")
        /\ UNCHANGED <<last, writeFailed, holed, sync>>
    <3>1. CASE OpenFails
      BY <1>1, <3>1 DEF OpenFails, Untouched, decoder, ReadBooks
    <3>2. CASE EmptyTrace
      BY <3>2 DEF EmptyTrace, GiveUp, Untouched, Calling, decoder
    <3>4. CASE ReadError
      BY <3>4 DEF ReadError, Poison, GiveUp, Untouched, Calling, decoder
    <3>3. CASE BadHeader \/ BadEvent
      BY <1>1, <3>3 DEF BadHeader, BadEvent, Poison, GiveUp, Untouched,
        Calling, decoder
    <3> QED BY <1>1, <3>1, <3>2, <3>3, <3>4
  <2> QED BY <2>1 DEF ReadBooks, Outcomes, ReaderStates
<1>2. CASE TakeHeader
  <2>1. outcome' \in {outcome, "Replay", "running"} /\ outcome = "running"
    BY <1>2 DEF TakeHeader, GiveUp, Calling
  <2> QED BY <1>2, <2>1 DEF TakeHeader, Untouched, Same, Calling, ReadBooks, Outcomes, ReaderStates, decoder
<1>3. CASE EndOfTrace
  BY <1>3 DEF EndOfTrace, Finish, GiveUp, Untouched, Same, Calling, ReadBooks, Outcomes, ReaderStates, decoder
<1>4. CASE TakeEvent
  <2>1. PICK l \in EventLines : EventError(l) = "None" /\ last' = l.time
    BY <1>4 DEF TakeEvent
  <2>2. l.kind = "event" /\ l.time \in Times
    BY DEF EventLines
  <2>3. l.time >= last
    BY <2>1, <2>2 DEF EventError, ReadBooks
  <2>4. holed' => writeFailed'
    BY <1>4 DEF TakeEvent, Output, PrintFrame, ReadBooks
  <2> QED BY <1>4, <2>1, <2>2, <2>3, <2>4 DEF TakeEvent, Same, Calling, ReadBooks
<1>5. CASE SourceAnswers
  <2>1. holed' => writeFailed'
    BY <1>5 DEF SourceAnswers, Output, PrintFrame, ReadBooks
  <2>2. sync' = "Normal" /\ outcome = "running"
    BY <1>5 DEF SourceAnswers, Resynchronize, Install, ReadBooks
  <2> QED BY <1>5, <2>1, <2>2 DEF SourceAnswers, Same, ReadBooks
<1>6. CASE NoSnapshot
  BY <1>6 DEF NoSnapshot, FailRecovery, Degrade, GiveUp, Same, ReadBooks, Outcomes
<1>7. CASE RefusedEvent
  <2>1. PICK l \in EventLines : EventError(l) = "None" /\ last' = l.time
    BY <1>7 DEF RefusedEvent
  <2>2. l.kind = "event" /\ l.time \in Times
    BY DEF EventLines
  <2>3. l.time >= last
    BY <2>1, <2>2 DEF EventError, ReadBooks
  <2> QED BY <1>7, <2>1, <2>2, <2>3 DEF RefusedEvent, GiveUp, Untouched, Same,
            Calling, ReadBooks, Outcomes, ReaderStates, decoder
<1>8. CASE UNCHANGED replayVars
  BY <1>8 DEF replayVars, reading, decoder, ReadBooks
<1> QED BY <1>1, <1>2, <1>3, <1>4, <1>5, <1>6, <1>7, <1>8 DEF ReplayNext, Read, Decode

LEMMA BooksAlways == ReplaySpec => []ReadBooks
  BY BooksInit, ReadBooksStep, PTL DEF ReplaySpec

(* Fail-stop reading: behind a line that could not be taken nothing reaches *)
(* the decoder, whoever goes on calling, and time never goes back.          *)
THEOREM ReadingFailsStop == ReplaySpec => NothingAfterTheOffence
<1>1. ASSUME ReadBooks, [ReplayNext]_replayVars
      PROVE [/\ soured => UNCHANGED <<decoder, at, said>>
             /\ last' >= last]_replayVars
  <2>1. last' >= last
    BY <1>1, ReadBooksStep
  <2>2. ASSUME soured, ReplayNext PROVE UNCHANGED <<decoder, at, said>>
    <3>1. Read \/ RefusedEvent
      BY <1>1, <2>2, FeedKeepsSoured DEF ReplayNext, Decode
    <3> QED BY <3>1 DEF Read, OpenFails, BadHeader, EmptyTrace, TakeHeader,
              ReadError, BadEvent, EndOfTrace, RefusedEvent, Untouched
  <2> QED BY <1>1, <2>1, <2>2
<1> QED BY <1>1, BooksAlways, PTL DEF ReplaySpec, NothingAfterTheOffence

(* The decoder hears the trace up to its first offence and no further.      *)
THEOREM StopsAtTheFirst == ReplaySpec => StopsAtTheOffence
  BY ReplayDecodes, ReadingFailsStop, PTL DEF StopsAtTheOffence

(* Exit 0 promises a whole replay.                                          *)
THEOREM CleanExitIsWhole == ReplaySpec => []CleanExit
<1>1. ReadBooks => CleanExit
  BY DEF ReadBooks, CleanExit, ExitCode, Outcomes
<1> QED BY <1>1, BooksAlways, PTL

LEMMA FlagsType ==
  ReplaySpec => [](/\ caller \in {"driver", "persistent"} /\ hasSource \in BOOLEAN
                   /\ writeFailed \in BOOLEAN /\ soured \in BOOLEAN /\ holed \in BOOLEAN)
<1> DEFINE Flags == /\ caller \in {"driver", "persistent"} /\ hasSource \in BOOLEAN
                    /\ writeFailed \in BOOLEAN /\ soured \in BOOLEAN /\ holed \in BOOLEAN
<1>1. ReplayInit => Flags
  BY DEF ReplayInit
<1>2. Flags /\ [ReplayNext]_replayVars => Flags'
  <2> SUFFICES ASSUME Flags, [ReplayNext]_replayVars PROVE Flags'
    OBVIOUS
  <2>1. CASE Read
    BY <2>1 DEF Read, OpenFails, BadHeader, EmptyTrace, TakeHeader, ReadError, BadEvent,
      EndOfTrace, Poison, Same
  <2>2. CASE Decode
    <3>1. CASE TakeEvent
      BY <3>1 DEF TakeEvent, Output, PrintFrame, Same
    <3>2. CASE SourceAnswers
      BY <3>2 DEF SourceAnswers, Output, PrintFrame, Same
    <3>3. CASE NoSnapshot
      BY <3>3 DEF NoSnapshot, Same
    <3>4. CASE RefusedEvent
      BY <3>4 DEF RefusedEvent, Same
    <3> QED BY <2>2, <3>1, <3>2, <3>3, <3>4 DEF Decode
  <2>3. CASE UNCHANGED replayVars
    BY <2>3 DEF replayVars, reading
  <2> QED BY <2>1, <2>2, <2>3 DEF ReplayNext
<1> QED BY <1>1, <1>2, PTL DEF ReplaySpec

(* A replay is in step with its lines as long as it goes on, and one that   *)
(* exits 0 has replayed every line and printed every frame.                 *)
THEOREM ReplayIsWhole == ReplaySpec => []InStepToTheEnd
<1>1. Spec => []TypeOK
  BY TypeCorrect
<1>2. /\ TypeOK /\ ReadBooks /\ InStep /\ CleanExit
      /\ caller \in {"driver", "persistent"} /\ hasSource \in BOOLEAN
      /\ writeFailed \in BOOLEAN /\ soured \in BOOLEAN /\ holed \in BOOLEAN
      => InStepToTheEnd
  BY DEF ReadBooks, ReplayTypeOK, InStepToTheEnd
<1> QED BY <1>1, <1>2, ReplayDecodes, BooksAlways, FlagsType, ReplayInStep, CleanExitIsWhole, PTL
     DEF DecodesTheTrace

(* What is left of a packet once its queue is cut or answered.             *)
Stream == batch \o queue

Kinds == {"slot", "id", "axis", "press", "release", "sync", "dropped"}
Keys  == {"press", "release"}

(* What the kernel queues: an event names a slot, button or axis of the     *)
(* device, and no snapshot begun after it.                                  *)
Received ==
  {e \in [kind : Kinds, code : Axes \cup Buttons \cup {None},
          val : Slots \cup Ids \cup {None}, at : Slots \cup {None}, era : Nat] :
     /\ e.kind = "slot" => e.val \in Slots
     /\ e.kind = "id" => e.val \in Ids \cup {None} /\ e.at \in Slots
     /\ e.kind = "axis" => e.code \in Axes /\ e.val \in Ids /\ e.at \in Slots
     /\ e.kind \in Keys => e.code \in Buttons}

StreamTyped ==
  /\ DecoderTyped /\ current \in Slots
  /\ queue \in Seq(Received) /\ batch \in Seq(Received)
  /\ Len(queue) <= Capacity /\ Len(batch) <= MaxBatch
  /\ asked \subseteq Axes \cup {"tracking"} /\ answer \in [Slots -> Contacts]
  /\ taken \in Nat /\ packets \in 0..MaxPackets
  /\ sync = "Recovering" => taken > 0

(* The hardware: a touch down is measured; touches are numbered in order.   *)
KernelBooks ==
  /\ contact \in [Slots -> Ids \cup {None}] /\ owner \in [Slots -> Ids \cup {None}]
  /\ \A s \in Slots : contact[s] # None => owner[s] = contact[s]
  /\ pressed \subseteq Buttons /\ kslot \in Slots
  /\ next \in Nat /\ (resting # None => resting \in Nat /\ resting < next)

(* What happens to slot s before its next tracking id or the next drop is   *)
(* about the touch there now.                                               *)
Cuts(e, s)   == e.kind = "dropped" \/ (e.kind = "id" /\ e.at = s)
Turns(e, b)  == e.kind = "dropped" \/ (e.kind \in Keys /\ e.code = b)
Settled(q, s)     == \A i \in 1..Len(q) : ~Cuts(q[i], s)
KeySettled(q, b)  == \A i \in 1..Len(q) : ~Turns(q[i], b)

(* The last id queued for a slot is the touch there, the last key event of  *)
(* a button its position; the positions behind an id are of its touch; and  *)
(* the queue ends with a packet.                                            *)
LastIdHolds(q) ==
  \A i \in 1..Len(q) :
    q[i].kind = "id" =>
      /\ q[i].val # None => q[i].val # resting
      /\ ((\A j \in 1..Len(q) : j > i => ~Cuts(q[j], q[i].at))
            => q[i].val = contact[q[i].at])
LastKeyHolds(q) ==
  \A i \in 1..Len(q) :
    q[i].kind \in Keys /\ (\A j \in 1..Len(q) : j > i => ~Turns(q[j], q[i].code))
      => (q[i].kind = "press" <=> q[i].code \in pressed)
PositionsFollowIds(q) ==
  \A i, j \in 1..Len(q) :
    /\ i < j /\ q[i].kind = "id" /\ q[j].kind = "axis" /\ q[j].at = q[i].at
    /\ (\A k \in 1..Len(q) : i < k /\ k < j => ~Cuts(q[k], q[i].at))
    => q[j].val = q[i].val
EndsAPacket(q) == Len(q) > 0 => q[Len(q)].kind = "sync"
NotFromLater(q) == \A i \in 1..Len(q) : q[i].era <= taken
Coherent(q) == /\ LastIdHolds(q) /\ LastKeyHolds(q) /\ PositionsFollowIds(q)
               /\ EndsAPacket(q) /\ NotFromLater(q)

(* The touch the decoder has live in slot s.                                *)
LiveId(s) == IF Live(pending[s]) THEN pending[s].id ELSE None
Expected(s) == IF contact[s] = resting /\ taken = 0 THEN None ELSE contact[s]

DecoderAgrees ==
  sync = "Normal" =>
    /\ Len(Stream) = 0 => \A s \in Slots : pending[s] = Cycle(committed[s])
    /\ misrouted = {} =>
         \A s \in Slots : Settled(Stream, s) => LiveId(s) = Expected(s)
    /\ \A b \in Buttons : KeySettled(Stream, b) => (b \in buttons <=> b \in pressed)

(* The tracking ids asked for are the touches down, but for what the queue  *)
(* behind the snapshot says.                                                *)
AnswerAgrees ==
  /\ \A s \in Slots : answer[s].id = None => answer[s] = NoContact
  /\ sync = "Recovering" /\ "tracking" \in asked => answer = Nothing
  /\ sync = "Recovering" /\ "tracking" \notin asked =>
       \A s \in Slots : Settled(queue, s) => answer[s].id = contact[s]

StreamInv == /\ StreamTyped /\ KernelBooks
             /\ ShownBooks
             /\ Coherent(Stream) /\ Coherent(queue)
             /\ DecoderAgrees /\ AnswerAgrees

(* With no snapshot begun over a queue, what is queued is newer than the    *)
(* snapshots.                                                               *)
OfThisEra(q) == \A i \in 1..Len(q) : q[i].era = taken
DrainInv == /\ stale => backlog
            /\ ~backlog => /\ OfThisEra(queue)
                           /\ sync \in {"Normal", "DroppedAwaitingBoundary"} => OfThisEra(batch)

Undisturbed == misrouted = {} /\ ~stale /\ ~torn

Measures(pos, id) == \A a \in Axes : pos[a] \in {None, id}

(* The positions the decoder holds are those of the contact they are held   *)
(* for, and so are those that reach it before the contact's next id.        *)
OwnPositions ==
  Undisturbed =>
    \A s \in Slots :
      /\ Measures(committed[s].pos, committed[s].id)
      /\ Live(pending[s]) => Measures(pending[s].pos, pending[s].id)
      /\ pending[s].life = "ended" => Measures(pending[s].pos, committed[s].id)

Unspoiled(q, j) ==
  \A i \in 1..Len(q) : i < j => ~Cuts(q[i], q[j].at) /\ ~Outdated(q[i])
ComingPositions(q) ==
  \A j \in 1..Len(q) :
    q[j].kind = "axis" /\ ~Outdated(q[j]) /\ Unspoiled(q, j)
      => LiveId(q[j].at) = None \/ q[j].val = LiveId(q[j].at)

SnapshotInv ==
  Undisturbed /\ sync = "Recovering" =>
    /\ \A i \in 1..Len(queue) : queue[i].era < taken
    /\ "tracking" \notin asked => \A s \in Slots : answer[s].id = contact[s]
    /\ \A s \in Slots : Measures(answer[s].pos, answer[s].id)

FrameInv == /\ DrainInv /\ OwnPositions /\ SnapshotInv /\ NoForeignCoordinates
            /\ (Undisturbed /\ sync = "Normal" => ComingPositions(Stream))
-----------------------------------------------------------------------------
(* What the invariant says of a queue stays said of its end, of what is     *)
(* appended to it and of what a full queue leaves.                          *)

(* The end of a queue. *)
LEMMA EndIsCoherent ==
  ASSUME NEW q, NEW t, NEW d \in Nat, Len(t) \in Nat, Len(q) = Len(t) + d,
         \A i \in 1..Len(t) : t[i] = q[i + d], Coherent(q)
  PROVE  Coherent(t)
<1>0. \A i \in 1..Len(t) : i + d \in 1..Len(q) /\ t[i] = q[i + d]
  OBVIOUS
<1>1. \A k \in 1..Len(q) : k > d => k - d \in 1..Len(t) /\ t[k - d] = q[k]
  <2>. SUFFICES ASSUME NEW k \in 1..Len(q), k > d
                PROVE  k - d \in 1..Len(t) /\ t[k - d] = q[k]
    OBVIOUS
  <2>1. k - d \in 1..Len(t) /\ (k - d) + d = k
    OBVIOUS
  <2>. QED BY <2>1
<1>2. LastIdHolds(t)
  <2>. SUFFICES ASSUME NEW i \in 1..Len(t), t[i].kind = "id"
                PROVE  /\ t[i].val # None => t[i].val # resting
                       /\ (\A j \in 1..Len(t) : j > i => ~Cuts(t[j], t[i].at))
                            => t[i].val = contact[t[i].at]
    BY DEF LastIdHolds
  <2>1. i + d \in 1..Len(q) /\ q[i + d] = t[i]
    BY <1>0
  <2>2. ASSUME \A j \in 1..Len(t) : j > i => ~Cuts(t[j], t[i].at)
        PROVE  \A j \in 1..Len(q) : j > i + d => ~Cuts(q[j], q[i + d].at)
    <3>. SUFFICES ASSUME NEW j \in 1..Len(q), j > i + d
                  PROVE  ~Cuts(q[j], q[i + d].at)
      OBVIOUS
    <3>1. j - d \in 1..Len(t) /\ t[j - d] = q[j] /\ j - d > i
      BY <1>1
    <3>. QED BY <2>1, <2>2, <3>1
  <2>. QED BY <2>1, <2>2 DEF Coherent, LastIdHolds
<1>3. LastKeyHolds(t)
  <2>. SUFFICES ASSUME NEW i \in 1..Len(t), t[i].kind \in Keys,
                       \A j \in 1..Len(t) : j > i => ~Turns(t[j], t[i].code)
                PROVE  t[i].kind = "press" <=> t[i].code \in pressed
    BY DEF LastKeyHolds
  <2>1. i + d \in 1..Len(q) /\ q[i + d] = t[i]
    BY <1>0
  <2>2. \A j \in 1..Len(q) : j > i + d => ~Turns(q[j], q[i + d].code)
    <3>. SUFFICES ASSUME NEW j \in 1..Len(q), j > i + d
                  PROVE  ~Turns(q[j], q[i + d].code)
      OBVIOUS
    <3>1. j - d \in 1..Len(t) /\ t[j - d] = q[j] /\ j - d > i
      BY <1>1
    <3>. QED BY <2>1, <3>1
  <2>. QED BY <2>1, <2>2 DEF Coherent, LastKeyHolds
<1>4. PositionsFollowIds(t)
  <2>. SUFFICES ASSUME NEW i \in 1..Len(t), NEW j \in 1..Len(t), i < j,
                       t[i].kind = "id", t[j].kind = "axis", t[j].at = t[i].at,
                       \A k \in 1..Len(t) : i < k /\ k < j => ~Cuts(t[k], t[i].at)
                PROVE  t[j].val = t[i].val
    BY DEF PositionsFollowIds
  <2>1. /\ i + d \in 1..Len(q) /\ q[i + d] = t[i]
        /\ j + d \in 1..Len(q) /\ q[j + d] = t[j] /\ i + d < j + d
    BY <1>0
  <2>2. \A k \in 1..Len(q) : i + d < k /\ k < j + d => ~Cuts(q[k], q[i + d].at)
    <3>. SUFFICES ASSUME NEW k \in 1..Len(q), i + d < k, k < j + d
                  PROVE  ~Cuts(q[k], q[i + d].at)
      OBVIOUS
    <3>1. k - d \in 1..Len(t) /\ t[k - d] = q[k] /\ i < k - d /\ k - d < j
      BY <1>1
    <3>. QED BY <2>1, <3>1
  <2>3. PositionsFollowIds(q)
    BY DEF Coherent
  <2>. QED BY <2>1, <2>2, <2>3 DEF PositionsFollowIds
<1>5. EndsAPacket(t)
  <2>1. CASE Len(t) > 0
    <3>1. Len(t) \in 1..Len(t) /\ Len(t) + d = Len(q) /\ Len(q) > 0
      BY <2>1
    <3>2. t[Len(t)] = q[Len(q)]
      BY <3>1, <1>0
    <3>. QED BY <3>1, <3>2 DEF Coherent, EndsAPacket
  <2>. QED BY <2>1 DEF EndsAPacket
<1>6. NotFromLater(t)
  BY <1>0 DEF Coherent, NotFromLater
<1>. QED BY <1>2, <1>3, <1>4, <1>5, <1>6 DEF Coherent

(* What a packet tells: where the touches and buttons it changes now are,   *)
(* with the new id of a touch before its positions.                         *)
Tells(es) ==
  /\ es \in Seq(Received) /\ Len(es) > 0 /\ es[Len(es)].kind = "sync"
  /\ \A i \in 1..Len(es) : es[i].kind # "dropped" /\ es[i].era = taken
  /\ \A i \in 1..Len(es) : es[i].kind \in {"id", "axis"} => es[i].val = contact'[es[i].at]
  /\ \A i \in 1..Len(es) : es[i].kind = "id" /\ es[i].val # None => es[i].val # resting
  /\ \A s \in Slots : contact'[s] # contact[s] =>
       \E i \in 1..Len(es) : /\ es[i].kind = "id" /\ es[i].at = s
                             /\ \A j \in 1..Len(es) : es[j].kind = "axis" => i < j
  /\ \A i \in 1..Len(es) : es[i].kind \in Keys =>
                             (es[i].kind = "press" <=> es[i].code \in pressed')
  /\ \A b \in Buttons : (b \in pressed' <=> b \in pressed)
       \/ \E i \in 1..Len(es) : es[i].kind \in Keys /\ es[i].code = b

(* Ids and buttons a packet does not mention are where they were. *)
LEMMA Untold ==
  ASSUME NEW es, Tells(es)
  PROVE  /\ \A s \in Slots : (\A i \in 1..Len(es) : ~Cuts(es[i], s)) => contact'[s] = contact[s]
         /\ \A b \in Buttons : (\A i \in 1..Len(es) : ~Turns(es[i], b))
                                 => (b \in pressed' <=> b \in pressed)
BY DEF Tells, Cuts, Turns

(* A packet at the end of a queue. *)
LEMMA AppendIsCoherent ==
  ASSUME NEW q \in Seq(Received), NEW es, NEW t, Coherent(q), Tells(es),
         UNCHANGED <<resting, taken>>,
         Len(t) = Len(q) + Len(es), \A i \in 1..Len(q) : t[i] = q[i],
         \A i \in 1..Len(es) : t[Len(q) + i] = es[i]
  PROVE  Coherent(t)'
<1>0. /\ Len(q) \in Nat /\ Len(es) \in Nat /\ Len(es) > 0
      /\ \A i \in 1..Len(q) : q[i] \in Received
      /\ \A i \in 1..Len(es) : es[i] \in Received
  BY DEF Tells
<1>. DEFINE n == Len(q)
<1>1. /\ \A i \in 1..n : i \in 1..Len(t) /\ t[i] = q[i]
      /\ \A i \in 1..Len(es) : n + i \in 1..Len(t) /\ t[n + i] = es[i]
  BY <1>0
<1>2. ASSUME NEW k \in 1..Len(t), k > n
      PROVE  k - n \in 1..Len(es) /\ t[k] = es[k - n]
  <2>1. k - n \in 1..Len(es) /\ n + (k - n) = k
    BY <1>0, <1>2
  <2>. QED BY <1>1, <2>1
<1>3. \A k \in 1..Len(t) : k \in 1..n \/ (k > n /\ k - n \in 1..Len(es) /\ t[k] = es[k - n])
  <2>. SUFFICES ASSUME NEW k \in 1..Len(t), ~(k > n) PROVE k \in 1..n
    BY <1>2
  <2>. QED BY <1>0
<1>. HIDE DEF n
<1>n. n \in Nat /\ n = Len(q)
  BY <1>0 DEF n
<1>t. \A i \in 1..Len(es) : es[i].kind \in {"id", "axis"} => es[i].val = contact'[es[i].at]
  BY DEF Tells
<1>4. LastIdHolds(t)'
  <2>. SUFFICES ASSUME NEW i \in 1..Len(t), t[i].kind = "id"
                PROVE  /\ t[i].val # None => t[i].val # resting'
                       /\ (\A j \in 1..Len(t) : j > i => ~Cuts(t[j], t[i].at))
                            => t[i].val = contact'[t[i].at]
    BY DEF LastIdHolds, Cuts
  <2>1. CASE i \in 1..n
    <3>1. q[i] = t[i] /\ q[i].at \in Slots /\ i \in 1..Len(q)
      BY <1>0, <1>1, <1>n, <2>1 DEF Received
    <3>2. ASSUME \A j \in 1..Len(t) : j > i => ~Cuts(t[j], t[i].at)
          PROVE  t[i].val = contact'[t[i].at]
      <4>1. \A j \in 1..Len(q) : j > i => ~Cuts(q[j], q[i].at)
        BY <1>1, <1>n, <3>1, <3>2
      <4>2. \A j \in 1..Len(es) : ~Cuts(es[j], q[i].at)
        <5>. SUFFICES ASSUME NEW j \in 1..Len(es) PROVE ~Cuts(es[j], q[i].at)
          OBVIOUS
        <5>1. n + j \in 1..Len(t) /\ t[n + j] = es[j]
          BY <1>1
        <5>2. n + j > i
          BY <1>n, <2>1
        <5>. QED BY <3>1, <3>2, <5>1, <5>2
      <4>3. contact'[q[i].at] = contact[q[i].at]
        BY <3>1, <4>2, Untold
      <4>. QED BY <3>1, <4>1, <4>3 DEF Coherent, LastIdHolds
    <3>. QED BY <3>1, <3>2 DEF Coherent, LastIdHolds
  <2>2. CASE i > n /\ i - n \in 1..Len(es) /\ t[i] = es[i - n]
    BY <2>2 DEF Tells
  <2>. QED BY <1>3, <2>1, <2>2
<1>5. LastKeyHolds(t)'
  <2>. SUFFICES ASSUME NEW i \in 1..Len(t), t[i].kind \in Keys,
                       \A j \in 1..Len(t) : j > i => ~Turns(t[j], t[i].code)
                PROVE  t[i].kind = "press" <=> t[i].code \in pressed'
    BY DEF LastKeyHolds, Turns
  <2>1. CASE i \in 1..n
    <3>1. q[i] = t[i] /\ q[i].code \in Buttons /\ i \in 1..Len(q)
      BY <1>0, <1>1, <1>n, <2>1 DEF Received
    <3>2. \A j \in 1..Len(q) : j > i => ~Turns(q[j], q[i].code)
      BY <1>1, <1>n, <3>1
    <3>3. \A j \in 1..Len(es) : ~Turns(es[j], q[i].code)
      <4>. SUFFICES ASSUME NEW j \in 1..Len(es) PROVE ~Turns(es[j], q[i].code)
        OBVIOUS
      <4>1. n + j \in 1..Len(t) /\ t[n + j] = es[j] /\ n + j > i
        BY <1>1, <1>n, <2>1
      <4>. QED BY <3>1, <4>1
    <3>4. q[i].code \in pressed' <=> q[i].code \in pressed
      BY <3>1, <3>3, Untold
    <3>. QED BY <3>1, <3>2, <3>4 DEF Coherent, LastKeyHolds
  <2>2. CASE i > n /\ i - n \in 1..Len(es) /\ t[i] = es[i - n]
    BY <2>2 DEF Tells
  <2>. QED BY <1>3, <2>1, <2>2
<1>6. PositionsFollowIds(t)'
  <2>. SUFFICES ASSUME NEW i \in 1..Len(t), NEW j \in 1..Len(t), i < j,
                       t[i].kind = "id", t[j].kind = "axis", t[j].at = t[i].at,
                       \A k \in 1..Len(t) : i < k /\ k < j => ~Cuts(t[k], t[i].at)
                PROVE  t[j].val = t[i].val
    BY DEF PositionsFollowIds, Cuts
  <2>1. CASE i > n /\ i - n \in 1..Len(es) /\ t[i] = es[i - n]
    <3>1. j > n /\ j - n \in 1..Len(es) /\ t[j] = es[j - n]
      BY <1>3, <1>n, <2>1
    <3>2. t[i].val = contact'[t[i].at]
      BY <1>t, <2>1
    <3>3. t[j].val = contact'[t[j].at]
      BY <1>t, <3>1
    <3>. QED BY <3>2, <3>3
  <2>2. CASE i \in 1..n /\ j \in 1..n
    <3>1. i \in 1..Len(q) /\ j \in 1..Len(q) /\ q[i] = t[i] /\ q[j] = t[j]
      BY <1>1, <1>n, <2>2
    <3>2. \A k \in 1..Len(q) : i < k /\ k < j => ~Cuts(q[k], q[i].at)
      BY <1>1, <1>n, <3>1
    <3>3. PositionsFollowIds(q)
      BY DEF Coherent
    <3>. QED BY <3>1, <3>2, <3>3 DEF PositionsFollowIds
  <2>3. CASE i \in 1..n /\ j > n /\ j - n \in 1..Len(es) /\ t[j] = es[j - n]
    <3>1. q[i] = t[i] /\ q[i].at \in Slots /\ i \in 1..Len(q)
      BY <1>0, <1>1, <1>n, <2>3 DEF Received
    <3>2. \A k \in 1..Len(q) : k > i => ~Cuts(q[k], q[i].at)
      BY <1>1, <1>n, <2>3, <3>1
    <3>3. \A k \in 1..Len(es) : k < j - n => ~Cuts(es[k], q[i].at)
      <4>. SUFFICES ASSUME NEW k \in 1..Len(es), k < j - n PROVE ~Cuts(es[k], q[i].at)
        OBVIOUS
      <4>1. n + k \in 1..Len(t) /\ t[n + k] = es[k] /\ i < n + k /\ n + k < j
        BY <1>1, <1>n, <2>3
      <4>. QED BY <3>1, <4>1
    <3>4. contact'[q[i].at] = contact[q[i].at]
      <4>. SUFFICES ASSUME contact'[q[i].at] # contact[q[i].at] PROVE FALSE
        OBVIOUS
      <4>1. PICK k \in 1..Len(es) : /\ es[k].kind = "id" /\ es[k].at = q[i].at
                                    /\ \A m \in 1..Len(es) : es[m].kind = "axis" => k < m
        BY <3>1 DEF Tells
      <4>2. k < j - n
        BY <2>3, <4>1
      <4>. QED BY <3>3, <4>1, <4>2 DEF Cuts
    <3>5. q[i].val = contact[q[i].at]
      BY <3>1, <3>2 DEF Coherent, LastIdHolds
    <3>6. t[j].val = contact'[q[i].at]
      BY <2>3, <3>1 DEF Tells
    <3>. QED BY <3>1, <3>4, <3>5, <3>6
  <2>. QED BY <1>3, <2>1, <2>2, <2>3
<1>7. EndsAPacket(t)'
  <2>1. t[Len(t)] = es[Len(es)]
    BY <1>0, <1>1, <1>n
  <2>. QED BY <2>1 DEF EndsAPacket, Tells
<1>8. NotFromLater(t)'
  <2>. SUFFICES ASSUME NEW i \in 1..Len(t) PROVE t[i].era <= taken'
    BY DEF NotFromLater
  <2>1. CASE i \in 1..n
    BY <1>1, <1>n, <2>1 DEF Coherent, NotFromLater
  <2>2. CASE i > n /\ i - n \in 1..Len(es) /\ t[i] = es[i - n]
    <3>1. t[i].era = taken' /\ t[i].era \in Nat
      BY <1>0, <2>2 DEF Tells, Received
    <3>. QED BY <3>1
  <2>. QED BY <1>3, <2>1, <2>2
<1>. QED BY <1>4, <1>5, <1>6, <1>7, <1>8 DEF Coherent

(* The beginning of a queue, a drop, and the end of a packet. *)
LEMMA CutIsCoherent ==
  ASSUME NEW q \in Seq(Received), NEW n \in Nat, n <= Len(q),
         NEW es, NEW r \in Nat, r < Len(es), NEW t, Coherent(q), Tells(es),
         UNCHANGED <<resting, taken>>, taken \in Nat,
         Len(t) = n + 1 + (Len(es) - r), \A i \in 1..n : t[i] = q[i],
         t[n + 1].kind = "dropped", t[n + 1].era = taken,
         \A i \in 1..(Len(es) - r) : t[n + 1 + i] = es[r + i]
  PROVE  Coherent(t)'
<1>0. /\ Len(q) \in Nat /\ Len(es) \in Nat /\ Len(es) > 0
      /\ \A i \in 1..Len(es) : es[i] \in Received
  BY DEF Tells
<1>1. \A i \in 1..n : i \in 1..Len(q) /\ i \in 1..Len(t) /\ t[i] = q[i]
  BY <1>0
<1>2. ASSUME NEW k \in 1..Len(t), k > n + 1
      PROVE  r + (k - n - 1) \in 1..Len(es) /\ t[k] = es[r + (k - n - 1)]
  <2>1. k - n - 1 \in 1..(Len(es) - r) /\ n + 1 + (k - n - 1) = k
        /\ r + (k - n - 1) \in 1..Len(es)
    BY <1>0, <1>2
  <2>. QED BY <2>1
<1>3. \A k \in 1..Len(t) :
        \/ k \in 1..n
        \/ k = n + 1
        \/ k > n + 1 /\ r + (k - n - 1) \in 1..Len(es) /\ t[k] = es[r + (k - n - 1)]
  <2>. SUFFICES ASSUME NEW k \in 1..Len(t), ~(k > n + 1) PROVE k \in 1..n \/ k = n + 1
    BY <1>2
  <2>. QED BY <1>0
<1>4. n + 1 \in 1..Len(t)
  BY <1>0
<1>t. \A i \in 1..Len(es) : es[i].kind \in {"id", "axis"} => es[i].val = contact'[es[i].at]
  BY DEF Tells
<1>5. LastIdHolds(t)'
  <2>. SUFFICES ASSUME NEW i \in 1..Len(t), t[i].kind = "id"
                PROVE  /\ t[i].val # None => t[i].val # resting'
                       /\ (\A j \in 1..Len(t) : j > i => ~Cuts(t[j], t[i].at))
                            => t[i].val = contact'[t[i].at]
    BY DEF LastIdHolds, Cuts
  <2>1. CASE i \in 1..n
    <3>1. n + 1 > i
      BY <2>1
    <3>2. ~(\A j \in 1..Len(t) : j > i => ~Cuts(t[j], t[i].at))
      BY <1>4, <3>1 DEF Cuts
    <3>. QED BY <1>1, <2>1, <3>2 DEF Coherent, LastIdHolds
  <2>2. CASE i = n + 1
    BY <2>2
  <2>3. CASE i > n + 1 /\ r + (i - n - 1) \in 1..Len(es) /\ t[i] = es[r + (i - n - 1)]
    BY <2>3 DEF Tells
  <2>. QED BY <1>3, <2>1, <2>2, <2>3
<1>6. LastKeyHolds(t)'
  <2>. SUFFICES ASSUME NEW i \in 1..Len(t), t[i].kind \in Keys,
                       \A j \in 1..Len(t) : j > i => ~Turns(t[j], t[i].code)
                PROVE  t[i].kind = "press" <=> t[i].code \in pressed'
    BY DEF LastKeyHolds, Turns
  <2>1. CASE i \in 1..n
    <3>1. n + 1 > i
      BY <2>1
    <3>. QED BY <1>4, <3>1 DEF Turns
  <2>2. CASE i = n + 1
    BY <2>2 DEF Keys
  <2>3. CASE i > n + 1 /\ r + (i - n - 1) \in 1..Len(es) /\ t[i] = es[r + (i - n - 1)]
    BY <2>3 DEF Tells
  <2>. QED BY <1>3, <2>1, <2>2, <2>3
<1>7. PositionsFollowIds(t)'
  <2>. SUFFICES ASSUME NEW i \in 1..Len(t), NEW j \in 1..Len(t), i < j,
                       t[i].kind = "id", t[j].kind = "axis", t[j].at = t[i].at,
                       \A k \in 1..Len(t) : i < k /\ k < j => ~Cuts(t[k], t[i].at)
                PROVE  t[j].val = t[i].val
    BY DEF PositionsFollowIds, Cuts
  <2>1. CASE i \in 1..n /\ j \in 1..n
    <3>1. i \in 1..Len(q) /\ j \in 1..Len(q) /\ q[i] = t[i] /\ q[j] = t[j]
      BY <1>1, <2>1
    <3>2. \A k \in 1..Len(q) : i < k /\ k < j => ~Cuts(q[k], q[i].at)
      <4>. SUFFICES ASSUME NEW k \in 1..Len(q), i < k, k < j PROVE ~Cuts(q[k], q[i].at)
        OBVIOUS
      <4>1. k \in 1..n
        BY <1>0, <2>1
      <4>. QED BY <1>1, <3>1, <4>1
    <3>3. PositionsFollowIds(q)
      BY DEF Coherent
    <3>. QED BY <3>1, <3>2, <3>3 DEF PositionsFollowIds
  <2>2. CASE i \in 1..n /\ j > n + 1
    <3>1. i < n + 1 /\ n + 1 < j
      BY <2>2
    <3>. QED BY <1>4, <3>1 DEF Cuts
  <2>3. CASE i = n + 1 \/ j = n + 1
    BY <2>3
  <2>4. CASE i > n + 1
    <3>1. j > n + 1
      BY <2>4
    <3>2. /\ r + (i - n - 1) \in 1..Len(es) /\ t[i] = es[r + (i - n - 1)]
          /\ r + (j - n - 1) \in 1..Len(es) /\ t[j] = es[r + (j - n - 1)]
      BY <1>2, <2>4, <3>1
    <3>3. t[i].val = contact'[t[i].at]
      BY <1>t, <3>2
    <3>4. t[j].val = contact'[t[j].at]
      BY <1>t, <3>2
    <3>. QED BY <3>3, <3>4
  <2>. QED BY <1>3, <2>1, <2>2, <2>3, <2>4
<1>8. EndsAPacket(t)'
  <2>1. Len(es) - r \in 1..(Len(es) - r) /\ n + 1 + (Len(es) - r) = Len(t)
        /\ r + (Len(es) - r) = Len(es)
    BY <1>0
  <2>2. t[Len(t)] = es[Len(es)]
    BY <2>1
  <2>. QED BY <2>2 DEF EndsAPacket, Tells
<1>9. NotFromLater(t)'
  <2>. SUFFICES ASSUME NEW i \in 1..Len(t) PROVE t[i].era <= taken'
    BY DEF NotFromLater
  <2>1. CASE i \in 1..n
    BY <1>1, <2>1 DEF Coherent, NotFromLater
  <2>2. CASE i = n + 1
    BY <2>2
  <2>3. CASE i > n + 1 /\ r + (i - n - 1) \in 1..Len(es) /\ t[i] = es[r + (i - n - 1)]
    <3>1. t[i].era = taken'
      BY <2>3 DEF Tells
    <3>. QED BY <3>1
  <2>. QED BY <1>3, <2>1, <2>2, <2>3
<1>. QED BY <1>5, <1>6, <1>7, <1>8, <1>9 DEF Coherent

(* A queue some of whose key events were taken out, in the order it was. *)
Sieved(q, t, h) ==
  /\ \A i \in 1..Len(t) : h[i] \in 1..Len(q) /\ t[i] = q[h[i]] /\ q[h[i]].kind \notin Keys
  /\ \A i, j \in 1..Len(t) : i < j <=> h[i] < h[j]
  /\ \A k \in 1..Len(q) : q[k].kind \notin Keys => \E i \in 1..Len(t) : h[i] = k

LEMMA SievedIsCoherent ==
  ASSUME NEW q \in Seq(Received), NEW t, NEW h, Len(t) \in Nat, Sieved(q, t, h), Coherent(q)
  PROVE  Coherent(t)
<1>0. Len(q) \in Nat
  OBVIOUS
<1>1. \A k \in 1..Len(q) : q[k].kind \notin Keys => \E i \in 1..Len(t) : h[i] = k /\ t[i] = q[k]
  BY DEF Sieved
<1>2. LastIdHolds(t)
  <2>. SUFFICES ASSUME NEW i \in 1..Len(t), t[i].kind = "id"
                PROVE  /\ t[i].val # None => t[i].val # resting
                       /\ (\A j \in 1..Len(t) : j > i => ~Cuts(t[j], t[i].at))
                            => t[i].val = contact[t[i].at]
    BY DEF LastIdHolds
  <2>1. h[i] \in 1..Len(q) /\ t[i] = q[h[i]]
    BY DEF Sieved
  <2>2. ASSUME \A j \in 1..Len(t) : j > i => ~Cuts(t[j], t[i].at)
        PROVE  \A k \in 1..Len(q) : k > h[i] => ~Cuts(q[k], q[h[i]].at)
    <3>. SUFFICES ASSUME NEW k \in 1..Len(q), k > h[i], Cuts(q[k], q[h[i]].at) PROVE FALSE
      OBVIOUS
    <3>1. PICK j \in 1..Len(t) : h[j] = k /\ t[j] = q[k]
      BY <1>1 DEF Cuts, Keys
    <3>2. j > i
      BY <2>1, <3>1 DEF Sieved
    <3>. QED BY <2>1, <2>2, <3>1, <3>2
  <2>. QED BY <2>1, <2>2 DEF Coherent, LastIdHolds
<1>3. LastKeyHolds(t)
  BY DEF LastKeyHolds, Sieved
<1>4. PositionsFollowIds(t)
  <2>. SUFFICES ASSUME NEW i \in 1..Len(t), NEW j \in 1..Len(t), i < j,
                       t[i].kind = "id", t[j].kind = "axis", t[j].at = t[i].at,
                       \A k \in 1..Len(t) : i < k /\ k < j => ~Cuts(t[k], t[i].at)
                PROVE  t[j].val = t[i].val
    BY DEF PositionsFollowIds
  <2>1. /\ h[i] \in 1..Len(q) /\ t[i] = q[h[i]] /\ h[j] \in 1..Len(q) /\ t[j] = q[h[j]]
        /\ h[i] < h[j]
    BY DEF Sieved
  <2>2. \A k \in 1..Len(q) : h[i] < k /\ k < h[j] => ~Cuts(q[k], q[h[i]].at)
    <3>. SUFFICES ASSUME NEW k \in 1..Len(q), h[i] < k, k < h[j], Cuts(q[k], q[h[i]].at)
                  PROVE  FALSE
      OBVIOUS
    <3>1. PICK m \in 1..Len(t) : h[m] = k /\ t[m] = q[k]
      BY <1>1 DEF Cuts, Keys
    <3>2. i < m /\ m < j
      BY <2>1, <3>1 DEF Sieved
    <3>. QED BY <2>1, <3>1, <3>2
  <2>3. PositionsFollowIds(q)
    BY DEF Coherent
  <2>. QED BY <2>1, <2>2, <2>3 DEF PositionsFollowIds
<1>5. EndsAPacket(t)
  <2>. SUFFICES ASSUME Len(t) > 0 PROVE t[Len(t)].kind = "sync"
    BY DEF EndsAPacket
  <2>1. Len(t) \in 1..Len(t)
    OBVIOUS
  <2>2. h[Len(t)] \in 1..Len(q) /\ t[Len(t)] = q[h[Len(t)]]
    BY <2>1 DEF Sieved
  <2>3. Len(q) \in 1..Len(q) /\ q[Len(q)].kind = "sync"
    BY <1>0, <2>2 DEF Coherent, EndsAPacket
  <2>4. PICK i \in 1..Len(t) : h[i] = Len(q)
    BY <2>3 DEF Sieved, Keys
  <2>5. ~(i < Len(t))
    BY <1>0, <2>1, <2>2, <2>4 DEF Sieved
  <2>6. i = Len(t)
    BY <2>5
  <2>. QED BY <2>2, <2>3, <2>4, <2>6
<1>6. NotFromLater(t)
  BY DEF Coherent, NotFromLater, Sieved
<1>. QED BY <1>2, <1>3, <1>4, <1>5, <1>6 DEF Coherent

-----------------------------------------------------------------------------
(* What the kernel's queue becomes.                                         *)

(* A remainder is below the divisor and not above what was divided. *)
LEMMA RemainderBound ==
  ASSUME NEW a \in Nat, NEW b \in Nat \ {0}
  PROVE  a % b \in Nat /\ a % b < b /\ a % b <= a
<1>1. a = b * (a \div b) + (a % b) /\ a \div b \in Int /\ a % b \in 0..(b - 1)
  BY SMT
<1>2. a \div b >= 0
  BY <1>1, SMT
<1>3. b * (a \div b) >= 0
  BY <1>1, <1>2, SMT
<1>. QED BY <1>1, <1>3, SMT

(* What a queue is behind a packet: the packet follows it, or follows the   *)
(* first n events and a drop, without its beginning.                        *)
Appended(t, q, es) ==
  /\ Len(t) = Len(q) + Len(es)
  /\ \A i \in 1..Len(q) : t[i] = q[i]
  /\ \A i \in 1..Len(es) : t[Len(q) + i] = es[i]
Broken(t, q, n, es, r) ==
  /\ r < Len(es) /\ Len(t) = n + 1 + (Len(es) - r)
  /\ \A i \in 1..n : t[i] = q[i]
  /\ t[n + 1].kind = "dropped" /\ t[n + 1].era = taken
  /\ \A i \in 1..(Len(es) - r) : t[n + 1 + i] = es[r + i]
Follows(t, q, n, es) == Appended(t, q, es) \/ \E r \in Nat : Broken(t, q, n, es, r)

(* A packet fits behind what is queued, or its end stays behind a drop. *)
LEMMA PushForm ==
  ASSUME StreamAssumption, taken \in Nat,
         NEW q \in Seq(Received), NEW es \in Seq(Received), Len(q) <= Capacity, Len(es) > 0,
         NEW t, t = Push(q, es)
  PROVE  /\ t \in Seq(Received) /\ Len(t) <= Capacity
         /\ Follows(t, q, 0, es)
<1>0. Len(q) \in Nat /\ Len(es) \in Nat /\ Capacity \in Nat \ {0, 1}
  BY DEF StreamAssumption
<1>. DEFINE over == Len(q) + Len(es) - Capacity
<1>1. CASE over <= 0
  <2>1. t = q \o es
    BY <1>1 DEF Push
  <2>2. Len(t) = Len(q) + Len(es) /\ t \in Seq(Received)
    BY <2>1, ConcatProperties
  <2>3. \A i \in 1..(Len(q) + Len(es)) : t[i] = IF i <= Len(q) THEN q[i] ELSE es[i - Len(q)]
    BY <2>1, ConcatProperties
  <2>4. \A i \in 1..Len(q) : t[i] = q[i]
    BY <1>0, <2>3
  <2>5. ASSUME NEW i \in 1..Len(es) PROVE t[Len(q) + i] = es[i]
    <3>1. Len(q) + i \in 1..(Len(q) + Len(es)) /\ ~(Len(q) + i <= Len(q)) /\ (Len(q) + i) - Len(q) = i
      BY <1>0
    <3>. QED BY <2>3, <3>1
  <2>6. Len(t) <= Capacity
    BY <1>0, <1>1, <2>2
  <2>7. Appended(t, q, es)
    BY <2>2, <2>4, <2>5 DEF Appended
  <2>. QED BY <2>2, <2>6, <2>7 DEF Follows
<1>2. CASE ~(over <= 0)
  <2>. DEFINE rest == (over - 1) % (Capacity - 1)
              left == 1 + rest
              r    == Len(es) - left
              d    == Arrival("dropped", None, None, None)
              end  == SubSeq(es, Len(es) - left + 1, Len(es))
  <2>1. t = <<d>> \o end
    BY <1>2 DEF Push
  <2>2. over - 1 \in Nat /\ over \in Int /\ Capacity - 1 \in Nat \ {0} /\ over <= Len(es)
    BY <1>0, <1>2
  <2>3. rest \in Nat /\ rest < Capacity - 1 /\ rest <= over - 1
    <3>. HIDE DEF over
    <3>. QED BY <2>2, RemainderBound
  <2>. HIDE DEF rest, over
  <2>4. /\ r \in Nat /\ r < Len(es) /\ Len(es) - left + 1 = r + 1 /\ Len(es) - r = left
        /\ left <= Capacity - 1 /\ left \in Nat
    BY <1>0, <2>2, <2>3
  <2>5. d \in Received /\ d.kind = "dropped" /\ d.era = taken
    BY DEF Arrival, Received, Kinds, Keys
  <2>. HIDE DEF d, left
  <2>6. /\ end \in Seq(Received) /\ Len(end) = Len(es) - r
        /\ \A i \in 1..(Len(es) - r) : end[i] = es[r + i]
    <3>1. \A i \in (r + 1)..Len(es) : es[i] \in Received
      BY <1>0, <2>4
    <3>2. r + 1 \in Int /\ Len(es) \in Int /\ end = SubSeq(es, r + 1, Len(es))
      BY <1>0, <2>4
    <3>. HIDE DEF end, r
    <3>3. /\ end \in Seq(Received)
          /\ Len(end) = IF r + 1 <= Len(es) THEN Len(es) - (r + 1) + 1 ELSE 0
          /\ \A i \in 1..(Len(es) - (r + 1) + 1) : end[i] = es[r + 1 + i - 1]
      BY <3>1, <3>2, SubSeqProperties
    <3>4. Len(end) = Len(es) - r /\ Len(es) - (r + 1) + 1 = Len(es) - r
      BY <1>0, <2>4, <3>3
    <3>5. ASSUME NEW i \in 1..(Len(es) - r) PROVE end[i] = es[r + i]
      <4>1. r + 1 + i - 1 = r + i
        BY <2>4
      <4>. QED BY <3>3, <3>4, <4>1
    <3>. QED BY <3>3, <3>4, <3>5
  <2>. HIDE DEF end, r
  <2>7. /\ <<d>> \in Seq(Received) /\ Len(<<d>>) = 1 /\ <<d>>[1] = d
    BY <2>5
  <2>8. /\ t \in Seq(Received) /\ Len(t) = 1 + Len(end)
        /\ \A i \in 1..(1 + Len(end)) : t[i] = IF i <= 1 THEN <<d>>[i] ELSE end[i - 1]
    BY <2>1, <2>6, <2>7, ConcatProperties
  <2>9. t[1] = d
    BY <1>0, <2>4, <2>6, <2>7, <2>8
  <2>10. ASSUME NEW i \in 1..(Len(es) - r) PROVE t[1 + i] = es[r + i]
    <3>1. 1 + i \in 1..(1 + Len(end)) /\ ~(1 + i <= 1) /\ (1 + i) - 1 = i
      BY <1>0, <2>4, <2>6
    <3>. QED BY <2>6, <2>8, <3>1
  <2>11. Len(t) <= Capacity /\ Len(t) = 1 + (Len(es) - r)
    BY <1>0, <2>4, <2>6, <2>8
  <2>12. Broken(t, q, 0, es, r)
    <3>1. 1..0 = {} /\ 0 + 1 = 1 /\ \A i \in 1..(Len(es) - r) : 0 + 1 + i = 1 + i
      BY <1>0, <2>4
    <3>2. t[0 + 1] = d /\ Len(t) = 0 + 1 + (Len(es) - r)
      BY <2>9, <2>11, <3>1
    <3>. QED BY <2>4, <2>5, <2>10, <3>1, <3>2 DEF Broken
  <2>. QED BY <2>4, <2>8, <2>11, <2>12 DEF Follows
<1>. QED BY <1>1, <1>2

(* Some numbers have a least. *)
LEMMA LeastNat ==
  ASSUME NEW S \in SUBSET Nat, S # {}
  PROVE  \E m \in S : \A n \in S : m <= n
<1>1. PICK m \in S : \A n \in S : ~(<<n, m>> \in OpToRel(<, Nat))
  BY WFMin, NatLessThanWellFounded
<1>2. \A n \in S : ~(n < m)
  BY <1>1 DEF OpToRel
<1>. QED BY <1>2

(* A set of numbers up to n can be listed in order. *)
Listed(R) == \E f \in [1..Cardinality(R) -> R] : \A i, j \in 1..Cardinality(R) : i < j => f[i] < f[j]
Listable(n) == \A R \in SUBSET (1..n) : IsFiniteSet(R) /\ Cardinality(R) \in Nat /\ Listed(R)

LEMMA ListOneMore ==
  ASSUME NEW n \in Nat, Listable(n)
  PROVE  Listable(n + 1)
<1>. SUFFICES ASSUME NEW R \in SUBSET (1..(n + 1))
              PROVE  IsFiniteSet(R) /\ Cardinality(R) \in Nat /\ Listed(R)
  BY DEF Listable
<1>. DEFINE Q == R \ {n + 1}
<1>1. Q \in SUBSET (1..n)
  OBVIOUS
<1>2. IsFiniteSet(Q) /\ Cardinality(Q) \in Nat /\ Listed(Q)
  BY <1>1 DEF Listable
<1>3. CASE n + 1 \notin R
  <2>1. Q = R
    BY <1>3
  <2>. QED BY <1>2, <2>1
<1>4. CASE n + 1 \in R
  <2>1. R = Q \cup {n + 1} /\ n + 1 \notin Q
    BY <1>4
  <2>. DEFINE c == Cardinality(Q)
  <2>2. IsFiniteSet(R) /\ Cardinality(R) = c + 1
    <3>. HIDE DEF Q
    <3>1. IsFiniteSet(Q \cup {n + 1}) /\ Cardinality(Q \cup {n + 1}) = Cardinality(Q) + 1
      BY <1>2, <2>1, FS_AddElement
    <3>. QED BY <2>1, <3>1
  <2>3. PICK f \in [1..c -> Q] : \A i, j \in 1..c : i < j => f[i] < f[j]
    BY <1>2 DEF Listed
  <2>c. c \in Nat
    BY <1>2
  <2>. HIDE DEF c
  <2>4. PICK g : g = [i \in 1..(c + 1) |-> IF i = c + 1 THEN n + 1 ELSE f[i]]
    OBVIOUS
  <2>5. ASSUME NEW i \in 1..(c + 1) PROVE g[i] \in R /\ (i # c + 1 => i \in 1..c /\ g[i] = f[i])
    BY <1>4, <2>c, <2>3, <2>4
  <2>6. g \in [1..(c + 1) -> R]
    BY <2>4, <2>5
  <2>7. ASSUME NEW i \in 1..(c + 1), NEW j \in 1..(c + 1), i < j PROVE g[i] < g[j]
    <3>1. i # c + 1 /\ i \in 1..c /\ g[i] = f[i]
      BY <2>c, <2>5, <2>7
    <3>2. CASE j = c + 1
      <4>1. g[j] = n + 1 /\ f[i] \in 1..n
        BY <1>1, <2>3, <2>4, <3>1, <3>2
      <4>. QED BY <3>1, <4>1
    <3>3. CASE j # c + 1
      <4>1. j \in 1..c /\ g[j] = f[j]
        BY <2>5, <3>3
      <4>. QED BY <2>3, <2>7, <3>1, <4>1
    <3>. QED BY <3>2, <3>3
  <2>8. Listed(R)
    BY <2>2, <2>6, <2>7 DEF Listed
  <2>. QED BY <2>2, <2>8, <2>c
<1>. QED BY <1>3, <1>4

LEMMA AllListed == \A n \in Nat : Listable(n)
<1>. SUFFICES ASSUME NEW n \in Nat, ~Listable(n) PROVE FALSE
  OBVIOUS
<1>. DEFINE bad == {m \in Nat : ~Listable(m)}
<1>1. PICK m \in bad : \A k \in bad : m <= k
  BY LeastNat
<1>2. m # 0
  <2>1. Listable(0)
    <3>. SUFFICES ASSUME NEW R \in SUBSET (1..0)
                  PROVE  IsFiniteSet(R) /\ Cardinality(R) \in Nat /\ Listed(R)
      BY DEF Listable
    <3>1. R = {}
      OBVIOUS
    <3>2. IsFiniteSet(R) /\ Cardinality(R) = 0
      BY <3>1, FS_EmptySet
    <3>3. PICK f : f = [i \in 1..0 |-> 0]
      OBVIOUS
    <3>4. f \in [1..0 -> R] /\ \A i, j \in 1..0 : i < j => f[i] < f[j]
      BY <3>3
    <3>5. Listed(R)
      BY <3>2, <3>4 DEF Listed
    <3>. QED BY <3>2, <3>5
  <2>. QED BY <1>1, <2>1
<1>3. m - 1 \in Nat /\ (m - 1) + 1 = m /\ ~(m <= m - 1)
  BY <1>1, <1>2
<1>4. Listable(m - 1)
  BY <1>1, <1>3
<1>5. Listable(m)
  BY <1>3, <1>4, ListOneMore
<1>. QED BY <1>1, <1>5

(* What EVIOCGKEY leaves of the queue: all but the key events, in order. *)
LEMMA KeyFreeForm ==
  ASSUME NEW q \in Seq(Received), NEW t, t = KeyFree(q)
  PROVE  /\ t \in Seq(Received) /\ Len(t) <= Len(q)
         /\ \E h : Sieved(q, t, h)
<1>0. Len(q) \in Nat /\ DOMAIN q = 1..Len(q)
  OBVIOUS
<1>. DEFINE R == {k \in DOMAIN q : q[k].kind \notin {"press", "release"}}
            c == Cardinality(R)
            order == CHOOSE f \in [1..c -> R] : \A i, j \in DOMAIN f : i < j => f[i] < f[j]
<1>1. IsFiniteSet(R) /\ c \in Nat /\ Listed(R)
  BY <1>0, AllListed DEF Listable
<1>2. \E f \in [1..c -> R] : \A i, j \in DOMAIN f : i < j => f[i] < f[j]
  BY <1>1 DEF Listed
<1>3. order \in [1..c -> R] /\ \A i, j \in DOMAIN order : i < j => order[i] < order[j]
  BY <1>2
<1>4. t = [i \in DOMAIN order |-> q[order[i]]]
  BY DEF KeyFree
<1>. HIDE DEF order
<1>5. c <= Len(q)
  <2>1. IsFiniteSet(1..Len(q)) /\ Cardinality(1..Len(q)) = Len(q)
    BY <1>0, FS_Interval
  <2>2. R \in SUBSET (1..Len(q))
    BY <1>0
  <2>. HIDE DEF R
  <2>. QED BY <2>1, <2>2, FS_Subset
<1>6. \A i \in 1..c : order[i] \in 1..Len(q) /\ q[order[i]].kind \notin Keys
  BY <1>0, <1>3 DEF Keys
<1>7. \A i, j \in 1..c : i < j => order[i] < order[j]
  BY <1>3
<1>8. ASSUME NEW k \in R PROVE \E i \in 1..c : order[i] = k
  <2>. SUFFICES ASSUME \A i \in 1..c : order[i] # k PROVE FALSE
    OBVIOUS
  <2>1. order \in [1..c -> R \ {k}]
    BY <1>3
  <2>2. IsFiniteSet(R \ {k}) /\ Cardinality(R \ {k}) = c - 1
    BY <1>1, <1>8, FS_RemoveElement
  <2>3. IsFiniteSet(1..c) /\ Cardinality(1..c) = c
    BY <1>1, FS_Interval
  <2>4. PICK S, T : S = 1..c /\ T = R \ {k}
    OBVIOUS
  <2>5. \E x, y \in 1..c : x # y /\ order[x] = order[y]
    <3>1. order \in [S -> T] /\ IsFiniteSet(S) /\ IsFiniteSet(T)
      BY <2>1, <2>2, <2>3, <2>4
    <3>2. Cardinality(T) < Cardinality(S)
      <4>. HIDE DEF R, c
      <4>. QED BY <1>1, <2>2, <2>3, <2>4
    <3>3. \E x, y \in S : x # y /\ order[x] = order[y]
      BY <3>1, <3>2, FS_PigeonHole
    <3>. QED BY <2>4, <3>3
  <2>6. PICK x \in 1..c, y \in 1..c : x # y /\ order[x] = order[y]
    BY <2>5
  <2>7. order[x] \in Nat /\ (x < y \/ y < x)
    BY <1>6, <2>6
  <2>. QED BY <1>7, <2>6, <2>7
<1>9. t = [i \in 1..c |-> q[order[i]]]
  BY <1>3, <1>4
<1>10. t \in Seq(Received) /\ Len(t) = c
  <2>1. \A i \in 1..c : q[order[i]] \in Received
    BY <1>6
  <2>. HIDE DEF c
  <2>. QED BY <1>1, <1>9, <2>1
<1>11. ASSUME NEW i \in 1..c, NEW j \in 1..c PROVE i < j <=> order[i] < order[j]
  <2>1. order[i] \in Nat /\ order[j] \in Nat
    BY <1>6
  <2>2. i < j \/ j < i \/ i = j
    OBVIOUS
  <2>. QED BY <1>7, <2>1, <2>2
<1>12. \A k \in 1..Len(q) : q[k].kind \notin Keys => k \in R
  BY <1>0 DEF Keys
<1>13. Sieved(q, t, order)
  BY <1>6, <1>8, <1>9, <1>10, <1>11, <1>12 DEF Sieved
<1>. QED BY <1>5, <1>10, <1>13

-----------------------------------------------------------------------------
(* What the kernel queues tells where the touches and buttons are.          *)

(* The positions measured of a touch, in whatever order. *)
LEMMA MeasuredForm ==
  ASSUME StreamAssumption, taken \in Nat, NEW s \in Slots, NEW id \in Ids,
         NEW axes \in SUBSET Axes, NEW m, m = Measured(s, id, axes)
  PROVE  /\ m \in Seq(Received)
         /\ \A i \in 1..Len(m) : /\ m[i].kind = "axis" /\ m[i].at = s /\ m[i].val = id
                                 /\ m[i].era = taken
<1>. DEFINE S == {Arrival("axis", a, id, s) : a \in axes}
<1>1. \A e \in S : /\ e \in Received /\ e.kind = "axis" /\ e.at = s /\ e.val = id
                   /\ e.era = taken
  BY DEF Arrival, Received, Kinds, Keys
<1>2. IsFiniteSet(S)
  <2>1. IsFiniteSet(axes)
    BY FS_Subset DEF StreamAssumption
  <2>2. PICK f : f = [a \in axes |-> Arrival("axis", a, id, s)]
    OBVIOUS
  <2>3. f \in Surjection(axes, S)
    BY <2>2 DEF Surjection
  <2>. QED BY <2>1, <2>3, FS_Surjection
<1>3. Cardinality(S) \in Nat /\ ExistsBijection(1..Cardinality(S), S)
  BY <1>2, FS_CardinalityType
<1>4. \E f \in [1..Cardinality(S) -> S] : IsInjective(f)
  BY <1>3 DEF ExistsBijection, Bijection, Injection, IsInjective
<1>5. m = SetToSeq(S)
  BY DEF Measured
<1>. HIDE DEF S
<1>6. m \in [1..Cardinality(S) -> S]
  BY <1>4, <1>5 DEF SetToSeq
<1>. QED BY <1>1, <1>3, <1>6

(* A packet: the slot if it is another one, its events, and the end. *)
IsPacket(p, es, d) ==
  /\ p \in Seq(Received) /\ Len(p) > 0 /\ p[Len(p)].kind = "sync"
  /\ Len(p) = d + Len(es) + 1 /\ \A i \in 1..Len(es) : p[d + i] = es[i]
  /\ \A i \in 1..Len(p) :
       /\ p[i].kind # "dropped" /\ p[i].era = taken
       /\ p[i].kind \notin {"slot", "sync"} => i - d \in 1..Len(es) /\ p[i] = es[i - d]

Packed(p, es) == \E d \in {0, 1} : IsPacket(p, es, d)

LEMMA PacketForm ==
  ASSUME taken \in Nat, NEW s \in Slots, NEW es \in Seq(Received),
         \A i \in 1..Len(es) : es[i].kind # "dropped" /\ es[i].era = taken,
         NEW p, p = Append(InSlot(s, es), Arrival("sync", None, None, None))
  PROVE  Packed(p, es)
<1>0. Len(es) \in Nat /\ \A i \in 1..Len(es) : es[i] \in Received
  OBVIOUS
<1>1. PICK g, z : g = Arrival("slot", None, s, s) /\ z = Arrival("sync", None, None, None)
  OBVIOUS
<1>2. /\ g \in Received /\ g.kind = "slot" /\ g.era = taken
      /\ z \in Received /\ z.kind = "sync" /\ z.era = taken
  BY <1>1 DEF Arrival, Received, Kinds, Keys
<1>3. PICK d \in {0, 1}, b \in Seq(Received) :
        /\ InSlot(s, es) = b /\ Len(b) = d + Len(es) /\ \A i \in 1..Len(es) : b[d + i] = es[i]
        /\ d = 1 => b[1] = g
  <2>1. CASE s = kslot
    <3>1. InSlot(s, es) = es
      BY <2>1 DEF InSlot
    <3>. QED BY <1>0, <3>1
  <2>2. CASE s # kslot
    <3>1. InSlot(s, es) = <<g>> \o es
      BY <1>1, <2>2 DEF InSlot
    <3>2. <<g>> \in Seq(Received) /\ Len(<<g>>) = 1 /\ <<g>>[1] = g
      BY <1>2
    <3>3. /\ <<g>> \o es \in Seq(Received) /\ Len(<<g>> \o es) = 1 + Len(es)
          /\ \A i \in 1..(1 + Len(es)) : (<<g>> \o es)[i] = IF i <= 1 THEN <<g>>[i] ELSE es[i - 1]
      BY <3>2, ConcatProperties
    <3>4. ASSUME NEW i \in 1..Len(es) PROVE (<<g>> \o es)[1 + i] = es[i]
      <4>1. 1 + i \in 1..(1 + Len(es)) /\ ~(1 + i <= 1) /\ (1 + i) - 1 = i
        BY <1>0
      <4>. QED BY <3>3, <4>1
    <3>5. (<<g>> \o es)[1] = g
      BY <1>0, <3>2, <3>3
    <3>. QED BY <3>1, <3>3, <3>4, <3>5
  <2>. QED BY <2>1, <2>2
<1>4. /\ p \in Seq(Received) /\ Len(p) = Len(b) + 1 /\ p[Len(b) + 1] = z
      /\ \A i \in 1..Len(b) : p[i] = b[i]
  BY <1>1, <1>2, <1>3
<1>5. \A i \in 1..Len(es) : d + i \in 1..Len(b) /\ p[d + i] = es[i]
  BY <1>0, <1>3, <1>4
<1>6. ASSUME NEW i \in 1..Len(p)
      PROVE  \/ p[i] = g
             \/ p[i] = z
             \/ i - d \in 1..Len(es) /\ p[i] = es[i - d]
  <2>1. CASE i = Len(b) + 1
    BY <1>4, <2>1
  <2>2. CASE i # Len(b) + 1 /\ d = 1 /\ i = 1
    <3>1. 1 \in 1..Len(b)
      BY <1>0, <1>3, <2>2
    <3>. QED BY <1>3, <1>4, <2>2, <3>1
  <2>3. CASE i # Len(b) + 1 /\ ~(d = 1 /\ i = 1)
    <3>1. i - d \in 1..Len(es) /\ d + (i - d) = i
      BY <1>0, <1>3, <1>4, <2>3
    <3>. QED BY <1>5, <3>1
  <2>. QED BY <2>1, <2>2, <2>3
<1>7. Len(p) = d + Len(es) + 1 /\ Len(p) > 0 /\ p[Len(p)] = z
  BY <1>0, <1>3, <1>4
<1>8. \A i \in 1..Len(p) :
        /\ p[i].kind # "dropped" /\ p[i].era = taken
        /\ p[i].kind \notin {"slot", "sync"} => i - d \in 1..Len(es) /\ p[i] = es[i - d]
  BY <1>2, <1>6
<1>9. IsPacket(p, es, d)
  BY <1>2, <1>4, <1>5, <1>7, <1>8 DEF IsPacket
<1>. QED BY <1>9 DEF Packed

(* What every packet does, whatever it tells. *)
Queues(es) ==
  /\ queue' = Push(queue, es)
  /\ packets' \in 0..MaxPackets
  /\ torn' = (torn \/ sync = "Recovering")
  /\ UNCHANGED <<decoder, batch, asked, answer, taken, backlog, history, resting>>

LEMMA ReportQueues ==
  ASSUME StreamAssumption, StreamTyped, NEW es, Report(es)
  PROVE  Queues(Append(es, Arrival("sync", None, None, None)))
BY DEF Report, Queues, StreamTyped, StreamAssumption

LEMMA TouchTells ==
  ASSUME StreamAssumption, DecoderAssumption, StreamTyped, KernelBooks, Touch
  PROVE  KernelBooks' /\ \E p : Tells(p) /\ Queues(p)
<1>1. PICK s \in Slots, axes \in SUBSET Axes :
        /\ contact[s] = None /\ next \in Ids
        /\ contact' = [contact EXCEPT ![s] = next]
        /\ owner' = [owner EXCEPT ![s] = next]
        /\ next' = next + 1 /\ kslot' = s
        /\ Report(InSlot(s, <<Arrival("id", None, next, s)>> \o Measured(s, next, axes)))
        /\ UNCHANGED pressed
  BY DEF Touch
<1>2. PICK m : m = Measured(s, next, axes)
  OBVIOUS
<1>3. PICK g : g = Arrival("id", None, next, s)
  OBVIOUS
<1>t. taken \in Nat /\ None \notin Ids
  BY DecoderAssumption DEF StreamTyped
<1>4. /\ m \in Seq(Received)
      /\ \A i \in 1..Len(m) : /\ m[i].kind = "axis" /\ m[i].at = s /\ m[i].val = next
                              /\ m[i].era = taken
  BY <1>1, <1>2, <1>t, MeasuredForm
<1>5. /\ g \in Received /\ g.kind = "id" /\ g.at = s /\ g.val = next /\ g.era = taken
  BY <1>1, <1>3, <1>t DEF Arrival, Received, Kinds, Keys
<1>6. PICK es \in Seq(Received) :
        /\ es = <<g>> \o m /\ Len(es) = 1 + Len(m) /\ es[1] = g
        /\ \A i \in 1..Len(es) : i > 1 => i - 1 \in 1..Len(m) /\ es[i] = m[i - 1]
  <2>1. /\ <<g>> \in Seq(Received) /\ Len(<<g>>) = 1 /\ <<g>>[1] = g /\ Len(m) \in Nat
    BY <1>4, <1>5
  <2>2. /\ <<g>> \o m \in Seq(Received) /\ Len(<<g>> \o m) = 1 + Len(m)
        /\ \A i \in 1..(1 + Len(m)) : (<<g>> \o m)[i] = IF i <= 1 THEN <<g>>[i] ELSE m[i - 1]
    BY <1>4, <2>1, ConcatProperties
  <2>3. (<<g>> \o m)[1] = g
    BY <2>1, <2>2
  <2>4. \A i \in 1..(1 + Len(m)) : i > 1 => i - 1 \in 1..Len(m) /\ ~(i <= 1)
    BY <2>1
  <2>. QED BY <2>2, <2>3, <2>4
<1>7. \A i \in 1..Len(es) :
        /\ es[i].era = taken /\ es[i].val = next /\ es[i].at = s
        /\ es[i].kind = IF i = 1 THEN "id" ELSE "axis"
  <2>. SUFFICES ASSUME NEW i \in 1..Len(es)
                PROVE  /\ es[i].era = taken /\ es[i].val = next /\ es[i].at = s
                       /\ es[i].kind = IF i = 1 THEN "id" ELSE "axis"
    OBVIOUS
  <2>1. CASE i = 1
    BY <1>5, <1>6, <2>1
  <2>2. CASE i # 1
    <3>1. i - 1 \in 1..Len(m) /\ es[i] = m[i - 1]
      BY <1>6, <2>2
    <3>. QED BY <1>4, <2>2, <3>1
  <2>. QED BY <2>1, <2>2
<1>8. PICK p : p = Append(InSlot(s, es), Arrival("sync", None, None, None))
  OBVIOUS
<1>9. Queues(p)
  BY <1>1, <1>2, <1>3, <1>6, <1>8, ReportQueues
<1>9a. PICK d \in {0, 1} : IsPacket(p, es, d)
  <2>1. \A i \in 1..Len(es) : es[i].kind # "dropped" /\ es[i].era = taken
    BY <1>7
  <2>2. Packed(p, es)
    BY <1>8, <1>t, <2>1, PacketForm
  <2>. QED BY <2>2 DEF Packed
<1>10. /\ p \in Seq(Received) /\ Len(p) > 0 /\ p[Len(p)].kind = "sync"
       /\ Len(p) = d + Len(es) + 1 /\ \A i \in 1..Len(es) : p[d + i] = es[i]
       /\ \A i \in 1..Len(p) :
            /\ p[i].kind # "dropped" /\ p[i].era = taken
            /\ p[i].kind \notin {"slot", "sync"} => i - d \in 1..Len(es) /\ p[i] = es[i - d]
  BY <1>9a DEF IsPacket
<1>11. /\ contact' \in [Slots -> Ids \cup {None}] /\ contact'[s] = next
       /\ \A u \in Slots : u # s => contact'[u] = contact[u]
       /\ pressed' = pressed
  BY <1>1 DEF KernelBooks
<1>12. next # resting
  BY <1>1, <1>t DEF KernelBooks
<1>13. \A i \in 1..Len(p) : p[i].kind \notin {"slot", "sync"} =>
         /\ p[i].val = next /\ p[i].at = s
         /\ p[i].kind = IF i = d + 1 THEN "id" ELSE "axis"
  <2>. SUFFICES ASSUME NEW i \in 1..Len(p), p[i].kind \notin {"slot", "sync"}
                PROVE  /\ p[i].val = next /\ p[i].at = s
                       /\ p[i].kind = IF i = d + 1 THEN "id" ELSE "axis"
    OBVIOUS
  <2>1. i - d \in 1..Len(es) /\ p[i] = es[i - d]
    BY <1>10
  <2>2. i - d = 1 <=> i = d + 1
    OBVIOUS
  <2>. QED BY <1>7, <2>1, <2>2
<1>14. d + 1 \in 1..Len(p) /\ p[d + 1].kind = "id" /\ p[d + 1].at = s
       /\ \A j \in 1..Len(p) : p[j].kind = "axis" => d + 1 < j
  <2>0. Len(es) \in Nat /\ Len(m) \in Nat
    BY <1>4
  <2>1. 1 \in 1..Len(es) /\ d + 1 \in 1..Len(p)
    BY <1>6, <1>10, <2>0
  <2>2. p[d + 1].kind = "id" /\ p[d + 1].at = s
    BY <1>5, <1>6, <1>10, <2>1
  <2>3. ASSUME NEW j \in 1..Len(p), p[j].kind = "axis" PROVE d + 1 < j
    <3>1. j # d + 1 /\ j - d \in 1..Len(es)
      BY <1>10, <1>13, <2>3
    <3>. QED BY <3>1
  <2>. QED BY <2>1, <2>2, <2>3
<1>15. Tells(p)
  BY <1>10, <1>11, <1>12, <1>13, <1>14 DEF Tells, Keys
<1>16. KernelBooks'
  <2>1. resting' = resting /\ pressed' = pressed /\ next' = next + 1 /\ kslot' = s
    BY <1>1, <1>9 DEF Queues
  <2>2. owner' \in [Slots -> Ids \cup {None}]
        /\ \A u \in Slots : contact'[u] # None => owner'[u] = contact'[u]
    BY <1>1, <1>11 DEF KernelBooks
  <2>. QED BY <1>11, <2>1, <2>2 DEF KernelBooks
<1>. QED BY <1>9, <1>15, <1>16

LEMMA MoveTells ==
  ASSUME StreamAssumption, DecoderAssumption, StreamTyped, KernelBooks, Move
  PROVE  KernelBooks' /\ \E p : Tells(p) /\ Queues(p)
<1>1. PICK s \in Slots, axes \in SUBSET Axes :
        /\ contact[s] # None /\ kslot' = s
        /\ Report(InSlot(s, Measured(s, contact[s], axes)))
        /\ UNCHANGED <<contact, owner, pressed, next>>
  BY DEF Move
<1>0. PICK id : id = contact[s]
  OBVIOUS
<1>2. PICK m : m = Measured(s, id, axes)
  OBVIOUS
<1>t. taken \in Nat /\ id \in Ids
  BY <1>0, <1>1 DEF StreamTyped, KernelBooks
<1>4. /\ m \in Seq(Received)
      /\ \A i \in 1..Len(m) : /\ m[i].kind = "axis" /\ m[i].at = s /\ m[i].val = id
                              /\ m[i].era = taken
  <2>1. axes \in SUBSET Axes
    BY <1>1
  <2>. QED BY <1>2, <1>t, <2>1, MeasuredForm
<1>8. PICK p : p = Append(InSlot(s, m), Arrival("sync", None, None, None))
  OBVIOUS
<1>9. Queues(p)
  BY <1>0, <1>1, <1>2, <1>8, ReportQueues
<1>9a. PICK d \in {0, 1} : IsPacket(p, m, d)
  <2>1. \A i \in 1..Len(m) : m[i].kind # "dropped" /\ m[i].era = taken
    BY <1>4
  <2>2. Packed(p, m)
    BY <1>4, <1>8, <1>t, <2>1, PacketForm
  <2>. QED BY <2>2 DEF Packed
<1>10. /\ p \in Seq(Received) /\ Len(p) > 0 /\ p[Len(p)].kind = "sync"
       /\ \A i \in 1..Len(p) :
            /\ p[i].kind # "dropped" /\ p[i].era = taken
            /\ p[i].kind \notin {"slot", "sync"} => i - d \in 1..Len(m) /\ p[i] = m[i - d]
  BY <1>9a DEF IsPacket
<1>11. contact' = contact /\ pressed' = pressed
  BY <1>1
<1>13. \A i \in 1..Len(p) : p[i].kind \notin {"slot", "sync"} =>
         p[i].val = contact'[s] /\ p[i].at = s /\ p[i].kind = "axis"
  BY <1>0, <1>4, <1>10, <1>11
<1>15. Tells(p)
  BY <1>10, <1>11, <1>13 DEF Tells, Keys
<1>16. KernelBooks'
  BY <1>1, <1>9 DEF KernelBooks, Queues
<1>. QED BY <1>9, <1>15, <1>16

LEMMA LiftTells ==
  ASSUME StreamAssumption, DecoderAssumption, StreamTyped, KernelBooks, Lift
  PROVE  KernelBooks' /\ \E p : Tells(p) /\ Queues(p)
<1>1. PICK s \in Slots :
        /\ contact[s] # None /\ contact' = [contact EXCEPT ![s] = None]
        /\ kslot' = s
        /\ Report(InSlot(s, <<Arrival("id", None, None, s)>>))
        /\ UNCHANGED <<owner, pressed, next>>
  BY DEF Lift
<1>3. PICK g : g = Arrival("id", None, None, s)
  OBVIOUS
<1>t. taken \in Nat
  BY DEF StreamTyped
<1>5. /\ g \in Received /\ g.kind = "id" /\ g.at = s /\ g.val = None /\ g.era = taken
  BY <1>1, <1>3, <1>t DEF Arrival, Received, Kinds, Keys
<1>6. PICK es \in Seq(Received) : es = <<g>> /\ Len(es) = 1 /\ es[1] = g
  <2>1. g \in Received
    BY <1>5
  <2>2. <<g>> \in Seq(Received) /\ Len(<<g>>) = 1 /\ <<g>>[1] = g
    BY <2>1
  <2>. QED BY <2>2
<1>7. \A i \in 1..Len(es) : i = 1 /\ es[i] = g
  BY <1>6
<1>8. PICK p : p = Append(InSlot(s, es), Arrival("sync", None, None, None))
  OBVIOUS
<1>9. Queues(p)
  BY <1>1, <1>3, <1>6, <1>8, ReportQueues
<1>9a. PICK d \in {0, 1} : IsPacket(p, es, d)
  <2>1. \A i \in 1..Len(es) : es[i].kind # "dropped" /\ es[i].era = taken
    BY <1>5, <1>7
  <2>2. Packed(p, es)
    BY <1>8, <1>t, <2>1, PacketForm
  <2>. QED BY <2>2 DEF Packed
<1>10. /\ p \in Seq(Received) /\ Len(p) > 0 /\ p[Len(p)].kind = "sync"
       /\ Len(p) = d + Len(es) + 1 /\ \A i \in 1..Len(es) : p[d + i] = es[i]
       /\ \A i \in 1..Len(p) :
            /\ p[i].kind # "dropped" /\ p[i].era = taken
            /\ p[i].kind \notin {"slot", "sync"} => i - d \in 1..Len(es) /\ p[i] = es[i - d]
  BY <1>9a DEF IsPacket
<1>11. /\ contact' \in [Slots -> Ids \cup {None}] /\ contact'[s] = None
       /\ \A u \in Slots : u # s => contact'[u] = contact[u]
       /\ pressed' = pressed
  BY <1>1 DEF KernelBooks
<1>13. \A i \in 1..Len(p) : p[i].kind \notin {"slot", "sync"} => p[i] = g
  BY <1>7, <1>10
<1>14. d + 1 \in 1..Len(p) /\ p[d + 1] = g
  <2>1. 1 \in 1..Len(es) /\ d + 1 \in 1..Len(p)
    BY <1>6, <1>10
  <2>. QED BY <1>6, <1>10, <2>1
<1>15. Tells(p)
  BY <1>5, <1>10, <1>11, <1>13, <1>14 DEF Tells, Keys
<1>16. KernelBooks'
  <2>1. resting' = resting /\ pressed' = pressed /\ next' = next /\ kslot' = s /\ owner' = owner
    BY <1>1, <1>9 DEF Queues
  <2>2. \A u \in Slots : contact'[u] # None => owner'[u] = contact'[u]
    BY <1>11, <2>1 DEF KernelBooks
  <2>. QED BY <1>11, <2>1, <2>2 DEF KernelBooks
<1>. QED BY <1>9, <1>15, <1>16

LEMMA ClickTells ==
  ASSUME StreamAssumption, DecoderAssumption, StreamTyped, KernelBooks, Click
  PROVE  KernelBooks' /\ \E p : Tells(p) /\ Queues(p)
<1>1. PICK b \in Buttons :
        /\ pressed' = IF b \in pressed THEN pressed \ {b} ELSE pressed \cup {b}
        /\ Report(<<Arrival(IF b \in pressed THEN "release" ELSE "press", b, None, None)>>)
        /\ UNCHANGED <<contact, owner, kslot, next>>
  BY DEF Click
<1>3. PICK g, z : /\ g = Arrival(IF b \in pressed THEN "release" ELSE "press", b, None, None)
                  /\ z = Arrival("sync", None, None, None)
  OBVIOUS
<1>t. taken \in Nat
  BY DEF StreamTyped
<1>5. /\ g \in Received /\ g.code = b /\ g.era = taken
      /\ g.kind = IF b \in pressed THEN "release" ELSE "press"
  BY <1>3, <1>t DEF Arrival, Received, Kinds, Keys
<1>6. z \in Received /\ z.kind = "sync" /\ z.era = taken
  BY <1>3, <1>t DEF Arrival, Received, Kinds, Keys
<1>7. PICK p \in Seq(Received) : /\ p = Append(<<g>>, z) /\ Len(p) = 2 /\ p[1] = g /\ p[2] = z
  <2>1. g \in Received /\ z \in Received
    BY <1>5, <1>6
  <2>2. PICK y \in Seq(Received) : y = <<g>> /\ Len(y) = 1 /\ y[1] = g
    <3>1. <<g>> \in Seq(Received) /\ Len(<<g>>) = 1 /\ <<g>>[1] = g
      BY <2>1
    <3>. QED BY <3>1
  <2>3. /\ Append(y, z) \in Seq(Received) /\ Len(Append(y, z)) = Len(y) + 1
        /\ \A i \in 1..Len(y) : Append(y, z)[i] = y[i]
        /\ Append(y, z)[Len(y) + 1] = z
    BY <2>1, AppendProperties
  <2>4. PICK p : p = Append(y, z)
    OBVIOUS
  <2>5. p \in Seq(Received) /\ Len(p) = 2 /\ p[1] = g /\ p[2] = z
    BY <2>2, <2>3, <2>4
  <2>. QED BY <2>2, <2>4, <2>5
<1>9. Queues(p)
  BY <1>1, <1>3, <1>7, ReportQueues
<1>10. \A i \in 1..Len(p) : (i = 1 /\ p[i] = g) \/ (i = 2 /\ p[i] = z)
  BY <1>7
<1>11. /\ contact' = contact /\ pressed' \subseteq Buttons
       /\ b \in pressed' <=> b \notin pressed
       /\ \A c \in Buttons : c # b => (c \in pressed' <=> c \in pressed)
  BY <1>1 DEF KernelBooks
<1>12. 1 \in 1..Len(p) /\ Len(p) > 0 /\ p[Len(p)].kind = "sync"
  BY <1>6, <1>7
<1>13. g.kind \in Keys /\ (g.kind = "press" <=> g.code \in pressed')
  BY <1>5, <1>11 DEF Keys
<1>15. Tells(p)
  BY <1>5, <1>6, <1>7, <1>10, <1>11, <1>12, <1>13 DEF Tells, Keys
<1>16. KernelBooks'
  BY <1>1, <1>9, <1>11 DEF KernelBooks, Queues
<1>. QED BY <1>9, <1>15, <1>16

(* Every step of the hardware queues a packet that tells what changed. *)
LEMMA HardwareTells ==
  ASSUME StreamAssumption, DecoderAssumption, StreamTyped, KernelBooks,
         Touch \/ Move \/ Lift \/ Click
  PROVE  KernelBooks' /\ \E p : Tells(p) /\ Queues(p)
BY TouchTells, MoveTells, LiftTells, ClickTells


(* A packet pushed behind the queue follows the queue, and what is still to *)
(* be fed before it. *)
LEMMA PushFollows ==
  ASSUME StreamAssumption, taken \in Nat, NEW b \in Seq(Received),
         NEW q \in Seq(Received), NEW es \in Seq(Received), Len(q) <= Capacity, Len(es) > 0,
         NEW t, t = Push(q, es)
  PROVE  /\ t \in Seq(Received) /\ Len(t) <= Capacity
         /\ Follows(t, q, 0, es) /\ Follows(b \o t, b \o q, Len(b), es)
<1>0. Len(q) \in Nat /\ Len(es) \in Nat /\ Len(b) \in Nat
  OBVIOUS
<1>1. t \in Seq(Received) /\ Len(t) <= Capacity /\ Follows(t, q, 0, es)
  BY PushForm
<1>2. PICK x, y : x = b \o t /\ y = b \o q
  OBVIOUS
<1>3. /\ Len(x) = Len(b) + Len(t) /\ Len(y) = Len(b) + Len(q) /\ Len(t) \in Nat
      /\ \A i \in 1..(Len(b) + Len(t)) : x[i] = IF i <= Len(b) THEN b[i] ELSE t[i - Len(b)]
      /\ \A i \in 1..(Len(b) + Len(q)) : y[i] = IF i <= Len(b) THEN b[i] ELSE q[i - Len(b)]
  BY <1>1, <1>2, ConcatProperties
<1>4. \A i \in 1..Len(b) : x[i] = b[i] /\ y[i] = b[i]
  BY <1>0, <1>3
<1>5. ASSUME NEW k \in 1..Len(t) PROVE x[Len(b) + k] = t[k]
  <2>1. Len(b) + k \in 1..(Len(b) + Len(t)) /\ ~(Len(b) + k <= Len(b)) /\ (Len(b) + k) - Len(b) = k
    BY <1>0, <1>3
  <2>. QED BY <1>3, <2>1
<1>6. ASSUME Appended(t, q, es)
      PROVE  Follows(b \o t, b \o q, Len(b), es)
  <2>1. Len(t) = Len(q) + Len(es) /\ Len(x) = Len(y) + Len(es)
    BY <1>0, <1>3, <1>6 DEF Appended
  <2>2. ASSUME NEW i \in 1..Len(y) PROVE x[i] = y[i]
    <3>1. CASE i <= Len(b)
      BY <1>0, <1>4, <3>1
    <3>2. CASE ~(i <= Len(b))
      <4>1. /\ i - Len(b) \in 1..Len(q) /\ i \in 1..(Len(b) + Len(t))
            /\ i \in 1..(Len(b) + Len(q))
        BY <1>0, <1>3, <2>1, <3>2
      <4>2. x[i] = t[i - Len(b)] /\ y[i] = q[i - Len(b)]
        BY <1>3, <3>2, <4>1
      <4>. QED BY <1>6, <4>1, <4>2 DEF Appended
    <3>. QED BY <3>1, <3>2
  <2>3. ASSUME NEW i \in 1..Len(es) PROVE x[Len(y) + i] = es[i]
    <3>1. Len(q) + i \in 1..Len(t) /\ Len(b) + (Len(q) + i) = Len(y) + i
      BY <1>0, <1>3, <2>1
    <3>. QED BY <1>5, <1>6, <3>1 DEF Appended
  <2>4. Appended(x, y, es)
    BY <2>1, <2>2, <2>3 DEF Appended
  <2>. QED BY <1>2, <2>4 DEF Follows
<1>7. ASSUME NEW r \in Nat, Broken(t, q, 0, es, r)
      PROVE  Follows(b \o t, b \o q, Len(b), es)
  <2>1. /\ r < Len(es) /\ Len(t) = 1 + (Len(es) - r)
        /\ t[1].kind = "dropped" /\ t[1].era = taken
        /\ \A i \in 1..(Len(es) - r) : t[1 + i] = es[r + i]
    <3>1. 0 + 1 = 1 /\ \A i \in 1..(Len(es) - r) : 0 + 1 + i = 1 + i
      BY <1>0
    <3>. QED BY <1>7, <3>1 DEF Broken
  <2>3. Len(x) = Len(b) + 1 + (Len(es) - r) /\ 1 \in 1..Len(t) /\ x[Len(b) + 1] = t[1]
    BY <1>0, <1>3, <1>5, <2>1
  <2>4. \A i \in 1..Len(b) : x[i] = y[i]
    BY <1>4
  <2>5. ASSUME NEW i \in 1..(Len(es) - r) PROVE x[Len(b) + 1 + i] = es[r + i]
    <3>1. 1 + i \in 1..Len(t) /\ Len(b) + (1 + i) = Len(b) + 1 + i
      BY <1>0, <2>1
    <3>. QED BY <1>5, <2>1, <3>1
  <2>6. Broken(x, y, Len(b), es, r)
    BY <2>1, <2>3, <2>4, <2>5 DEF Broken
  <2>. QED BY <1>2, <2>6 DEF Follows
<1>. QED BY <1>1, <1>6, <1>7 DEF Follows

LEMMA FollowsIsCoherent ==
  ASSUME NEW q \in Seq(Received), NEW n \in Nat, n <= Len(q),
         NEW es, NEW t, Coherent(q), Tells(es), UNCHANGED <<resting, taken>>, taken \in Nat,
         Follows(t, q, n, es)
  PROVE  Coherent(t)'
<1>1. CASE Appended(t, q, es)
  BY <1>1, AppendIsCoherent DEF Appended
<1>2. ASSUME NEW r \in Nat, Broken(t, q, n, es, r) PROVE Coherent(t)'
  BY <1>2, CutIsCoherent DEF Broken
<1>. QED BY <1>1, <1>2 DEF Follows

(* Nothing that concerns slot s or button b behind a packet: nothing before *)
(* it, and nothing in it. *)
LEMMA FollowsSettled ==
  ASSUME NEW q \in Seq(Received), NEW n \in Nat, n <= Len(q),
         NEW es \in Seq(Received), NEW t, Follows(t, q, n, es)
  PROVE  /\ Len(es) > 0 => Len(t) > 0
         /\ \A s \in Slots : Settled(t, s) =>
              Settled(q, s) /\ \A i \in 1..Len(es) : ~Cuts(es[i], s)
         /\ \A b \in Buttons : KeySettled(t, b) =>
              KeySettled(q, b) /\ \A i \in 1..Len(es) : ~Turns(es[i], b)
<1>0. Len(q) \in Nat /\ Len(es) \in Nat
  OBVIOUS
<1>1. CASE Appended(t, q, es)
  <2>1. Len(t) = Len(q) + Len(es)
    BY <1>1 DEF Appended
  <2>2. \A i \in 1..Len(q) : i \in 1..Len(t) /\ t[i] = q[i]
    BY <1>0, <1>1, <2>1 DEF Appended
  <2>3. \A i \in 1..Len(es) : Len(q) + i \in 1..Len(t) /\ t[Len(q) + i] = es[i]
    BY <1>0, <1>1, <2>1 DEF Appended
  <2>4. Len(es) > 0 => Len(t) > 0
    BY <1>0, <2>1
  <2>. HIDE <2>1
  <2>. QED BY <2>2, <2>3, <2>4 DEF Settled, KeySettled
<1>2. ASSUME NEW r \in Nat, Broken(t, q, n, es, r)
      PROVE  /\ Len(t) > 0
             /\ \A s \in Slots : ~Settled(t, s)
             /\ \A b \in Buttons : ~KeySettled(t, b)
  <2>1. n + 1 \in 1..Len(t) /\ t[n + 1].kind = "dropped"
    BY <1>0, <1>2 DEF Broken
  <2>2. Len(t) > 0
    BY <1>0, <1>2 DEF Broken
  <2>. QED BY <2>1, <2>2 DEF Settled, KeySettled, Cuts, Turns
<1>. QED BY <1>1, <1>2 DEF Follows

-----------------------------------------------------------------------------
(* StreamInv is inductive. *)

(* What is still to be fed, event by event. *)
LEMMA StreamForm ==
  ASSUME StreamTyped
  PROVE  /\ Stream \in Seq(Received) /\ Len(Stream) = Len(batch) + Len(queue)
         /\ Len(batch) \in Nat /\ Len(queue) \in Nat
         /\ \A i \in 1..Len(batch) : Stream[i] = batch[i]
         /\ \A i \in 1..Len(queue) : Stream[Len(batch) + i] = queue[i]
<1>1. batch \in Seq(Received) /\ queue \in Seq(Received)
  BY DEF StreamTyped
<1>2. Len(batch) \in Nat /\ Len(queue) \in Nat
  BY <1>1
<1>3. /\ Stream \in Seq(Received) /\ Len(Stream) = Len(batch) + Len(queue)
      /\ \A i \in 1..(Len(batch) + Len(queue)) :
           Stream[i] = IF i <= Len(batch) THEN batch[i] ELSE queue[i - Len(batch)]
  BY <1>1, ConcatProperties DEF Stream
<1>4. \A i \in 1..Len(batch) : Stream[i] = batch[i]
  BY <1>2, <1>3
<1>5. ASSUME NEW i \in 1..Len(queue) PROVE Stream[Len(batch) + i] = queue[i]
  <2>1. /\ Len(batch) + i \in 1..(Len(batch) + Len(queue)) /\ ~(Len(batch) + i <= Len(batch))
        /\ (Len(batch) + i) - Len(batch) = i
    BY <1>2
  <2>. QED BY <1>3, <2>1
<1>. QED BY <1>2, <1>3, <1>4, <1>5

(* A queue that is coherent stays so while nothing it is about changes. *)
LEMMA CoherentKept ==
  ASSUME NEW t, Coherent(t), UNCHANGED <<contact, pressed, resting>>, taken \in Nat,
         taken' \in {taken, taken + 1}, \A i \in 1..Len(t) : t[i].era \in Nat
  PROVE  Coherent(t)'
BY DEF Coherent, LastIdHolds, LastKeyHolds, PositionsFollowIds, EndsAPacket, NotFromLater

LEMMA StreamInitInv ==
  ASSUME StreamAssumption, DecoderAssumption, StreamInit
  PROVE  StreamInv
<1>1. /\ queue = <<>> /\ batch = <<>> /\ taken = 0 /\ sync = "Normal" /\ asked = {}
      /\ answer = [s \in Slots |-> NoContact] /\ packets = 0 /\ current \in Slots
      /\ committed = [s \in Slots |-> NoContact] /\ published = {} /\ buttons = {}
      /\ pending = [s \in Slots |-> Cycle(NoContact)] /\ pressed = {}
      /\ misrouted = {}
  BY DEF StreamInit, DecoderInit, Nothing, DecoderAssumption
<1>2. DecoderTyped /\ ShownBooks
  <2>1. DecoderInit
    BY DEF StreamInit
  <2>2. frame \in Frames
    BY <2>1, UnknownType DEF DecoderInit, Frames, Nobody, Shown, States, NoContact, Contacts
  <2>3. pending \in [Slots -> Pendings] /\ committed \in [Slots -> Contacts]
    BY <1>1, UnknownType, CycleType
  <2>4. ShownBooks
    BY <2>1 DEF DecoderInit, ShownBooks, LifeBooks, FrameBooks, Cycle, NoContact, Held, Nobody,
                Shown
  <2>. QED BY <1>1, <2>2, <2>3, <2>4 DEF DecoderTyped, SyncStates
<1>3. StreamTyped
  <2>1. queue \in Seq(Received) /\ batch \in Seq(Received) /\ Len(queue) = 0 /\ Len(batch) = 0
    BY <1>1
  <2>2. answer \in [Slots -> Contacts]
    BY <1>1, UnknownType
  <2>. QED BY <1>1, <1>2, <2>1, <2>2 DEF StreamTyped, StreamAssumption
<1>4. KernelBooks
  BY <1>1 DEF KernelBooks, StreamInit, StreamAssumption
<1>5. Len(Stream) = 0 /\ Len(queue) = 0
  BY <1>1, <1>3, StreamForm
<1>6. Coherent(Stream) /\ Coherent(queue)
  <2>1. 1..0 = {}
    OBVIOUS
  <2>. QED BY <1>5, <2>1 DEF Coherent, LastIdHolds, LastKeyHolds, PositionsFollowIds, EndsAPacket,
                             NotFromLater
<1>7. DecoderAgrees
  <2>1. ASSUME NEW s \in Slots PROVE LiveId(s) = Expected(s) /\ pending[s] = Cycle(committed[s])
    <3>1. pending[s] = Cycle(NoContact) /\ committed[s] = NoContact
      BY <1>1
    <3>2. LiveId(s) = None
      BY <3>1 DEF LiveId, Live, Cycle, NoContact
    <3>3. contact[s] = resting \/ contact[s] = None
      BY DEF StreamInit
    <3>. QED BY <1>1, <3>1, <3>2, <3>3 DEF Expected
  <2>. QED BY <1>1, <2>1 DEF DecoderAgrees
<1>8. AnswerAgrees
  BY <1>1 DEF AnswerAgrees
<1>. QED BY <1>2, <1>3, <1>4, <1>6, <1>7, <1>8 DEF StreamInv

(* A packet of the hardware. *)
LEMMA HardwareFollows ==
  ASSUME StreamAssumption, StreamInv, NEW p, Tells(p), Queues(p), KernelBooks'
  PROVE  /\ StreamTyped' /\ p \in Seq(Received) /\ Len(p) > 0
         /\ Follows(queue', queue, 0, p) /\ Follows(Stream', Stream, Len(batch), p)
<1>1. StreamTyped /\ p \in Seq(Received) /\ Len(p) > 0 /\ taken \in Nat
  BY DEF StreamInv, StreamTyped, Tells
<1>2. queue' = Push(queue, p) /\ batch' = batch
  BY DEF Queues
<1>3. /\ queue' \in Seq(Received) /\ Len(queue') <= Capacity
      /\ Follows(queue', queue, 0, p) /\ Follows(batch \o queue', batch \o queue, Len(batch), p)
  <2>1. batch \in Seq(Received) /\ queue \in Seq(Received) /\ Len(queue) <= Capacity
    BY <1>1 DEF StreamTyped
  <2>2. PICK t : t = queue'
    OBVIOUS
  <2>3. t = Push(queue, p)
    BY <1>2, <2>2
  <2>4. /\ t \in Seq(Received) /\ Len(t) <= Capacity
        /\ Follows(t, queue, 0, p) /\ Follows(batch \o t, batch \o queue, Len(batch), p)
    BY <1>1, <2>1, <2>3, PushFollows
  <2>. QED BY <2>2, <2>4
<1>4. Stream' = batch \o queue' /\ Stream = batch \o queue
  BY <1>2 DEF Stream
<1>5. StreamTyped'
  <2>1. /\ packets' \in 0..MaxPackets
        /\ UNCHANGED <<sync, current, committed, published, pending, buttons, frame, batch, asked,
                       answer, taken>>
    BY DEF Queues, decoder
  <2>2. DecoderTyped'
    BY <1>1, <2>1 DEF StreamTyped, DecoderTyped
  <2>. QED BY <1>1, <1>3, <2>1, <2>2 DEF StreamTyped
<1>. QED BY <1>1, <1>3, <1>4, <1>5

LEMMA HardwareInv ==
  ASSUME StreamAssumption, DecoderAssumption, StreamInv, Touch \/ Move \/ Lift \/ Click
  PROVE  StreamInv'
<1>0. StreamTyped /\ KernelBooks
  BY DEF StreamInv
<1>1. PICK p : Tells(p) /\ Queues(p) /\ KernelBooks'
  BY <1>0, HardwareTells
<1>2. /\ StreamTyped' /\ p \in Seq(Received) /\ Len(p) > 0
      /\ Follows(queue', queue, 0, p) /\ Follows(Stream', Stream, Len(batch), p)
  BY <1>1, HardwareFollows
<1>3. /\ UNCHANGED <<decoder, batch, asked, answer, taken, resting, misrouted, stale>>
      /\ taken \in Nat
  BY <1>0, <1>1 DEF Queues, history, StreamTyped
<1>4. UNCHANGED <<sync, current, committed, published, pending, buttons, frame>>
  BY <1>3 DEF decoder
<1>5. /\ Stream \in Seq(Received) /\ Len(batch) \in Nat /\ Len(batch) <= Len(Stream)
      /\ queue \in Seq(Received) /\ 0 <= Len(queue)
  BY <1>0, StreamForm DEF StreamTyped
<1>6. PICK x, y : x = Stream' /\ y = queue'
  OBVIOUS
<1>7. Follows(y, queue, 0, p) /\ Follows(x, Stream, Len(batch), p)
  BY <1>2, <1>6
<1>8. Coherent(x)' /\ Coherent(y)'
  <2>1. Coherent(Stream) /\ Coherent(queue)
    BY DEF StreamInv
  <2>. QED BY <1>1, <1>3, <1>5, <1>7, <2>1, FollowsIsCoherent
<1>9. Coherent(Stream)' /\ Coherent(queue)'
  BY <1>6, <1>8 DEF Coherent, LastIdHolds, LastKeyHolds, PositionsFollowIds, EndsAPacket,
                    NotFromLater
<1>10. ShownBooks'
  BY <1>4 DEF StreamInv, ShownBooks, LifeBooks, FrameBooks, Held
<1>11. /\ \A s \in Slots : (\A i \in 1..Len(p) : ~Cuts(p[i], s)) => contact'[s] = contact[s]
       /\ \A b \in Buttons : (\A i \in 1..Len(p) : ~Turns(p[i], b))
                               => (b \in pressed' <=> b \in pressed)
  BY <1>1, Untold
<1>12. /\ Len(x) > 0
       /\ \A s \in Slots : Settled(x, s) => Settled(Stream, s) /\ contact'[s] = contact[s]
       /\ \A b \in Buttons : KeySettled(x, b)
            => KeySettled(Stream, b) /\ (b \in pressed' <=> b \in pressed)
  BY <1>2, <1>5, <1>7, <1>11, FollowsSettled
<1>13. \A s \in Slots : Settled(y, s) => Settled(queue, s) /\ contact'[s] = contact[s]
  BY <1>2, <1>5, <1>7, <1>11, FollowsSettled
<1>14. DecoderAgrees'
  <2>1. \A s \in Slots : /\ LiveId(s)' = LiveId(s)
                         /\ contact'[s] = contact[s] => Expected(s)' = Expected(s)
    BY <1>3, <1>4 DEF LiveId, Expected
  <2>2. /\ Len(Stream)' > 0 /\ sync' = sync /\ misrouted' = misrouted /\ buttons' = buttons
        /\ \A s \in Slots : Settled(Stream, s)' => Settled(Stream, s) /\ contact'[s] = contact[s]
        /\ \A b \in Buttons : KeySettled(Stream, b)'
             => KeySettled(Stream, b) /\ (b \in pressed' <=> b \in pressed)
    BY <1>3, <1>4, <1>6, <1>12 DEF Settled, KeySettled, Cuts, Turns
  <2>3. DecoderAgrees
    BY DEF StreamInv
  <2>. QED BY <2>1, <2>2, <2>3 DEF DecoderAgrees
<1>15. AnswerAgrees'
  <2>1. \A s \in Slots : Settled(queue, s)' => Settled(queue, s) /\ contact'[s] = contact[s]
    BY <1>6, <1>13 DEF Settled, Cuts
  <2>2. AnswerAgrees
    BY DEF StreamInv
  <2>. QED BY <1>3, <1>4, <2>1, <2>2 DEF AnswerAgrees, Nothing
<1>. QED BY <1>1, <1>2, <1>9, <1>10, <1>14, <1>15 DEF StreamInv

(* Feeding takes the first of what is still to be fed. *)
LEMMA FedForm ==
  ASSUME StreamAssumption, StreamTyped, batch # <<>>, batch' = Tail(batch), queue' = queue
  PROVE  /\ Head(batch) = Stream[1] /\ Len(Stream) > 0 /\ Len(Stream)' \in Nat
         /\ Len(Stream) = Len(Stream)' + 1
         /\ \A i \in 1..Len(Stream)' : Stream'[i] = Stream[i + 1]
         /\ batch' \in Seq(Received) /\ Len(batch') <= MaxBatch
<1>1. batch \in Seq(Received) /\ queue \in Seq(Received) /\ Len(batch) <= MaxBatch
  BY DEF StreamTyped
<1>2. /\ batch' \in Seq(Received) /\ Len(batch') = Len(batch) - 1
      /\ \A i \in 1..Len(batch') : batch'[i] = batch[i + 1]
  BY <1>1, HeadTailProperties
<1>3. Len(batch) \in Nat \ {0} /\ Head(batch) = batch[1] /\ Len(queue) \in Nat
  BY <1>1
<1>4. /\ Len(Stream) = Len(batch) + Len(queue)
      /\ \A i \in 1..(Len(batch) + Len(queue)) :
           Stream[i] = IF i <= Len(batch) THEN batch[i] ELSE queue[i - Len(batch)]
  BY <1>1, ConcatProperties DEF Stream
<1>5. PICK t : t = batch'
  OBVIOUS
<1>6. /\ Len(t \o queue) = Len(t) + Len(queue)
      /\ \A i \in 1..(Len(t) + Len(queue)) :
           (t \o queue)[i] = IF i <= Len(t) THEN t[i] ELSE queue[i - Len(t)]
  BY <1>1, <1>2, <1>5, ConcatProperties
<1>7. Stream' = t \o queue
  BY <1>5 DEF Stream
<1>8. Len(t) = Len(batch) - 1 /\ Len(Stream') = Len(t) + Len(queue)
  BY <1>2, <1>5, <1>6, <1>7
<1>9. ASSUME NEW i \in 1..(Len(t) + Len(queue)) PROVE (t \o queue)[i] = Stream[i + 1]
  <2>1. i + 1 \in 1..(Len(batch) + Len(queue)) /\ (i <= Len(t) <=> i + 1 <= Len(batch))
        /\ (i + 1) - Len(batch) = i - Len(t)
    BY <1>3, <1>8
  <2>2. CASE i <= Len(t)
    <3>1. i \in 1..Len(t)
      BY <2>2
    <3>2. t[i] = batch[i + 1]
      BY <1>2, <1>5, <3>1
    <3>. QED BY <1>4, <1>6, <2>1, <2>2, <3>2
  <2>3. CASE ~(i <= Len(t))
    BY <1>4, <1>6, <2>1, <2>3
  <2>. QED BY <2>2, <2>3
<1>10. Head(batch) = Stream[1]
  BY <1>3, <1>4
<1>11. /\ Len(Stream)' = Len(t) + Len(queue) /\ Len(Stream)' \in Nat
       /\ Len(Stream) = Len(Stream)' + 1 /\ Len(Stream) > 0
  BY <1>3, <1>4, <1>8
<1>12. \A i \in 1..Len(Stream)' : Stream'[i] = Stream[i + 1]
  BY <1>7, <1>9, <1>11
<1>13. Len(batch') <= MaxBatch
  BY <1>1, <1>2, <1>3 DEF StreamAssumption
<1>. QED BY <1>2, <1>10, <1>11, <1>12, <1>13

(* What the kernel queues can be fed. *)
LEMMA ReceivedReadable ==
  ASSUME StreamAssumption, NEW e \in Received
  PROVE  Readable(e) /\ e.kind \in Kinds /\ e.era \in Nat
BY DEF Received, Readable, Keys, StreamAssumption

(* Only a tracking id changes who is live, and only in the selected slot. *)
LEMMA AppliedId ==
  ASSUME DecoderTyped, ShownBooks, NEW e, Readable(e), Apply(e)
  PROVE  \A s \in Slots :
           LiveId(s)' = IF e.kind = "id" /\ s = current THEN e.val ELSE LiveId(s)
<1>. SUFFICES ASSUME NEW s \in Slots
              PROVE  LiveId(s)' = IF e.kind = "id" /\ s = current THEN e.val ELSE LiveId(s)
  OBVIOUS
<1>0. pending[s] \in Pendings /\ committed[s] \in Contacts /\ LifeBooks(s)
  BY DEF DecoderTyped, ShownBooks
<1>1. CASE e.kind = "slot" /\ Select(e)
  BY <1>1 DEF Select, LiveId
<1>2. CASE e.kind \in {"press", "release"} /\ Key(e)
  BY <1>2 DEF Key, LiveId
<1>3. CASE e.kind = "id" /\ Track(e)
  <2>1. CASE s = current
    <3>1. pending'[s] = Tracked(pending[s], e.val)
      BY <1>3, <2>1 DEF Track
    <3>2. e.val \in Ids \cup {None}
      BY <1>3 DEF Readable
    <3>3. LET q == Tracked(pending[s], e.val)
          IN  (IF Live(q) THEN q.id ELSE None) = e.val
      BY <1>0, <3>2 DEF Tracked, Live, Pendings, Lives
    <3>. QED BY <1>3, <2>1, <3>1, <3>3 DEF LiveId
  <2>2. CASE s # current
    BY <1>3, <2>2 DEF Track, LiveId
  <2>. QED BY <2>1, <2>2
<1>4. CASE e.kind = "axis" /\ Field(e)
  <2>1. /\ pending'[s].life = pending[s].life /\ pending'[s].id = pending[s].id
    BY <1>0, <1>4 DEF Field, WithField, Pendings
  <2>. QED BY <1>4, <2>1 DEF LiveId, Live
<1>5. CASE e.kind = "sync" /\ Commit
  <2>1. pending'[s] = Cycle(Merged(s))
    BY <1>5 DEF Commit
  <2>2. Merged(s).id = LiveId(s)
    BY <1>0 DEF Merged, LiveId, Live, LifeBooks, Pendings, Lives, Updated, Contacts, NoContact
  <2>. QED BY <1>5, <2>1, <2>2 DEF LiveId, Live, Cycle
<1>. QED BY <1>1, <1>2, <1>3, <1>4, <1>5 DEF Apply

(* Feeding changes nothing the queue is about. *)
LEMMA FedCoherent ==
  ASSUME StreamAssumption, StreamInv, batch # <<>>, batch' = Tail(batch),
         UNCHANGED <<kernel, queue>>, taken' \in {taken, taken + 1}
  PROVE  Coherent(Stream)' /\ Coherent(queue)'
<1>1. StreamTyped /\ Coherent(Stream) /\ Coherent(queue) /\ taken \in Nat
  BY DEF StreamInv, StreamTyped
<1>2. UNCHANGED <<contact, pressed, resting, queue>>
  BY DEF kernel
<1>3. PICK t : t = Stream'
  OBVIOUS
<1>4. /\ Len(t) \in Nat /\ Len(Stream) = Len(t) + 1
      /\ \A i \in 1..Len(t) : t[i] = Stream[i + 1]
  BY <1>1, <1>2, <1>3, FedForm
<1>5. Coherent(t)
  BY <1>1, <1>4, EndIsCoherent
<1>6. \A i \in 1..Len(Stream) : Stream[i] \in Received /\ Stream[i].era \in Nat
  BY <1>1, StreamForm, ReceivedReadable
<1>7. \A i \in 1..Len(t) : t[i].era \in Nat
  BY <1>4, <1>6
<1>8. Coherent(t)'
  BY <1>1, <1>2, <1>5, <1>7, CoherentKept
<1>9. \A i \in 1..Len(queue) : queue[i] \in Received /\ queue[i].era \in Nat
  <2>1. queue \in Seq(Received)
    BY <1>1 DEF StreamTyped
  <2>2. \A i \in 1..Len(queue) : queue[i] \in Received
    BY <2>1
  <2>. QED BY <2>2, ReceivedReadable
<1>10. PICK y : y = queue
  OBVIOUS
<1>11. Coherent(y)'
  BY <1>1, <1>2, <1>9, <1>10, CoherentKept
<1>12. y = queue'
  BY <1>2, <1>10
<1>. QED BY <1>3, <1>8, <1>11, <1>12
         DEF Coherent, LastIdHolds, LastKeyHolds, PositionsFollowIds, EndsAPacket, NotFromLater

LEMMA FeedInv ==
  ASSUME StreamAssumption, DecoderAssumption, StreamInv, FeedNext
  PROVE  StreamInv'
<1>0. /\ StreamTyped /\ KernelBooks /\ DecoderTyped /\ ShownBooks
      /\ DecoderAgrees /\ AnswerAgrees /\ Coherent(Stream)
  BY DEF StreamInv, StreamTyped
<1>1. PICK e : e = Head(batch)
  OBVIOUS
<1>2. /\ batch # <<>> /\ Feed(e) /\ batch' = Tail(batch) /\ queue' = queue
      /\ misrouted' = IF sync = "Normal" /\ Scoped(e) /\ e.at # current
                      THEN misrouted \cup {Since} ELSE misrouted
      /\ UNCHANGED kernel
  BY <1>1 DEF FeedNext
<1>3. /\ e = Stream[1] /\ Len(Stream) > 0 /\ Len(Stream)' \in Nat
      /\ Len(Stream) = Len(Stream)' + 1
      /\ \A i \in 1..Len(Stream)' : Stream'[i] = Stream[i + 1]
      /\ batch' \in Seq(Received) /\ Len(batch') <= MaxBatch
  BY <1>0, <1>1, <1>2, FedForm
<1>4. e \in Received /\ Readable(e) /\ e.kind \in Kinds
  <2>1. Stream \in Seq(Received) /\ 1 \in 1..Len(Stream)
    BY <1>0, <1>3, StreamForm
  <2>. QED BY <1>3, <2>1, ElementOfSeq, ReceivedReadable
<1>5. /\ IF sync' = "Recovering"
         THEN taken' = taken + 1 /\ answer' = Nothing /\ asked' = Axes \cup {"tracking"}
         ELSE taken' = taken /\ answer' = answer /\ asked' = asked
      /\ taken \in Nat
  BY <1>0 DEF FeedNext, query, StreamTyped
<1>6. UNCHANGED <<contact, owner, pressed, kslot, packets, next, resting>>
  BY <1>2 DEF kernel
<1>7. Coherent(Stream)' /\ Coherent(queue)'
  BY <1>2, <1>5, FedCoherent
<1>8. ShownBooks' /\ DecoderTyped'
  BY <1>0, <1>2, <1>4, FeedType, FeedBooks
<1>9. StreamTyped'
  <2>1. current' \in Slots
    <3>1. e.kind = "slot" => e.val \in Slots
      BY <1>4 DEF Received
    <3>2. current \in Slots
      BY <1>0 DEF StreamTyped
    <3>. QED BY <1>2, <3>1, <3>2 DEF Feed, Drop, Ignore, Apply, Recover, Select, Track, Field, Key,
                                    Commit
  <2>2. answer' \in [Slots -> Contacts] /\ asked' \subseteq Axes \cup {"tracking"}
    BY <1>0, <1>5, UnknownType DEF StreamTyped, Nothing
  <2>3. taken' \in Nat /\ (sync' = "Recovering" => taken' > 0)
    BY <1>5
  <2>4. queue' \in Seq(Received) /\ Len(queue') <= Capacity /\ packets' \in 0..MaxPackets
    BY <1>0, <1>2, <1>6 DEF StreamTyped
  <2>. QED BY <1>3, <1>8, <2>1, <2>2, <2>3, <2>4 DEF StreamTyped
<1>10. KernelBooks'
  BY <1>0, <1>6 DEF KernelBooks
<1>11. AnswerAgrees'
  <2>1. CASE sync' = "Recovering"
    BY <1>5, <2>1 DEF AnswerAgrees, Nothing
  <2>2. CASE sync' # "Recovering"
    BY <1>0, <1>5, <2>2 DEF AnswerAgrees
  <2>. QED BY <2>1, <2>2
<1>12. DecoderAgrees'
  <2>. SUFFICES ASSUME sync' = "Normal" PROVE DecoderAgrees'
    BY DEF DecoderAgrees
  <2>1. Apply(e) /\ sync = "Normal" /\ taken' = taken
    BY <1>2, <1>4, <1>5 DEF Feed, Drop, Ignore, Apply, Recover, Kinds
  <2>2. ASSUME NEW k \in 1..Len(Stream), k # 1
        PROVE  k - 1 \in 1..Len(Stream)' /\ Stream'[k - 1] = Stream[k]
    <3>1. k - 1 \in 1..Len(Stream)' /\ (k - 1) + 1 = k
      BY <1>3, <2>2
    <3>. QED BY <1>3, <3>1
  <2>3. \A s \in Slots : Settled(Stream, s)' /\ ~Cuts(e, s) => Settled(Stream, s)
    <3>. SUFFICES ASSUME NEW s \in Slots, Settled(Stream, s)', ~Cuts(e, s),
                         NEW k \in 1..Len(Stream)
                  PROVE  ~Cuts(Stream[k], s)
      BY DEF Settled
    <3>1. CASE k = 1
      BY <1>3, <3>1
    <3>2. CASE k # 1
      BY <2>2, <3>2 DEF Settled, Cuts
    <3>. QED BY <3>1, <3>2
  <2>4. \A b \in Buttons : KeySettled(Stream, b)' /\ ~Turns(e, b) => KeySettled(Stream, b)
    <3>. SUFFICES ASSUME NEW b \in Buttons, KeySettled(Stream, b)', ~Turns(e, b),
                         NEW k \in 1..Len(Stream)
                  PROVE  ~Turns(Stream[k], b)
      BY DEF KeySettled
    <3>1. CASE k = 1
      BY <1>3, <3>1
    <3>2. CASE k # 1
      BY <2>2, <3>2 DEF KeySettled, Turns
    <3>. QED BY <3>1, <3>2
  <2>5. 1 \in 1..Len(Stream) /\ Stream[1] = e
    BY <1>3
  <2>6. Len(Stream)' = 0 => \A s \in Slots : pending'[s] = Cycle(committed'[s])
    <3>1. CASE Len(Stream)' = 0
      <4>1. Stream[Len(Stream)].kind = "sync" /\ Len(Stream) = 1
        BY <1>0, <1>3, <3>1 DEF Coherent, EndsAPacket
      <4>2. Commit
        BY <2>1, <2>5, <4>1 DEF Apply
      <4>. QED BY <4>2 DEF Commit
    <3>. QED BY <3>1
  <2>7. ASSUME misrouted' = {}, NEW s \in Slots, Settled(Stream, s)'
        PROVE  LiveId(s)' = Expected(s)'
    <3>1. misrouted = {} /\ (e.kind = "id" => e.at = current)
      BY <1>2, <2>1, <2>7 DEF Scoped
    <3>2. Expected(s)' = Expected(s)
      BY <1>6, <2>1 DEF Expected
    <3>3. LiveId(s)' = IF e.kind = "id" /\ s = current THEN e.val ELSE LiveId(s)
      BY <1>0, <1>4, <2>1, AppliedId
    <3>4. CASE ~(e.kind = "id" /\ s = current)
      <4>1. e.kind # "dropped"
        BY <2>1 DEF Apply
      <4>2. Settled(Stream, s)
        BY <2>3, <2>7, <3>1, <3>4, <4>1 DEF Cuts
      <4>. QED BY <1>0, <2>1, <3>1, <3>2, <3>3, <3>4, <4>2 DEF DecoderAgrees
    <3>5. CASE e.kind = "id" /\ s = current
      <4>1. ASSUME NEW k \in 1..Len(Stream), k > 1 PROVE ~Cuts(Stream[k], s)
        BY <2>2, <2>7, <4>1 DEF Settled, Cuts
      <4>2. LastIdHolds(Stream)
        BY <1>0 DEF Coherent
      <4>3. e.val = contact[s] /\ (e.val # None => e.val # resting)
        BY <2>5, <3>1, <3>5, <4>1, <4>2 DEF LastIdHolds
      <4>. QED BY <3>2, <3>3, <3>5, <4>3 DEF Expected
    <3>. QED BY <3>4, <3>5
  <2>8. ASSUME NEW b \in Buttons, KeySettled(Stream, b)'
        PROVE  b \in buttons' <=> b \in pressed'
    <3>1. CASE e.kind \in Keys /\ e.code = b
      <4>1. ASSUME NEW k \in 1..Len(Stream), k > 1 PROVE ~Turns(Stream[k], b)
        BY <2>2, <2>8, <4>1 DEF KeySettled, Turns
      <4>2. LastKeyHolds(Stream)
        BY <1>0 DEF Coherent
      <4>3. e.kind = "press" <=> b \in pressed
        BY <2>5, <3>1, <4>1, <4>2 DEF LastKeyHolds
      <4>4. Key(e)
        BY <2>1, <3>1 DEF Apply, Keys
      <4>. QED BY <1>6, <3>1, <4>3, <4>4 DEF Key
    <3>2. CASE ~(e.kind \in Keys /\ e.code = b)
      <4>1. KeySettled(Stream, b)
        BY <2>1, <2>4, <2>8, <3>2 DEF Turns, Apply
      <4>2. b \in buttons' <=> b \in buttons
        BY <2>1, <3>2 DEF Apply, Select, Track, Field, Key, Commit, Keys
      <4>. QED BY <1>0, <1>6, <2>1, <4>1, <4>2 DEF DecoderAgrees
    <3>. QED BY <3>1, <3>2
  <2>. QED BY <2>6, <2>7, <2>8 DEF DecoderAgrees
<1>. QED BY <1>7, <1>8, <1>9, <1>10, <1>11, <1>12 DEF StreamInv

(* Reading moves events from the kernel's queue to the batch: what is still *)
(* to be fed stays. *)
LEMMA ReadForm ==
  ASSUME StreamAssumption, StreamTyped, ReadBatch
  PROVE  /\ Stream' = Stream
         /\ batch' \in Seq(Received) /\ Len(batch') <= MaxBatch
         /\ queue' \in Seq(Received) /\ Len(queue') <= Capacity
         /\ \E d \in Nat : /\ Len(queue) = Len(queue') + d
                           /\ \A i \in 1..Len(queue') : queue'[i] = queue[i + d]
         /\ \A i \in 1..Len(batch') : i \in 1..Len(queue) /\ batch'[i] = queue[i]
<1>1. /\ batch = <<>> /\ queue # <<>> /\ queue \in Seq(Received) /\ Len(queue) <= Capacity
      /\ MaxBatch \in Nat \ {0} /\ Capacity \in Nat
  BY DEF ReadBatch, StreamTyped, StreamAssumption
<1>2. Len(queue) \in Nat \ {0} /\ \A i \in 1..Len(queue) : queue[i] \in Received
  BY <1>1
<1>3. PICK n : n = Min({Len(queue), MaxBatch})
  OBVIOUS
<1>4. n \in Nat \ {0} /\ n <= Len(queue) /\ n <= MaxBatch
  <2>1. \E x \in {Len(queue), MaxBatch} : \A y \in {Len(queue), MaxBatch} : x <= y
    BY <1>1, <1>2
  <2>2. n \in {Len(queue), MaxBatch} /\ \A y \in {Len(queue), MaxBatch} : n <= y
    BY <1>3, <2>1 DEF Min
  <2>. QED BY <1>1, <1>2, <2>2
<1>5. PICK x, y : x = batch' /\ y = queue'
  OBVIOUS
<1>6. x = SubSeq(queue, 1, n) /\ y = SubSeq(queue, n + 1, Len(queue))
  BY <1>3, <1>5 DEF ReadBatch
<1>7. /\ x \in Seq(Received) /\ Len(x) = n
      /\ \A i \in 1..n : x[i] = queue[i]
  <2>1. 1 \in Int /\ n \in Int /\ \A i \in 1..n : queue[i] \in Received
    BY <1>2, <1>4
  <2>2. /\ x \in Seq(Received) /\ Len(x) = IF 1 <= n THEN n - 1 + 1 ELSE 0
        /\ \A i \in 1..(n - 1 + 1) : x[i] = queue[1 + i - 1]
    BY <1>6, <2>1, SubSeqProperties
  <2>3. n - 1 + 1 = n /\ 1 <= n /\ \A i \in 1..n : 1 + i - 1 = i
    BY <1>4
  <2>. QED BY <2>2, <2>3
<1>8. /\ y \in Seq(Received) /\ Len(y) = Len(queue) - n
      /\ \A i \in 1..Len(y) : y[i] = queue[i + n]
  <2>1. /\ n + 1 \in Int /\ Len(queue) \in Int
        /\ \A i \in (n + 1)..Len(queue) : queue[i] \in Received
    BY <1>2, <1>4
  <2>2. /\ y \in Seq(Received)
        /\ Len(y) = IF n + 1 <= Len(queue) THEN Len(queue) - (n + 1) + 1 ELSE 0
        /\ \A i \in 1..(Len(queue) - (n + 1) + 1) : y[i] = queue[n + 1 + i - 1]
    BY <1>6, <2>1, SubSeqProperties
  <2>3. Len(y) = Len(queue) - n /\ Len(queue) - (n + 1) + 1 = Len(queue) - n
    BY <1>2, <1>4, <2>2
  <2>4. ASSUME NEW i \in 1..(Len(queue) - n) PROVE n + 1 + i - 1 = i + n
    BY <1>4
  <2>. QED BY <2>2, <2>3, <2>4
<1>9. PICK s, t : s = x \o y /\ t = <<>> \o queue
  OBVIOUS
<1>10. s = t
  <2>1. t = queue
    BY <1>1, <1>9, ConcatEmptySeq
  <2>2. /\ s \in Seq(Received) /\ Len(s) = n + Len(y)
        /\ \A i \in 1..(n + Len(y)) : s[i] = IF i <= n THEN x[i] ELSE y[i - n]
    BY <1>7, <1>8, <1>9, ConcatProperties
  <2>3. Len(s) = Len(queue)
    BY <1>2, <1>4, <1>8, <2>2
  <2>4. ASSUME NEW i \in 1..Len(s) PROVE s[i] = queue[i]
    <3>1. CASE i <= n
      <4>1. i \in 1..n
        BY <3>1
      <4>. QED BY <1>7, <2>2, <3>1, <4>1
    <3>2. CASE ~(i <= n)
      <4>1. i - n \in 1..Len(y) /\ (i - n) + n = i
        BY <1>4, <1>8, <2>2, <3>2
      <4>. QED BY <1>8, <2>2, <3>2, <4>1
    <3>. QED BY <3>1, <3>2
  <2>. QED BY <1>1, <2>1, <2>2, <2>3, <2>4, SeqEqual
<1>11. Stream' = Stream
  BY <1>1, <1>5, <1>9, <1>10 DEF Stream
<1>12. Len(y) <= Capacity /\ Len(queue) = Len(y) + n
  BY <1>1, <1>2, <1>4, <1>8
<1>13. \A i \in 1..Len(x) : i \in 1..Len(queue) /\ x[i] = queue[i]
  BY <1>2, <1>4, <1>7
<1>. QED BY <1>4, <1>5, <1>7, <1>8, <1>11, <1>12, <1>13

LEMMA ReadInv ==
  ASSUME StreamAssumption, DecoderAssumption, StreamInv, ReadBatch
  PROVE  StreamInv'
<1>0. StreamTyped /\ KernelBooks /\ DecoderTyped /\ ShownBooks /\ DecoderAgrees /\ AnswerAgrees
  BY DEF StreamInv, StreamTyped
<1>1. /\ Stream' = Stream
      /\ batch' \in Seq(Received) /\ Len(batch') <= MaxBatch
      /\ queue' \in Seq(Received) /\ Len(queue') <= Capacity
  BY <1>0, ReadForm
<1>2. /\ UNCHANGED <<sync, current, committed, published, pending, buttons, frame>>
      /\ UNCHANGED <<contact, owner, pressed, kslot, packets, next, resting>>
      /\ UNCHANGED <<asked, answer, taken, misrouted>> /\ sync # "Recovering"
  BY DEF ReadBatch, decoder, kernel, query, history
<1>3. Coherent(Stream)'
  <2>1. Coherent(Stream)
    BY DEF StreamInv
  <2>. QED BY <1>1, <1>2, <2>1 DEF Coherent, LastIdHolds, LastKeyHolds, PositionsFollowIds,
                                   EndsAPacket, NotFromLater
<1>4. Coherent(queue)'
  <2>1. PICK t : t = queue'
    OBVIOUS
  <2>2. PICK d \in Nat : Len(queue) = Len(t) + d /\ \A i \in 1..Len(t) : t[i] = queue[i + d]
    BY <1>0, <2>1, ReadForm
  <2>3. Coherent(queue) /\ Len(t) \in Nat
    BY <1>1, <2>1 DEF StreamInv
  <2>4. Coherent(t)
    BY <2>2, <2>3, EndIsCoherent
  <2>. QED BY <1>2, <2>1, <2>4 DEF Coherent, LastIdHolds, LastKeyHolds, PositionsFollowIds,
                                   EndsAPacket, NotFromLater
<1>5. StreamTyped'
  BY <1>0, <1>1, <1>2 DEF StreamTyped, DecoderTyped
<1>6. KernelBooks' /\ ShownBooks'
  BY <1>0, <1>2 DEF KernelBooks, ShownBooks, LifeBooks, FrameBooks, Held
<1>7. DecoderAgrees'
  BY <1>0, <1>1, <1>2 DEF DecoderAgrees, Settled, KeySettled, LiveId, Expected, Cuts, Turns
<1>8. AnswerAgrees'
  BY <1>0, <1>2 DEF AnswerAgrees
<1>. QED BY <1>3, <1>4, <1>5, <1>6, <1>7, <1>8 DEF StreamInv

(* A step that leaves the queues, the hardware and the decoder alone. *)
LEMMA StillInv ==
  ASSUME StreamInv,
         UNCHANGED <<kernel, queue, batch, taken, backlog, torn, history>>,
         UNCHANGED <<current, committed, published, pending, buttons, frame>>,
         sync' \in {sync, "Degraded"}, asked' \subseteq Axes \cup {"tracking"},
         answer' \in [Slots -> Contacts], AnswerAgrees'
  PROVE  StreamInv'
<1>0. StreamTyped /\ KernelBooks /\ DecoderTyped /\ ShownBooks /\ DecoderAgrees
  BY DEF StreamInv, StreamTyped
<1>1. /\ UNCHANGED <<contact, owner, pressed, kslot, packets, next, resting>>
      /\ misrouted' = misrouted /\ Stream' = Stream
  BY DEF kernel, history, Stream
<1>2. Coherent(Stream)' /\ Coherent(queue)'
  <2>1. Coherent(Stream) /\ Coherent(queue)
    BY DEF StreamInv
  <2>. QED BY <1>1, <2>1 DEF Coherent, LastIdHolds, LastKeyHolds, PositionsFollowIds,
                             EndsAPacket, NotFromLater
<1>3. StreamTyped'
  BY <1>0, <1>1 DEF StreamTyped, DecoderTyped, SyncStates
<1>4. KernelBooks' /\ ShownBooks'
  BY <1>0, <1>1 DEF KernelBooks, ShownBooks, LifeBooks, FrameBooks, Held
<1>5. DecoderAgrees'
  <2>1. CASE sync' = sync
    BY <1>0, <1>1, <2>1 DEF DecoderAgrees, Settled, KeySettled, LiveId, Expected, Cuts, Turns
  <2>2. CASE sync' = "Degraded"
    BY <2>2 DEF DecoderAgrees
  <2>. QED BY <2>1, <2>2
<1>. QED BY <1>2, <1>3, <1>4, <1>5 DEF StreamInv

LEMMA QueryInv ==
  ASSUME StreamAssumption, DecoderAssumption, StreamInv, QueryTracking \/ QueryAxis \/ Fail
  PROVE  StreamInv'
<1>0. StreamTyped /\ KernelBooks /\ AnswerAgrees
  BY DEF StreamInv
<1>1. CASE QueryTracking
  <2>1. /\ sync = "Recovering" /\ asked' = asked \ {"tracking"}
        /\ answer' = [s \in Slots |-> [id |-> contact[s], pos |-> Unknown]]
        /\ UNCHANGED <<kernel, queue, batch, taken, backlog, torn, history>>
        /\ UNCHANGED <<sync, current, committed, published, pending, buttons, frame>>
    BY <1>1 DEF QueryTracking, decoder
  <2>2. answer' \in [Slots -> Contacts] /\ asked' \subseteq Axes \cup {"tracking"}
    BY <1>0, <2>1, UnknownType DEF StreamTyped, KernelBooks, Contacts
  <2>3. AnswerAgrees'
    BY <2>1 DEF AnswerAgrees, NoContact, kernel
  <2>. QED BY <2>1, <2>2, <2>3, StillInv
<1>2. CASE QueryAxis
  <2>1. PICK a \in asked :
          /\ asked' = asked \ {a}
          /\ answer' = [s \in Slots |-> IF answer[s].id = None THEN answer[s]
                                        ELSE [answer[s] EXCEPT !.pos[a] = owner[s]]]
    BY <1>2 DEF QueryAxis
  <2>2. /\ UNCHANGED <<kernel, queue, batch, taken, backlog, torn, history>>
        /\ UNCHANGED <<sync, current, committed, published, pending, buttons, frame>>
        /\ "tracking" \notin asked /\ sync = "Recovering" /\ contact' = contact
    BY <1>2 DEF QueryAxis, decoder, kernel
  <2>3. a \in Axes /\ asked' \subseteq Axes \cup {"tracking"}
    BY <1>0, <2>1, <2>2 DEF StreamTyped
  <2>4. ASSUME NEW s \in Slots
        PROVE  answer'[s] \in Contacts /\ answer'[s].id = answer[s].id
    <3>1. answer[s] \in Contacts /\ owner[s] \in Values \cup {None}
      BY <1>0 DEF StreamTyped, KernelBooks, StreamAssumption
    <3>. QED BY <2>1, <2>3, <3>1 DEF Contacts, Position
  <2>5. answer' \in [Slots -> Contacts]
    BY <2>1, <2>4
  <2>6. \A s \in Slots : answer[s].id = None => answer'[s] = answer[s]
    BY <2>1
  <2>7. AnswerAgrees'
    BY <1>0, <2>1, <2>2, <2>4, <2>6 DEF AnswerAgrees, Settled, Cuts
  <2>. QED BY <2>2, <2>3, <2>5, <2>7, StillInv
<1>3. CASE Fail
  <2>1. /\ sync' = "Degraded" /\ UNCHANGED <<asked, answer>>
        /\ UNCHANGED <<kernel, queue, batch, taken, backlog, torn, history>>
        /\ UNCHANGED <<current, committed, published, pending, buttons, frame>>
    BY <1>3 DEF Fail, Degrade, query
  <2>2. answer' \in [Slots -> Contacts] /\ asked' \subseteq Axes \cup {"tracking"}
    BY <1>0, <2>1 DEF StreamTyped
  <2>3. AnswerAgrees'
    BY <1>0, <2>1 DEF AnswerAgrees
  <2>. QED BY <2>1, <2>2, <2>3, StillInv
<1>. QED BY <1>1, <1>2, <1>3

(* What the snapshot leaves of the queue is all that is still to be fed. *)
LEMMA FinishForm ==
  ASSUME StreamTyped, FinishSnapshot
  PROVE  /\ Stream' = queue' /\ batch' = <<>> /\ queue' \in Seq(Received)
         /\ Len(queue') <= Len(queue) /\ \E h : Sieved(queue, queue', h)
<1>1. queue \in Seq(Received)
  BY DEF StreamTyped
<1>2. PICK t : t = queue'
  OBVIOUS
<1>3. t = KeyFree(queue) /\ batch' = <<>>
  BY <1>2 DEF FinishSnapshot, Drained
<1>4. t \in Seq(Received) /\ Len(t) <= Len(queue) /\ \E h : Sieved(queue, t, h)
  BY <1>1, <1>3, KeyFreeForm
<1>5. Stream' = <<>> \o t
  BY <1>2, <1>3 DEF Stream
<1>6. Stream' = t
  BY <1>4, <1>5, ConcatEmptySeq
<1>. QED BY <1>2, <1>3, <1>4, <1>6

LEMMA FinishInv ==
  ASSUME StreamAssumption, DecoderAssumption, StreamInv, FinishSnapshot
  PROVE  StreamInv'
<1>0. /\ StreamTyped /\ KernelBooks /\ DecoderTyped /\ AnswerAgrees /\ Coherent(queue)
      /\ queue \in Seq(Received) /\ answer \in [Slots -> Contacts] /\ pressed \in SUBSET Buttons
  BY DEF StreamInv, StreamTyped, KernelBooks
<1>1. /\ Install(answer, pressed) /\ sync = "Recovering" /\ asked = {}
      /\ UNCHANGED <<contact, owner, pressed, kslot, packets, next, resting>>
      /\ UNCHANGED <<asked, answer, taken, misrouted>>
  BY DEF FinishSnapshot, kernel, query, history
<1>2. PICK t : t = queue'
  OBVIOUS
<1>3. /\ Stream' = t /\ batch' = <<>> /\ t \in Seq(Received) /\ Len(t) <= Len(queue)
      /\ \E h : Sieved(queue, t, h)
  BY <1>0, <1>2, FinishForm
<1>4. PICK h : Sieved(queue, t, h)
  BY <1>3
<1>5. Len(t) \in Nat /\ Len(queue) \in Nat
  BY <1>0, <1>3
<1>6. Coherent(t)
  BY <1>0, <1>4, <1>5, SievedIsCoherent
<1>7. Coherent(Stream)' /\ Coherent(queue)'
  BY <1>1, <1>2, <1>3, <1>6 DEF Coherent, LastIdHolds, LastKeyHolds, PositionsFollowIds,
                                EndsAPacket, NotFromLater
<1>8. /\ \A s \in Slots : answer[s].id = None => answer[s] = NoContact
      /\ \A s \in Slots : answer[s].id # None => Complete(answer[s].pos)
      /\ answer \in Snapshots
  BY <1>0, <1>1 DEF AnswerAgrees, Install, Snapshots
<1>9. DecoderTyped' /\ ShownBooks'
  BY <1>0, <1>1, <1>8, InstallType, InstallBooks
<1>10. StreamTyped'
  <2>1. /\ batch' \in Seq(Received) /\ Len(batch') = 0
    BY <1>3
  <2>2. Len(queue') <= Capacity
    BY <1>0, <1>2, <1>3, <1>5 DEF StreamTyped, StreamAssumption
  <2>3. current' \in Slots /\ sync' = "Normal"
    BY <1>1, DecoderAssumption DEF Install, DecoderAssumption
  <2>. QED BY <1>0, <1>1, <1>2, <1>3, <1>9, <2>1, <2>2, <2>3 DEF StreamTyped, StreamAssumption
<1>11. KernelBooks'
  BY <1>0, <1>1 DEF KernelBooks
<1>12. DecoderAgrees'
  <2>1. /\ committed' = answer /\ \A s \in Slots : pending'[s] = Cycle(answer[s])
        /\ buttons' = pressed /\ taken > 0
    BY <1>0, <1>1 DEF Install, Renewed, StreamTyped
  <2>2. ASSUME NEW s \in Slots, Settled(t, s) PROVE LiveId(s)' = Expected(s)'
    <3>1. ASSUME NEW k \in 1..Len(queue), Cuts(queue[k], s) PROVE FALSE
      <4>1. queue[k].kind \notin Keys
        BY <3>1 DEF Cuts, Keys
      <4>2. PICK i \in 1..Len(t) : h[i] = k /\ t[i] = queue[h[i]]
        BY <1>4, <4>1 DEF Sieved
      <4>. QED BY <2>2, <3>1, <4>2 DEF Settled
    <3>2. answer[s].id = contact[s]
      BY <1>0, <1>1, <3>1 DEF AnswerAgrees, Settled
    <3>3. LiveId(s)' = answer[s].id
      <4>1. /\ pending'[s].id = answer[s].id
            /\ pending'[s].life = IF answer[s].id = None THEN "empty" ELSE "carried"
        <5>1. PICK c : c = Cycle(answer[s])
          OBVIOUS
        <5>2. pending'[s] = c
          BY <2>1, <5>1
        <5>3. /\ c.id = answer[s].id
              /\ c.life = IF answer[s].id = None THEN "empty" ELSE "carried"
          BY <5>1 DEF Cycle
        <5>. QED BY <5>2, <5>3
      <4>. QED BY <4>1 DEF LiveId, Live
    <3>. QED BY <1>0, <1>1, <2>1, <3>2, <3>3 DEF Expected, StreamTyped
  <2>3. \A s \in Slots : Settled(Stream, s)' => LiveId(s)' = Expected(s)'
    BY <1>3, <2>2 DEF Settled, Cuts
  <2>. QED BY <1>1, <2>1, <2>3 DEF DecoderAgrees
<1>13. AnswerAgrees'
  <2>1. sync' = "Normal"
    BY <1>1 DEF Install
  <2>. QED BY <1>1, <1>8, <2>1 DEF AnswerAgrees
<1>. QED BY <1>7, <1>9, <1>10, <1>11, <1>12, <1>13 DEF StreamInv

LEMMA StreamStep ==
  ASSUME StreamAssumption, DecoderAssumption, StreamInv, [StreamNext]_streamVars
  PROVE  StreamInv'
<1>1. CASE UNCHANGED streamVars
  <2>1. /\ UNCHANGED <<kernel, queue, batch, taken, backlog, torn, history>>
        /\ UNCHANGED <<sync, current, committed, published, pending, buttons, frame>>
        /\ UNCHANGED <<asked, answer>>
    BY <1>1 DEF streamVars, decoder, query
  <2>2. answer' \in [Slots -> Contacts] /\ asked' \subseteq Axes \cup {"tracking"}
    BY <2>1 DEF StreamInv, StreamTyped
  <2>3. AnswerAgrees'
    BY <2>1 DEF StreamInv, AnswerAgrees, Settled, Cuts, kernel, Nothing
  <2>. QED BY <2>1, <2>2, <2>3, StillInv
<1>. QED BY <1>1, HardwareInv, FeedInv, ReadInv, QueryInv, FinishInv DEF StreamNext

(* Whatever was queued, dropped, drained and read across a snapshot, what   *)
(* is still to be fed and what the decoder holds agree on who is down.      *)
THEOREM StreamInvariant == StreamSpec => []StreamInv
<1>1. StreamInit => StreamInv
  BY StreamAssumption, DecoderAssumption, StreamInitInv
<1>2. StreamInv /\ [StreamNext]_streamVars => StreamInv'
  BY StreamAssumption, DecoderAssumption, StreamStep
<1>. QED BY <1>1, <1>2, PTL DEF StreamSpec

(* When everything the kernel queued has been fed, the decoder knows the    *)
(* contacts and buttons that are down (runtime.rs, after any number of      *)
(* SYN_DROPPED, drains and snapshots).                                      *)
THEOREM StreamCatchesUp == StreamSpec => []CaughtUp
<1>1. StreamInv => CaughtUp
  <2>. SUFFICES ASSUME StreamInv PROVE CaughtUp
    OBVIOUS
  <2>1. StreamTyped /\ KernelBooks /\ DecoderAgrees
    BY DEF StreamInv
  <2>2. StreamTypeOK
    BY <2>1 DEF StreamTyped, KernelBooks, StreamTypeOK, DecoderTyped
  <2>3. ASSUME AllRead, misrouted = {}
        PROVE  /\ \A s \in Slots : committed[s].id = Expected(s)
               /\ buttons = pressed
    <3>1. Len(Stream) = 0 /\ sync = "Normal"
      BY <2>1, <2>3, StreamForm DEF AllRead
    <3>2. ASSUME NEW s \in Slots PROVE committed[s].id = Expected(s)
      <4>1. Settled(Stream, s) /\ pending[s] = Cycle(committed[s])
        BY <2>1, <3>1 DEF DecoderAgrees, Settled
      <4>2. LiveId(s) = Expected(s)
        BY <2>1, <2>3, <3>1, <4>1 DEF DecoderAgrees
      <4>. QED BY <4>1, <4>2 DEF LiveId, Live, Cycle
    <3>3. \A b \in Buttons : b \in buttons <=> b \in pressed
      BY <2>1, <3>1 DEF DecoderAgrees, KeySettled
    <3>. QED BY <2>1, <3>2, <3>3 DEF StreamTyped, DecoderTyped, KernelBooks
  <2>. QED BY <2>2, <2>3 DEF CaughtUp, Expected
<1>. QED BY <1>1, StreamInvariant, PTL

-----------------------------------------------------------------------------
(* FrameInv is inductive relative to StreamInv. *)

(* The positions in a packet are of the touches the decoder has live, or    *)
(* come behind the id of a new one. *)
LEMMA FollowsComing ==
  ASSUME NEW q \in Seq(Received), NEW n \in Nat, n <= Len(q),
         NEW es, Tells(es), NEW t, Follows(t, q, n, es), ComingPositions(q),
         \A s \in Slots : Settled(q, s) => LiveId(s) \in {None, contact[s]}
  PROVE  ComingPositions(t)
<1>. SUFFICES ASSUME NEW j \in 1..Len(t), t[j].kind = "axis", ~Outdated(t[j]), Unspoiled(t, j)
              PROVE  LiveId(t[j].at) = None \/ t[j].val = LiveId(t[j].at)
  BY DEF ComingPositions
<1>0. Len(q) \in Nat /\ Len(es) \in Nat /\ es \in Seq(Received)
  BY DEF Tells
<1>1. ASSUME j \in 1..Len(q), \A i \in 1..j : i \in 1..Len(t) /\ t[i] = q[i]
      PROVE  LiveId(t[j].at) = None \/ t[j].val = LiveId(t[j].at)
  <2>1. t[j] = q[j]
    BY <1>0, <1>1
  <2>2. Unspoiled(q, j)
    <3>. SUFFICES ASSUME NEW i \in 1..Len(q), i < j
                  PROVE  ~Cuts(q[i], q[j].at) /\ ~Outdated(q[i])
      BY DEF Unspoiled
    <3>1. i \in 1..j
      BY <1>0
    <3>. QED BY <1>1, <2>1, <3>1 DEF Unspoiled
  <2>. QED BY <1>1, <2>1, <2>2 DEF ComingPositions
<1>2. CASE Appended(t, q, es)
  <2>1. Len(t) = Len(q) + Len(es)
    BY <1>2 DEF Appended
  <2>2. CASE j <= Len(q)
    <3>1. j \in 1..Len(q) /\ \A i \in 1..j : i \in 1..Len(q) /\ i \in 1..Len(t)
      BY <1>0, <2>1, <2>2
    <3>2. \A i \in 1..j : t[i] = q[i]
      BY <1>2, <3>1 DEF Appended
    <3>. QED BY <1>1, <3>1, <3>2
  <2>3. CASE ~(j <= Len(q))
    <3>1. PICK k : k = j - Len(q)
      OBVIOUS
    <3>2. k \in 1..Len(es) /\ j = Len(q) + k
      BY <1>0, <2>1, <2>3, <3>1
    <3>3. t[j] = es[k]
      BY <1>2, <3>2 DEF Appended
    <3>4. PICK s : s = es[k].at
      OBVIOUS
    <3>5. es[k] \in Received /\ s \in Slots
      <4>1. es[k] \in Received
        BY <1>0, <3>2
      <4>. QED BY <3>3, <3>4, <4>1 DEF Received
    <3>6. es[k].val = contact'[s]
      BY <3>2, <3>3, <3>4 DEF Tells
    <3>7. Settled(q, s)
      <4>. SUFFICES ASSUME NEW i \in 1..Len(q) PROVE ~Cuts(q[i], s)
        BY DEF Settled
      <4>1. i \in 1..Len(t) /\ i < j
        BY <1>0, <2>1, <2>3
      <4>2. t[i] = q[i]
        BY <1>2 DEF Appended
      <4>. QED BY <3>3, <3>4, <4>1, <4>2 DEF Unspoiled
    <3>8. contact'[s] = contact[s]
      <4>. SUFFICES ASSUME contact'[s] # contact[s] PROVE FALSE
        OBVIOUS
      <4>1. PICK i \in 1..Len(es) : /\ es[i].kind = "id" /\ es[i].at = s
                                    /\ \A l \in 1..Len(es) : es[l].kind = "axis" => i < l
        BY <3>5 DEF Tells
      <4>2. i < k
        BY <3>2, <3>3, <4>1
      <4>3. Len(q) + i \in 1..Len(t) /\ Len(q) + i < j
        BY <1>0, <2>1, <3>2, <4>2
      <4>4. t[Len(q) + i] = es[i]
        BY <1>2 DEF Appended
      <4>. QED BY <3>3, <3>4, <4>1, <4>3, <4>4 DEF Unspoiled, Cuts
    <3>. QED BY <3>3, <3>4, <3>5, <3>6, <3>7, <3>8
  <2>. QED BY <2>2, <2>3
<1>3. ASSUME NEW r \in Nat, Broken(t, q, n, es, r)
      PROVE  LiveId(t[j].at) = None \/ t[j].val = LiveId(t[j].at)
  <2>1. n + 1 \in 1..Len(t) /\ t[n + 1].kind = "dropped" /\ Len(t) \in Nat
    BY <1>0, <1>3 DEF Broken
  <2>2. j <= n
    <3>. SUFFICES ASSUME ~(j <= n) PROVE FALSE
      BY <2>1
    <3>1. j = n + 1 \/ n + 1 < j
      BY <2>1
    <3>. QED BY <2>1, <3>1 DEF Unspoiled, Cuts
  <2>3. j \in 1..Len(q) /\ \A i \in 1..j : i \in 1..n /\ i \in 1..Len(t)
    BY <1>0, <2>1, <2>2
  <2>4. \A i \in 1..j : t[i] = q[i]
    BY <1>3, <2>3 DEF Broken
  <2>. QED BY <1>1, <2>3, <2>4
<1>. QED BY <1>2, <1>3 DEF Follows

(* A packet is of the snapshots begun when it is queued. *)
LEMMA FollowsEra ==
  ASSUME NEW q \in Seq(Received), NEW es, Tells(es), NEW t, Follows(t, q, 0, es), OfThisEra(q)
  PROVE  OfThisEra(t)
<1>. SUFFICES ASSUME NEW j \in 1..Len(t) PROVE t[j].era = taken
  BY DEF OfThisEra
<1>0. Len(q) \in Nat /\ Len(es) \in Nat /\ \A i \in 1..Len(es) : es[i].era = taken
  BY DEF Tells
<1>1. CASE Appended(t, q, es)
  <2>1. Len(t) = Len(q) + Len(es)
    BY <1>1 DEF Appended
  <2>2. CASE j <= Len(q)
    <3>1. j \in 1..Len(q)
      BY <1>0, <2>2
    <3>. QED BY <1>1, <3>1 DEF Appended, OfThisEra
  <2>3. CASE ~(j <= Len(q))
    <3>1. j - Len(q) \in 1..Len(es) /\ Len(q) + (j - Len(q)) = j
      BY <1>0, <2>1, <2>3
    <3>2. t[Len(q) + (j - Len(q))] = es[j - Len(q)]
      BY <1>1, <3>1 DEF Appended
    <3>. QED BY <1>0, <3>1, <3>2
  <2>. QED BY <2>2, <2>3
<1>2. ASSUME NEW r \in Nat, Broken(t, q, 0, es, r) PROVE t[j].era = taken
  <2>1. /\ Len(t) = 1 + (Len(es) - r) /\ t[1].era = taken /\ r < Len(es)
        /\ \A i \in 1..(Len(es) - r) : t[1 + i] = es[r + i]
    <3>1. 0 + 1 = 1 /\ \A i \in 1..(Len(es) - r) : 0 + 1 + i = 1 + i
      BY <1>0
    <3>. QED BY <1>2, <3>1 DEF Broken
  <2>2. CASE j # 1
    <3>1. /\ j - 1 \in 1..(Len(es) - r) /\ 1 + (j - 1) = j
          /\ r + (j - 1) \in 1..Len(es)
      BY <1>0, <2>1, <2>2
    <3>2. t[1 + (j - 1)] = es[r + (j - 1)]
      BY <2>1, <3>1
    <3>. QED BY <1>0, <3>1, <3>2
  <2>. QED BY <2>1, <2>2
<1>. QED BY <1>1, <1>2 DEF Follows

LEMMA HardwareFrame ==
  ASSUME StreamAssumption, DecoderAssumption, StreamInv, FrameInv, Touch \/ Move \/ Lift \/ Click
  PROVE  FrameInv'
<1>0. /\ StreamTyped /\ KernelBooks /\ DecoderAgrees /\ taken \in Nat
      /\ queue \in Seq(Received)
  BY DEF StreamInv, StreamTyped
<1>1. PICK p : Tells(p) /\ Queues(p) /\ KernelBooks'
  BY <1>0, HardwareTells
<1>2. Follows(queue', queue, 0, p) /\ Follows(Stream', Stream, Len(batch), p)
  BY <1>1, HardwareFollows
<1>3. /\ UNCHANGED <<sync, current, committed, published, pending, buttons, frame>>
      /\ UNCHANGED <<batch, asked, answer, taken, backlog, misrouted, stale>>
      /\ torn' = (torn \/ sync = "Recovering")
  BY <1>1 DEF Queues, decoder, history
<1>4. PICK x, y : x = Stream' /\ y = queue'
  OBVIOUS
<1>5. DrainInv'
  <2>1. DrainInv
    BY DEF FrameInv
  <2>2. ~backlog => OfThisEra(y)
    BY <1>0, <1>1, <1>2, <1>4, <2>1, FollowsEra DEF DrainInv
  <2>. QED BY <1>3, <1>4, <2>1, <2>2 DEF DrainInv, OfThisEra
<1>6. OwnPositions'
  BY <1>3 DEF FrameInv, OwnPositions, Undisturbed, Measures, Live
<1>7. SnapshotInv'
  BY <1>3 DEF SnapshotInv, Undisturbed
<1>8. NoForeignCoordinates'
  BY <1>3 DEF FrameInv, NoForeignCoordinates
<1>9. ASSUME Undisturbed', sync' = "Normal" PROVE ComingPositions(Stream)'
  <2>1. Undisturbed /\ sync = "Normal"
    BY <1>3, <1>9 DEF Undisturbed
  <2>2. /\ Stream \in Seq(Received) /\ Len(batch) \in Nat /\ Len(batch) <= Len(Stream)
    BY <1>0, StreamForm DEF StreamTyped
  <2>3. ComingPositions(Stream)
    BY <2>1 DEF FrameInv
  <2>4. \A s \in Slots : Settled(Stream, s) => LiveId(s) \in {None, contact[s]}
    BY <1>0, <2>1 DEF DecoderAgrees, Undisturbed, Expected
  <2>5. ComingPositions(x)
    BY <1>1, <1>2, <1>4, <2>2, <2>3, <2>4, FollowsComing
  <2>. QED BY <1>3, <1>4, <2>5 DEF ComingPositions, Outdated, Unspoiled, Cuts, LiveId, Live
<1>. QED BY <1>5, <1>6, <1>7, <1>8, <1>9 DEF FrameInv

(* What a slot holds, committed and pending, measures the contact it is     *)
(* held for. *)
Owned(c, p) ==
  /\ Measures(c.pos, c.id)
  /\ Live(p) => Measures(p.pos, p.id)
  /\ p.life = "ended" => Measures(p.pos, c.id)

LEMMA OwnedPositions ==
  OwnPositions <=> (Undisturbed => \A s \in Slots : Owned(committed[s], pending[s]))
BY DEF OwnPositions, Owned

(* A tracking id starts without a position or keeps its own. *)
LEMMA TrackedOwned ==
  ASSUME NEW c \in Contacts, NEW p \in Pendings, NEW id \in Ids \cup {None},
         Owned(c, p), p.life = "carried" => p.id = c.id
  PROVE  Owned(c, Tracked(p, id))
<1>1. Measures(Unknown, c.id) /\ Measures(Unknown, id)
  BY DEF Measures, Unknown
<1>2. PICK q : q = Tracked(p, id)
  OBVIOUS
<1>3. CASE id # None /\ Live(p) /\ p.id = id
  <2>1. q = p
    BY <1>2, <1>3 DEF Tracked
  <2>. QED BY <1>2, <2>1
<1>4. CASE id # None /\ ~(Live(p) /\ p.id = id)
  <2>1. q.life = "fresh" /\ q.id = id /\ q.pos = Unknown
    BY <1>2, <1>4 DEF Tracked, Pendings
  <2>. QED BY <1>1, <1>2, <2>1 DEF Owned, Live
<1>5. CASE id = None /\ p.life = "carried"
  <2>1. q.life = "ended" /\ q.pos = p.pos
    BY <1>2, <1>5 DEF Tracked, Pendings
  <2>. QED BY <1>2, <1>5, <2>1 DEF Owned, Live
<1>6. CASE id = None /\ p.life = "fresh"
  <2>1. q.life = "ended" /\ q.pos = Unknown
    BY <1>2, <1>6 DEF Tracked
  <2>. QED BY <1>1, <1>2, <2>1 DEF Owned, Live
<1>7. CASE id = None /\ p.life \notin {"carried", "fresh"}
  <2>1. q = p
    BY <1>2, <1>7 DEF Tracked
  <2>. QED BY <1>2, <2>1
<1>. QED BY <1>3, <1>4, <1>5, <1>6, <1>7

(* A position of the live contact is its own. *)
LEMMA FieldOwned ==
  ASSUME NEW c \in Contacts, NEW p \in Pendings, NEW e, e.code \in Axes, Owned(c, p),
         Live(p) => e.val = p.id
  PROVE  Owned(c, WithField(p, e))
<1>1. CASE Live(p)
  <2>1. PICK q : q = [p EXCEPT !.pos[e.code] = e.val]
    OBVIOUS
  <2>2. /\ q.life = p.life /\ q.id = p.id
        /\ \A a \in Axes : q.pos[a] = IF a = e.code THEN e.val ELSE p.pos[a]
    BY <2>1 DEF Pendings, Position
  <2>3. Measures(q.pos, q.id)
    BY <1>1, <2>2 DEF Owned, Measures
  <2>4. q.life # "ended"
    BY <1>1, <2>2 DEF Live
  <2>5. WithField(p, e) = q
    BY <1>1, <2>1 DEF WithField
  <2>. QED BY <2>3, <2>4, <2>5 DEF Owned
<1>2. CASE ~Live(p)
  BY <1>2 DEF WithField
<1>. QED BY <1>1, <1>2

LEMMA OverlayOwned ==
  ASSUME NEW p, NEW q, NEW id, Measures(p, id), Measures(q, id)
  PROVE  Measures(Overlay(p, q), id)
BY DEF Measures, Overlay

(* So what a commit merges, and every entry it shows, has its own. *)
LEMMA MergedOwned ==
  ASSUME DecoderTyped, ShownBooks, NEW s \in Slots, Owned(committed[s], pending[s])
  PROVE  /\ Measures(Merged(s).pos, Merged(s).id)
         /\ Entry(s).state # "none" => \A a \in Axes : Entry(s).pos[a] = Entry(s).id
<1>0. /\ pending[s] \in Pendings /\ committed[s] \in Contacts /\ LifeBooks(s) /\ FrameBooks(s)
  BY DEF DecoderTyped, ShownBooks
<1>1. Measures(NoContact.pos, NoContact.id)
  BY DEF Measures, NoContact, Unknown
<1>2. /\ pending[s].life \in {"carried", "ended"} =>
           Measures(Updated(committed[s], pending[s]).pos, committed[s].id)
      /\ Updated(committed[s], pending[s]).id = committed[s].id
  <2>1. pending[s].life \in {"carried", "ended"} => Measures(pending[s].pos, committed[s].id)
    BY <1>0 DEF Owned, Live, LifeBooks
  <2>2. /\ Updated(committed[s], pending[s]).pos = Overlay(committed[s].pos, pending[s].pos)
        /\ Updated(committed[s], pending[s]).id = committed[s].id
    BY <1>0 DEF Updated, Contacts
  <2>. QED BY <2>1, <2>2, OverlayOwned DEF Owned
<1>3. Measures(Merged(s).pos, Merged(s).id)
  <2>1. CASE pending[s].life = "fresh"
    BY <2>1 DEF Merged, Owned, Live
  <2>2. CASE pending[s].life = "carried"
    BY <1>2, <2>2 DEF Merged
  <2>3. CASE pending[s].life \in {"empty", "ended"}
    BY <1>1, <2>3 DEF Merged, Owned
  <2>. QED BY <1>0, <2>1, <2>2, <2>3 DEF Pendings, Lives
<1>4. CASE Held(Merged(s))
  <2>1. \A a \in Axes : Merged(s).pos[a] = Merged(s).id
    BY <1>3, <1>4 DEF Held, Complete, Measures
  <2>2. Entry(s).pos = Merged(s).pos /\ Entry(s).id = Merged(s).id
    BY <1>4 DEF Entry, Shown, Held, Known, Complete
  <2>. QED BY <1>3, <2>1, <2>2
<1>5. CASE ~Held(Merged(s)) /\ Merged(s).id = None /\ Ends(s)
  <2>1. pending[s].life = "ended"
    <3>1. pending[s].over # {}
      BY <1>5 DEF Ends
    <3>. QED BY <1>0, <1>5, <3>1 DEF Merged, LifeBooks, Updated, Contacts, Pendings, Lives
  <2>2. PICK c : c = Updated(committed[s], pending[s])
    OBVIOUS
  <2>3. Entry(s).pos = c.pos /\ Entry(s).id = c.id
    BY <1>5, <2>2 DEF Entry, Shown
  <2>4. Complete(committed[s].pos)
    BY <1>0, <1>5 DEF Ends, FrameBooks, Held
  <2>5. c.pos = Overlay(committed[s].pos, pending[s].pos)
    BY <1>0, <2>2 DEF Updated, Contacts
  <2>6. Complete(c.pos)
    BY <2>4, <2>5 DEF Complete, Overlay
  <2>. QED BY <1>2, <1>3, <2>1, <2>2, <2>3, <2>6 DEF Complete, Measures
<1>6. CASE ~Held(Merged(s)) /\ ~(Merged(s).id = None /\ Ends(s))
  <2>1. Entry(s).state = "none"
    BY <1>6 DEF Entry, Nobody, Shown
  <2>. QED BY <1>3, <2>1
<1>. QED BY <1>4, <1>5, <1>6

(* The positions to come, once the first event has been fed. *)
LEMMA FedComing ==
  ASSUME NEW q \in Seq(Received), NEW t, Len(t) \in Nat, Len(q) = Len(t) + 1,
         \A i \in 1..Len(t) : t[i] = q[i + 1],
         NEW e, e = q[1], ~Outdated(e), e.kind # "dropped", e.kind = "id" => e.at = current,
         ComingPositions(q), PositionsFollowIds(q), taken' = taken,
         \A s \in Slots : LiveId(s)' = IF e.kind = "id" /\ s = current THEN e.val ELSE LiveId(s)
  PROVE  ComingPositions(t)'
<1>. SUFFICES ASSUME NEW j \in 1..Len(t), t[j].kind = "axis", ~Outdated(t[j]), Unspoiled(t, j)
              PROVE  LiveId(t[j].at)' = None \/ t[j].val = LiveId(t[j].at)'
  BY DEF ComingPositions, Outdated, Unspoiled, Cuts
<1>0. /\ j + 1 \in 1..Len(q) /\ t[j] = q[j + 1] /\ 1 \in 1..Len(q) /\ 1 < j + 1
  OBVIOUS
<1>1. PICK s : s = t[j].at
  OBVIOUS
<1>2. s \in Slots
  <2>1. t[j] \in Received
    BY <1>0
  <2>. QED BY <1>1, <2>1 DEF Received
<1>3. ASSUME NEW k \in 1..Len(q), k < j + 1, k # 1
      PROVE  ~Cuts(q[k], s) /\ ~Outdated(q[k])
  <2>1. k - 1 \in 1..Len(t) /\ (k - 1) + 1 = k /\ k - 1 < j
    BY <1>3
  <2>2. t[k - 1] = q[k]
    BY <2>1
  <2>. QED BY <1>1, <2>1, <2>2 DEF Unspoiled
<1>4. CASE e.kind = "id" /\ s = current
  <2>1. \A k \in 1..Len(q) : 1 < k /\ k < j + 1 => ~Cuts(q[k], q[1].at)
    BY <1>3, <1>4
  <2>2. q[j + 1].val = q[1].val
    <3>1. /\ q[1].kind = "id" /\ q[j + 1].kind = "axis" /\ q[j + 1].at = q[1].at
          /\ 1 \in 1..Len(q) /\ j + 1 \in 1..Len(q) /\ 1 < j + 1
      BY <1>0, <1>1, <1>4
    <3>. QED BY <2>1, <3>1 DEF PositionsFollowIds
  <2>3. LiveId(s)' = e.val
    BY <1>2, <1>4
  <2>. QED BY <1>0, <1>1, <2>2, <2>3
<1>5. CASE ~(e.kind = "id" /\ s = current)
  <2>1. ~Cuts(e, s)
    BY <1>5 DEF Cuts
  <2>2. Unspoiled(q, j + 1)
    <3>. SUFFICES ASSUME NEW k \in 1..Len(q), k < j + 1
                  PROVE  ~Cuts(q[k], q[j + 1].at) /\ ~Outdated(q[k])
      BY DEF Unspoiled
    <3>1. CASE k = 1
      BY <1>0, <1>1, <2>1, <3>1
    <3>2. CASE k # 1
      BY <1>0, <1>1, <1>3, <3>2
    <3>. QED BY <3>1, <3>2
  <2>3. LiveId(s) = None \/ q[j + 1].val = LiveId(s)
    BY <1>0, <1>1, <2>2 DEF ComingPositions
  <2>4. LiveId(s)' = LiveId(s)
    BY <1>2, <1>5
  <2>. QED BY <1>0, <1>1, <2>3, <2>4
<1>. QED BY <1>4, <1>5

(* Feeding keeps every slot's positions its own, and every frame's. *)
LEMMA ApplyOwned ==
  ASSUME StreamAssumption, DecoderTyped, ShownBooks, NEW e, Readable(e), Apply(e),
         \A s \in Slots : Owned(committed[s], pending[s]),
         \A s \in Slots : frame.contacts[s].state # "none" =>
           \A a \in Axes : frame.contacts[s].pos[a] = frame.contacts[s].id,
         e.kind = "axis" /\ current \in Slots =>
           LiveId(current) = None \/ e.val = LiveId(current)
  PROVE  \A s \in Slots :
           /\ Owned(committed'[s], pending'[s])
           /\ frame'.contacts[s].state # "none" =>
                \A a \in Axes : frame'.contacts[s].pos[a] = frame'.contacts[s].id
<1>. SUFFICES ASSUME NEW s \in Slots
              PROVE  /\ Owned(committed'[s], pending'[s])
                     /\ frame'.contacts[s].state # "none" =>
                          \A a \in Axes : frame'.contacts[s].pos[a] = frame'.contacts[s].id
  OBVIOUS
<1>0. /\ pending[s] \in Pendings /\ committed[s] \in Contacts /\ LifeBooks(s)
      /\ Owned(committed[s], pending[s])
  BY DEF DecoderTyped, ShownBooks
<1>1. CASE (e.kind = "slot" /\ Select(e)) \/ (e.kind \in {"press", "release"} /\ Key(e))
  BY <1>1 DEF Select, Key
<1>2. CASE e.kind = "id" /\ Track(e)
  <2>1. committed' = committed /\ frame' = frame
    BY <1>2 DEF Track
  <2>2. CASE s = current
    <3>1. pending'[s] = Tracked(pending[s], e.val) /\ e.val \in Ids \cup {None}
      BY <1>2, <2>2 DEF Track, Readable
    <3>2. Owned(committed[s], Tracked(pending[s], e.val))
      BY <1>0, <3>1, TrackedOwned DEF LifeBooks
    <3>. QED BY <2>1, <3>1, <3>2
  <2>3. CASE s # current
    <3>1. pending'[s] = pending[s]
      BY <1>2, <2>3 DEF Track
    <3>. QED BY <1>0, <2>1, <3>1
  <2>. QED BY <2>2, <2>3
<1>3. CASE e.kind = "axis" /\ Field(e)
  <2>1. committed' = committed /\ frame' = frame
    BY <1>3 DEF Field
  <2>2. CASE s = current
    <3>1. pending'[s] = WithField(pending[s], e) /\ e.code \in Axes
      BY <1>3, <2>2 DEF Field, Readable
    <3>2. Live(pending[s]) => e.val = pending[s].id
      <4>1. Live(pending[s]) => pending[s].id # None /\ LiveId(s) = pending[s].id
        BY <1>0 DEF Live, LifeBooks, LiveId
      <4>. QED BY <1>3, <2>2, <4>1
    <3>3. Owned(committed[s], WithField(pending[s], e))
      BY <1>0, <3>1, <3>2, FieldOwned
    <3>. QED BY <2>1, <3>1, <3>3
  <2>3. CASE s # current
    <3>1. pending'[s] = pending[s]
      BY <1>3, <2>3 DEF Field
    <3>. QED BY <1>0, <2>1, <3>1
  <2>. QED BY <2>2, <2>3
<1>4. CASE e.kind = "sync" /\ Commit
  <2>1. /\ Measures(Merged(s).pos, Merged(s).id)
        /\ Entry(s).state # "none" => \A a \in Axes : Entry(s).pos[a] = Entry(s).id
    BY <1>0, MergedOwned
  <2>2. /\ committed'[s] = Merged(s) /\ pending'[s] = Cycle(Merged(s))
        /\ frame'.contacts[s] = Entry(s)
    BY <1>4 DEF Commit, Publish
  <2>3. Owned(Merged(s), Cycle(Merged(s)))
    <3>1. Cycle(Merged(s)).pos = Unknown
      BY DEF Cycle
    <3>2. \A id : Measures(Unknown, id)
      BY DEF Measures, Unknown
    <3>. QED BY <2>1, <3>1, <3>2 DEF Owned
  <2>. QED BY <2>1, <2>2, <2>3
<1>. QED BY <1>1, <1>2, <1>3, <1>4 DEF Apply

LEMMA FeedFrame ==
  ASSUME StreamAssumption, DecoderAssumption, StreamInv, FrameInv, FeedNext
  PROVE  FrameInv'
<1>0. /\ StreamTyped /\ DecoderTyped /\ ShownBooks /\ Coherent(Stream) /\ Coherent(queue)
      /\ batch \in Seq(Received) /\ queue \in Seq(Received) /\ taken \in Nat
  BY DEF StreamInv, StreamTyped
<1>1. PICK e : e = Head(batch)
  OBVIOUS
<1>2. /\ batch # <<>> /\ Feed(e) /\ batch' = Tail(batch) /\ queue' = queue
      /\ misrouted' = IF sync = "Normal" /\ Scoped(e) /\ e.at # current
                      THEN misrouted \cup {Since} ELSE misrouted
      /\ stale' = (stale \/ (sync = "Normal" /\ Outdated(e)))
      /\ UNCHANGED kernel
      /\ sync \in {"Normal", "DroppedAwaitingBoundary"}
  BY <1>1 DEF FeedNext
<1>3. /\ e = Stream[1] /\ Len(Stream) > 0 /\ Len(Stream)' \in Nat
      /\ Len(Stream) = Len(Stream)' + 1
      /\ \A i \in 1..Len(Stream)' : Stream'[i] = Stream[i + 1]
  BY <1>0, <1>1, <1>2, FedForm
<1>4. e \in Received /\ Readable(e) /\ e.kind \in Kinds /\ Stream \in Seq(Received)
  <2>1. Stream \in Seq(Received) /\ 1 \in 1..Len(Stream)
    BY <1>0, <1>3, StreamForm
  <2>. QED BY <1>3, <2>1, ElementOfSeq, ReceivedReadable
<1>5. IF sync' = "Recovering"
      THEN /\ taken' = taken + 1 /\ answer' = Nothing /\ asked' = Axes \cup {"tracking"}
           /\ backlog' = (backlog \/ queue # <<>>) /\ torn' = torn
      ELSE taken' = taken /\ answer' = answer /\ asked' = asked /\ backlog' = backlog /\ torn' = torn
  BY DEF FeedNext, query
<1>6. DrainInv'
  <2>1. DrainInv
    BY DEF FrameInv
  <2>2. stale' => backlog'
    <3>1. CASE sync = "Normal" /\ Outdated(e)
      <4>1. 1 \in 1..Len(batch) /\ e = batch[1]
        BY <1>0, <1>1, <1>2
      <4>2. e.era # taken
        BY <1>0, <1>4, <3>1, ReceivedReadable DEF Outdated
      <4>3. backlog
        BY <2>1, <3>1, <4>1, <4>2 DEF DrainInv, OfThisEra
      <4>. QED BY <1>5, <4>3
    <3>2. CASE ~(sync = "Normal" /\ Outdated(e))
      BY <1>2, <1>5, <2>1, <3>2 DEF DrainInv
    <3>. QED BY <3>1, <3>2
  <2>3. CASE sync' = "Recovering"
    <3>1. ~backlog' => Len(queue) = 0
      <4>1. backlog' = (backlog \/ queue # <<>>)
        BY <1>5, <2>3
      <4>2. ~backlog' => queue = <<>>
        BY <4>1, Zenon
      <4>. QED BY <4>2
    <3>. QED BY <1>2, <2>2, <2>3, <3>1 DEF DrainInv, OfThisEra
  <2>4. CASE sync' # "Recovering"
    <3>1. Len(batch') = Len(batch) - 1 /\ \A i \in 1..Len(batch') : batch'[i] = batch[i + 1]
      BY <1>0, <1>2, HeadTailProperties
    <3>2. \A i \in 1..Len(batch') : i + 1 \in 1..Len(batch)
      BY <1>0, <3>1
    <3>3. ~backlog => OfThisEra(queue) /\ OfThisEra(batch)
      BY <1>2, <2>1 DEF DrainInv
    <3>4. ~backlog' => OfThisEra(queue)' /\ OfThisEra(batch)'
      BY <1>2, <1>5, <2>4, <3>1, <3>2, <3>3 DEF OfThisEra
    <3>. QED BY <2>2, <3>4 DEF DrainInv
  <2>. QED BY <2>3, <2>4
<1>7. CASE ~Undisturbed'
  BY <1>6, <1>7 DEF FrameInv, OwnPositions, SnapshotInv, NoForeignCoordinates, Undisturbed
<1>8. CASE Undisturbed'
  <2>1. /\ Undisturbed /\ (sync = "Normal" => ~Outdated(e))
        /\ sync = "Normal" /\ Scoped(e) => e.at = current
    BY <1>2, <1>5, <1>8 DEF Undisturbed
  <2>2. /\ \A s \in Slots : Owned(committed[s], pending[s])
        /\ \A s \in Slots : frame.contacts[s].state # "none" =>
             \A a \in Axes : frame.contacts[s].pos[a] = frame.contacts[s].id
    BY <2>1, OwnedPositions DEF FrameInv, NoForeignCoordinates, Undisturbed
  <2>3. CASE Apply(e)
    <3>1. sync = "Normal" /\ sync' = "Normal" /\ taken' = taken
      BY <1>5, <2>3 DEF Apply
    <3>2. ComingPositions(Stream)
      BY <2>1, <3>1 DEF FrameInv
    <3>3. e.kind = "axis" /\ current \in Slots => LiveId(current) = None \/ e.val = LiveId(current)
      <4>1. 1 \in 1..Len(Stream) /\ Unspoiled(Stream, 1)
        BY <1>3 DEF Unspoiled
      <4>2. e.kind = "axis" => LiveId(e.at) = None \/ e.val = LiveId(e.at)
        BY <1>3, <2>1, <3>1, <3>2, <4>1 DEF ComingPositions
      <4>. QED BY <2>1, <3>1, <4>2 DEF Scoped
    <3>4. \A s \in Slots :
            /\ Owned(committed'[s], pending'[s])
            /\ frame'.contacts[s].state # "none" =>
                 \A a \in Axes : frame'.contacts[s].pos[a] = frame'.contacts[s].id
      BY <1>0, <1>4, <2>2, <2>3, <3>3, ApplyOwned
    <3>5. PICK t : t = Stream'
      OBVIOUS
    <3>6. ComingPositions(t)'
      <4>1. /\ Len(t) \in Nat /\ Len(Stream) = Len(t) + 1
            /\ \A i \in 1..Len(t) : t[i] = Stream[i + 1]
        BY <1>3, <3>5
      <4>2. \A s \in Slots :
              LiveId(s)' = IF e.kind = "id" /\ s = current THEN e.val ELSE LiveId(s)
        BY <1>0, <1>4, <2>3, AppliedId
      <4>3. e.kind # "dropped" /\ (e.kind = "id" => e.at = current) /\ ~Outdated(e)
        BY <2>1, <2>3, <3>1 DEF Apply, Scoped
      <4>4. PositionsFollowIds(Stream)
        BY <1>0 DEF Coherent
      <4>. QED BY <1>3, <1>4, <3>1, <3>2, <4>1, <4>2, <4>3, <4>4, FedComing
    <3>7. ComingPositions(Stream)'
      BY <3>5, <3>6 DEF ComingPositions, Unspoiled
    <3>8. OwnPositions'
      BY <3>4 DEF OwnPositions, Owned
    <3>9. NoForeignCoordinates'
      BY <3>4 DEF NoForeignCoordinates
    <3>10. SnapshotInv'
      BY <3>1 DEF SnapshotInv
    <3>. QED BY <1>6, <3>7, <3>8, <3>9, <3>10 DEF FrameInv
  <2>4. CASE Drop(e) \/ Ignore(e) \/ Recover(e)
    <3>1. /\ UNCHANGED <<committed, pending, frame>> /\ sync' # "Normal"
      BY <1>4, <2>4 DEF Drop, Ignore, Recover, Kinds
    <3>2. OwnPositions' /\ NoForeignCoordinates'
      BY <2>2, <3>1 DEF OwnPositions, Owned, NoForeignCoordinates
    <3>3. SnapshotInv'
      <4>. SUFFICES ASSUME sync' = "Recovering" PROVE SnapshotInv'
        BY DEF SnapshotInv
      <4>1. ASSUME NEW i \in 1..Len(queue) PROVE queue[i].era < taken + 1
        <5>1. queue[i] \in Received
          BY <1>0
        <5>2. queue[i].era \in Nat /\ queue[i].era <= taken
          BY <1>0, <5>1, ReceivedReadable DEF Coherent, NotFromLater
        <5>. QED BY <1>0, <5>2
      <4>2. \A s \in Slots : Measures(answer'[s].pos, answer'[s].id)
        BY <1>5 DEF Nothing, NoContact, Measures, Unknown
      <4>. QED BY <1>2, <1>5, <4>1, <4>2 DEF SnapshotInv
    <3>. QED BY <1>6, <3>1, <3>2, <3>3 DEF FrameInv
  <2>. QED BY <1>2, <2>3, <2>4 DEF Feed
<1>. QED BY <1>7, <1>8

LEMMA ReadFrame ==
  ASSUME StreamAssumption, DecoderAssumption, StreamInv, FrameInv, ReadBatch
  PROVE  FrameInv'
<1>0. StreamTyped /\ DrainInv
  BY DEF StreamInv, FrameInv
<1>1. Stream' = Stream
  BY <1>0, ReadForm
<1>2. /\ UNCHANGED <<sync, current, committed, published, pending, buttons, frame>>
      /\ UNCHANGED <<asked, answer, taken, backlog, torn, misrouted, stale>>
      /\ sync # "Recovering" /\ batch = <<>>
  BY DEF ReadBatch, decoder, query, history
<1>3. DrainInv'
  <2>1. PICK y : y = queue'
    OBVIOUS
  <2>2. PICK d \in Nat : Len(queue) = Len(y) + d /\ \A i \in 1..Len(y) : y[i] = queue[i + d]
    BY <1>0, <2>1, ReadForm
  <2>3. Len(y) \in Nat
    BY <1>0, <2>1, ReadForm
  <2>4. \A i \in 1..Len(y) : i + d \in 1..Len(queue)
    BY <2>2, <2>3
  <2>5. \A i \in 1..Len(batch') : i \in 1..Len(queue) /\ batch'[i] = queue[i]
    BY <1>0, ReadForm
  <2>6. ~backlog => OfThisEra(y) /\ \A i \in 1..Len(batch') : batch'[i].era = taken
    <3>. SUFFICES ASSUME ~backlog
                  PROVE  OfThisEra(y) /\ \A i \in 1..Len(batch') : batch'[i].era = taken
      OBVIOUS
    <3>1. \A i \in 1..Len(queue) : queue[i].era = taken
      BY <1>0 DEF DrainInv, OfThisEra
    <3>2. \A i \in 1..Len(y) : y[i].era = taken
      BY <2>2, <2>4, <3>1
    <3>. QED BY <2>5, <3>1, <3>2 DEF OfThisEra
  <2>. QED BY <1>0, <1>2, <2>1, <2>6 DEF DrainInv, OfThisEra
<1>4. OwnPositions' /\ SnapshotInv' /\ NoForeignCoordinates'
  BY <1>2 DEF FrameInv, OwnPositions, SnapshotInv, NoForeignCoordinates, Undisturbed, Measures, Live
<1>5. ASSUME Undisturbed', sync' = "Normal" PROVE ComingPositions(Stream)'
  <2>1. ComingPositions(Stream)
    BY <1>2, <1>5 DEF FrameInv, Undisturbed
  <2>. QED BY <1>1, <1>2, <2>1 DEF ComingPositions, Outdated, Unspoiled, Cuts, LiveId, Live
<1>. QED BY <1>3, <1>4, <1>5 DEF FrameInv

LEMMA QueryFrame ==
  ASSUME StreamAssumption, DecoderAssumption, StreamInv, FrameInv,
         QueryTracking \/ QueryAxis \/ Fail
  PROVE  FrameInv'
<1>0. StreamTyped /\ KernelBooks /\ sync = "Recovering" /\ sync' # "Normal"
  BY DEF StreamInv, QueryTracking, QueryAxis, Fail, Degrade, decoder
<1>1. /\ UNCHANGED <<current, committed, published, pending, buttons, frame>>
      /\ UNCHANGED <<kernel, queue, batch, taken, backlog, torn, misrouted, stale>>
  BY DEF QueryTracking, QueryAxis, Fail, Degrade, decoder, query, history
<1>2. DrainInv'
  <2>1. DrainInv /\ sync' \in {"Recovering", "Degraded"}
    BY <1>0 DEF FrameInv, QueryTracking, QueryAxis, Fail, Degrade, decoder
  <2>. QED BY <1>0, <1>1, <2>1 DEF DrainInv, OfThisEra
<1>3. OwnPositions' /\ NoForeignCoordinates'
  BY <1>1 DEF FrameInv, OwnPositions, NoForeignCoordinates, Undisturbed, Measures, Live
<1>4. SnapshotInv'
  <2>. SUFFICES ASSUME Undisturbed', sync' = "Recovering" PROVE SnapshotInv'
    BY DEF SnapshotInv
  <2>1. /\ \A i \in 1..Len(queue) : queue[i].era < taken
        /\ "tracking" \notin asked => \A s \in Slots : answer[s].id = contact[s]
        /\ \A s \in Slots : Measures(answer[s].pos, answer[s].id)
    BY <1>0, <1>1 DEF FrameInv, SnapshotInv, Undisturbed
  <2>2. contact' = contact
    BY <1>1 DEF kernel
  <2>3. CASE QueryTracking
    <3>1. answer' = [s \in Slots |-> [id |-> contact[s], pos |-> Unknown]]
      BY <2>3 DEF QueryTracking
    <3>2. \A s \in Slots : answer'[s].id = contact[s] /\ Measures(answer'[s].pos, answer'[s].id)
      BY <3>1 DEF Measures, Unknown
    <3>. QED BY <1>1, <2>1, <2>2, <3>2 DEF SnapshotInv
  <2>4. CASE QueryAxis
    <3>1. PICK a \in asked :
            /\ asked' = asked \ {a}
            /\ answer' = [s \in Slots |-> IF answer[s].id = None THEN answer[s]
                                          ELSE [answer[s] EXCEPT !.pos[a] = owner[s]]]
      BY <2>4 DEF QueryAxis
    <3>2. "tracking" \notin asked
      BY <2>4 DEF QueryAxis
    <3>3. ASSUME NEW s \in Slots
          PROVE  answer'[s].id = contact[s] /\ Measures(answer'[s].pos, answer'[s].id)
      <4>1. answer[s].id = contact[s] /\ Measures(answer[s].pos, answer[s].id)
        BY <2>1, <3>2
      <4>2. CASE answer[s].id = None
        BY <3>1, <4>1, <4>2
      <4>3. CASE answer[s].id # None
        <5>1. owner[s] = contact[s] /\ answer[s] \in Contacts
          BY <1>0, <4>1, <4>3 DEF KernelBooks, StreamTyped
        <5>2. /\ answer'[s].id = answer[s].id
              /\ \A b \in Axes : answer'[s].pos[b] = IF b = a THEN owner[s] ELSE answer[s].pos[b]
          BY <3>1, <4>3, <5>1 DEF Contacts, Position
        <5>. QED BY <4>1, <5>1, <5>2 DEF Measures
      <4>. QED BY <4>2, <4>3
    <3>. QED BY <1>1, <2>1, <2>2, <3>3 DEF SnapshotInv
  <2>5. CASE Fail
    BY <2>5 DEF Fail, Degrade
  <2>. QED BY <2>3, <2>4, <2>5
<1>. QED BY <1>0, <1>2, <1>3, <1>4 DEF FrameInv

LEMMA FinishFrame ==
  ASSUME StreamAssumption, DecoderAssumption, StreamInv, FrameInv, FinishSnapshot
  PROVE  FrameInv'
<1>0. /\ StreamTyped /\ DrainInv /\ SnapshotInv /\ taken \in Nat
      /\ queue \in Seq(Received)
  BY DEF StreamInv, FrameInv, StreamTyped
<1>1. /\ Install(answer, pressed) /\ sync = "Recovering" /\ sync' = "Normal"
      /\ UNCHANGED <<taken, backlog, torn, misrouted, stale>>
  BY DEF FinishSnapshot, kernel, query, history, Install
<1>2. PICK t : t = queue'
  OBVIOUS
<1>3. Stream' = t /\ batch' = <<>> /\ Len(t) \in Nat /\ \E h : Sieved(queue, t, h)
  BY <1>0, <1>2, FinishForm
<1>4. PICK h : Sieved(queue, t, h)
  BY <1>3
<1>5. \A i \in 1..Len(t) : h[i] \in 1..Len(queue) /\ t[i] = queue[h[i]]
  BY <1>4 DEF Sieved
<1>6. DrainInv'
  <2>1. ~backlog => OfThisEra(t)
    BY <1>0, <1>5 DEF DrainInv, OfThisEra
  <2>2. Len(batch') = 0
    BY <1>3
  <2>. QED BY <1>0, <1>1, <1>2, <2>1, <2>2 DEF DrainInv, OfThisEra
<1>7. CASE ~Undisturbed'
  BY <1>6, <1>7 DEF FrameInv, OwnPositions, SnapshotInv, NoForeignCoordinates, Undisturbed
<1>8. CASE Undisturbed'
  <2>1. /\ \A i \in 1..Len(queue) : queue[i].era < taken
        /\ \A s \in Slots : Measures(answer[s].pos, answer[s].id)
    BY <1>0, <1>1, <1>8 DEF SnapshotInv, Undisturbed
  <2>2. /\ committed' = answer /\ pending' = [s \in Slots |-> Cycle(answer[s])]
        /\ \A s \in Slots :
             frame'.contacts[s] = IF answer[s].id = None THEN Nobody ELSE Shown("Began", answer[s])
        /\ \A s \in Slots : answer[s].id # None => Complete(answer[s].pos)
    BY <1>1 DEF Install, Renewed, Publish
  <2>3. OwnPositions'
    <3>1. ASSUME NEW s \in Slots PROVE Owned(committed'[s], pending'[s])
      <4>1. pending'[s].pos = Unknown /\ committed'[s] = answer[s]
        BY <2>2 DEF Cycle
      <4>2. \A id : Measures(Unknown, id)
        BY DEF Measures, Unknown
      <4>. QED BY <2>1, <4>1, <4>2 DEF Owned
    <3>. QED BY <3>1 DEF OwnPositions, Owned
  <2>4. NoForeignCoordinates'
    <3>1. ASSUME NEW s \in Slots, frame'.contacts[s].state # "none", NEW a \in Axes
          PROVE  frame'.contacts[s].pos[a] = frame'.contacts[s].id
      <4>0. frame'.contacts[s] = IF answer[s].id = None THEN Nobody ELSE Shown("Began", answer[s])
        BY <2>2
      <4>1. answer[s].id # None
        BY <3>1, <4>0 DEF Nobody, Shown
      <4>2. frame'.contacts[s].pos = answer[s].pos /\ frame'.contacts[s].id = answer[s].id
        BY <4>0, <4>1 DEF Shown
      <4>3. answer[s].pos[a] # None
        BY <2>2, <4>1 DEF Complete
      <4>. QED BY <2>1, <4>2, <4>3 DEF Measures
    <3>. QED BY <3>1 DEF NoForeignCoordinates
  <2>5. SnapshotInv'
    BY <1>1 DEF SnapshotInv
  <2>6. ComingPositions(Stream)'
    <3>1. \A i \in 1..Len(t) : t[i].era < taken
      BY <1>5, <2>1
    <3>. QED BY <1>1, <1>3, <3>1 DEF ComingPositions, Outdated
  <2>. QED BY <1>6, <2>3, <2>4, <2>5, <2>6 DEF FrameInv
<1>. QED BY <1>7, <1>8

LEMMA FrameInitInv ==
  ASSUME StreamAssumption, DecoderAssumption, StreamInit
  PROVE  FrameInv
<1>1. /\ queue = <<>> /\ batch = <<>> /\ sync = "Normal" /\ stale = FALSE
      /\ committed = [s \in Slots |-> NoContact]
      /\ pending = [s \in Slots |-> Cycle(NoContact)]
      /\ frame.contacts = [s \in Slots |-> Nobody]
  BY DEF StreamInit, DecoderInit
<1>2. Len(queue) = 0 /\ Len(batch) = 0 /\ Len(Stream) = 0
  <2>1. StreamTyped
    BY StreamInitInv DEF StreamInv
  <2>. QED BY <1>1, <2>1, StreamForm
<1>3. DrainInv
  BY <1>1, <1>2 DEF DrainInv, OfThisEra
<1>4. OwnPositions
  <2>1. ASSUME NEW s \in Slots PROVE Owned(committed[s], pending[s])
    <3>1. committed[s].pos = Unknown /\ pending[s].pos = Unknown
      BY <1>1 DEF NoContact, Cycle
    <3>2. \A id : Measures(Unknown, id)
      BY DEF Measures, Unknown
    <3>. QED BY <3>1, <3>2 DEF Owned
  <2>. QED BY <2>1 DEF OwnPositions, Owned
<1>5. NoForeignCoordinates
  BY <1>1 DEF NoForeignCoordinates, Nobody, Shown
<1>6. SnapshotInv /\ ComingPositions(Stream)
  BY <1>1, <1>2 DEF SnapshotInv, ComingPositions
<1>. QED BY <1>3, <1>4, <1>5, <1>6 DEF FrameInv

LEMMA FrameStep ==
  ASSUME StreamAssumption, DecoderAssumption, StreamInv, FrameInv, [StreamNext]_streamVars
  PROVE  FrameInv'
<1>1. CASE UNCHANGED streamVars
  <2>1. /\ UNCHANGED <<sync, current, committed, published, pending, buttons, frame>>
        /\ UNCHANGED <<contact, queue, batch, asked, answer, taken, backlog, torn, misrouted, stale>>
    BY <1>1 DEF streamVars, decoder, kernel, query, history
  <2>2. DrainInv'
    BY <2>1 DEF FrameInv, DrainInv, OfThisEra
  <2>3. OwnPositions' /\ SnapshotInv' /\ NoForeignCoordinates'
    BY <2>1 DEF FrameInv, OwnPositions, SnapshotInv, NoForeignCoordinates, Undisturbed, Measures,
                Live
  <2>4. ASSUME Undisturbed', sync' = "Normal" PROVE ComingPositions(Stream)'
    <3>1. ComingPositions(Stream) /\ Stream' = Stream
      BY <2>1, <2>4 DEF FrameInv, Undisturbed, Stream
    <3>. QED BY <2>1, <3>1 DEF ComingPositions, Outdated, Unspoiled, Cuts, LiveId, Live
  <2>. QED BY <2>2, <2>3, <2>4 DEF FrameInv
<1>. QED BY <1>1, HardwareFrame, FeedFrame, ReadFrame, QueryFrame, FinishFrame DEF StreamNext

(* A contact is shown with its own coordinates only, unless the hardware    *)
(* moved under a snapshot or an event from before it was fed over it; and   *)
(* that happens only when the snapshot began over a queue: draining the     *)
(* batch (runtime.rs, just_resynced) covers everything else.                *)
THEOREM StreamFramesAreTrue == StreamSpec => []FramesAreTrue
<1>1. StreamInit => FrameInv
  BY StreamAssumption, DecoderAssumption, FrameInitInv
<1>2. StreamInv /\ FrameInv /\ [StreamNext]_streamVars => FrameInv'
  BY StreamAssumption, DecoderAssumption, FrameStep
<1>3. FrameInv => FramesAreTrue
  BY DEF FrameInv, FramesAreTrue, DrainInv, DrainCoversTheBatch
<1>. QED BY <1>1, <1>2, <1>3, StreamInvariant, PTL DEF StreamSpec
=============================================================================
