---------------------------- MODULE EvdevStream -----------------------------
(***************************************************************************)
(* The live input path: a touchpad, the kernel's evdev queue of bounded    *)
(* size, the runtime that reads it in batches (runtime.rs step_impl), the  *)
(* decoder, and the snapshot it takes ioctl by ioctl (snapshot.rs) while   *)
(* the hardware goes on.                                                   *)
(*                                                                         *)
(* Tracking ids are touches, numbered as the kernel hands them out, and a  *)
(* position is the touch it was measured of: Values = Ids.  The kernel     *)
(* emits ABS_MT_SLOT only when the slot changes and an axis only when its  *)
(* value does, so a touch may begin with an axis left unsaid.              *)
(***************************************************************************)
EXTENDS TypeBDecoder, Integers, Sequences, SequencesExt, FiniteSetsExt

CONSTANTS
  Capacity,      \* events the kernel queue holds
  MaxBatch,      \* events one read returns
  MaxPackets     \* packets the hardware reports (bound)

ASSUME StreamAssumption ==
  /\ Values = Ids /\ Ids \subseteq Nat \ {0} /\ 1 \in Ids
  /\ Capacity \in Nat \ {0, 1} /\ MaxBatch \in Nat \ {0} /\ MaxPackets \in Nat
  /\ IsFiniteSet(Axes)

VARIABLES
  contact, owner,    \* per slot: the touch down, and the last one measured
  pressed,           \* the physical buttons down
  kslot,             \* the slot the kernel last named
  packets, next,     \* packets reported; the next touch
  resting,           \* the touch that was down when the device was opened
  queue, batch,      \* events in the kernel's queue; read and not yet fed
  asked, answer,     \* the snapshot: axes still to query, answers so far
  taken,             \* history: snapshots begun
  backlog, torn,     \* history: a snapshot began over a queue; met a packet
  misrouted, stale   \* history: an event reached a wrong slot; was outdated

kernel  == <<contact, owner, pressed, kslot, packets, next, resting>>
query   == <<asked, answer, taken, backlog, torn>>
history == <<misrouted, stale>>
streamVars == <<decoder, kernel, queue, batch, query, history>>

Nothing == [s \in Slots |-> NoContact]

StreamInit ==
  /\ DecoderInit
  /\ resting \in {None, 1} /\ kslot \in Slots
  /\ contact = [s \in Slots |-> IF s = kslot THEN resting ELSE None]
  /\ owner = contact
  /\ pressed = {} /\ packets = 0 /\ next = IF resting = None THEN 1 ELSE 2
  /\ queue = <<>> /\ batch = <<>>
  /\ asked = {} /\ answer = Nothing /\ taken = 0
  /\ backlog = FALSE /\ torn = FALSE
  /\ misrouted = {} /\ stale = FALSE

-----------------------------------------------------------------------------
(* The kernel (external).  Every event carries where it belongs and the     *)
(* number of snapshots begun before it.                                     *)

Arrival(kind, code, val, at) ==
  [kind |-> kind, code |-> code, val |-> val, at |-> at, era |-> taken]

Measured(s, id, axes) ==
  SetToSeq({Arrival("axis", a, id, s) : a \in axes})

InSlot(s, es) ==
  (IF s = kslot THEN <<>> ELSE <<Arrival("slot", None, s, s)>>) \o es

(* A full queue is emptied but for SYN_DROPPED and the newest event, so of  *)
(* a packet that does not fit only the end stays, behind a SYN_DROPPED.     *)
Push(q, es) ==
  LET over == Len(q) + Len(es) - Capacity
      left == 1 + ((over - 1) % (Capacity - 1))
  IN  IF over <= 0 THEN q \o es
      ELSE <<Arrival("dropped", None, None, None)>>
             \o SubSeq(es, Len(es) - left + 1, Len(es))

Report(es) ==
  /\ packets < MaxPackets /\ packets' = packets + 1
  /\ queue' = Push(queue, Append(es, Arrival("sync", None, None, None)))
  /\ torn' = (torn \/ sync = "Recovering")
  /\ UNCHANGED <<decoder, batch, asked, answer, taken, backlog, history, resting>>

Touch ==
  \E s \in Slots, axes \in SUBSET Axes :
    /\ contact[s] = None /\ next \in Ids
    /\ contact' = [contact EXCEPT ![s] = next]
    /\ owner' = [owner EXCEPT ![s] = next]
    /\ next' = next + 1 /\ kslot' = s
    /\ Report(InSlot(s, <<Arrival("id", None, next, s)>> \o Measured(s, next, axes)))
    /\ UNCHANGED pressed

Move ==
  \E s \in Slots, axes \in SUBSET Axes \ {{}} :
    /\ contact[s] # None /\ kslot' = s
    /\ Report(InSlot(s, Measured(s, contact[s], axes)))
    /\ UNCHANGED <<contact, owner, pressed, next>>

Lift ==
  \E s \in Slots :
    /\ contact[s] # None /\ contact' = [contact EXCEPT ![s] = None]
    /\ kslot' = s
    /\ Report(InSlot(s, <<Arrival("id", None, None, s)>>))
    /\ UNCHANGED <<owner, pressed, next>>

Click ==
  \E b \in Buttons :
    /\ pressed' = IF b \in pressed THEN pressed \ {b} ELSE pressed \cup {b}
    /\ Report(<<Arrival(IF b \in pressed THEN "release" ELSE "press", b, None,
                      None)>>)
    /\ UNCHANGED <<contact, owner, kslot, next>>

-----------------------------------------------------------------------------
(* The runtime: one read, then one feed per event of the batch.             *)

ReadBatch ==
  /\ batch = <<>> /\ queue # <<>> /\ sync \notin {"Recovering", "Degraded"}
  /\ LET n == Min({Len(queue), MaxBatch})
     IN  /\ batch' = SubSeq(queue, 1, n)
         /\ queue' = SubSeq(queue, n + 1, Len(queue))
  /\ UNCHANGED <<decoder, kernel, query, history>>

Scoped(e) == e.kind \in {"id", "axis"}
Since == IF taken = 0 THEN "open" ELSE "snapshot"
Outdated(e) == e.era < taken /\ e.kind \notin {"sync", "dropped"}

FeedNext ==
  /\ batch # <<>> /\ sync \in {"Normal", "DroppedAwaitingBoundary"}
  /\ LET e == Head(batch)
     IN  /\ Feed(e)
         /\ misrouted' = IF sync = "Normal" /\ Scoped(e) /\ e.at # current
                         THEN misrouted \cup {Since} ELSE misrouted
         /\ stale' = (stale \/ (sync = "Normal" /\ Outdated(e)))
  /\ batch' = Tail(batch)
  /\ IF sync' = "Recovering"
     THEN /\ taken' = taken + 1 /\ answer' = Nothing
          /\ asked' = Axes \cup {"tracking"}
          /\ backlog' = (backlog \/ queue # <<>>) /\ UNCHANGED torn
     ELSE UNCHANGED query
  /\ UNCHANGED <<kernel, queue>>

(* snapshot: EVIOCGMTSLOTS for the tracking ids, then for every axis.       *)
QueryTracking ==
  /\ sync = "Recovering" /\ "tracking" \in asked
  /\ asked' = asked \ {"tracking"}
  /\ answer' = [s \in Slots |-> [id |-> contact[s], pos |-> Unknown]]
  /\ UNCHANGED <<decoder, kernel, queue, batch, taken, backlog, torn, history>>

QueryAxis ==
  /\ sync = "Recovering" /\ "tracking" \notin asked
  /\ \E a \in asked :
       /\ asked' = asked \ {a}
       /\ answer' = [s \in Slots |->
                       IF answer[s].id = None THEN answer[s]
                       ELSE [answer[s] EXCEPT !.pos[a] = owner[s]]]
  /\ UNCHANGED <<decoder, kernel, queue, batch, taken, backlog, torn, history>>

(* Then EVIOCGKEY, for which the kernel takes the queued key events back,   *)
(* and the snapshot is installed; what is left of the batch is drained.     *)
Drained == <<>>

KeyFree(q) ==
  LET rest  == {k \in DOMAIN q : q[k].kind \notin {"press", "release"}}
      order == CHOOSE f \in [1..Cardinality(rest) -> rest] :
                 \A i, j \in DOMAIN f : i < j => f[i] < f[j]
  IN  [i \in DOMAIN order |-> q[order[i]]]

FinishSnapshot ==
  /\ sync = "Recovering" /\ asked = {}
  /\ Install(answer, pressed)
  /\ batch' = Drained
  /\ queue' = KeyFree(queue)
  /\ UNCHANGED <<kernel, query, history>>

(* Any of the ioctls may fail: the runtime stops, and feeds nothing more.   *)
Fail ==
  /\ Degrade
  /\ UNCHANGED <<kernel, queue, batch, query, history>>

StreamNext == \/ Touch \/ Move \/ Lift \/ Click
              \/ ReadBatch \/ FeedNext \/ QueryTracking \/ QueryAxis \/ FinishSnapshot \/ Fail

StreamSpec == StreamInit /\ [][StreamNext]_streamVars

-----------------------------------------------------------------------------

StreamTypeOK ==
  /\ sync \in SyncStates /\ current \in Slots
  /\ committed \in [Slots -> Contacts] /\ published \subseteq Slots
  /\ pending \in [Slots -> Pendings]
  /\ buttons \subseteq Buttons /\ frame \in Frames
  /\ contact \in [Slots -> Ids \cup {None}] /\ owner \in [Slots -> Ids \cup {None}]
  /\ pressed \subseteq Buttons /\ kslot \in Slots
  /\ packets \in 0..MaxPackets /\ Len(queue) <= Capacity
  /\ Len(batch) <= MaxBatch /\ answer \in [Slots -> Contacts]

AllRead == sync = "Normal" /\ queue = <<>> /\ batch = <<>>

(* When everything the kernel queued has been fed, the decoder knows the    *)
(* contacts and the buttons that are down, however many events were         *)
(* dropped, drained or read across a snapshot - unless an event was taken   *)
(* for another slot's: after a snapshot the decoder goes on in its first    *)
(* slot, wherever the kernel is (decode.rs; runtime.rs has it that "the     *)
(* next read begins from state consistent with the snapshot").  The touch   *)
(* that was down before the device was opened is nobody's until a snapshot. *)
CaughtUp ==
  /\ StreamTypeOK
  /\ AllRead /\ misrouted = {} =>
       /\ \A s \in Slots :
            committed[s].id = (IF contact[s] = resting /\ taken = 0 THEN None
                               ELSE contact[s])
       /\ buttons = pressed

(* A contact is shown with coordinates measured of another one only after   *)
(* a snapshot the hardware moved under, or after an event from before the   *)
(* snapshot was fed over it.                                                *)
NoForeignCoordinates ==
  misrouted = {} /\ ~stale /\ ~torn =>
    \A s \in Slots :
      LET k == frame.contacts[s]
      IN  k.state # "none" => \A a \in Axes : k.pos[a] = k.id

(* The drain rule: an event older than the snapshot is fed on top of it     *)
(* only if it was still in the kernel's queue when the snapshot began; what *)
(* the batch already held never is.                                         *)
DrainCoversTheBatch == stale => backlog

(* Nothing shown is older than it seems.                                    *)
FramesAreTrue == NoForeignCoordinates /\ DrainCoversTheBatch
=============================================================================
