----------------------------- MODULE Coordinates -----------------------------
(***************************************************************************)
(* What a frame says of a contact, in physical units: the hardware quirks  *)
(* and the device profile (quirks.rs, profile.rs), the conversion of raw   *)
(* counts (axis.rs, decode.rs), the values and diagnostics of a frame as   *)
(* the decoder commits it, and the validation of a contact (contact.rs).   *)
(* One slot is followed; TypeBDecoder says how the events of a packet      *)
(* become the lifecycle and the field bucket that are committed here; of   *)
(* the diagnostics, those about coordinates are kept.                      *)
(* A measured value is a quotient <<of, per>>: 32-bit floats round it.     *)
(***************************************************************************)
EXTENDS Integers, Sequences

CONSTANTS
  Devices,    \* [vendor, product, words, axes]: code -> [min, max, resolution]
  Entries,    \* the quirk database's entries, in order
  Reports,    \* fields of one packet: code -> raw count, None when not reported
  None

Positions == {"x", "y"}
Lengths   == {"major", "minor"}
Codes     == Positions \cup Lengths \cup {"pressure", "orientation"}

VARIABLES
  device,     \* DeviceDescriptor with its profile, None before configure
  slot,       \* SlotState
  frame,      \* the frame's contact and diagnostics
  reported,   \* history: the contact's last raw count on each code
  explained   \* history: codes diagnosed since the contact began

coordinates == <<device, slot, frame, reported, explained>>

Nothing == [c \in Codes |-> None]

(* What a device says of its axes, and what a packet may report: a length  *)
(* is never negative.                                                      *)
Axis   == [min : Int, max : Int, resolution : Nat \cup {None}]
Fields == {f \in [Codes -> Int \cup {None}] : \A c \in Lengths : f[c] \in Nat \cup {None}}

ASSUME CoordinatesAssumption ==
  /\ None \notin Int \cup (Int \X Int)
  /\ \A d \in Devices : d.axes \in [Codes -> Axis \cup {None}]
  /\ Reports \subseteq Fields

-----------------------------------------------------------------------------
(* Quirks: the first entry all of whose predicates match; the last override *)
(* of an axis in it counts.                                                 *)

QuirkMatches(match, hardware) ==
  /\ match.vendor \in {None, hardware.vendor}
  /\ match.product \in {None, hardware.product}
  /\ match.word = None \/ match.word \in hardware.words

ValidDatabase(entries) ==
  \A k \in DOMAIN entries :
    LET e == entries[k] IN
    /\ e.match.vendor # None \/ e.match.product # None \/ e.match.word # None
    /\ \A l \in DOMAIN e.resolutions : e.resolutions[l].units > 0

Override == [axis : Codes, units : Nat]

ASSUME DatabaseAssumption ==
  /\ DOMAIN Entries = 1..Len(Entries) /\ Len(Entries) \in Nat
  /\ \A k \in DOMAIN Entries : Entries[k].resolutions \in Seq(Override)
  /\ ValidDatabase(Entries)

with_axis_resolution(resolutions, c) ==
  LET named == {k \in DOMAIN resolutions : resolutions[k].axis = c}
  IN  IF named = {} THEN None
      ELSE resolutions[CHOOSE k \in named : \A j \in named : j <= k].units

profile_for(hardware) ==
  LET matching == {k \in DOMAIN Entries : QuirkMatches(Entries[k].match, hardware)}
      entry    == Entries[CHOOSE k \in matching : \A j \in matching : k <= j]
  IN  [c \in Codes |-> IF matching = {} THEN None
                      ELSE with_axis_resolution(entry.resolutions, c)]

Declared(c) == device.axes[c] # None

(* The override wins; a device that reports none has none.                  *)
effective_resolution(c) ==
  IF device.profile[c] # None THEN device.profile[c] ELSE device.axes[c].resolution

Resolved(c) == Declared(c) /\ effective_resolution(c) # None

-----------------------------------------------------------------------------
(* Conversions                                                              *)

PositionFromZero(c, raw) ==   \* mutant: an override forgets the origin
  IF device.profile[c] # None THEN <<raw, effective_resolution(c)>>
  ELSE <<raw - device.axes[c].min, effective_resolution(c)>>

(* An axis' minimum is 0 mm; a length has no origin.                        *)
position_to_mm(c, raw) == <<raw - device.axes[c].min, effective_resolution(c)>>
delta_to_mm(c, raw)    == <<raw, effective_resolution(c)>>

Span(c) == device.axes[c].max - device.axes[c].min
Ranged(c) == Declared(c) /\ Span(c) > 0

normalize_pressure(c, raw) ==
  LET of == raw - device.axes[c].min
  IN  <<CASE of < 0 -> 0 [] of > Span(c) -> Span(c) [] OTHER -> of, Span(c)>>

(* In half turns, from a quarter turn one way to a quarter turn the other.  *)
normalize_orientation(c, raw) == <<2 * (raw - device.axes[c].min) - Span(c), 2 * Span(c)>>

Normalized(c, raw) ==
  IF raw = None THEN None
  ELSE CASE c \in Positions /\ Resolved(c)   -> position_to_mm(c, raw)
         [] c \in Lengths /\ Resolved(c)     -> delta_to_mm(c, raw)
         [] c = "pressure" /\ Ranged(c)      -> normalize_pressure(c, raw)
         [] c = "orientation" /\ Ranged(c)   -> normalize_orientation(c, raw)
         [] OTHER                            -> None

(* The codes a packet or a snapshot leaves unnormalized, each named once.   *)
Missing(fields) ==
  {c \in Positions \cup Lengths : fields[c] # None /\ ~Resolved(c)}

-----------------------------------------------------------------------------
(* A slot                                                                   *)

EmptySlot == [live |-> FALSE, known |-> {}, value |-> Nothing,
              published |-> FALSE, warned |-> FALSE]

(* apply_pending_fields: what was reported replaces, whatever it became.    *)
Applied(s, fields) ==
  [s EXCEPT !.known = @ \cup {c \in Positions : fields[c] # None},
            !.value = [c \in Codes |-> IF fields[c] = None THEN @[c]
                                       ELSE Normalized(c, fields[c])]]

Begun(fields) == Applied([EmptySlot EXCEPT !.live = TRUE], fields)

Complete(s) == s.known = Positions

Contact(state, s) == [state |-> state, value |-> s.value]
Nobody == Contact("none", EmptySlot)

Note(kind, c) == [kind |-> kind, code |-> c]
MissingNotes(fields) == {Note("MissingAxisResolution", c) : c \in Missing(fields)}

(* The committed contact is announced once both positions are known, and    *)
(* held, with one warning, until then.                                      *)
Announced(s) ==
  CASE ~s.live -> [slot |-> s, contact |-> Nobody, notes |-> {}]
    [] s.live /\ ~Complete(s) ->
         [slot |-> [s EXCEPT !.warned = TRUE], contact |-> Nobody,
          notes |-> IF s.warned THEN {} ELSE {Note("IncompleteNewContact", None)}]
    [] s.live /\ Complete(s) /\ ~s.published ->
         [slot |-> [s EXCEPT !.warned = FALSE, !.published = TRUE],
          contact |-> Contact("Began", s),
          notes |-> IF s.warned THEN {Note("DelayedNewContact", None)} ELSE {}]
    [] OTHER -> [slot |-> s, contact |-> Contact("Active", s), notes |-> {}]

-----------------------------------------------------------------------------
(* Actions                                                                  *)

CoordinatesInit ==
  /\ device = None /\ slot = EmptySlot
  /\ frame = [contact |-> Nobody, notes |-> {}]
  /\ reported = Nothing /\ explained = {}

Configure(d) ==
  /\ device = None
  /\ device' = [axes |-> d.axes, profile |-> profile_for(d)]
  /\ UNCHANGED <<slot, frame, reported, explained>>

(* A frame, and what has been said of the contact once it is published.     *)
Publish(contact, notes, before) ==
  /\ frame' = [contact |-> contact, notes |-> notes]
  /\ explained' = before \cup {c \in Codes : Note("MissingAxisResolution", c) \in notes}
  /\ UNCHANGED device

Over(old, new) == [c \in Codes |-> IF new[c] = None THEN old[c] ELSE new[c]]

(* commit, for a contact that lives on or begins in this packet.            *)
CommitLive(fresh, fields) ==
  /\ fresh \/ slot.live
  /\ LET outcome == Announced(IF fresh THEN Begun(fields) ELSE Applied(slot, fields))
     IN  /\ slot' = outcome.slot
         /\ Publish(outcome.contact, MissingNotes(fields) \cup outcome.notes,
                    IF fresh THEN {} ELSE explained)
  /\ reported' = Over(IF fresh THEN Nothing ELSE reported, fields)

(* The committed contact ends with the fields that preceded its end; only a *)
(* contact the consumer knows of is shown as ended.                         *)
CommitEnd(fields) ==
  /\ slot.live /\ slot' = EmptySlot
  /\ Publish(IF slot.published THEN Contact("Ended", Applied(slot, fields)) ELSE Nobody,
             MissingNotes(fields), {})
  /\ reported' = Nothing

(* Nothing is live at the boundary and nothing shown has ended: the slot is *)
(* at rest, or what began in this packet ended in it.                       *)
CommitNobody ==
  /\ slot' = EmptySlot /\ reported' = Nothing
  /\ Publish(Nobody, {}, {})

(* apply_snapshot and publish_discontinuity_frame: an active slot has both  *)
(* raw positions, and its contact begins again.                             *)
Resync(fields) ==
  /\ fields["x"] # None /\ fields["y"] # None
  /\ slot' = [Begun(fields) EXCEPT !.published = TRUE]
  /\ Publish(Contact("Began", slot'), {Note("DecodeRecovered", None)} \cup MissingNotes(fields), {})
  /\ reported' = fields

ResyncEmpty ==
  /\ slot' = EmptySlot /\ reported' = Nothing
  /\ Publish(Nobody, {Note("DecodeRecovered", None)}, {})

CoordinatesNext ==
  \/ \E d \in Devices : Configure(d)
  \/ /\ device # None
     /\ \/ \E fresh \in BOOLEAN, fields \in Reports : CommitLive(fresh, fields)
        \/ \E fields \in Reports : CommitEnd(fields)
        \/ CommitNobody
        \/ \E fields \in Reports : Resync(fields)
        \/ ResyncEmpty

-----------------------------------------------------------------------------
(* Contact::validate, and what a frame may say                              *)

validate(contact) ==
  {c \in Positions : contact.state = "Began" /\ contact.value[c] = None}
  \cup {c \in {"pressure"} : contact.value[c] # None
                             /\ (contact.value[c][1] < 0 \/ contact.value[c][1] > contact.value[c][2])}
  \cup {c \in Lengths : contact.value[c] # None /\ contact.value[c][1] < 0}

Live == frame.contact.state \in {"Began", "Active"}

(* Every value a frame shows is the conversion of the last count this very  *)
(* contact reported, whichever packets or snapshot brought it: taking the   *)
(* quotient back to counts, with the axis' own origin, gives that count, or *)
(* the nearest end of the range for a pressure.  A count that could not be  *)
(* converted shows no value: neither an earlier one of the contact nor one  *)
(* of the contact that had the slot before (decode.rs commit,               *)
(* apply_pending_fields, apply_snapshot; axis.rs: the override replaces     *)
(* the resolution, never the origin).                                       *)
CountOf(c, v) ==
  CASE c \in Positions     -> v[1] + device.axes[c].min
    [] c \in Lengths       -> v[1]
    [] c = "pressure"      -> v[1] + device.axes[c].min
    [] c = "orientation"   -> (v[1] + Span(c)) \div 2 + device.axes[c].min

Nearest(c, raw) ==
  CASE c = "pressure" /\ raw < device.axes[c].min -> device.axes[c].min
    [] c = "pressure" /\ raw > device.axes[c].max -> device.axes[c].max
    [] OTHER -> raw

ShownAsReported ==
  Live => \A c \in Codes :
    LET v == frame.contact.value[c]
        convertible == IF c \in Positions \cup Lengths THEN Resolved(c) ELSE Ranged(c)
    IN  IF reported[c] = None \/ ~convertible THEN v = None
        ELSE v # None /\ CountOf(c, v) = Nearest(c, reported[c])

(* A frame never shows a position or a length missing without having said   *)
(* why: the axis was named by a missing-resolution diagnostic in a frame    *)
(* published since the contact began, the frame of its own recovery         *)
(* included; and validation finds nothing else wrong with a contact whose   *)
(* counts are lengths a device can report (decode.rs normalize_pending_slot *)
(* and apply_snapshot; contact.rs validate).                                *)
GapsAreExplained ==
  Live =>
    /\ \A c \in Positions \cup Lengths :
         reported[c] # None /\ frame.contact.value[c] = None => c \in explained
    /\ validate(frame.contact) \subseteq explained

(* What a frame shows of a contact, and what it tells of what it does not.  *)
CoordinatesAreTold == ShownAsReported /\ GapsAreExplained
==============================================================================
