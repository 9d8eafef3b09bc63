------------------------------ MODULE MCMotion ------------------------------
(***************************************************************************)
(* From counts to millimetres and from millimetres to pixels; and the      *)
(* Windows adapter's ways from HID reports to frames, from events to       *)
(* SendInput and from Raw Input to a file.  The stages share no state, so  *)
(* a behaviour exercises one of them: the conversion starts with           *)
(* configure, the others with their first step.                            *)
(***************************************************************************)
EXTENDS Motion, Coordinates, PrecisionTouchpad, WindowsOutput, RawCapture

(* At rest, one millimetre either way, and a stride across and one along,  *)
(* which reach the fast end of the gain curve.                             *)
MCSteps == {<<0, 0>>, <<1, 0>>, <<-1, 0>>, <<0, 2>>, <<0, -2>>}

Ruler(min, max, resolution) == [min |-> min, max |-> max, resolution |-> resolution]

(* A complete touchpad whose x axis starts at 1; the same without a        *)
(* resolution on x; that again with a quirk that supplies it; and one that *)
(* reports no length, an empty pressure range and an unlabelled product.   *)
Whole == [c \in Codes |->
  CASE c = "x" -> Ruler(1, 9, 2) [] c = "pressure" -> Ruler(1, 3, None)
    [] c = "orientation" -> Ruler(0, 4, None) [] OTHER -> Ruler(0, 9, 3)]
Blind == [Whole EXCEPT !["x"] = Ruler(1, 9, None)]
Bare  == [Whole EXCEPT !["major"] = None, !["minor"] = None, !["pressure"] = Ruler(2, 2, None)]

Pad(vendor, product, words, axes) ==
  [vendor |-> vendor, product |-> product, words |-> words, axes |-> axes]
MCDevices == {Pad(1, 1, {"plain"}, Whole), Pad(1, 1, {"plain"}, Blind),
              Pad(1, 2, {"odd"}, Blind), Pad(1, 3, {"odd"}, Bare)}

Entry(vendor, product, word, resolutions) ==
  [match |-> [vendor |-> vendor, product |-> product, word |-> word], resolutions |-> resolutions]
MCEntries == << Entry(1, 2, "odd", <<[axis |-> "x", units |-> 5], [axis |-> "x", units |-> 4]>>),
                Entry(1, None, "odd", << >>), Entry(None, None, "odd", <<[axis |-> "y", units |-> 7]>>) >>

Packet(f) == [c \in Codes |-> IF c \in DOMAIN f THEN f[c] ELSE None]
MCReports ==
  {Nothing} \cup {Packet([x |-> n]) : n \in {0, 6}} \cup {Packet([y |-> 4])}
  \cup {Packet([x |-> n, y |-> 5]) : n \in {1, 6}}
  \cup {Packet([x |-> 6, y |-> 5, pressure |-> n]) : n \in {0, 2, 7}}
  \cup {Packet([major |-> 3]), Packet([major |-> 3, minor |-> 2]), Packet([orientation |-> 4])}

(* Four contacts, the last with an id too wide, on a touchpad with slots   *)
(* for three: split, repeated, orphaned, overfull and unfit reports.       *)
Tip(downs, ups, unfits) ==
  [i \in Ids |-> IF i \in downs THEN "down" ELSE IF i \in ups THEN "up"
                 ELSE IF i \in unfits THEN "unfit" ELSE "none"]
MCPtpReports ==
  {[scan |-> s, count |-> c, tip |-> t] : s \in {1, 2}, c \in {0, 2, 3, 4},
     t \in {Tip({}, {}, {}), Tip({}, {}, {3}), Tip({1}, {2}, {}), Tip({0}, {}, {1}),
             Tip({}, {1}, {}), Tip({0, 1, 2}, {}, {})}}

MCScrolls == {-3, 0, 13}

Listed(type, described, usage) == [type |-> type, described |-> described, usage |-> usage]
MCLists ==
  {{Listed("mouse", TRUE, "mouse"), Listed("hid", TRUE, "touchpad")},
   {Listed("hid", FALSE, "touchpad"), Listed("hid", TRUE, "pen")}}

Message(kind, fits, count) == [kind |-> kind, fits |-> fits, count |-> count]
MCMessages ==
  {Message("other", TRUE, 0), Message("short", FALSE, 0), Message("hid", FALSE, 1)}
  \cup {Message("hid", TRUE, n) : n \in 0..2}

-----------------------------------------------------------------------------

MCInit == Init /\ CoordinatesInit /\ TouchpadInit /\ SinkInit /\ CaptureInit

Moving    == Next /\ UNCHANGED <<coordinates, touchpadVars, sinkVars, captureVars>>
Plain     == frames = 0 /\ ~filtered /\ ~stable /\ UNCHANGED vars
Measuring == Plain /\ CoordinatesNext /\ UNCHANGED <<touchpadVars, sinkVars, captureVars>>
Assembling ==
  Plain /\ AssemblerNext /\ UNCHANGED <<coordinates, overlayVars, sinkVars, captureVars>>
Overlaying ==
  Plain /\ OverlayNext /\ UNCHANGED <<coordinates, assemblerVars, sinkVars, captureVars>>
Sending   == Plain /\ SinkNext /\ UNCHANGED <<coordinates, touchpadVars, captureVars>>
Capturing == Plain /\ CaptureNext /\ UNCHANGED <<coordinates, touchpadVars, sinkVars>>

NotMeasured  == device = None
NotAssembled == stage = "report" /\ slots = Inactive /\ ~Waiting /\ lost = "nothing"
NotOverlaid  == gate = "Idle" /\ live = {} /\ most = 0
NotTouched   == NotAssembled /\ NotOverlaid
NotSent      == submits = 0
NotCaptured  == capture = NoCapture

MCNext ==
  \/ NotMeasured /\ NotTouched /\ NotSent /\ NotCaptured /\ Moving
  \/ NotTouched /\ NotSent /\ NotCaptured /\ Measuring
  \/ NotMeasured /\ NotSent /\ NotCaptured /\ NotOverlaid /\ Assembling
  \/ NotMeasured /\ NotSent /\ NotCaptured /\ NotAssembled /\ Overlaying
  \/ NotMeasured /\ NotTouched /\ NotCaptured /\ Sending
  \/ NotMeasured /\ NotTouched /\ NotSent /\ Capturing

MCSpec == MCInit /\ [][MCNext]_<<vars, coordinates, touchpadVars, sinkVars, captureVars>>

-----------------------------------------------------------------------------

(* What goes out on Windows and what comes in from it is accounted for:    *)
(* the buttons and the wheel of the sink, the reports of a capture.        *)
WindowsAccountedFor == NothingStuckOrLost /\ CaptureAddsUp
=============================================================================
