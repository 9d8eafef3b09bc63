-------------------------- MODULE PrecisionTouchpad --------------------------
(***************************************************************************)
(* Two parts of the Windows adapter that its tests exercise one by one and *)
(* nothing joins yet: the assembly of the hybrid reports of a Precision    *)
(* Touchpad into contact frames (ptp.rs), and the overlay that hands       *)
(* three-finger clusters, and nothing else, to the shared arbiter          *)
(* (overlay.rs).  Each has a caller of its own, who goes on after an       *)
(* error.  Where the contacts are and how hard they press is left out; a   *)
(* report names a contact once.                                            *)
(***************************************************************************)
EXTENDS Naturals, FiniteSets

CONSTANTS
  Ids,          \* PTP contact ids
  MaxContacts,  \* MAX_PTP_CONTACTS, 5
  PtpReports    \* DecodedPtpReports the digitizer may send

(* What a report says of a contact: nothing, that it is lifted, or that it *)
(* is down, perhaps with an id or a size that core_contact refuses.        *)
Tips == {"none", "up", "down", "unfit"}

ASSUME TouchpadAssumption ==
  /\ Ids \subseteq Nat /\ IsFiniteSet(Ids) /\ MaxContacts \in Nat \ {0}
  /\ PtpReports \subseteq [scan : Nat \ {0}, count : Nat, tip : [Ids -> Tips]]

VARIABLES
  stage,     \* where push_report is, or "report": it is called next
  report,    \* its argument
  pending,   \* the hybrid frame that is not complete
  slots,     \* active: the slot of each live contact
  unfit,     \* those of them kept with what core_contact refuses
  draft,     \* the frame finish_pending is at work on
  told,      \* history: who is live for one who follows the frames returned, and
             \* who the reports of the last of them said was down
  ahead,     \* history: the same with the frames of the call under way
  cut,       \* history: a frame of this call is a discontinuity
  lost       \* history: "nothing", or "frames" or a "break" in an error

assemblerVars == <<stage, report, pending, slots, unfit, draft, told, ahead, cut, lost>>

VARIABLES
  gate,      \* OverlayState
  pipeline,  \* the ArbiterSink: "installed", "gone" after a failed reset, or the call "panicked"
  live,      \* the contacts down in the frames the overlay is given
  most,      \* history: how many were, at most, since there were none
  handed,    \* history: the contacts the arbiter has been handed and not seen lifted
  kept       \* history: the arbiter refused the frame that left nobody, and the gate stayed

overlayVars == <<gate, pipeline, live, most, handed, kept>>

touchpadVars == <<assemblerVars, overlayVars>>

Slots  == 0..MaxContacts - 1
NoSlot == MaxContacts
States == {"none", "Began", "Active", "Ended"}

Named(tip)   == {i \in Ids : tip[i] # "none"}
Touching(tip) == {i \in Ids : tip[i] \in {"down", "unfit"}}
NoContacts == [i \in Ids |-> "none"]
NoReport   == [scan |-> 0, count |-> 0, tip |-> NoContacts]
NoPending  == [scan |-> 0, expected |-> 0, tip |-> NoContacts]
Inactive   == [i \in Ids |-> NoSlot]
Blank(discontinuity) == [contacts |-> NoContacts, discontinuity |-> discontinuity]
NoDraft    == [tip |-> NoContacts, todo |-> {}, frame |-> Blank(FALSE)]

NoOne      == [live |-> {}, down |-> {}]

In(f, states) == {i \in Ids : f.contacts[i] \in states}
Down(f) == In(f, {"Began", "Active"})

(* Who is live after a frame, when `before` were: a contact begins, ends,  *)
(* and a discontinuity starts from nobody.                                 *)
Following(before, f) ==
  ((IF f.discontinuity THEN {} ELSE before) \cup In(f, {"Began"})) \ In(f, {"Ended"})

-----------------------------------------------------------------------------
(* PtpFrameAssembler                                                       *)

AssemblerInit ==
  /\ stage = "report" /\ report = NoReport /\ pending = NoPending /\ slots = Inactive
  /\ unfit = {} /\ draft = NoDraft /\ told = NoOne /\ ahead = NoOne /\ cut = FALSE /\ lost = "nothing"

Owned == {i \in Ids : slots[i] # NoSlot}

(* An error: the frames of the call are lost with it, what it has done to  *)
(* the contacts stays, and the caller may call again.                      *)
Refused ==
  /\ stage' = "report" /\ report' = NoReport /\ draft' = NoDraft
  /\ ahead' = told /\ cut' = FALSE /\ UNCHANGED <<pending, told>>
  /\ lost' = IF cut \/ lost = "break" THEN "break" ELSE "frames"

(* push_report                                                             *)

Waiting == pending.expected > 0

(* finish_pending begins; a discontinuity forgets who was live.            *)
BeginFrame(tip, discontinuity) ==
  /\ slots' = IF discontinuity THEN Inactive ELSE slots
  /\ unfit' = IF discontinuity THEN {} ELSE unfit
  /\ draft' = [tip |-> tip, todo |-> Named(tip), frame |-> Blank(discontinuity)]
  /\ stage' = "contacts" /\ cut' = (cut \/ discontinuity)

TooMany(r) == r.count > MaxContacts \/ Cardinality(Named(r.tip)) > MaxContacts

(* With too many contacts the call is refused before it does anything.     *)
PushReport(r) ==
  /\ stage = "report" /\ ~TooMany(r)
  /\ report' = r
  /\ IF Waiting /\ pending.scan # r.scan     \* it never became complete
     THEN BeginFrame(pending.tip, TRUE) /\ pending' = NoPending
     ELSE stage' = "merge" /\ UNCHANGED <<pending, slots, unfit, draft, cut>>
  /\ UNCHANGED <<told, ahead, lost>>

(* A count of zero continues a frame that is pending; with none pending it *)
(* says that nobody is there, or is a continuation without its start.      *)
Merged ==
  LET named == Named(report.tip)
  IN  [scan     |-> report.scan,
       expected |-> CASE report.count > 0 -> report.count
                      [] report.count = 0 /\ Waiting -> pending.expected
                      [] OTHER -> Cardinality(named),
       tip      |-> [i \in Ids |-> IF i \in named THEN report.tip[i] ELSE pending.tip[i]]]

Orphan == ~Waiting /\ report.count = 0 /\ Named(report.tip) # {}

MergeReport ==
  /\ stage = "merge"
  /\ IF Cardinality(Named(Merged.tip)) >= Merged.expected
     THEN BeginFrame(Merged.tip, Orphan) /\ pending' = NoPending
     ELSE stage' = "return" /\ pending' = Merged /\ UNCHANGED <<slots, unfit, draft, cut>>
  /\ report' = NoReport /\ UNCHANGED <<told, ahead, lost>>

(* finish_pending: the contacts named, by id, then those left out          *)

Lowest(S) == CHOOSE n \in S : \A m \in S : n <= m

Free == Slots \ {slots[i] : i \in Ids}

Show(i, state) ==
  draft' = [draft EXCEPT !.todo = @ \ {i}, !.frame.contacts[i] = state]

Shows(i, state) == Show(i, state) /\ UNCHANGED <<stage, report, pending, told, ahead, cut, lost>>

(* A lift carries no size of its own: the one kept is shown again.         *)
FinishContact ==
  /\ stage = "contacts" /\ draft.todo # {}
  /\ LET i == Lowest(draft.todo)  touching == i \in Touching(draft.tip)
     IN  CASE touching /\ i \notin Owned /\ Free = {} ->
                Refused /\ UNCHANGED <<slots, unfit>>
           [] touching /\ (i \in Owned \/ Free # {}) ->
                /\ slots' = [slots EXCEPT ![i] = IF i \in Owned THEN @ ELSE Lowest(Free)]
                /\ IF draft.tip[i] = "unfit" THEN Refused /\ unfit' = unfit \cup {i}
                   ELSE /\ Shows(i, IF i \in Owned THEN "Active" ELSE "Began")
                        /\ unfit' = unfit \ {i}
           [] ~touching /\ i \in Owned ->
                /\ IF i \in unfit THEN Refused ELSE Shows(i, "Ended")
                /\ UNCHANGED <<slots, unfit>>
           [] OTHER -> Shows(i, "none") /\ UNCHANGED <<slots, unfit>>

(* "firmware left out": still live, and not in the report.                 *)
Omitted == {i \in Owned : draft.tip[i] = "none"}

KeptOmitted(i) == draft.frame.contacts[i]   \* mutant: who is left out stays as it was
Shown(i) == IF i \in Omitted THEN "Ended" ELSE draft.frame.contacts[i]

FinishFrame ==
  /\ stage = "contacts" /\ draft.todo = {}
  /\ UNCHANGED unfit
  /\ IF Omitted \cap unfit # {} THEN Refused /\ UNCHANGED slots
     ELSE LET f == [draft.frame EXCEPT !.contacts = [i \in Ids |-> Shown(i)]]
          IN  /\ ahead' = [live |-> Following(ahead.live, f), down |-> Touching(draft.tip)]
              /\ slots' = [i \in Ids |-> IF f.contacts[i] = "Ended" THEN NoSlot ELSE slots[i]]
              /\ stage' = IF report = NoReport THEN "return" ELSE "merge"
              /\ draft' = NoDraft /\ UNCHANGED <<report, pending, told, cut, lost>>

(* Ok(frames).  After a discontinuity the caller starts afresh.            *)
Return ==
  /\ stage = "return" /\ stage' = "report"
  /\ told' = ahead /\ cut' = FALSE /\ lost' = IF cut THEN "nothing" ELSE lost
  /\ UNCHANGED <<report, pending, slots, unfit, draft, ahead>>

AssemblerNext ==
  \/ \E r \in PtpReports : PushReport(r)
  \/ MergeReport \/ FinishContact \/ FinishFrame \/ Return

-----------------------------------------------------------------------------
(* ThreeFingerOverlay, given the frames of any source of contacts          *)

OverlayInit ==
  /\ gate = "Idle" /\ pipeline = "installed"
  /\ live = {} /\ most = 0 /\ handed = {} /\ kept = FALSE

(* A frame after which these contacts are down: it names every contact     *)
(* that was or is, and after a discontinuity they begin again.             *)
FrameTo(now, discontinuity) ==
  LET before == IF discontinuity THEN {} ELSE live
  IN  [contacts |-> [i \in Ids |-> CASE i \in now /\ i \in before -> "Active"
                                    [] i \in now /\ i \notin before -> "Began"
                                    [] i \notin now /\ i \in before -> "Ended"
                                    [] OTHER -> "none"],
       discontinuity |-> discontinuity]

(* The contacts of the first frame of a cluster begin for the arbiter.     *)
Rebased(f) ==
  [f EXCEPT !.contacts = [i \in Ids |-> IF i \in Down(f) THEN "Began" ELSE @[i]]]

(* ArbiterSink::frame, which may take the frame or refuse it; without a    *)
(* pipeline the `expect` panics.                                           *)
Forward(f) ==
  IF pipeline = "installed"
  THEN handed' = Following(handed, f) /\ UNCHANGED pipeline
  ELSE pipeline' = "panicked" /\ UNCHANGED handed

Withhold == UNCHANGED <<pipeline, handed, kept>>

FromIdle(f, n) ==
  /\ gate = "Idle"
  /\ IF n >= 4 THEN gate' = "Drain" /\ Withhold
     ELSE IF n # 3 \/ In(f, {"Ended"}) # {} THEN gate' = "Idle" /\ Withhold
     ELSE gate' = "Active" /\ Forward(Rebased(f)) /\ UNCHANGED kept

(* reset_pipeline: the arbiter is taken out, released and replaced; when   *)
(* the release fails there is none.                                        *)
Reset ==
  \/ pipeline = "installed" /\ gate' = "Drain" /\ handed' = {} /\ kept' = FALSE /\ UNCHANGED pipeline
  \/ /\ pipeline' = IF pipeline = "installed" THEN "gone" ELSE "panicked"
     /\ UNCHANGED <<gate, handed, kept>>

(* A frame the arbiter refuses leaves the gate as it was.                  *)
WhileActive(f, n) ==
  /\ gate = "Active"
  /\ IF n >= 4 THEN Reset
     ELSE /\ Forward(f)
          /\ \E ok \in {FALSE, pipeline = "installed"} :
               /\ gate' = IF n = 0 /\ ok THEN "Idle" ELSE "Active"
               /\ kept' = IF n = 0 THEN ~ok ELSE kept

WhileDraining(n) ==
  gate = "Drain" /\ gate' = (IF n = 0 THEN "Idle" ELSE gate) /\ Withhold

OverlayFrame ==
  \E now \in SUBSET Ids, discontinuity \in BOOLEAN :
    LET f == FrameTo(now, discontinuity)  n == Cardinality(Down(f))
    IN  /\ pipeline # "panicked"
        /\ FromIdle(f, n) \/ WhileActive(f, n) \/ WhileDraining(n)
        /\ live' = now
        /\ most' = IF n = 0 THEN 0 ELSE IF n > most THEN n ELSE most

(* release_all: the arbiter's, or a panic; the overlay itself forgets      *)
(* nothing.                                                                *)
ReleaseOverlay ==
  /\ pipeline # "panicked"
  /\ pipeline' = IF pipeline = "gone" THEN "panicked" ELSE pipeline
  /\ UNCHANGED <<gate, live, most, handed, kept>>

OverlayNext == OverlayFrame \/ ReleaseOverlay

-----------------------------------------------------------------------------

TouchpadInit == AssemblerInit /\ OverlayInit

TouchpadNext ==
  \/ AssemblerNext /\ UNCHANGED overlayVars
  \/ OverlayNext /\ UNCHANGED assemblerVars

-----------------------------------------------------------------------------
(* Properties                                                              *)

(* Between two calls, whatever was split, repeated, left out or late: each *)
(* live contact has a slot of its own, and one who follows the frames      *)
(* takes for live exactly who the reports of the last one said was down,   *)
(* so that none is stuck and none appears without having begun (ptp.rs:    *)
(* "the shared core can never retain a stuck contact indefinitely").       *)
(* After an error that lost a frame some may be missing, but still none is *)
(* stuck; only when a discontinuity is lost nothing is promised, until the *)
(* next one.                                                               *)
TouchesAreTold ==
  /\ \A i, j \in Owned : slots[i] = slots[j] => i = j
  /\ stage = "report" => /\ lost = "nothing" => told.live = told.down
                         /\ lost = "frames" => told.live \subseteq told.down

(* The arbiter is handed only clusters of exactly three, every contact     *)
(* beginning, from the frame in which they were three to the one that      *)
(* leaves nobody; after a fourth contact it is handed nothing until then   *)
(* (overlay.rs: "remains owned until the cluster is empty").  Only after   *)
(* it refused the frame that left nobody it may be handed fewer.           *)
OnlyThreeFingers ==
  pipeline = "installed" =>
    /\ handed = IF gate = "Active" THEN live ELSE {}
    /\ gate = "Active" => most = 3 \/ (kept /\ most < 3)
    /\ most >= 4 => gate = "Drain"

(* What the adapter's two parts promise those they would work for.         *)
TouchesAccountedFor == TouchesAreTold /\ OnlyThreeFingers
=============================================================================
