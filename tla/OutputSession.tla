--------------------------- MODULE OutputSession ---------------------------
(***************************************************************************)
(* The path of one decision from the arbiter to the desktop and the way    *)
(* back to neutral: ArbiterSink (touchpad-core arbiter.rs) over            *)
(* PortalOutputSink (touchpad-desktop sink.rs, held.rs) over the lazily    *)
(* created native libei transport (streaming.rs, native_transport.rs),     *)
(* against a compositor that may pause or remove the device or disconnect  *)
(* between any two calls.                                                  *)
(*                                                                         *)
(* Three ledgers say what is held down: the arbiter's own (believed), the  *)
(* adapter's acknowledgements (delivered) and the sink's (held).  The      *)
(* truth is what the compositor has down (desktop).                        *)
(*                                                                         *)
(* An output event is [kind, on]: the controls it touches are buttons or   *)
(* scroll axes.  Distances are left out: a delta is the set of axes with a *)
(* nonzero component.  Every capability is taken as negotiated (Takeover   *)
(* refuses a session without them), keys and desktop actions are left out. *)
(***************************************************************************)
EXTENDS Naturals, Sequences

CONSTANTS
  Axes,          \* the scroll axes
  Faults         \* the calls that may fail, a subset of FaultKinds

Buttons   == {"left", "right", "middle"}
Tracked   == {"left", "right"}        \* the buttons ack_delivered_event knows
Controls  == Buttons \cup Axes
FaultKinds == {"portal", "poll", "disconnect", "close"}

ASSUME OutputAssumption ==
  /\ Axes \cap (Buttons \cup {"scroll"}) = {}
  /\ Faults \subseteq FaultKinds

VARIABLES
  st,                 \* SessionState
  session, device,    \* the sink's portal handle and its emulated device
  candidate,          \* the handshake's first useful virtual device
  held,               \* HeldState: buttons, open, axes
  portal,             \* the portal's side of the session exists
  connected, resumed, \* libei: the connection; the device may be emitted through
  server, news,       \* the compositor's device, the event not yet pumped
  desktop,            \* the controls the compositor has down
  believed,           \* the arbiter's held buttons and open scroll
  delivered, faulted, \* ArbiterSink
  pc, job, todo,      \* next call, its caller, the wire frames left to submit
  owed,               \* release_events not sent yet
  upFailed, cleanupFailed,  \* primary/others and failures of this release
  outcome,            \* what the last ArbiterSink::release_all returned
  blind, unmatched    \* history: a pump failed; a lift met no pressed control

sinkv    == <<st, session, device, candidate, held>>
wire     == <<portal, connected, resumed, server, news, desktop, unmatched>>
adapter  == <<believed, delivered, faulted>>
call     == <<pc, job, todo, owed>>
result   == <<upFailed, cleanupFailed, outcome>>
vars == <<sinkv, wire, adapter, call, result, blind>>

Ledgers == SUBSET (Tracked \cup {"scroll"})
Neutral == [buttons |-> {}, open |-> FALSE, axes |-> {}]
Clean   == held.buttons = {} /\ ~held.open

SessionStates == {"Disconnected", "Authorizing", "Ready", "Emulating",
                  "Interrupted", "Stopping", "Stopped", "Fatal"}

Init ==
  /\ st = "Disconnected" /\ session = FALSE /\ device = FALSE
  /\ candidate = FALSE /\ held = Neutral
  /\ portal = FALSE /\ connected = FALSE /\ resumed = FALSE
  /\ server = "none" /\ news = "none" /\ desktop = {}
  /\ believed = {} /\ delivered = {} /\ faulted = FALSE
  /\ pc = "idle" /\ job = "none" /\ todo = <<>> /\ owed = {}
  /\ upFailed = FALSE /\ cleanupFailed = FALSE /\ outcome = "none"
  /\ blind = FALSE /\ unmatched = FALSE

-----------------------------------------------------------------------------
(* Output events, the decisions an arbiter may take, and the ledgers.      *)

Event(kind, on) == [kind |-> kind, on |-> on]
Events ==
  {Event("move", {}), Event("begin", {}), Event("end", {})}
    \cup {Event(k, {b}) : k \in {"down", "up"}, b \in Buttons}
    \cup {Event("delta", a) : a \in SUBSET Axes}

(* ack_delivered_event, which is also the arbiter's simulate_wire: the     *)
(* middle button leaves no trace in either.                                *)
Acked(ledger, e) ==
  CASE e.kind = "down"  -> ledger \cup (e.on \cap Tracked)
    [] e.kind = "up"    -> ledger \ e.on
    [] e.kind = "begin" -> ledger \cup {"scroll"}
    [] e.kind = "end"   -> ledger \ {"scroll"}
    [] OTHER            -> ledger

(* The events of a unit of one or two events, applied in order.            *)
InTurn(Apply(_, _), state, es) ==
  IF Len(es) = 1 THEN Apply(state, es[1])
  ELSE Apply(Apply(state, es[1]), es[2])

AckedAll(ledger, es) == InTurn(Acked, ledger, es)

(* The arbiter emits a transition only from the state its wire model is    *)
(* in; a middle click is always a whole pulse.                             *)
Legal(ledger, e) ==
  CASE e.kind = "down"  -> e.on \subseteq Tracked \ ledger
    [] e.kind = "up"    -> e.on \subseteq ledger
    [] e.kind = "begin" -> "scroll" \notin ledger
    [] e.kind \in {"delta", "end"} -> "scroll" \in ledger
    [] OTHER            -> TRUE

Decisions(ledger) ==
  LET First == {e \in Events : Legal(ledger, e)}
  IN  {<<e>> : e \in First}
        \cup {d \in First \X Events : Legal(Acked(ledger, d[1]), d[2])}
        \cup {<<Event("down", {"middle"}), Event("up", {"middle"})>>}

(* submit_frame_at: an ownership edge and its motion share a wire frame,   *)
(* unless ArbiterSink splits off the press of a stable-reference drag; any *)
(* other event has a frame of its own.                                     *)
IsPair(d) ==
  /\ Len(d) = 2
  /\ \/ d[1].kind = "down" /\ d[2].kind = "move"
     \/ d[1].kind = "move" /\ d[2].kind = "up"
OneByOne(d) ==
  IF Len(d) = 1 THEN << <<d[1]>> >> ELSE << <<d[1]>>, <<d[2]>> >>
WireFrames(d) ==
  IF ~IsPair(d) THEN {OneByOne(d)}
  ELSE {<<d>>} \cup {OneByOne(d) : b \in d[1].on \cap {"left"}}

(* HeldState::validate, record, release_events and is_clean.               *)
Valid(e) ==
  CASE e.kind = "up"               -> e.on \subseteq held.buttons
    [] e.kind \in {"delta", "end"} -> held.open
    [] OTHER                       -> TRUE

Recorded(h, e) ==
  CASE e.kind = "down"  -> [h EXCEPT !.buttons = @ \cup e.on]
    [] e.kind = "up"    -> [h EXCEPT !.buttons = @ \ e.on]
    [] e.kind = "begin" -> [h EXCEPT !.open = TRUE, !.axes = {}]
    [] e.kind = "delta" -> [h EXCEPT !.axes = @ \cup e.on]
    [] e.kind = "end"   -> [h EXCEPT !.open = FALSE, !.axes = {}]
    [] OTHER            -> h

ReleaseEvents ==
  {Event("up", {b}) : b \in held.buttons}
    \cup (IF held.open /\ held.axes # {} THEN {Event("end", {})} ELSE {})

(* send_unframed: a begin, a zero delta and the end of a scroll that moved *)
(* no axis are local markers; an end stops exactly the axes that moved.    *)
OnWire(e) ==
  \/ e.kind \in {"move", "down", "up"}
  \/ e.kind = "delta" /\ e.on # {}
  \/ e.kind = "end" /\ held.axes # {}

Lifted(e) == IF e.kind = "up" THEN e.on
             ELSE IF e.kind = "end" THEN held.axes ELSE {}
Pressed(e) == IF e.kind \in {"down", "delta"} THEN e.on ELSE {}
Moved(down, e) == (down \cup Pressed(e)) \ Lifted(e)

(* A frame of wire requests; a compositor whose device is not up drops it. *)
Commit(es) ==
  /\ desktop' = IF server = "up" THEN InTurn(Moved, desktop, es) ELSE desktop
  /\ unmatched' = (unmatched \/ ( server = "up"
                     /\ \E i \in DOMAIN es : ~(Lifted(es[i]) \subseteq desktop)))
  /\ UNCHANGED <<portal, connected, resumed, server, news>>

-----------------------------------------------------------------------------
(* prepare_cancellable.  The cancellation flag is read between the calls;  *)
(* every failure after create_session falls into release_all_detailed.     *)

Enter(next, caller) == pc' = next /\ job' = caller /\ UNCHANGED <<todo, owed>>

PrepareFails ==
  /\ Enter("release", "prepare")
  /\ UNCHANGED <<sinkv, wire, adapter, result, blind>>

CreateSession ==
  /\ pc = "idle" /\ st = "Disconnected"
  /\ st' = "Authorizing"
  /\ \/ /\ session' = TRUE /\ portal' = TRUE
        /\ Enter("authorize", "prepare")
     \/ /\ "portal" \in Faults       \* `?`: no cleanup, the caller releases
        /\ UNCHANGED <<session, portal, call>>
  /\ UNCHANGED <<device, candidate, held, connected, resumed, server, news,
                 desktop, unmatched, adapter, result, blind>>

Authorize ==
  /\ pc = "authorize"
  /\ \/ /\ st' = "Ready" /\ Enter("connect", "prepare")
        /\ UNCHANGED <<session, device, candidate, held, wire, adapter, result,
                       blind>>
     \/ PrepareFails

ConnectToEis ==
  /\ pc = "connect"
  /\ \/ /\ connected' = TRUE /\ Enter("shake", "prepare")
        /\ UNCHANGED <<sinkv, portal, resumed, server, news, desktop, unmatched,
                       adapter, result, blind>>
     \/ PrepareFails

(* handshake: the first useful virtual device is the candidate until it is *)
(* removed; its resume starts the emulation.  A disconnect, the deadline,  *)
(* a cancellation and a transport error all end the preparation.           *)
Handshake ==
  /\ pc = "shake"
  /\ \/ /\ ~candidate /\ candidate' = TRUE
        /\ UNCHANGED <<st, session, device, held, wire, call>>
     \/ /\ candidate /\ candidate' = FALSE
        /\ UNCHANGED <<st, session, device, held, wire, call>>
     \/ /\ candidate
        /\ device' = TRUE /\ resumed' = TRUE /\ server' = "up"
        /\ st' = "Emulating" /\ Enter("idle", "none")
        /\ UNCHANGED <<session, candidate, held, portal, connected, news,
                       desktop, unmatched>>
     \/ PrepareFails
  /\ UNCHANGED <<adapter, result, blind>>

-----------------------------------------------------------------------------
(* ArbiterSink::frame and tick: the arbiter commits its decision, then the *)
(* decision is submitted wire frame by wire frame.                         *)

MayDecide == ~faulted

Decide(d) ==
  /\ pc = "idle" /\ MayDecide
  /\ believed' = AckedAll(believed, d)
  /\ \E frames \in WireFrames(d) : todo' = frames
  /\ pc' = "submit" /\ job' = "decision"
  /\ outcome' = "none"
  /\ UNCHANGED <<sinkv, wire, delivered, faulted, owed, upFailed,
                 cleanupFailed, blind>>

AfterUnit(rest) ==
  /\ todo' = rest /\ UNCHANGED <<job, owed>>
  /\ pc' = IF rest # <<>> THEN "submit"
           ELSE IF job = "decision" THEN "idle" ELSE "release"

(* A frame that failed counts as not accepted at all.                      *)
AcceptedOnFailure(es) == delivered

(* The arbiter holds what its adapter delivered, whichever source held it. *)
Reconcile == believed' = delivered'

(* A failed decision faults the adapter and reconciles the arbiter; a      *)
(* failed explicit release is remembered and the next one is tried.        *)
UnitFails ==
  IF job = "decision"
  THEN /\ delivered' = AcceptedOnFailure(Head(todo))
       /\ faulted' = TRUE /\ Reconcile
       /\ todo' = <<>> /\ pc' = "idle" /\ job' = "none"
       /\ UNCHANGED <<owed, result>>
  ELSE /\ upFailed' = TRUE
       /\ AfterUnit(Tail(todo))
       /\ UNCHANGED <<adapter, cleanupFailed, outcome>>

(* pump: quiet, or a server event that interrupts the session, or a poll   *)
(* error that loses the server events drained before it.                   *)
PumpQuiet == news = "none" /\ UNCHANGED <<st, device, resumed, news, blind>>

PumpInterrupts ==
  /\ news # "none"
  /\ st' = "Interrupted" /\ device' = FALSE /\ news' = "none"
  /\ resumed' = (resumed /\ news = "gone")
  /\ UNCHANGED blind

PumpErrs ==
  /\ "poll" \in Faults /\ news # "gone"
  /\ news' = "none" /\ resumed' = (resumed /\ news = "none")
  /\ blind' = TRUE
  /\ UNCHANGED <<st, device>>

PumpStutters == UNCHANGED <<session, candidate, portal, connected, server,
                            desktop, unmatched>>

(* validate, then the pump that precedes the send.                         *)
Submit ==
  /\ pc = "submit"
  /\ PumpStutters /\ UNCHANGED held
  /\ LET es == Head(todo)
         valid == st = "Emulating" /\ \A i \in DOMAIN es : Valid(es[i])
     IN  \/ ~valid /\ UnitFails /\ UNCHANGED <<st, device, resumed, news, blind>>
         \/ valid /\ (PumpInterrupts \/ PumpErrs) /\ UnitFails
         \/ /\ valid /\ PumpQuiet
            /\ pc' = "send"
            /\ UNCHANGED <<job, todo, owed, adapter, result>>

(* The frame's requests and its commit.                                    *)
Send ==
  /\ pc = "send"
  /\ LET es == Head(todo)
         requests == \E i \in DOMAIN es : OnWire(es[i])
     IN  \/ /\ requests /\ ~resumed /\ UnitFails
            /\ UNCHANGED wire
         \/ /\ requests /\ resumed /\ Commit(es)
            /\ pc' = "settle"
            /\ UNCHANGED <<job, todo, owed, adapter, result>>
         \/ /\ ~requests
            /\ pc' = "settle"
            /\ UNCHANGED <<wire, job, todo, owed, adapter, result>>
  /\ UNCHANGED <<sinkv, blind>>

(* The pump after the frame; only then is the frame recorded and           *)
(* acknowledged, although the wire has it already.                         *)
HeldAfterFirst(es) == Recorded(held, es[1])   \* mutant: the pair's motion only
HeldAfter(es) == InTurn(Recorded, held, es)

Settle ==
  /\ pc = "settle"
  /\ PumpStutters
  /\ LET es == Head(todo)
     IN  \/ (PumpInterrupts \/ PumpErrs) /\ UnitFails /\ UNCHANGED held
         \/ /\ PumpQuiet
            /\ held' = HeldAfter(es)
            /\ delivered' = AckedAll(delivered, es)
            /\ AfterUnit(Tail(todo))
            /\ UNCHANGED <<believed, faulted, result>>

-----------------------------------------------------------------------------
(* Release.                                                                *)

(* ArbiterSink::release_all submits a release for every delivered press.   *)
OwedUp(c, e) == IF c \in delivered THEN << <<e>> >> ELSE <<>>
ExplicitUps == OwedUp("left", Event("up", {"left"}))
                 \o OwedUp("right", Event("up", {"right"}))
                 \o OwedUp("scroll", Event("end", {}))

ReleaseAll ==
  /\ pc = "idle"
  /\ job' = "ups" /\ UNCHANGED owed
  /\ todo' = ExplicitUps
  /\ pc' = IF todo' = <<>> THEN "release" ELSE "submit"
  /\ upFailed' = FALSE /\ cleanupFailed' = FALSE /\ outcome' = "none"
  /\ UNCHANGED <<sinkv, wire, adapter, blind>>

(* Drop of the sink: its own release only.                                 *)
DropSink ==
  /\ pc = "idle"
  /\ Enter("release", "drop")
  /\ UNCHANGED <<sinkv, wire, adapter, result, blind>>

(* release_all_detailed, and what its caller makes of the answer: only a   *)
(* successful cleanup discharges the releases still owed, and only a       *)
(* release without any failure clears the fault.                           *)
StillOwed(ok) == IF ok THEN {} ELSE delivered

Return(ok) ==
  IF job = "ups"
  THEN /\ delivered' = StillOwed(ok) /\ Reconcile
       /\ faulted' = (faulted /\ (upFailed \/ ~ok))
       /\ outcome' = IF ok /\ ~upFailed THEN "ok" ELSE "failed"
       /\ Enter("idle", "none")
  ELSE /\ Enter(IF job = "drop" THEN "dropped" ELSE "idle", "none")
       /\ UNCHANGED <<adapter, outcome>>

TerminalIsDone == st \in {"Stopped", "Fatal"}   \* mutant: Fatal is terminal
NothingToRelease == st = "Stopped" \/ (st = "Disconnected" /\ Clean)

SkipRelease ==
  /\ pc = "release" /\ NothingToRelease
  /\ Return(TRUE)
  /\ UNCHANGED <<sinkv, wire, upFailed, cleanupFailed, blind>>

(* An interrupted session has no live device to release through.           *)
StartRelease ==
  /\ pc = "release" /\ ~NothingToRelease
  /\ owed' = IF st = "Interrupted" THEN {} ELSE ReleaseEvents
  /\ st' = "Stopping" /\ cleanupFailed' = FALSE
  /\ pc' = "drain"
  /\ UNCHANGED <<session, device, candidate, held, wire, adapter, job, todo,
                 upFailed, outcome, blind>>

SendRelease(e) ==
  /\ pc = "drain" /\ owed' = owed \ {e}
  /\ \/ /\ device /\ resumed /\ Commit(<<e>>)
        /\ held' = Recorded(held, e)
        /\ UNCHANGED cleanupFailed
     \/ /\ ~(device /\ resumed)
        /\ cleanupFailed' = TRUE
        /\ UNCHANGED <<held, wire>>
  /\ UNCHANGED <<st, session, device, candidate, adapter, pc, job, todo,
                 upFailed, outcome, blind>>

(* The disconnect is what resets the compositor.                           *)
Disconnect ==
  /\ pc = "drain" /\ owed = {}
  /\ pc' = "close" /\ device' = FALSE
  /\ \/ /\ connected' = FALSE /\ resumed' = FALSE
        /\ server' = "none" /\ news' = "none" /\ desktop' = {}
        /\ UNCHANGED cleanupFailed
     \/ /\ "disconnect" \in Faults /\ connected
        /\ cleanupFailed' = TRUE
        /\ UNCHANGED <<connected, resumed, server, news, desktop>>
  /\ UNCHANGED <<st, session, candidate, held, portal, unmatched, adapter, job,
                 todo, owed, upFailed, outcome, blind>>

(* The handle is taken whether or not its close succeeds; the end state    *)
(* follows the disconnect alone.                                           *)
AlwaysStopped == "Stopped"   \* mutant: a failed disconnect is only reported
EndState == IF connected THEN "Fatal" ELSE "Stopped"

CloseSession ==
  /\ pc = "close"
  /\ session' = FALSE /\ held' = Neutral
  /\ st' = EndState
  /\ \E closed \in {TRUE} \cup {FALSE : f \in Faults \cap {"close"}} :
       /\ portal' = (portal /\ ~(session /\ closed))
       /\ cleanupFailed' = (cleanupFailed \/ (session /\ ~closed))
       /\ Return(~cleanupFailed')
  /\ UNCHANGED <<device, candidate, connected, resumed, server, news, desktop,
                 unmatched, upFailed, blind>>

-----------------------------------------------------------------------------
(* The compositor.                                                         *)

(* The device is paused or removed, or the whole server goes: the          *)
(* compositor may, and on a disconnect does, reset what is down.           *)
ServerActs(n) ==
  /\ server = "up" /\ pc # "dropped"
  /\ server' = n /\ news' = n
  /\ desktop' \in IF n = "gone" THEN {{}} ELSE {desktop, {}}
  /\ UNCHANGED <<sinkv, portal, connected, resumed, unmatched, adapter, call,
                 result, blind>>

Dropped == pc = "dropped" /\ UNCHANGED vars

Next ==
  \/ CreateSession \/ Authorize \/ ConnectToEis \/ Handshake
  \/ \E d \in Decisions(believed) : Decide(d)
  \/ Submit \/ Send \/ Settle
  \/ ReleaseAll \/ DropSink \/ SkipRelease \/ StartRelease
  \/ \E e \in owed : SendRelease(e)
  \/ Disconnect \/ CloseSession
  \/ \E n \in {"paused", "removed", "gone"} : ServerActs(n)
  \/ Dropped

Spec == Init /\ [][Next]_vars

-----------------------------------------------------------------------------
(* Properties.                                                             *)

\* Types; booleans are only ever used as formulas.
TypeOK ==
  /\ st \in SessionStates
  /\ held \in [buttons : SUBSET Buttons, open : BOOLEAN, axes : SUBSET Axes]
  /\ server \in {"none", "up", "paused", "removed", "gone"}
  /\ news \in {"none", "paused", "removed", "gone"}
  /\ desktop \subseteq Controls
  /\ believed \in Ledgers /\ delivered \in Ledgers
  /\ pc \in {"idle", "authorize", "connect", "shake", "submit", "send",
             "settle", "release", "drain", "close", "dropped"}
  /\ job \in {"none", "prepare", "decision", "ups", "drop"}
  /\ owed \subseteq Events /\ outcome \in {"none", "ok", "failed"}

\* The adapter's acknowledged presses and the sink's tracked ones are kept
\* by different code from different answers.  Whenever nothing is being
\* submitted to a session that has not been closed they agree, through
\* partial submissions, interruptions and failed releases alike.
LedgersAgree ==
  pc = "idle" /\ st \in {"Emulating", "Interrupted"} =>
    delivered = (held.buttons \cap Tracked)
                  \cup (IF held.open THEN {"scroll"} ELSE {})

\* While no fault is pending and the device is up, the arbiter, the adapter,
\* the sink and the compositor agree on everything that is down.
BooksMatchDesktop ==
  pc = "idle" /\ ~faulted /\ st = "Emulating" =>
    /\ believed = delivered
    /\ server = "up" => desktop = held.buttons \cup held.axes

\* release_all reports success only when nothing is down any more and no
\* ledger thinks otherwise.
AcknowledgedReleaseIsNeutral ==
  outcome = "ok" => desktop = {} /\ delivered = {} /\ believed = {} /\ ~faulted

\* Whatever is still down can still be released: the session is in a state
\* whose next release reaches the disconnect; a dropped sink leaves a control
\* down only when its disconnect failed.
NothingStranded ==
  desktop # {} =>
    /\ connected
    /\ pc = "idle" => st \in {"Emulating", "Interrupted", "Fatal"}
    /\ pc = "dropped" => st = "Fatal"

\* The desktop never sees the release of a button or the stop of a scroll
\* axis that is not down, unless a pump failed and hid what was committed.
NoUnmatchedRelease == unmatched => blind

\* Everything that is down is known to whoever has to release it.
DesktopAccountedFor ==
  TypeOK /\ LedgersAgree /\ BooksMatchDesktop /\ NothingStranded /\ NoUnmatchedRelease

\* The explicit releases are tried before the sink's own cleanup, and a
\* release that stays unacknowledged is never forgotten: what the adapter
\* knows as delivered shrinks while faulted only by a submitted release or by
\* a cleanup that reset the desktop.
OwedReleaseKept ==
  [][faulted /\ delivered' # delivered =>
       \/ pc = "settle" /\ job = "ups"
       \/ desktop' = {} /\ ~connected']_vars

\* The whole path implements what it promises the desktop, and owes a release
\* until it is delivered.
Stage ==
  CASE st = "Stopped" -> "over"
    [] st \in {"Disconnected", "Authorizing", "Ready"} -> "closed"
    [] st = "Emulating" /\ ~faulted -> "open"
    [] OTHER -> "ending"
Contract == INSTANCE NeutralOutput WITH down <- desktop, stage <- Stage
KeepsContract == Contract!Spec /\ OwedReleaseKept
=============================================================================
