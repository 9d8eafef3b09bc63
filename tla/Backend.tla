------------------------------ MODULE Backend -------------------------------
(***************************************************************************)
(* The desktop backend a KDE session runs on, put together from its parts: *)
(* KdeActionStreamingOutput and PortalStreamingOutput (streaming.rs) over  *)
(* PortalOutputSink (sink.rs), which drives the portal client, then the    *)
(* native transport, then both backwards.  What the sink holds down and    *)
(* how it recovers is OutputSession; here the subject is whether the parts *)
(* below it keep what OutputSession takes from them.                       *)
(***************************************************************************)
EXTENDS Transport, PortalClient, KdeActions

CONSTANTS
  MaxActions,  \* bound: desktop actions submitted
  MaxToggles   \* bound: toggles of the Overview by the user

VARIABLES
  st,          \* SessionState
  pc,          \* where the session's owner is
  seat, candidate, device,  \* the sink's handshake
  batch,       \* the events of the pump in progress
  then,        \* where the pump returns to
  blind,       \* history: a pump failed and dropped what it had collected
  stop,        \* the user has asked to stop
  actions, toggles

sink    == <<st, seat, candidate, device>>
control == <<pc, batch, then, blind, stop, actions, toggles>>
vars == <<transport, portalVars, kdeVars, sink, control>>

Init ==
  /\ TransportInit /\ PortalInit /\ KdeInit
  /\ st = "Disconnected" /\ pc = "new" /\ seat = 0 /\ candidate = 0 /\ device = 0
  /\ batch = <<>> /\ then = "none" /\ blind = FALSE /\ stop = FALSE
  /\ actions = 0 /\ toggles = 0

Goto(p) == pc' = p /\ UNCHANGED <<batch, then, blind, stop, actions, toggles>>

-----------------------------------------------------------------------------
(* prepare: the actions are checked before anything is asked of the user.  *)

PreflightActions ==
  /\ pc = "new"
  /\ IF stop THEN Goto("stopped") /\ UNCHANGED kdeVars
     ELSE \E ok \in BOOLEAN :
            Preflight(ok) /\ Goto(IF ok THEN "preflighted" ELSE "stopped")
  /\ UNCHANGED <<transport, portalVars, sink>>

Enter ==
  /\ pc = "preflighted"
  /\ IF stop THEN Goto("stopped") /\ UNCHANGED st
             ELSE Goto("CreateSession") /\ st' = "Authorizing"
  /\ UNCHANGED <<seat, candidate, device, transport, portalVars, kdeVars>>

Methods == <<"CreateSession", "SelectDevices", "Start">>
Following(m) == CASE m = "CreateSession" -> "SelectDevices"
                  [] m = "SelectDevices" -> "Start"
                  [] m = "Start"         -> "authorized"

(* A failed CreateSession leaves by `?`: nothing is released, but the      *)
(* owner drops the sink, which releases.                                   *)
Ask ==
  /\ pc \in ToSet(Methods) /\ Subscribe(pc)
  /\ Goto("asking") /\ UNCHANGED <<transport, kdeVars, sink>>

Round ==
  /\ pc = "asking"
  /\ \/ CallArrives /\ Goto(pc)
     \/ CallReturns /\ Goto(pc)
     \/ CallFails /\ Goto("release")
     \/ (GivesUp \/ Undecoded) /\ Goto("release")
     \/ \E code \in Codes :
          TakeAnswer(code)
            /\ Goto(IF code = "ok" THEN Following(request.method) ELSE "release")
  /\ UNCHANGED <<transport, kdeVars, sink>>

Authorized ==
  /\ pc = "authorized"
  /\ IF stop THEN Goto("release") /\ UNCHANGED st ELSE Goto("eis") /\ st' = "Ready"
  /\ UNCHANGED <<seat, candidate, device, transport, portalVars, kdeVars>>

(* ConnectToEIS hands a raw descriptor over.                               *)
ConnectToEis ==
  /\ pc = "eis"
  /\ \/ fd' = "portal" /\ Goto("connect")
     \/ fd' = fd /\ Goto("release")
  /\ UNCHANGED <<inner, ei, disconnected, own, pending, queue, server, told,
                 portalVars, kdeVars, sink>>

ConnectTransport ==
  /\ pc = "connect"
  /\ \/ Connected /\ Goto("handshake")
     \/ (LibraryMissing \/ NoSender) /\ Goto("release")
  /\ UNCHANGED <<portalVars, kdeVars, sink>>

-----------------------------------------------------------------------------
(* handshake: the first useful virtual device, once it is resumed.         *)

Noticed(e) ==
  CASE e.kind = "seat_added" -> seat' = e.id /\ UNCHANGED <<st, candidate, device>>
    [] e.kind = "seat_removed" /\ e.id = seat -> seat' = 0 /\ UNCHANGED <<st, candidate, device>>
    [] e.kind = "device_added" /\ e.use = "virtual" /\ candidate = 0 ->
         candidate' = e.id /\ UNCHANGED <<st, seat, device>>
    [] e.kind = "device_removed" /\ e.id = candidate ->
         candidate' = 0 /\ UNCHANGED <<st, seat, device>>
    [] e.kind = "resumed" /\ e.id = candidate ->
         device' = e.id /\ UNCHANGED <<st, seat, candidate>>
    [] OTHER -> UNCHANGED sink

Handshake ==
  /\ pc = "handshake" /\ ~stop
  /\ \E r \in Replies :
       /\ WaitEvent(r) /\ Noticed(r)
       /\ \/ r.kind = "seat_added" /\ Goto("bind")
          \/ r.kind = "resumed" /\ r.id = candidate /\ Goto("start")
          \/ r.kind \in {"disconnected", "error"} /\ Goto("release")
          \/ r = Timeout /\ Goto("release")
          \/ r.kind \notin {"seat_added", "disconnected", "error"}
               /\ ~(r.kind = "resumed" /\ r.id = candidate) /\ Goto(pc)
  /\ UNCHANGED <<portalVars, kdeVars>>

HandshakeCancelled ==
  /\ pc = "handshake" /\ stop /\ Goto("release")
  /\ UNCHANGED <<transport, portalVars, kdeVars, sink>>

BindSeat ==
  /\ pc = "bind" /\ BindCapabilities(seat) /\ Goto("handshake")
  /\ UNCHANGED <<portalVars, kdeVars, sink>>

StartEmulating ==
  /\ pc = "start"
  /\ IF Usable(device) THEN st' = "Emulating" /\ Goto("ready")
                       ELSE UNCHANGED st /\ Goto("release")
  /\ UNCHANGED <<seat, candidate, device, transport, portalVars, kdeVars>>

-----------------------------------------------------------------------------
(* pump_transport: dispatch once, collect until there is nothing; then the *)
(* first event that takes the device away interrupts the session.          *)

PumpBegins(next) ==
  /\ st = "Emulating" /\ Dispatch
  /\ pc' = "pump" /\ then' = next /\ batch' = <<>>
  /\ UNCHANGED <<blind, stop, actions, toggles>>

Interrupts(e) ==
  \/ e.kind \in {"paused", "device_removed"} /\ e.id = device
  \/ e.kind = "seat_removed" /\ e.id = seat
  \/ e.kind = "disconnected"

AppliesEvents(es) ==
  IF \E i \in 1..Len(es) : Interrupts(es[i])
  THEN st' = "Interrupted" /\ device' = 0 /\ seat' = 0 /\ pc' = "faulted"
  ELSE UNCHANGED <<st, device, seat>> /\ pc' = then

PumpStep ==
  /\ pc = "pump"
  /\ \E r \in Replies :
       /\ WaitEvent(r)
       /\ \/ /\ r = Timeout /\ AppliesEvents(batch) /\ batch' = <<>> /\ UNCHANGED blind
          \/ /\ r.kind = "disconnected" /\ AppliesEvents(Append(batch, r))
             /\ batch' = <<>> /\ UNCHANGED blind
          \/ /\ r = Error /\ blind' = TRUE /\ batch' = <<>> /\ pc' = "faulted"
             /\ UNCHANGED <<st, device, seat>>
          \/ /\ r \notin {Timeout, Error} /\ r.kind # "disconnected"
             /\ batch' = Append(batch, r)
             /\ UNCHANGED <<pc, st, device, seat, blind>>
  /\ UNCHANGED <<then, stop, actions, toggles, candidate, portalVars, kdeVars>>

-----------------------------------------------------------------------------
(* submit_frame_at: a wire event between two pumps, or a desktop action.   *)

SubmitWire ==
  /\ pc = "ready" /\ ~stop /\ PumpBegins("send")
  /\ UNCHANGED <<portalVars, kdeVars, sink>>

Send ==
  /\ pc = "send"
  /\ IF Usable(device) THEN FrameAt(device) /\ Goto("sent")
                       ELSE UNCHANGED transport /\ Goto("faulted")
  /\ UNCHANGED <<portalVars, kdeVars, sink>>

Sent ==
  /\ pc = "sent" /\ PumpBegins("ready")
  /\ UNCHANGED <<portalVars, kdeVars, sink>>

SubmitAction ==
  /\ pc = "ready" /\ ~stop /\ actions < MaxActions
  /\ \E b \in Bindings :
       \/ ReadState(b) /\ pc' = "invoke"
       \/ ~Verifies(b) /\ UNCHANGED kdeVars /\ pc' = "faulted"
  /\ actions' = actions + 1
  /\ UNCHANGED <<batch, then, blind, stop, toggles, transport, portalVars, sink>>

InvokeAction ==
  /\ pc = "invoke"
  /\ \E ok \in BOOLEAN : Invoke(ok) /\ Goto(IF ok THEN "ready" ELSE "faulted")
  /\ UNCHANGED <<transport, portalVars, sink>>

-----------------------------------------------------------------------------
(* release_all: disconnect, and close the portal session; a sink that is   *)
(* dropped does the same.                                                  *)

StartRelease ==
  /\ pc = "faulted" \/ (pc = "ready" /\ stop)
  /\ Goto("release") /\ UNCHANGED <<transport, portalVars, kdeVars, sink>>

Release ==
  /\ pc = "release" /\ DisconnectTransport
  /\ st' = "Stopping" /\ device' = 0 /\ Goto("close")
  /\ UNCHANGED <<seat, candidate, portalVars, kdeVars>>

Close ==
  /\ pc = "close"
  /\ IF handle = 0 THEN UNCHANGED portalVars ELSE \E ok \in BOOLEAN : CloseSession(ok)
  /\ st' = "Stopped" /\ Goto("stopped")
  /\ UNCHANGED <<seat, candidate, device, transport, kdeVars>>

-----------------------------------------------------------------------------
(* The others: the compositor, the portal with its user, the user.         *)

Compositor ==
  /\ \E e \in ServerEvents : ServerSends(e)
  /\ UNCHANGED <<portalVars, kdeVars, sink, control>>

PortalAnswers ==
  /\ \E r \in asked, code \in Codes : Answers(r, code)
  /\ UNCHANGED <<transport, kdeVars, sink, control>>

(* The Overview matters to nobody but an action.                           *)
User ==
  /\ pc \in {"ready", "invoke"} /\ toggles < MaxToggles /\ UserToggles /\ toggles' = toggles + 1
  /\ UNCHANGED <<pc, batch, then, blind, stop, actions, transport, portalVars, sink>>

Stop ==
  /\ ~stop /\ pc # "stopped" /\ stop' = TRUE
  /\ UNCHANGED <<pc, batch, then, blind, actions, toggles,
                 transport, portalVars, kdeVars, sink>>

Client ==
  \/ PreflightActions \/ Enter \/ Ask \/ Round \/ Authorized \/ ConnectToEis
  \/ ConnectTransport \/ Handshake \/ HandshakeCancelled \/ BindSeat \/ StartEmulating
  \/ PumpStep \/ SubmitWire \/ Send \/ Sent \/ SubmitAction \/ InvokeAction
  \/ StartRelease \/ Release \/ Close

Next == Client \/ Compositor \/ PortalAnswers \/ User \/ Stop

-----------------------------------------------------------------------------
(* What OutputSession takes from the transport: the device a session       *)
(* emits through is one the transport accepts, from the handshake on and   *)
(* after every pump that did not fail.  No request is refused because the  *)
(* sink and the transport disagree.                                        *)
ActiveDeviceUsable == st = "Emulating" /\ pc \in {"ready", "send", "sent"} => Usable(device)

(* What the program believes of the EIS server and of the portal is what   *)
(* it has been told of them, and no answer or session of theirs is lost.   *)
EndpointsInStep == ViewInStep /\ ActiveDeviceUsable /\ AnswersMatch /\ SessionsKnown

(* The EIS descriptor is never closed twice, and a session that has ended  *)
(* has closed the one the native transport was given.                      *)
DescriptorClosedOnce == fd # "twice" /\ (pc = "stopped" /\ inner => fd = "closed")

(* Neither a reference to a libei object nor its descriptor is lost.       *)
NothingLeaks == RefsBalanced /\ DescriptorClosedOnce

(* A session asked to stop ends, wherever it is and whatever the desktop   *)
(* answers, late or never: every wait for an answer or an event ends.      *)
StopEnds == stop ~> pc = "stopped"

(* The session's thread runs.  Its waits for a portal's answer and for an  *)
(* event of the compositor have deadlines; the method calls themselves     *)
(* (call_method of the portal and of KDE) have none, and are assumed to    *)
(* return: the peer answers, or the bus reports that it is gone.           *)
Spec == Init /\ [][Next]_vars /\ WF_vars(Client)
=============================================================================
