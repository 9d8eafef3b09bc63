----------------------------- MODULE Transport ------------------------------
(***************************************************************************)
(* NativeTransport (native_transport.rs), the libei sender client behind   *)
(* LazyTransport (streaming.rs), over the owners of ffi.rs, against a      *)
(* compositor that sends lifecycle events when it likes.                   *)
(*                                                                         *)
(* An event waits in four places: the socket, libei's internal queue (only *)
(* ei_dispatch moves it there), the native pending queue (raw, unmapped),  *)
(* and then it is mapped and told.  Mapping takes and drops references and *)
(* happens only when the event is told.                                    *)
(***************************************************************************)
EXTENDS Integers, Sequences, SequencesExt, FiniteSets

CONSTANTS
  Seats, Devices,   \* the compositor's objects, numbered in order of appearance
  MaxEvents         \* bound: events the server sends

ASSUME TransportAssumption ==
  /\ Seats \cup Devices \subseteq Nat \ {0} /\ Seats \cap Devices = {}
  /\ MaxEvents \in Nat

VARIABLES
  inner,            \* LazyTransport: the native transport has been made
  fd,               \* the EIS socket: none, portal, ours, libei, closed, twice
  ei, disconnected, \* NativeTransport
  own,              \* seats, devices, resumed: the owners held; refs: libei's counts
  pending,          \* raw events fetched from libei, not mapped yet
  queue, socket,    \* libei's internal queue; bytes not dispatched yet
  sent, told,       \* history: what the server sent, what wait_event returned
  srv               \* the compositor: its seats, those bound, its devices

native    == <<inner, fd, ei, disconnected, own, pending>>
server    == <<socket, sent, srv>>
transport == <<native, queue, server, told>>

Objects == Seats \cup Devices
Uses    == {"virtual", "useless"}   \* useless: physical, or without capabilities

Ev(kind, id, use) == [kind |-> kind, id |-> id, use |-> use]
Plain(kind)       == Ev(kind, 0, "useless")
Timeout == Plain("timeout")
Error   == Plain("error")

SeatKinds   == {"seat_added", "seat_removed"}
DeviceKinds == {"device_added", "device_removed", "paused", "resumed"}
ServerEvents ==
  {Plain(k) : k \in {"connected", "disconnected", "other"}}
    \cup {Ev(k, s, "useless") : k \in SeatKinds, s \in Seats}
    \cup {Ev(k, d, u) : k \in DeviceKinds, d \in Devices, u \in Uses}

(* map_event returns None for an unknown type, a null seat, a null device. *)
Observable(e) == e.kind # "other"
Final(e)      == e.kind = "disconnected"

NoOwners == [seats |-> {}, devices |-> {}, resumed |-> {},
             refs |-> [o \in Objects |-> 0]]

TransportInit ==
  /\ inner = FALSE /\ fd = "none" /\ ei = FALSE /\ disconnected = FALSE
  /\ own = NoOwners /\ pending = <<>> /\ queue = <<>> /\ socket = <<>>
  /\ sent = <<>> /\ told = <<>>
  /\ srv = [seats |-> {}, bound |-> {}, devices |-> [d \in Devices |-> "none"]]

Closed == IF fd = "closed" THEN "twice" ELSE "closed"

-----------------------------------------------------------------------------
(* The owners: an EiSeat or EiDevice releases its reference when dropped.  *)

Took(o, field, x) == [o EXCEPT ![field] = @ \cup {x}, !.refs[x] = @ + 1]

(* Mutant: an owner is dropped whether it is held or not.                  *)
DropUnchecked(o, field, x) == [o EXCEPT ![field] = @ \ {x}, !.refs[x] = @ - 1]

Dropped(o, field, x) ==
  IF x \in o[field] THEN [o EXCEPT ![field] = @ \ {x}, !.refs[x] = @ - 1] ELSE o

MapEvent(o, e) ==
  CASE e.kind = "seat_added"     -> Took(o, "seats", e.id)
    [] e.kind = "seat_removed"   -> Dropped(o, "seats", e.id)
    [] e.kind = "device_added"   -> Took(o, "devices", e.id)
    [] e.kind = "device_removed" -> Dropped(Dropped(o, "devices", e.id), "resumed", e.id)
    [] e.kind = "paused"         -> Dropped(o, "resumed", e.id)
    [] e.kind = "resumed" /\ e.id \in o.devices \ o.resumed -> Took(o, "resumed", e.id)
    [] OTHER -> o

(* teardown: the owners, the raw events and the context go.  Each owner    *)
(* drops one reference.                                                    *)
Owners(o, x) == Cardinality({f \in {"seats", "devices", "resumed"} : x \in o[f]})

TornDown(o) == [NoOwners EXCEPT !.refs = [x \in Objects |-> o.refs[x] - Owners(o, x)]]

Teardown ==
  /\ own' = TornDown(own) /\ pending' = <<>> /\ queue' = <<>> /\ ei' = FALSE
  /\ fd' = IF ei THEN Closed ELSE fd

-----------------------------------------------------------------------------
(* connect: the lazy provider loads libei, or there is none, and then the  *)
(* descriptor stays with nobody.  When ei_new_sender gives NULL connect    *)
(* closes it; when ei_setup_backend_fd fails, releasing the context does.  *)

LibraryMissing ==
  /\ ~inner /\ fd = "portal" /\ UNCHANGED transport

NoSender ==
  /\ ~ei /\ fd = "portal" /\ inner' = TRUE /\ fd' = Closed
  /\ UNCHANGED <<ei, disconnected, own, pending, queue, server, told>>

Connected ==
  /\ ~ei /\ fd = "portal" /\ inner' = TRUE /\ fd' = "libei"
  /\ ei' = TRUE /\ disconnected' = FALSE
  /\ UNCHANGED <<own, pending, queue, server, told>>

-----------------------------------------------------------------------------
(* wait_event: what is pending first, then libei's queue, and only then    *)
(* the socket.                                                             *)

FirstOf(p) == CHOOSE i \in 1..Len(p) :
  Observable(p[i]) /\ \A j \in 1..(i - 1) : ~Observable(p[j])

(* Mutant: events are mapped when they are fetched (before R11).           *)
TellsEager(p, r) ==
  /\ r = p[FirstOf(p)] /\ pending' = SubSeq(p, FirstOf(p) + 1, Len(p))
  /\ own' = IF p = pending THEN own ELSE FoldLeft(MapEvent, own, p)
  /\ disconnected' = Final(r) /\ told' = Append(told, r)

(* Mutant: of what one dispatch brought only the first event is kept (R8). *)
TellsOne(p, r) ==
  /\ r = p[FirstOf(p)] /\ pending' = <<>> /\ own' = MapEvent(own, r)
  /\ disconnected' = Final(r) /\ told' = Append(told, r)

Tells(p, r) ==
  /\ r = p[FirstOf(p)] /\ pending' = SubSeq(p, FirstOf(p) + 1, Len(p))
  /\ own' = MapEvent(own, r)
  /\ disconnected' = Final(r) /\ told' = Append(told, r)

TellsNone(r) == r \in {Timeout, Error} /\ UNCHANGED <<own, disconnected, told>>

AnyIn(p) == \E i \in 1..Len(p) : Observable(p[i])

AlreadyOver(r) ==
  ei /\ disconnected /\ r = Plain("disconnected") /\ UNCHANGED transport

FromPending(r) ==
  /\ ei /\ ~disconnected /\ AnyIn(pending) /\ Tells(pending, r)
  /\ UNCHANGED <<inner, fd, ei, queue, server>>

FromQueue(r) ==
  /\ ei /\ ~disconnected /\ ~AnyIn(pending) /\ AnyIn(queue) /\ Tells(queue, r)
  /\ queue' = <<>> /\ UNCHANGED <<inner, fd, ei, server>>

(* Not ready, interrupted by a signal, or failing.                         *)
NothingPolled(r) ==
  /\ ei /\ ~disconnected /\ ~AnyIn(pending) /\ ~AnyIn(queue)
  /\ TellsNone(r) /\ pending' = <<>> /\ queue' = <<>>
  /\ UNCHANGED <<inner, fd, ei, server>>

FromSocket(r) ==
  /\ ei /\ ~disconnected /\ ~AnyIn(pending) /\ ~AnyIn(queue) /\ socket # <<>>
  /\ IF AnyIn(socket) THEN Tells(socket, r)
     ELSE r = Timeout /\ TellsNone(r) /\ pending' = <<>>
  /\ queue' = <<>> /\ socket' = <<>>
  /\ UNCHANGED <<inner, fd, ei, sent, srv>>

WaitEvent(r) ==
  AlreadyOver(r) \/ FromPending(r) \/ FromQueue(r) \/ NothingPolled(r) \/ FromSocket(r)

Replies == {Timeout, Error} \cup {e \in ServerEvents : Observable(e)}

(* The dispatch a pump starts with: it flushes, and reads what has come.   *)
Dispatch ==
  /\ ei /\ queue' = queue \o socket /\ socket' = <<>>
  /\ UNCHANGED <<native, sent, srv, told>>

-----------------------------------------------------------------------------
(* The requests.                                                           *)

(* bind_capabilities knows only a seat that is held.                       *)
BindCapabilities(s) ==
  /\ s \in own.seats /\ srv' = [srv EXCEPT !.bound = @ \cup {s}]
  /\ UNCHANGED <<native, queue, socket, sent, told>>

(* require_device, for start_emulating, a motion, a button, a scroll, a    *)
(* frame.                                                                  *)
Usable(d) == ei /\ d \in own.resumed

(* frame stamps the time it is called, which is not followed here.         *)
(* LazyTransport has no frame_at of its own: the default of the trait      *)
(* answers, and that is frame.                                             *)
Frame(d) == Usable(d) /\ UNCHANGED transport
FrameAt(d) == Frame(d)

(* disconnect, which without an inner transport does nothing.              *)
DisconnectTransport ==
  IF inner /\ ~(disconnected /\ ~ei)
  THEN /\ disconnected' = TRUE /\ Teardown
       /\ UNCHANGED <<inner, server, told>>
  ELSE UNCHANGED transport

-----------------------------------------------------------------------------
(* The compositor: it connects, adds a seat, adds devices of a bound seat, *)
(* pauses and resumes them, takes them and the seat away, disconnects.     *)

Lawful(e) ==
  CASE e.kind = "connected"    -> sent = <<>>
    [] e.kind = "seat_added"   -> sent # <<>> /\ e.id \notin srv.seats
    [] e.kind = "seat_removed" -> e.id \in srv.seats
                                  /\ \A d \in Devices : srv.devices[d] \in {"none", "gone"}
    [] e.kind = "device_added" -> /\ srv.bound # {} /\ srv.devices[e.id] = "none"
                                  /\ \A d \in Devices : d < e.id => srv.devices[d] # "none"
    [] e.kind = "resumed"      -> srv.devices[e.id] = "paused" /\ e.use = "useless"
    [] e.kind = "paused"       -> srv.devices[e.id] = "resumed" /\ e.use = "useless"
    [] e.kind = "device_removed" ->
         srv.devices[e.id] \in {"paused", "resumed"} /\ e.use = "useless"
    [] OTHER -> sent # <<>>

After(e) ==
  CASE e.kind = "seat_added"     -> [srv EXCEPT !.seats = @ \cup {e.id}]
    [] e.kind = "seat_removed"   -> [srv EXCEPT !.seats = @ \ {e.id}, !.bound = @ \ {e.id}]
    [] e.kind = "device_added"   -> [srv EXCEPT !.devices[e.id] = "paused"]
    [] e.kind = "device_removed" -> [srv EXCEPT !.devices[e.id] = "gone"]
    [] e.kind \in {"paused", "resumed"} -> [srv EXCEPT !.devices[e.id] = e.kind]
    [] OTHER -> srv

ServerSends(e) ==
  /\ ei /\ Len(sent) < MaxEvents /\ ~(sent # <<>> /\ Final(Last(sent)))
  /\ Lawful(e) /\ srv' = After(e)
  /\ sent' = Append(sent, e) /\ socket' = Append(socket, e)
  /\ UNCHANGED <<native, queue, told>>

-----------------------------------------------------------------------------
(* Among the first n of these events, the last of x's of these kinds is of *)
(* this kind.                                                              *)
LastIs(events, n, kind, x, kinds) ==
  \E i \in 1..n :
    /\ events[i].id = x /\ events[i].kind = kind
    /\ \A j \in i + 1..n : events[j].id = x => events[j].kind \notin kinds

LastToldIs(kind, x, kinds) == LastIs(told, Len(told), kind, x, kinds)

(* No more than the events told decide what the transport holds: an event  *)
(* that has been fetched but not told has no effect yet (R11 of M6).  A    *)
(* seat or a device is usable exactly between the events that say so.      *)
ViewInStep ==
  ei => /\ own.seats = {s \in Seats : LastToldIs("seat_added", s, SeatKinds)}
        /\ own.devices = {d \in Devices :
             LastToldIs("device_added", d, {"device_added", "device_removed"})}
        /\ own.resumed = {d \in Devices :
             LastToldIs("resumed", d, {"paused", "resumed", "device_removed"})}

(* libei's count of every object is the number of owners that will release *)
(* it: no reference is dropped twice, none is left after the teardown.     *)
RefsBalanced == \A x \in Objects : own.refs[x] = Owners(own, x)

(* The order of transport.rs: the caller is told what the server sent, in  *)
(* the order it was sent and nothing twice, however the events were split  *)
(* over sockets, queues and calls.                                         *)
Channel == INSTANCE LifecycleChannel WITH Event <- ServerEvents, open <- ei
InOrder == Channel!Spec
=============================================================================
