---------------------------- MODULE HostProofs ----------------------------
(***************************************************************************)
(* Proofs about the parts around the touchpad: the reconnect controllers,  *)
(* the installation of the termination handler, the desktop backend, the   *)
(* guarded emission, and touchpadctl from its command line to its exit     *)
(* code, with the documents it edits and the profiles it chooses.          *)
(***************************************************************************)
EXTENDS Backend, TerminationHandler, Commands, SequenceTheorems, FiniteSetTheorems,
        WellFoundedInduction, TLAPS

-----------------------------------------------------------------------------
(* The reconnect controllers: for every policy a runtime configuration may *)
(* carry, every bound of the integers, and a host that reports failures,   *)
(* successes and stops in whatever order.                                  *)
(*                                                                         *)
(* BackoffWithinPolicy speaks of the delays already asked for; what makes  *)
(* it inductive is how the controller's next delay continues them          *)
(* (LinkBooks): it lies between the last one and its double, and within    *)
(* the policy.                                                             *)

ProductionNext ==
  \/ HostStep
  \/ \E config : RuntimeValid(config) /\ HostBegins(config)

ProductionSpec == ProductionInit /\ [][ProductionNext]_productionVars

(* A controller and the delays it has asked for since its last success.    *)
LinkBooks(controller, delays) ==
  LET policy == controller.policy
      next   == controller.next_delay
  IN /\ controller \in [policy : {policy}, attempts : Nat, next_delay : Nat, stopped : BOOLEAN]
     /\ policy.initial \in Nat /\ policy.max \in Nat /\ policy.attempts \in Nat
     /\ policy.max <= MaxU64
     /\ delays \in Seq(Nat) /\ Len(delays) = controller.attempts
     /\ controller.attempts <= policy.attempts
     /\ next \in policy.initial..policy.max
     /\ delays = <<>> => next = policy.initial
     /\ delays # <<>> => /\ delays[1] = policy.initial
                         /\ delays[Len(delays)] <= next /\ next <= 2 * delays[Len(delays)]
     /\ \A i \in 1..Len(delays) : delays[i] <= policy.max
     /\ \A i \in 1..Len(delays) - 1 :
          delays[i] <= delays[i + 1] /\ delays[i + 1] <= 2 * delays[i]

Books ==
  /\ controllers = [link \in Links |-> controllers[link]]
  /\ retries = [link \in Links |-> retries[link]]
  /\ \A link \in Links : LinkBooks(controllers[link], retries[link])

-----------------------------------------------------------------------------
(* The controller                                                          *)

LEMMA FreshController ==
  ASSUME NEW policy, policy.initial \in Nat, policy.max \in Nat, policy.attempts \in Nat,
         policy.initial <= policy.max, policy.max <= MaxU64
  PROVE  LinkBooks(NewController(policy), <<>>)
BY ProductionAssumption DEF LinkBooks, NewController

LEMMA FailureKeepsBooks ==
  ASSUME NEW c, NEW delays, LinkBooks(c, delays)
  PROVE  LET next == OnFailure(c)
         IN LinkBooks(next.controller,
                      IF next.decision.retry THEN Append(delays, next.decision.after) ELSE delays)
<1>1. CASE c.stopped \/ c.attempts >= c.policy.attempts
  BY <1>1 DEF OnFailure, Stopped, Exhausted, LinkBooks
<1>2. CASE ~c.stopped /\ ~(c.attempts >= c.policy.attempts)
  <2> DEFINE d == c.next_delay
             after == Append(delays, d)
             one == [c EXCEPT !.attempts = c.attempts + 1]
             new == [one EXCEPT !.next_delay = Doubled(c)]
  <2>1. /\ c \in [policy : {c.policy}, attempts : Nat, next_delay : Nat, stopped : BOOLEAN]
        /\ c.policy.initial \in Nat /\ c.policy.max \in Nat /\ c.policy.attempts \in Nat
        /\ c.policy.max <= MaxU64 /\ d \in Nat /\ c.policy.initial <= d /\ d <= c.policy.max
        /\ delays \in Seq(Nat) /\ Len(delays) = c.attempts /\ c.attempts \in Nat
    BY DEF LinkBooks
  <2>2. OnFailure(c) = [decision |-> RetryAfter(d), controller |-> new]
    <3>1. Least(d, c.policy.max) = d
      BY <2>1 DEF Least
    <3> QED BY <1>2, <3>1 DEF OnFailure
  <2>3. Doubled(c) \in Nat /\ d <= Doubled(c) /\ Doubled(c) <= 2 * d /\ Doubled(c) <= c.policy.max
    BY <2>1, ProductionAssumption DEF Doubled, Least
  <2>4. /\ new.policy = c.policy /\ new.attempts = c.attempts + 1
        /\ new.next_delay = Doubled(c) /\ new.stopped = c.stopped
        /\ new \in [policy : {c.policy}, attempts : Nat, next_delay : Nat, stopped : BOOLEAN]
    <3>1. /\ one.policy = c.policy /\ one.attempts = c.attempts + 1 /\ one.stopped = c.stopped
          /\ one \in [policy : {c.policy}, attempts : Nat, next_delay : Nat, stopped : BOOLEAN]
      BY <2>1
    <3> HIDE DEF one
    <3> QED BY <2>3, <3>1
  <2>5. /\ after \in Seq(Nat) /\ Len(after) = Len(delays) + 1 /\ after[Len(after)] = d
        /\ \A i \in 1..Len(delays) : after[i] = delays[i]
        /\ after # <<>>
    <3> HIDE DEF new
    <3>1. after \in Seq(Nat) /\ Len(after) = Len(delays) + 1
      BY <2>1
    <3>2. after[Len(delays) + 1] = d
      BY <2>1
    <3>3. \A i \in 1..Len(delays) : after[i] = delays[i]
      BY <2>1
    <3> QED BY <2>1, <3>1, <3>2, <3>3
  <2>6. after[1] = c.policy.initial
    <3>1. CASE delays = <<>>
      BY <2>5, <3>1 DEF LinkBooks
    <3>2. CASE delays # <<>>
      BY <2>1, <2>5, <3>2 DEF LinkBooks
    <3> QED BY <3>1, <3>2
  <2>7. \A i \in 1..Len(after) : after[i] <= c.policy.max
    BY <2>1, <2>5 DEF LinkBooks
  <2>8. \A i \in 1..Len(after) - 1 : after[i] <= after[i + 1] /\ after[i + 1] <= 2 * after[i]
    <3> SUFFICES ASSUME NEW i \in 1..Len(delays)
                 PROVE  after[i] <= after[i + 1] /\ after[i + 1] <= 2 * after[i]
      BY <2>1, <2>5
    <3>1. CASE i = Len(delays)
      BY <2>1, <2>5, <3>1 DEF LinkBooks
    <3>2. CASE i < Len(delays)
      <4>1. i \in 1..Len(delays) - 1 /\ i + 1 \in 1..Len(delays)
        BY <2>1, <3>2
      <4>2. after[i] = delays[i] /\ after[i + 1] = delays[i + 1]
        BY <2>5, <4>1
      <4>3. delays[i] <= delays[i + 1] /\ delays[i + 1] <= 2 * delays[i]
        BY <4>1 DEF LinkBooks
      <4> QED BY <4>2, <4>3
    <3> QED BY <2>1, <3>1, <3>2
  <2>9. LinkBooks(new, after)
    <3> HIDE DEF after, new
    <3>1. /\ Len(after) = new.attempts /\ new.attempts <= new.policy.attempts
          /\ new.next_delay \in new.policy.initial..new.policy.max
      BY <1>2, <2>1, <2>3, <2>4, <2>5
    <3>2. after[Len(after)] <= new.next_delay /\ new.next_delay <= 2 * after[Len(after)]
      BY <2>1, <2>3, <2>4, <2>5
    <3> QED BY <2>1, <2>4, <2>5, <2>6, <2>7, <2>8, <3>1, <3>2 DEF LinkBooks
  <2> QED BY <2>2, <2>9 DEF RetryAfter
<1> QED BY <1>1, <1>2

LEMMA SuccessKeepsBooks ==
  ASSUME NEW c, NEW delays, LinkBooks(c, delays)
  PROVE  LinkBooks(OnSuccess(c), IF c.stopped THEN delays ELSE <<>>)
<1>1. CASE c.stopped
  BY <1>1 DEF LinkBooks, OnSuccess
<1>2. CASE ~c.stopped
  <2> DEFINE one == [c EXCEPT !.attempts = 0]
             new == [one EXCEPT !.next_delay = c.policy.initial]
  <2>1. OnSuccess(c) = new
    BY <1>2 DEF OnSuccess
  <2>2. /\ c \in [policy : {c.policy}, attempts : Nat, next_delay : Nat, stopped : BOOLEAN]
        /\ c.policy.initial \in Nat /\ c.policy.max \in Nat /\ c.policy.attempts \in Nat
        /\ c.policy.max <= MaxU64 /\ c.next_delay \in c.policy.initial..c.policy.max
    BY DEF LinkBooks
  <2>3. /\ new \in [policy : {c.policy}, attempts : Nat, next_delay : Nat, stopped : BOOLEAN]
        /\ new.policy = c.policy /\ new.attempts = 0 /\ new.next_delay = c.policy.initial
    BY <2>2
  <2>4. LinkBooks(new, <<>>)
    <3> HIDE DEF new
    <3> QED BY <2>2, <2>3 DEF LinkBooks
  <2> QED BY <1>2, <2>1, <2>4
<1> QED BY <1>1, <1>2

LEMMA StopKeepsBooks ==
  ASSUME NEW c, NEW delays, LinkBooks(c, delays)
  PROVE  LinkBooks(StopController(c), delays)
BY DEF LinkBooks, StopController

-----------------------------------------------------------------------------
(* The host                                                                *)

LEMMA BooksInit == ProductionInit => Books
BY FreshController, ProductionAssumption DEF ProductionInit, Books, NoPolicy

LEMMA BooksNext == Books /\ [ProductionNext]_productionVars => Books'
<1> SUFFICES ASSUME Books, [ProductionNext]_productionVars PROVE Books'
  OBVIOUS
<1>1. CASE UNCHANGED <<controllers, retries>>
  BY <1>1 DEF Books
<1>2. ASSUME NEW config, RuntimeValid(config), HostBegins(config) PROVE Books'
  <2>1. ASSUME NEW policy \in {config.device_reconnect, config.output_reconnect}
        PROVE  LinkBooks(NewController(policy), <<>>)
    <3>1. policy.initial \in 1..MaxU64 /\ policy.max \in policy.initial..MaxU64 /\ policy.attempts \in 1..32
      BY <1>2 DEF RuntimeValid, PolicyValid
    <3>2. /\ policy.initial \in Nat /\ policy.max \in Nat /\ policy.attempts \in Nat
          /\ policy.initial <= policy.max /\ policy.max <= MaxU64
      BY <3>1, ProductionAssumption
    <3> QED BY <3>2, FreshController
  <2> QED BY <1>2, <2>1 DEF HostBegins, Books
<1>3. ASSUME NEW link \in Links, LinkFailed(link) PROVE Books'
  <2>1. LinkBooks(OnFailure(controllers[link]).controller,
          IF OnFailure(controllers[link]).decision.retry
          THEN Append(retries[link], OnFailure(controllers[link]).decision.after)
          ELSE retries[link])
    BY FailureKeepsBooks DEF Books
  <2> QED BY <1>3, <2>1 DEF LinkFailed, Books
<1>4. ASSUME NEW link \in Links, LinkRestored(link) PROVE Books'
  <2>1. LinkBooks(OnSuccess(controllers[link]),
          IF controllers[link].stopped THEN retries[link] ELSE <<>>)
    BY SuccessKeepsBooks DEF Books
  <2> QED BY <1>4, <2>1 DEF LinkRestored, Books
<1>5. ASSUME NEW link \in Links, LinkStopped(link) PROVE Books'
  <2>1. LinkBooks(StopController(controllers[link]), retries[link])
    BY StopKeepsBooks DEF Books
  <2> QED BY <1>5, <2>1 DEF LinkStopped, Books
<1> QED BY <1>1, <1>2, <1>3, <1>4, <1>5
     DEF ProductionNext, HostStep, Transition, RequestStop, MarkStopped, productionVars

(* However a host reports failures and successes, a controller asks for no *)
(* more retries than its policy allows, and its delays start at the        *)
(* initial one, grow at most twofold and stay within the bound             *)
(* (ReconnectController::on_failure, on_success, stop).                    *)
THEOREM BackoffIsBounded == ProductionSpec => []BackoffWithinPolicy
<1>1. Books => BackoffWithinPolicy
  BY DEF Books, LinkBooks, BackoffWithinPolicy
<1> QED BY <1>1, BooksInit, BooksNext, PTL DEF ProductionSpec

(* A request to stop is taken in every state of the lifecycle.             *)
THEOREM StopTaken == ProductionSpec => []StopIsNeverRefused
<1> DEFINE Known == service \in ServiceStates /\ ~refused
<1>1. ProductionInit => Known
  BY DEF ProductionInit, ServiceStates
<1>2. Known /\ [ProductionNext]_productionVars => Known'
  BY DEF ProductionNext, HostStep, HostBegins, Transition, RequestStop, MarkStopped, LinkFailed,
         LinkRestored, LinkStopped, Legal, Working, ServiceStates, productionVars
<1>3. Known => StopIsNeverRefused
  BY DEF StopIsNeverRefused
<1> QED BY <1>1, <1>2, <1>3, PTL DEF ProductionSpec

(* Losing its output a service keeps within its policy, for every policy   *)
(* that validation accepts and any number of losses, and stops when delays. *)
THEOREM RecoveryIsBounded == ProductionSpec => []RecoveryWithinPolicy
<1>1. BackoffWithinPolicy /\ StopIsNeverRefused => RecoveryWithinPolicy
  BY DEF RecoveryWithinPolicy
<1> QED BY <1>1, BackoffIsBounded, StopTaken, PTL

-----------------------------------------------------------------------------
(* Installing and removing the termination handler gives the process back  *)
(* the dispositions it had, and its stop request belongs to the guard that *)
(* is held: for every set of earlier dispositions and any number of        *)
(* handlers in flight.                                                     *)

Stages == {"free", "claimed", "SIGINT", "SIGTERM", "held", "restore", "undo", "reset", "release"}

(* The signals the handler has at each stage.                              *)
Ours == (IF at \in {"SIGTERM", "undo", "held"} THEN {"SIGINT"} ELSE {})
          \cup (IF at \in {"held", "restore"} THEN {"SIGTERM"} ELSE {})

HandlerType ==
  /\ start \in [Signals -> {"default", "ignored"}]
  /\ disposition \in [Signals -> {"default", "ignored", "handler"}]
  /\ previous \in [Signals -> {"default", "ignored", "handler"}]
  /\ installed \in BOOLEAN /\ requested \in BOOLEAN
  /\ at \in Stages
  /\ begun \in Nat /\ stray \in Nat
  /\ served \in BOOLEAN /\ overtaken \in BOOLEAN

(* What is in force, and what the guard would give back: SIGINT once it is *)
(* ours, SIGTERM once it is.                                               *)
InForce ==
  /\ installed <=> at # "free"
  /\ \A s \in Signals : disposition[s] = IF s \in Ours THEN "handler" ELSE start[s]
  /\ \A s \in Ours : previous[s] = start[s]

(* No handler of this install is under way before the first sigaction, and *)
(* from the reset on the request says what the handlers have said.         *)
Request ==
  /\ at \in {"free", "claimed", "SIGINT"} => begun = 0
  /\ at = "claimed" => ~served /\ ~overtaken
  /\ at \in {"SIGINT", "SIGTERM", "held"} => (requested <=> served \/ overtaken)

HandlerInv == HandlerType /\ InForce /\ Request

LEMMA HandlerStarts == HandlerInit => HandlerInv
<1> SUFFICES ASSUME HandlerInit PROVE HandlerInv
    OBVIOUS
<1>1. start \in [Signals -> {"default", "ignored"}] /\ disposition = start /\ previous = start
      BY HandlerAssumption DEF HandlerInit
<1>2. HandlerType
      BY <1>1 DEF HandlerInit, HandlerType, Stages
<1>3. InForce /\ Request
      BY <1>1 DEF HandlerInit, InForce, Request, Ours
<1> QED
    BY <1>2, <1>3 DEF HandlerInv

LEMMA HandlerStep == HandlerInv /\ [HandlerNext]_handlerVars => HandlerInv'
<1> SUFFICES ASSUME HandlerInv, [HandlerNext]_handlerVars
             PROVE  HandlerInv'
    OBVIOUS
<1> USE DEF HandlerInv, HandlerType, InForce, Request, Ours, Stages, Signals
<1>1. CASE Claim
      BY <1>1 DEF Claim
<1>2. CASE AlreadyInstalled
      BY <1>2 DEF AlreadyInstalled, handlerVars
<1>3. CASE Clear
      BY <1>3 DEF Clear, StopAfterClear, handlers
<1>4. CASE SigactionInt
      BY <1>4 DEF SigactionInt, TakeOver, Refuses, handlers
<1>5. CASE SigactionTerm
      BY <1>5 DEF SigactionTerm, TakeOver, Refuses, handlers
<1>6. CASE DropGuard
      BY <1>6 DEF DropGuard, GiveBack, handlers
<1>7. CASE RestoreTerm
      BY <1>7 DEF RestoreTerm, GiveBack, handlers
<1>8. CASE Undo
      BY <1>8 DEF Undo, GiveBack, handlers
<1>9. CASE Reset
      BY <1>9 DEF Reset, handlers
<1>10. CASE ReleaseMarker
  <2>1. stray' \in Nat /\ begun' \in Nat
        BY <1>10 DEF ReleaseMarker
  <2>2. HandlerType'
        BY <1>10, <2>1 DEF ReleaseMarker
  <2>3. InForce' /\ Request'
        BY <1>10 DEF ReleaseMarker
  <2> QED
      BY <2>2, <2>3
<1>11. ASSUME NEW s \in Signals, Deliver(s) PROVE HandlerInv'
      BY <1>11 DEF Deliver
<1>12. CASE Store
      BY <1>12 DEF Store
<1>13. CASE StoreLate
      BY <1>13 DEF StoreLate
<1>14. CASE UNCHANGED handlerVars
      BY <1>14 DEF handlerVars
<1> QED
    BY <1>1, <1>2, <1>3, <1>4, <1>5, <1>6, <1>7, <1>8, <1>9, <1>10, <1>11, <1>12, <1>13, <1>14
       DEF HandlerNext

LEMMA HandlerInvariant == HandlerSpec => []HandlerInv
<1>1. HandlerInit => HandlerInv
      BY HandlerStarts
<1>2. HandlerInv /\ [HandlerNext]_handlerVars => HandlerInv'
      BY HandlerStep
<1> QED
    BY <1>1, <1>2, PTL DEF HandlerSpec

(* Without a guard the process has the dispositions it started with,       *)
(* wherever an install failed and whatever signals arrived meanwhile.      *)
THEOREM SignalsAreGivenBack == HandlerSpec => []DispositionsRestored
<1>1. HandlerInv => DispositionsRestored
      BY DEF HandlerInv, HandlerType, InForce, Ours, DispositionsRestored, Signals
<1> QED
    BY <1>1, HandlerInvariant, PTL

(* The stop request a command sees is one its own guard's handler stored.  *)
THEOREM StopsBelongToTheGuard == HandlerSpec => []StopsAreThisGuards
<1>1. HandlerInv => StopsAreThisGuards
      BY DEF HandlerInv, Request, StopsAreThisGuards
<1> QED
    BY <1>1, HandlerInvariant, PTL

(* Both, as the runs check them.                                           *)
THEOREM HandlerIsInOrder == HandlerSpec => []HandlerInOrder
<1>1. DispositionsRestored /\ StopsAreThisGuards => HandlerInOrder
      BY DEF HandlerInOrder
<1> QED
    BY <1>1, SignalsAreGivenBack, StopsBelongToTheGuard, PTL
-----------------------------------------------------------------------------
(* The desktop backend, for any objects of the compositor, any number of   *)
(* events and tokens, and any set of registered shortcuts.                 *)

(* Before the descriptor is handed over nothing has happened to it.        *)
Early == {"new", "preflighted", "CreateSession"}
Unconnected == Early \cup {"SelectDevices", "Start", "authorized", "eis", "connect"}

(* The steps of a session that emulates, and those of one that listens.    *)
Emulation == {"ready", "send", "sent", "invoke"}
Listens   == Emulation \cup {"handshake", "bind", "start", "pump", "faulted"}

Phases    == Unconnected \cup Listens \cup {"asking", "release", "close", "stopped"}

ControlInv ==
  /\ pc \in Phases
  /\ pc = "asking" <=> request.stage # "none"
  /\ pc = "pump" => then \in {"ready", "send"}

-----------------------------------------------------------------------------
(* The portal: a request has a token of its own, is with the portal until  *)
(* its answer is in the inbox, and once given up its session is orphaned.  *)

RequestStages == {"none", "subscribed", "called", "waiting"}
Requests == [method : ToSet(Methods), token : Nat]
Current == [method |-> request.method, token |-> request.token]

PortalType ==
  /\ counter \in Nat
  /\ request \in [method : ToSet(Methods) \cup {"none"}, token : 0..counter, stage : RequestStages]
  /\ request.stage = "none" => request = NoRequest
  /\ asked \subseteq Requests
  /\ \A r \in asked : r.token \in 1..counter

RequestInv ==
  /\ request.stage # "none" => request.method # "none" /\ request.token > 0
  /\ request.stage \in {"none", "subscribed"} => inbox = {}
  /\ request.stage = "subscribed" => \A r \in asked : r.token # request.token
  /\ \A a \in inbox : a.token = request.token
  /\ \A a, b \in inbox : a = b
  /\ request.stage \in {"called", "waiting"} =>
       /\ \A r \in asked : r.token = request.token => r = Current
       /\ Current \notin asked <=> inbox # {}

SessionInv ==
  /\ SessionsKnown /\ 0 \notin alive
  /\ pc \in Early => request = NoRequest /\ asked = {} /\ alive = {} /\ handle = 0
  /\ request.method = "CreateSession" =>
       /\ handle = 0 /\ asked \subseteq {Current}
       /\ alive # {} => \E a \in inbox : a.code = "ok"
  /\ \A r \in asked : r.method = "CreateSession" =>
       r = Current \/ SessionToken(r.token) \in orphaned

PortalInv == PortalType /\ RequestInv /\ SessionInv

-----------------------------------------------------------------------------
(* The transport.                                                          *)

DescriptorInv ==
  /\ fd # "twice"
  /\ ei => fd = "libei" /\ inner
  /\ inner /\ ~ei => fd = "closed"
  /\ pc \in Listens => ei
  /\ pc \in {"close", "stopped"} \cup Unconnected \cup {"asking"} => ~ei
  /\ pc \in Unconnected \cup {"asking"} => ~inner
  /\ pc = "connect" => fd = "portal"

OwnType ==
  own \in [seats : SUBSET Seats, devices : SUBSET Devices, resumed : SUBSET Devices,
           refs : [Objects -> Int]]

ServerType ==
  /\ sent \in Seq(ServerEvents)
  /\ srv \in [seats : SUBSET Seats, bound : SUBSET Seats,
              devices : [Devices -> {"none", "paused", "resumed", "gone"}]]

(* Who is there after the first n events sent.                             *)
Presence == {"device_added", "device_removed"}
SeatIn(n, s)   == LastIs(sent, n, "seat_added", s, SeatKinds)
DeviceIn(n, d) == LastIs(sent, n, "device_added", d, Presence)

(* The server adds what is not there, and resumes what is.                 *)
SentInv ==
  /\ srv.seats = {s \in Seats : SeatIn(Len(sent), s)}
  /\ \A d \in Devices : srv.devices[d] \in {"paused", "resumed"} <=> DeviceIn(Len(sent), d)
  /\ \A n \in 1..Len(sent) :
       /\ sent[n].kind = "seat_added" => ~SeatIn(n - 1, sent[n].id)
       /\ sent[n].kind = "device_added" => ~DeviceIn(n - 1, sent[n].id)
       /\ sent[n].kind = "resumed" => DeviceIn(n - 1, sent[n].id)

(* What is in the three queues is the end of what was sent, in its order;  *)
(* what the transport owns is what the beginning amounts to.               *)
Waiting == Len(pending) + Len(queue) + Len(socket)
Passed  == Len(sent) - Waiting
Follows(p, n) == \A i \in 1..Len(p) : p[i] = sent[n + i]

(* How much has been told, and that a disconnect told is remembered.       *)
EndInv == ei => (disconnected <=> told # <<>> /\ Final(Last(told)))

QueueInv ==
  /\ pending \in Seq(ServerEvents) /\ queue \in Seq(ServerEvents)
  /\ socket \in Seq(ServerEvents)
  /\ ei => /\ Passed \in Nat
           /\ Follows(pending, Passed)
           /\ Follows(queue, Passed + Len(pending))
           /\ Follows(socket, Passed + Len(pending) + Len(queue))
           /\ own.seats = {s \in Seats : SeatIn(Passed, s)}
           /\ own.devices = {d \in Devices : DeviceIn(Passed, d)}
           /\ Channel!Visible(Passed) = Len(told)

Pristine ==
  /\ own = NoOwners /\ pending = <<>> /\ queue = <<>> /\ socket = <<>>
  /\ sent = <<>> /\ told = <<>>

PristineInv == pc \in Unconnected \cup {"asking"} => Pristine

(* The device in use is resumed, or the pump under way has found out.      *)
ActiveInv ==
  /\ batch \in Seq(Replies)
  /\ pc \in Emulation => st = "Emulating" /\ device \in own.resumed
  /\ pc = "pump" =>
       /\ st = "Emulating"
       /\ device \in own.resumed \/ \E i \in 1..Len(batch) : Interrupts(batch[i])

(* An action under way will toggle the Overview only the way it was asked. *)
ActionInv ==
  invoking.binding \in Directions /\ invoking.toggle /\ ~raced =>
    (overview <=> invoking.binding = "overview-close")

-----------------------------------------------------------------------------
(* Events and owners                                                       *)

LEMMA EventFacts ==
  ASSUME NEW e \in ServerEvents
  PROVE  /\ e.kind \in SeatKinds => e.id \in Seats
         /\ e.kind \in DeviceKinds => e.id \in Devices
         /\ e.kind \notin SeatKinds \cup DeviceKinds => e.id = 0
         /\ e.kind \in SeatKinds \cup DeviceKinds \cup {"connected", "disconnected", "other"}
BY DEF ServerEvents, SeatKinds, DeviceKinds, Plain, Ev

LEMMA ObjectsApart ==
  /\ \A x \in Objects : x \in Nat /\ x # 0
  /\ \A x \in Seats : x \notin Devices
BY TransportAssumption DEF Objects

(* An object has as many owners as of the three fields name it.            *)
Owns(S, x) == IF x \in S THEN 1 ELSE 0

LEMMA OwnersCount ==
  ASSUME NEW o, NEW x
  PROVE  Owners(o, x) = Owns(o.seats, x) + Owns(o.devices, x) + Owns(o.resumed, x)
<1> DEFINE F == {f \in {"seats", "devices", "resumed"} : x \in o[f]}
           A == IF x \in o.seats THEN {"seats"} ELSE {}
           B == IF x \in o.devices THEN A \cup {"devices"} ELSE A
           C == IF x \in o.resumed THEN B \cup {"resumed"} ELSE B
<1>1. F = C
  OBVIOUS
<1>2. IsFiniteSet(A) /\ Cardinality(A) = Owns(o.seats, x)
  BY FS_EmptySet, FS_Singleton DEF Owns
<1>3. IsFiniteSet(B) /\ Cardinality(B) = Owns(o.seats, x) + Owns(o.devices, x)
  <2>1. "devices" \notin A
    OBVIOUS
  <2>2. Cardinality(A) \in Nat
    BY <1>2 DEF Owns
  <2>3. Cardinality(A \cup {"devices"}) = Cardinality(A) + 1 /\ IsFiniteSet(A \cup {"devices"})
    BY <1>2, <2>1, FS_AddElement
  <2> HIDE DEF A
  <2> QED
    BY <1>2, <2>2, <2>3 DEF Owns
<1>4. IsFiniteSet(C) /\ Cardinality(C) = Owns(o.seats, x) + Owns(o.devices, x) + Owns(o.resumed, x)
  <2>1. "resumed" \notin B
    OBVIOUS
  <2>2. Cardinality(B) \in Nat
    BY <1>3 DEF Owns
  <2>3. Cardinality(B \cup {"resumed"}) = Cardinality(B) + 1 /\ IsFiniteSet(B \cup {"resumed"})
    BY <1>3, <2>1, FS_AddElement
  <2> HIDE DEF A, B
  <2> QED
    BY <1>3, <2>2, <2>3 DEF Owns
<1> QED
  BY <1>1, <1>4 DEF Owners

Balanced(o) == \A x \in Objects : o.refs[x] = Owners(o, x)
Owned == [seats : SUBSET Seats, devices : SUBSET Devices, resumed : SUBSET Devices,
          refs : [Objects -> Int]]

(* Taking and dropping one owner.                                          *)
Fields == {"seats", "devices", "resumed"}

LEMMA TookStep ==
  ASSUME NEW o \in Owned, Balanced(o), NEW field \in Fields, NEW x \in Objects,
         x \notin o[field], field = "seats" => x \in Seats, field # "seats" => x \in Devices
  PROVE  /\ Took(o, field, x) \in Owned /\ Balanced(Took(o, field, x))
         /\ Took(o, field, x)[field] = o[field] \cup {x}
         /\ \A g \in Fields \ {field} : Took(o, field, x)[g] = o[g]
<1> DEFINE m == Took(o, field, x)
<1>1. /\ m.seats = IF field = "seats" THEN o.seats \cup {x} ELSE o.seats
      /\ m.devices = IF field = "devices" THEN o.devices \cup {x} ELSE o.devices
      /\ m.resumed = IF field = "resumed" THEN o.resumed \cup {x} ELSE o.resumed
      /\ m.refs = [o.refs EXCEPT ![x] = @ + 1]
  BY DEF Took, Owned, Fields
<1>2. m \in Owned
  <2>1. CASE field = "seats"
    <3>1. m = [o EXCEPT !.seats = @ \cup {x}, !.refs[x] = @ + 1]
      BY <2>1 DEF Took
    <3>2. o.seats \cup {x} \subseteq Seats
      BY <2>1 DEF Owned
    <3>3. [o.refs EXCEPT ![x] = @ + 1] \in [Objects -> Int]
      BY DEF Owned
    <3> HIDE DEF m
    <3> QED BY <3>1, <3>2, <3>3 DEF Owned
  <2>2. CASE field = "devices"
    <3>1. m = [o EXCEPT !.devices = @ \cup {x}, !.refs[x] = @ + 1]
      BY <2>2 DEF Took
    <3>2. o.devices \cup {x} \subseteq Devices
      BY <2>2 DEF Owned
    <3>3. [o.refs EXCEPT ![x] = @ + 1] \in [Objects -> Int]
      BY DEF Owned
    <3> HIDE DEF m
    <3> QED BY <3>1, <3>2, <3>3 DEF Owned
  <2>3. CASE field = "resumed"
    <3>1. m = [o EXCEPT !.resumed = @ \cup {x}, !.refs[x] = @ + 1]
      BY <2>3 DEF Took
    <3>2. o.resumed \cup {x} \subseteq Devices
      BY <2>3 DEF Owned
    <3>3. [o.refs EXCEPT ![x] = @ + 1] \in [Objects -> Int]
      BY DEF Owned
    <3> HIDE DEF m
    <3> QED BY <3>1, <3>2, <3>3 DEF Owned
  <2> QED BY <2>1, <2>2, <2>3 DEF Fields
<1> HIDE DEF m
<1>3. ASSUME NEW y \in Objects PROVE m.refs[y] = Owners(m, y)
  <2>1. o.refs[y] = Owns(o.seats, y) + Owns(o.devices, y) + Owns(o.resumed, y)
    BY OwnersCount DEF Balanced
  <2>2. m.refs[y] = IF y = x THEN o.refs[y] + 1 ELSE o.refs[y]
    BY <1>1 DEF Owned
  <2>3. Owners(m, y) = Owns(m.seats, y) + Owns(m.devices, y) + Owns(m.resumed, y)
    BY OwnersCount
  <2> QED BY <1>1, <2>1, <2>2, <2>3 DEF Owns, Fields
<1>4. Balanced(m)
  BY <1>3 DEF Balanced
<1> QED BY <1>1, <1>2, <1>4 DEF m, Fields

LEMMA DroppedStep ==
  ASSUME NEW o \in Owned, Balanced(o), NEW field \in Fields, NEW x \in Objects
  PROVE  /\ Dropped(o, field, x) \in Owned /\ Balanced(Dropped(o, field, x))
         /\ Dropped(o, field, x)[field] = o[field] \ {x}
         /\ \A g \in Fields \ {field} : Dropped(o, field, x)[g] = o[g]
<1> DEFINE m == Dropped(o, field, x)
<1>0. CASE x \notin o[field]
  BY <1>0 DEF Dropped, Fields, Owned
<1>5. CASE x \in o[field]
  <2>1. /\ m.seats = IF field = "seats" THEN o.seats \ {x} ELSE o.seats
        /\ m.devices = IF field = "devices" THEN o.devices \ {x} ELSE o.devices
        /\ m.resumed = IF field = "resumed" THEN o.resumed \ {x} ELSE o.resumed
        /\ m.refs = [o.refs EXCEPT ![x] = @ - 1]
    BY <1>5 DEF Dropped, Owned, Fields
  <2>2. m \in Owned
    <3>1. CASE field = "seats"
      <4>1. m = [o EXCEPT !.seats = @ \ {x}, !.refs[x] = @ - 1]
        BY <1>5, <3>1 DEF Dropped
      <4>2. [o.refs EXCEPT ![x] = @ - 1] \in [Objects -> Int]
        BY DEF Owned
      <4> HIDE DEF m
      <4> QED BY <4>1, <4>2 DEF Owned
    <3>2. CASE field = "devices"
      <4>1. m = [o EXCEPT !.devices = @ \ {x}, !.refs[x] = @ - 1]
        BY <1>5, <3>2 DEF Dropped
      <4>2. [o.refs EXCEPT ![x] = @ - 1] \in [Objects -> Int]
        BY DEF Owned
      <4> HIDE DEF m
      <4> QED BY <4>1, <4>2 DEF Owned
    <3>3. CASE field = "resumed"
      <4>1. m = [o EXCEPT !.resumed = @ \ {x}, !.refs[x] = @ - 1]
        BY <1>5, <3>3 DEF Dropped
      <4>2. [o.refs EXCEPT ![x] = @ - 1] \in [Objects -> Int]
        BY DEF Owned
      <4> HIDE DEF m
      <4> QED BY <4>1, <4>2 DEF Owned
    <3> QED BY <3>1, <3>2, <3>3 DEF Fields
  <2> HIDE DEF m
  <2>3. ASSUME NEW y \in Objects PROVE m.refs[y] = Owners(m, y)
    <3>1. o.refs[y] = Owns(o.seats, y) + Owns(o.devices, y) + Owns(o.resumed, y)
      BY OwnersCount DEF Balanced
    <3>2. m.refs[y] = IF y = x THEN o.refs[y] - 1 ELSE o.refs[y]
      BY <2>1 DEF Owned
    <3>3. Owners(m, y) = Owns(m.seats, y) + Owns(m.devices, y) + Owns(m.resumed, y)
      BY OwnersCount
    <3> QED BY <1>5, <2>1, <3>1, <3>2, <3>3 DEF Owns, Fields
  <2>4. Balanced(m)
    BY <2>3 DEF Balanced
  <2> QED BY <2>1, <2>2, <2>4 DEF m, Fields
<1> QED BY <1>0, <1>5

(* What telling an event does to the owners, when nothing is added twice.  *)
LEMMA MapStep ==
  ASSUME NEW o \in Owned, NEW e \in ServerEvents, Balanced(o),
         e.kind = "seat_added" => e.id \notin o.seats,
         e.kind = "device_added" => e.id \notin o.devices
  PROVE  LET m == MapEvent(o, e) IN
         /\ m \in Owned /\ Balanced(m)
         /\ m.seats = CASE e.kind = "seat_added" -> o.seats \cup {e.id}
                        [] e.kind = "seat_removed" -> o.seats \ {e.id}
                        [] OTHER -> o.seats
         /\ m.devices = CASE e.kind = "device_added" -> o.devices \cup {e.id}
                          [] e.kind = "device_removed" -> o.devices \ {e.id}
                          [] OTHER -> o.devices
         /\ m.resumed = CASE e.kind = "resumed" /\ e.id \in o.devices -> o.resumed \cup {e.id}
                          [] e.kind \in {"paused", "device_removed"} -> o.resumed \ {e.id}
                          [] OTHER -> o.resumed
<1> DEFINE m == MapEvent(o, e)
<1>0. {"seats", "devices", "resumed"} = Fields
  BY DEF Fields
<1>1. /\ e.kind \in SeatKinds => e.id \in Seats /\ e.id \in Objects
      /\ e.kind \in DeviceKinds => e.id \in Devices /\ e.id \in Objects
  BY EventFacts DEF Objects
<1>2. CASE e.kind = "seat_added"
  BY <1>1, <1>2, TookStep DEF MapEvent, SeatKinds, Fields
<1>3. CASE e.kind = "seat_removed"
  <2>1. m = Dropped(o, "seats", e.id) /\ e.id \in Objects
    BY <1>1, <1>3 DEF MapEvent, SeatKinds
  <2>2. /\ m \in Owned /\ Balanced(m) /\ m.seats = o.seats \ {e.id}
        /\ m.devices = o.devices /\ m.resumed = o.resumed
    BY <2>1, DroppedStep DEF Fields
  <2> QED BY <1>3, <2>2
<1>4. CASE e.kind = "device_added"
  BY <1>1, <1>4, TookStep DEF MapEvent, DeviceKinds, Fields
<1>5. CASE e.kind = "device_removed"
  <2> DEFINE n == Dropped(o, "devices", e.id)
  <2>1. m = Dropped(n, "resumed", e.id)
    BY <1>5 DEF MapEvent
  <2>2. e.id \in Objects
    BY <1>1, <1>5 DEF DeviceKinds
  <2>3. /\ n \in Owned /\ Balanced(n) /\ n.devices = o.devices \ {e.id}
        /\ n.seats = o.seats /\ n.resumed = o.resumed
    BY <2>2, DroppedStep DEF Fields
  <2> HIDE DEF n
  <2> QED BY <1>5, <2>1, <2>2, <2>3, DroppedStep DEF Fields
<1>6. CASE e.kind = "paused"
  BY <1>1, <1>6, DroppedStep DEF MapEvent, DeviceKinds, Fields
<1>7. CASE e.kind = "resumed"
  <2>1. CASE e.id \in o.devices \ o.resumed
    <3>1. m = Took(o, "resumed", e.id) /\ e.id \in Objects /\ e.id \in Devices
      BY <1>1, <1>7, <2>1 DEF MapEvent, DeviceKinds
    <3>2. /\ m \in Owned /\ Balanced(m) /\ m.resumed = o.resumed \cup {e.id}
          /\ m.devices = o.devices /\ m.seats = o.seats
      BY <2>1, <3>1, TookStep DEF Fields
    <3> QED BY <1>7, <2>1, <3>2
  <2>2. CASE e.id \notin o.devices \ o.resumed
    BY <1>7, <2>2 DEF MapEvent
  <2> QED BY <2>1, <2>2
<1>8. CASE e.kind \notin SeatKinds \cup DeviceKinds
  BY <1>8 DEF MapEvent, SeatKinds, DeviceKinds
<1> QED BY <1>2, <1>3, <1>4, <1>5, <1>6, <1>7, <1>8 DEF SeatKinds, DeviceKinds

-----------------------------------------------------------------------------
(* The order of what was sent                                              *)

LEMMA LeastNat ==
  ASSUME NEW S \in SUBSET Nat, S # {}
  PROVE  \E n \in S : \A m \in S : n <= m
<1>1. PICK n \in S : \A m \in S : ~(<<m, n>> \in OpToRel(<, Nat))
  BY WFMin, NatLessThanWellFounded
<1>2. \A m \in S : ~(m < n)
  BY <1>1 DEF OpToRel
<1> QED BY <1>2

LEMMA FirstIsFirst ==
  ASSUME NEW p \in Seq(ServerEvents), AnyIn(p)
  PROVE  /\ FirstOf(p) \in 1..Len(p) /\ Observable(p[FirstOf(p)])
         /\ \A j \in 1..FirstOf(p) - 1 : ~Observable(p[j])
<1> DEFINE S == {i \in 1..Len(p) : Observable(p[i])}
<1>1. S # {} /\ S \in SUBSET Nat
  BY DEF AnyIn
<1>2. PICK i \in S : \A m \in S : i <= m
  BY <1>1, LeastNat
<1>3. Observable(p[i]) /\ \A j \in 1..(i - 1) : ~Observable(p[j])
  BY <1>2
<1> QED BY <1>3 DEF FirstOf

(* One event more.                                                         *)
LEMMA LastStep ==
  ASSUME NEW q, NEW n \in Nat, NEW kind, NEW x, NEW kinds, kind \in kinds
  PROVE  LastIs(q, n + 1, kind, x, kinds) <=>
           IF q[n + 1].id = x /\ q[n + 1].kind \in kinds
           THEN q[n + 1].kind = kind ELSE LastIs(q, n, kind, x, kinds)
<1>1. CASE q[n + 1].id = x /\ q[n + 1].kind \in kinds
  <2>1. ASSUME q[n + 1].kind = kind PROVE LastIs(q, n + 1, kind, x, kinds)
    BY <1>1, <2>1 DEF LastIs
  <2>2. ASSUME LastIs(q, n + 1, kind, x, kinds) PROVE q[n + 1].kind = kind
    BY <1>1, <2>2 DEF LastIs
  <2> QED BY <1>1, <2>1, <2>2
<1>2. CASE ~(q[n + 1].id = x /\ q[n + 1].kind \in kinds)
  BY <1>2 DEF LastIs
<1> QED BY <1>1, <1>2

(* What the caller is not told of changes nothing.                         *)
LEMMA SkipUnseen ==
  ASSUME NEW n \in Nat, NEW m \in Nat, n <= m, NEW kind, NEW x \in Objects, NEW kinds,
         \A i \in n + 1..m : sent[i].id = 0
  PROVE  LastIs(sent, m, kind, x, kinds) <=> LastIs(sent, n, kind, x, kinds)
BY ObjectsApart DEF LastIs

(* What has been stays.                                                    *)
LEMMA LastKept ==
  ASSUME NEW p, NEW q, NEW n \in Nat, NEW kind, NEW x, NEW kinds,
         \A i \in 1..n : p[i] = q[i]
  PROVE  LastIs(p, n, kind, x, kinds) <=> LastIs(q, n, kind, x, kinds)
BY DEF LastIs

LEMMA LastAppended ==
  ASSUME NEW S, NEW q \in Seq(S), NEW r \in S, NEW kind, NEW x, NEW kinds, kind \in kinds,
         NEW t, t = Append(q, r)
  PROVE  LastIs(t, Len(q) + 1, kind, x, kinds) <=>
           IF r.id = x /\ r.kind \in kinds THEN r.kind = kind ELSE LastIs(q, Len(q), kind, x, kinds)
<1>1. /\ Len(q) \in Nat /\ t[Len(q) + 1] = r
      /\ \A i \in 1..Len(q) : t[i] = q[i]
  OBVIOUS
<1>2. LastIs(t, Len(q), kind, x, kinds) <=> LastIs(q, Len(q), kind, x, kinds)
  BY <1>1, LastKept
<1>3. LastIs(t, Len(q) + 1, kind, x, kinds) <=>
        IF t[Len(q) + 1].id = x /\ t[Len(q) + 1].kind \in kinds
        THEN t[Len(q) + 1].kind = kind ELSE LastIs(t, Len(q), kind, x, kinds)
  BY <1>1, LastStep
<1> QED BY <1>1, <1>2, <1>3

LEMMA ToldStep ==
  ASSUME NEW r, told \in Seq(Replies), told' = Append(told, r), r \in Replies,
         NEW kind, NEW x, NEW kinds, kind \in kinds
  PROVE  LastIs(told', Len(told'), kind, x, kinds) <=>
           IF r.id = x /\ r.kind \in kinds THEN r.kind = kind ELSE LastToldIs(kind, x, kinds)
<1>1. Len(told') = Len(told) + 1
  OBVIOUS
<1>2. LastIs(told', Len(told) + 1, kind, x, kinds) <=>
        IF r.id = x /\ r.kind \in kinds THEN r.kind = kind ELSE LastIs(told, Len(told), kind, x, kinds)
  BY LastAppended
<1> QED BY <1>1, <1>2 DEF LastToldIs

-----------------------------------------------------------------------------
(* Telling an event                                                        *)

(* The transport owns what the first n events sent amount to, and of those *)
(* nothing is left to tell.                                                *)
OwnAt(n) ==
  /\ own.seats = {s \in Seats : SeatIn(n, s)}
  /\ own.devices = {d \in Devices : DeviceIn(n, d)}
  /\ Channel!Visible(n) = Len(told)

View ==
  /\ own.seats = {s \in Seats : LastToldIs("seat_added", s, SeatKinds)}
  /\ own.devices = {d \in Devices : LastToldIs("device_added", d, Presence)}
  /\ own.resumed = {d \in Devices :
       LastToldIs("resumed", d, {"paused", "resumed", "device_removed"})}

(* The abstract channel counts with the library's Cardinality and takes    *)
(* the library's Last.                                                     *)
LEMMA ChannelCounts == \A n : Channel!Visible(n) = Cardinality({i \in 1..n : Observable(sent[i])})
<1>1. \A S : Channel!Cardinality(S) = Cardinality(S)
  BY DEF Cardinality, Channel!Cardinality
<1> QED BY <1>1 DEF Channel!Visible

LEMMA VisibleStep ==
  ASSUME NEW n \in Nat
  PROVE  /\ Channel!Visible(n) \in Nat
         /\ Channel!Visible(n + 1) = Channel!Visible(n) + (IF Observable(sent[n + 1]) THEN 1 ELSE 0)
<1> DEFINE V(m) == {i \in 1..m : Observable(sent[i])}
<1>1. IsFiniteSet(V(n))
  <2>1. IsFiniteSet(1..n) /\ V(n) \subseteq 1..n
    BY FS_Interval
  <2> QED BY <2>1, FS_Subset
<1>2. Cardinality(V(n)) \in Nat
  BY <1>1, FS_CardinalityType
<1>3. n + 1 \notin V(n)
  OBVIOUS
<1>4. V(n + 1) = IF Observable(sent[n + 1]) THEN V(n) \cup {n + 1} ELSE V(n)
  OBVIOUS
<1> HIDE DEF V
<1>5. Cardinality(V(n) \cup {n + 1}) = Cardinality(V(n)) + 1
  BY <1>1, <1>3, FS_AddElement
<1>6. Cardinality(V(n + 1)) = Cardinality(V(n)) + (IF Observable(sent[n + 1]) THEN 1 ELSE 0)
  BY <1>2, <1>4, <1>5
<1>7. Channel!Visible(n) = Cardinality(V(n)) /\ Channel!Visible(n + 1) = Cardinality(V(n + 1))
  BY ChannelCounts DEF V
<1> QED BY <1>2, <1>6, <1>7

LEMMA VisibleSkips ==
  ASSUME NEW n \in Nat, NEW m \in Nat, n <= m, \A i \in n + 1..m : ~Observable(sent[i])
  PROVE  Channel!Visible(m) = Channel!Visible(n)
<1>1. {i \in 1..m : Observable(sent[i])} = {i \in 1..n : Observable(sent[i])}
  OBVIOUS
<1> QED BY <1>1 DEF Channel!Visible

LEMMA SkipKeepsOwn ==
  ASSUME NEW n \in Nat, NEW m \in Nat, n <= m, OwnAt(n),
         \A i \in n + 1..m : sent[i].id = 0 /\ ~Observable(sent[i])
  PROVE  OwnAt(m)
BY SkipUnseen, VisibleSkips DEF OwnAt, SeatIn, DeviceIn, Objects

LEMMA NextOwn ==
  ASSUME NEW n \in Nat, OwnAt(n), OwnType, RefsBalanced, ServerType, SentInv, n < Len(sent),
         UNCHANGED sent, NEW r, r = sent[n + 1], own' = MapEvent(own, r),
         told \in Seq(Replies), Observable(r), told' = Append(told, r)
  PROVE  /\ r \in ServerEvents /\ OwnType' /\ RefsBalanced' /\ OwnAt(n + 1)'
         /\ own'.seats = CASE r.kind = "seat_added" -> own.seats \cup {r.id}
                           [] r.kind = "seat_removed" -> own.seats \ {r.id}
                           [] OTHER -> own.seats
         /\ own'.devices = CASE r.kind = "device_added" -> own.devices \cup {r.id}
                             [] r.kind = "device_removed" -> own.devices \ {r.id}
                             [] OTHER -> own.devices
         /\ own'.resumed = CASE r.kind = "resumed" -> own.resumed \cup {r.id}
                             [] r.kind \in {"paused", "device_removed"} -> own.resumed \ {r.id}
                             [] OTHER -> own.resumed
<1>1. r \in ServerEvents /\ n + 1 \in 1..Len(sent) /\ (n + 1) - 1 = n
  BY DEF ServerType
<1>2. /\ r.kind = "seat_added" => ~SeatIn(n, r.id)
      /\ r.kind = "device_added" => ~DeviceIn(n, r.id)
      /\ r.kind = "resumed" => DeviceIn(n, r.id)
  BY <1>1 DEF SentInv
<1>3. /\ r.kind \in SeatKinds => r.id \in Seats
      /\ r.kind \in DeviceKinds => r.id \in Devices
  BY <1>1, EventFacts
<1>4. /\ r.kind = "seat_added" => r.id \notin own.seats
      /\ r.kind = "device_added" => r.id \notin own.devices
      /\ r.kind = "resumed" => r.id \in own.devices
  BY <1>2, <1>3 DEF OwnAt, DeviceKinds
<1>5. own \in Owned /\ Balanced(own)
  BY DEF OwnType, Owned, RefsBalanced, Balanced
<1>6. /\ own' \in Owned /\ Balanced(own')
      /\ own'.seats = CASE r.kind = "seat_added" -> own.seats \cup {r.id}
                        [] r.kind = "seat_removed" -> own.seats \ {r.id}
                        [] OTHER -> own.seats
      /\ own'.devices = CASE r.kind = "device_added" -> own.devices \cup {r.id}
                          [] r.kind = "device_removed" -> own.devices \ {r.id}
                          [] OTHER -> own.devices
      /\ own'.resumed = CASE r.kind = "resumed" /\ r.id \in own.devices -> own.resumed \cup {r.id}
                          [] r.kind \in {"paused", "device_removed"} -> own.resumed \ {r.id}
                          [] OTHER -> own.resumed
  BY <1>1, <1>4, <1>5, MapStep
<1>7. OwnType' /\ RefsBalanced'
  BY <1>6 DEF OwnType, Owned, RefsBalanced, Balanced
<1>8. own'.seats = {s \in Seats : SeatIn(n + 1, s)}
  <2>1. ASSUME NEW s \in Seats
        PROVE  SeatIn(n + 1, s) <=> IF r.id = s /\ r.kind \in SeatKinds
                                    THEN r.kind = "seat_added" ELSE SeatIn(n, s)
    BY LastStep DEF SeatIn, SeatKinds
  <2>2. own.seats = {s \in Seats : SeatIn(n, s)}
    BY DEF OwnAt
  <2> QED BY <1>3, <1>6, <2>1, <2>2 DEF SeatKinds
<1>9. own'.devices = {d \in Devices : DeviceIn(n + 1, d)}
  <2>1. ASSUME NEW d \in Devices
        PROVE  DeviceIn(n + 1, d) <=> IF r.id = d /\ r.kind \in Presence
                                      THEN r.kind = "device_added" ELSE DeviceIn(n, d)
    BY LastStep DEF DeviceIn, Presence
  <2>2. own.devices = {d \in Devices : DeviceIn(n, d)}
    BY DEF OwnAt
  <2> QED BY <1>3, <1>6, <2>1, <2>2 DEF Presence, DeviceKinds
<1>10. OwnAt(n + 1)'
  <2>1. Channel!Visible(n) = Len(told) /\ Channel!Visible(n + 1) = Channel!Visible(n) + 1
    BY VisibleStep DEF OwnAt
  <2>2. Len(told') = Len(told) + 1 /\ Len(told) \in Nat
    OBVIOUS
  <2>3. Channel!Visible(n + 1)' = Channel!Visible(n + 1)
    BY DEF Channel!Visible
  <2> QED BY <1>8, <1>9, <2>1, <2>2, <2>3 DEF OwnAt, SeatIn, DeviceIn, LastIs
<1> QED BY <1>1, <1>4, <1>6, <1>7, <1>10

LEMMA ViewStep ==
  ASSUME View, told \in Seq(Replies), NEW r \in ServerEvents, Observable(r),
         told' = Append(told, r), own' = MapEvent(own, r), OwnType,
         own'.seats = CASE r.kind = "seat_added" -> own.seats \cup {r.id}
                        [] r.kind = "seat_removed" -> own.seats \ {r.id}
                        [] OTHER -> own.seats,
         own'.devices = CASE r.kind = "device_added" -> own.devices \cup {r.id}
                          [] r.kind = "device_removed" -> own.devices \ {r.id}
                          [] OTHER -> own.devices,
         own'.resumed = CASE r.kind = "resumed" -> own.resumed \cup {r.id}
                          [] r.kind \in {"paused", "device_removed"} -> own.resumed \ {r.id}
                          [] OTHER -> own.resumed
  PROVE  View' /\ told' \in Seq(Replies)
<1>1. r \in Replies
  BY DEF Replies
<1>2. /\ r.kind \in SeatKinds => r.id \in Seats
      /\ r.kind \in DeviceKinds => r.id \in Devices
  BY EventFacts
<1>3. own'.seats = {s \in Seats : LastIs(told', Len(told'), "seat_added", s, SeatKinds)}
  <2>1. ASSUME NEW s \in Seats
        PROVE  LastIs(told', Len(told'), "seat_added", s, SeatKinds) <=>
                 IF r.id = s /\ r.kind \in SeatKinds THEN r.kind = "seat_added"
                 ELSE LastToldIs("seat_added", s, SeatKinds)
    BY <1>1, ToldStep DEF SeatKinds
  <2>2. own.seats = {s \in Seats : LastToldIs("seat_added", s, SeatKinds)}
    BY DEF View
  <2> QED BY <1>2, <2>1, <2>2 DEF SeatKinds
<1>4. own'.devices = {d \in Devices : LastIs(told', Len(told'), "device_added", d, Presence)}
  <2>1. ASSUME NEW d \in Devices
        PROVE  LastIs(told', Len(told'), "device_added", d, Presence) <=>
                 IF r.id = d /\ r.kind \in Presence THEN r.kind = "device_added"
                 ELSE LastToldIs("device_added", d, Presence)
    BY <1>1, ToldStep DEF Presence
  <2>2. own.devices = {d \in Devices : LastToldIs("device_added", d, Presence)}
    BY DEF View
  <2> QED BY <1>2, <2>1, <2>2 DEF Presence, DeviceKinds
<1>5. own'.resumed = {d \in Devices :
        LastIs(told', Len(told'), "resumed", d, {"paused", "resumed", "device_removed"})}
  <2> DEFINE K == {"paused", "resumed", "device_removed"}
  <2>1. ASSUME NEW d \in Devices
        PROVE  LastIs(told', Len(told'), "resumed", d, K) <=>
                 IF r.id = d /\ r.kind \in K THEN r.kind = "resumed"
                 ELSE LastToldIs("resumed", d, K)
    BY <1>1, ToldStep
  <2>2. own.resumed = {d \in Devices : LastToldIs("resumed", d, K)}
    BY DEF View
  <2> QED BY <1>2, <2>1, <2>2 DEF DeviceKinds
<1> QED BY <1>1, <1>3, <1>4, <1>5 DEF View, LastToldIs

-----------------------------------------------------------------------------
(* The calls of the transport                                              *)

TransportInv ==
  /\ OwnType /\ RefsBalanced /\ ServerType /\ SentInv /\ QueueInv
  /\ ViewInStep /\ EndInv /\ told \in Seq(Replies)

(* What a call tells is the next event to tell, or it tells none.          *)
TellsNext ==
  \/ UNCHANGED told
  \/ ~disconnected /\ \E n \in 1..Len(sent) :
       Observable(sent[n]) /\ Channel!Visible(n - 1) = Len(told) /\ told' = Append(told, sent[n])

LEMMA TellsStep ==
  ASSUME OwnType, RefsBalanced, ServerType, SentInv, View, told \in Seq(Replies),
         UNCHANGED sent, NEW p \in Seq(ServerEvents), NEW n \in Nat, Follows(p, n),
         n + Len(p) <= Len(sent), OwnAt(n), AnyIn(p), NEW r, Tells(p, r), ei, ~disconnected
  PROVE  \E k \in 1..Len(p) :
           /\ OwnType' /\ RefsBalanced' /\ View' /\ told' \in Seq(Replies)
           /\ pending' \in Seq(ServerEvents) /\ Len(pending') = Len(p) - k
           /\ Follows(pending, n + k)' /\ OwnAt(n + k)' /\ EndInv' /\ TellsNext
           /\ own'.resumed = CASE r.kind = "resumed" -> own.resumed \cup {r.id}
                               [] r.kind \in {"paused", "device_removed"} -> own.resumed \ {r.id}
                               [] OTHER -> own.resumed
<1> DEFINE k == FirstOf(p)
<1>1. k \in 1..Len(p) /\ Observable(p[k]) /\ \A j \in 1..k - 1 : ~Observable(p[j])
  BY FirstIsFirst
<1>2. /\ r = p[k] /\ pending' = SubSeq(p, k + 1, Len(p)) /\ own' = MapEvent(own, r)
      /\ told' = Append(told, r) /\ disconnected' = Final(r)
  BY DEF Tells
<1> HIDE DEF k
<1> DEFINE m == n + k - 1
<1>3. m \in Nat /\ n <= m /\ m < Len(sent) /\ m + 1 = n + k /\ Len(p) \in Nat /\ Len(sent) \in Nat
  BY <1>1 DEF ServerType
<1>4. r = sent[m + 1]
  BY <1>1, <1>2, <1>3 DEF Follows
<1>5. \A i \in n + 1..m : sent[i].id = 0 /\ ~Observable(sent[i])
  <2> TAKE i \in n + 1..m
  <2>1. i - n \in 1..k - 1 /\ i - n \in 1..Len(p) /\ n + (i - n) = i
    BY <1>1, <1>3
  <2>2. p[i - n] = sent[i] /\ ~Observable(p[i - n]) /\ p[i - n] \in ServerEvents
    BY <1>1, <2>1 DEF Follows
  <2> QED BY <2>2, EventFacts DEF Observable, SeatKinds, DeviceKinds
<1>6. OwnAt(m)
  BY <1>3, <1>5, SkipKeepsOwn
<1> HIDE DEF m
<1>7. /\ r \in ServerEvents /\ OwnType' /\ RefsBalanced' /\ OwnAt(m + 1)'
      /\ own'.seats = CASE r.kind = "seat_added" -> own.seats \cup {r.id}
                        [] r.kind = "seat_removed" -> own.seats \ {r.id}
                        [] OTHER -> own.seats
      /\ own'.devices = CASE r.kind = "device_added" -> own.devices \cup {r.id}
                          [] r.kind = "device_removed" -> own.devices \ {r.id}
                          [] OTHER -> own.devices
      /\ own'.resumed = CASE r.kind = "resumed" -> own.resumed \cup {r.id}
                          [] r.kind \in {"paused", "device_removed"} -> own.resumed \ {r.id}
                          [] OTHER -> own.resumed
  BY <1>1, <1>2, <1>3, <1>4, <1>6, NextOwn
<1>11. TellsNext
  <2>1. m + 1 \in 1..Len(sent) /\ Observable(sent[m + 1]) /\ (m + 1) - 1 = m
    BY <1>1, <1>2, <1>3, <1>4
  <2> QED BY <1>2, <1>4, <1>6, <2>1 DEF OwnAt, TellsNext
<1>12. EndInv'
  <2>1. told' # <<>> /\ Last(told') = r
    BY <1>2 DEF Last
  <2> QED BY <1>2, <2>1 DEF EndInv, Final
<1>8. View' /\ told' \in Seq(Replies)
  BY <1>1, <1>2, <1>7, ViewStep
<1>9. /\ pending' \in Seq(ServerEvents) /\ Len(pending') = Len(p) - k
      /\ \A i \in 1..Len(pending') : pending'[i] = p[k + i]
  <2>1. k + 1 \in 1..Len(p) + 1 /\ Len(p) \in 0..Len(p)
    BY <1>1, <1>3
  <2> QED BY <1>1, <1>2, <1>3, <2>1, SubSeqProperties
<1>10. Follows(pending, n + k)'
  <2>1. ASSUME NEW i \in 1..Len(pending') PROVE pending'[i] = sent'[n + k + i]
    <3>1. k + i \in 1..Len(p) /\ n + (k + i) = n + k + i
      BY <1>1, <1>3, <1>9
    <3> QED BY <1>9, <3>1 DEF Follows
  <2> QED BY <2>1 DEF Follows
<1> QED BY <1>1, <1>3, <1>7, <1>8, <1>9, <1>10, <1>11, <1>12

LEMMA UnseenIsNothing ==
  ASSUME ServerType, NEW p \in Seq(ServerEvents), NEW n \in Nat, Follows(p, n),
         n + Len(p) <= Len(sent), OwnAt(n), ~AnyIn(p)
  PROVE  OwnAt(n + Len(p))
<1>1. Len(p) \in Nat /\ n + Len(p) \in Nat /\ n <= n + Len(p)
  <2>1. Len(p) \in Nat
    OBVIOUS
  <2> QED BY <2>1
<1>2. \A i \in n + 1..n + Len(p) : sent[i].id = 0 /\ ~Observable(sent[i])
  <2> TAKE i \in n + 1..n + Len(p)
  <2>1. i - n \in 1..Len(p) /\ n + (i - n) = i
    BY <1>1
  <2>2. p[i - n] = sent[i] /\ ~Observable(p[i - n]) /\ p[i - n] \in ServerEvents
    BY <2>1 DEF Follows, AnyIn
  <2> QED BY <2>2, EventFacts DEF Observable, SeatKinds, DeviceKinds
<1> QED BY <1>1, <1>2, SkipKeepsOwn

LEMMA ViewIs == ViewInStep <=> (ei => View)
BY DEF ViewInStep, View, Presence

(* What a wait does to the device in use.                                  *)
ResumedAfter(r) ==
  own'.resumed = CASE r.kind = "resumed" -> own.resumed \cup {r.id}
                   [] r.kind \in {"paused", "device_removed"} -> own.resumed \ {r.id}
                   [] OTHER -> own.resumed

LEMMA VisibleKept == UNCHANGED sent => \A n : Channel!Visible(n)' = Channel!Visible(n)
BY DEF Channel!Visible

(* The first of the three queues that has something to tell, and what is   *)
(* before it discarded.                                                    *)
LEMMA QueueAfter ==
  ASSUME NEW n \in Nat, ServerType', OwnAt(n)', pending' \in Seq(ServerEvents),
         queue' \in Seq(ServerEvents), socket' \in Seq(ServerEvents),
         n + Len(pending') + Len(queue') + Len(socket') = Len(sent'),
         Follows(pending, n)', Follows(queue, n + Len(pending))',
         Follows(socket, n + Len(pending) + Len(queue))'
  PROVE  QueueInv'
<1>1. /\ Len(pending') \in Nat /\ Len(queue') \in Nat /\ Len(socket') \in Nat
      /\ Len(sent') \in Nat
  BY DEF ServerType
<1>2. Passed' = n
  BY <1>1 DEF Passed, Waiting
<1>3. Channel!Visible(Passed)' = Len(told')
  BY <1>2 DEF OwnAt, Channel!Visible
<1> QED BY <1>2, <1>3 DEF QueueInv, OwnAt, Follows

LEMMA WaitKeeps ==
  ASSUME TransportInv, NEW r, WaitEvent(r)
  PROVE  TransportInv' /\ ei /\ ei' /\ ResumedAfter(r) /\ TellsNext
<1> USE DEF TransportInv
<1>1. ei
  BY DEF WaitEvent, AlreadyOver, FromPending, FromQueue, NothingPolled, FromSocket
<1>2. PICK n \in Nat :
      /\ n = Passed /\ Follows(pending, n) /\ Follows(queue, n + Len(pending))
      /\ Follows(socket, n + Len(pending) + Len(queue)) /\ OwnAt(n) /\ View
      /\ pending \in Seq(ServerEvents) /\ queue \in Seq(ServerEvents)
      /\ socket \in Seq(ServerEvents)
  BY <1>1, ViewIs DEF QueueInv, OwnAt
<1>0. PICK nq \in Nat, ns \in Nat : nq = n + Len(pending) /\ ns = nq + Len(queue)
  BY <1>2
<1>3. /\ Len(pending) \in Nat /\ Len(queue) \in Nat /\ Len(socket) \in Nat /\ Len(sent) \in Nat
      /\ nq \in Nat /\ ns \in Nat /\ n + Len(pending) <= Len(sent)
      /\ nq + Len(queue) <= Len(sent) /\ ns + Len(socket) = Len(sent)
  BY <1>0, <1>2 DEF Passed, Waiting, ServerType
<1>4. Follows(queue, nq) /\ Follows(socket, ns)
  BY <1>0, <1>2
<1>5. ASSUME ~AnyIn(pending) PROVE OwnAt(nq)
  BY <1>0, <1>2, <1>3, <1>5, UnseenIsNothing
<1>6. ASSUME ~AnyIn(pending), ~AnyIn(queue) PROVE OwnAt(ns)
  <2> QED BY <1>0, <1>2, <1>3, <1>4, <1>5, <1>6, UnseenIsNothing
<1>7. ASSUME UNCHANGED <<sent, srv>>
      PROVE  ServerType' /\ SentInv'
  BY <1>7 DEF ServerType, SentInv, SeatIn, DeviceIn, LastIs
<1>8. ASSUME OwnType', RefsBalanced', View', told' \in Seq(Replies), QueueInv', EndInv',
             UNCHANGED <<sent, srv, ei>>
      PROVE  TransportInv' /\ ei'
  <2>1. ViewInStep'
    BY <1>8, ViewIs DEF ViewInStep, View, Presence
  <2> QED BY <1>1, <1>7, <1>8, <2>1
<1>9. CASE AlreadyOver(r)
  <2>1. UNCHANGED transport /\ r.kind = "disconnected"
    BY <1>9 DEF AlreadyOver, Plain, Ev
  <2>2. UNCHANGED <<own, sent, srv, ei, told, pending, queue, socket>>
    BY <2>1 DEF transport, native, server
  <2>3. OwnType' /\ RefsBalanced' /\ View' /\ told' \in Seq(Replies) /\ ResumedAfter(r)
    BY <1>2, <2>1, <2>2 DEF OwnType, RefsBalanced, View, LastToldIs, ResumedAfter
  <2>4. QueueInv'
    <3>1. Passed' = Passed /\ Channel!Visible(Passed)' = Channel!Visible(Passed)
      BY <2>2 DEF Passed, Waiting, Channel!Visible
    <3> QED BY <2>2, <3>1 DEF QueueInv, Follows, SeatIn, DeviceIn
  <2>5. EndInv' /\ TellsNext
    BY <2>1, <2>2 DEF EndInv, TellsNext, transport, native
  <2> QED BY <1>1, <1>8, <2>2, <2>3, <2>4, <2>5
<1>10. CASE FromPending(r)
  <2>1. UNCHANGED <<sent, srv, queue, socket, ei>> /\ Tells(pending, r) /\ AnyIn(pending)
        /\ ~disconnected
    BY <1>10 DEF FromPending, server
  <2>2. PICK k \in 1..Len(pending) :
          /\ OwnType' /\ RefsBalanced' /\ View' /\ told' \in Seq(Replies)
          /\ pending' \in Seq(ServerEvents) /\ Len(pending') = Len(pending) - k
          /\ Follows(pending, n + k)' /\ OwnAt(n + k)' /\ ResumedAfter(r)
          /\ EndInv' /\ TellsNext
    BY <1>1, <1>2, <1>3, <2>1, TellsStep DEF ResumedAfter
  <2>3. /\ n + k \in Nat /\ (n + k) + Len(pending') = nq
    BY <1>0, <1>3, <2>2
  <2>4. Follows(queue, n + k + Len(pending))' /\ Follows(socket, n + k + Len(pending) + Len(queue))'
    BY <1>0, <1>4, <2>1, <2>3 DEF Follows
  <2>5. QueueInv'
    <3>1. n + k + Len(pending') + Len(queue') + Len(socket') = Len(sent')
      BY <1>0, <1>3, <2>1, <2>3
    <3> QED BY <1>2, <1>7, <2>1, <2>2, <2>3, <2>4, <3>1, QueueAfter
  <2> QED BY <1>1, <1>8, <2>1, <2>2, <2>5
<1>11. CASE FromQueue(r)
  <2>1. /\ UNCHANGED <<sent, srv, socket, ei>> /\ Tells(queue, r) /\ ~AnyIn(pending) /\ AnyIn(queue)
        /\ queue' = <<>> /\ ~disconnected
    BY <1>11 DEF FromQueue, server
  <2>2. PICK k \in 1..Len(queue) :
          /\ OwnType' /\ RefsBalanced' /\ View' /\ told' \in Seq(Replies)
          /\ pending' \in Seq(ServerEvents) /\ Len(pending') = Len(queue) - k
          /\ Follows(pending, nq + k)' /\ OwnAt(nq + k)' /\ ResumedAfter(r)
          /\ EndInv' /\ TellsNext
    BY <1>1, <1>2, <1>3, <1>4, <1>5, <2>1, TellsStep DEF ResumedAfter
  <2>3. /\ nq + k \in Nat /\ (nq + k) + Len(pending') = ns /\ Len(queue') = 0
    BY <1>0, <1>3, <2>1, <2>2
  <2>4. /\ Follows(queue, nq + k + Len(pending))'
        /\ Follows(socket, nq + k + Len(pending) + Len(queue))'
    <3>1. nq + k + Len(pending') + Len(queue') = ns
      BY <1>3, <2>3
    <3>2. Follows(queue, nq + k + Len(pending))'
      BY <2>3 DEF Follows
    <3>3. Follows(socket, ns)'
      BY <1>4, <2>1 DEF Follows
    <3> QED BY <3>1, <3>2, <3>3 DEF Follows
  <2>5. QueueInv'
    <3>1. nq + k + Len(pending') + Len(queue') + Len(socket') = Len(sent')
      BY <1>0, <1>3, <2>1, <2>3
    <3>2. queue' \in Seq(ServerEvents)
      BY <2>1
    <3> QED BY <1>2, <1>3, <1>7, <2>1, <2>2, <2>3, <2>4, <3>1, <3>2, QueueAfter
  <2> QED BY <1>1, <1>8, <2>1, <2>2, <2>5
<1>12. ASSUME ~AnyIn(pending), ~AnyIn(queue), pending' = <<>>, queue' = <<>>, socket' = socket,
              UNCHANGED <<sent, srv, ei, own, told, disconnected>>, r \in {Timeout, Error}
       PROVE  TransportInv' /\ ei' /\ ResumedAfter(r) /\ TellsNext
  <2>1. OwnType' /\ RefsBalanced' /\ View' /\ told' \in Seq(Replies) /\ ResumedAfter(r)
    BY <1>2, <1>12 DEF OwnType, RefsBalanced, View, LastToldIs, ResumedAfter, Timeout, Error,
                       Plain, Ev
  <2>2. OwnAt(ns)'
    BY <1>6, <1>12, VisibleKept DEF OwnAt, SeatIn, DeviceIn, LastIs
  <2>3. /\ Follows(pending, ns)' /\ Follows(queue, ns + Len(pending))'
        /\ Follows(socket, ns + Len(pending) + Len(queue))'
        /\ ns + Len(pending') + Len(queue') + Len(socket') = Len(sent')
    BY <1>3, <1>4, <1>12 DEF Follows
  <2>4. QueueInv'
    <3> QED BY <1>2, <1>3, <1>7, <1>12, <2>2, <2>3, QueueAfter
  <2>5. EndInv' /\ TellsNext
    BY <1>12 DEF EndInv, TellsNext
  <2> QED BY <1>1, <1>8, <1>12, <2>1, <2>4, <2>5
<1>13. CASE NothingPolled(r)
  BY <1>1, <1>12, <1>13 DEF NothingPolled, TellsNone, server
<1>14. CASE FromSocket(r) /\ AnyIn(socket)
  <2>1. /\ UNCHANGED <<sent, srv, ei>> /\ Tells(socket, r) /\ ~AnyIn(pending) /\ ~AnyIn(queue)
        /\ queue' = <<>> /\ socket' = <<>> /\ ~disconnected
    BY <1>14 DEF FromSocket
  <2>2. PICK k \in 1..Len(socket) :
          /\ OwnType' /\ RefsBalanced' /\ View' /\ told' \in Seq(Replies)
          /\ pending' \in Seq(ServerEvents) /\ Len(pending') = Len(socket) - k
          /\ Follows(pending, ns + k)' /\ OwnAt(ns + k)' /\ ResumedAfter(r)
          /\ EndInv' /\ TellsNext
    <3>1. ns + Len(socket) <= Len(sent)
      BY <1>3
    <3> QED BY <1>1, <1>2, <1>3, <1>4, <1>6, <1>14, <2>1, <3>1, TellsStep DEF ResumedAfter
  <2>3. /\ ns + k \in Nat /\ (ns + k) + Len(pending') = Len(sent) /\ Len(queue') = 0
        /\ Len(socket') = 0
    <3>1. Len(queue') = 0 /\ Len(socket') = 0
      BY <2>1
    <3>2. k \in Nat /\ Len(pending') = Len(socket) - k
      BY <1>3, <2>2
    <3> QED BY <1>3, <3>1, <3>2
  <2>4. /\ Follows(queue, ns + k + Len(pending))'
        /\ Follows(socket, ns + k + Len(pending) + Len(queue))'
        /\ queue' \in Seq(ServerEvents) /\ socket' \in Seq(ServerEvents)
    BY <2>1, <2>3 DEF Follows
  <2>5. QueueInv'
    <3>1. ns + k + Len(pending') + Len(queue') + Len(socket') = Len(sent')
      BY <1>0, <1>3, <2>1, <2>3
    <3> QED BY <1>2, <1>3, <1>7, <2>1, <2>2, <2>3, <2>4, <3>1, QueueAfter
  <2> QED BY <1>1, <1>8, <2>1, <2>2, <2>5
<1>15. CASE FromSocket(r) /\ ~AnyIn(socket)
  <2>1. /\ UNCHANGED <<sent, srv, ei, own, told, disconnected>>
        /\ ~AnyIn(pending) /\ ~AnyIn(queue)
        /\ pending' = <<>> /\ queue' = <<>> /\ socket' = <<>> /\ r = Timeout
    BY <1>15 DEF FromSocket, TellsNone
  <2>2. OwnType' /\ RefsBalanced' /\ View' /\ told' \in Seq(Replies) /\ ResumedAfter(r)
    BY <1>2, <2>1 DEF OwnType, RefsBalanced, View, LastToldIs, ResumedAfter, Timeout, Plain, Ev
  <2>3. OwnAt(Len(sent))
    <3>1. ns + Len(socket) <= Len(sent)
      BY <1>3
    <3> QED BY <1>2, <1>3, <1>4, <1>6, <1>15, <2>1, <3>1, UnseenIsNothing
  <2>4. /\ OwnAt(Len(sent))' /\ Len(pending') = 0 /\ Len(queue') = 0 /\ Len(socket') = 0
    BY <2>1, <2>3, VisibleKept DEF OwnAt, SeatIn, DeviceIn, LastIs
  <2>6. EndInv' /\ TellsNext
    BY <2>1 DEF EndInv, TellsNext
  <2>5. QueueInv'
    <3>1. /\ Follows(pending, Len(sent))' /\ Follows(queue, Len(sent) + Len(pending))'
          /\ Follows(socket, Len(sent) + Len(pending) + Len(queue))'
          /\ Passed' = Len(sent)
      BY <1>3, <2>1, <2>4 DEF Follows, Passed, Waiting
    <3>2. pending' \in Seq(ServerEvents) /\ queue' \in Seq(ServerEvents) /\ socket' \in Seq(ServerEvents)
      BY <2>1
    <3>3. Passed' = Len(sent') /\ Len(sent') \in Nat /\ Len(sent') = Len(sent)
      BY <1>3, <2>1, <3>1
    <3>4. /\ own'.seats = {s \in Seats : SeatIn(Passed, s)'}
          /\ own'.devices = {d \in Devices : DeviceIn(Passed, d)'}
          /\ Channel!Visible(Passed)' = Len(told')
      BY <2>4, <3>3 DEF OwnAt, SeatIn, DeviceIn, LastIs, Channel!Visible
    <3> QED BY <2>1, <2>4, <3>1, <3>2, <3>3, <3>4 DEF QueueInv, Follows
  <2> QED BY <1>1, <1>8, <2>1, <2>2, <2>5, <2>6
<1> QED BY <1>1, <1>9, <1>10, <1>11, <1>13, <1>14, <1>15 DEF WaitEvent

(* A dispatch moves what is in the socket behind libei's queue.            *)
LEMMA DispatchKeeps ==
  ASSUME TransportInv, Dispatch
  PROVE  TransportInv' /\ UNCHANGED native
<1> USE DEF TransportInv
<1>1. /\ ei /\ queue' = queue \o socket /\ socket' = <<>> /\ UNCHANGED native
      /\ UNCHANGED <<own, pending, ei, sent, srv, told, disconnected>>
  BY DEF Dispatch, native
<1>2. PICK n \in Nat :
      /\ n = Passed /\ Follows(pending, n) /\ Follows(queue, n + Len(pending))
      /\ Follows(socket, n + Len(pending) + Len(queue)) /\ OwnAt(n) /\ View
      /\ pending \in Seq(ServerEvents) /\ queue \in Seq(ServerEvents)
      /\ socket \in Seq(ServerEvents)
  BY <1>1, ViewIs DEF QueueInv, OwnAt
<1>3. /\ Len(pending) \in Nat /\ Len(queue) \in Nat /\ Len(socket) \in Nat /\ Len(sent) \in Nat
      /\ n + Len(pending) + Len(queue) + Len(socket) = Len(sent)
  BY <1>2 DEF Passed, Waiting, ServerType
<1>4. /\ queue' \in Seq(ServerEvents) /\ Len(queue') = Len(queue) + Len(socket) /\ Len(socket') = 0
      /\ \A i \in 1..Len(queue') :
           queue'[i] = IF i <= Len(queue) THEN queue[i] ELSE socket[i - Len(queue)]
  BY <1>1, <1>2, ConcatProperties
<1>5. /\ ServerType' /\ SentInv' /\ OwnAt(n)' /\ OwnType' /\ RefsBalanced' /\ ViewInStep'
      /\ EndInv'
  <2>1. ServerType' /\ SentInv' /\ OwnAt(n)'
    BY <1>1, <1>2, VisibleKept DEF ServerType, SentInv, SeatIn, DeviceIn, OwnAt
  <2>2. OwnType' /\ RefsBalanced' /\ ViewInStep' /\ EndInv'
    BY <1>1 DEF OwnType, RefsBalanced, ViewInStep, LastToldIs, EndInv
  <2> QED BY <2>1, <2>2
<1>6. Follows(queue, n + Len(pending))'
  <2>1. ASSUME NEW i \in 1..Len(queue') PROVE queue'[i] = sent'[n + Len(pending') + i]
    <3>1. CASE i <= Len(queue)
      <4>1. i \in 1..Len(queue) /\ queue'[i] = queue[i]
        BY <1>3, <1>4, <3>1
      <4> QED BY <1>1, <1>2, <4>1 DEF Follows
    <3>2. CASE i > Len(queue)
      <4>1. i - Len(queue) \in 1..Len(socket)
            /\ n + Len(pending) + Len(queue) + (i - Len(queue)) = n + Len(pending) + i
        BY <1>3, <1>4, <3>2
      <4> QED BY <1>1, <1>2, <1>4, <3>2, <4>1 DEF Follows
    <3> QED BY <1>3, <3>1, <3>2
  <2> QED BY <2>1 DEF Follows
<1>7. Follows(pending, n)' /\ Follows(socket, n + Len(pending) + Len(queue))'
  BY <1>1, <1>2, <1>4 DEF Follows
<1>8. QueueInv'
  <2>1. /\ n + Len(pending') + Len(queue') + Len(socket') = Len(sent')
        /\ pending' \in Seq(ServerEvents) /\ socket' \in Seq(ServerEvents)
    BY <1>1, <1>2, <1>3, <1>4
  <2> QED BY <1>4, <1>5, <1>6, <1>7, <2>1, QueueAfter
<1> QED BY <1>1, <1>5, <1>8

(* The server sends one more event, which waits in the socket.             *)
LEMMA SendKeeps ==
  ASSUME TransportInv, NEW e \in ServerEvents, ServerSends(e)
  PROVE  TransportInv' /\ UNCHANGED native
<1> USE DEF TransportInv
<1>1. /\ ei /\ sent' = Append(sent, e) /\ socket' = Append(socket, e) /\ srv' = After(e) /\ Lawful(e)
      /\ UNCHANGED native /\ UNCHANGED <<own, pending, ei, queue, told, disconnected>>
  BY DEF ServerSends, native
<1>2. /\ sent' \in Seq(ServerEvents) /\ Len(sent') = Len(sent) + 1 /\ Len(sent) \in Nat
      /\ sent'[Len(sent) + 1] = e /\ \A i \in 1..Len(sent) : sent'[i] = sent[i]
  BY <1>1 DEF ServerType
<1> DEFINE n == Len(sent)
<1>3. /\ e.kind \in SeatKinds => e.id \in Seats
      /\ e.kind \in DeviceKinds => e.id \in Devices
  BY EventFacts
<1>4. ASSUME NEW m \in 0..n, NEW kind, NEW x, NEW kinds
      PROVE  LastIs(sent', m, kind, x, kinds) <=> LastIs(sent, m, kind, x, kinds)
  <2>1. m \in Nat /\ \A i \in 1..m : sent'[i] = sent[i]
    BY <1>2
  <2> QED BY <2>1, LastKept
<1>5. ASSUME NEW kind, NEW x, NEW kinds, kind \in kinds
      PROVE  LastIs(sent', Len(sent'), kind, x, kinds) <=>
               IF e.id = x /\ e.kind \in kinds THEN e.kind = kind
               ELSE LastIs(sent, Len(sent), kind, x, kinds)
  <2>1. sent \in Seq(ServerEvents)
    BY DEF ServerType
  <2>2. LastIs(sent', Len(sent) + 1, kind, x, kinds) <=>
          IF e.id = x /\ e.kind \in kinds THEN e.kind = kind
          ELSE LastIs(sent, Len(sent), kind, x, kinds)
    BY <1>1, <1>5, <2>1, LastAppended
  <2> QED BY <1>2, <2>2
<1>6. ServerType'
  BY <1>1, <1>2, <1>3 DEF ServerType, After, SeatKinds, DeviceKinds
<1>7. srv'.seats = {s \in Seats : SeatIn(Len(sent), s)'}
  <2>1. ASSUME NEW s \in Seats
        PROVE  SeatIn(Len(sent), s)' <=> IF e.id = s /\ e.kind \in SeatKinds
                                         THEN e.kind = "seat_added" ELSE SeatIn(Len(sent), s)
    BY <1>5 DEF SeatIn, SeatKinds
  <2>2. srv'.seats = CASE e.kind = "seat_added" -> srv.seats \cup {e.id}
                       [] e.kind = "seat_removed" -> srv.seats \ {e.id}
                       [] OTHER -> srv.seats
    BY <1>1 DEF After, ServerType
  <2>3. srv.seats = {s \in Seats : SeatIn(Len(sent), s)}
    BY DEF SentInv
  <2> QED BY <1>3, <2>1, <2>2, <2>3 DEF SeatKinds
<1>8. ASSUME NEW d \in Devices
      PROVE  srv'.devices[d] \in {"paused", "resumed"} <=> DeviceIn(Len(sent), d)'
  <2>1. DeviceIn(Len(sent), d)' <=> IF e.id = d /\ e.kind \in Presence
                                    THEN e.kind = "device_added" ELSE DeviceIn(Len(sent), d)
    BY <1>5 DEF DeviceIn, Presence
  <2>2. srv.devices[d] \in {"paused", "resumed"} <=> DeviceIn(Len(sent), d)
    BY DEF SentInv
  <2>3. CASE e.id = d /\ e.kind \in DeviceKinds
    BY <1>1, <2>1, <2>2, <2>3 DEF After, Lawful, ServerType, DeviceKinds, Presence
  <2>4. CASE ~(e.id = d /\ e.kind \in DeviceKinds)
    <3>1. srv'.devices[d] = srv.devices[d]
      BY <1>1, <1>3, <2>4 DEF After, ServerType, DeviceKinds
    <3> QED BY <2>1, <2>2, <2>4, <3>1 DEF DeviceKinds, Presence
  <2> QED BY <2>3, <2>4
<1>9. ASSUME NEW m \in 1..Len(sent')
      PROVE  /\ sent'[m].kind = "seat_added" => ~SeatIn(m - 1, sent[m].id)'
             /\ sent'[m].kind = "device_added" => ~DeviceIn(m - 1, sent[m].id)'
             /\ sent'[m].kind = "resumed" => DeviceIn(m - 1, sent[m].id)'
  <2>1. CASE m \in 1..n
    <3>1. /\ sent[m].kind = "seat_added" => ~SeatIn(m - 1, sent[m].id)
          /\ sent[m].kind = "device_added" => ~DeviceIn(m - 1, sent[m].id)
          /\ sent[m].kind = "resumed" => DeviceIn(m - 1, sent[m].id)
      BY <2>1 DEF SentInv
    <3>2. sent'[m] = sent[m] /\ m - 1 \in 0..n
      BY <1>2, <2>1
    <3> QED BY <1>4, <3>1, <3>2 DEF SeatIn, DeviceIn
  <2>2. CASE m = n + 1
    <3>1. sent'[m] = e /\ m - 1 = n /\ n \in 0..n
      BY <1>2, <2>2
    <3>2. /\ e.kind = "seat_added" => ~SeatIn(n, e.id)
          /\ e.kind = "device_added" => ~DeviceIn(n, e.id)
          /\ e.kind = "resumed" => DeviceIn(n, e.id)
      BY <1>1, <1>3 DEF Lawful, SentInv, SeatKinds, DeviceKinds
    <3> QED BY <1>4, <3>1, <3>2 DEF SeatIn, DeviceIn
  <2> QED BY <1>2, <2>1, <2>2
<1>10. SentInv'
  BY <1>7, <1>8, <1>9 DEF SentInv
<1>11. OwnType' /\ RefsBalanced' /\ ViewInStep' /\ told' \in Seq(Replies) /\ EndInv'
  BY <1>1 DEF OwnType, RefsBalanced, ViewInStep, LastToldIs, EndInv
<1>12. PICK k \in Nat :
      /\ k = Passed /\ Follows(pending, k) /\ Follows(queue, k + Len(pending))
      /\ Follows(socket, k + Len(pending) + Len(queue)) /\ OwnAt(k)
      /\ pending \in Seq(ServerEvents) /\ queue \in Seq(ServerEvents)
      /\ socket \in Seq(ServerEvents)
  BY <1>1 DEF QueueInv, OwnAt
<1>13. /\ Len(pending) \in Nat /\ Len(queue) \in Nat /\ Len(socket) \in Nat
       /\ k + Len(pending) + Len(queue) + Len(socket) = Len(sent)
  BY <1>2, <1>12 DEF Passed, Waiting
<1>14. /\ socket' \in Seq(ServerEvents) /\ Len(socket') = Len(socket) + 1
       /\ socket'[Len(socket) + 1] = e /\ \A i \in 1..Len(socket) : socket'[i] = socket[i]
  BY <1>1, <1>12
<1>15. OwnAt(k)'
  <2>1. k \in 0..n
    BY <1>2, <1>13
  <2>2. Channel!Visible(k)' = Channel!Visible(k)
    <3>1. {i \in 1..k : Observable(sent'[i])} = {i \in 1..k : Observable(sent[i])}
      BY <1>2, <2>1
    <3> QED BY <3>1 DEF Channel!Visible
  <2> QED BY <1>1, <1>4, <1>12, <2>1, <2>2 DEF OwnAt, SeatIn, DeviceIn
<1>16. Follows(pending, k)' /\ Follows(queue, k + Len(pending))'
  <2>1. pending' = pending /\ queue' = queue
    BY <1>1
  <2>2. \A i \in 1..Len(pending) : k + i \in 1..Len(sent)
    BY <1>13
  <2>3. \A i \in 1..Len(queue) : k + Len(pending) + i \in 1..Len(sent)
    BY <1>13
  <2>4. \A i \in 1..Len(pending) : sent'[k + i] = sent[k + i]
    BY <1>2, <2>2
  <2>5. \A i \in 1..Len(queue) : sent'[k + Len(pending) + i] = sent[k + Len(pending) + i]
    BY <1>2, <2>3
  <2> QED BY <1>12, <2>1, <2>4, <2>5 DEF Follows
<1>17. Follows(socket, k + Len(pending) + Len(queue))'
  <2> PICK b \in Nat : b = k + Len(pending) + Len(queue)
    BY <1>12, <1>13
  <2>0. b + Len(socket) = Len(sent)
    BY <1>13
  <2>1. ASSUME NEW i \in 1..Len(socket') PROVE socket'[i] = sent'[b + i]
    <3>1. CASE i \in 1..Len(socket)
      <4>1. b + i \in 1..Len(sent)
        BY <1>2, <1>13, <2>0, <3>1
      <4> QED BY <1>2, <1>12, <1>14, <3>1, <4>1 DEF Follows
    <3>2. CASE i = Len(socket) + 1
      <4>1. b + i = Len(sent) + 1
        <5>1. Len(socket) \in Nat /\ Len(sent) \in Nat
          BY <1>2, <1>13
        <5> QED BY <2>0, <3>2, <5>1
      <4> QED BY <1>2, <1>14, <3>2, <4>1
    <3> QED BY <1>13, <1>14, <3>1, <3>2
  <2> QED BY <1>1, <2>1 DEF Follows
<1>18. QueueInv'
  <2>1. /\ k + Len(pending') + Len(queue') + Len(socket') = Len(sent')
        /\ pending' \in Seq(ServerEvents) /\ queue' \in Seq(ServerEvents)
    <3>1. Len(pending') = Len(pending) /\ Len(queue') = Len(queue)
      BY <1>1
    <3>2. Len(socket') = Len(socket) + 1 /\ Len(sent') = Len(sent) + 1
      BY <1>2, <1>14
    <3>3. k + Len(pending') + Len(queue') + Len(socket') = Len(sent')
      <4>1. Len(pending) \in Nat /\ Len(queue) \in Nat /\ Len(socket) \in Nat
        BY <1>13
      <4>2. k + Len(pending) + Len(queue) + (Len(socket) + 1) = Len(sent) + 1
        BY <1>13, <4>1
      <4> QED BY <3>1, <3>2, <4>2
    <3> QED BY <1>1, <1>12, <3>3
  <2> QED BY <1>6, <1>14, <1>15, <1>16, <1>17, <2>1, QueueAfter
<1> QED BY <1>1, <1>6, <1>10, <1>11, <1>18

LEMMA TransportStays ==
  ASSUME TransportInv, UNCHANGED transport
  PROVE  TransportInv'
<1>1. UNCHANGED <<own, pending, ei, queue, socket, sent, srv, told, disconnected>>
  BY DEF transport, native, server
<1>2. /\ OwnType' /\ RefsBalanced' /\ ServerType' /\ ViewInStep' /\ told' \in Seq(Replies)
      /\ EndInv'
  BY <1>1 DEF TransportInv, OwnType, RefsBalanced, ServerType, ViewInStep, LastToldIs, EndInv
<1>3. SentInv'
  BY <1>1 DEF TransportInv, SentInv, SeatIn, DeviceIn
<1>4. QueueInv'
  <2>1. Passed' = Passed /\ Channel!Visible(Passed)' = Channel!Visible(Passed)
    BY <1>1 DEF Passed, Waiting, Channel!Visible
  <2> QED BY <1>1, <2>1 DEF TransportInv, QueueInv, Follows, SeatIn, DeviceIn
<1> QED BY <1>2, <1>3, <1>4 DEF TransportInv

LEMMA BindKeeps ==
  ASSUME TransportInv, NEW s, BindCapabilities(s)
  PROVE  TransportInv' /\ UNCHANGED native
<1>1. /\ s \in own.seats /\ srv' = [srv EXCEPT !.bound = @ \cup {s}]
      /\ UNCHANGED <<own, pending, ei, queue, socket, sent, told, disconnected>>
      /\ UNCHANGED native
  BY DEF BindCapabilities, native
<1>2. OwnType' /\ RefsBalanced' /\ ViewInStep' /\ told' \in Seq(Replies) /\ EndInv'
  BY <1>1 DEF TransportInv, OwnType, RefsBalanced, ViewInStep, LastToldIs, EndInv
<1>3. /\ srv'.seats = srv.seats /\ srv'.devices = srv.devices /\ ServerType'
  BY <1>1 DEF TransportInv, ServerType, OwnType
<1>4. SentInv'
  BY <1>1, <1>3 DEF TransportInv, SentInv, SeatIn, DeviceIn
<1>5. QueueInv'
  <2>1. Passed' = Passed /\ Channel!Visible(Passed)' = Channel!Visible(Passed)
    BY <1>1 DEF Passed, Waiting, Channel!Visible
  <2> QED BY <1>1, <2>1 DEF TransportInv, QueueInv, Follows, SeatIn, DeviceIn
<1> QED BY <1>1, <1>2, <1>3, <1>4, <1>5 DEF TransportInv

LEMMA NobodyAtFirst ==
  ASSUME NEW q, NEW kind, NEW x, NEW kinds
  PROVE  ~LastIs(q, 0, kind, x, kinds)
BY DEF LastIs

Untouched ==
  /\ Pristine /\ ServerType /\ srv.seats = {} /\ (ei => disconnected = FALSE)
  /\ \A d \in Devices : srv.devices[d] \notin {"paused", "resumed"}

LEMMA PristineHolds == Untouched => TransportInv
<1> SUFFICES ASSUME Untouched PROVE TransportInv
  OBVIOUS
<1> USE DEF Untouched
<1>1. Len(sent) = 0 /\ Len(told) = 0 /\ Passed = 0
  <2>1. /\ Len(sent) = 0 /\ Len(told) = 0 /\ Len(pending) = 0 /\ Len(queue) = 0
        /\ Len(socket) = 0
    BY DEF Pristine
  <2> QED BY <2>1 DEF Passed, Waiting
<1>2. OwnType /\ told \in Seq(Replies) /\ own.seats = {} /\ own.devices = {} /\ own.resumed = {}
  BY DEF Pristine, NoOwners, OwnType
<1>3. RefsBalanced
  BY OwnersCount DEF Pristine, NoOwners, RefsBalanced, Owns
<1>4. \A s : ~SeatIn(0, s) /\ ~DeviceIn(0, s)
  BY NobodyAtFirst DEF SeatIn, DeviceIn
<1>5. ViewInStep
  BY <1>1, <1>2, NobodyAtFirst DEF ViewInStep, LastToldIs
<1>6. SentInv
  BY <1>1, <1>4 DEF SentInv
<1>7. QueueInv
  <2>1. /\ Follows(pending, Passed) /\ Follows(queue, Passed + Len(pending))
        /\ Follows(socket, Passed + Len(pending) + Len(queue))
    BY DEF Pristine, Follows
  <2>2. Channel!Visible(Passed) = 0
    <3>1. {i \in 1..0 : Observable(sent[i])} = {}
      OBVIOUS
    <3> QED BY <1>1, <3>1, FS_EmptySet, ChannelCounts
  <2> QED BY <1>1, <1>2, <1>4, <2>1, <2>2 DEF QueueInv, Pristine
<1>8. EndInv
  BY DEF EndInv, Pristine
<1> QED BY <1>2, <1>3, <1>5, <1>6, <1>7, <1>8 DEF TransportInv

LEMMA ConnectKeeps ==
  ASSUME TransportInv, Pristine, UNCHANGED <<own, pending, queue, server, told>>,
         ei' => disconnected' = FALSE
  PROVE  TransportInv' /\ Pristine'
<1>1. Pristine' /\ ServerType' /\ UNCHANGED srv
  BY DEF Pristine, TransportInv, ServerType, server
<1>2. srv.seats = {} /\ \A d \in Devices : srv.devices[d] \notin {"paused", "resumed"}
  <2>1. Len(sent) = 0
    BY DEF Pristine
  <2> QED BY <2>1, NobodyAtFirst DEF TransportInv, SentInv, SeatIn, DeviceIn
<1>3. Untouched'
  BY <1>1, <1>2 DEF Untouched
<1>4. Untouched' => TransportInv'
  BY PristineHolds, PTL
<1> QED BY <1>1, <1>3, <1>4

(* The owners of a transport that is torn down give back all they hold.    *)
LEMMA TeardownKeeps ==
  ASSUME TransportInv, Teardown, UNCHANGED <<server, told>>
  PROVE  TransportInv' /\ ~ei'
<1>1. /\ own' = TornDown(own) /\ pending' = <<>> /\ queue' = <<>> /\ ~ei'
      /\ UNCHANGED <<sent, srv, socket, told>>
  BY DEF Teardown, server
<1>2. own' = NoOwners
  <2>1. \A x \in Objects : own.refs[x] - Owners(own, x) = 0
    <3> TAKE x \in Objects
    <3>1. own.refs[x] = Owners(own, x) /\ own.refs[x] \in Int
      BY DEF TransportInv, RefsBalanced, OwnType
    <3> QED BY <3>1
  <2>2. own' = [NoOwners EXCEPT !.refs = [x \in Objects |-> own.refs[x] - Owners(own, x)]]
    BY <1>1 DEF TornDown
  <2>3. [x \in Objects |-> own.refs[x] - Owners(own, x)] = [o \in Objects |-> 0]
    BY <2>1
  <2> QED BY <2>2, <2>3 DEF NoOwners
<1>3. OwnType' /\ RefsBalanced'
  BY <1>2, OwnersCount DEF NoOwners, OwnType, RefsBalanced, Owns
<1>4. ServerType' /\ SentInv' /\ told' \in Seq(Replies)
  BY <1>1 DEF TransportInv, ServerType, SentInv, SeatIn, DeviceIn
<1>5. QueueInv' /\ ViewInStep' /\ EndInv'
  BY <1>1 DEF TransportInv, QueueInv, ViewInStep, EndInv
<1> QED BY <1>1, <1>3, <1>4, <1>5 DEF TransportInv

LEMMA DisconnectKeeps ==
  ASSUME TransportInv, DisconnectTransport, ei => inner
  PROVE  TransportInv' /\ ~ei'
<1>1. CASE inner /\ ~(disconnected /\ ~ei)
  BY <1>1, TeardownKeeps DEF DisconnectTransport
<1>2. CASE ~(inner /\ ~(disconnected /\ ~ei))
  <2>1. UNCHANGED transport /\ ~ei
    BY <1>2 DEF DisconnectTransport
  <2> QED BY <2>1, TransportStays DEF transport, native
<1> QED BY <1>1, <1>2

-----------------------------------------------------------------------------
(* The requests of the portal                                              *)

LEMMA MethodFacts ==
  /\ ToSet(Methods) = {"CreateSession", "SelectDevices", "Start"}
  /\ \A m \in ToSet(Methods) : m # "none" /\ Following(m) \notin Early
<1>1. ToSet(Methods) = {"CreateSession", "SelectDevices", "Start"}
  BY DEF ToSet, Methods
<1> QED BY <1>1 DEF Following, Early

LEMMA SubscribeKeeps ==
  ASSUME PortalInv, NEW method \in ToSet(Methods), pc = method, pc' = "asking", Subscribe(method)
  PROVE  PortalInv' /\ request'.stage # "none"
<1>1. /\ request = NoRequest
      /\ request' = [method |-> method, token |-> counter + 1, stage |-> "subscribed"]
      /\ counter' = counter + (IF method = "CreateSession" THEN 2 ELSE 1) /\ inbox' = {}
      /\ UNCHANGED <<handle, asked, alive, orphaned>>
  BY DEF Subscribe, portalv
<1>2. counter \in Nat /\ method # "none"
  BY MethodFacts DEF PortalInv, PortalType
<1>3. PortalType'
  <2>1. counter' \in Nat /\ counter + 1 \in 0..counter' /\ 1..counter \subseteq 1..counter'
    BY <1>1, <1>2
  <2>2. request' \in [method : ToSet(Methods) \cup {"none"}, token : 0..counter', stage : RequestStages]
    BY <1>1, <2>1 DEF RequestStages
  <2>3. request'.stage # "none"
    BY <1>1
  <2>4. asked' \subseteq Requests /\ \A r \in asked' : r.token \in 1..counter'
    BY <1>1, <2>1 DEF PortalInv, PortalType
  <2> QED BY <2>1, <2>2, <2>3, <2>4 DEF PortalType
<1>4. RequestInv'
  BY <1>1, <1>2 DEF PortalInv, PortalType, RequestInv
<1>5. SessionInv'
  <2>1. CASE method = "CreateSession"
    <3>1. asked = {} /\ alive = {} /\ handle = 0
      BY <2>1 DEF PortalInv, SessionInv, Early
    <3> QED BY <1>1, <3>1 DEF SessionInv, SessionsKnown, Early
  <2>2. CASE method # "CreateSession"
    <3>1. request.method = "none" /\ request.token = 0
      BY <1>1 DEF NoRequest
    <3>2. \A r \in asked : r.method = "CreateSession" => SessionToken(r.token) \in orphaned
      BY <3>1 DEF PortalInv, SessionInv, Current
    <3>3. alive \subseteq {handle} \cup orphaned
      BY <3>1 DEF PortalInv, SessionInv, SessionsKnown
    <3>4. 0 \notin alive /\ request'.method # "CreateSession" /\ pc' \notin Early
      BY <1>1, <2>2 DEF PortalInv, SessionInv, Early
    <3> QED BY <1>1, <3>2, <3>3, <3>4 DEF SessionInv, SessionsKnown
  <2> QED BY <2>1, <2>2
<1> QED BY <1>1, <1>3, <1>4, <1>5 DEF PortalInv

LEMMA ArrivalKeeps ==
  ASSUME PortalInv, pc \notin Early, UNCHANGED pc, CallArrives
  PROVE  PortalInv' /\ request'.stage # "none"
<1>1. /\ request.stage = "subscribed" /\ request' = [request EXCEPT !.stage = "called"]
      /\ asked' = asked \cup {Current}
      /\ UNCHANGED <<counter, inbox, handle, alive, orphaned>>
  BY DEF CallArrives, Current
<1>2. /\ request'.stage = "called" /\ request'.method = request.method
      /\ request'.token = request.token /\ Current' = Current
  BY <1>1 DEF PortalInv, PortalType, Current
<1>3. /\ inbox = {} /\ \A r \in asked : r.token # request.token
      /\ request.method # "none" /\ request.token > 0
      /\ request.token \in 0..counter /\ request.method \in ToSet(Methods) \cup {"none"}
  BY <1>1 DEF PortalInv, PortalType, RequestInv
<1>4. PortalType'
  <2>1. request' \in [method : ToSet(Methods) \cup {"none"}, token : 0..counter', stage : RequestStages]
    BY <1>1 DEF PortalInv, PortalType, RequestStages
  <2>2. Current \in Requests /\ Current.token \in 1..counter
    BY <1>3 DEF Current, Requests, PortalInv, PortalType
  <2> QED BY <1>1, <1>2, <2>1, <2>2 DEF PortalInv, PortalType
<1>5. RequestInv'
  <2>1. Current.token = request.token
    BY DEF Current
  <2> QED BY <1>1, <1>2, <1>3, <2>1 DEF RequestInv
<1>6. SessionInv'
  <2>1. Current.method = request.method /\ Current.token = request.token
    BY DEF Current
  <2> QED BY <1>1, <1>2, <1>3, <2>1 DEF PortalInv, SessionInv, SessionsKnown
<1> QED BY <1>2, <1>4, <1>5, <1>6 DEF PortalInv

LEMMA ReturnKeeps ==
  ASSUME PortalInv, pc \notin Early, UNCHANGED pc, CallReturns
  PROVE  PortalInv' /\ request'.stage # "none"
<1>1. /\ request.stage = "called" /\ request' = [request EXCEPT !.stage = "waiting"]
      /\ UNCHANGED <<counter, inbox, handle, asked, alive, orphaned>>
  BY DEF CallReturns, portalv
<1>2. /\ request'.stage = "waiting" /\ request'.method = request.method
      /\ request'.token = request.token /\ Current' = Current
  BY <1>1 DEF PortalInv, PortalType, Current
<1>3. PortalType'
  <2>1. request' \in [method : ToSet(Methods) \cup {"none"}, token : 0..counter', stage : RequestStages]
    BY <1>1 DEF PortalInv, PortalType, RequestStages
  <2> QED BY <1>1, <1>2, <2>1 DEF PortalInv, PortalType
<1>4. RequestInv'
  BY <1>1, <1>2 DEF PortalInv, RequestInv
<1>5. SessionInv'
  BY <1>1, <1>2 DEF PortalInv, SessionInv, SessionsKnown
<1> QED BY <1>2, <1>3, <1>4, <1>5 DEF PortalInv

LEMMA OverKeeps ==
  ASSUME PortalInv, pc' \notin Early, request' = NoRequest, inbox' = {},
         UNCHANGED <<counter, asked>>, 0 \notin alive',
         alive' \subseteq {handle'} \cup orphaned',
         \A r \in asked : r.method = "CreateSession" => SessionToken(r.token) \in orphaned'
  PROVE  PortalInv' /\ request'.stage = "none"
<1>1. request'.method = "none" /\ request'.token = 0 /\ request'.stage = "none"
  BY DEF NoRequest
<1>2. PortalType'
  <2>1. request' \in [method : ToSet(Methods) \cup {"none"}, token : 0..counter', stage : RequestStages]
    BY DEF NoRequest, RequestStages, PortalInv, PortalType
  <2> QED BY <2>1 DEF PortalInv, PortalType
<1>3. RequestInv'
  BY <1>1 DEF RequestInv
<1>4. SessionInv'
  BY <1>1 DEF SessionInv, SessionsKnown
<1> QED BY <1>1, <1>2, <1>3, <1>4 DEF PortalInv

LEMMA FailureKeeps ==
  ASSUME PortalInv, pc' \notin Early, CallFails
  PROVE  PortalInv' /\ request'.stage = "none"
<1>1. /\ request.stage = "subscribed" /\ request' = NoRequest /\ inbox' = {}
      /\ UNCHANGED <<counter, handle, asked, alive, orphaned>>
  BY DEF CallFails, portalv
<1>2. inbox = {} /\ \A r \in asked : r.token # request.token
  BY <1>1 DEF PortalInv, RequestInv
<1>3. \A r \in asked : r.method = "CreateSession" => SessionToken(r.token) \in orphaned
  BY <1>2 DEF PortalInv, SessionInv, Current
<1>4. alive \subseteq {handle} \cup orphaned
  BY <1>2 DEF PortalInv, SessionInv, SessionsKnown
<1>5. 0 \notin alive'
  BY <1>1 DEF PortalInv, SessionInv
<1> QED BY <1>1, <1>3, <1>4, <1>5, OverKeeps

LEMMA GivingUpKeeps ==
  ASSUME PortalInv, pc' \notin Early, GivesUp
  PROVE  PortalInv' /\ request'.stage = "none"
<1>1. /\ request.stage = "waiting" /\ request' = NoRequest /\ inbox' = {}
      /\ orphaned' = IF request.method = "CreateSession"
                     THEN orphaned \cup {SessionToken(request.token)} ELSE orphaned
      /\ UNCHANGED <<counter, handle, asked, alive>>
  BY DEF GivesUp, portalv
<1>2. \A r \in asked : r.method = "CreateSession" => SessionToken(r.token) \in orphaned'
  BY <1>1 DEF PortalInv, SessionInv, Current
<1>3. alive' \subseteq {handle'} \cup orphaned'
  BY <1>1 DEF PortalInv, SessionInv, SessionsKnown
<1>4. 0 \notin alive'
  BY <1>1 DEF PortalInv, SessionInv
<1> QED BY <1>1, <1>2, <1>3, <1>4, OverKeeps

LEMMA UndecodedGivesUp == Undecoded => GivesUp
BY DEF Undecoded, GivesUp

LEMMA AnswerTakenKeeps ==
  ASSUME PortalInv, pc' \notin Early, NEW code, TakeAnswer(code)
  PROVE  PortalInv' /\ request'.stage = "none" /\ request.method \in ToSet(Methods)
<1>1. PICK a \in inbox :
        /\ a.code = code
        /\ handle' = IF request.method = "CreateSession" /\ code = "ok"
                     THEN SessionToken(a.token) ELSE handle
  BY DEF TakeAnswer
<1>2. /\ request.stage = "waiting" /\ request' = NoRequest /\ inbox' = {}
      /\ UNCHANGED <<counter, asked, alive, orphaned>>
  BY DEF TakeAnswer, portalv
<1>3. /\ a.token = request.token /\ Current \notin asked /\ request.method # "none"
      /\ \A b \in inbox : b = a
  BY <1>1, <1>2 DEF PortalInv, RequestInv
<1>4. \A r \in asked : r.method = "CreateSession" => SessionToken(r.token) \in orphaned'
  BY <1>2, <1>3 DEF PortalInv, SessionInv
<1>5. alive' \subseteq {handle'} \cup orphaned'
  <2>1. CASE request.method # "CreateSession"
    BY <1>1, <1>2, <2>1 DEF PortalInv, SessionInv, SessionsKnown
  <2>2. CASE request.method = "CreateSession" /\ code = "ok"
    BY <1>1, <1>2, <1>3, <2>2 DEF PortalInv, SessionInv, SessionsKnown
  <2>3. CASE request.method = "CreateSession" /\ code # "ok"
    BY <1>1, <1>2, <1>3, <2>3 DEF PortalInv, SessionInv, SessionsKnown
  <2> QED BY <2>1, <2>2, <2>3
<1>6. request.method \in ToSet(Methods)
  BY <1>3 DEF PortalInv, PortalType
<1>7. 0 \notin alive'
  BY <1>2 DEF PortalInv, SessionInv
<1> QED BY <1>2, <1>4, <1>5, <1>6, <1>7, OverKeeps

LEMMA AnswerKeeps ==
  ASSUME PortalInv, UNCHANGED pc, NEW r \in asked, NEW code, Answers(r, code)
  PROVE  PortalInv' /\ UNCHANGED request
<1>1. /\ asked' = asked \ {r}
      /\ alive' = IF r.method = "CreateSession" /\ code = "ok"
                  THEN alive \cup {SessionToken(r.token)} ELSE alive
      /\ inbox' = IF Listening(r.token)
                  THEN inbox \cup {[token |-> r.token, code |-> code]} ELSE inbox
      /\ UNCHANGED <<counter, request, handle, orphaned>>
  BY DEF Answers
<1>2. PortalType'
  BY <1>1 DEF PortalInv, PortalType
<1>3. r \in Requests /\ r.token \in 1..counter /\ Current' = Current
  BY <1>1 DEF PortalInv, PortalType, Current
<1>4. 0 \notin alive' /\ pc \notin Early
  <2>1. SessionToken(r.token) # 0
    BY <1>3 DEF SessionToken, PortalInv, PortalType
  <2> QED BY <1>1, <2>1 DEF PortalInv, SessionInv
<1>5. CASE r = Current /\ request.stage # "none"
  <2>1. /\ r.token = request.token /\ r.method = request.method /\ Listening(r.token)
    BY <1>5 DEF Current, Listening
  <2>2. request.stage \in {"called", "waiting"} /\ inbox = {}
    BY <1>5, <2>1 DEF PortalInv, PortalType, RequestInv, RequestStages
  <2>3. PICK a : a = [token |-> request.token, code |-> code] /\ inbox' = {a}
    BY <1>1, <2>1, <2>2
  <2>4. a.token = request.token /\ a.code = code
    BY <2>3
  <2>5. \A q \in asked : q.token = request.token => q = Current
    BY <2>2 DEF PortalInv, RequestInv
  <2>6. RequestInv'
    <3>1. request.method # "none" /\ request.token > 0
      BY <2>2 DEF PortalInv, RequestInv
    <3>2. Current \notin asked' /\ inbox' # {}
      BY <1>1, <1>5, <2>3
    <3> QED BY <1>1, <1>3, <2>2, <2>3, <2>4, <2>5, <3>1, <3>2 DEF RequestInv
  <2>7. SessionsKnown'
    BY <1>1, <2>1 DEF PortalInv, SessionInv, SessionsKnown
  <2>8. ASSUME request.method = "CreateSession"
        PROVE  /\ handle' = 0 /\ asked' \subseteq {Current}
               /\ alive' # {} => \E b \in inbox' : b.code = "ok"
    <3>1. handle = 0 /\ alive = {} /\ asked \subseteq {Current}
      BY <2>2, <2>8 DEF PortalInv, SessionInv
    <3> QED BY <1>1, <2>1, <2>3, <2>4, <3>1
  <2>9. \A q \in asked' : q.method = "CreateSession" =>
          q = Current \/ SessionToken(q.token) \in orphaned'
    BY <1>1 DEF PortalInv, SessionInv
  <2> QED BY <1>1, <1>2, <1>3, <1>4, <2>6, <2>7, <2>8, <2>9 DEF PortalInv, SessionInv
<1>6. CASE ~(r = Current /\ request.stage # "none")
  <2>1. ~Listening(r.token) /\ r # Current
    <3>1. request.stage = "none" => request.token = 0 /\ Current.token = 0
      BY DEF PortalInv, PortalType, NoRequest, Current
    <3>2. r # Current
      BY <1>3, <1>6, <3>1
    <3>3. request.stage # "none" => r.token # request.token
      BY <3>2 DEF PortalInv, PortalType, RequestInv, RequestStages
    <3> QED BY <3>2, <3>3 DEF Listening
  <2>2. RequestInv'
    BY <1>1, <1>3, <2>1 DEF PortalInv, RequestInv
  <2>3. request.method # "CreateSession"
    BY <2>1 DEF PortalInv, SessionInv
  <2>4. r.method = "CreateSession" => SessionToken(r.token) \in orphaned
    BY <2>1 DEF PortalInv, SessionInv
  <2>5. SessionsKnown'
    BY <1>1, <2>3, <2>4 DEF PortalInv, SessionInv, SessionsKnown
  <2>6. SessionInv'
    BY <1>1, <1>3, <1>4, <2>3, <2>5 DEF PortalInv, SessionInv
  <2> QED BY <1>1, <1>2, <2>2, <2>6 DEF PortalInv
<1> QED BY <1>5, <1>6

LEMMA CloseKeeps ==
  ASSUME PortalInv, request.stage = "none", pc' \notin Early, NEW ok, CloseSession(ok)
  PROVE  PortalInv' /\ UNCHANGED request
<1>1. /\ handle' = 0 /\ alive' = (IF ok THEN alive \ {handle} ELSE alive)
      /\ orphaned' = (IF ok THEN orphaned ELSE orphaned \cup {handle})
      /\ UNCHANGED <<counter, request, inbox, asked>>
  BY DEF CloseSession
<1>2. request = NoRequest /\ request.method = "none" /\ inbox = {}
  BY DEF PortalInv, PortalType, RequestInv, NoRequest
<1>3. alive \subseteq {handle} \cup orphaned
  BY <1>2 DEF PortalInv, SessionInv, SessionsKnown
<1>4. \A r \in asked : r.method = "CreateSession" => SessionToken(r.token) \in orphaned
  <2>1. request.token = 0
    BY <1>2 DEF NoRequest
  <2> QED BY <1>2, <2>1 DEF PortalInv, PortalType, SessionInv, Current
<1>5. 0 \notin alive'
  BY <1>1 DEF PortalInv, SessionInv
<1> QED BY <1>1, <1>2, <1>3, <1>4, <1>5, OverKeeps

LEMMA PortalStays ==
  ASSUME PortalInv, UNCHANGED portalVars, pc' \in Early => pc \in Early
  PROVE  PortalInv' /\ UNCHANGED request
<1>1. UNCHANGED <<counter, request, inbox, handle, asked, alive, orphaned>>
  BY DEF portalVars, client, portalv
<1> QED BY <1>1 DEF PortalInv, PortalType, RequestInv, SessionInv, SessionsKnown, Current

-----------------------------------------------------------------------------
(* The session                                                             *)

BackendInv ==
  ControlInv /\ PortalInv /\ TransportInv /\ DescriptorInv /\ PristineInv /\ ActiveInv

LEMMA PhaseFacts ==
  /\ Early \subseteq Unconnected /\ Emulation \subseteq Listens
  /\ \A p \in Unconnected : p \notin Listens /\ p \notin {"asking", "release", "close", "stopped"}
  /\ \A p \in Listens : p \notin {"asking", "release", "close", "stopped"}
BY DEF Early, Unconnected, Emulation, Listens

(* The session's owner moves on, and nothing else happens to the parts.    *)
LEMMA QuietKeeps ==
  ASSUME BackendInv, UNCHANGED <<transport, portalVars, batch>>, pc # "asking",
         pc' \in Phases \ {"asking", "pump", "connect"},
         pc' \in Early => pc \in Early, pc' \in Unconnected => pc \in Unconnected,
         pc' \in Listens => pc \in Listens, pc' \in {"close", "stopped"} => ~ei,
         pc' \in Emulation => st' = "Emulating" /\ device' \in own.resumed
  PROVE  BackendInv'
<1> USE DEF BackendInv
<1>1. TransportInv' /\ PortalInv' /\ UNCHANGED request
  BY TransportStays, PortalStays
<1>2. UNCHANGED <<inner, fd, ei, own, pending, queue, socket, sent, told>>
  BY DEF transport, native, server
<1>3. ControlInv'
  BY <1>1 DEF ControlInv
<1>4. DescriptorInv'
  BY <1>2 DEF DescriptorInv
<1>5. PristineInv'
  BY <1>2 DEF PristineInv, Pristine
<1>6. ActiveInv'
  BY <1>2 DEF ActiveInv
<1> QED BY <1>1, <1>3, <1>4, <1>5, <1>6

LEMMA StandingKeeps ==
  ASSUME BackendInv, UNCHANGED <<transport, portalVars, sink, pc, batch, then>>
  PROVE  BackendInv'
<1> USE DEF BackendInv
<1>1. TransportInv' /\ PortalInv' /\ UNCHANGED request
  BY TransportStays, PortalStays
<1>2. UNCHANGED <<inner, fd, ei, own, pending, queue, socket, sent, told, st, device, seat>>
  BY DEF transport, native, server, sink
<1>3. ControlInv' /\ DescriptorInv' /\ PristineInv'
  BY <1>1, <1>2 DEF ControlInv, DescriptorInv, PristineInv, Pristine
<1>4. ActiveInv'
  BY <1>2 DEF ActiveInv, Interrupts
<1> QED BY <1>1, <1>3, <1>4

(* The steps that change the portal's requests only.                       *)
LEMMA RequestStep ==
  ASSUME BackendInv, UNCHANGED <<transport, batch>>, PortalInv', pc' \in Phases,
         pc' = "asking" <=> request'.stage # "none",
         pc \in Unconnected \cup {"asking"}, pc' \notin Listens \cup {"connect"}
  PROVE  BackendInv'
<1> USE DEF BackendInv
<1>1. UNCHANGED <<inner, fd, ei, own, pending, queue, socket, sent, told>>
  BY DEF transport, native, server
<1>2. ControlInv'
  BY PhaseFacts DEF ControlInv, Listens
<1>3. DescriptorInv'
  BY <1>1 DEF DescriptorInv
<1>4. PristineInv'
  BY <1>1 DEF PristineInv, Pristine
<1>5. ActiveInv'
  BY PhaseFacts DEF ActiveInv, Listens
<1> QED BY <1>2, <1>3, <1>4, <1>5, TransportStays

LEMMA AskStep ==
  ASSUME BackendInv, Ask
  PROVE  BackendInv'
<1>1. pc \in ToSet(Methods) /\ Subscribe(pc) /\ pc' = "asking" /\ UNCHANGED <<transport, batch>>
  BY DEF Ask, Goto
<1>2. PortalInv' /\ request'.stage # "none"
  BY <1>1, SubscribeKeeps DEF BackendInv
<1>3. pc \in Unconnected /\ pc' \in Phases /\ pc' \notin Listens \cup {"connect"}
  BY <1>1, MethodFacts DEF Early, Unconnected, Phases, Listens, Emulation
<1> QED BY <1>1, <1>2, <1>3, RequestStep

LEMMA RoundStep ==
  ASSUME BackendInv, Round
  PROVE  BackendInv'
<1> USE DEF BackendInv
<1>1. /\ pc = "asking" /\ UNCHANGED <<transport, batch>> /\ pc \notin Early
      /\ pc \in Phases /\ "release" \in Phases /\ "release" \notin Early
      /\ "release" \notin Listens \cup {"connect"} /\ pc \notin Listens \cup {"connect"}
  BY DEF Round, Goto, Early, Phases, Unconnected, Listens, Emulation
<1>2. CASE CallArrives /\ Goto(pc)
  BY <1>1, <1>2, ArrivalKeeps, RequestStep DEF Goto
<1>3. CASE CallReturns /\ Goto(pc)
  BY <1>1, <1>3, ReturnKeeps, RequestStep DEF Goto
<1>4. CASE CallFails /\ Goto("release")
  BY <1>1, <1>4, FailureKeeps, RequestStep DEF Goto
<1>5. CASE (GivesUp \/ Undecoded) /\ Goto("release")
  BY <1>1, <1>5, UndecodedGivesUp, GivingUpKeeps, RequestStep DEF Goto
<1>6. ASSUME NEW code \in Codes, TakeAnswer(code),
             Goto(IF code = "ok" THEN Following(request.method) ELSE "release")
      PROVE  BackendInv'
  <2>1. request.method \in ToSet(Methods)
    <3>1. request.stage # "none"
      BY <1>6 DEF TakeAnswer
    <3> QED BY <3>1 DEF PortalInv, PortalType, RequestInv
  <2>2. Following(request.method) \in {"SelectDevices", "Start", "authorized"}
    BY <2>1, MethodFacts DEF Following
  <2>3. pc' \in {"SelectDevices", "Start", "authorized", "release"}
    BY <1>6, <2>2 DEF Goto
  <2>4. /\ pc' \in Phases /\ pc' \notin Early /\ pc' \notin Listens \cup {"connect"}
        /\ pc' # "asking"
    BY <2>3 DEF Early, Phases, Unconnected, Listens, Emulation
  <2>5. PortalInv' /\ request'.stage = "none"
    BY <1>6, <2>4, AnswerTakenKeeps
  <2> QED BY <1>1, <2>4, <2>5, RequestStep
<1> QED BY <1>2, <1>3, <1>4, <1>5, <1>6 DEF Round

LEMMA ConnectToEisStep ==
  ASSUME BackendInv, ConnectToEis
  PROVE  BackendInv'
<1> USE DEF BackendInv
<1>1. /\ pc = "eis" /\ UNCHANGED <<inner, ei, own, pending, queue, server, told, batch, portalVars>>
      /\ (pc' = "connect" /\ fd' = "portal") \/ (pc' = "release" /\ fd' = fd)
  <2>1. pc = "eis" /\ UNCHANGED <<inner, ei, own, pending, queue, server, told, portalVars>>
    BY DEF ConnectToEis
  <2>2. CASE fd' = "portal" /\ Goto("connect")
    BY <2>1, <2>2 DEF Goto
  <2>3. CASE fd' = fd /\ Goto("release")
    BY <2>1, <2>3 DEF Goto
  <2> QED BY <2>2, <2>3 DEF ConnectToEis
<1>2. /\ pc \in Unconnected /\ pc \notin Early /\ pc' \notin Early /\ pc' \in Phases
      /\ pc' \notin Listens
  BY <1>1 DEF Early, Unconnected, Phases, Listens, Emulation
<1>3. TransportInv' /\ Pristine'
  BY <1>1, <1>2, ConnectKeeps DEF PristineInv, DescriptorInv
<1>4. PortalInv' /\ UNCHANGED request
  BY <1>1, <1>2, PortalStays
<1>5. ControlInv'
  BY <1>1, <1>2, <1>4 DEF ControlInv
<1>6. DescriptorInv'
  BY <1>1, <1>2 DEF DescriptorInv
<1>7. ActiveInv'
  BY <1>1, <1>2, PhaseFacts DEF ActiveInv
<1> QED BY <1>3, <1>4, <1>5, <1>6, <1>7 DEF PristineInv

LEMMA ConnectTransportStep ==
  ASSUME BackendInv, ConnectTransport
  PROVE  BackendInv'
<1> USE DEF BackendInv
<1>1. /\ pc = "connect" /\ pc \in Unconnected /\ UNCHANGED <<portalVars, batch>>
      /\ pc \notin Early /\ "handshake" \in Listens
      /\ "handshake" \notin Early \cup Unconnected \cup Emulation
      /\ "handshake" \in Phases /\ "release" \in Phases
      /\ "release" \notin Listens \cup Unconnected \cup Early
  BY DEF ConnectTransport, Goto, Unconnected, Early, Listens, Emulation, Phases
<1>2. Pristine /\ ~ei /\ ~inner /\ fd = "portal"
  BY <1>1 DEF PristineInv, DescriptorInv
<1>3. CASE Connected /\ Goto("handshake")
  <2>1. /\ inner' /\ fd' = "libei" /\ ei' /\ pc' = "handshake" /\ disconnected' = FALSE
        /\ UNCHANGED <<own, pending, queue, server, told>>
    BY <1>3 DEF Connected, Goto
  <2>2. TransportInv' /\ PortalInv' /\ UNCHANGED request
    BY <1>1, <1>2, <2>1, ConnectKeeps, PortalStays
  <2>3. ControlInv' /\ DescriptorInv' /\ PristineInv' /\ ActiveInv'
    BY <1>1, <2>1, <2>2 DEF ControlInv, DescriptorInv, PristineInv, ActiveInv
  <2> QED BY <2>2, <2>3
<1>4. CASE NoSender /\ Goto("release")
  <2>1. /\ inner' /\ fd' = "closed" /\ ~ei' /\ pc' = "release"
        /\ UNCHANGED <<own, pending, queue, server, told>>
    BY <1>2, <1>4 DEF NoSender, Closed, Goto
  <2>2. TransportInv' /\ PortalInv' /\ UNCHANGED request
    BY <1>1, <1>2, <2>1, ConnectKeeps, PortalStays
  <2>3. ControlInv' /\ DescriptorInv' /\ PristineInv' /\ ActiveInv'
    BY <1>1, <2>1, <2>2, PhaseFacts DEF ControlInv, DescriptorInv, PristineInv, ActiveInv
  <2> QED BY <2>2, <2>3
<1>5. CASE LibraryMissing /\ Goto("release")
  BY <1>1, <1>5, QuietKeeps, PhaseFacts DEF LibraryMissing, Goto
<1> QED BY <1>3, <1>4, <1>5 DEF ConnectTransport

LEMMA WaitLeaves ==
  ASSUME NEW r, WaitEvent(r)
  PROVE  UNCHANGED <<inner, fd, ei>>
BY DEF WaitEvent, AlreadyOver, FromPending, FromQueue, NothingPolled, FromSocket, transport, native

LEMMA HandshakeStep ==
  ASSUME BackendInv, Handshake
  PROVE  BackendInv'
<1> USE DEF BackendInv
<1>1. PICK r \in Replies : WaitEvent(r)
  BY DEF Handshake
<1>2. /\ pc = "handshake" /\ pc' \in {"bind", "start", "release", "handshake"}
      /\ UNCHANGED <<portalVars, batch>>
  BY DEF Handshake, Goto
<1>3. /\ pc \in Listens /\ pc' \in Phases /\ pc' \notin Early \cup Unconnected \cup Emulation
      /\ pc' \notin {"asking", "pump", "close", "stopped", "connect"}
  BY <1>2 DEF Listens, Phases, Early, Unconnected, Emulation
<1>4. TransportInv' /\ ei /\ ei' /\ UNCHANGED <<inner, fd>>
  BY <1>1, WaitKeeps, WaitLeaves
<1>5. PortalInv' /\ UNCHANGED request
  BY <1>2, <1>3, PortalStays
<1>6. ControlInv' /\ DescriptorInv' /\ PristineInv' /\ ActiveInv'
  BY <1>2, <1>3, <1>4, <1>5 DEF ControlInv, DescriptorInv, PristineInv, ActiveInv
<1> QED BY <1>4, <1>5, <1>6

LEMMA BindSeatStep ==
  ASSUME BackendInv, BindSeat
  PROVE  BackendInv'
<1> USE DEF BackendInv
<1>1. /\ pc = "bind" /\ BindCapabilities(seat) /\ pc' = "handshake" /\ UNCHANGED <<portalVars, batch>>
  BY DEF BindSeat, Goto
<1>2. /\ pc \in Listens /\ pc' \in Listens /\ pc' \in Phases
      /\ pc' \notin Early \cup Unconnected \cup Emulation
      /\ pc' \notin {"asking", "pump", "close", "stopped", "connect"}
  BY <1>1 DEF Listens, Phases, Early, Unconnected, Emulation
<1>3. TransportInv' /\ UNCHANGED <<inner, fd, ei>>
  BY <1>1, BindKeeps DEF native
<1>4. PortalInv' /\ UNCHANGED request
  BY <1>1, <1>2, PortalStays
<1>5. ControlInv' /\ DescriptorInv' /\ PristineInv' /\ ActiveInv'
  BY <1>1, <1>2, <1>3, <1>4 DEF ControlInv, DescriptorInv, PristineInv, ActiveInv
<1> QED BY <1>3, <1>4, <1>5

LEMMA PumpBeginsStep ==
  ASSUME BackendInv, NEW next \in {"ready", "send"}, pc \in Emulation, PumpBegins(next),
         UNCHANGED <<portalVars, sink>>
  PROVE  BackendInv'
<1> USE DEF BackendInv
<1>1. /\ st = "Emulating" /\ Dispatch /\ pc' = "pump" /\ then' = next /\ batch' = <<>>
      /\ UNCHANGED <<st, device>>
  BY DEF PumpBegins, sink
<1>2. /\ pc \in Listens /\ pc' \in Listens /\ pc' \in Phases
      /\ pc' \notin Early \cup Unconnected \cup Emulation
      /\ pc' \notin {"asking", "close", "stopped", "connect"} /\ pc # "asking"
  BY <1>1 DEF Listens, Phases, Early, Unconnected, Emulation
<1>3. TransportInv' /\ UNCHANGED <<inner, fd, ei, own>>
  BY <1>1, DispatchKeeps DEF native
<1>4. PortalInv' /\ UNCHANGED request
  BY <1>2, PortalStays
<1>5. ControlInv' /\ DescriptorInv' /\ PristineInv' /\ ActiveInv'
  BY <1>1, <1>2, <1>3, <1>4 DEF ControlInv, DescriptorInv, PristineInv, ActiveInv
<1> QED BY <1>3, <1>4, <1>5

(* The pump goes on until there is nothing more.  Should the device be     *)
(* lost on the way, the batch says so.                                     *)
LEMMA PumpStepKeeps ==
  ASSUME BackendInv, PumpStep
  PROVE  BackendInv'
<1> USE DEF BackendInv
<1> DEFINE Lost(es) == \E i \in 1..Len(es) : Interrupts(es[i])
<1>1. PICK r \in Replies :
        /\ WaitEvent(r)
        /\ \/ /\ r = Timeout /\ AppliesEvents(batch) /\ batch' = <<>>
           \/ /\ r.kind = "disconnected" /\ AppliesEvents(Append(batch, r)) /\ batch' = <<>>
           \/ /\ r = Error /\ batch' = <<>> /\ pc' = "faulted" /\ UNCHANGED <<st, device, seat>>
           \/ /\ r \notin {Timeout, Error} /\ r.kind # "disconnected"
              /\ batch' = Append(batch, r) /\ UNCHANGED <<pc, st, device, seat>>
  BY DEF PumpStep
<1>2. /\ pc = "pump" /\ UNCHANGED <<then, portalVars>>
  BY DEF PumpStep
<1>3. /\ st = "Emulating" /\ then \in {"ready", "send"} /\ batch \in Seq(Replies)
      /\ device \in own.resumed \/ Lost(batch)
  BY <1>2 DEF ActiveInv, ControlInv
<1>4. /\ pc' \in {"faulted", "ready", "send", "pump"} /\ (pc' = "pump" => UNCHANGED pc)
      /\ batch' \in Seq(Replies)
  <2>1. ASSUME NEW es, AppliesEvents(es) PROVE pc' \in {"faulted", "ready", "send"}
    BY <1>3, <2>1 DEF AppliesEvents
  <2>2. <<>> \in Seq(Replies) /\ Append(batch, r) \in Seq(Replies)
    BY <1>3
  <2>3. CASE batch' = <<>> /\ (AppliesEvents(batch) \/ AppliesEvents(Append(batch, r)))
    BY <2>1, <2>2, <2>3
  <2>4. CASE batch' = <<>> /\ pc' = "faulted"
    BY <2>2, <2>4
  <2>5. CASE batch' = Append(batch, r) /\ UNCHANGED pc
    BY <1>2, <2>2, <2>5
  <2> QED BY <1>1, <2>3, <2>4, <2>5
<1>5. /\ pc \in Listens /\ pc' \in Listens /\ pc' \in Phases
      /\ pc' \notin Early \cup Unconnected
      /\ pc' \notin {"asking", "close", "stopped", "connect"} /\ pc # "asking"
  BY <1>2, <1>4 DEF Listens, Phases, Early, Unconnected, Emulation
<1>6. TransportInv' /\ ei /\ ei' /\ UNCHANGED <<inner, fd>> /\ ResumedAfter(r)
  BY <1>1, WaitKeeps, WaitLeaves
<1>7. PortalInv' /\ UNCHANGED request
  BY <1>2, <1>5, PortalStays
<1>8. ControlInv' /\ DescriptorInv' /\ PristineInv'
  BY <1>2, <1>3, <1>5, <1>6, <1>7 DEF ControlInv, DescriptorInv, PristineInv
<1>9. ASSUME pc' \in Emulation
      PROVE  st' = "Emulating" /\ device' \in own'.resumed
  <2>1. pc' # "faulted" /\ pc' # "pump"
    BY <1>9 DEF Emulation
  <2>2. \/ r = Timeout /\ AppliesEvents(batch)
        \/ r.kind = "disconnected" /\ AppliesEvents(Append(batch, r))
    <3>1. pc' # pc
      BY <1>2, <2>1
    <3> QED BY <1>1, <2>1, <3>1
  <2>3. CASE r = Timeout /\ AppliesEvents(batch)
    <3>1. ~Lost(batch) /\ UNCHANGED <<st, device>>
      BY <2>1, <2>3 DEF AppliesEvents
    <3>2. own'.resumed = own.resumed
      BY <1>6, <2>3 DEF ResumedAfter, Timeout, Plain, Ev
    <3> QED BY <1>3, <3>1, <3>2
  <2>4. CASE r.kind = "disconnected" /\ AppliesEvents(Append(batch, r))
    <3>1. Append(batch, r)[Len(batch) + 1] = r /\ Len(batch) + 1 \in 1..Len(Append(batch, r))
      BY <1>3
    <3>2. Interrupts(Append(batch, r)[Len(batch) + 1])
      BY <2>4, <3>1 DEF Interrupts
    <3>3. pc' = "faulted"
      BY <2>4, <3>1, <3>2 DEF AppliesEvents
    <3> QED BY <2>1, <3>3
  <2> QED BY <2>2, <2>3, <2>4
<1>10. ASSUME pc' = "pump"
       PROVE  st' = "Emulating" /\ (device' \in own'.resumed \/ Lost(batch)')
  <2>1. batch' = Append(batch, r) /\ UNCHANGED <<pc, st, device, seat>>
    BY <1>1, <1>3, <1>10 DEF AppliesEvents
  <2>2. /\ Len(batch) \in Nat /\ Len(batch') = Len(batch) + 1 /\ batch'[Len(batch) + 1] = r
        /\ \A i \in 1..Len(batch) : batch'[i] = batch[i]
    BY <1>3, <2>1
  <2>3. \A e : Interrupts(e)' <=> Interrupts(e)
    BY <2>1 DEF Interrupts
  <2>4. CASE Lost(batch)
    <3>1. PICK i \in 1..Len(batch) : Interrupts(batch[i])
      BY <2>4
    <3>2. i \in 1..Len(batch') /\ batch'[i] = batch[i]
      BY <2>2
    <3> QED BY <1>3, <2>1, <2>3, <3>1, <3>2 DEF Interrupts
  <2>5. CASE device \in own.resumed /\ Interrupts(r)
    <3>1. Len(batch) + 1 \in 1..Len(batch')
      BY <2>2
    <3> QED BY <1>3, <2>1, <2>2, <2>5, <3>1 DEF Interrupts
  <2>6. CASE device \in own.resumed /\ ~Interrupts(r)
    <3>1. device \in own'.resumed
      BY <1>6, <2>6 DEF ResumedAfter, Interrupts
    <3> QED BY <1>3, <2>1, <3>1
  <2> QED BY <1>3, <2>4, <2>5, <2>6
<1>11. ActiveInv'
  BY <1>4, <1>9, <1>10 DEF ActiveInv
<1> QED BY <1>6, <1>7, <1>8, <1>11

LEMMA ReleaseStep ==
  ASSUME BackendInv, Release
  PROVE  BackendInv'
<1> USE DEF BackendInv
<1>1. /\ pc = "release" /\ DisconnectTransport /\ pc' = "close" /\ UNCHANGED <<portalVars, batch>>
  BY DEF Release, Goto
<1>2. /\ pc # "asking" /\ pc' \in Phases /\ pc' \notin Early \cup Unconnected \cup Listens
      /\ pc' \notin {"asking", "pump", "connect"} /\ pc' \notin Emulation
  BY <1>1 DEF Phases, Early, Unconnected, Listens, Emulation
<1>3. TransportInv' /\ ~ei'
  BY <1>1, DisconnectKeeps DEF DescriptorInv
<1>4. PortalInv' /\ UNCHANGED request
  BY <1>1, <1>2, PortalStays
<1>5. DescriptorInv'
  <2>1. CASE inner /\ ~(disconnected /\ ~ei)
    <3>1. inner' /\ fd' = IF ei THEN Closed ELSE fd
      BY <1>1, <2>1 DEF DisconnectTransport, Teardown
    <3>2. fd' = "closed"
      BY <2>1, <3>1 DEF DescriptorInv, Closed
    <3> QED BY <1>1, <1>2, <1>3, <3>1, <3>2 DEF DescriptorInv
  <2>2. CASE ~(inner /\ ~(disconnected /\ ~ei))
    <3>1. UNCHANGED <<inner, fd, ei>>
      BY <1>1, <2>2 DEF DisconnectTransport, transport, native
    <3> QED BY <1>1, <1>2, <1>3, <3>1 DEF DescriptorInv
  <2> QED BY <2>1, <2>2
<1>6. ControlInv' /\ PristineInv' /\ ActiveInv'
  BY <1>1, <1>2, <1>4 DEF ControlInv, PristineInv, ActiveInv
<1> QED BY <1>3, <1>4, <1>5, <1>6

LEMMA CloseStep ==
  ASSUME BackendInv, Close
  PROVE  BackendInv'
<1> USE DEF BackendInv
<1>1. /\ pc = "close" /\ pc' = "stopped" /\ UNCHANGED <<transport, batch>>
      /\ UNCHANGED portalVars \/ \E ok \in BOOLEAN : CloseSession(ok)
  BY DEF Close, Goto
<1>2. /\ pc # "asking" /\ pc' \in Phases /\ pc' \notin Early \cup Unconnected \cup Listens
      /\ pc' \notin {"asking", "pump", "connect"} /\ pc' \notin Emulation
  BY <1>1 DEF Phases, Early, Unconnected, Listens, Emulation
<1>3. request.stage = "none"
  BY <1>2 DEF ControlInv
<1>4. PortalInv' /\ UNCHANGED request
  <2>1. CASE UNCHANGED portalVars
    BY <1>2, <2>1, PortalStays
  <2>2. CASE \E ok \in BOOLEAN : CloseSession(ok)
    BY <1>2, <1>3, <2>2, CloseKeeps
  <2> QED BY <1>1, <2>1, <2>2
<1>5. TransportInv' /\ UNCHANGED <<inner, fd, ei>>
  BY <1>1, TransportStays DEF transport, native
<1>6. ControlInv' /\ DescriptorInv' /\ PristineInv' /\ ActiveInv'
  BY <1>1, <1>2, <1>4, <1>5 DEF ControlInv, DescriptorInv, PristineInv, ActiveInv
<1> QED BY <1>4, <1>5, <1>6

LEMMA CompositorStep ==
  ASSUME BackendInv, Compositor
  PROVE  BackendInv'
<1> USE DEF BackendInv
<1>1. PICK e \in ServerEvents : ServerSends(e)
  BY DEF Compositor
<1>2. /\ UNCHANGED portalVars /\ UNCHANGED <<st, device, seat>>
      /\ UNCHANGED <<pc, batch, then>>
  BY DEF Compositor, sink, control
<1>3. ei /\ TransportInv' /\ UNCHANGED <<inner, fd, ei, own>>
  BY <1>1, SendKeeps DEF native, ServerSends
<1>4. PortalInv' /\ UNCHANGED request
  BY <1>2, PortalStays
<1>5. pc' \notin Unconnected \cup {"asking"}
  BY <1>2, <1>3 DEF DescriptorInv
<1>6. ControlInv' /\ DescriptorInv' /\ PristineInv'
  BY <1>2, <1>3, <1>4, <1>5 DEF ControlInv, DescriptorInv, PristineInv
<1>7. ActiveInv'
  BY <1>2, <1>3 DEF ActiveInv, Interrupts
<1> QED BY <1>3, <1>4, <1>6, <1>7

LEMMA PortalAnswersStep ==
  ASSUME BackendInv, PortalAnswers
  PROVE  BackendInv'
<1> USE DEF BackendInv
<1>1. /\ UNCHANGED transport /\ UNCHANGED <<st, device, seat, pc, batch, then>>
      /\ UNCHANGED <<inner, fd, ei, own, pending, queue, socket, sent, told>>
  BY DEF PortalAnswers, sink, control, transport, native, server
<1>2. PortalInv' /\ UNCHANGED request
  BY <1>1, AnswerKeeps DEF PortalAnswers
<1>3. TransportInv'
  BY <1>1, TransportStays
<1>4. ControlInv' /\ DescriptorInv' /\ PristineInv'
  BY <1>1, <1>2 DEF ControlInv, DescriptorInv, PristineInv, Pristine
<1>5. ActiveInv'
  BY <1>1 DEF ActiveInv, Interrupts
<1> QED BY <1>2, <1>3, <1>4, <1>5

(* The steps that move the owner on and leave the parts as they are.       *)
QuietStep ==
  \/ PreflightActions \/ Enter \/ Authorized \/ HandshakeCancelled \/ StartEmulating
  \/ Send \/ SubmitAction \/ InvokeAction \/ StartRelease

LEMMA QuietStepKeeps ==
  ASSUME BackendInv, QuietStep
  PROVE  BackendInv'
<1> USE DEF BackendInv
<1>1. pc \in Emulation => st = "Emulating" /\ device \in own.resumed
  BY DEF ActiveInv
<1>2. pc \in Unconnected => ~ei
  BY DEF DescriptorInv
<1>3. CASE PreflightActions
  <2>1. /\ pc = "new" /\ pc' \in {"preflighted", "stopped"}
        /\ UNCHANGED <<transport, portalVars, batch>>
    BY <1>3 DEF PreflightActions, Goto
  <2> QED BY <1>2, <2>1, QuietKeeps DEF Phases, Unconnected, Early, Listens, Emulation
<1>4. CASE Enter
  <2>1. /\ pc = "preflighted" /\ pc' \in {"CreateSession", "stopped"}
        /\ UNCHANGED <<transport, portalVars, batch>>
    BY <1>4 DEF Enter, Goto
  <2> QED BY <1>2, <2>1, QuietKeeps DEF Phases, Unconnected, Early, Listens, Emulation
<1>5. CASE Authorized
  <2>1. /\ pc = "authorized" /\ pc' \in {"release", "eis"}
        /\ UNCHANGED <<transport, portalVars, batch>>
    BY <1>5 DEF Authorized, Goto
  <2> QED BY <2>1, QuietKeeps DEF Phases, Unconnected, Early, Listens, Emulation
<1>6. CASE HandshakeCancelled
  <2>1. /\ pc = "handshake" /\ pc' = "release"
        /\ UNCHANGED <<transport, portalVars, batch>>
    BY <1>6 DEF HandshakeCancelled, Goto
  <2> QED BY <2>1, QuietKeeps DEF Phases, Unconnected, Early, Listens, Emulation
<1>7. CASE StartEmulating
  <2>1. /\ pc = "start" /\ UNCHANGED <<transport, portalVars, batch, device>>
        /\ (pc' = "ready" /\ st' = "Emulating" /\ device \in own.resumed) \/ pc' = "release"
    BY <1>7 DEF StartEmulating, Goto, Usable
  <2> QED BY <2>1, QuietKeeps DEF Phases, Unconnected, Early, Listens, Emulation
<1>8. CASE Send
  <2>1. /\ pc = "send" /\ pc' \in {"sent", "faulted"}
        /\ UNCHANGED <<transport, portalVars, batch>>
        /\ UNCHANGED <<st, device>>
    BY <1>8 DEF Send, Goto, FrameAt, Frame, sink
  <2> QED BY <1>1, <2>1, QuietKeeps DEF Phases, Unconnected, Early, Listens, Emulation
<1>9. CASE SubmitAction
  <2>1. /\ pc = "ready" /\ pc' \in {"invoke", "faulted"}
        /\ UNCHANGED <<transport, portalVars, batch>>
        /\ UNCHANGED <<st, device>>
    BY <1>9 DEF SubmitAction, sink
  <2> QED BY <1>1, <2>1, QuietKeeps DEF Phases, Unconnected, Early, Listens, Emulation
<1>10. CASE InvokeAction
  <2>1. /\ pc = "invoke" /\ pc' \in {"ready", "faulted"}
        /\ UNCHANGED <<transport, portalVars, batch>>
        /\ UNCHANGED <<st, device>>
    BY <1>10 DEF InvokeAction, Goto, sink
  <2> QED BY <1>1, <2>1, QuietKeeps DEF Phases, Unconnected, Early, Listens, Emulation
<1>11. CASE StartRelease
  <2>1. /\ pc \in {"faulted", "ready"} /\ pc' = "release"
        /\ UNCHANGED <<transport, portalVars, batch>>
    BY <1>11 DEF StartRelease, Goto
  <2> QED BY <2>1, QuietKeeps DEF Phases, Unconnected, Early, Listens, Emulation
<1> QED BY <1>3, <1>4, <1>5, <1>6, <1>7, <1>8, <1>9, <1>10, <1>11 DEF QuietStep

LEMMA BackendInit == Init => BackendInv
<1> SUFFICES ASSUME Init PROVE BackendInv
  OBVIOUS
<1>1. /\ inner = FALSE /\ fd = "none" /\ ei = FALSE /\ Pristine
      /\ srv = [seats |-> {}, bound |-> {}, devices |-> [d \in Devices |-> "none"]]
      /\ pc = "new" /\ batch = <<>>
      /\ counter = 0 /\ request = NoRequest /\ inbox = {} /\ asked = {} /\ alive = {}
      /\ handle = 0 /\ orphaned = {}
  BY DEF Init, TransportInit, PortalInit, Pristine
<1>2. Untouched
  BY <1>1 DEF Untouched, Pristine, ServerType
<1>3. TransportInv
  BY <1>2, PristineHolds
<1>4. PortalInv
  <2>1. PortalType
    <3>1. request \in [method : ToSet(Methods) \cup {"none"}, token : 0..counter, stage : RequestStages]
      BY <1>1 DEF NoRequest, RequestStages
    <3> QED BY <1>1, <3>1 DEF PortalType
  <2>2. request.stage = "none" /\ request.method = "none"
    BY <1>1 DEF NoRequest
  <2> QED BY <1>1, <2>1, <2>2 DEF PortalInv, RequestInv, SessionInv, SessionsKnown
<1>5. ControlInv /\ DescriptorInv /\ PristineInv /\ ActiveInv
  BY <1>1 DEF ControlInv, DescriptorInv, PristineInv, ActiveInv, NoRequest, Phases, Unconnected,
              Early, Listens, Emulation
<1> QED BY <1>3, <1>4, <1>5 DEF BackendInv

LEMMA BackendStep == BackendInv /\ [Next]_vars => BackendInv'
<1> SUFFICES ASSUME BackendInv, [Next]_vars PROVE BackendInv'
  OBVIOUS
<1>1. CASE QuietStep
  BY <1>1, QuietStepKeeps
<1>2. CASE Ask \/ Round
  BY <1>2, AskStep, RoundStep
<1>3. CASE ConnectToEis \/ ConnectTransport
  BY <1>3, ConnectToEisStep, ConnectTransportStep
<1>4. CASE Handshake \/ BindSeat \/ PumpStep
  BY <1>4, HandshakeStep, BindSeatStep, PumpStepKeeps
<1>5. CASE SubmitWire
  BY <1>5, PumpBeginsStep DEF SubmitWire, Emulation
<1>6. CASE Sent
  BY <1>6, PumpBeginsStep DEF Sent, Emulation
<1>7. CASE Release \/ Close
  BY <1>7, ReleaseStep, CloseStep
<1>8. CASE Compositor \/ PortalAnswers
  BY <1>8, CompositorStep, PortalAnswersStep
<1>9. CASE User \/ Stop
  BY <1>9, StandingKeeps DEF User, Stop
<1>10. CASE UNCHANGED vars
  <2>1. UNCHANGED <<transport, portalVars, sink, pc, batch, then>>
    BY <1>10 DEF vars, control
  <2> QED BY <2>1, StandingKeeps
<1> QED BY <1>1, <1>2, <1>3, <1>4, <1>5, <1>6, <1>7, <1>8, <1>9, <1>10 DEF Next, Client, QuietStep

(* The parts of a session keep step, whatever the compositor and the       *)
(* portal do and in whatever order: see EndpointsInStep.                   *)
THEOREM EndpointsAreInStep == Spec => []EndpointsInStep
<1>1. BackendInv => EndpointsInStep
  <2> SUFFICES ASSUME BackendInv PROVE EndpointsInStep
    OBVIOUS
  <2>1. ActiveDeviceUsable
    BY DEF BackendInv, ActiveInv, DescriptorInv, Emulation, Listens, ActiveDeviceUsable, Usable
  <2>2. AnswersMatch
    BY DEF BackendInv, PortalInv, RequestInv, Current, AnswersMatch
  <2>3. ViewInStep /\ SessionsKnown
    BY DEF BackendInv, TransportInv, PortalInv, SessionInv
  <2> QED BY <2>1, <2>2, <2>3 DEF EndpointsInStep
<1> QED BY <1>1, BackendInit, BackendStep, PTL DEF Spec

(* Every reference taken from libei is given back once, and the descriptor *)
(* of the session is closed once, when it ends.                            *)
THEOREM NothingIsLeaked == Spec => []NothingLeaks
<1>1. BackendInv => NothingLeaks
  BY DEF BackendInv, TransportInv, DescriptorInv, NothingLeaks, DescriptorClosedOnce
<1> QED BY <1>1, BackendInit, BackendStep, PTL DEF Spec

-----------------------------------------------------------------------------
(* The desktop actions                                                     *)

LEMMA ActionInit == Init => ActionInv
BY DEF Init, KdeInit, NoAction, ActionInv, Directions

LEMMA KdeStep ==
  ASSUME ActionInv, [Next]_vars
  PROVE  /\ ActionInv'
         /\ \/ UNCHANGED kdeVars
            \/ \E b \in Bindings : ReadState(b)
            \/ \E ok \in BOOLEAN : Invoke(ok) \/ Preflight(ok)
            \/ UserToggles
<1>1. \/ UNCHANGED kdeVars
      \/ \E b \in Bindings : ReadState(b)
      \/ \E ok \in BOOLEAN : Invoke(ok) \/ Preflight(ok)
      \/ UserToggles
  BY DEF Next, Client, PreflightActions, Enter, Ask, Round, Authorized, ConnectToEis,
         ConnectTransport, Handshake, HandshakeCancelled, BindSeat, StartEmulating, PumpStep,
         SubmitWire, Send, Sent, SubmitAction, InvokeAction, StartRelease, Release, Close,
         Compositor, PortalAnswers, User, Stop, vars
<1>2. ASSUME UNCHANGED kdeVars PROVE ActionInv'
  BY <1>2 DEF kdeVars, ActionInv
<1>3. ASSUME NEW b \in Bindings, ReadState(b) PROVE ActionInv'
  BY <1>3 DEF ReadState, ToggleNeeded, ActionInv
<1>4. ASSUME NEW ok \in BOOLEAN, Invoke(ok) PROVE ActionInv'
  BY <1>4 DEF Invoke, NoAction, ActionInv, Directions
<1>5. ASSUME NEW ok \in BOOLEAN, Preflight(ok) PROVE ActionInv'
  BY <1>5 DEF Preflight, ActionInv
<1>6. ASSUME UserToggles PROVE ActionInv'
  <2>1. raced' = (invoking # NoAction) /\ invoking' = invoking
    BY <1>6 DEF UserToggles
  <2>2. CASE invoking = NoAction
    <3>1. invoking'.binding \notin Directions
      BY <2>1, <2>2 DEF NoAction, Directions
    <3> QED BY <3>1 DEF ActionInv
  <2>3. CASE invoking # NoAction
    BY <2>1, <2>3 DEF ActionInv
  <2> QED BY <2>2, <2>3
<1> QED BY <1>1, <1>2, <1>3, <1>4, <1>5, <1>6

(* An action on the Overview goes one way, for any set of registered       *)
(* shortcuts: see Directional.                                             *)
THEOREM ActionsGoOneWay == Spec => Directional
<1> DEFINE OneWay == invoking # NoAction /\ invoking' = NoAction /\ ~raced /\ overview' # overview
                       => overview' = (invoking.binding = "overview")
<1>1. ActionInv /\ [Next]_vars => ActionInv' /\ [OneWay]_kdeVars
  <2> SUFFICES ASSUME ActionInv, [Next]_vars PROVE ActionInv' /\ [OneWay]_kdeVars
    OBVIOUS
  <2>1. ASSUME NEW b \in Bindings, ReadState(b) PROVE OneWay
    BY <2>1 DEF ReadState
  <2>2. ASSUME NEW ok \in BOOLEAN, Invoke(ok) PROVE OneWay
    BY <2>2 DEF Invoke, Toggled, ActionInv, Directions
  <2>3. ASSUME NEW ok \in BOOLEAN, Preflight(ok) PROVE OneWay
    BY <2>3 DEF Preflight
  <2>4. ASSUME UserToggles PROVE OneWay
    <3>1. invoking' = invoking
      BY <2>4 DEF UserToggles
    <3> QED BY <3>1
  <2> QED BY KdeStep, <2>1, <2>2, <2>3, <2>4
<1> QED BY <1>1, ActionInit, PTL DEF Spec, Directional

-----------------------------------------------------------------------------
(* The order of what the caller is told                                    *)

Told == <<sent, told, ei>>

LEMMA ChannelLast == Channel!Last(told) = Last(told)
BY DEF Last, Channel!Last

LEMMA WaitIsTell ==
  ASSUME BackendInv, NEW r, WaitEvent(r)
  PROVE  [Channel!Next]_Told
<1>1. ei /\ TellsNext /\ EndInv /\ UNCHANGED <<ei, sent>>
  <2>1. UNCHANGED <<ei, sent>>
    BY DEF WaitEvent, AlreadyOver, FromPending, FromQueue, NothingPolled, FromSocket, transport,
           native, server
  <2> QED BY <2>1, WaitKeeps DEF BackendInv, TransportInv
<1>2. CASE UNCHANGED told
  BY <1>1, <1>2 DEF Told
<1>3. CASE ~UNCHANGED told
  <2>1. ~disconnected /\ \E n \in 1..Len(sent) :
          Observable(sent[n]) /\ Channel!Visible(n - 1) = Len(told) /\ told' = Append(told, sent[n])
    BY <1>1, <1>3 DEF TellsNext
  <2>2. ~(told # <<>> /\ Final(Channel!Last(told)))
    BY <1>1, <2>1, ChannelLast DEF EndInv
  <2>3. Channel!Tell
    BY <1>1, <2>1, <2>2 DEF Channel!Tell
  <2> QED BY <2>3 DEF Channel!Next
<1> QED BY <1>2, <1>3

LEMMA ChannelStep ==
  ASSUME BackendInv, [Next]_vars
  PROVE  [Channel!Next]_Told
<1>1. ASSUME UNCHANGED <<sent, told, ei>> PROVE [Channel!Next]_Told
  BY <1>1 DEF Told
<1>2. ASSUME UNCHANGED transport PROVE UNCHANGED <<sent, told, ei>>
  BY <1>2 DEF transport, native, server
<1>3. CASE ConnectTransport
  <2>1. told = <<>>
    <3>1. pc = "connect"
      BY <1>3 DEF ConnectTransport
    <3> QED BY <3>1 DEF BackendInv, PristineInv, Pristine, Unconnected
  <2>2. CASE Connected
    <3>1. ~ei /\ ei' = TRUE /\ UNCHANGED <<sent, told>>
      BY <2>2 DEF Connected, server
    <3>2. Channel!Connect
      BY <2>1, <3>1 DEF Channel!Connect
    <3> QED BY <3>2 DEF Channel!Next
  <2>3. CASE NoSender
    BY <1>1, <2>3 DEF NoSender, server
  <2>4. CASE LibraryMissing
    BY <1>1, <1>2, <2>4 DEF LibraryMissing
  <2> QED BY <1>3, <2>2, <2>3, <2>4 DEF ConnectTransport
<1>4. CASE ConnectToEis
  BY <1>1, <1>4 DEF ConnectToEis, server
<1>5. CASE Handshake \/ PumpStep
  BY <1>5, WaitIsTell DEF Handshake, PumpStep
<1>6. CASE BindSeat
  BY <1>1, <1>6 DEF BindSeat, BindCapabilities, native
<1>7. CASE SubmitWire \/ Sent
  BY <1>1, <1>7 DEF SubmitWire, Sent, PumpBegins, Dispatch, native
<1>8. CASE Release
  <2>1. DisconnectTransport
    BY <1>8 DEF Release
  <2>2. CASE UNCHANGED transport
    BY <1>1, <1>2, <2>2
  <2>3. CASE Teardown /\ UNCHANGED <<server, told>>
    <3>1. ei' = FALSE /\ UNCHANGED <<sent, told>>
      BY <2>3 DEF Teardown, server
    <3>2. Channel!Close
      BY <3>1 DEF Channel!Close
    <3> QED BY <3>2 DEF Channel!Next
  <2> QED BY <2>1, <2>2, <2>3 DEF DisconnectTransport
<1>9. CASE Compositor
  <2>1. PICK e \in ServerEvents : ServerSends(e)
    BY <1>9 DEF Compositor
  <2>2. ei /\ sent' = Append(sent, e) /\ UNCHANGED <<told, ei>>
    BY <2>1 DEF ServerSends, native
  <2>3. Channel!Send
    BY <2>2 DEF Channel!Send
  <2> QED BY <2>3 DEF Channel!Next
<1>10. CASE Ask \/ Round \/ Close \/ PortalAnswers \/ User \/ Stop
  <2>1. UNCHANGED transport
    BY <1>10 DEF Ask, Round, Close, PortalAnswers, User, Stop
  <2> QED BY <1>1, <1>2, <2>1
<1>11. CASE QuietStep
  <2>1. UNCHANGED transport
    BY <1>11 DEF QuietStep, PreflightActions, Enter, Authorized, HandshakeCancelled,
                 StartEmulating, Send, FrameAt, Frame, SubmitAction, InvokeAction, StartRelease
  <2> QED BY <1>1, <1>2, <2>1
<1>12. CASE UNCHANGED vars
  BY <1>1, <1>2, <1>12 DEF vars
<1> QED BY <1>3, <1>4, <1>5, <1>6, <1>7, <1>8, <1>9, <1>10, <1>11, <1>12
        DEF Next, Client, QuietStep

(* The transport implements its abstract specification: the caller is told *)
(* what the server sent, in its order and each event once, whatever the    *)
(* events are split over: see InOrder.                                     *)
THEOREM ToldInOrder == Spec => InOrder
<1>1. Init => Channel!Init
  BY DEF Init, TransportInit, Channel!Init
<1>2. BackendInv /\ [Next]_vars => [Channel!Next]_Told
  BY ChannelStep
<1> QED BY <1>1, <1>2, BackendInit, BackendStep, PTL DEF Spec, InOrder, Channel!Spec, Told

-----------------------------------------------------------------------------
(* The guarded emission: for every set of capabilities on offer and every  *)
(* failure, stop and refusal.  That the report can be believed is not      *)
(* inductive: the exit code is formed from what the pattern came to, so    *)
(* the invariant says what has been sent at each place of it (InPattern),  *)
(* and that each way it ended has its reason (Behind).                     *)

\* An emission starts over in every process (Start, Emit and EmitStep of Commands).
ProbeNext ==
  \/ At("off") /\ BeginEmission
  \/ EmissionStep
  \/ At("over") /\ emission' = NoEmission

ProbeSpec == emission = NoEmission /\ [][ProbeNext]_emission

Steps == 6
Words == {"move", "left-down", "left-up", "right-down", "right-up",
          "scroll-begin", "scroll", "scroll-end"}
Capabilities == {"relative-pointer", "primary-button", "secondary-button", "pixel-scroll"}

Agreed(caps, i) ==
  IF Pattern[i].needs \in caps THEN Pattern[i].events ELSE <<>>

\* What a device that offers caps has been sent after the first n steps.
SentAfter(caps, n) ==
  LET A(i) == Agreed(caps, i)
  IN IF n = 0 THEN <<>>
     ELSE IF n = 1 THEN A(1)
     ELSE IF n = 2 THEN A(1) \o A(2)
     ELSE IF n = 3 THEN A(1) \o A(2) \o A(3)
     ELSE IF n = 4 THEN A(1) \o A(2) \o A(3) \o A(4)
     ELSE IF n = 5 THEN A(1) \o A(2) \o A(3) \o A(4) \o A(5)
     ELSE A(1) \o A(2) \o A(3) \o A(4) \o A(5) \o A(6)

Interruptions ==
  {NoError, Failure("DevicePaused"), Failure("TransportDisconnected")}
PatternErrors == {NoError, Failure("Cancelled"), Failure("SendFailed")}

ProbeTypeOK ==
  emission \in
    [at : {"off", "countdown", "preflight", "pattern", "cleanup", "report", "over"},
     left : Int, step : 1..Steps + 1, done : 0..3, caps : SUBSET Capabilities,
     sent : Seq(Words), held : SUBSET {"left", "right", "scroll"}, stop : BOOLEAN,
     pattern : PatternErrors, interruption : Interruptions, open : BOOLEAN, code : 0..9]

\* Nothing is sent or opened before the pattern.
UntilPattern ==
  emission.at \in {"off", "countdown", "preflight"} =>
    /\ emission.step = 1 /\ emission.done = 0 /\ emission.sent = <<>>
    /\ emission.caps = {} /\ emission.held = {} /\ ~emission.open
    /\ emission.pattern = NoError /\ emission.interruption = NoError

\* In the pattern exactly the steps passed have been sent, and of the present one
\* the events submitted.
InPattern ==
  emission.at = "pattern" =>
    /\ emission.pattern = NoError /\ emission.interruption = NoError
    /\ emission.done > 0 =>
         /\ emission.step <= Steps /\ Now.needs \in emission.caps
         /\ emission.done < Len(Now.events)
    /\ emission.sent =
         SentAfter(emission.caps, emission.step - 1)
           \o (IF emission.done = 0 THEN <<>> ELSE SubSeq(Now.events, 1, emission.done))

\* Behind the pattern its result says what was sent and why it ended.
Behind ==
  emission.at \in {"cleanup", "report"} =>
    /\ emission.pattern = NoError => emission.sent = EventsFor(emission.caps)
    /\ emission.pattern = Failure("Cancelled") => emission.stop

\* What is left to report is reported over a clean desktop.
Clean ==
  emission.at = "report" =>
    /\ emission.pattern = NoError
    /\ emission.held = {} /\ ~emission.open

ProbeInv ==
  ProbeTypeOK /\ UntilPattern /\ InPattern /\ Behind /\ Clean /\ EmissionAccountedFor

-----------------------------------------------------------------------------

LEMMA PatternShape ==
  /\ Len(Pattern) = Steps
  /\ \A i \in 1..Steps :
       /\ Pattern[i].events \in Seq(Words)
       /\ Len(Pattern[i].events) \in 1..4
<1>1. Len(Pattern) = 6
  BY DEF Pattern
<1>2. /\ Pattern[1].events = <<"move">>
      /\ Pattern[2].events = <<"move">>
      /\ Pattern[3].events = <<"move">>
      /\ Pattern[4].events = <<"left-down", "left-up">>
      /\ Pattern[5].events = <<"scroll-begin", "scroll", "scroll", "scroll-end">>
      /\ Pattern[6].events = <<"right-down", "right-up">>
  BY DEF Pattern
<1>3. \A i \in 1..6 : \/ Pattern[i].events = <<"move">>
                      \/ Pattern[i].events = <<"left-down", "left-up">>
                      \/ Pattern[i].events = <<"scroll-begin", "scroll", "scroll", "scroll-end">>
                      \/ Pattern[i].events = <<"right-down", "right-up">>
  BY <1>2, SMT
<1>4. /\ <<"move">> \in Seq(Words) /\ Len(<<"move">>) = 1
      /\ <<"left-down", "left-up">> \in Seq(Words) /\ Len(<<"left-down", "left-up">>) = 2
      /\ <<"right-down", "right-up">> \in Seq(Words) /\ Len(<<"right-down", "right-up">>) = 2
      /\ <<"scroll-begin", "scroll", "scroll", "scroll-end">> \in Seq(Words)
      /\ Len(<<"scroll-begin", "scroll", "scroll", "scroll-end">>) = 4
  BY DEF Words
<1>5. ASSUME NEW i \in 1..6
      PROVE  /\ Pattern[i].events \in Seq(Words)
             /\ Len(Pattern[i].events) \in 1..4
  <2> DEFINE events == Pattern[i].events
  <2>1. \/ events = <<"move">> \/ events = <<"left-down", "left-up">>
        \/ events = <<"scroll-begin", "scroll", "scroll", "scroll-end">>
        \/ events = <<"right-down", "right-up">>
    BY <1>3
  <2> HIDE DEF events
  <2>2. events \in Seq(Words)
    BY <2>1, <1>4, Zenon
  <2>3. Len(events) = 1 \/ Len(events) = 2 \/ Len(events) = 4
    BY <2>1, <1>4, Zenon
  <2> QED BY <2>2, <2>3 DEF events
<1> QED BY <1>1, <1>5 DEF Steps

LEMMA SentBySteps ==
  ASSUME NEW caps
  PROVE  /\ SentAfter(caps, 0) = <<>>
         /\ SentAfter(caps, Steps) = EventsFor(caps)
         /\ \A n \in 0..Steps : SentAfter(caps, n) \in Seq(Words)
         /\ \A n \in 1..Steps : SentAfter(caps, n) = SentAfter(caps, n - 1) \o Agreed(caps, n)
<1>1. \A i \in 1..6 : Agreed(caps, i) \in Seq(Words)
  BY PatternShape DEF Agreed, Steps
<1>. /\ Agreed(caps, 1) \in Seq(Words) /\ Agreed(caps, 2) \in Seq(Words)
     /\ Agreed(caps, 3) \in Seq(Words) /\ Agreed(caps, 4) \in Seq(Words)
     /\ Agreed(caps, 5) \in Seq(Words) /\ Agreed(caps, 6) \in Seq(Words)
  BY <1>1
<1>2. SentAfter(caps, 0) = <<>>
  BY DEF SentAfter
<1>3. SentAfter(caps, 6) = EventsFor(caps)
  BY DEF SentAfter, Agreed, EventsFor
<1>4. /\ SentAfter(caps, 1) = Agreed(caps, 1)
      /\ SentAfter(caps, 2) = Agreed(caps, 1) \o Agreed(caps, 2)
      /\ SentAfter(caps, 3) = SentAfter(caps, 2) \o Agreed(caps, 3)
      /\ SentAfter(caps, 4) = SentAfter(caps, 3) \o Agreed(caps, 4)
      /\ SentAfter(caps, 5) = SentAfter(caps, 4) \o Agreed(caps, 5)
      /\ SentAfter(caps, 6) = SentAfter(caps, 5) \o Agreed(caps, 6)
  BY DEF SentAfter
<1>5. SentAfter(caps, 1) = SentAfter(caps, 0) \o Agreed(caps, 1)
  BY <1>1, <1>2, <1>4, ConcatEmptySeq
<1>6. /\ SentAfter(caps, 1) \in Seq(Words) /\ SentAfter(caps, 2) \in Seq(Words)
      /\ SentAfter(caps, 3) \in Seq(Words) /\ SentAfter(caps, 4) \in Seq(Words)
      /\ SentAfter(caps, 5) \in Seq(Words) /\ SentAfter(caps, 6) \in Seq(Words)
  <2>1. SentAfter(caps, 1) \in Seq(Words) /\ SentAfter(caps, 2) \in Seq(Words)
    BY <1>4, ConcatProperties
  <2>2. SentAfter(caps, 3) \in Seq(Words)
    <3>1. SentAfter(caps, 2) \o Agreed(caps, 3) \in Seq(Words)
      BY <2>1, ConcatProperties
    <3> QED BY <3>1, <1>4
  <2>3. SentAfter(caps, 4) \in Seq(Words)
    <3>1. SentAfter(caps, 3) \o Agreed(caps, 4) \in Seq(Words)
      BY <2>2, ConcatProperties
    <3> QED BY <3>1, <1>4
  <2>4. SentAfter(caps, 5) \in Seq(Words)
    <3>1. SentAfter(caps, 4) \o Agreed(caps, 5) \in Seq(Words)
      BY <2>3, ConcatProperties
    <3> QED BY <3>1, <1>4
  <2>5. SentAfter(caps, 6) \in Seq(Words)
    <3>1. SentAfter(caps, 5) \o Agreed(caps, 6) \in Seq(Words)
      BY <2>4, ConcatProperties
    <3> QED BY <3>1, <1>4
  <2> QED BY <2>1, <2>2, <2>3, <2>4, <2>5
<1>7. \A n \in 1..6 : SentAfter(caps, n) = SentAfter(caps, n - 1) \o Agreed(caps, n)
  <2>1. SUFFICES ASSUME NEW n \in 1..6
                 PROVE  SentAfter(caps, n) = SentAfter(caps, n - 1) \o Agreed(caps, n)
    OBVIOUS
  <2>. n = 1 \/ n = 2 \/ n = 3 \/ n = 4 \/ n = 5 \/ n = 6
    BY <2>1
  <2>2. CASE n = 1
    BY <2>2, <1>5
  <2>3. CASE n = 2
    BY <2>3, <1>4
  <2>4. CASE n = 3
    BY <2>4, <1>4
  <2>5. CASE n = 4
    BY <2>5, <1>4
  <2>6. CASE n = 5
    BY <2>6, <1>4
  <2>7. CASE n = 6
    BY <2>7, <1>4
  <2> QED BY <2>2, <2>3, <2>4, <2>5, <2>6, <2>7, Zenon
<1>8. \A n \in 0..6 : SentAfter(caps, n) \in Seq(Words)
  <2>1. SUFFICES ASSUME NEW n \in 0..6
                 PROVE  SentAfter(caps, n) \in Seq(Words)
    OBVIOUS
  <2>2. n = 0 \/ n = 1 \/ n = 2 \/ n = 3 \/ n = 4 \/ n = 5 \/ n = 6
    BY <2>1
  <2>3. <<>> \in Seq(Words)
    OBVIOUS
  <2> QED BY <2>2, <2>3, <1>2, <1>6
<1> QED BY <1>2, <1>3, <1>7, <1>8 DEF Steps

LEMMA Regrouped ==
  ASSUME NEW S, NEW x \in Seq(S), NEW y \in Seq(S), NEW z \in Seq(S)
  PROVE  (x \o y) \o z = x \o (y \o z)
OBVIOUS

MayGoBehind(x, y, e) == Append(x \o y, e) = x \o Append(y, e)

LEMMA AppendedBehind ==
  ASSUME NEW S, NEW x \in Seq(S), NEW y \in Seq(S), NEW e \in S
  PROVE  MayGoBehind(x, y, e)
<1>1. x \o y \in Seq(S) /\ <<e>> \in Seq(S)
  BY ConcatProperties
<1>2. Append(x \o y, e) = (x \o y) \o <<e>> /\ Append(y, e) = y \o <<e>>
  BY <1>1, AppendIsConcat
<1>3. (x \o y) \o <<e>> = x \o (y \o <<e>>)
  BY <1>1, Regrouped
<1> QED BY <1>2, <1>3 DEF MayGoBehind

\* One event more of a step, and the last one.
LEMMA OneEventMore ==
  ASSUME NEW S, NEW earlier \in Seq(S), NEW events \in Seq(S),
         NEW done \in 0..Len(events) - 1,
         NEW part, done = 0 => part = <<>>, done # 0 => part = SubSeq(events, 1, done)
  PROVE  /\ Append(earlier \o part, events[done + 1]) = earlier \o SubSeq(events, 1, done + 1)
         /\ done + 1 = Len(events) =>
              Append(earlier \o part, events[done + 1]) = earlier \o events
<1>1. part = SubSeq(events, 1, done)
  <2>1. CASE done = 0
    BY <2>1, SubSeqEmpty
  <2> QED BY <2>1
<1>2. SubSeq(events, 1, done + 1) = Append(SubSeq(events, 1, done), events[done + 1])
  <2>1. SubSeq(events, 1, done + 1) = SubSeq(events, 1, done) \o <<events[done + 1]>>
    BY SubSeqRecursiveSecond
  <2>2. SubSeq(events, 1, done) \in Seq(S) /\ events[done + 1] \in S
    BY SubSeqProperties
  <2> QED BY <2>1, <2>2, AppendIsConcat
<1>3. part \in Seq(S) /\ events[done + 1] \in S
  BY <1>1, SubSeqProperties
<1>4. Append(earlier \o part, events[done + 1]) = earlier \o Append(part, events[done + 1])
  <2>1. MayGoBehind(earlier, part, events[done + 1])
    BY <1>3, AppendedBehind, Zenon
  <2> QED BY <2>1 DEF MayGoBehind
<1>5. done + 1 = Len(events) => SubSeq(events, 1, done + 1) = events
  BY SubSeqFull
<1> QED BY <1>1, <1>2, <1>4, <1>5

\* What the reported errors come to as exit codes.
Others == PrepareErrors \cup {"NoSessionBus", "LibraryMissing", "SendFailed", "Internal"}

LEMMA CodesOfErrors ==
  /\ CodeOf(NoError) = 0
  /\ CodeOf(Failure("Cancelled")) = 8
  /\ CodeOf(Failure("ReleaseFailed")) = 7
  /\ \A kind \in Others : CodeOf(Failure(kind)) \in 1..9 \ {7, 8}
<1>1. \A kind : kind # "none" => Failure(kind) # NoError
  <2>1. SUFFICES ASSUME NEW kind, Failure(kind) = NoError
                 PROVE  kind = "none"
    OBVIOUS
  <2>2. Failure(kind).error = kind /\ NoError.error = "none"
    BY DEF Failure, NoError
  <2> QED BY <2>1, <2>2
<1>2. \A kind : kind # "none" => CodeOf(Failure(kind)) = FailureCode[kind]
  <2>1. \A kind : Failure(kind).error = kind
    BY DEF Failure
  <2> QED BY <1>1, <2>1 DEF CodeOf
<1>3. /\ FailureCode["Cancelled"] = 8 /\ FailureCode["ReleaseFailed"] = 7
      /\ FailureCode["SendFailed"] = 6 /\ FailureCode["Internal"] = 9
      /\ FailureCode["NoSessionBus"] = 2 /\ FailureCode["LibraryMissing"] = 4
      /\ FailureCode["PortalUnavailable"] = 2
      /\ FailureCode["AuthorizationCancelled"] = 3
      /\ FailureCode["AuthorizationRefused"] = 3
      /\ FailureCode["ProtocolUnsupported"] = 4
      /\ FailureCode["CapabilityMissing"] = 4
      /\ FailureCode["TransportDisconnected"] = 5
      /\ FailureCode["DevicePaused"] = 5 /\ FailureCode["Timeout"] = 5
      /\ FailureCode["InvalidPortalPath"] = 9
  BY DEF FailureCode
<1>4. \A kind \in Others : kind # "none" /\ FailureCode[kind] \in 1..9 \ {7, 8}
  BY <1>3 DEF Others, PrepareErrors
<1>5. CodeOf(NoError) = 0
  BY DEF CodeOf
<1> QED BY <1>2, <1>3, <1>4, <1>5

LEMMA ErrorsApart ==
  /\ NoError # Failure("Cancelled")
  /\ NoError # Failure("SendFailed")
  /\ Failure("Cancelled") # Failure("SendFailed")
  /\ NoError # Failure("DevicePaused")
  /\ NoError # Failure("TransportDisconnected")
<1>1. \A kind : Failure(kind).error = kind
  BY DEF Failure
<1>2. NoError.error = "none"
  BY DEF NoError
<1> QED BY <1>1, <1>2

-----------------------------------------------------------------------------
(* Each step keeps the invariant. *)

USE DEF At

\* Ending with an error that is not the failed release, before anything is sent;
\* what was opened may be left open.
LEMMA EndsLeaving ==
  ASSUME ProbeInv, emission.at \in {"countdown", "preflight"}, NEW kind, NEW left \in BOOLEAN,
         kind \in Others \/ (kind = "Cancelled" /\ emission.stop),
         emission' = [emission EXCEPT !.at = "over", !.code = CodeOf(Failure(kind)),
                                      !.open = left]
  PROVE  ProbeInv'
<1>1. PICK code \in 1..9 :
        /\ emission' = [emission EXCEPT !.at = "over", !.code = code, !.open = left]
        /\ code # 7 /\ (code = 8 => emission.stop)
  <2>1. /\ CodeOf(Failure(kind)) \in 1..9 \ {7}
        /\ CodeOf(Failure(kind)) = 8 => emission.stop
    BY CodesOfErrors
  <2> QED BY <2>1
<1>2. code \in 0..9
  OBVIOUS
<1>3. ProbeTypeOK'
  BY <1>1, <1>2 DEF ProbeInv, ProbeTypeOK
<1>4. /\ emission'.at = "over" /\ emission'.code = code /\ emission'.held = emission.held
      /\ emission'.caps = emission.caps /\ emission'.sent = emission.sent
      /\ emission'.stop = emission.stop
  BY <1>1 DEF ProbeInv, ProbeTypeOK
<1>5. UntilPattern' /\ InPattern' /\ Behind' /\ Clean'
  BY <1>4 DEF UntilPattern, InPattern, Behind, Clean
<1>6. EmissionAccountedFor'
  BY <1>1, <1>4 DEF ProbeInv, UntilPattern, EmissionAccountedFor
<1> QED BY <1>3, <1>5, <1>6 DEF ProbeInv

LEMMA EndsEarly ==
  ASSUME ProbeInv, emission.at \in {"countdown", "preflight"}, NEW kind,
         kind \in Others \/ (kind = "Cancelled" /\ emission.stop),
         End(Failure(kind))
  PROVE  ProbeInv'
<1>1. emission.open \in BOOLEAN
  BY DEF ProbeInv, ProbeTypeOK
<1>2. emission = [emission EXCEPT !.open = emission.open]
  BY DEF ProbeInv, ProbeTypeOK
<1>3. emission' = [emission EXCEPT !.at = "over", !.code = CodeOf(Failure(kind)),
                                   !.open = emission.open]
  BY <1>2 DEF End
<1> QED BY <1>1, <1>3, EndsLeaving

LEMMA StopKeeps ==
  ASSUME ProbeInv, StopRequested
  PROVE  ProbeInv'
<1>1. emission' = [emission EXCEPT !.stop = TRUE] /\ emission.at \notin {"off", "over"}
  BY DEF StopRequested
<1>2. ProbeTypeOK'
  BY <1>1 DEF ProbeInv, ProbeTypeOK
<1>3. /\ emission'.at = emission.at /\ emission'.step = emission.step
      /\ emission'.done = emission.done /\ emission'.caps = emission.caps
      /\ emission'.sent = emission.sent /\ emission'.held = emission.held
      /\ emission'.pattern = emission.pattern /\ emission'.stop
      /\ emission'.interruption = emission.interruption /\ emission'.open = emission.open
  BY <1>1 DEF ProbeInv, ProbeTypeOK
<1>4. UntilPattern' /\ InPattern' /\ Behind' /\ Clean'
  BY <1>3 DEF ProbeInv, UntilPattern, InPattern, Behind, Clean, Now
<1>5. EmissionAccountedFor'
  BY <1>1, <1>3 DEF EmissionAccountedFor
<1> QED BY <1>2, <1>4, <1>5 DEF ProbeInv

LEMMA CountKeeps ==
  ASSUME ProbeInv, CountDown \/ StatusUnwritable \/ PreflightFails
  PROVE  ProbeInv'
<1>1. CASE CountDown
  <2>1. CASE emission.stop
    BY <1>1, <2>1, EndsEarly DEF CountDown
  <2>2. CASE ~emission.stop
    <3>1. PICK place \in {"countdown", "preflight"}, left \in Int :
            emission' = [emission EXCEPT !.at = place, !.left = left]
      <4>0. /\ emission.left \in Int /\ emission.at = "countdown"
            /\ emission = [emission EXCEPT !.at = "countdown"]
            /\ emission = [emission EXCEPT !.left = emission.left]
        BY <1>1 DEF CountDown, ProbeInv, ProbeTypeOK
      <4>1. CASE emission.left = 0
        <5>1. emission' = [emission EXCEPT !.at = "preflight"]
          BY <1>1, <2>2, <4>1 DEF CountDown
        <5>2. emission' = [emission EXCEPT !.at = "preflight", !.left = emission.left]
          BY <5>1, <4>0
        <5> QED BY <5>2, <4>0
      <4>2. CASE emission.left # 0
        <5>1. emission' = [emission EXCEPT !.left = @ - 1]
          BY <1>1, <2>2, <4>2 DEF CountDown
        <5>2. emission' = [emission EXCEPT !.at = "countdown", !.left = emission.left - 1]
          BY <5>1, <4>0
        <5>3. emission.left - 1 \in Int /\ "countdown" \in {"countdown", "preflight"}
          BY <4>0
        <5> QED BY <5>2, <5>3, Zenon
      <4> QED BY <4>1, <4>2
    <3>2. ProbeTypeOK'
      BY <3>1 DEF ProbeInv, ProbeTypeOK
    <3>3. /\ emission'.at = place /\ emission'.step = emission.step
          /\ emission'.done = emission.done /\ emission'.sent = emission.sent
          /\ emission'.held = emission.held /\ emission'.open = emission.open
          /\ emission'.caps = emission.caps
          /\ emission'.pattern = emission.pattern
          /\ emission'.interruption = emission.interruption
      BY <3>1 DEF ProbeInv, ProbeTypeOK
    <3>4. UntilPattern'
      <4>1. emission.at = "countdown"
        BY <1>1 DEF CountDown
      <4> QED BY <3>3, <4>1 DEF ProbeInv, UntilPattern
    <3>5. emission'.at \in {"countdown", "preflight"}
      BY <3>3
    <3>6. InPattern' /\ Behind' /\ Clean' /\ EmissionAccountedFor'
      BY <3>5 DEF InPattern, Behind, Clean, EmissionAccountedFor
    <3> QED BY <3>2, <3>4, <3>6 DEF ProbeInv
  <2> QED BY <2>1, <2>2
<1>2. CASE StatusUnwritable
  <2>1. emission.at = "countdown" /\ End(Failure("Internal"))
    BY <1>2 DEF StatusUnwritable
  <2>2. "Internal" \in Others
    BY DEF Others
  <2>3. emission.at \in {"countdown", "preflight"}
    BY <2>1
  <2> QED BY <2>1, <2>2, <2>3, EndsEarly, Zenon
<1>3. CASE PreflightFails
  <2>1. PICK kind \in {"NoSessionBus", "PortalUnavailable", "LibraryMissing"} :
          emission.at = "preflight" /\ End(Failure(kind))
    BY <1>3 DEF PreflightFails
  <2>2. kind \in Others
    BY DEF Others, PrepareErrors
  <2>3. emission.at \in {"countdown", "preflight"}
    BY <2>1
  <2> QED BY <2>1, <2>2, <2>3, EndsEarly, Zenon
<1> QED BY <1>1, <1>2, <1>3

LEMMA PrepareKeeps ==
  ASSUME ProbeInv, Prepare \/ PrepareFails
  PROVE  ProbeInv'
<1>1. CASE PrepareFails
  <2>1. PICK kind \in PrepareErrors \cup (IF emission.stop THEN {"Cancelled"} ELSE {}),
             left \in BOOLEAN :
          emission' = [emission EXCEPT !.at = "over", !.code = CodeOf(Failure(kind)),
                                       !.open = left]
    BY <1>1 DEF PrepareFails
  <2>2. emission.at \in {"countdown", "preflight"}
    BY <1>1 DEF PrepareFails
  <2>3. kind \in Others \/ (kind = "Cancelled" /\ emission.stop)
    <3>1. CASE emission.stop
      BY <3>1 DEF Others
    <3>2. CASE ~emission.stop
      BY <3>2 DEF Others
    <3> QED BY <3>1, <3>2
  <2> QED BY <2>1, <2>2, <2>3, EndsLeaving
<1>2. ASSUME NEW caps \in Offers, Prepare,
             emission' = [emission EXCEPT !.at = "pattern", !.caps = caps, !.open = TRUE]
      PROVE  ProbeInv'
  <2>1. caps \subseteq Capabilities
    BY <1>2 DEF Offers, Capabilities
  <2>2. ProbeTypeOK'
    BY <1>2, <2>1 DEF ProbeInv, ProbeTypeOK
  <2>3. /\ emission'.at = "pattern" /\ emission'.step = 1 /\ emission'.done = 0
        /\ emission'.sent = <<>> /\ emission'.caps = caps
        /\ emission'.pattern = NoError /\ emission'.interruption = NoError
    BY <1>2 DEF ProbeInv, ProbeTypeOK, UntilPattern, Prepare
  <2>4. emission'.sent = SentAfter(emission'.caps, emission'.step - 1) \o <<>>
    <3>1. SentAfter(emission'.caps, emission'.step - 1) = <<>>
      BY <2>3, SentBySteps
    <3> QED BY <3>1, <2>3
  <2>5. InPattern'
    BY <2>3, <2>4 DEF InPattern
  <2>6. UntilPattern' /\ Behind' /\ Clean' /\ EmissionAccountedFor'
    BY <2>3 DEF UntilPattern, Behind, Clean, EmissionAccountedFor
  <2> QED BY <2>2, <2>5, <2>6 DEF ProbeInv
<1> QED BY <1>1, <1>2 DEF Prepare

LEMMA HeldStaysTyped ==
  ASSUME NEW held \in SUBSET {"left", "right", "scroll"}, NEW event
  PROVE  HeldAfter(held, event) \in SUBSET {"left", "right", "scroll"}
<1>1. \A e \in DOMAIN Presses : Presses[e] \in {"left", "right", "scroll"}
  BY DEF Presses
<1> QED BY <1>1 DEF HeldAfter

\* The pattern ends with an error, or with none and everything sent.
LEMMA PatternEndKeeps ==
  ASSUME ProbeInv, emission.at = "pattern", NEW failure \in PatternErrors,
         NEW interruption \in Interruptions, NEW held \in SUBSET {"left", "right", "scroll"},
         emission' = [emission EXCEPT !.at = "cleanup", !.pattern = failure,
                                      !.interruption = interruption, !.held = held],
         failure = NoError => emission.sent = EventsFor(emission.caps),
         failure = Failure("Cancelled") => emission.stop
  PROVE  ProbeInv'
<1>1. ProbeTypeOK'
  BY DEF ProbeInv, ProbeTypeOK
<1>2. /\ emission'.at = "cleanup" /\ emission'.pattern = failure
      /\ emission'.sent = emission.sent /\ emission'.caps = emission.caps
      /\ emission'.stop = emission.stop
  BY DEF ProbeInv, ProbeTypeOK
<1>3. UntilPattern' /\ InPattern' /\ Clean' /\ EmissionAccountedFor'
  BY <1>2 DEF UntilPattern, InPattern, Clean, EmissionAccountedFor
<1>4. Behind'
  BY <1>2 DEF Behind, EventsFor
<1> QED BY <1>1, <1>3, <1>4 DEF ProbeInv

LEMMA EndingKeeps ==
  ASSUME ProbeInv, Cancel \/ PatternDone \/ SubmitFails
  PROVE  ProbeInv'
<1>1. /\ emission.at = "pattern" /\ emission.interruption = NoError
      /\ emission = [emission EXCEPT !.interruption = NoError, !.held = emission.held]
      /\ emission.held \in SUBSET {"left", "right", "scroll"}
  <2>1. emission.at = "pattern"
    BY DEF Cancel, PatternDone, SubmitFails, BetweenSteps, Submitting
  <2>2. emission.interruption = NoError
    BY <2>1 DEF ProbeInv, InPattern
  <2>3. /\ emission = [emission EXCEPT !.interruption = emission.interruption,
                                       !.held = emission.held]
        /\ emission.held \in SUBSET {"left", "right", "scroll"}
    BY DEF ProbeInv, ProbeTypeOK
  <2> QED BY <2>1, <2>2, <2>3
<1>2. NoError \in Interruptions /\ NoError \in PatternErrors
      /\ Failure("Cancelled") \in PatternErrors
      /\ Failure("SendFailed") \in PatternErrors
  BY DEF Interruptions, PatternErrors
<1>3. CASE Cancel
  <2>1. emission' = [emission EXCEPT !.at = "cleanup", !.pattern = Failure("Cancelled")]
        /\ emission.stop
    BY <1>3 DEF Cancel, PatternEnds
  <2>2. emission' = [emission EXCEPT !.at = "cleanup", !.pattern = Failure("Cancelled"),
                                     !.interruption = NoError, !.held = emission.held]
    BY <2>1, <1>1
  <2> QED BY <2>1, <2>2, <1>1, <1>2, ErrorsApart, PatternEndKeeps
<1>4. CASE PatternDone
  <2>1. emission' = [emission EXCEPT !.at = "cleanup", !.pattern = NoError]
    BY <1>4 DEF PatternDone, PatternEnds
  <2>2. emission' = [emission EXCEPT !.at = "cleanup", !.pattern = NoError,
                                     !.interruption = NoError, !.held = emission.held]
    BY <2>1, <1>1
  <2>3. emission.step = Steps + 1 /\ emission.done = 0
    BY <1>4, PatternShape DEF PatternDone, BetweenSteps, ProbeInv, ProbeTypeOK, Steps
  <2>4. emission.sent = SentAfter(emission.caps, Steps) \o <<>>
    BY <2>3, <1>1 DEF ProbeInv, InPattern, Steps
  <2>5. SentAfter(emission.caps, Steps) \in Seq(Words)
    BY SentBySteps DEF Steps
  <2>6. emission.sent = SentAfter(emission.caps, Steps)
    BY <2>4, <2>5, ConcatEmptySeq
  <2>7. emission.sent = EventsFor(emission.caps)
    BY <2>6, SentBySteps
  <2> QED BY <2>2, <2>7, <1>1, <1>2, ErrorsApart, PatternEndKeeps
<1>5. CASE SubmitFails
  <2>1. PICK interruption \in Interruptions, reached \in BOOLEAN :
          emission' = [emission EXCEPT
            !.at = "cleanup", !.pattern = Failure("SendFailed"),
            !.interruption = interruption,
            !.held = IF reached THEN HeldAfter(emission.held, Now.events[emission.done + 1])
                     ELSE emission.held]
    BY <1>5 DEF SubmitFails, Interruptions
  <2>2. PICK held : held = IF reached THEN HeldAfter(emission.held, Now.events[emission.done + 1])
                          ELSE emission.held
    OBVIOUS
  <2>3. held \in SUBSET {"left", "right", "scroll"}
    BY <1>1, <2>2, HeldStaysTyped
  <2>4. emission' = [emission EXCEPT
          !.at = "cleanup", !.pattern = Failure("SendFailed"),
          !.interruption = interruption, !.held = held]
    BY <2>1, <2>2
  <2> QED BY <2>3, <2>4, <1>1, <1>2, ErrorsApart, PatternEndKeeps
<1> QED BY <1>3, <1>4, <1>5

LEMMA SkipKeeps ==
  ASSUME ProbeInv, SkipStep
  PROVE  ProbeInv'
<1>1. /\ emission.at = "pattern" /\ emission.done = 0 /\ emission.step \in 1..Steps
      /\ Pattern[emission.step].needs \notin emission.caps
      /\ emission' = [emission EXCEPT !.step = emission.step + 1]
  BY PatternShape DEF SkipStep, BetweenSteps, Now, ProbeInv, ProbeTypeOK, Steps
<1>2. ProbeTypeOK'
  BY <1>1 DEF ProbeInv, ProbeTypeOK, Steps
<1>3. /\ emission'.at = "pattern" /\ emission'.done = 0 /\ emission'.caps = emission.caps
      /\ emission'.step - 1 = emission.step /\ emission'.sent = emission.sent
      /\ emission'.pattern = NoError /\ emission'.interruption = NoError
  BY <1>1 DEF ProbeInv, ProbeTypeOK, InPattern, Steps
<1>4. emission.sent = SentAfter(emission.caps, emission.step - 1) \o <<>>
  BY <1>1 DEF ProbeInv, InPattern
<1>5. SentAfter(emission.caps, emission.step) = SentAfter(emission.caps, emission.step - 1) \o <<>>
  <2>1. Agreed(emission.caps, emission.step) = <<>>
    BY <1>1 DEF Agreed
  <2> QED BY <2>1, <1>1, SentBySteps
<1>6. SentAfter(emission.caps, emission.step) \in Seq(Words)
  BY <1>1, SentBySteps DEF Steps
<1>7. emission'.sent = SentAfter(emission'.caps, emission'.step - 1) \o <<>>
  BY <1>3, <1>4, <1>5, <1>6, ConcatEmptySeq
<1>8. InPattern'
  BY <1>3, <1>7 DEF InPattern
<1>9. UntilPattern' /\ Behind' /\ Clean' /\ EmissionAccountedFor'
  BY <1>3 DEF UntilPattern, Behind, Clean, EmissionAccountedFor
<1> QED BY <1>2, <1>8, <1>9 DEF ProbeInv

\* Where the next event of a step is.
LEMMA NextPlace ==
  ASSUME NEW done \in 0..3, NEW length \in 1..4, done > 0 => done < length
  PROVE  /\ done \in 0..length - 1
         /\ done + 1 # length => done + 1 \in 0..3 /\ done + 1 < length /\ done + 1 # 0
OBVIOUS

LEMMA SubmitKeeps ==
  ASSUME ProbeInv, Submit
  PROVE  ProbeInv'
<1>1. PICK events \in Seq(Words) :
        events = Pattern[emission.step].events /\ Len(events) \in 1..4
              /\ emission.step \in 1..Steps
  BY PatternShape DEF Submit, Submitting, ProbeInv, ProbeTypeOK, Steps
<1>2. Len(events) \in 1..4 /\ emission.step \in 1..6
  BY <1>1 DEF Steps
<1>3. PICK earlier \in Seq(Words) : earlier = SentAfter(emission.caps, emission.step - 1)
  <2>1. SentAfter(emission.caps, emission.step - 1) \in Seq(Words)
    BY <1>1, SentBySteps DEF Steps
  <2> QED BY <2>1
<1>4. PICK done : done = emission.done
  OBVIOUS
<1>5. PICK part : part = IF done = 0 THEN <<>> ELSE SubSeq(events, 1, done)
  OBVIOUS
<1>6. PICK event : event = events[done + 1]
  OBVIOUS
<1>7. PICK last \in BOOLEAN : last = (done + 1 = Len(events))
  OBVIOUS
<1>8. /\ emission.at = "pattern" /\ Pattern[emission.step].needs \in emission.caps
      /\ emission' = [emission EXCEPT
           !.sent = Append(emission.sent, event),
           !.held = HeldAfter(emission.held, event),
           !.done = IF last THEN 0 ELSE done + 1,
           !.step = IF last THEN emission.step + 1 ELSE emission.step]
  BY <1>1, <1>4, <1>6, <1>7 DEF Submit, Submitting, Now
<1>9. /\ emission.sent = earlier \o part
      /\ emission.pattern = NoError /\ emission.interruption = NoError
  BY <1>1, <1>3, <1>4, <1>5, <1>8 DEF ProbeInv, InPattern, Now
<1>10. /\ done \in 0..Len(events) - 1
       /\ done + 1 # Len(events) =>
            done + 1 \in 0..3 /\ done + 1 < Len(events) /\ done + 1 # 0
  <2>1. done \in 0..3 /\ (done > 0 => done < Len(events))
    BY <1>1, <1>4, <1>8 DEF ProbeInv, ProbeTypeOK, InPattern, Now
  <2> QED BY <2>1, <1>2, NextPlace, Zenon
<1>11. /\ Append(emission.sent, event) = earlier \o SubSeq(events, 1, done + 1)
       /\ last => Append(emission.sent, event) = earlier \o events
  <2>1. /\ Append(earlier \o part, events[done + 1]) = earlier \o SubSeq(events, 1, done + 1)
        /\ done + 1 = Len(events) =>
             Append(earlier \o part, events[done + 1]) = earlier \o events
    <3>1. (done = 0 => part = <<>>) /\ (done # 0 => part = SubSeq(events, 1, done))
      BY <1>5
    <3> QED BY <3>1, <1>10, OneEventMore, Zenon
  <2> QED BY <2>1, <1>6, <1>7, <1>9
<1>12. earlier \o events = SentAfter(emission.caps, emission.step)
  <2>1. Agreed(emission.caps, emission.step) = events
    BY <1>1, <1>8 DEF Agreed
  <2> QED BY <2>1, <1>1, <1>3, SentBySteps
<1>13. event \in Words
  BY <1>1, <1>6, <1>10
<1>14. HeldAfter(emission.held, event) \in SUBSET {"left", "right", "scroll"}
  BY HeldStaysTyped DEF ProbeInv, ProbeTypeOK
<1>15. /\ emission'.at = "pattern" /\ emission'.caps = emission.caps
       /\ emission'.sent = Append(emission.sent, event)
       /\ emission'.done = (IF last THEN 0 ELSE done + 1)
       /\ emission'.step = (IF last THEN emission.step + 1 ELSE emission.step)
       /\ emission'.pattern = NoError /\ emission'.interruption = NoError
  BY <1>8, <1>9 DEF ProbeInv, ProbeTypeOK
<1>16. ProbeTypeOK'
  <2>1. Append(emission.sent, event) \in Seq(Words)
    BY <1>13 DEF ProbeInv, ProbeTypeOK
  <2>2. (IF last THEN 0 ELSE done + 1) \in 0..3
        /\ (IF last THEN emission.step + 1 ELSE emission.step) \in 1..Steps + 1
    <3>1. 0 \in 0..3 /\ emission.step \in 1..Steps + 1 /\ emission.step + 1 \in 1..Steps + 1
      BY <1>2 DEF Steps
    <3> QED BY <3>1, <1>7, <1>10, Zenon
  <2> QED BY <1>8, <1>14, <2>1, <2>2 DEF ProbeInv, ProbeTypeOK
<1>17. InPattern'
  <2>1. CASE last
    <3>1. emission'.step - 1 = emission.step /\ emission'.done = 0
      BY <1>1, <1>15, <2>1 DEF Steps
    <3>2. SentAfter(emission.caps, emission.step) \in Seq(Words)
      BY <1>1, SentBySteps DEF Steps
    <3>3. emission'.sent = SentAfter(emission'.caps, emission'.step - 1) \o <<>>
      BY <3>1, <3>2, <1>11, <1>12, <1>15, <2>1, ConcatEmptySeq
    <3> QED BY <3>1, <3>3, <1>15 DEF InPattern
  <2>2. CASE ~last
    <3>1. /\ emission'.step = emission.step /\ emission'.done = done + 1
          /\ done + 1 < Len(events) /\ done + 1 # 0
      BY <1>7, <1>10, <1>15, <2>2, Zenon
    <3>2. Now'.events = events /\ Now'.needs = Pattern[emission.step].needs
      BY <1>1, <3>1 DEF Now, Pattern
    <3>3. emission'.sent = SentAfter(emission'.caps, emission'.step - 1)
                             \o SubSeq(Now'.events, 1, emission'.done)
      BY <3>1, <3>2, <1>3, <1>11, <1>15
    <3>4. emission'.step <= Steps /\ Now'.needs \in emission'.caps
          /\ emission'.done < Len(Now'.events)
      BY <3>1, <3>2, <1>1, <1>8, <1>15 DEF Steps
    <3> QED BY <3>1, <3>3, <3>4, <1>15 DEF InPattern
  <2> QED BY <2>1, <2>2
<1>18. UntilPattern' /\ Behind' /\ Clean' /\ EmissionAccountedFor'
  BY <1>15 DEF UntilPattern, Behind, Clean, EmissionAccountedFor
<1> QED BY <1>16, <1>17, <1>18 DEF ProbeInv

\* The cleanup tells of a failed release earlier everything, and of success only
\* when the pattern came to its end.
LEMMA CleanupKeeps ==
  ASSUME ProbeInv, Cleanup
  PROVE  ProbeInv'
<1>1. PICK released \in BOOLEAN, reset \in BOOLEAN, closed \in BOOLEAN,
           held \in SUBSET {"left", "right", "scroll"} :
        /\ released => reset /\ closed
        /\ reset => held = {}
        /\ emission' = [emission EXCEPT
             !.at = IF Reported(released) = NoError THEN "report" ELSE "over",
             !.code = CodeOf(Reported(released)),
             !.held = held, !.open = ~(reset /\ closed)]
  <2>1. PICK lifted \in SUBSET emission.held, answered \in BOOLEAN,
             reset \in BOOLEAN, closed \in BOOLEAN :
          emission' = [emission EXCEPT
            !.at = IF Reported(answered /\ reset /\ closed) = NoError
                   THEN "report" ELSE "over",
            !.code = CodeOf(Reported(answered /\ reset /\ closed)),
            !.held = IF reset THEN {} ELSE emission.held \ lifted,
            !.open = ~(reset /\ closed)]
    BY DEF Cleanup
  <2>2. PICK released \in BOOLEAN : released = (answered /\ reset /\ closed)
    OBVIOUS
  <2>3. PICK held \in SUBSET {"left", "right", "scroll"} :
          held = IF reset THEN {} ELSE emission.held \ lifted
    BY DEF ProbeInv, ProbeTypeOK
  <2>4. emission' = [emission EXCEPT
          !.at = IF Reported(released) = NoError THEN "report" ELSE "over",
          !.code = CodeOf(Reported(released)),
          !.held = held, !.open = ~(reset /\ closed)]
    BY <2>1, <2>2, <2>3, Zenon
  <2> QED BY <2>2, <2>3, <2>4, Zenon
<1> DEFINE reported == Reported(released)
           code == CodeOf(reported)
<1>2. /\ ~released => reported = Failure("ReleaseFailed")
      /\ released => \/ reported = NoError /\ emission.pattern = NoError
                     \/ reported = Failure("Cancelled")
                          /\ emission.pattern = Failure("Cancelled")
                     \/ reported \in {Failure("SendFailed"), Failure("DevicePaused"),
                                      Failure("TransportDisconnected")}
  BY DEF Reported, ProbeInv, ProbeTypeOK, PatternErrors, Interruptions
<1>3. {"SendFailed", "DevicePaused", "TransportDisconnected"} \subseteq Others
  BY DEF Others, PrepareErrors
<1>. code = CodeOf(reported)
  OBVIOUS
<1>4. /\ code \in 0..9
      /\ code # 7 => released
      /\ code = 8 => emission.pattern = Failure("Cancelled")
      /\ code = 0 => reported = NoError
      /\ reported = NoError =>
           code = 0 /\ released /\ emission.pattern = NoError
  <2> HIDE DEF code, reported
  <2>1. Failure("ReleaseFailed") # NoError
    BY CodesOfErrors
  <2>2. ASSUME NEW kind \in Others PROVE Failure(kind) # NoError
    BY CodesOfErrors, <2>2
  <2>3. CASE ~released
    BY <2>3, <1>2, <2>1, CodesOfErrors
  <2>4. CASE released /\ reported = NoError /\ emission.pattern = NoError
    BY <2>4, CodesOfErrors
  <2>5. CASE released /\ reported = Failure("Cancelled")
                      /\ emission.pattern = Failure("Cancelled")
    BY <2>5, CodesOfErrors, ErrorsApart
  <2>6. CASE released /\ reported \in {Failure("SendFailed"), Failure("DevicePaused"),
                                       Failure("TransportDisconnected")}
    <3>1. PICK kind \in Others : reported = Failure(kind)
      BY <2>6, <1>3
    <3>2. code \in 1..9 \ {7, 8} /\ reported # NoError
      BY <3>1, <2>2, CodesOfErrors
    <3> QED BY <3>2, <2>6
  <2> QED BY <2>3, <2>4, <2>5, <2>6, <1>2
<1> HIDE DEF code, reported
<1>5. emission' = [emission EXCEPT
          !.at = IF reported = NoError THEN "report" ELSE "over", !.code = code,
          !.held = held, !.open = ~(reset /\ closed)]
  BY <1>1, Zenon DEF code, reported
<1>6. ProbeTypeOK'
  BY <1>4, <1>5 DEF ProbeInv, ProbeTypeOK
<1>7. /\ emission'.at = (IF reported = NoError THEN "report" ELSE "over")
      /\ emission'.code = code /\ emission'.open = ~(reset /\ closed)
      /\ emission'.held = held
      /\ emission'.pattern = emission.pattern /\ emission'.stop = emission.stop
      /\ emission'.sent = emission.sent /\ emission'.caps = emission.caps
  BY <1>5 DEF ProbeInv, ProbeTypeOK
<1>8. /\ emission.pattern = NoError => emission.sent = EventsFor(emission.caps)
      /\ emission.pattern = Failure("Cancelled") => emission.stop
  BY DEF Cleanup, ProbeInv, Behind
<1>9. UntilPattern' /\ InPattern'
  BY <1>7 DEF UntilPattern, InPattern
<1>10. Behind' /\ Clean'
  <2>1. CASE reported = NoError
    <3>1. emission'.at = "report" /\ released /\ emission'.pattern = NoError
      BY <1>4, <1>7, <2>1
    <3>2. emission'.held = {} /\ ~emission'.open
      BY <1>1, <1>7, <3>1
    <3>3. emission'.sent = EventsFor(emission'.caps)
      BY <1>7, <1>8, <3>1
    <3> QED BY <3>1, <3>2, <3>3, ErrorsApart DEF Behind, Clean, EventsFor
  <2>2. CASE reported # NoError
    <3>1. emission'.at = "over"
      BY <1>7, <2>2
    <3> QED BY <3>1 DEF Behind, Clean
  <2> QED BY <2>1, <2>2
<1>11. EmissionAccountedFor'
  <2>1. SUFFICES ASSUME emission'.at = "over"
                 PROVE  /\ code = 0 => /\ emission'.sent = EventsFor(emission'.caps)
                                       /\ emission'.pattern = NoError
                                       /\ ~emission'.open
                        /\ code = 8 => emission'.stop
                        /\ code # 7 => emission'.held = {} /\ ~emission'.open
    BY <1>7 DEF EmissionAccountedFor, EventsFor
  <2>2. reported # NoError
    BY <2>1, <1>7
  <2> QED BY <2>2, <1>1, <1>4, <1>7, <1>8
<1> QED BY <1>6, <1>9, <1>10, <1>11 DEF ProbeInv

LEMMA ReportKeeps ==
  ASSUME ProbeInv, Report
  PROVE  ProbeInv'
<1>1. PICK code \in {0, 9} : emission' = [emission EXCEPT !.at = "over", !.code = code]
  <2>1. CodeOf(Failure("Internal")) \in 1..9 \ {7, 8}
    BY CodesOfErrors DEF Others
  <2>2. CodeOf(Failure("Internal")) = 9
    BY DEF CodeOf, FailureCode, Failure, NoError
  <2> QED BY <2>2, CodesOfErrors DEF Report, End
<1>2. code \in 0..9
  BY <1>1
<1>3. ProbeTypeOK'
  BY <1>1, <1>2 DEF ProbeInv, ProbeTypeOK
<1>4. /\ emission'.at = "over" /\ emission'.code = code
      /\ emission'.sent = emission.sent /\ emission'.caps = emission.caps
      /\ emission'.pattern = NoError
      /\ emission'.held = {} /\ ~emission'.open
      /\ emission.sent = EventsFor(emission.caps)
  BY <1>1 DEF Report, ProbeInv, ProbeTypeOK, Clean, Behind
<1>5. UntilPattern' /\ InPattern' /\ Behind' /\ Clean'
  BY <1>4 DEF UntilPattern, InPattern, Behind, Clean
<1>6. EmissionAccountedFor'
  <2>1. SUFFICES /\ code = 0 => /\ emission'.sent = EventsFor(emission'.caps)
                                /\ emission'.pattern = NoError
                                /\ ~emission'.open
                 /\ code = 8 => emission'.stop
                 /\ code # 7 => emission'.held = {} /\ ~emission'.open
    BY <1>4 DEF EmissionAccountedFor, EventsFor
  <2> QED BY <1>1, <1>4
<1> QED BY <1>3, <1>5, <1>6 DEF ProbeInv

\* An emission that was reset, or has begun.
Started ==
  \/ emission = NoEmission
  \/ emission = [NoEmission EXCEPT !.at = "countdown"]

LEMMA ProbeStarts == Started => ProbeInv
<1>1. SUFFICES ASSUME Started PROVE ProbeInv
  OBVIOUS
<1>2. PICK place \in {"off", "countdown"} :
        emission = [at |-> place, left |-> 3, step |-> 1, done |-> 0, caps |-> {}, sent |-> <<>>,
                    held |-> {}, stop |-> FALSE, pattern |-> NoError,
                    interruption |-> NoError, open |-> FALSE, code |-> 0]
  BY <1>1 DEF Started, NoEmission, COUNTDOWN_SECONDS
<1>3. ProbeTypeOK
  <2>1. NoError \in Interruptions /\ NoError \in PatternErrors
    BY DEF Interruptions, PatternErrors
  <2>2. <<>> \in Seq(Words) /\ 1 \in 1..Steps + 1
    BY DEF Steps
  <2> QED BY <1>2, <2>1, <2>2 DEF ProbeTypeOK
<1> QED BY <1>2, <1>3 DEF ProbeInv, UntilPattern, InPattern, Behind, Clean,
     EmissionAccountedFor

\* However the countdown, the stop, the opening, the pattern and the cleanup go,
\* for every set of capabilities on offer: an exit code of 0 means that everything
\* the desktop agreed to was sent whole and in order, nothing is held and the session
\* is closed, 8 that a stop was asked for, and any but 7 that nothing is held; a
\* session that may still be open has code 7 or is what a preparation left that
\* failed before anything was sent.
THEOREM EmissionAnswersForItself == ProbeSpec => []EmissionAccountedFor
<1>1. emission = NoEmission => Started
  BY DEF Started
<1>2. Started => ProbeInv
  BY ProbeStarts
<1>3. (Started => ProbeInv)'
  BY ProbeStarts, PTL
<1>4. ASSUME ProbeInv, ProbeNext PROVE ProbeInv'
  <2>1. CASE BeginEmission \/ emission' = NoEmission
    <3>1. Started'
      BY <2>1 DEF BeginEmission, Started
    <3> QED BY <3>1, <1>3
  <2>2. CASE EmissionStep
    BY <1>4, <2>2, StopKeeps, CountKeeps, PrepareKeeps, EndingKeeps, SkipKeeps, SubmitKeeps,
      CleanupKeeps, ReportKeeps DEF EmissionStep
  <2> QED BY <1>4, <2>1, <2>2 DEF ProbeNext
<1>5. UNCHANGED emission /\ ProbeInv => ProbeInv'
  BY DEF ProbeInv, ProbeTypeOK, UntilPattern, InPattern, Behind, Clean,
    EmissionAccountedFor, Now
<1>6. ProbeInv => EmissionAccountedFor
  BY DEF ProbeInv
<1> QED BY <1>1, <1>2, <1>4, <1>5, <1>6, PTL DEF ProbeSpec

-----------------------------------------------------------------------------
(* The profiles.  Every stage a profile is built of is validated by its    *)
(* own constructor, so that a document which validates has to make every   *)
(* one of them acceptable.  A policy is Policy(...), and an EXCEPT on one  *)
(* of its parts leaves the others.                                         *)

Policy(threshold, tap, two_finger, fidelity, scroll, robustness, gesture, drag, drag_fidelity, bindings) ==
  [threshold |-> threshold, tap |-> tap, two_finger |-> two_finger, fidelity |-> fidelity,
   scroll |-> scroll, robustness |-> robustness, gesture |-> gesture, drag |-> drag,
   drag_fidelity |-> drag_fidelity, bindings |-> bindings]

LEMMA TapSet ==
  ASSUME NEW a, NEW b, NEW c, NEW d, NEW e, NEW f, NEW g, NEW h, NEW i, NEW j, NEW v
  PROVE  [Policy(a, b, c, d, e, f, g, h, i, j) EXCEPT !.tap = v] =
           Policy(a, v, c, d, e, f, g, h, i, j)
BY DEF Policy

LEMMA FidelitySet ==
  ASSUME NEW a, NEW b, NEW c, NEW d, NEW e, NEW f, NEW g, NEW h, NEW i, NEW j, NEW v
  PROVE  [Policy(a, b, c, d, e, f, g, h, i, j) EXCEPT !.fidelity = v] =
           Policy(a, b, c, v, e, f, g, h, i, j)
BY DEF Policy

LEMMA ScrollSet ==
  ASSUME NEW a, NEW b, NEW c, NEW d, NEW e, NEW f, NEW g, NEW h, NEW i, NEW j, NEW v
  PROVE  [Policy(a, b, c, d, e, f, g, h, i, j) EXCEPT !.scroll = v] =
           Policy(a, b, c, d, v, f, g, h, i, j)
BY DEF Policy

LEMMA RobustnessSet ==
  ASSUME NEW a, NEW b, NEW c, NEW d, NEW e, NEW f, NEW g, NEW h, NEW i, NEW j, NEW v
  PROVE  [Policy(a, b, c, d, e, f, g, h, i, j) EXCEPT !.robustness = v] =
           Policy(a, b, c, d, e, v, g, h, i, j)
BY DEF Policy

LEMMA GestureSet ==
  ASSUME NEW a, NEW b, NEW c, NEW d, NEW e, NEW f, NEW g, NEW h, NEW i, NEW j, NEW v
  PROVE  [Policy(a, b, c, d, e, f, g, h, i, j) EXCEPT !.gesture = v] =
           Policy(a, b, c, d, e, f, v, h, i, j)
BY DEF Policy

LEMMA DragSet ==
  ASSUME NEW a, NEW b, NEW c, NEW d, NEW e, NEW f, NEW g, NEW h, NEW i, NEW j, NEW v
  PROVE  [Policy(a, b, c, d, e, f, g, h, i, j) EXCEPT !.drag = v] =
           Policy(a, b, c, d, e, f, g, v, i, j)
BY DEF Policy

LEMMA DragFidelitySet ==
  ASSUME NEW a, NEW b, NEW c, NEW d, NEW e, NEW f, NEW g, NEW h, NEW i, NEW j, NEW v
  PROVE  [Policy(a, b, c, d, e, f, g, h, i, j) EXCEPT !.drag_fidelity = v] =
           Policy(a, b, c, d, e, f, g, h, v, j)
BY DEF Policy

LEMMA BindingsSet ==
  ASSUME NEW a, NEW b, NEW c, NEW d, NEW e, NEW f, NEW g, NEW h, NEW i, NEW j, NEW v
  PROVE  [Policy(a, b, c, d, e, f, g, h, i, j) EXCEPT !.bindings = v] =
           Policy(a, b, c, d, e, f, g, h, i, v)
BY DEF Policy

LEMMA PolicyStages ==
  ASSUME NEW a, NEW b, NEW c, NEW d, NEW e, NEW f, NEW g, NEW h, NEW i, NEW j
  PROVE  LET P == Policy(a, b, c, d, e, f, g, h, i, j) IN
         /\ P.threshold = a
         /\ P.tap = b
         /\ P.two_finger = c
         /\ P.fidelity = d
         /\ P.scroll = e
         /\ P.robustness = f
         /\ P.gesture = g
         /\ P.drag = h
         /\ P.drag_fidelity = i
         /\ P.bindings = j
BY DEF Policy

LEMMA BuiltOf ==
  ASSUME NEW a, NEW b, NEW c, NEW d, NEW e, NEW f, NEW g, NEW h, NEW i, NEW j,
         a > 0, TapValid(b), TwoFingerValid(c), d = Off \/ FidelityValid(d),
         e = Off \/ ScrollFidelityValid(e), f = Off \/ RobustnessValid(f),
         g = Off \/ GestureStageValid(g), h = Off \/ DragValid(h), i = Off \/ FidelityValid(i)
  PROVE  Built(Policy(a, b, c, d, e, f, g, h, i, j))
BY PolicyStages DEF Built, Present

Tap10 ==
  [enabled |-> TRUE, tap_and_drag |-> TRUE, drag_lock |-> TRUE, max_duration |-> 180,
   max_movement |-> 300, gap |-> 350]
Two10 == [scroll_threshold |-> 100, tap_duration |-> 300, tap_movement |-> 300]
Fidelity11 ==
  [dead_zone |-> 9, velocity_tau |-> 20, long_gap |-> 150, x0 |-> 5000, x1 |-> 60000,
   min_gain |-> 100, max_gain |-> 200, tracking_speed |-> 100]
Scroll12 ==
  [velocity_tau |-> 30, x0 |-> 2500, x1 |-> 45000, min_gain |-> 100, max_gain |-> 175,
   engage |-> 250, release |-> 150, momentum_tau |-> 325, start_speed |-> 3500,
   stop_speed |-> 600, tick_cap |-> 16]
Robust13 == [palm |-> 1200, thumb |-> 800, edge_zone |-> 300, jitter |-> 6, dwt |-> DefaultDwt]
Gesture14 ==
  [pinch |-> 80, rotate |-> 15, page_swipe |-> 80, dominance |-> 400, scroll_win |-> 100,
   multi_swipe |-> 200, edge |-> 200, edge_zone |-> 300]
Drag15 ==
  [commit |-> 100, tap_displacement |-> 50, tap_duration |-> 200, lock |-> TRUE,
   enabled |-> TRUE, stable |-> FALSE, debounce |-> 0]

LEMMA LadderSteps ==
  /\ M10 = Policy(100, Tap10, Two10, Off, Off, Off, Off, Off, Off, Off)
  /\ M11 = Policy(100, Tap10, Two10, Fidelity11, Off, Off, Off, Off, Off, Off)
  /\ M12 = Policy(100, Tap10, Two10, Fidelity11, Scroll12, Off, Off, Off, Off, Off)
  /\ M13 = Policy(100, Tap10, Two10, Fidelity11, Scroll12, Robust13, Off, Off, Off, Off)
  /\ M14 = Policy(100, Tap10, Two10, Fidelity11, Scroll12, Robust13, Gesture14, Off, Off, Off)
  /\ M15 = Policy(100, Tap10, Two10, Fidelity11, Scroll12, Robust13, Gesture14, Drag15, Off, Off)
<1>1. M10 = Policy(100, Tap10, Two10, Off, Off, Off, Off, Off, Off, Off)
  BY DEF M10, Policy, Tap10, Two10
<1>2. M11 = Policy(100, Tap10, Two10, Fidelity11, Off, Off, Off, Off, Off, Off)
  <2>1. M11 = [M10 EXCEPT !.fidelity = Fidelity11]
    BY DEF M11, Fidelity11
  <2> QED BY <1>1, <2>1, FidelitySet
<1>3. M12 = Policy(100, Tap10, Two10, Fidelity11, Scroll12, Off, Off, Off, Off, Off)
  <2>1. M12 = [M11 EXCEPT !.scroll = Scroll12]
    BY DEF M12, Scroll12
  <2> QED BY <1>2, <2>1, ScrollSet
<1>4. M13 = Policy(100, Tap10, Two10, Fidelity11, Scroll12, Robust13, Off, Off, Off, Off)
  <2>1. M13 = [M12 EXCEPT !.robustness = Robust13]
    BY DEF M13, Robust13
  <2> QED BY <1>3, <2>1, RobustnessSet
<1>5. M14 = Policy(100, Tap10, Two10, Fidelity11, Scroll12, Robust13, Gesture14, Off, Off, Off)
  <2>1. M14 = [M13 EXCEPT !.gesture = Gesture14]
    BY DEF M14, Gesture14
  <2> QED BY <1>4, <2>1, GestureSet
<1>6. M15 = Policy(100, Tap10, Two10, Fidelity11, Scroll12, Robust13, Gesture14, Drag15, Off, Off)
  <2>1. M15 = [M14 EXCEPT !.drag = Drag15]
    BY DEF M15, Drag15
  <2> QED BY <1>5, <2>1, DragSet
<1> QED BY <1>1, <1>2, <1>3, <1>4, <1>5, <1>6

LEMMA ShippedStagesValid ==
  /\ TapValid(Tap10) /\ TwoFingerValid(Two10) /\ FidelityValid(Fidelity11)
  /\ ScrollFidelityValid(Scroll12) /\ RobustnessValid(Robust13)
  /\ GestureStageValid(Gesture14) /\ DragValid(Drag15)
<1>1. \A n \in Nat : n # NotFinite
  BY DocumentsAssumption
<1>2. TapValid(Tap10)
  BY <1>1 DEF TapValid, Tap10, Positive
<1>3. TwoFingerValid(Two10)
  BY <1>1 DEF TwoFingerValid, Two10, Positive
<1>4. FidelityValid(Fidelity11)
  BY <1>1 DEF FidelityValid, Fidelity11, Positive
<1>5. ScrollFidelityValid(Scroll12)
  BY <1>1 DEF ScrollFidelityValid, Scroll12, Positive
<1>6. RobustnessValid(Robust13)
  <2>1. DwtValid(DefaultDwt)
    BY DEF DwtValid, DefaultDwt, DwtTimeout
  <2> QED BY <1>1, <2>1 DEF RobustnessValid, Robust13, Positive
<1>7. GestureStageValid(Gesture14)
  BY <1>1 DEF GestureStageValid, Gesture14, Positive
<1>8. DragValid(Drag15)
  BY <1>1 DEF DragValid, Drag15, Positive
<1> QED BY <1>2, <1>3, <1>4, <1>5, <1>6, <1>7, <1>8

LEMMA LadderBuilds ==
  ASSUME NEW name \in EarlyProfiles
  PROVE  Built(Ladder[name])
<1>1. Ladder[name] \in {M10, M11, M12, M13, M14, M15}
  BY DEF Ladder, EarlyProfiles, M16
<1>2. \A m \in {M10, M11, M12, M13, M14, M15} : Built(m)
  BY LadderSteps, BuiltOf, ShippedStagesValid
<1> QED BY <1>1, <1>2

FidelityOf(a, b, c, d, e, f, g, h) ==
  [dead_zone |-> a, velocity_tau |-> b, long_gap |-> c, x0 |-> d, x1 |-> e, min_gain |-> f, max_gain |-> g, tracking_speed |-> h]

LEMMA FidelityDeadZone ==
  ASSUME NEW a, NEW b, NEW c, NEW d, NEW e, NEW f, NEW g, NEW h, NEW v
  PROVE  [FidelityOf(a, b, c, d, e, f, g, h) EXCEPT !.dead_zone = v] =
           FidelityOf(v, b, c, d, e, f, g, h)
BY DEF FidelityOf

LEMMA FidelityTrackingSpeed ==
  ASSUME NEW a, NEW b, NEW c, NEW d, NEW e, NEW f, NEW g, NEW h, NEW v
  PROVE  [FidelityOf(a, b, c, d, e, f, g, h) EXCEPT !.tracking_speed = v] =
           FidelityOf(a, b, c, d, e, f, g, v)
BY DEF FidelityOf

LEMMA FidelityMinGain ==
  ASSUME NEW a, NEW b, NEW c, NEW d, NEW e, NEW f, NEW g, NEW h, NEW v
  PROVE  [FidelityOf(a, b, c, d, e, f, g, h) EXCEPT !.min_gain = v] =
           FidelityOf(a, b, c, d, e, v, g, h)
BY DEF FidelityOf

LEMMA FidelityMaxGain ==
  ASSUME NEW a, NEW b, NEW c, NEW d, NEW e, NEW f, NEW g, NEW h, NEW v
  PROVE  [FidelityOf(a, b, c, d, e, f, g, h) EXCEPT !.max_gain = v] =
           FidelityOf(a, b, c, d, e, f, v, h)
BY DEF FidelityOf

ScrollOf(a, b, c, d, e, f, g, h, i, j, k) ==
  [velocity_tau |-> a, x0 |-> b, x1 |-> c, min_gain |-> d, max_gain |-> e, engage |-> f, release |-> g, momentum_tau |-> h, start_speed |-> i, stop_speed |-> j, tick_cap |-> k]

LEMMA ScrollMinGain ==
  ASSUME NEW a, NEW b, NEW c, NEW d, NEW e, NEW f, NEW g, NEW h, NEW i, NEW j, NEW k, NEW v
  PROVE  [ScrollOf(a, b, c, d, e, f, g, h, i, j, k) EXCEPT !.min_gain = v] =
           ScrollOf(a, b, c, v, e, f, g, h, i, j, k)
BY DEF ScrollOf

LEMMA ScrollMaxGain ==
  ASSUME NEW a, NEW b, NEW c, NEW d, NEW e, NEW f, NEW g, NEW h, NEW i, NEW j, NEW k, NEW v
  PROVE  [ScrollOf(a, b, c, d, e, f, g, h, i, j, k) EXCEPT !.max_gain = v] =
           ScrollOf(a, b, c, d, v, f, g, h, i, j, k)
BY DEF ScrollOf

LEMMA ScrollEngage ==
  ASSUME NEW a, NEW b, NEW c, NEW d, NEW e, NEW f, NEW g, NEW h, NEW i, NEW j, NEW k, NEW v
  PROVE  [ScrollOf(a, b, c, d, e, f, g, h, i, j, k) EXCEPT !.engage = v] =
           ScrollOf(a, b, c, d, e, v, g, h, i, j, k)
BY DEF ScrollOf

LEMMA ScrollRelease ==
  ASSUME NEW a, NEW b, NEW c, NEW d, NEW e, NEW f, NEW g, NEW h, NEW i, NEW j, NEW k, NEW v
  PROVE  [ScrollOf(a, b, c, d, e, f, g, h, i, j, k) EXCEPT !.release = v] =
           ScrollOf(a, b, c, d, e, f, v, h, i, j, k)
BY DEF ScrollOf

LEMMA ScrollMomentumTau ==
  ASSUME NEW a, NEW b, NEW c, NEW d, NEW e, NEW f, NEW g, NEW h, NEW i, NEW j, NEW k, NEW v
  PROVE  [ScrollOf(a, b, c, d, e, f, g, h, i, j, k) EXCEPT !.momentum_tau = v] =
           ScrollOf(a, b, c, d, e, f, g, v, i, j, k)
BY DEF ScrollOf

LEMMA ScrollStartSpeed ==
  ASSUME NEW a, NEW b, NEW c, NEW d, NEW e, NEW f, NEW g, NEW h, NEW i, NEW j, NEW k, NEW v
  PROVE  [ScrollOf(a, b, c, d, e, f, g, h, i, j, k) EXCEPT !.start_speed = v] =
           ScrollOf(a, b, c, d, e, f, g, h, v, j, k)
BY DEF ScrollOf

LEMMA ScrollStopSpeed ==
  ASSUME NEW a, NEW b, NEW c, NEW d, NEW e, NEW f, NEW g, NEW h, NEW i, NEW j, NEW k, NEW v
  PROVE  [ScrollOf(a, b, c, d, e, f, g, h, i, j, k) EXCEPT !.stop_speed = v] =
           ScrollOf(a, b, c, d, e, f, g, h, i, v, k)
BY DEF ScrollOf

GestureOf(a, b, c, d, e, f, g, h) ==
  [pinch |-> a, rotate |-> b, page_swipe |-> c, dominance |-> d, scroll_win |-> e, multi_swipe |-> f, edge |-> g, edge_zone |-> h]

LEMMA GesturePinch ==
  ASSUME NEW a, NEW b, NEW c, NEW d, NEW e, NEW f, NEW g, NEW h, NEW v
  PROVE  [GestureOf(a, b, c, d, e, f, g, h) EXCEPT !.pinch = v] =
           GestureOf(v, b, c, d, e, f, g, h)
BY DEF GestureOf

LEMMA GesturePageSwipe ==
  ASSUME NEW a, NEW b, NEW c, NEW d, NEW e, NEW f, NEW g, NEW h, NEW v
  PROVE  [GestureOf(a, b, c, d, e, f, g, h) EXCEPT !.page_swipe = v] =
           GestureOf(a, b, v, d, e, f, g, h)
BY DEF GestureOf

LEMMA GestureMultiSwipe ==
  ASSUME NEW a, NEW b, NEW c, NEW d, NEW e, NEW f, NEW g, NEW h, NEW v
  PROVE  [GestureOf(a, b, c, d, e, f, g, h) EXCEPT !.multi_swipe = v] =
           GestureOf(a, b, c, d, e, v, g, h)
BY DEF GestureOf

DragOf(a, b, c, d, e, f, g) ==
  [commit |-> a, tap_displacement |-> b, tap_duration |-> c, lock |-> d, enabled |-> e, stable |-> f, debounce |-> g]

LEMMA DragCommit ==
  ASSUME NEW a, NEW b, NEW c, NEW d, NEW e, NEW f, NEW g, NEW v
  PROVE  [DragOf(a, b, c, d, e, f, g) EXCEPT !.commit = v] =
           DragOf(v, b, c, d, e, f, g)
BY DEF DragOf

LEMMA DragLock ==
  ASSUME NEW a, NEW b, NEW c, NEW d, NEW e, NEW f, NEW g, NEW v
  PROVE  [DragOf(a, b, c, d, e, f, g) EXCEPT !.lock = v] =
           DragOf(a, b, c, v, e, f, g)
BY DEF DragOf

LEMMA DragEnabled ==
  ASSUME NEW a, NEW b, NEW c, NEW d, NEW e, NEW f, NEW g, NEW v
  PROVE  [DragOf(a, b, c, d, e, f, g) EXCEPT !.enabled = v] =
           DragOf(a, b, c, d, v, f, g)
BY DEF DragOf

LEMMA DragStable ==
  ASSUME NEW a, NEW b, NEW c, NEW d, NEW e, NEW f, NEW g, NEW v
  PROVE  [DragOf(a, b, c, d, e, f, g) EXCEPT !.stable = v] =
           DragOf(a, b, c, d, e, v, g)
BY DEF DragOf

LEMMA DragDebounce ==
  ASSUME NEW a, NEW b, NEW c, NEW d, NEW e, NEW f, NEW g, NEW v
  PROVE  [DragOf(a, b, c, d, e, f, g) EXCEPT !.debounce = v] =
           DragOf(a, b, c, d, e, f, v)
BY DEF DragOf

LEMMA FeelFidelityIs ==
  ASSUME NEW p
  PROVE  FeelFidelity(FidelityOf(9, 20, 150, 5000, 60000, 100, 200, 100), p) =
           FidelityOf(p["pointer.dead_zone_radius_mm"], 20, 150, 5000, 60000, p["pointer.min_gain"], p["pointer.max_gain"], p["pointer.tracking_speed"])
<1> DEFINE F0 == FidelityOf(9, 20, 150, 5000, 60000, 100, 200, 100)
           F1 == FidelityOf(p["pointer.dead_zone_radius_mm"], 20, 150, 5000, 60000, 100, 200, 100)
           F2 == FidelityOf(p["pointer.dead_zone_radius_mm"], 20, 150, 5000, 60000, 100, 200, p["pointer.tracking_speed"])
           F3 == FidelityOf(p["pointer.dead_zone_radius_mm"], 20, 150, 5000, 60000, p["pointer.min_gain"], 200, p["pointer.tracking_speed"])
           F4 == FidelityOf(p["pointer.dead_zone_radius_mm"], 20, 150, 5000, 60000, p["pointer.min_gain"], p["pointer.max_gain"], p["pointer.tracking_speed"])
<1>1. [F0 EXCEPT !.dead_zone = p["pointer.dead_zone_radius_mm"]] = F1
  BY FidelityDeadZone
<1>2. [F1 EXCEPT !.tracking_speed = p["pointer.tracking_speed"]] = F2
  BY FidelityTrackingSpeed
<1>3. [F2 EXCEPT !.min_gain = p["pointer.min_gain"]] = F3
  BY FidelityMinGain
<1>4. [F3 EXCEPT !.max_gain = p["pointer.max_gain"]] = F4
  BY FidelityMaxGain
<1> HIDE DEF F0, F1, F2, F3, F4
<1>5. FeelFidelity(F0, p) = [[[[F0 EXCEPT !.dead_zone = p["pointer.dead_zone_radius_mm"]] EXCEPT !.tracking_speed = p["pointer.tracking_speed"]] EXCEPT !.min_gain = p["pointer.min_gain"]] EXCEPT !.max_gain = p["pointer.max_gain"]]
  BY DEF FeelFidelity
<1>6. FeelFidelity(F0, p) = F4
  BY <1>1, <1>2, <1>3, <1>4, <1>5
<1> QED BY <1>6 DEF F0, F4

LEMMA FeelScrollIs ==
  ASSUME NEW p
  PROVE  FeelScroll(ScrollOf(30, 2500, 45000, 100, 175, 250, 150, 325, 3500, 600, 16), p) =
           ScrollOf(30, 2500, 45000, p["scroll.min_gain"], p["scroll.max_gain"], p["scroll.axis_lock_engage_ratio"], p["scroll.axis_lock_release_ratio"], p["scroll.momentum_tau_ms"], p["scroll.momentum_start_speed_mm_per_s"], p["scroll.momentum_stop_speed_mm_per_s"], 16)
<1> DEFINE F0 == ScrollOf(30, 2500, 45000, 100, 175, 250, 150, 325, 3500, 600, 16)
           F1 == ScrollOf(30, 2500, 45000, p["scroll.min_gain"], 175, 250, 150, 325, 3500, 600, 16)
           F2 == ScrollOf(30, 2500, 45000, p["scroll.min_gain"], p["scroll.max_gain"], 250, 150, 325, 3500, 600, 16)
           F3 == ScrollOf(30, 2500, 45000, p["scroll.min_gain"], p["scroll.max_gain"], p["scroll.axis_lock_engage_ratio"], 150, 325, 3500, 600, 16)
           F4 == ScrollOf(30, 2500, 45000, p["scroll.min_gain"], p["scroll.max_gain"], p["scroll.axis_lock_engage_ratio"], p["scroll.axis_lock_release_ratio"], 325, 3500, 600, 16)
           F5 == ScrollOf(30, 2500, 45000, p["scroll.min_gain"], p["scroll.max_gain"], p["scroll.axis_lock_engage_ratio"], p["scroll.axis_lock_release_ratio"], p["scroll.momentum_tau_ms"], 3500, 600, 16)
           F6 == ScrollOf(30, 2500, 45000, p["scroll.min_gain"], p["scroll.max_gain"], p["scroll.axis_lock_engage_ratio"], p["scroll.axis_lock_release_ratio"], p["scroll.momentum_tau_ms"], p["scroll.momentum_start_speed_mm_per_s"], 600, 16)
           F7 == ScrollOf(30, 2500, 45000, p["scroll.min_gain"], p["scroll.max_gain"], p["scroll.axis_lock_engage_ratio"], p["scroll.axis_lock_release_ratio"], p["scroll.momentum_tau_ms"], p["scroll.momentum_start_speed_mm_per_s"], p["scroll.momentum_stop_speed_mm_per_s"], 16)
<1>1. [F0 EXCEPT !.min_gain = p["scroll.min_gain"]] = F1
  BY ScrollMinGain
<1>2. [F1 EXCEPT !.max_gain = p["scroll.max_gain"]] = F2
  BY ScrollMaxGain
<1>3. [F2 EXCEPT !.engage = p["scroll.axis_lock_engage_ratio"]] = F3
  BY ScrollEngage
<1>4. [F3 EXCEPT !.release = p["scroll.axis_lock_release_ratio"]] = F4
  BY ScrollRelease
<1>5. [F4 EXCEPT !.momentum_tau = p["scroll.momentum_tau_ms"]] = F5
  BY ScrollMomentumTau
<1>6. [F5 EXCEPT !.start_speed = p["scroll.momentum_start_speed_mm_per_s"]] = F6
  BY ScrollStartSpeed
<1>7. [F6 EXCEPT !.stop_speed = p["scroll.momentum_stop_speed_mm_per_s"]] = F7
  BY ScrollStopSpeed
<1> HIDE DEF F0, F1, F2, F3, F4, F5, F6, F7
<1>8. FeelScroll(F0, p) = [[[[[[[F0 EXCEPT !.min_gain = p["scroll.min_gain"]] EXCEPT !.max_gain = p["scroll.max_gain"]] EXCEPT !.engage = p["scroll.axis_lock_engage_ratio"]] EXCEPT !.release = p["scroll.axis_lock_release_ratio"]] EXCEPT !.momentum_tau = p["scroll.momentum_tau_ms"]] EXCEPT !.start_speed = p["scroll.momentum_start_speed_mm_per_s"]] EXCEPT !.stop_speed = p["scroll.momentum_stop_speed_mm_per_s"]]
  BY DEF FeelScroll
<1>9. FeelScroll(F0, p) = F7
  BY <1>1, <1>2, <1>3, <1>4, <1>5, <1>6, <1>7, <1>8
<1> QED BY <1>9 DEF F0, F7

LEMMA FeelGestureIs ==
  ASSUME NEW p
  PROVE  FeelGesture(GestureOf(80, 15, 80, 400, 100, 200, 200, 300), p) =
           GestureOf(p["gesture.pinch_commit_mm"], 15, p["gesture.page_swipe_commit_mm"], 400, 100, p["gesture.multi_swipe_commit_mm"], 200, 300)
<1> DEFINE F0 == GestureOf(80, 15, 80, 400, 100, 200, 200, 300)
           F1 == GestureOf(p["gesture.pinch_commit_mm"], 15, 80, 400, 100, 200, 200, 300)
           F2 == GestureOf(p["gesture.pinch_commit_mm"], 15, p["gesture.page_swipe_commit_mm"], 400, 100, 200, 200, 300)
           F3 == GestureOf(p["gesture.pinch_commit_mm"], 15, p["gesture.page_swipe_commit_mm"], 400, 100, p["gesture.multi_swipe_commit_mm"], 200, 300)
<1>1. [F0 EXCEPT !.pinch = p["gesture.pinch_commit_mm"]] = F1
  BY GesturePinch
<1>2. [F1 EXCEPT !.page_swipe = p["gesture.page_swipe_commit_mm"]] = F2
  BY GesturePageSwipe
<1>3. [F2 EXCEPT !.multi_swipe = p["gesture.multi_swipe_commit_mm"]] = F3
  BY GestureMultiSwipe
<1> HIDE DEF F0, F1, F2, F3
<1>4. FeelGesture(F0, p) = [[[F0 EXCEPT !.pinch = p["gesture.pinch_commit_mm"]] EXCEPT !.page_swipe = p["gesture.page_swipe_commit_mm"]] EXCEPT !.multi_swipe = p["gesture.multi_swipe_commit_mm"]]
  BY DEF FeelGesture
<1>5. FeelGesture(F0, p) = F3
  BY <1>1, <1>2, <1>3, <1>4
<1> QED BY <1>5 DEF F0, F3

(* What a feel overlay that validates makes of each stage.                 *)
LEMMA FeelFidelityValid ==
  ASSUME NEW feel, FeelValid(feel)
  PROVE  FidelityValid(FeelFidelity(Fidelity11, feel.param))
<1> DEFINE p == feel.param
<1>1. FeelInRange(p) /\ p["pointer.min_gain"] <= p["pointer.max_gain"]
  BY DEF FeelValid
<1>2. /\ InRange(p["pointer.dead_zone_radius_mm"], 1, 30)
      /\ InRange(p["pointer.tracking_speed"], 25, 400)
      /\ InRange(p["pointer.min_gain"], 50, 200) /\ InRange(p["pointer.max_gain"], 50, 400)
  BY <1>1 DEF FeelInRange
<1> HIDE DEF p
<1>3. \A n \in Nat : n # NotFinite
  BY DocumentsAssumption
<1>4. \A dead, speed, low, high :
        /\ InRange(dead, 1, 30) /\ InRange(speed, 25, 400) /\ InRange(low, 50, 200)
        /\ InRange(high, 50, 400) /\ low <= high
        => FidelityValid(FidelityOf(dead, 20, 150, 5000, 60000, low, high, speed))
  BY <1>3 DEF InRange, FidelityValid, FidelityOf, Positive
<1>5. FidelityValid(FidelityOf(p["pointer.dead_zone_radius_mm"], 20, 150, 5000, 60000,
                      p["pointer.min_gain"], p["pointer.max_gain"], p["pointer.tracking_speed"]))
  BY <1>1, <1>2, <1>4
<1>6. Fidelity11 = FidelityOf(9, 20, 150, 5000, 60000, 100, 200, 100)
  BY DEF Fidelity11, FidelityOf
<1> QED BY <1>5, <1>6, FeelFidelityIs DEF p

LEMMA ScrollOfValid ==
  ASSUME NEW low, NEW high, NEW engage, NEW release, NEW tau, NEW begin, NEW halt,
         InRange(low, 50, 200), InRange(high, 50, 400), InRange(engage, 120, 600),
         InRange(release, 105, 400), InRange(tau, 50, 1200), InRange(begin, 1000, 20000),
         InRange(halt, 100, 5000), low <= high, release < engage, halt < begin
  PROVE  ScrollFidelityValid(ScrollOf(30, 2500, 45000, low, high, engage, release, tau, begin, halt, 16))
<1> DEFINE s == ScrollOf(30, 2500, 45000, low, high, engage, release, tau, begin, halt, 16)
<1>1. /\ s.velocity_tau = 30 /\ s.x0 = 2500 /\ s.x1 = 45000 /\ s.min_gain = low
      /\ s.max_gain = high /\ s.engage = engage /\ s.release = release /\ s.momentum_tau = tau
      /\ s.start_speed = begin /\ s.stop_speed = halt /\ s.tick_cap = 16
  BY DEF ScrollOf
<1> HIDE DEF s
<1>2. /\ low \in 50..200 /\ high \in 50..400 /\ engage \in 120..600 /\ release \in 105..400
      /\ tau \in 50..1200 /\ begin \in 1000..20000 /\ halt \in 100..5000
  BY DEF InRange
<1>3. \A n \in Nat : n # NotFinite
  BY DocumentsAssumption
<1>4. Positive({s.velocity_tau, s.momentum_tau, s.tick_cap, s.x0, s.x1, s.min_gain, s.max_gain,
               s.start_speed, s.stop_speed})
  <2> SUFFICES ASSUME NEW v \in {s.velocity_tau, s.momentum_tau, s.tick_cap, s.x0, s.x1,
                                 s.min_gain, s.max_gain, s.start_speed, s.stop_speed}
               PROVE  v # NotFinite /\ v > 0
    BY DEF Positive
  <2>1. v \in {30, tau, 16, 2500, 45000, low, high, begin, halt}
    BY <1>1
  <2>2. /\ low \in Nat /\ low > 0 /\ high \in Nat /\ high > 0 /\ tau \in Nat /\ tau > 0
        /\ begin \in Nat /\ begin > 0 /\ halt \in Nat /\ halt > 0
    BY <1>2
  <2>3. v \in Nat /\ v > 0
    BY <2>1, <2>2
  <2> QED BY <1>3, <2>3
<1>5. ScrollFidelityValid(s)
  BY <1>1, <1>2, <1>4 DEF ScrollFidelityValid
<1> QED BY <1>5 DEF s

LEMMA FeelScrollValid ==
  ASSUME NEW feel, FeelValid(feel)
  PROVE  ScrollFidelityValid(FeelScroll(Scroll12, feel.param))
<1> DEFINE p == feel.param
<1>1. /\ FeelInRange(p) /\ p["scroll.min_gain"] <= p["scroll.max_gain"]
      /\ p["scroll.axis_lock_release_ratio"] < p["scroll.axis_lock_engage_ratio"]
      /\ p["scroll.momentum_stop_speed_mm_per_s"] < p["scroll.momentum_start_speed_mm_per_s"]
  BY DEF FeelValid
<1>2. /\ InRange(p["scroll.min_gain"], 50, 200) /\ InRange(p["scroll.max_gain"], 50, 400)
      /\ InRange(p["scroll.axis_lock_engage_ratio"], 120, 600)
      /\ InRange(p["scroll.axis_lock_release_ratio"], 105, 400)
      /\ InRange(p["scroll.momentum_tau_ms"], 50, 1200)
      /\ InRange(p["scroll.momentum_start_speed_mm_per_s"], 1000, 20000)
      /\ InRange(p["scroll.momentum_stop_speed_mm_per_s"], 100, 5000)
  BY <1>1 DEF FeelInRange
<1> HIDE DEF p
<1>3. ScrollFidelityValid(
        ScrollOf(30, 2500, 45000, p["scroll.min_gain"], p["scroll.max_gain"],
                 p["scroll.axis_lock_engage_ratio"], p["scroll.axis_lock_release_ratio"],
                 p["scroll.momentum_tau_ms"], p["scroll.momentum_start_speed_mm_per_s"],
                 p["scroll.momentum_stop_speed_mm_per_s"], 16))
  BY <1>1, <1>2, ScrollOfValid
<1>4. Scroll12 = ScrollOf(30, 2500, 45000, 100, 175, 250, 150, 325, 3500, 600, 16)
  BY DEF Scroll12, ScrollOf
<1> QED BY <1>3, <1>4, FeelScrollIs DEF p

LEMMA FeelGestureValid ==
  ASSUME NEW feel, FeelValid(feel)
  PROVE  GestureStageValid(FeelGesture(Gesture14, feel.param))
<1> DEFINE p == feel.param
<1>1. /\ InRange(p["gesture.pinch_commit_mm"], 20, 300)
      /\ InRange(p["gesture.page_swipe_commit_mm"], 30, 500)
      /\ InRange(p["gesture.multi_swipe_commit_mm"], 100, 800)
  BY DEF FeelValid, FeelInRange
<1> HIDE DEF p
<1>2. \A n \in Nat : n # NotFinite
  BY DocumentsAssumption
<1>3. \A pinch, page, multi :
        InRange(pinch, 20, 300) /\ InRange(page, 30, 500) /\ InRange(multi, 100, 800)
        => GestureStageValid(GestureOf(pinch, 15, page, 400, 100, multi, 200, 300))
  BY <1>2 DEF InRange, GestureStageValid, GestureOf, Positive
<1>4. GestureStageValid(GestureOf(p["gesture.pinch_commit_mm"], 15,
                          p["gesture.page_swipe_commit_mm"], 400, 100,
                          p["gesture.multi_swipe_commit_mm"], 200, 300))
  BY <1>1, <1>3
<1>5. Gesture14 = GestureOf(80, 15, 80, 400, 100, 200, 200, 300)
  BY DEF Gesture14, GestureOf
<1> QED BY <1>4, <1>5, FeelGestureIs DEF p

LEMMA FeelDragValid ==
  ASSUME NEW feel, FeelValid(feel), NEW lock, NEW on, NEW stable, NEW debounce
  PROVE  DragValid(DragOf(feel.param["drag.commit_threshold_mm"], 50, 200, lock, on, stable, debounce))
<1>1. InRange(feel.param["drag.commit_threshold_mm"], 60, 400)
  BY DEF FeelValid, FeelInRange
<1>2. \A n \in Nat : n # NotFinite
  BY DocumentsAssumption
<1>3. \A commit : InRange(commit, 60, 400) =>
        DragValid(DragOf(commit, 50, 200, lock, on, stable, debounce))
  BY <1>2 DEF InRange, DragValid, DragOf, Positive
<1> QED BY <1>1, <1>3

FeelDrag(feel, on, stable, debounce) ==
  DragOf(feel.param["drag.commit_threshold_mm"], 50, 200, feel.drag_lock, on, stable, debounce)

LEMMA FeelDragIs ==
  ASSUME NEW c, NEW lock
  PROVE  [Drag15 EXCEPT !.commit = c, !.lock = lock] = DragOf(c, 50, 200, lock, TRUE, FALSE, 0)
<1>1. PICK on, off : on = TRUE /\ off = FALSE
  OBVIOUS
<1> DEFINE F0 == DragOf(100, 50, 200, on, on, off, 0)
           F1 == DragOf(c, 50, 200, on, on, off, 0)
           F2 == DragOf(c, 50, 200, lock, on, off, 0)
<1>2. [F0 EXCEPT !.commit = c] = F1
  BY DragCommit
<1>3. [F1 EXCEPT !.lock = lock] = F2
  BY DragLock
<1>4. Drag15 = F0
  BY <1>1 DEF Drag15, DragOf
<1> HIDE DEF F0, F1, F2
<1>5. [F0 EXCEPT !.commit = c, !.lock = lock] = [[F0 EXCEPT !.commit = c] EXCEPT !.lock = lock]
  OBVIOUS
<1>6. [F0 EXCEPT !.commit = c, !.lock = lock] = F2
  BY <1>2, <1>3, <1>5
<1> QED BY <1>1, <1>4, <1>6 DEF F2

LEMMA M17Stages ==
  ASSUME NEW feel
  PROVE  M17(feel) = Policy(100, Tap10, Two10, FeelFidelity(Fidelity11, feel.param),
                            FeelScroll(Scroll12, feel.param), Robust13,
                            FeelGesture(Gesture14, feel.param), FeelDrag(feel, TRUE, FALSE, 0),
                            Off, Off)
<1> DEFINE f == FeelFidelity(Fidelity11, feel.param)
           s == FeelScroll(Scroll12, feel.param)
           g == FeelGesture(Gesture14, feel.param)
           d == FeelDrag(feel, TRUE, FALSE, 0)
           P0 == Policy(100, Tap10, Two10, Fidelity11, Scroll12, Robust13, Gesture14, Drag15, Off, Off)
           P1 == Policy(100, Tap10, Two10, f, Scroll12, Robust13, Gesture14, Drag15, Off, Off)
           P2 == Policy(100, Tap10, Two10, f, s, Robust13, Gesture14, Drag15, Off, Off)
           P3 == Policy(100, Tap10, Two10, f, s, Robust13, g, Drag15, Off, Off)
           P4 == Policy(100, Tap10, Two10, f, s, Robust13, g, d, Off, Off)
<1> HIDE DEF f, s, g, d
<1>1. [P0 EXCEPT !.fidelity = f] = P1
  BY FidelitySet
<1>2. [P1 EXCEPT !.scroll = s] = P2
  BY ScrollSet
<1>3. [P2 EXCEPT !.gesture = g] = P3
  BY GestureSet
<1>4. [P3 EXCEPT !.drag = d] = P4
  BY DragSet
<1>5. [Drag15 EXCEPT !.commit = feel.param["drag.commit_threshold_mm"], !.lock = feel.drag_lock] = d
  BY FeelDragIs DEF FeelDrag, d
<1>6. P0.fidelity = Fidelity11 /\ P0.scroll = Scroll12 /\ P0.gesture = Gesture14 /\ P0.drag = Drag15
  BY PolicyStages
<1>7. M16 = P0
  BY LadderSteps DEF M16
<1> HIDE DEF P0, P1, P2, P3, P4
<1>8. M17(feel) = [[[[P0 EXCEPT !.fidelity = f] EXCEPT !.scroll = s] EXCEPT !.gesture = g] EXCEPT !.drag = d]
  <2>1. M17(feel) = [P0 EXCEPT !.fidelity = FeelFidelity(P0.fidelity, feel.param),
                       !.scroll = FeelScroll(P0.scroll, feel.param),
                       !.gesture = FeelGesture(P0.gesture, feel.param),
                       !.drag = [P0.drag EXCEPT !.commit = feel.param["drag.commit_threshold_mm"],
                                                !.lock = feel.drag_lock]]
    BY <1>7 DEF M17
  <2>2. M17(feel) = [P0 EXCEPT !.fidelity = f, !.scroll = s, !.gesture = g, !.drag = d]
    BY <1>5, <1>6, <2>1 DEF f, s, g
  <2> QED BY <2>2
<1>9. M17(feel) = P4
  BY <1>1, <1>2, <1>3, <1>4, <1>8
<1> QED BY <1>9 DEF P4, f, s, g, d

LEMMA M17Builds ==
  ASSUME NEW feel, FeelValid(feel)
  PROVE  Built(M17(feel))
<1>1. /\ FidelityValid(FeelFidelity(Fidelity11, feel.param))
      /\ ScrollFidelityValid(FeelScroll(Scroll12, feel.param))
      /\ GestureStageValid(FeelGesture(Gesture14, feel.param))
      /\ DragValid(FeelDrag(feel, TRUE, FALSE, 0))
  BY FeelFidelityValid, FeelScrollValid, FeelGestureValid, FeelDragValid DEF FeelDrag
<1>2. 100 > 0 /\ Off = Off
  OBVIOUS
<1>3. Built(Policy(100, Tap10, Two10, FeelFidelity(Fidelity11, feel.param),
                   FeelScroll(Scroll12, feel.param), Robust13,
                   FeelGesture(Gesture14, feel.param), FeelDrag(feel, TRUE, FALSE, 0), Off, Off))
  BY <1>1, <1>2, BuiltOf, ShippedStagesValid, Zenon
<1> QED BY <1>3, M17Stages

RobustOf(dwt) == [palm |-> 1200, thumb |-> 800, edge_zone |-> 300, jitter |-> 6, dwt |-> dwt]

LEMMA RobustDwt ==
  ASSUME NEW a, NEW v
  PROVE  [RobustOf(a) EXCEPT !.dwt = v] = RobustOf(v)
BY DEF RobustOf

LEMMA RobustOfValid ==
  ASSUME NEW dwt, DwtValid(dwt)
  PROVE  RobustnessValid(RobustOf(dwt))
BY DocumentsAssumption DEF RobustnessValid, RobustOf, Positive

LEMMA DragSwitched ==
  ASSUME NEW feel, NEW e
  PROVE  [FeelDrag(feel, TRUE, FALSE, 0) EXCEPT !.enabled = e] = FeelDrag(feel, e, FALSE, 0)
<1>1. PICK on, off : on = TRUE /\ off = FALSE
  OBVIOUS
<1>2. [FeelDrag(feel, on, off, 0) EXCEPT !.enabled = e] = FeelDrag(feel, e, off, 0)
  BY DragEnabled DEF FeelDrag
<1> QED BY <1>1, <1>2

LEMMA DragSteadied ==
  ASSUME NEW feel, NEW e
  PROVE  [FeelDrag(feel, e, FALSE, 0) EXCEPT !.stable = TRUE, !.debounce = 50]
           = FeelDrag(feel, e, TRUE, 50)
<1>1. PICK on, off : on = TRUE /\ off = FALSE
  OBVIOUS
<1> DEFINE F0 == FeelDrag(feel, e, off, 0)
           F1 == FeelDrag(feel, e, on, 0)
           F2 == FeelDrag(feel, e, on, 50)
<1>2. [F0 EXCEPT !.stable = on] = F1
  BY DragStable DEF FeelDrag
<1>3. [F1 EXCEPT !.debounce = 50] = F2
  BY DragDebounce DEF FeelDrag
<1> HIDE DEF F0, F1, F2
<1>4. [F0 EXCEPT !.stable = on, !.debounce = 50] = [[F0 EXCEPT !.stable = on] EXCEPT !.debounce = 50]
  OBVIOUS
<1>5. [F0 EXCEPT !.stable = on, !.debounce = 50] = F2
  BY <1>2, <1>3, <1>4
<1> QED BY <1>1, <1>5 DEF F0, F2

LEMMA M18Stages ==
  ASSUME NEW settings
  PROVE  M18(settings) =
           Policy(100, Tap10, Two10, FeelFidelity(Fidelity11, settings.feel.param),
                  FeelScroll(Scroll12, settings.feel.param), RobustOf(settings.dwt),
                  FeelGesture(Gesture14, settings.feel.param),
                  FeelDrag(settings.feel, settings.gestures.drag_enabled, FALSE, 0),
                  Off, settings.gestures.bindings)
<1> DEFINE f == FeelFidelity(Fidelity11, settings.feel.param)
           s == FeelScroll(Scroll12, settings.feel.param)
           g == FeelGesture(Gesture14, settings.feel.param)
           d0 == FeelDrag(settings.feel, TRUE, FALSE, 0)
           d == FeelDrag(settings.feel, settings.gestures.drag_enabled, FALSE, 0)
           r == RobustOf(settings.dwt)
           e == settings.gestures.drag_enabled
           b == settings.gestures.bindings
           P0 == Policy(100, Tap10, Two10, f, s, Robust13, g, d0, Off, Off)
           P1 == Policy(100, Tap10, Two10, f, s, r, g, d0, Off, Off)
           P2 == Policy(100, Tap10, Two10, f, s, r, g, d, Off, Off)
           P3 == Policy(100, Tap10, Two10, f, s, r, g, d, Off, b)
<1>1. M17(settings.feel) = P0
  BY M17Stages
<1>2. [Robust13 EXCEPT !.dwt = settings.dwt] = r
  <2>1. Robust13 = RobustOf(DefaultDwt)
    BY DEF Robust13, RobustOf
  <2> QED BY <2>1, RobustDwt
<1>3. [d0 EXCEPT !.enabled = e] = d
  BY DragSwitched
<1> HIDE DEF f, s, g, d, d0, r, e, b
<1>4. [P0 EXCEPT !.robustness = r] = P1
  BY RobustnessSet
<1>5. [P1 EXCEPT !.drag = d] = P2
  BY DragSet
<1>6. [P2 EXCEPT !.bindings = b] = P3
  BY BindingsSet
<1>7. P0.robustness = Robust13 /\ P1.drag = d0
  BY PolicyStages
<1> HIDE DEF P0, P1, P2, P3
<1>8. M18(settings) = [[[P0 EXCEPT !.robustness = [P0.robustness EXCEPT !.dwt = settings.dwt]]
                           EXCEPT !.drag.enabled = e] EXCEPT !.bindings = b]
  BY <1>1 DEF M18, e, b
<1>9. [P0 EXCEPT !.robustness = [P0.robustness EXCEPT !.dwt = settings.dwt]] = P1
  BY <1>2, <1>4, <1>7
<1>10. [P1 EXCEPT !.drag.enabled = e] = [P1 EXCEPT !.drag = [P1.drag EXCEPT !.enabled = e]]
  OBVIOUS
<1>11. [P1 EXCEPT !.drag = [P1.drag EXCEPT !.enabled = e]] = P2
  BY <1>3, <1>5, <1>7
<1>12. M18(settings) = P3
  BY <1>6, <1>8, <1>9, <1>10, <1>11
<1> QED BY <1>12 DEF P3, f, s, g, d, r, b

LEMMA M18Builds ==
  ASSUME NEW settings, SettingsValid(settings)
  PROVE  Built(M18(settings))
<1>1. FeelValid(settings.feel) /\ DwtValid(settings.dwt)
  BY DEF SettingsValid
<1>2. /\ FidelityValid(FeelFidelity(Fidelity11, settings.feel.param))
      /\ ScrollFidelityValid(FeelScroll(Scroll12, settings.feel.param))
      /\ GestureStageValid(FeelGesture(Gesture14, settings.feel.param))
      /\ DragValid(FeelDrag(settings.feel, settings.gestures.drag_enabled, FALSE, 0))
      /\ RobustnessValid(RobustOf(settings.dwt))
  BY <1>1, FeelFidelityValid, FeelScrollValid, FeelGestureValid, FeelDragValid, RobustOfValid
     DEF FeelDrag
<1>3. 100 > 0 /\ Off = Off
  OBVIOUS
<1>4. Built(Policy(100, Tap10, Two10, FeelFidelity(Fidelity11, settings.feel.param),
                   FeelScroll(Scroll12, settings.feel.param), RobustOf(settings.dwt),
                   FeelGesture(Gesture14, settings.feel.param),
                   FeelDrag(settings.feel, settings.gestures.drag_enabled, FALSE, 0), Off,
                   settings.gestures.bindings))
  BY <1>2, <1>3, BuiltOf, ShippedStagesValid, Zenon
<1> QED BY <1>4, M18Stages

Tap19 ==
  [enabled |-> TRUE, tap_and_drag |-> TRUE, drag_lock |-> FALSE, max_duration |-> 180,
   max_movement |-> 300, gap |-> 180]

LEMMA Tap19Valid == TapValid(Tap19)
BY DocumentsAssumption DEF TapValid, Tap19, Positive

LEMMA Tap19Is == [Tap10 EXCEPT !.drag_lock = FALSE, !.gap = 180] = Tap19
<1> DEFINE TapOf(on, lock, gap) ==
             [enabled |-> on, tap_and_drag |-> on, drag_lock |-> lock, max_duration |-> 180,
              max_movement |-> 300, gap |-> gap]
<1>1. \A on, lock, gap, v : [TapOf(on, lock, gap) EXCEPT !.drag_lock = v] = TapOf(on, v, gap)
  OBVIOUS
<1>2. \A on, lock, gap, v : [TapOf(on, lock, gap) EXCEPT !.gap = v] = TapOf(on, lock, v)
  OBVIOUS
<1>3. PICK on, off : on = TRUE /\ off = FALSE
  OBVIOUS
<1>4. Tap10 = TapOf(on, on, 350) /\ Tap19 = TapOf(on, off, 180)
  BY <1>3 DEF Tap10, Tap19
<1> HIDE DEF TapOf
<1>5. PICK T0, T1, T2 : T0 = TapOf(on, on, 350) /\ T1 = TapOf(on, off, 350) /\ T2 = TapOf(on, off, 180)
  OBVIOUS
<1>6. [T0 EXCEPT !.drag_lock = off] = T1 /\ [T1 EXCEPT !.gap = 180] = T2
  BY <1>1, <1>2, <1>5
<1>7. [T0 EXCEPT !.drag_lock = off, !.gap = 180] = [[T0 EXCEPT !.drag_lock = off] EXCEPT !.gap = 180]
  OBVIOUS
<1>8. [T0 EXCEPT !.drag_lock = off, !.gap = 180] = T2
  BY <1>6, <1>7
<1> QED BY <1>3, <1>4, <1>5, <1>8

(* The drag's curve is still a curve.                                      *)
LEMMA CurveValid ==
  ASSUME NEW f, FidelityValid(f), f.min_gain \in Nat, f.max_gain \in Nat,
         NEW a, NEW b, NEW c, NEW d, NEW e, NEW g, f = FidelityOf(a, b, c, d, e, f.min_gain, f.max_gain, g)
  PROVE  FidelityValid(DragCurve(f))
<1> DEFINE top == Larger(Smaller(f.max_gain, 160), f.min_gain)
<1>1. top \in Nat /\ f.min_gain <= top /\ top > 0
  BY DEF Larger, Smaller, FidelityValid, Positive
<1>2. DragCurve(f) = [f EXCEPT !.max_gain = top]
  BY DEF DragCurve, M19_THREE_FINGER_DRAG_MAX_GAIN
<1> HIDE DEF top
<1>3. DragCurve(f) = FidelityOf(a, b, c, d, e, f.min_gain, top, g)
  BY <1>2, FidelityMaxGain
<1>4. top # NotFinite
  BY <1>1, DocumentsAssumption
<1>5. /\ f.dead_zone = a /\ f.velocity_tau = b /\ f.long_gap = c /\ f.x0 = d /\ f.x1 = e
      /\ f.tracking_speed = g
  BY DEF FidelityOf
<1>6. PICK h : h = DragCurve(f)
  OBVIOUS
<1>7. /\ h.dead_zone = a /\ h.velocity_tau = b /\ h.long_gap = c /\ h.x0 = d /\ h.x1 = e
      /\ h.min_gain = f.min_gain /\ h.max_gain = top /\ h.tracking_speed = g
  BY <1>3, <1>6 DEF FidelityOf
<1>8. FidelityValid(h)
  BY <1>1, <1>5, <1>7 DEF FidelityValid
<1> QED BY <1>6, <1>8

LEMMA FeelCurveValid ==
  ASSUME NEW feel, FeelValid(feel)
  PROVE  FidelityValid(DragCurve(FeelFidelity(Fidelity11, feel.param)))
<1> DEFINE p == feel.param
           f == FeelFidelity(Fidelity11, p)
<1>1. FidelityValid(f)
  BY FeelFidelityValid
<1>2. f = FidelityOf(p["pointer.dead_zone_radius_mm"], 20, 150, 5000, 60000,
               p["pointer.min_gain"], p["pointer.max_gain"], p["pointer.tracking_speed"])
  <2>1. Fidelity11 = FidelityOf(9, 20, 150, 5000, 60000, 100, 200, 100)
    BY DEF Fidelity11, FidelityOf
  <2> QED BY <2>1, FeelFidelityIs
<1>3. f.min_gain = p["pointer.min_gain"] /\ f.max_gain = p["pointer.max_gain"]
  BY <1>2 DEF FidelityOf
<1>4. InRange(p["pointer.min_gain"], 50, 200) /\ InRange(p["pointer.max_gain"], 50, 400)
  BY DEF FeelValid, FeelInRange
<1> HIDE DEF f, p
<1>5. f.min_gain \in Nat /\ f.max_gain \in Nat
  BY <1>3, <1>4 DEF InRange
<1>6. FidelityValid(DragCurve(f))
  BY <1>1, <1>2, <1>3, <1>5, CurveValid
<1> QED BY <1>6 DEF f, p

LEMMA M19Stages ==
  ASSUME NEW settings
  PROVE  M19(settings) =
           Policy(100, Tap19, Two10, FeelFidelity(Fidelity11, settings.feel.param),
                  FeelScroll(Scroll12, settings.feel.param), RobustOf(settings.dwt),
                  FeelGesture(Gesture14, settings.feel.param),
                  FeelDrag(settings.feel, settings.gestures.drag_enabled, TRUE, 50),
                  DragCurve(FeelFidelity(Fidelity11, settings.feel.param)),
                  settings.gestures.bindings)
<1> DEFINE f == FeelFidelity(Fidelity11, settings.feel.param)
           s == FeelScroll(Scroll12, settings.feel.param)
           g == FeelGesture(Gesture14, settings.feel.param)
           e == settings.gestures.drag_enabled
           d0 == FeelDrag(settings.feel, e, FALSE, 0)
           d == FeelDrag(settings.feel, e, TRUE, 50)
           r == RobustOf(settings.dwt)
           b == settings.gestures.bindings
           c == DragCurve(f)
           P0 == Policy(100, Tap10, Two10, f, s, r, g, d0, Off, b)
           P1 == Policy(100, Tap10, Two10, f, s, r, g, d0, c, b)
           P2 == Policy(100, Tap19, Two10, f, s, r, g, d0, c, b)
           P3 == Policy(100, Tap19, Two10, f, s, r, g, d, c, b)
<1>1. M18(settings) = P0
  BY M18Stages
<1>2. [d0 EXCEPT !.stable = TRUE, !.debounce = 50] = d
  BY DragSteadied
<1> HIDE DEF f, s, g, d, d0, r, e, b, c
<1>3. [P0 EXCEPT !.drag_fidelity = c] = P1
  BY DragFidelitySet
<1>4. [P1 EXCEPT !.tap = Tap19] = P2
  BY TapSet
<1>5. [P2 EXCEPT !.drag = d] = P3
  BY DragSet
<1>6. P0.fidelity = f /\ P1.tap = Tap10 /\ P2.drag = d0
  BY PolicyStages
<1> HIDE DEF P0, P1, P2, P3
<1>7. DragCurve(P0.fidelity) = c
  BY <1>6 DEF c
<1>8. M19(settings) = [P0 EXCEPT !.drag_fidelity = c, !.tap.drag_lock = FALSE, !.tap.gap = 180,
                                 !.drag.stable = TRUE, !.drag.debounce = 50]
  BY <1>1, <1>7 DEF M19
<1>9. M19(settings) = [[[P0 EXCEPT !.drag_fidelity = c]
                            EXCEPT !.tap.drag_lock = FALSE, !.tap.gap = 180]
                            EXCEPT !.drag.stable = TRUE, !.drag.debounce = 50]
  BY <1>8
<1>10. [P1 EXCEPT !.tap.drag_lock = FALSE, !.tap.gap = 180] = P2
  <2>1. [P1 EXCEPT !.tap.drag_lock = FALSE, !.tap.gap = 180]
          = [P1 EXCEPT !.tap = [P1.tap EXCEPT !.drag_lock = FALSE, !.gap = 180]]
    OBVIOUS
  <2> QED BY <2>1, <1>4, <1>6, Tap19Is
<1>11. [P2 EXCEPT !.drag.stable = TRUE, !.drag.debounce = 50] = P3
  <2>1. [P2 EXCEPT !.drag.stable = TRUE, !.drag.debounce = 50]
          = [P2 EXCEPT !.drag = [P2.drag EXCEPT !.stable = TRUE, !.debounce = 50]]
    OBVIOUS
  <2> QED BY <2>1, <1>2, <1>5, <1>6
<1>12. M19(settings) = P3
  BY <1>3, <1>9, <1>10, <1>11
<1> QED BY <1>12 DEF P3, f, s, g, d, r, b, c, e

LEMMA M19Builds ==
  ASSUME NEW settings, SettingsValid(settings)
  PROVE  Built(M19(settings))
<1>1. FeelValid(settings.feel) /\ DwtValid(settings.dwt)
  BY DEF SettingsValid
<1>2. /\ FidelityValid(FeelFidelity(Fidelity11, settings.feel.param))
      /\ FidelityValid(DragCurve(FeelFidelity(Fidelity11, settings.feel.param)))
      /\ ScrollFidelityValid(FeelScroll(Scroll12, settings.feel.param))
      /\ GestureStageValid(FeelGesture(Gesture14, settings.feel.param))
      /\ DragValid(FeelDrag(settings.feel, settings.gestures.drag_enabled, TRUE, 50))
      /\ RobustnessValid(RobustOf(settings.dwt)) /\ TapValid(Tap19)
  BY <1>1, FeelFidelityValid, FeelScrollValid, FeelGestureValid, FeelDragValid, RobustOfValid,
     FeelCurveValid, Tap19Valid DEF FeelDrag
<1>3. 100 > 0
  OBVIOUS
<1>4. Built(Policy(100, Tap19, Two10, FeelFidelity(Fidelity11, settings.feel.param),
                   FeelScroll(Scroll12, settings.feel.param), RobustOf(settings.dwt),
                   FeelGesture(Gesture14, settings.feel.param),
                   FeelDrag(settings.feel, settings.gestures.drag_enabled, TRUE, 50),
                   DragCurve(FeelFidelity(Fidelity11, settings.feel.param)),
                   settings.gestures.bindings))
  BY <1>2, <1>3, BuiltOf, ShippedStagesValid, Zenon
<1> QED BY <1>4, M19Stages

(* What holds at first and at each that follows one for which it holds.    *)
LEMMA StepByStep ==
  ASSUME NEW L \in Nat, NEW Bad \in SUBSET (0..L), 0 \notin Bad,
         \A n \in 1..L : n \in Bad => n - 1 \in Bad
  PROVE  Bad = {}
<1> SUFFICES ASSUME Bad # {} PROVE FALSE
  OBVIOUS
<1>1. PICK n \in Bad : \A m \in Bad : n <= m
  <2>1. Bad \in SUBSET Nat
    OBVIOUS
  <2> QED BY <2>1, LeastNat
<1>2. n \in 1..L
  BY <1>1
<1>3. n - 1 \in Bad
  BY <1>1, <1>2
<1> QED BY <1>1, <1>2, <1>3

-----------------------------------------------------------------------------
(* The parser                                                              *)

NextScan(args, scan) ==
  IF scan.error # Nothing \/ scan.at > Len(args) THEN scan ELSE Step(scan, args)

Scanning(args, after, m) ==
  after = [n \in 0..m |-> IF n = 0 THEN NothingScanned ELSE NextScan(args, after[n - 1])]

LEMMA ScanningExists ==
  ASSUME NEW args, NEW L \in Nat
  PROVE  \E after : Scanning(args, after, L)
<1> DEFINE Bad == {m \in 0..L : ~\E after : Scanning(args, after, m)}
<1>1. 0 \notin Bad
  <2> DEFINE g == [n \in 0..0 |-> NothingScanned]
  <2>1. Scanning(args, g, 0)
    BY DEF Scanning
  <2> QED BY <2>1
<1>2. ASSUME NEW n \in 1..L, n - 1 \notin Bad PROVE n \notin Bad
  <2>1. PICK g : Scanning(args, g, n - 1)
    BY <1>2
  <2> DEFINE h == [k \in 0..n |-> IF k < n THEN g[k] ELSE NextScan(args, g[n - 1])]
  <2>2. \A k \in 0..n : h[k] = IF k = 0 THEN NothingScanned ELSE NextScan(args, h[k - 1])
    <3> TAKE k \in 0..n
    <3>1. CASE k = 0
      BY <2>1, <3>1 DEF Scanning
    <3>2. CASE k \in 1..n - 1
      BY <2>1, <3>2 DEF Scanning
    <3>3. CASE k = n
      BY <3>3
    <3> QED BY <3>1, <3>2, <3>3
  <2>3. Scanning(args, h, n)
    BY <2>2 DEF Scanning
  <2> QED BY <2>3
<1>3. Bad = {}
  BY <1>1, <1>2, StepByStep
<1> QED BY <1>3

LEMMA ScanIsLast ==
  ASSUME NEW args, Len(args) \in Nat
  PROVE  \E after : Scanning(args, after, Len(args)) /\ Scan(args) = after[Len(args)]
<1> DEFINE after == CHOOSE f : f = [n \in 0..Len(args) |->
               IF n = 0 THEN NothingScanned
               ELSE IF f[n - 1].error # Nothing \/ f[n - 1].at > Len(args) THEN f[n - 1]
                    ELSE Step(f[n - 1], args)]
<1>1. \E f : f = [n \in 0..Len(args) |->
               IF n = 0 THEN NothingScanned
               ELSE IF f[n - 1].error # Nothing \/ f[n - 1].at > Len(args) THEN f[n - 1]
                    ELSE Step(f[n - 1], args)]
  BY ScanningExists DEF Scanning, NextScan
<1>2. Scanning(args, after, Len(args))
  BY <1>1 DEF Scanning, NextScan
<1>3. Scan(args) = after[Len(args)]
  BY DEF Scan
<1> QED BY <1>2, <1>3

(* The words of a command line.                                            *)
Worded(args) ==
  args \in Seq(STRING) /\ \A i \in DOMAIN args : args[i] \notin {Nothing, Missing}

LEMMA FlagsApart ==
  /\ Switches \subseteq TAKEOVER_ONLY_FLAGS /\ ValueOptions \subseteq TAKEOVER_ONLY_FLAGS
  /\ Switches \cap ValueOptions = {}
  /\ TAKEOVER_ONLY_FLAGS = Switches \cup ValueOptions
  /\ "--profile" \in ValueOptions /\ "--feel-config" \in ValueOptions
  /\ "--settings" \in ValueOptions
BY DEF Switches, TAKEOVER_ONLY_FLAGS, ValueOptions

ScanOf(spot, count, value, positionals, error) ==
  [at |-> spot, count |-> count, value |-> value, positionals |-> positionals, error |-> error]

LEMMA ScanFields ==
  ASSUME NEW a, NEW c, NEW v, NEW p, NEW e
  PROVE  LET s == ScanOf(a, c, v, p, e) IN
         s.at = a /\ s.count = c /\ s.value = v /\ s.positionals = p /\ s.error = e
BY DEF ScanOf

(* What the parser knows while nothing is wrong: the profile is one it     *)
(* accepts, and a document's option has a value as soon as it was seen.    *)
Known(count, value) ==
  /\ count["--profile"] > 0 => value["--profile"] \in ACCEPTED_TAKEOVER_PROFILES
  /\ \A f \in {"--feel-config", "--settings"} : count[f] = 0 <=> value[f] = Nothing

WellScanned(s) ==
  /\ s = ScanOf(s.at, s.count, s.value, s.positionals, s.error)
  /\ s.at \in Nat \ {0} /\ s.count \in [TAKEOVER_ONLY_FLAGS -> Nat]
  /\ s.value = [f \in ValueOptions |-> s.value[f]]
  /\ s.error = Nothing => Known(s.count, s.value)

LEMMA WellScannedOf ==
  ASSUME NEW spot \in Nat \ {0}, NEW count \in [TAKEOVER_ONLY_FLAGS -> Nat], NEW value,
         value = [f \in ValueOptions |-> value[f]], NEW positionals, NEW error,
         error = Nothing => Known(count, value)
  PROVE  WellScanned(ScanOf(spot, count, value, positionals, error))
BY ScanFields DEF WellScanned

LEMMA ScanStarts == WellScanned(NothingScanned)
<1> DEFINE count == [f \in TAKEOVER_ONLY_FLAGS |-> 0]
           value == [f \in ValueOptions |-> Nothing]
<1>1. NothingScanned = ScanOf(1, count, value, <<>>, Nothing)
  BY DEF NothingScanned, ScanOf
<1>2. count \in [TAKEOVER_ONLY_FLAGS -> Nat] /\ value = [f \in ValueOptions |-> value[f]]
  OBVIOUS
<1>3. Known(count, value)
  BY FlagsApart DEF Known
<1> HIDE DEF count, value
<1>4. 1 \in Nat \ {0}
  OBVIOUS
<1>5. WellScanned(ScanOf(1, count, value, <<>>, Nothing))
  BY <1>2, <1>3, <1>4, WellScannedOf, Zenon
<1> QED BY <1>1, <1>5

LEMMA ScanAtSet ==
  ASSUME NEW a, NEW c, NEW v, NEW p, NEW e, NEW x
  PROVE  [ScanOf(a, c, v, p, e) EXCEPT !.at = x] = ScanOf(x, c, v, p, e)
BY DEF ScanOf

LEMMA ScanCountSet ==
  ASSUME NEW a, NEW c, NEW v, NEW p, NEW e, NEW x
  PROVE  [ScanOf(a, c, v, p, e) EXCEPT !.count = x] = ScanOf(a, x, v, p, e)
BY DEF ScanOf

LEMMA ScanValueSet ==
  ASSUME NEW a, NEW c, NEW v, NEW p, NEW e, NEW x
  PROVE  [ScanOf(a, c, v, p, e) EXCEPT !.value = x] = ScanOf(a, c, x, p, e)
BY DEF ScanOf

LEMMA ScanPositionalsSet ==
  ASSUME NEW a, NEW c, NEW v, NEW p, NEW e, NEW x
  PROVE  [ScanOf(a, c, v, p, e) EXCEPT !.positionals = x] = ScanOf(a, c, v, x, e)
BY DEF ScanOf

LEMMA ScanErrorSet ==
  ASSUME NEW a, NEW c, NEW v, NEW p, NEW e, NEW x
  PROVE  [ScanOf(a, c, v, p, e) EXCEPT !.error = x] = ScanOf(a, c, v, p, x)
BY DEF ScanOf

Counted(c, arg) == [c EXCEPT ![arg] = @ + 1]

Given(v, arg, x) == [v EXCEPT ![arg] = x]

SwitchSeen(s, arg) == [s EXCEPT !.count[arg] = @ + 1, !.at = @ + 1]

OptionSeen(s, arg, x, y) ==
  [s EXCEPT !.count[arg] = @ + 1, !.value[arg] = x, !.at = @ + 2, !.error = y]

ErrorSeen(s, y) == [s EXCEPT !.error = y]

OperandSeen(s, w, y) == [s EXCEPT !.positionals = Append(@, w), !.at = @ + 1, !.error = y]

LEMMA ScanSwitch ==
  ASSUME NEW a, NEW c, NEW v, NEW p, NEW e, NEW arg
  PROVE  SwitchSeen(ScanOf(a, c, v, p, e), arg) = ScanOf(a + 1, Counted(c, arg), v, p, e)
<1>1. PICK d : d = [c EXCEPT ![arg] = @ + 1]
  OBVIOUS
<1> DEFINE S0 == ScanOf(a, c, v, p, e)
           S1 == ScanOf(a, d, v, p, e)
           S2 == ScanOf(a + 1, d, v, p, e)
<1>2. [S0 EXCEPT !.count = d] = S1
  BY ScanCountSet
<1>3. [S1 EXCEPT !.at = a + 1] = S2
  BY ScanAtSet
<1>4. S0.count = c /\ S0.at = a
  BY ScanFields
<1> HIDE DEF S0, S1, S2
<1>5. SwitchSeen(S0, arg) = [[S0 EXCEPT !.count = [S0.count EXCEPT ![arg] = @ + 1]] EXCEPT !.at = S0.at + 1]
  BY DEF SwitchSeen
<1>6. SwitchSeen(S0, arg) = [[S0 EXCEPT !.count = d] EXCEPT !.at = a + 1]
  BY <1>1, <1>4, <1>5
<1>7. SwitchSeen(S0, arg) = S2
  BY <1>2, <1>3, <1>6
<1> QED BY <1>1, <1>7 DEF S0, S2, Counted

LEMMA ScanOption ==
  ASSUME NEW a, NEW c, NEW v, NEW p, NEW e, NEW arg, NEW x, NEW y
  PROVE  OptionSeen(ScanOf(a, c, v, p, e), arg, x, y)
           = ScanOf(a + 2, Counted(c, arg), Given(v, arg, x), p, y)
<1>1. PICK d : d = [c EXCEPT ![arg] = @ + 1]
  OBVIOUS
<1>2. PICK w : w = [v EXCEPT ![arg] = x]
  OBVIOUS
<1> DEFINE S0 == ScanOf(a, c, v, p, e)
           S1 == ScanOf(a, d, v, p, e)
           S2 == ScanOf(a, d, w, p, e)
           S3 == ScanOf(a + 2, d, w, p, e)
           S4 == ScanOf(a + 2, d, w, p, y)
<1>3. [S0 EXCEPT !.count = d] = S1
  BY ScanCountSet
<1>4. [S1 EXCEPT !.value = w] = S2
  BY ScanValueSet
<1>5. [S2 EXCEPT !.at = a + 2] = S3
  BY ScanAtSet
<1>6. [S3 EXCEPT !.error = y] = S4
  BY ScanErrorSet
<1>7. S0.count = c /\ S0.at = a /\ S0.value = v
  BY ScanFields
<1> HIDE DEF S0, S1, S2, S3, S4
<1>8. OptionSeen(S0, arg, x, y)
          = [[[[S0 EXCEPT !.count = [S0.count EXCEPT ![arg] = @ + 1]]
                 EXCEPT !.value = [S0.value EXCEPT ![arg] = x]]
                 EXCEPT !.at = S0.at + 2] EXCEPT !.error = y]
  BY DEF OptionSeen
<1>9. OptionSeen(S0, arg, x, y)
        = [[[[S0 EXCEPT !.count = d] EXCEPT !.value = w] EXCEPT !.at = a + 2] EXCEPT !.error = y]
  BY <1>1, <1>2, <1>7, <1>8
<1>10. OptionSeen(S0, arg, x, y) = S4
  BY <1>3, <1>4, <1>5, <1>6, <1>9
<1> QED BY <1>1, <1>2, <1>10 DEF S0, S4, Counted, Given

LEMMA ScanError ==
  ASSUME NEW a, NEW c, NEW v, NEW p, NEW e, NEW y
  PROVE  ErrorSeen(ScanOf(a, c, v, p, e), y) = ScanOf(a, c, v, p, y)
BY ScanErrorSet DEF ErrorSeen

LEMMA ScanPositional ==
  ASSUME NEW a, NEW c, NEW v, NEW p, NEW e, NEW w, NEW y
  PROVE  OperandSeen(ScanOf(a, c, v, p, e), w, y) = ScanOf(a + 1, c, v, Append(p, w), y)
<1>1. PICK q : q = Append(p, w)
  OBVIOUS
<1> DEFINE S0 == ScanOf(a, c, v, p, e)
           S1 == ScanOf(a, c, v, q, e)
           S2 == ScanOf(a + 1, c, v, q, e)
           S3 == ScanOf(a + 1, c, v, q, y)
<1>2. [S0 EXCEPT !.positionals = q] = S1
  BY ScanPositionalsSet
<1>3. [S1 EXCEPT !.at = a + 1] = S2
  BY ScanAtSet
<1>4. [S2 EXCEPT !.error = y] = S3
  BY ScanErrorSet
<1>5. S0.positionals = p /\ S0.at = a
  BY ScanFields
<1> HIDE DEF S0, S1, S2, S3
<1>6. OperandSeen(S0, w, y)
        = [[[S0 EXCEPT !.positionals = Append(S0.positionals, w)] EXCEPT !.at = S0.at + 1]
              EXCEPT !.error = y]
  BY DEF OperandSeen
<1>7. OperandSeen(S0, w, y) = [[[S0 EXCEPT !.positionals = q] EXCEPT !.at = a + 1] EXCEPT !.error = y]
  BY <1>1, <1>5, <1>6
<1>8. OperandSeen(S0, w, y) = S3
  BY <1>2, <1>3, <1>4, <1>7
<1> QED BY <1>1, <1>8 DEF S0, S3

LEMMA StepKeeps ==
  ASSUME NEW args, Worded(args), NEW s, WellScanned(s), s.error = Nothing, s.at <= Len(args)
  PROVE  WellScanned(Step(s, args))
<1>0. PICK a, c, v, p :
        /\ a \in Nat \ {0} /\ c \in [TAKEOVER_ONLY_FLAGS -> Nat]
        /\ s = ScanOf(a, c, v, p, Nothing) /\ v = [f \in ValueOptions |-> v[f]]
        /\ Known(c, v) /\ s.at = a /\ s.positionals = p
  BY DEF WellScanned
<1> DEFINE arg == args[a]
           value == IF a < Len(args) THEN args[a + 1] ELSE Missing
<1>1. value # Nothing
  BY <1>0 DEF Worded, Missing, Nothing
<1>2. arg = args[s.at] /\ value = IF s.at < Len(args) THEN args[s.at + 1] ELSE Missing
  BY <1>0
<1> HIDE DEF value, arg
<1>3. CASE arg \in Switches
  <2>1. Step(s, args) = SwitchSeen(s, arg)
    BY <1>2, <1>3, FlagsApart DEF Step, SwitchSeen
  <2>2. PICK d : d = Counted(c, arg)
    OBVIOUS
  <2>3. Step(s, args) = ScanOf(a + 1, d, v, p, Nothing)
    BY <1>0, <2>1, <2>2, ScanSwitch
  <2>4. d \in [TAKEOVER_ONLY_FLAGS -> Nat]
    BY <1>0, <1>3, <2>2, FlagsApart DEF Counted, Given
  <2>5. \A f \in ValueOptions : d[f] = c[f]
    BY <1>0, <1>3, <2>2, FlagsApart DEF Counted, Given
  <2>6. Known(d, v)
    BY <1>0, <2>5, FlagsApart DEF Known
  <2> QED BY <1>0, <2>3, <2>4, <2>6, WellScannedOf
<1>4. CASE arg \in ValueOptions
  <2>1. Step(s, args) = OptionSeen(s, arg, value, ValueError(arg, value))
    BY <1>2, <1>4, FlagsApart DEF Step, OptionSeen
  <2>2. PICK d, w, e : d = Counted(c, arg) /\ w = Given(v, arg, value) /\ e = ValueError(arg, value)
    OBVIOUS
  <2>3. Step(s, args) = ScanOf(a + 2, d, w, p, e)
    BY <1>0, <2>1, <2>2, ScanOption
  <2>4. d \in [TAKEOVER_ONLY_FLAGS -> Nat] /\ w = [f \in ValueOptions |-> w[f]]
    <3>1. d \in [TAKEOVER_ONLY_FLAGS -> Nat]
      BY <1>0, <1>4, <2>2, FlagsApart DEF Counted, Given
    <3>2. DOMAIN v = ValueOptions
      BY <1>0
    <3>3. w = [f \in DOMAIN v |-> IF f = arg THEN value ELSE v[f]]
      BY <2>2 DEF Given
    <3>4. w = [f \in ValueOptions |-> w[f]]
      BY <3>2, <3>3
    <3> QED BY <3>1, <3>4
  <2>5. /\ d[arg] = c[arg] + 1 /\ w[arg] = value /\ c[arg] \in Nat
        /\ \A f \in ValueOptions \ {arg} : d[f] = c[f] /\ w[f] = v[f]
    BY <1>0, <1>4, <2>2, FlagsApart DEF Counted, Given
  <2>6. ASSUME e = Nothing PROVE Known(d, w)
    <3>1. arg = "--profile" => value \in ACCEPTED_TAKEOVER_PROFILES
      BY <2>2, <2>6 DEF ValueError, Nothing
    <3>2. d["--profile"] > 0 => w["--profile"] \in ACCEPTED_TAKEOVER_PROFILES
      BY <1>0, <2>5, <3>1, FlagsApart DEF Known
    <3>3. ASSUME NEW f \in {"--feel-config", "--settings"}
          PROVE  d[f] = 0 <=> w[f] = Nothing
      <4>1. CASE f = arg
        BY <1>1, <2>5, <4>1
      <4>2. CASE f # arg
        BY <1>0, <2>5, <4>2, FlagsApart DEF Known
      <4> QED BY <4>1, <4>2
    <3> QED BY <3>2, <3>3 DEF Known
  <2>7. a + 2 \in Nat \ {0}
    BY <1>0
  <2>8. WellScanned(ScanOf(a + 2, d, w, p, e))
    BY <2>4, <2>6, <2>7, WellScannedOf
  <2> QED BY <2>3, <2>8
<1>5. CASE arg \in Dashed \ TAKEOVER_ONLY_FLAGS
  <2>1. Step(s, args) = ErrorSeen(s, "UnknownFlag")
    BY <1>2, <1>5, FlagsApart DEF Step, ErrorSeen
  <2>2. Step(s, args) = ScanOf(a, c, v, p, "UnknownFlag")
    BY <1>0, <2>1, ScanError
  <2> QED BY <1>0, <2>2, WellScannedOf DEF Nothing
<1>6. CASE arg \notin TAKEOVER_ONLY_FLAGS /\ arg \notin Dashed
  <2>1. PICK e : e = IF Len(p) = 2 THEN "WrongArity" ELSE Nothing
    OBVIOUS
  <2>2. Step(s, args) = OperandSeen(s, arg, e)
    BY <1>0, <1>2, <1>6, <2>1, FlagsApart DEF Step, OperandSeen
  <2>3. Step(s, args) = ScanOf(a + 1, c, v, Append(p, arg), e)
    BY <1>0, <2>2, ScanPositional
  <2> QED BY <1>0, <2>3, WellScannedOf
<1> QED BY <1>3, <1>4, <1>5, <1>6, FlagsApart DEF Dashed

LEMMA ScanIsSound ==
  ASSUME NEW args, Worded(args)
  PROVE  WellScanned(Scan(args))
<1>1. Len(args) \in Nat
  BY DEF Worded
<1>2. PICK after : Scanning(args, after, Len(args)) /\ Scan(args) = after[Len(args)]
  BY <1>1, ScanIsLast
<1> DEFINE Bad == {n \in 0..Len(args) : ~WellScanned(after[n])}
<1>3. 0 \notin Bad
  BY <1>1, <1>2, ScanStarts DEF Scanning
<1>4. ASSUME NEW n \in 1..Len(args), n \in Bad PROVE n - 1 \in Bad
  <2> SUFFICES ASSUME WellScanned(after[n - 1]) PROVE WellScanned(after[n])
    BY <1>1, <1>4
  <2>1. after[n] = NextScan(args, after[n - 1])
    BY <1>1, <1>2 DEF Scanning
  <2>2. CASE after[n - 1].error # Nothing \/ after[n - 1].at > Len(args)
    BY <2>1, <2>2 DEF NextScan
  <2>3. CASE ~(after[n - 1].error # Nothing \/ after[n - 1].at > Len(args))
    <3>1. after[n - 1].at <= Len(args)
      BY <1>1, <2>3 DEF WellScanned
    <3> QED BY <2>1, <2>3, <3>1, StepKeeps DEF NextScan
  <2> QED BY <2>2, <2>3
<1>5. Bad = {}
  BY <1>1, <1>3, <1>4, StepByStep
<1> QED BY <1>1, <1>2, <1>5

-----------------------------------------------------------------------------
(* The checks: what is known when none of them held.                       *)

LEMMA ErrorNamed == \A e : UsageError(e).name = "usage-error"
BY DEF UsageError

NoneRaised(checks) == \A i \in DOMAIN checks : ~checks[i][1]

LEMMA NoneHolds ==
  ASSUME NEW checks, NEW otherwise, FirstError(checks, otherwise).name # "usage-error"
  PROVE  NoneRaised(checks) /\ FirstError(checks, otherwise) = otherwise
<1>1. ASSUME NEW i \in DOMAIN checks, checks[i][1] PROVE FALSE
  <2> DEFINE first == CHOOSE k \in DOMAIN checks :
                      checks[k][1] /\ \A j \in DOMAIN checks : checks[j][1] => k <= j
  <2>1. FirstError(checks, otherwise) = UsageError(checks[first][2])
    BY <1>1, Zenon DEF FirstError
  <2> QED BY <2>1, ErrorNamed, Zenon
<1>2. FirstError(checks, otherwise) = otherwise
  BY <1>1, Zenon DEF FirstError
<1> QED BY <1>1, <1>2, Zenon DEF NoneRaised

(* A tuple written out.                                                    *)
Literal(t, n) == n \in Nat /\ t = [i \in 1..n |-> t[i]]

LEMMA OptInAre ==
  ASSUME NEW s
  PROVE  LET t == OptInChecks(s) IN
         /\ Literal(t, 14)
         /\ t[8] = Demanded(s, "--profile", "ProfileRequired")
<1>1. PICK a1, a2, a3, a4, a5, a6, a7, a8, a9, a10, a11, a12, a13, a14 :
        /\ a8 = Demanded(s, "--profile", "ProfileRequired")
        /\ OptInChecks(s) = <<a1, a2, a3, a4, a5, a6, a7, a8, a9, a10, a11, a12, a13, a14>>
  BY Zenon DEF OptInChecks
<1> QED BY <1>1 DEF Literal

LEMMA ProfileAre ==
  ASSUME NEW s
  PROVE  LET wanted == InputsOf(s.value["--profile"])
             given  == {f \in {"--feel-config", "--settings", "--watch-settings"} : s.count[f] > 0}
             t == ProfileChecks(s)
         IN /\ Literal(t, 6)
            /\ t[1] = <<"--feel-config" \in wanted \ given, "FeelConfigRequired">>
            /\ t[2] = <<"--settings" \in wanted \ given, "SettingsRequired">>
            /\ t[3] = <<"--feel-config" \in given \ wanted, "FeelConfigOnlyM17">>
            /\ t[4] = <<"--settings" \in given \ wanted, "SettingsOnlyM18M19">>
<1> DEFINE wanted == InputsOf(s.value["--profile"])
           given  == {f \in {"--feel-config", "--settings", "--watch-settings"} : s.count[f] > 0}
<1>1. PICK a1, a2, a3, a4, a5, a6 :
        /\ a1 = <<"--feel-config" \in wanted \ given, "FeelConfigRequired">>
        /\ a2 = <<"--settings" \in wanted \ given, "SettingsRequired">>
        /\ a3 = <<"--feel-config" \in given \ wanted, "FeelConfigOnlyM17">>
        /\ a4 = <<"--settings" \in given \ wanted, "SettingsOnlyM18M19">>
        /\ ProfileChecks(s) = <<a1, a2, a3, a4, a5, a6>>
  BY Zenon DEF ProfileChecks
<1> HIDE DEF wanted, given
<1>2. LET t == ProfileChecks(s) IN Literal(t, 6) /\ t[1] = a1 /\ t[2] = a2 /\ t[3] = a3 /\ t[4] = a4
  BY <1>1 DEF Literal
<1> QED BY <1>1, <1>2, Zenon DEF wanted, given

LEMMA PositionalAre ==
  ASSUME NEW s
  PROVE  Literal(PositionalChecks(s), 2)
<1>1. PICK a1, a2 : PositionalChecks(s) = <<a1, a2>>
  BY Zenon DEF PositionalChecks
<1> QED BY <1>1 DEF Literal

LEMMA Raised ==
  ASSUME NEW b, NEW error, NEW pair, pair = <<b, error>>, ~pair[1]
  PROVE  ~b
BY Zenon

LEMMA ChecksFalse ==
  ASSUME NEW S, NEW A \in Seq(S), NEW B \in Seq(S), NEW C \in Seq(S),
         NoneRaised(A \o B \o C)
  PROVE  NoneRaised(A) /\ NoneRaised(B)
<1>1. /\ A \o B \in Seq(S) /\ Len(A \o B) = Len(A) + Len(B)
      /\ \A i \in 1..Len(A) : (A \o B)[i] = A[i]
      /\ \A i \in 1..Len(B) : (A \o B)[Len(A) + i] = B[i]
  OBVIOUS
<1>2. /\ (A \o B) \o C \in Seq(S) /\ Len(A \o B \o C) = Len(A) + Len(B) + Len(C)
      /\ \A i \in 1..Len(A) + Len(B) : (A \o B \o C)[i] = (A \o B)[i]
  BY <1>1
<1>3. Len(A) \in Nat /\ Len(B) \in Nat /\ Len(C) \in Nat
  OBVIOUS
<1>4. DOMAIN (A \o B \o C) = 1..Len(A) + Len(B) + Len(C)
  BY <1>2
<1>5. ASSUME NEW i \in 1..Len(A) PROVE ~A[i][1]
  <2>1. i \in 1..Len(A) + Len(B)
    BY <1>3
  <2>2. (A \o B \o C)[i] = A[i]
    BY <1>1, <1>2, <2>1, Zenon
  <2>3. i \in DOMAIN (A \o B \o C)
    BY <1>3, <1>4
  <2> QED BY <2>2, <2>3, Zenon DEF NoneRaised
<1>6. ASSUME NEW i \in 1..Len(B) PROVE ~B[i][1]
  <2>1. Len(A) + i \in 1..Len(A) + Len(B)
    BY <1>3
  <2>2. (A \o B)[Len(A) + i] = B[i]
    BY <1>1
  <2>3. (A \o B \o C)[Len(A) + i] = B[i]
    BY <1>2, <2>1, <2>2, Zenon
  <2>4. Len(A) + i \in DOMAIN (A \o B \o C)
    BY <1>3, <1>4, <2>1
  <2> QED BY <2>3, <2>4, Zenon DEF NoneRaised
<1> QED BY <1>3, <1>5, <1>6 DEF NoneRaised

LEMMA ChecksOf ==
  ASSUME NEW A, NEW B, NEW C, NEW a, NEW b, NEW c, Literal(A, a), Literal(B, b), Literal(C, c),
         NoneRaised(A \o B \o C)
  PROVE  NoneRaised(A) /\ NoneRaised(B)
<1> DEFINE S == {A[i] : i \in 1..a} \cup {B[i] : i \in 1..b} \cup {C[i] : i \in 1..c}
<1>1. A \in [1..a -> S] /\ B \in [1..b -> S] /\ C \in [1..c -> S]
  BY DEF Literal
<1> HIDE DEF S
<1>2. A \in Seq(S) /\ B \in Seq(S) /\ C \in Seq(S) /\ Len(A) = a /\ Len(B) = b
  BY <1>1 DEF Literal
<1> QED BY <1>2, ChecksFalse

(* What a command line asks of the profile it names: the documents its     *)
(* inputs stand for, and no other.                                         *)
Asks(choice) ==
  /\ choice.profile \in ACCEPTED_TAKEOVER_PROFILES
  /\ choice.feel = Nothing <=> choice.profile # "m17-tunable-v1"
  /\ choice.settings = Nothing <=> choice.profile \notin {"m18-remap-v1", "m19-live-v1"}

LEMMA ScanAsks ==
  ASSUME NEW s, WellScanned(s), s.error = Nothing,
         NoneRaised(OptInChecks(s) \o ProfileChecks(s) \o PositionalChecks(s))
  PROVE  /\ s.value["--profile"] \in ACCEPTED_TAKEOVER_PROFILES
         /\ s.value["--feel-config"] = Nothing <=> s.value["--profile"] # "m17-tunable-v1"
         /\ s.value["--settings"] = Nothing
              <=> s.value["--profile"] \notin {"m18-remap-v1", "m19-live-v1"}
<1> DEFINE wanted == InputsOf(s.value["--profile"])
           given  == {f \in {"--feel-config", "--settings", "--watch-settings"} : s.count[f] > 0}
           A == OptInChecks(s)
           B == ProfileChecks(s)
           C == PositionalChecks(s)
<1>1. Literal(A, 14) /\ A[8] = Demanded(s, "--profile", "ProfileRequired")
  BY OptInAre, Zenon
<1>2. /\ Literal(B, 6)
      /\ B[1] = <<"--feel-config" \in wanted \ given, "FeelConfigRequired">>
      /\ B[2] = <<"--settings" \in wanted \ given, "SettingsRequired">>
      /\ B[3] = <<"--feel-config" \in given \ wanted, "FeelConfigOnlyM17">>
      /\ B[4] = <<"--settings" \in given \ wanted, "SettingsOnlyM18M19">>
  BY ProfileAre, Zenon
<1>3. Literal(C, 2)
  BY PositionalAre, Zenon
<1>4. NoneRaised(A \o B \o C)
  OBVIOUS
<1> HIDE DEF A, B, C, wanted, given
<1>5. NoneRaised(A) /\ NoneRaised(B)
  BY <1>1, <1>2, <1>3, <1>4, ChecksOf, Zenon
<1>6. ~A[8][1] /\ ~B[1][1] /\ ~B[2][1] /\ ~B[3][1] /\ ~B[4][1]
  <2>1. 8 \in DOMAIN A /\ 1 \in DOMAIN B /\ 2 \in DOMAIN B /\ 3 \in DOMAIN B /\ 4 \in DOMAIN B
    BY <1>1, <1>2 DEF Literal
  <2> QED BY <1>5, <2>1, Zenon DEF NoneRaised
<1>7. ~(s.count["--profile"] = 0)
  BY <1>1, <1>6, Raised, Zenon DEF Demanded
<1>8. ~("--feel-config" \in wanted \ given) /\ ~("--settings" \in wanted \ given)
  BY <1>2, <1>6, Raised, Zenon
<1>9. ~("--feel-config" \in given \ wanted) /\ ~("--settings" \in given \ wanted)
  BY <1>2, <1>6, Raised, Zenon
<1>10. /\ s.count["--profile"] \in Nat /\ s.count["--feel-config"] \in Nat /\ s.count["--settings"] \in Nat
       /\ Known(s.count, s.value)
  BY FlagsApart DEF WellScanned
<1>11. s.value["--profile"] \in ACCEPTED_TAKEOVER_PROFILES
  BY <1>7, <1>10 DEF Known
<1>12. /\ s.value["--feel-config"] # Nothing <=> "--feel-config" \in wanted
       /\ s.value["--settings"] # Nothing <=> "--settings" \in wanted
  BY <1>8, <1>9, <1>10 DEF Known, given
<1>13. /\ "--feel-config" \in wanted <=> s.value["--profile"] = "m17-tunable-v1"
       /\ "--settings" \in wanted <=> s.value["--profile"] \in {"m18-remap-v1", "m19-live-v1"}
  BY DEF wanted, InputsOf
<1> QED BY <1>11, <1>12, <1>13

LEMMA TakeoverAsks ==
  ASSUME NEW args, Worded(args), ParseTakeover(args).name # "usage-error"
  PROVE  LET c == ParseTakeover(args) IN Asks(c) /\ c.name = "takeover"
<1>1. PICK s : s = Scan(args)
  OBVIOUS
<1>2. WellScanned(s)
  BY <1>1, ScanIsSound
<1> DEFINE checks == OptInChecks(s) \o ProfileChecks(s) \o PositionalChecks(s)
<1>3. \A e : UsageError(e).name = "usage-error"
  BY DEF UsageError
<1>4. s.error = Nothing
  BY <1>1, <1>3, Zenon DEF ParseTakeover
<1>5. PICK legacy : legacy = IF Len(s.positionals) = 2 THEN s.positionals[1] ELSE Nothing
  OBVIOUS
<1> DEFINE taken == 
            [name     |-> "takeover",
             device   |-> IF s.value["--device"] # Nothing THEN s.value["--device"] ELSE legacy,
             trace    |-> Last(s.positionals),
             seconds  |-> NumberOf[s.value["--max-duration-seconds"]],
             profile  |-> s.value["--profile"],
             feel     |-> s.value["--feel-config"],
             settings |-> s.value["--settings"],
             watch    |-> s.count["--watch-settings"] = 1]
<1>6. ParseTakeover(args) = FirstError(checks, taken)
  BY <1>1, <1>4, <1>5, Zenon DEF ParseTakeover
<1>7. /\ taken.name = "takeover" /\ taken.profile = s.value["--profile"]
      /\ taken.feel = s.value["--feel-config"] /\ taken.settings = s.value["--settings"]
  OBVIOUS
<1>8. FirstError(checks, taken) = taken /\ NoneRaised(checks)
  <2> HIDE DEF checks, taken
  <2>1. FirstError(checks, taken).name # "usage-error"
    BY <1>6, Zenon
  <2> QED BY <2>1, NoneHolds, Zenon
<1>9. /\ s.value["--profile"] \in ACCEPTED_TAKEOVER_PROFILES
      /\ s.value["--feel-config"] = Nothing <=> s.value["--profile"] # "m17-tunable-v1"
      /\ s.value["--settings"] = Nothing
              <=> s.value["--profile"] \notin {"m18-remap-v1", "m19-live-v1"}
  BY <1>2, <1>4, <1>8, ScanAsks, Zenon
<1> HIDE DEF checks, taken
<1> QED BY <1>6, <1>7, <1>8, <1>9 DEF Asks

-----------------------------------------------------------------------------
(* The commands other than takeover                                        *)

Sifting(args, words, among, kept, m) ==
  kept = [n \in 0..m |-> IF n = 0 THEN <<>>
                         ELSE IF (args[n] \in words) = among THEN Append(kept[n - 1], args[n])
                         ELSE kept[n - 1]]

LEMMA SiftingExists ==
  ASSUME NEW args, NEW words, NEW among, NEW L \in Nat
  PROVE  \E kept : Sifting(args, words, among, kept, L)
<1> DEFINE Keeping(k, n) == IF (args[n] \in words) = among THEN Append(k, args[n]) ELSE k
           Bad == {m \in 0..L : ~\E kept : Sifting(args, words, among, kept, m)}
<1>1. 0 \notin Bad
  <2> DEFINE g == [n \in 0..0 |-> <<>>]
  <2>1. Sifting(args, words, among, g, 0)
    BY DEF Sifting
  <2> QED BY <2>1
<1>2. ASSUME NEW n \in 1..L, n - 1 \notin Bad PROVE n \notin Bad
  <2>1. PICK g : Sifting(args, words, among, g, n - 1)
    BY <1>2
  <2>2. /\ DOMAIN g = 0..n - 1
        /\ \A k \in 0..n - 1 : g[k] = IF k = 0 THEN <<>> ELSE Keeping(g[k - 1], k)
    BY <2>1 DEF Sifting
  <2> HIDE DEF Keeping
  <2> DEFINE h == [k \in 0..n |-> IF k < n THEN g[k] ELSE Keeping(g[n - 1], n)]
  <2>3. \A k \in 0..n : h[k] = IF k = 0 THEN <<>> ELSE Keeping(h[k - 1], k)
    <3> TAKE k \in 0..n
    <3>1. CASE k = 0
      BY <2>2, <3>1
    <3>2. CASE k \in 1..n - 1
      BY <2>2, <3>2
    <3>3. CASE k = n
      BY <3>3
    <3> QED BY <3>1, <3>2, <3>3
  <2>4. h = [k \in 0..n |-> IF k = 0 THEN <<>> ELSE Keeping(h[k - 1], k)]
    BY <2>3
  <2>5. Sifting(args, words, among, h, n)
    <3> HIDE DEF h
    <3> QED BY <2>4 DEF Sifting, Keeping
  <2> QED BY <2>5
<1>3. Bad = {}
  <2> HIDE DEF Bad
  <2> QED BY <1>1, <1>2, StepByStep DEF Bad
<1> QED BY <1>3

LEMMA SiftedIsLast ==
  ASSUME NEW args, NEW words, NEW among, Len(args) \in Nat
  PROVE  \E kept : Sifting(args, words, among, kept, Len(args)) /\ Sifted(args, words, among) = kept[Len(args)]
<1> DEFINE kept == CHOOSE f : f = [n \in 0..Len(args) |->
                         IF n = 0 THEN <<>>
                         ELSE IF (args[n] \in words) = among THEN Append(f[n - 1], args[n])
                         ELSE f[n - 1]]
<1>1. \E f : f = [n \in 0..Len(args) |->
                         IF n = 0 THEN <<>>
                         ELSE IF (args[n] \in words) = among THEN Append(f[n - 1], args[n])
                         ELSE f[n - 1]]
  <2>1. PICK f : Sifting(args, words, among, f, Len(args))
    BY SiftingExists, Zenon
  <2> QED BY <2>1, Zenon DEF Sifting
<1>2. Sifting(args, words, among, kept, Len(args))
  BY <1>1 DEF Sifting
<1>3. Sifted(args, words, among) = kept[Len(args)]
  BY DEF Sifted
<1> QED BY <1>2, <1>3

LEMMA SiftedAmong ==
  ASSUME NEW S, NEW args \in Seq(S), NEW words, NEW among
  PROVE  Sifted(args, words, among) \in Seq(S)
<1>1. Len(args) \in Nat
  OBVIOUS
<1>2. PICK kept : /\ Sifting(args, words, among, kept, Len(args))
                  /\ Sifted(args, words, among) = kept[Len(args)]
  BY <1>1, SiftedIsLast
<1> DEFINE Bad == {n \in 0..Len(args) : kept[n] \notin Seq(S)}
<1>3. 0 \notin Bad
  BY <1>1, <1>2 DEF Sifting
<1>4. ASSUME NEW n \in 1..Len(args), n - 1 \notin Bad PROVE n \notin Bad
  <2>1. kept[n - 1] \in Seq(S)
    BY <1>1, <1>4
  <2>2. kept[n] = Append(kept[n - 1], args[n]) \/ kept[n] = kept[n - 1]
    <3>2. n \in 0..Len(args) /\ n # 0
      BY <1>1
    <3>3. kept[n] = IF n = 0 THEN <<>>
                    ELSE IF (args[n] \in words) = among THEN Append(kept[n - 1], args[n])
                    ELSE kept[n - 1]
      BY <1>2, <3>2, Zenon DEF Sifting
    <3> QED BY <3>2, <3>3, Zenon
  <2>3. args[n] \in S
    BY <1>1
  <2>4. kept[n] \in Seq(S)
    <3>1. PICK k, e : k = kept[n - 1] /\ e = args[n]
      OBVIOUS
    <3>2. k \in Seq(S) /\ e \in S /\ (kept[n] = Append(k, e) \/ kept[n] = k)
      BY <2>1, <2>2, <2>3, <3>1, Zenon
    <3>3. Append(k, e) \in Seq(S)
      BY <3>2
    <3> QED BY <3>2, <3>3, Zenon
  <2> QED BY <2>4
<1>5. Bad = {}
  <2> HIDE DEF Bad
  <2> QED BY <1>1, <1>3, <1>4, StepByStep DEF Bad
<1> QED BY <1>1, <1>2, <1>5

Spoken == STRING \ {Nothing, Missing}

LEMMA ChecksOne ==
  ASSUME NEW A, NEW B, NEW C, NEW a, NEW b, NEW c, Literal(A, a), Literal(B, b), Literal(C, c),
         NoneRaised(A \o B \o C)
  PROVE  NoneRaised(B)
BY ChecksOf

LEMMA PlainArity ==
  ASSUME NEW name, NEW rest \in Seq(Spoken), ParsePlain(name, rest).name # "usage-error"
  PROVE  \E operands, flag :
           /\ operands \in Seq(Spoken)
           /\ ParsePlain(name, rest) = PlainCommand(name, operands, flag)
           /\ Len(operands) \in ArityOf(name)
<1> DEFINE operands == Sifted(rest, Dashed, FALSE)
           flags    == Sifted(rest, Dashed, TRUE)
           foreign  == Sifted(flags, {OwnFlag(name)}, FALSE)
           owned      == Len(flags) - Len(foreign)
           arity    == <<Len(operands) \notin ArityOf(name), "WrongArity">>
           strange  == <<foreign # <<>>, FlagError(name, foreign)>>
           twice    == <<owned > 1, "DuplicateFlag">>
<1>1. PICK first, last :
        ParsePlain(name, rest) =
          FirstError(<<first>> \o (IF name \in FlagsFirst THEN <<strange, arity>> ELSE <<arity, twice, strange>>)
                     \o <<last>>, PlainCommand(name, operands, owned = 1))
  BY Zenon DEF ParsePlain
<1>2. PICK no : no = FALSE
  OBVIOUS
<1>3. operands \in Seq(Spoken)
  BY <1>2, SiftedAmong
<1>4. PICK f : f = (owned = 1)
  OBVIOUS
<1>5. PICK odd, double : odd = strange /\ double = twice
  OBVIOUS
<1> DEFINE A == <<first>>
           B == IF name \in FlagsFirst THEN <<odd, arity>> ELSE <<arity, double, odd>>
           C == <<last>>
<1>12. ParsePlain(name, rest) = FirstError(A \o B \o C, PlainCommand(name, operands, f))
  BY <1>1, <1>4, <1>5, Zenon
<1> HIDE DEF operands, flags, foreign, owned, arity, strange, twice
<1>6. NoneRaised(A \o B \o C) /\ ParsePlain(name, rest) = PlainCommand(name, operands, f)
  <2> HIDE DEF A, B, C
  <2>1. FirstError(A \o B \o C, PlainCommand(name, operands, f)).name # "usage-error"
    BY <1>12, Zenon
  <2> QED BY <2>1, <1>12, NoneHolds, Zenon
<1>7. PICK n : Literal(B, n) /\ (\E i \in DOMAIN B : B[i] = arity)
  <2>1. CASE name \in FlagsFirst
    <3>1. B = <<odd, arity>>
      BY <2>1
    <3>2. Literal(B, 2) /\ 2 \in DOMAIN B /\ B[2] = arity
      BY <3>1 DEF Literal
    <3> QED BY <3>2
  <2>2. CASE name \notin FlagsFirst
    <3>1. B = <<arity, double, odd>>
      BY <2>2
    <3>2. Literal(B, 3) /\ 1 \in DOMAIN B /\ B[1] = arity
      BY <3>1 DEF Literal
    <3> QED BY <3>2
  <2> QED BY <2>1, <2>2
<1>8. Literal(A, 1) /\ Literal(C, 1)
  BY DEF Literal
<1>9. NoneRaised(B)
  <2> HIDE DEF A, B, C
  <2> QED BY <1>6, <1>7, <1>8, ChecksOne, Zenon
<1>10. ~arity[1]
  BY <1>7, <1>9, Zenon DEF NoneRaised
<1>11. Len(operands) \in ArityOf(name)
  BY <1>10, Raised, Zenon DEF arity
<1> QED BY <1>3, <1>6, <1>11

(* What an accepted command line comes to.                                 *)
Commanded(c) ==
  \/ c = HelpCommand
  \/ c.name = "takeover" /\ Asks(c)
  \/ \E name, operands, flag :
       /\ name \in PlainCommands /\ operands \in Seq(Spoken)
       /\ c = PlainCommand(name, operands, flag) /\ Len(operands) \in ArityOf(name)

LEMMA LineParses ==
  ASSUME NEW line, Worded(line), parse_args(line).name # "usage-error"
  PROVE  Commanded(parse_args(line))
<1>1. line \in Seq(Spoken)
  BY DEF Worded, Spoken
<1>2. \A e : UsageError(e).name = "usage-error"
  BY ErrorNamed
<1>3. line # <<>>
  BY <1>2, Zenon DEF parse_args
<1>4. Tail(line) \in Seq(Spoken)
  BY <1>1, <1>3
<1>5. Worded(Tail(line))
  BY <1>4 DEF Worded, Spoken
<1>6. PICK rest, name : rest = Tail(line) /\ name = line[1]
  OBVIOUS
<1>7. \/ parse_args(line) = HelpCommand
      \/ parse_args(line) = ParseTakeover(rest)
      \/ name \in PlainCommands /\ parse_args(line) = ParsePlain(name, rest)
  BY <1>2, <1>3, <1>6, Zenon DEF parse_args
<1>8. CASE parse_args(line) = ParseTakeover(rest)
  BY <1>5, <1>6, <1>8, TakeoverAsks DEF Commanded
<1>9. CASE name \in PlainCommands /\ parse_args(line) = ParsePlain(name, rest)
  BY <1>4, <1>6, <1>9, PlainArity DEF Commanded
<1> QED BY <1>7, <1>8, <1>9 DEF Commanded

LEMMA Judged ==
  ASSUME NEW config, Built(config)
  PROVE  Chosen(config).ok
BY Zenon DEF Chosen

LEMMA DocumentsCount ==
  /\ \A feel : FeelValid(feel) => feel # NoDocument
  /\ \A settings : SettingsValid(settings) => settings # NoDocument
BY DEF FeelValid, SettingsValid, NoDocument, FEEL_CONFIG_VERSION, USER_SETTINGS_VERSION

LEMMA ProfileChosen ==
  ASSUME NEW choice, Asks(choice), NEW f, NEW s,
         IF choice.feel = Nothing THEN f = NoDocument ELSE FeelValid(f),
         IF choice.settings = Nothing THEN s = NoDocument ELSE SettingsValid(s)
  PROVE  SelectProfile(choice.profile, f, s).ok
<1>1. PICK name : name = choice.profile
  OBVIOUS
<1>2. name \in EarlyProfiles \/ name \in {"m17-tunable-v1", "m18-remap-v1", "m19-live-v1"}
  BY <1>1 DEF Asks, ACCEPTED_TAKEOVER_PROFILES
<1>3. /\ name # "m17-tunable-v1" => f = NoDocument
      /\ name = "m17-tunable-v1" => FeelValid(f) /\ f # NoDocument
      /\ name \notin {"m18-remap-v1", "m19-live-v1"} => s = NoDocument
      /\ name \in {"m18-remap-v1", "m19-live-v1"} => SettingsValid(s) /\ s # NoDocument
  BY <1>1, DocumentsCount, Zenon DEF Asks
<1>4. DOMAIN Ladder = EarlyProfiles
  BY DEF Ladder
<1>5. /\ "m17-tunable-v1" \notin EarlyProfiles /\ "m18-remap-v1" \notin EarlyProfiles
      /\ "m19-live-v1" \notin EarlyProfiles
  BY DEF EarlyProfiles
<1>6. CASE name \in EarlyProfiles
  <2>1. SelectProfile(name, f, s) = Chosen(Ladder[name])
    BY <1>3, <1>4, <1>5, <1>6 DEF SelectProfile
  <2> QED BY <1>1, <1>6, <2>1, LadderBuilds, Judged
<1>7. CASE name = "m17-tunable-v1"
  <2>1. SelectProfile(name, f, s) = Chosen(M17(f))
    BY <1>3, <1>4, <1>5, <1>7 DEF SelectProfile
  <2> QED BY <1>1, <1>3, <1>7, <2>1, M17Builds, Judged
<1>8. CASE name = "m18-remap-v1"
  <2>1. SelectProfile(name, f, s) = Chosen(M18(s))
    BY <1>3, <1>4, <1>5, <1>8 DEF SelectProfile
  <2> QED BY <1>1, <1>3, <1>8, <2>1, M18Builds, Judged
<1>9. CASE name = "m19-live-v1"
  <2>1. SelectProfile(name, f, s) = Chosen(M19(s))
    BY <1>3, <1>4, <1>5, <1>9 DEF SelectProfile
  <2> QED BY <1>1, <1>3, <1>9, <2>1, M19Builds, Judged
<1> QED BY <1>2, <1>6, <1>7, <1>8, <1>9

-----------------------------------------------------------------------------
(* The process                                                             *)

ProcOf(spot, command, writes, code, why) ==
  [at |-> spot, command |-> command, writes |-> writes, code |-> code, why |-> why]

ProcShape == proc = ProcOf(proc.at, proc.command, proc.writes, proc.code, proc.why)

LEMMA ProcFields ==
  ASSUME NEW a, NEW c, NEW w, NEW x, NEW y
  PROVE  LET p == ProcOf(a, c, w, x, y) IN
         p.at = a /\ p.command = c /\ p.writes = w /\ p.code = x /\ p.why = y
BY DEF ProcOf

LEMMA ProcAtSet ==
  ASSUME NEW a, NEW c, NEW w, NEW x, NEW y, NEW v
  PROVE  [ProcOf(a, c, w, x, y) EXCEPT !.at = v] = ProcOf(v, c, w, x, y)
BY DEF ProcOf

LEMMA ProcCommandSet ==
  ASSUME NEW a, NEW c, NEW w, NEW x, NEW y, NEW v
  PROVE  [ProcOf(a, c, w, x, y) EXCEPT !.command = v] = ProcOf(a, v, w, x, y)
BY DEF ProcOf

LEMMA ProcWritesSet ==
  ASSUME NEW a, NEW c, NEW w, NEW x, NEW y, NEW v
  PROVE  [ProcOf(a, c, w, x, y) EXCEPT !.writes = v] = ProcOf(a, c, v, x, y)
BY DEF ProcOf

LEMMA ProcCodeSet ==
  ASSUME NEW a, NEW c, NEW w, NEW x, NEW y, NEW v
  PROVE  [ProcOf(a, c, w, x, y) EXCEPT !.code = v] = ProcOf(a, c, w, v, y)
BY DEF ProcOf

LEMMA ProcWhySet ==
  ASSUME NEW a, NEW c, NEW w, NEW x, NEW y, NEW v
  PROVE  [ProcOf(a, c, w, x, y) EXCEPT !.why = v] = ProcOf(a, c, w, x, v)
BY DEF ProcOf

(* The process is of the shape of a process, what it runs came out of the  *)
(* parser, and its profile was never refused.                              *)
ProcKnown ==
  /\ ProcShape
  /\ proc.at \in {"idle", "parsed", "exited", "reporting", "writing", "emitting", "handed-over", "hosting"}
  /\ proc.at = "parsed" => Commanded(proc.command)
  /\ proc.why # "profile"

LEMMA GoesOn ==
  ASSUME ProcShape, NEW place, Go(place)
  PROVE  proc' = ProcOf(place, proc.command, proc.writes, proc.code, proc.why)
<1>1. PICK a, c, w, x, y :
        /\ proc = ProcOf(a, c, w, x, y)
        /\ a = proc.at /\ c = proc.command /\ w = proc.writes /\ x = proc.code /\ y = proc.why
  BY Zenon DEF ProcShape
<1>2. [ProcOf(a, c, w, x, y) EXCEPT !.at = place] = ProcOf(place, c, w, x, y)
  BY ProcAtSet
<1>3. proc' = [ProcOf(a, c, w, x, y) EXCEPT !.at = place]
  BY <1>1 DEF Go
<1> QED BY <1>1, <1>2, <1>3

LEMMA Exits ==
  ASSUME ProcShape, NEW code, NEW why, ExitFor(code, why)
  PROVE  proc' = ProcOf("exited", proc.command, proc.writes, code, why)
<1>1. PICK a, c, w, x, y :
        /\ proc = ProcOf(a, c, w, x, y)
        /\ a = proc.at /\ c = proc.command /\ w = proc.writes /\ x = proc.code /\ y = proc.why
  BY Zenon DEF ProcShape
<1>2. [ProcOf(a, c, w, x, y) EXCEPT !.at = "exited"] = ProcOf("exited", c, w, x, y)
  BY ProcAtSet
<1>3. [ProcOf("exited", c, w, x, y) EXCEPT !.code = code] = ProcOf("exited", c, w, code, y)
  BY ProcCodeSet
<1>4. [ProcOf("exited", c, w, code, y) EXCEPT !.why = why] = ProcOf("exited", c, w, code, why)
  BY ProcWhySet
<1>5. proc' = [[[ProcOf(a, c, w, x, y) EXCEPT !.at = "exited"] EXCEPT !.code = code] EXCEPT !.why = why]
  BY <1>1 DEF ExitFor
<1> QED BY <1>1, <1>2, <1>3, <1>4, <1>5

LEMMA HandsOver ==
  ASSUME ProcShape, NEW name, HandOver(name)
  PROVE  proc' = ProcOf("handed-over", proc.command, proc.writes, proc.code, name)
<1>1. PICK a, c, w, x, y :
        /\ proc = ProcOf(a, c, w, x, y)
        /\ a = proc.at /\ c = proc.command /\ w = proc.writes /\ x = proc.code /\ y = proc.why
  BY Zenon DEF ProcShape
<1>2. [ProcOf(a, c, w, x, y) EXCEPT !.at = "handed-over"] = ProcOf("handed-over", c, w, x, y)
  BY ProcAtSet
<1>3. [ProcOf("handed-over", c, w, x, y) EXCEPT !.why = name] = ProcOf("handed-over", c, w, x, name)
  BY ProcWhySet
<1>4. proc' = [[ProcOf(a, c, w, x, y) EXCEPT !.at = "handed-over"] EXCEPT !.why = name]
  BY <1>1 DEF HandOver
<1> QED BY <1>1, <1>2, <1>3, <1>4

LEMMA Composes ==
  ASSUME ProcShape, NEW content, proc' = [proc EXCEPT !.at = "writing", !.writes = content]
  PROVE  proc' = ProcOf("writing", proc.command, content, proc.code, proc.why)
<1>1. PICK a, c, w, x, y :
        /\ proc = ProcOf(a, c, w, x, y)
        /\ a = proc.at /\ c = proc.command /\ w = proc.writes /\ x = proc.code /\ y = proc.why
  BY Zenon DEF ProcShape
<1>2. [ProcOf(a, c, w, x, y) EXCEPT !.at = "writing"] = ProcOf("writing", c, w, x, y)
  BY ProcAtSet
<1>3. [ProcOf("writing", c, w, x, y) EXCEPT !.writes = content] = ProcOf("writing", c, content, x, y)
  BY ProcWritesSet
<1>4. proc' = [[ProcOf(a, c, w, x, y) EXCEPT !.at = "writing"] EXCEPT !.writes = content]
  BY <1>1
<1> QED BY <1>1, <1>2, <1>3, <1>4

LEMMA Starts ==
  ASSUME NEW command,
         proc' = IF command.name = "usage-error"
                 THEN [NoProcess EXCEPT !.at = "exited", !.code = ExitCode.Usage]
                 ELSE [NoProcess EXCEPT !.at = "parsed", !.command = command]
  PROVE  \/ proc' = ProcOf("exited", NoCommand, Absent, 1, "")
         \/ proc' = ProcOf("parsed", command, Absent, 0, "") /\ command.name # "usage-error"
<1>1. NoProcess = ProcOf("idle", NoCommand, Absent, 0, "") /\ ExitCode.Usage = 1
  BY DEF NoProcess, ProcOf, ExitCode
<1>2. PICK idle, exited, parsed, c, w, zero, one, y :
        /\ idle = "idle" /\ exited = "exited" /\ parsed = "parsed" /\ c = NoCommand /\ w = Absent
        /\ zero = 0 /\ one = 1 /\ y = ""
  OBVIOUS
<1> DEFINE P0 == ProcOf(idle, c, w, zero, y)
           P1 == ProcOf(exited, c, w, zero, y)
           P2 == ProcOf(parsed, c, w, zero, y)
           P3 == ProcOf(exited, c, w, one, y)
           P4 == ProcOf(parsed, command, w, zero, y)
<1>3. [P0 EXCEPT !.at = exited] = P1
  BY ProcAtSet
<1>4. [P0 EXCEPT !.at = parsed] = P2
  BY ProcAtSet
<1>5. [P1 EXCEPT !.code = one] = P3
  BY ProcCodeSet
<1>6. [P2 EXCEPT !.command = command] = P4
  BY ProcCommandSet
<1>7. NoProcess = P0
  BY <1>1, <1>2
<1> HIDE DEF P0, P1, P2, P3, P4
<1>8. \/ proc' = [[P0 EXCEPT !.at = exited] EXCEPT !.code = one]
      \/ proc' = [[P0 EXCEPT !.at = parsed] EXCEPT !.command = command] /\ command.name # "usage-error"
  BY <1>1, <1>2, <1>7
<1>9. \/ proc' = P3
      \/ proc' = P4 /\ command.name # "usage-error"
  BY <1>3, <1>4, <1>5, <1>6, <1>8
<1> QED BY <1>2, <1>9 DEF P3, P4

-----------------------------------------------------------------------------
(* No accepted run is refused for its profile                              *)

Places == {"idle", "parsed", "exited", "reporting", "writing", "emitting", "handed-over", "hosting"}

LEMMA KnownAfter ==
  ASSUME NEW b \in Places, NEW c, NEW w, NEW x, NEW y,
         proc' = ProcOf(b, c, w, x, y), b = "parsed" => Commanded(c), y # "profile"
  PROVE  ProcKnown'
<1>1. /\ proc'.at = b /\ proc'.command = c /\ proc'.writes = w /\ proc'.code = x /\ proc'.why = y
  BY ProcFields
<1> QED BY <1>1 DEF ProcKnown, ProcShape, Places

LEMMA Accepted ==
  ASSUME NEW command \in FirstCommands \cup LaterCommands, command.name # "usage-error"
  PROVE  Commanded(command)
<1>1. PICK line \in FirstLines \cup LaterLines : command = parse_args(line)
  BY DEF FirstCommands, LaterCommands
<1>2. Worded(line)
  BY CommandsAssumption DEF Worded
<1> QED BY <1>1, <1>2, LineParses

LEMMA CommandIs ==
  ASSUME NEW c, Commanded(c)
  PROVE  /\ c.name = "takeover" => Asks(c)
         /\ c.name \notin {"takeover", "help"} => c.operands \in Seq(Spoken) /\ Len(c.operands) \in ArityOf(c.name)
<1>1. HelpCommand.name = "help"
  BY DEF HelpCommand
<1>2. "takeover" \notin PlainCommands
  BY DEF PlainCommands, OneOperand
<1>3. \A name, operands, flag : LET d == PlainCommand(name, operands, flag) IN
         d.name = name /\ d.operands = operands
  BY DEF PlainCommand
<1>4. CASE c = HelpCommand
  BY <1>1, <1>4
<1>5. CASE c.name = "takeover" /\ Asks(c)
  BY <1>5
<1>6. CASE \E name, operands, flag :
             /\ name \in PlainCommands /\ operands \in Seq(Spoken)
             /\ c = PlainCommand(name, operands, flag) /\ Len(operands) \in ArityOf(name)
  <2>1. PICK name, operands, flag :
             /\ name \in PlainCommands /\ operands \in Seq(Spoken)
             /\ c = PlainCommand(name, operands, flag) /\ Len(operands) \in ArityOf(name)
    BY <1>6
  <2>2. c.name = name /\ c.operands = operands
    BY <1>3, <2>1
  <2> QED BY <1>2, <2>1, <2>2
<1> QED BY <1>4, <1>5, <1>6, Zenon DEF Commanded

LEMMA RequestAsks ==
  ASSUME Commanded(proc.command), Name \in {"takeover", "service-run"}
  PROVE  Asks(Requested)
<1>1. PICK c : c = proc.command
  OBVIOUS
<1>2. CASE c.name = "takeover"
  <2>1. Asks(c)
    BY <1>1, <1>2, CommandIs
  <2>2. Requested.profile = c.profile /\ Requested.feel = c.feel /\ Requested.settings = c.settings
    BY <1>1, <1>2 DEF Requested, Name
  <2> QED BY <2>1, <2>2 DEF Asks
<1>3. CASE c.name = "service-run"
  <2>1. c.operands \in Seq(Spoken) /\ Len(c.operands) \in ArityOf("service-run")
    BY <1>1, <1>3, CommandIs
  <2>2. ArityOf("service-run") = 1..1
    BY DEF ArityOf, OneOperand, Exactly
  <2>3. c.operands[1] # Nothing
    BY <2>1, <2>2 DEF Spoken
  <2>4. /\ Requested.profile = "m19-live-v1" /\ Requested.feel = Nothing
        /\ Requested.settings = c.operands[1]
    BY <1>1, <1>3 DEF Requested, Name, Operand
  <2> QED BY <2>3, <2>4 DEF Asks, ACCEPTED_TAKEOVER_PROFILES, Nothing
<1> QED BY <1>1, <1>2, <1>3 DEF Name

LEMMA KnownExits ==
  ASSUME ProcKnown, NEW code, Exit(code)
  PROVE  ProcKnown'
<1>1. ExitFor(code, "") /\ ProcShape
  BY Zenon DEF Exit, ProcKnown
<1>2. proc' = ProcOf("exited", proc.command, proc.writes, code, "")
  BY <1>1, Exits
<1> QED BY <1>2, KnownAfter DEF Places

LEMMA TakeoverKnown ==
  ASSUME ProcKnown, Takeover
  PROVE  ProcKnown'
<1>0. ProcShape /\ proc.why # "profile" /\ Commanded(proc.command) /\ Name \in {"takeover", "service-run"}
  BY DEF ProcKnown, Takeover, Running
<1>1. PICK choice : choice = Requested
  OBVIOUS
<1>2. Asks(choice)
  BY <1>0, <1>1, RequestAsks
<1> DEFINE feel  == IF choice.feel = Nothing THEN {NoDocument} ELSE ReadFeel(choice.feel)
           settings == IF choice.settings = Nothing THEN {NoDocument} ELSE ReadSettings(choice.settings)
<1>3. \/ Exit(ExitCode.Config)
      \/ \E f \in feel, s \in settings, backend \in {"kde", "portal"} :
           \/ ExitFor(ExitCode.OutputCapability, "plan")
           \/ ~SelectProfile(choice.profile, f, s).ok
           \/ HandOver(choice.profile)
  BY <1>1, Zenon DEF Takeover
<1>4. \A f \in feel, s \in settings : SelectProfile(choice.profile, f, s).ok
  <2> SUFFICES ASSUME NEW f \in feel, NEW s \in settings PROVE SelectProfile(choice.profile, f, s).ok
    OBVIOUS
  <2>1. IF choice.feel = Nothing THEN f = NoDocument ELSE FeelValid(f)
    BY DEF ReadFeel
  <2>2. IF choice.settings = Nothing THEN s = NoDocument ELSE SettingsValid(s)
    BY DEF ReadSettings
  <2> QED BY <1>2, <2>1, <2>2, ProfileChosen
<1> HIDE DEF feel, settings
<1>5. Exit(ExitCode.Config) \/ ExitFor(ExitCode.OutputCapability, "plan") \/ HandOver(choice.profile)
  BY <1>3, <1>4, Zenon
<1>6. CASE Exit(ExitCode.Config)
  BY <1>6, KnownExits
<1>7. CASE ExitFor(ExitCode.OutputCapability, "plan")
  BY <1>0, <1>7, Exits, KnownAfter DEF Places
<1>8. CASE HandOver(choice.profile)
  <2>1. choice.profile # "profile"
    BY <1>2 DEF Asks, ACCEPTED_TAKEOVER_PROFILES, EarlyProfiles
  <2> QED BY <1>0, <1>8, <2>1, HandsOver, KnownAfter DEF Places
<1> QED BY <1>5, <1>6, <1>7, <1>8

LEMMA KnownGoesOn ==
  ASSUME ProcKnown, NEW place \in Places \ {"parsed"}, Go(place)
  PROVE  ProcKnown'
BY GoesOn, KnownAfter DEF ProcKnown

LEMMA KnownComposes ==
  ASSUME ProcKnown, NEW content, proc' = [proc EXCEPT !.at = "writing", !.writes = content]
  PROVE  ProcKnown'
<1>1. proc' = ProcOf("writing", proc.command, content, proc.code, proc.why)
  BY Composes DEF ProcKnown
<1> QED BY <1>1, KnownAfter DEF ProcKnown, Places

LEMMA KnownInit == CommandsInit => ProcKnown
<1> SUFFICES ASSUME CommandsInit PROVE ProcKnown
  OBVIOUS
<1>1. proc = ProcOf("idle", NoCommand, Absent, 0, "")
  BY DEF CommandsInit, NoProcess, ProcOf
<1>2. /\ proc.at = "idle" /\ proc.command = NoCommand /\ proc.writes = Absent
      /\ proc.code = 0 /\ proc.why = ""
  BY <1>1 DEF ProcOf
<1> QED BY <1>1, <1>2 DEF ProcKnown, ProcShape

LEMMA KnownNext == ProcKnown /\ [CommandsNext]_commandVars => ProcKnown'
<1> SUFFICES ASSUME ProcKnown, [CommandsNext]_commandVars PROVE ProcKnown'
  OBVIOUS
<1>1. CASE StartProcess
  <2>1. PICK command \in FirstCommands \cup LaterCommands :
          proc' = IF command.name = "usage-error"
                  THEN [NoProcess EXCEPT !.at = "exited", !.code = ExitCode.Usage]
                  ELSE [NoProcess EXCEPT !.at = "parsed", !.command = command]
    BY <1>1, Zenon DEF StartProcess
  <2>2. \/ proc' = ProcOf("exited", NoCommand, Absent, 1, "")
        \/ proc' = ProcOf("parsed", command, Absent, 0, "") /\ command.name # "usage-error"
    BY <2>1, Starts
  <2> QED BY <2>2, Accepted, KnownAfter DEF Places
<1>2. CASE HandlerRefused \/ WriteFails \/ Emitted
  BY <1>2, KnownExits, Zenon DEF HandlerRefused, WriteFails, Emitted
<1>3. CASE Check
  <2>1. Exit(ExitCode.Config) \/ Go("reporting")
    BY <1>3, Zenon DEF Check
  <2> QED BY <2>1, KnownExits, KnownGoesOn DEF Places
<1>4. CASE Compose
  <2>1. Exit(ExitCode.Config)
        \/ proc' = [proc EXCEPT !.at = "writing", !.writes = CHOOSE d \in Document : TRUE]
    BY <1>4, Zenon DEF Compose
  <2> QED BY <2>1, KnownExits, KnownComposes, Zenon
<1>5. CASE Write \/ Simple
  <2>1. Go("reporting")
    BY <1>5, Zenon DEF Write, Simple
  <2> QED BY <2>1, KnownGoesOn DEF Places
<1>6. CASE Tell
  BY <1>6, KnownExits, Zenon DEF Tell
<1>7. CASE Killed
  <2>1. ExitFor(0, "killed")
    BY <1>7, Zenon DEF Killed
  <2> QED BY <2>1, Exits, KnownAfter DEF Places, ProcKnown
<1>8. CASE ListDevices \/ Inspect \/ Doctor
  BY <1>8, KnownExits, Zenon DEF ListDevices, Inspect, Doctor
<1>9. CASE Survey
  <2>1. (\E code : Exit(code)) \/ proc' = [proc EXCEPT !.at = "writing", !.writes = Text]
    BY <1>9, Zenon DEF Survey
  <2> QED BY <2>1, KnownExits, KnownComposes, Zenon
<1>10. CASE Emit
  <2>1. Go("emitting")
    BY <1>10, Zenon DEF Emit
  <2> QED BY <2>1, KnownGoesOn DEF Places
<1>11. CASE EmitStep \/ Host \/ UNCHANGED commandVars
  <2>1. proc' = proc
    BY <1>11, Zenon DEF EmitStep, Host, commandVars
  <2> QED BY <2>1 DEF ProcKnown, ProcShape
<1>12. CASE Record
  <2>1. HandOver(Name) /\ Name \in {"record", "replay"}
    BY <1>12, Zenon DEF Record
  <2>2. Name # "profile"
    BY <2>1
  <2> QED BY <2>1, <2>2, HandsOver, KnownAfter DEF Places, ProcKnown
<1>13. CASE Takeover
  BY <1>13, TakeoverKnown
<1>14. CASE HostArrives
  <2>1. Go("hosting")
    BY <1>14, Zenon DEF HostArrives
  <2> QED BY <2>1, KnownGoesOn DEF Places
<1> QED BY <1>1, <1>2, <1>3, <1>4, <1>5, <1>6, <1>7, <1>8, <1>9, <1>10, <1>11, <1>12, <1>13, <1>14, Zenon
        DEF CommandsNext

\* A takeover or a service whose command line the parser accepted, and whose
\* documents validate, finds its profile: for every command line, every content
\* of the files, and however the documents were edited before.
THEOREM ProfilesAreNeverRefused == CommandsSpec => []AcceptedRunsHaveAProfile
<1>1. ProcKnown => AcceptedRunsHaveAProfile
  BY DEF ProcKnown, AcceptedRunsHaveAProfile
<1> QED BY <1>1, KnownInit, KnownNext, PTL DEF CommandsSpec

-----------------------------------------------------------------------------
(* One edit                                                                *)

FeelOf(version, param, drag_lock) == [version |-> version, param |-> param, drag_lock |-> drag_lock]

ParamOver(param) == [key \in FeelKeys |-> param[key]]

LEMMA FeelFields ==
  ASSUME NEW v, NEW p, NEW l
  PROVE  LET f == FeelOf(v, p, l) IN f.version = v /\ f.param = p /\ f.drag_lock = l
BY DEF FeelOf

LEMMA FeelParamSet ==
  ASSUME NEW v, NEW p, NEW l, NEW x
  PROVE  [FeelOf(v, p, l) EXCEPT !.param = x] = FeelOf(v, x, l)
BY DEF FeelOf

LEMMA FeelLockSet ==
  ASSUME NEW v, NEW p, NEW l, NEW x
  PROVE  [FeelOf(v, p, l) EXCEPT !.drag_lock = x] = FeelOf(v, p, x)
BY DEF FeelOf

LEMMA FeelShapedOf ==
  ASSUME NEW v, NEW p, NEW l, p = ParamOver(p)
  PROVE  FeelShaped(FeelOf(v, p, l))
<1>1. PICK f : f = FeelOf(v, p, l)
  OBVIOUS
<1>2. f.version = v /\ f.param = p /\ f.drag_lock = l
  BY <1>1, FeelFields
<1>3. f = [version |-> f.version, param |-> [key \in FeelKeys |-> f.param[key]], drag_lock |-> f.drag_lock]
  BY <1>1, <1>2 DEF FeelOf, ParamOver
<1> QED BY <1>1, <1>3 DEF FeelShaped

LEMMA FeelIsOf ==
  ASSUME NEW feel, FeelShaped(feel)
  PROVE  \E v, p, l : /\ feel = FeelOf(v, p, l) /\ p = ParamOver(p)
                      /\ feel.param = p /\ feel.drag_lock = l
<1> DEFINE v == feel.version
           p == [key \in FeelKeys |-> feel.param[key]]
           l == feel.drag_lock
<1>1. feel = FeelOf(v, p, l)
  BY DEF FeelShaped, FeelOf
<1>2. p = ParamOver(p)
  BY DEF ParamOver
<1> HIDE DEF v, p, l
<1>3. feel.param = p /\ feel.drag_lock = l
  BY <1>1, FeelFields
<1> QED BY <1>1, <1>2, <1>3

(* One parameter has the value asked for, the others keep theirs.          *)
FeelMoved(new, feel, key, value) ==
  \A k \in Parameters("feel") :
    FeelValue(new, k) = IF k = key THEN Asked("feel", k, value) ELSE FeelValue(feel, k)

LEMMA FeelParameters ==
  /\ Parameters("feel") = FeelKeys \cup {"drag.drag_lock"}
  /\ "drag.drag_lock" \notin FeelKeys /\ "drag.drag_lock" \in OnOffKeys
  /\ \A k \in FeelKeys : k \notin OnOffKeys
BY DEF Parameters, FeelKeys, OnOffKeys

LEMMA FeelAssigning ==
  ASSUME NEW feel, FeelShaped(feel), NEW key, NEW value, NEW new \in FeelAssigned(feel, key, value)
  PROVE  FeelShaped(new) /\ FeelMoved(new, feel, key, value)
<1>1. PICK v, p, l : /\ feel = FeelOf(v, p, l) /\ p = ParamOver(p)
                     /\ feel.param = p /\ feel.drag_lock = l
  BY FeelIsOf
<1>2. /\ FeelValue(feel, "drag.drag_lock") = l
      /\ \A k \in FeelKeys : FeelValue(feel, k) = p[k]
  BY <1>1, FeelParameters DEF FeelValue
<1>3. CASE key = "drag.drag_lock" /\ value \in DOMAIN Booleans
  <2>1. PICK b : b = Booleans[value]
    OBVIOUS
  <2>2. new = [feel EXCEPT !.drag_lock = b]
    BY <1>3, <2>1, Zenon DEF FeelAssigned
  <2>3. new = FeelOf(v, p, b)
    BY <1>1, <2>2, FeelLockSet
  <2>4. FeelShaped(new)
    BY <1>1, <2>3, FeelShapedOf
  <2>5. new.param = p /\ new.drag_lock = b
    BY <2>3, FeelFields
  <2>6. /\ FeelValue(new, "drag.drag_lock") = b
        /\ \A k \in FeelKeys : FeelValue(new, k) = p[k]
    BY <2>5, FeelParameters DEF FeelValue
  <2>7. Asked("feel", "drag.drag_lock", value) = b
    BY <2>1, FeelParameters DEF Asked
  <2> QED BY <1>2, <1>3, <2>4, <2>6, <2>7, FeelParameters DEF FeelMoved
<1>4. CASE ~(key = "drag.drag_lock" /\ value \in DOMAIN Booleans)
  <2>0. key \in FeelKeys /\ new \in {[feel EXCEPT !.param[key] = Spelled(key)[value]]}
    BY <1>4, Zenon DEF FeelAssigned
  <2>1. PICK x : x = Spelled(key)[value]
    OBVIOUS
  <2>2. PICK q : q = [p EXCEPT ![key] = x]
    OBVIOUS
  <2>3. new = [feel EXCEPT !.param = [feel.param EXCEPT ![key] = x]]
    BY <2>0, <2>1
  <2>4. new = [FeelOf(v, p, l) EXCEPT !.param = q]
    BY <1>1, <2>2, <2>3
  <2>5. new = FeelOf(v, q, l)
    BY <2>4, FeelParamSet
  <2>6. /\ DOMAIN p = FeelKeys
        /\ q = [k \in DOMAIN p |-> IF k = key THEN x ELSE p[k]]
    BY <1>1, <2>2 DEF ParamOver
  <2>7. q = ParamOver(q)
    BY <2>6 DEF ParamOver
  <2>8. FeelShaped(new)
    BY <2>5, <2>7, FeelShapedOf
  <2>9. new.param = q /\ new.drag_lock = l
    BY <2>5, FeelFields
  <2>10. \A k \in FeelKeys : q[k] = IF k = key THEN x ELSE p[k]
    BY <2>6
  <2>11. /\ FeelValue(new, "drag.drag_lock") = l
         /\ \A k \in FeelKeys : FeelValue(new, k) = q[k]
    BY <2>9, FeelParameters DEF FeelValue
  <2>12. Asked("feel", key, value) = x
    BY <2>0, <2>1, FeelParameters DEF Asked
  <2> QED BY <1>2, <2>0, <2>8, <2>10, <2>11, <2>12, FeelParameters DEF FeelMoved
<1> QED BY <1>3, <1>4

LEMMA AnswersAre ==
  ASSUME NEW doc
  PROVE  /\ Taken(doc).ok /\ Taken(doc).doc = doc
         /\ ~Refused(doc).ok /\ Refused(doc).doc = doc
BY DEF Taken, Refused

LEMMA FeelSetting ==
  ASSUME NEW feel, FeelShaped(feel), NEW key, NEW value, FeelSetKey(feel, key, value).ok
  PROVE  LET new == FeelSetKey(feel, key, value).doc IN
         FeelShaped(new) /\ FeelMoved(new, feel, key, value)
<1> DEFINE valid == {new \in FeelAssigned(feel, key, value) : FeelValid(new)}
<1>1. FeelSetKey(feel, key, value) = IF valid = {} THEN Refused(feel) ELSE Taken(CHOOSE new \in valid : TRUE)
  BY DEF FeelSetKey
<1>2. valid # {}
  BY <1>1, AnswersAre, Zenon
<1>3. FeelSetKey(feel, key, value) = Taken(CHOOSE new \in valid : TRUE)
  BY <1>1, <1>2, Zenon
<1>4. (CHOOSE new \in valid : TRUE) \in valid
  BY <1>2
<1> HIDE DEF valid
<1>5. PICK new \in valid : FeelSetKey(feel, key, value).doc = new
  BY <1>3, <1>4, AnswersAre, Zenon
<1>6. new \in FeelAssigned(feel, key, value)
  BY DEF valid
<1> QED BY <1>5, <1>6, FeelAssigning

-----------------------------------------------------------------------------
(* An edit of the user settings                                            *)

SettingsOf(version, feel, gestures, dwt) ==
  [version |-> version, feel |-> feel, gestures |-> gestures, dwt |-> dwt]

LEMMA SettingsFields ==
  ASSUME NEW v, NEW f, NEW g, NEW d
  PROVE  LET s == SettingsOf(v, f, g, d) IN
         s.version = v /\ s.feel = f /\ s.gestures = g /\ s.dwt = d
BY DEF SettingsOf

LEMMA SettingsFeelSet ==
  ASSUME NEW v, NEW f, NEW g, NEW d, NEW x
  PROVE  [SettingsOf(v, f, g, d) EXCEPT !.feel = x] = SettingsOf(v, x, g, d)
BY DEF SettingsOf

LEMMA SettingsGesturesSet ==
  ASSUME NEW v, NEW f, NEW g, NEW d, NEW x
  PROVE  [SettingsOf(v, f, g, d) EXCEPT !.gestures = x] = SettingsOf(v, f, x, d)
BY DEF SettingsOf

LEMMA SettingsDwtSet ==
  ASSUME NEW v, NEW f, NEW g, NEW d, NEW x
  PROVE  [SettingsOf(v, f, g, d) EXCEPT !.dwt = x] = SettingsOf(v, f, g, x)
BY DEF SettingsOf

LEMMA SettingsShapedOf ==
  ASSUME NEW v, NEW f, NEW g, NEW d, FeelShaped(f), GesturesShaped(g), DwtShaped(d)
  PROVE  SettingsShaped(SettingsOf(v, f, g, d))
<1>1. PICK s : s = SettingsOf(v, f, g, d)
  OBVIOUS
<1>2. s.version = v /\ s.feel = f /\ s.gestures = g /\ s.dwt = d
  BY <1>1, SettingsFields
<1>3. s = [version |-> s.version, feel |-> s.feel, gestures |-> s.gestures, dwt |-> s.dwt]
  BY <1>1, <1>2 DEF SettingsOf
<1> QED BY <1>1, <1>2, <1>3 DEF SettingsShaped

LEMMA SettingsIsOf ==
  ASSUME NEW settings, SettingsShaped(settings)
  PROVE  \E v, f, g, d :
           /\ settings = SettingsOf(v, f, g, d)
           /\ FeelShaped(f) /\ GesturesShaped(g) /\ DwtShaped(d)
           /\ settings.feel = f /\ settings.gestures = g /\ settings.dwt = d
<1>1. settings = SettingsOf(settings.version, settings.feel, settings.gestures, settings.dwt)
  BY Zenon DEF SettingsShaped, SettingsOf
<1>2. FeelShaped(settings.feel) /\ GesturesShaped(settings.gestures) /\ DwtShaped(settings.dwt)
  BY Zenon DEF SettingsShaped
<1> QED BY <1>1, <1>2, Zenon

DwtOf(enabled, short, long) == [enabled |-> enabled, short |-> short, long |-> long]

LEMMA DwtSet ==
  ASSUME NEW dwt, DwtShaped(dwt), NEW x, NEW new,
         \/ new = [dwt EXCEPT !.enabled = x] \/ new = [dwt EXCEPT !.short = x]
         \/ new = [dwt EXCEPT !.long = x]
  PROVE  /\ DwtShaped(new)
         /\ new = [dwt EXCEPT !.enabled = x] =>
              new.enabled = x /\ new.short = dwt.short /\ new.long = dwt.long
         /\ new = [dwt EXCEPT !.short = x] =>
              new.enabled = dwt.enabled /\ new.short = x /\ new.long = dwt.long
         /\ new = [dwt EXCEPT !.long = x] =>
              new.enabled = dwt.enabled /\ new.short = dwt.short /\ new.long = x
<1>1. PICK e, s, l : e = dwt.enabled /\ s = dwt.short /\ l = dwt.long
  OBVIOUS
<1>2. dwt = DwtOf(e, s, l)
  BY <1>1 DEF DwtShaped, DwtOf
<1>3. /\ [dwt EXCEPT !.enabled = x] = DwtOf(x, s, l)
      /\ [dwt EXCEPT !.short = x] = DwtOf(e, x, l)
      /\ [dwt EXCEPT !.long = x] = DwtOf(e, s, x)
  BY <1>2 DEF DwtOf
<1>4. \A a, b, c : LET d == DwtOf(a, b, c) IN d.enabled = a /\ d.short = b /\ d.long = c
  BY DEF DwtOf
<1>5. \A a, b, c : DwtShaped(DwtOf(a, b, c))
  BY DEF DwtOf, DwtShaped
<1> QED BY <1>1, <1>3, <1>4, <1>5

GesturesOf(version, drag_enabled, bindings) ==
  [version |-> version, drag_enabled |-> drag_enabled, bindings |-> bindings]

LEMMA GesturesSet ==
  ASSUME NEW gestures, GesturesShaped(gestures), NEW x, NEW new,
         \/ new = [gestures EXCEPT !.drag_enabled = x] \/ new = [gestures EXCEPT !.bindings = x]
  PROVE  /\ GesturesShaped(new)
         /\ new = [gestures EXCEPT !.drag_enabled = x] =>
              new.drag_enabled = x /\ new.bindings = gestures.bindings
         /\ new = [gestures EXCEPT !.bindings = x] =>
              new.drag_enabled = gestures.drag_enabled /\ new.bindings = x
<1>1. PICK v, e, b : v = gestures.version /\ e = gestures.drag_enabled /\ b = gestures.bindings
  OBVIOUS
<1>2. gestures = GesturesOf(v, e, b)
  BY <1>1 DEF GesturesShaped, GesturesOf
<1>3. /\ [gestures EXCEPT !.drag_enabled = x] = GesturesOf(v, x, b)
      /\ [gestures EXCEPT !.bindings = x] = GesturesOf(v, e, x)
  BY <1>2 DEF GesturesOf
<1>4. \A i, j, k : LET g == GesturesOf(i, j, k)
                   IN g.version = i /\ g.drag_enabled = j /\ g.bindings = k
  BY DEF GesturesOf
<1>5. \A i, j, k : GesturesShaped(GesturesOf(i, j, k))
  BY DEF GesturesOf, GesturesShaped
<1> QED BY <1>1, <1>3, <1>4, <1>5

LEMMA BoundAt ==
  ASSUME NEW f, NEW key, NEW x, NEW S, DOMAIN [f EXCEPT ![key] = x] = S
  PROVE  \A t \in S : [f EXCEPT ![key] = x][t] = IF t = key THEN x ELSE f[t]
OBVIOUS

Moved(kind, new, old, area, key, value) ==
  \A a \in AreasOf(kind) : \A k \in Parameters(a) :
    ValueIn(kind, new, a, k) =
      IF a = area /\ k = key THEN Asked(a, k, value) ELSE ValueIn(kind, old, a, k)

\* A document of the settings is moved by its area's part.
LEMMA ByParts ==
  ASSUME NEW old, NEW new, NEW area, NEW key, NEW value,
         \A k \in Parameters("feel") : FeelValue(new.feel, k) =
           IF "feel" = area /\ k = key THEN Asked("feel", k, value) ELSE FeelValue(old.feel, k),
         \A k \in Parameters("dwt") : DwtValue(new.dwt, k) =
           IF "dwt" = area /\ k = key THEN Asked("dwt", k, value) ELSE DwtValue(old.dwt, k),
         \A k \in Parameters("gesture") : GestureValue(new.gestures, k) =
           IF "gesture" = area /\ k = key THEN Asked("gesture", k, value)
           ELSE GestureValue(old.gestures, k)
  PROVE  Moved("settings", new, old, area, key, value)
<1>1. AreasOf("settings") = {"feel", "dwt", "gesture"}
  BY DEF AreasOf
<1>2. \A doc, k : /\ ValueIn("settings", doc, "feel", k) = FeelValue(doc.feel, k)
                  /\ ValueIn("settings", doc, "dwt", k) = DwtValue(doc.dwt, k)
                  /\ ValueIn("settings", doc, "gesture", k) = GestureValue(doc.gestures, k)
  BY DEF ValueIn
<1> QED BY <1>1, <1>2 DEF Moved

LEMMA DwtParameters ==
  /\ Parameters("dwt") = {"enabled", "short-timeout-ms", "long-timeout-ms"}
  /\ \A value : /\ Asked("dwt", "enabled", value) = Booleans[value]
                /\ Asked("dwt", "short-timeout-ms", value) = NumberOf[value]
                /\ Asked("dwt", "long-timeout-ms", value) = NumberOf[value]
BY DEF Parameters, Asked, OnOffKeys

LEMMA GestureParameters ==
  /\ Parameters("gesture") = Triggers \cup {"three-finger-drag-enabled"}
  /\ "three-finger-drag-enabled" \notin Triggers
  /\ \A value : /\ Asked("gesture", "three-finger-drag-enabled", value) = Booleans[value]
                /\ \A t \in Triggers : Asked("gesture", t, value) = value
<1>1. Triggers \cap OnOffKeys = {} /\ "three-finger-drag-enabled" \in OnOffKeys
  BY DocumentsAssumption DEF OnOffKeys
<1> QED BY <1>1 DEF Parameters, Asked

LEMMA DwtAssigning ==
  ASSUME NEW settings, SettingsShaped(settings), NEW key, NEW value,
         NEW new \in SettingsAssigned(settings, "dwt", key, value)
  PROVE  SettingsShaped(new) /\ Moved("settings", new, settings, "dwt", key, value)
<1>1. PICK v, f, g, d : /\ settings = SettingsOf(v, f, g, d)
                        /\ FeelShaped(f) /\ GesturesShaped(g) /\ DwtShaped(d)
                        /\ settings.feel = f /\ settings.gestures = g /\ settings.dwt = d
  BY SettingsIsOf
<1>2. PICK b, n : b = Booleans[value] /\ n = NumberOf[value]
  OBVIOUS
<1>3. \/ key = "enabled" /\ new = [settings EXCEPT !.dwt.enabled = b]
      \/ key = "short-timeout-ms" /\ new = [settings EXCEPT !.dwt.short = n]
      \/ key = "long-timeout-ms" /\ new = [settings EXCEPT !.dwt.long = n]
  BY <1>2 DEF SettingsAssigned
<1>4. PICK e, s, l : /\ e = [d EXCEPT !.enabled = b] /\ s = [d EXCEPT !.short = n]
                     /\ l = [d EXCEPT !.long = n]
  OBVIOUS
<1>5. /\ [settings EXCEPT !.dwt.enabled = b] = [settings EXCEPT !.dwt = e]
      /\ [settings EXCEPT !.dwt.short = n] = [settings EXCEPT !.dwt = s]
      /\ [settings EXCEPT !.dwt.long = n] = [settings EXCEPT !.dwt = l]
  BY <1>1, <1>4
<1>6. PICK x : new = [settings EXCEPT !.dwt = x]
               /\ \/ key = "enabled" /\ x = e
                  \/ key = "short-timeout-ms" /\ x = s
                  \/ key = "long-timeout-ms" /\ x = l
  BY <1>3, <1>5, Zenon
<1>7. /\ DwtShaped(x)
      /\ key = "enabled" => x.enabled = b /\ x.short = d.short /\ x.long = d.long
      /\ key = "short-timeout-ms" => x.enabled = d.enabled /\ x.short = n /\ x.long = d.long
      /\ key = "long-timeout-ms" => x.enabled = d.enabled /\ x.short = d.short /\ x.long = n
  <2>1. CASE key = "enabled"
    <3>1. x = [d EXCEPT !.enabled = b]
      BY <1>4, <1>6, <2>1
    <3> QED BY <1>1, <2>1, <3>1, DwtSet
  <2>2. CASE key = "short-timeout-ms"
    <3>1. x = [d EXCEPT !.short = n]
      BY <1>4, <1>6, <2>2
    <3> QED BY <1>1, <2>2, <3>1, DwtSet
  <2>3. CASE key = "long-timeout-ms"
    <3>1. x = [d EXCEPT !.long = n]
      BY <1>4, <1>6, <2>3
    <3> QED BY <1>1, <2>3, <3>1, DwtSet
  <2> QED BY <1>6, <2>1, <2>2, <2>3
<1>8. new = SettingsOf(v, f, g, x)
  BY <1>1, <1>6, SettingsDwtSet
<1>9. SettingsShaped(new) /\ new.feel = f /\ new.gestures = g /\ new.dwt = x
  BY <1>1, <1>7, <1>8, SettingsShapedOf, SettingsFields
<1>10. \A k \in Parameters("dwt") : DwtValue(x, k) =
         IF k = key THEN Asked("dwt", k, value) ELSE DwtValue(d, k)
  BY <1>2, <1>6, <1>7, DwtParameters DEF DwtValue
<1> QED BY <1>1, <1>9, <1>10, ByParts

LEMMA GestureAssigning ==
  ASSUME NEW settings, SettingsShaped(settings), NEW key, NEW value,
         NEW new \in SettingsAssigned(settings, "gesture", key, value),
         DOMAIN new.gestures.bindings = Triggers
  PROVE  SettingsShaped(new) /\ Moved("settings", new, settings, "gesture", key, value)
<1>1. PICK v, f, g, d : /\ settings = SettingsOf(v, f, g, d)
                        /\ FeelShaped(f) /\ GesturesShaped(g) /\ DwtShaped(d)
                        /\ settings.feel = f /\ settings.gestures = g /\ settings.dwt = d
  BY SettingsIsOf
<1>2. PICK b : b = Booleans[value]
  OBVIOUS
<1>3. \/ key = "three-finger-drag-enabled" /\ new = [settings EXCEPT !.gestures.drag_enabled = b]
      \/ key \in Triggers /\ new = [settings EXCEPT !.gestures.bindings[key] = value]
  BY <1>2 DEF SettingsAssigned
<1>4. PICK m, h, i : /\ m = [g.bindings EXCEPT ![key] = value]
                     /\ h = [g EXCEPT !.drag_enabled = b] /\ i = [g EXCEPT !.bindings = m]
  OBVIOUS
<1>5. /\ [settings EXCEPT !.gestures.drag_enabled = b] = [settings EXCEPT !.gestures = h]
      /\ [settings EXCEPT !.gestures.bindings[key] = value] = [settings EXCEPT !.gestures = i]
  BY <1>1, <1>4
<1>6. PICK x : new = [settings EXCEPT !.gestures = x]
               /\ \/ key = "three-finger-drag-enabled" /\ x = h
                  \/ key \in Triggers /\ x = i
  BY <1>3, <1>5, Zenon
<1>7. /\ GesturesShaped(x)
      /\ key = "three-finger-drag-enabled" => x.drag_enabled = b /\ x.bindings = g.bindings
      /\ key \in Triggers => x.drag_enabled = g.drag_enabled /\ x.bindings = m
  <2>1. CASE key = "three-finger-drag-enabled"
    <3>1. x = [g EXCEPT !.drag_enabled = b]
      BY <1>4, <1>6, <2>1, GestureParameters
    <3> QED BY <1>1, <2>1, <3>1, GesturesSet, GestureParameters
  <2>2. CASE key \in Triggers
    <3>1. x = [g EXCEPT !.bindings = m]
      BY <1>4, <1>6, <2>2, GestureParameters
    <3> QED BY <1>1, <2>2, <3>1, GesturesSet, GestureParameters
  <2> QED BY <1>6, <2>1, <2>2
<1>8. new = SettingsOf(v, f, x, d)
  BY <1>1, <1>6, SettingsGesturesSet
<1>9. SettingsShaped(new) /\ new.feel = f /\ new.gestures = x /\ new.dwt = d
  BY <1>1, <1>7, <1>8, SettingsShapedOf, SettingsFields
<1>10. key \in Triggers => \A t \in Triggers : m[t] = IF t = key THEN value ELSE g.bindings[t]
  <2>1. SUFFICES ASSUME key \in Triggers
                 PROVE  \A t \in Triggers : m[t] = IF t = key THEN value ELSE g.bindings[t]
    OBVIOUS
  <2>2. DOMAIN m = Triggers
    BY <1>7, <1>9, <2>1
  <2>3. DOMAIN [g.bindings EXCEPT ![key] = value] = Triggers
    BY <1>4, <2>2
  <2>4. \A t \in Triggers :
          [g.bindings EXCEPT ![key] = value][t] = IF t = key THEN value ELSE g.bindings[t]
    BY <2>3, BoundAt
  <2> QED BY <1>4, <2>4
<1>11. \A k \in Parameters("gesture") : GestureValue(x, k) =
         IF k = key THEN Asked("gesture", k, value) ELSE GestureValue(g, k)
  BY <1>2, <1>6, <1>7, <1>10, GestureParameters DEF GestureValue
<1> QED BY <1>1, <1>9, <1>11, ByParts

LEMMA SettingsSetting ==
  ASSUME NEW settings, SettingsShaped(settings), NEW area, NEW key, NEW value,
         SettingsSetKey(settings, area, key, value).ok
  PROVE  LET new == SettingsSetKey(settings, area, key, value).doc IN
         SettingsShaped(new) /\ Moved("settings", new, settings, area, key, value)
<1>0. PICK v, f, g, d : /\ settings = SettingsOf(v, f, g, d)
                        /\ FeelShaped(f) /\ GesturesShaped(g) /\ DwtShaped(d)
                        /\ settings.feel = f /\ settings.gestures = g /\ settings.dwt = d
  BY SettingsIsOf
<1>1. PICK feel : feel = FeelSetKey(settings.feel, key, value)
  OBVIOUS
<1> DEFINE new == IF area = "feel"
               THEN IF feel.ok THEN {[settings EXCEPT !.feel = feel.doc]} ELSE {}
               ELSE SettingsAssigned(settings, area, key, value)
           valid == {s \in new : SettingsValid(s)}
<1>2. PICK answer : answer = SettingsSetKey(settings, area, key, value)
  OBVIOUS
<1>3. \/ valid # {} /\ answer = Taken(CHOOSE s \in valid : TRUE)
      \/ answer = Refused(CHOOSE s \in new : TRUE)
      \/ answer = Refused(settings)
  BY <1>1, <1>2, Zenon DEF SettingsSetKey
<1>4. valid # {} /\ answer = Taken(CHOOSE s \in valid : TRUE)
  BY <1>2, <1>3, AnswersAre, Zenon
<1>5. (CHOOSE s \in valid : TRUE) \in valid
  BY <1>4
<1> HIDE DEF valid
<1>6. PICK s \in valid : answer.doc = s
  BY <1>4, <1>5, AnswersAre, Zenon
<1>7. CASE area = "feel"
  <2>1. feel.ok /\ s = [settings EXCEPT !.feel = feel.doc]
    BY <1>7, Zenon DEF valid
  <2>2. FeelShaped(feel.doc) /\ FeelMoved(feel.doc, f, key, value)
    BY <1>0, <1>1, <2>1, FeelSetting
  <2>3. s = SettingsOf(v, feel.doc, g, d)
    BY <1>0, <2>1, SettingsFeelSet
  <2>4. SettingsShaped(s) /\ s.feel = feel.doc /\ s.gestures = g /\ s.dwt = d
    BY <1>0, <2>2, <2>3, SettingsShapedOf, SettingsFields
  <2>5. \A k \in Parameters("feel") : FeelValue(s.feel, k) =
          IF k = key THEN Asked("feel", k, value) ELSE FeelValue(settings.feel, k)
    BY <1>0, <2>2, <2>4 DEF FeelMoved
  <2>6. Moved("settings", s, settings, area, key, value)
    BY <1>0, <1>7, <2>4, <2>5, ByParts
  <2> QED BY <1>2, <1>6, <2>4, <2>6
<1>8. CASE area # "feel"
  <2>1. s \in SettingsAssigned(settings, area, key, value) /\ SettingsValid(s)
    BY <1>8, Zenon DEF valid
  <2>2. area = "dwt" \/ area = "gesture"
    BY <2>1 DEF SettingsAssigned
  <2>3. DOMAIN s.gestures.bindings = Triggers
    BY <2>1, Zenon DEF SettingsValid, GesturesValid
  <2>4. SettingsShaped(s) /\ Moved("settings", s, settings, area, key, value)
    <3>1. CASE area = "dwt"
      BY <2>1, <3>1, DwtAssigning
    <3>2. CASE area = "gesture"
      BY <2>1, <2>3, <3>2, GestureAssigning
    <3> QED BY <2>2, <3>1, <3>2
  <2> QED BY <1>2, <1>6, <2>4
<1> QED BY <1>7, <1>8

DocShaped(kind, doc) == IF kind = "feel" THEN FeelShaped(doc) ELSE SettingsShaped(doc)

\* What an edit does to the parameters of a document.
Edited(kind, new, old, edit) ==
  \A area \in AreasOf(kind) : \A key \in Parameters(area) :
    /\ Assigns(kind, edit, area, key) =>
         ValueIn(kind, new, area, key) = Asked(area, key, edit.value)
    /\ ~Assigns(kind, edit, area, key) =>
         ValueIn(kind, new, area, key) = ValueIn(kind, old, area, key)

LEMMA EditingOnce ==
  ASSUME NEW kind \in {"feel", "settings"}, NEW doc, DocShaped(kind, doc), NEW edit,
         EditedOnce(kind, doc, edit).ok
  PROVE  LET new == EditedOnce(kind, doc, edit).doc IN
         DocShaped(kind, new) /\ Edited(kind, new, doc, edit)
<1>1. PICK key, value, area, rest :
        key = edit.key /\ value = edit.value /\ area = edit.area /\ rest = edit.rest
  OBVIOUS
<1>2. CASE kind = "feel"
  <2>1. PICK answer : answer = FeelSetKey(doc, key, value) /\ answer = EditedOnce(kind, doc, edit)
    BY <1>1, <1>2, Zenon DEF EditedOnce
  <2>2. FeelShaped(doc) /\ FeelSetKey(doc, key, value).ok
    BY <1>2, <2>1, Zenon DEF DocShaped
  <2>3. FeelShaped(answer.doc) /\ FeelMoved(answer.doc, doc, key, value)
    <3>1. LET new == FeelSetKey(doc, key, value).doc IN
          FeelShaped(new) /\ FeelMoved(new, doc, key, value)
      BY <2>2, FeelSetting
    <3> QED BY <2>1, <3>1
  <2>4. /\ AreasOf(kind) = {"feel"}
        /\ \A d, a, k : ValueIn(kind, d, a, k) = FeelValue(d, k)
        /\ \A a, k : Assigns(kind, edit, a, k) <=> key = k
    BY <1>1, <1>2 DEF AreasOf, ValueIn, Assigns
  <2>5. Edited(kind, answer.doc, doc, edit)
    BY <1>1, <2>3, <2>4 DEF Edited, FeelMoved
  <2> QED BY <1>2, <2>1, <2>3, <2>5 DEF DocShaped
<1>3. CASE kind = "settings"
  <2>1. PICK answer : answer = SettingsSetKey(doc, area, rest, value) /\ answer = EditedOnce(kind, doc, edit)
    BY <1>1, <1>3, Zenon DEF EditedOnce
  <2>2. SettingsShaped(doc) /\ SettingsSetKey(doc, area, rest, value).ok
    BY <1>3, <2>1, Zenon DEF DocShaped
  <2>3. SettingsShaped(answer.doc) /\ Moved("settings", answer.doc, doc, area, rest, value)
    <3>1. LET new == SettingsSetKey(doc, area, rest, value).doc IN
          SettingsShaped(new) /\ Moved("settings", new, doc, area, rest, value)
      BY <2>2, SettingsSetting
    <3> QED BY <2>1, <3>1
  <2>4. \A a, k : Assigns(kind, edit, a, k) <=> a = area /\ k = rest
    BY <1>1, <1>3 DEF Assigns
  <2>5. Edited(kind, answer.doc, doc, edit)
    BY <1>1, <1>3, <2>3, <2>4 DEF Edited, Moved
  <2> QED BY <1>3, <2>1, <2>3, <2>5 DEF DocShaped
<1> QED BY <1>2, <1>3

-----------------------------------------------------------------------------
(* One edit after another                                                  *)

NextEdit(kind, edits, answer, n) ==
  IF ~answer.ok \/ edits[n] \notin DOMAIN EditOf THEN Refused(answer.doc)
  ELSE EditedOnce(kind, answer.doc, EditOf[edits[n]])

Editing(kind, doc, edits, after, m) ==
  after = [n \in 0..m |-> IF n = 0 THEN Taken(doc) ELSE NextEdit(kind, edits, after[n - 1], n)]

LEMMA EditingExists ==
  ASSUME NEW kind, NEW doc, NEW edits, NEW L \in Nat
  PROVE  \E after : Editing(kind, doc, edits, after, L)
<1> DEFINE Bad == {m \in 0..L : ~\E after : Editing(kind, doc, edits, after, m)}
<1>1. 0 \notin Bad
  <2> DEFINE g == [n \in 0..0 |-> Taken(doc)]
  <2>1. Editing(kind, doc, edits, g, 0)
    BY DEF Editing
  <2> QED BY <2>1
<1>2. ASSUME NEW n \in 1..L, n - 1 \notin Bad PROVE n \notin Bad
  <2>1. PICK g : Editing(kind, doc, edits, g, n - 1)
    BY <1>2
  <2> DEFINE h == [k \in 0..n |-> IF k < n THEN g[k] ELSE NextEdit(kind, edits, g[n - 1], n)]
  <2>2. \A k \in 0..n : h[k] = IF k = 0 THEN Taken(doc) ELSE NextEdit(kind, edits, h[k - 1], k)
    <3> TAKE k \in 0..n
    <3>1. CASE k = 0
      BY <2>1, <3>1 DEF Editing
    <3>2. CASE k \in 1..n - 1
      BY <2>1, <3>2 DEF Editing
    <3>3. CASE k = n
      BY <3>3
    <3> QED BY <3>1, <3>2, <3>3
  <2>3. Editing(kind, doc, edits, h, n)
    BY <2>2 DEF Editing
  <2> QED BY <2>3
<1>3. Bad = {}
  BY <1>1, <1>2, StepByStep
<1> QED BY <1>3

LEMMA EditedIsLast ==
  ASSUME NEW kind, NEW doc, NEW edits, Len(edits) \in Nat
  PROVE  \E after : Editing(kind, doc, edits, after, Len(edits)) /\ EditedInOrder(kind, doc, edits) = after[Len(edits)]
<1> DEFINE after == CHOOSE f : f = [n \in 0..Len(edits) |->
               IF n = 0 THEN Taken(doc)
               ELSE IF ~f[n - 1].ok \/ edits[n] \notin DOMAIN EditOf THEN Refused(f[n - 1].doc)
                    ELSE EditedOnce(kind, f[n - 1].doc, EditOf[edits[n]])]
<1>1. \E f : f = [n \in 0..Len(edits) |->
               IF n = 0 THEN Taken(doc)
               ELSE IF ~f[n - 1].ok \/ edits[n] \notin DOMAIN EditOf THEN Refused(f[n - 1].doc)
                    ELSE EditedOnce(kind, f[n - 1].doc, EditOf[edits[n]])]
  <2>1. PICK f : Editing(kind, doc, edits, f, Len(edits))
    BY EditingExists, Zenon
  <2> QED BY <2>1, Zenon DEF Editing, NextEdit
<1>2. Editing(kind, doc, edits, after, Len(edits))
  BY <1>1, Zenon DEF Editing, NextEdit
<1>3. EditedInOrder(kind, doc, edits) = after[Len(edits)]
  BY DEF EditedInOrder
<1> QED BY <1>2, <1>3

(* What the first n edits have come to: every one of them was an edit, and *)
(* a parameter has the value of the last that hits it.                     *)
NoneHits(kind, edits, n, area, key) ==
  \A i \in 1..n : ~Assigns(kind, EditOf[edits[i]], area, key)

LastHit(kind, edits, n, area, key, i) ==
  /\ i \in 1..n /\ Assigns(kind, EditOf[edits[i]], area, key)
  /\ \A j \in i + 1..n : ~Assigns(kind, EditOf[edits[j]], area, key)

CameAt(kind, doc, edits, n, new, area, key) ==
  \/ /\ NoneHits(kind, edits, n, area, key)
     /\ ValueIn(kind, new, area, key) = ValueIn(kind, doc, area, key)
  \/ \E i : /\ LastHit(kind, edits, n, area, key, i)
            /\ ValueIn(kind, new, area, key) = Asked(area, key, EditOf[edits[i]].value)

Came(kind, doc, edits, n, new) ==
  /\ DocShaped(kind, new)
  /\ \A i \in 1..n : edits[i] \in DOMAIN EditOf
  /\ \A area \in AreasOf(kind) : \A key \in Parameters(area) :
       CameAt(kind, doc, edits, n, new, area, key)

LEMMA ComesOn ==
  ASSUME NEW kind \in {"feel", "settings"}, NEW doc, NEW edits, NEW n \in Nat \ {0}, NEW answer,
         answer.ok => Came(kind, doc, edits, n - 1, answer.doc),
         NextEdit(kind, edits, answer, n).ok
  PROVE  Came(kind, doc, edits, n, NextEdit(kind, edits, answer, n).doc)
<1>1. answer.ok /\ edits[n] \in DOMAIN EditOf
  BY AnswersAre, Zenon DEF NextEdit
<1>2. PICK old, edit : old = answer.doc /\ edit = EditOf[edits[n]]
  OBVIOUS
<1>3. PICK now : now = EditedOnce(kind, old, edit) /\ now = NextEdit(kind, edits, answer, n)
  BY <1>1, <1>2, Zenon DEF NextEdit
<1>4. Came(kind, doc, edits, n - 1, old)
  BY <1>1, <1>2
<1>5. PICK new : new = now.doc
  OBVIOUS
<1>6. DocShaped(kind, new) /\ Edited(kind, new, old, edit)
  <2>1. DocShaped(kind, old) /\ now.ok
    BY <1>3, <1>4, Zenon DEF Came
  <2>2. EditedOnce(kind, old, edit).ok
    BY <1>3, <2>1, Zenon
  <2>3. LET came == EditedOnce(kind, old, edit).doc IN
        DocShaped(kind, came) /\ Edited(kind, came, old, edit)
    BY <2>1, <2>2, EditingOnce
  <2> QED BY <1>3, <1>5, <2>3
<1>7. \A i \in 1..n : edits[i] \in DOMAIN EditOf
  BY <1>1, <1>4 DEF Came
<1>8. ASSUME NEW area \in AreasOf(kind), NEW key \in Parameters(area)
      PROVE  CameAt(kind, doc, edits, n, new, area, key)
  <2>1. CASE Assigns(kind, edit, area, key)
    <3>1. LastHit(kind, edits, n, area, key, n)
      BY <1>2, <2>1 DEF LastHit
    <3>2. ValueIn(kind, new, area, key) = Asked(area, key, edit.value)
      BY <1>6, <2>1 DEF Edited
    <3> QED BY <1>2, <3>1, <3>2 DEF CameAt
  <2>2. CASE ~Assigns(kind, edit, area, key)
    <3>1. ValueIn(kind, new, area, key) = ValueIn(kind, old, area, key)
      BY <1>6, <2>2 DEF Edited
    <3>2. CASE /\ NoneHits(kind, edits, n - 1, area, key)
               /\ ValueIn(kind, old, area, key) = ValueIn(kind, doc, area, key)
      <4>1. NoneHits(kind, edits, n, area, key)
        BY <1>2, <2>2, <3>2 DEF NoneHits
      <4> QED BY <3>1, <3>2, <4>1 DEF CameAt
    <3>3. ASSUME NEW i, LastHit(kind, edits, n - 1, area, key, i),
                 ValueIn(kind, old, area, key) = Asked(area, key, EditOf[edits[i]].value)
          PROVE  LastHit(kind, edits, n, area, key, i)
                 /\ ValueIn(kind, new, area, key) = Asked(area, key, EditOf[edits[i]].value)
      BY <1>2, <2>2, <3>1, <3>3 DEF LastHit
    <3>4. CameAt(kind, doc, edits, n - 1, old, area, key)
      BY <1>4 DEF Came
    <3> QED BY <3>2, <3>3, <3>4 DEF CameAt
  <2> QED BY <2>1, <2>2
<1> QED BY <1>3, <1>5, <1>6, <1>7, <1>8 DEF Came

LEMMA EditsCome ==
  ASSUME NEW kind \in {"feel", "settings"}, NEW doc, DocShaped(kind, doc), NEW edits, Len(edits) \in Nat,
         EditedInOrder(kind, doc, edits).ok
  PROVE  Came(kind, doc, edits, Len(edits), EditedInOrder(kind, doc, edits).doc)
<1>1. PICK after : /\ Editing(kind, doc, edits, after, Len(edits))
                   /\ EditedInOrder(kind, doc, edits) = after[Len(edits)]
  BY EditedIsLast
<1>2. PICK L : L = Len(edits) /\ L \in Nat
  OBVIOUS
<1> DEFINE Good(n) == after[n].ok => Came(kind, doc, edits, n, after[n].doc)
           Bad == {n \in 0..L : ~Good(n)}
<1>3. /\ after[0] = Taken(doc)
      /\ \A n \in 1..L : after[n] = NextEdit(kind, edits, after[n - 1], n)
  BY <1>1, <1>2 DEF Editing
<1>4. Good(0)
  <2>1. Came(kind, doc, edits, 0, doc)
    BY DEF Came, CameAt, NoneHits
  <2> QED BY <1>3, <2>1, AnswersAre
<1>5. ASSUME NEW n \in 1..L, Good(n - 1) PROVE Good(n)
  <2>1. n \in Nat \ {0}
    OBVIOUS
  <2>2. PICK answer : answer = after[n - 1] /\ (answer.ok => Came(kind, doc, edits, n - 1, answer.doc))
    BY <1>5
  <2>3. after[n] = NextEdit(kind, edits, answer, n)
    BY <1>3, <2>2
  <2> QED BY <2>1, <2>2, <2>3, ComesOn
<1> HIDE DEF Good
<1>6. Bad = {}
  <2>1. 0 \notin Bad /\ (\A n \in 1..L : n \in Bad => n - 1 \in Bad)
    BY <1>2, <1>4, <1>5
  <2> HIDE DEF Bad
  <2> QED BY <1>2, <2>1, StepByStep DEF Bad
<1>7. Good(L)
  BY <1>2, <1>6
<1> QED BY <1>1, <1>2, <1>7 DEF Good

-----------------------------------------------------------------------------
(* What an edit command promises                                           *)

KindOf(c) == IF c.name = "feel-set" THEN "feel" ELSE "settings"

EditsOf(c) == SubSeq(c.operands, IF c.name = "settings-patch" THEN 2 ELSE 3, Len(c.operands))

OutputOf(c) == IF c.name \in {"feel-set", "settings-set", "feel-gui", "settings-gui"}
               THEN c.operands[2] ELSE c.operands[1]

(* The last edit of a key.                                                 *)
IsLast(edits, i) ==
  /\ i \in DOMAIN edits
  /\ \A j \in DOMAIN edits : j > i => EditOf[edits[j]].key # EditOf[edits[i]].key

(* The parameters are those the last edits assign, and the old ones.       *)
Amounts(kind, edits, old, new) ==
  \A area \in AreasOf(kind) : \A key \in Parameters(area) :
    /\ \A i : IsLast(edits, i) /\ Assigns(kind, EditOf[edits[i]], area, key)
                => ValueIn(kind, new, area, key) = Asked(area, key, EditOf[edits[i]].value)
    /\ (\A i : IsLast(edits, i) => ~Assigns(kind, EditOf[edits[i]], area, key))
         => ValueIn(kind, new, area, key) = ValueIn(kind, old, area, key)

LEMMA SameKey ==
  ASSUME NEW kind, NEW o \in DOMAIN EditOf, NEW p \in DOMAIN EditOf, NEW area, NEW key,
         Assigns(kind, EditOf[o], area, key)
  PROVE  Assigns(kind, EditOf[p], area, key) <=> EditOf[p].key = EditOf[o].key
<1>1. EditOf[o].key = EditOf[p].key <=> EditOf[o].area = EditOf[p].area /\ EditOf[o].rest = EditOf[p].rest
  BY DocumentsAssumption
<1> QED BY <1>1 DEF Assigns

LEMMA CameAmounts ==
  ASSUME NEW kind, NEW doc, NEW edits, NEW n \in Nat, DOMAIN edits = 1..n, NEW new,
         Came(kind, doc, edits, n, new)
  PROVE  Amounts(kind, edits, doc, new)
<1> SUFFICES ASSUME NEW area \in AreasOf(kind), NEW key \in Parameters(area)
             PROVE  /\ \A i : IsLast(edits, i) /\ Assigns(kind, EditOf[edits[i]], area, key)
                          => ValueIn(kind, new, area, key) = Asked(area, key, EditOf[edits[i]].value)
                    /\ (\A i : IsLast(edits, i) => ~Assigns(kind, EditOf[edits[i]], area, key))
                          => ValueIn(kind, new, area, key) = ValueIn(kind, doc, area, key)
  BY Zenon DEF Amounts
<1>1. \A i \in 1..n : edits[i] \in DOMAIN EditOf
  BY DEF Came
<1>2. CameAt(kind, doc, edits, n, new, area, key)
  BY Zenon DEF Came
<1>3. ASSUME NEW i, IsLast(edits, i), NEW m, LastHit(kind, edits, n, area, key, m),
             Assigns(kind, EditOf[edits[i]], area, key)
      PROVE  m = i
  <2>1. i \in 1..n /\ m \in 1..n
    BY <1>3 DEF IsLast, LastHit
  <2>2. ~(m < i)
    BY <1>3, <2>1 DEF LastHit
  <2>3. ~(m > i)
    <3> SUFFICES ASSUME m > i PROVE FALSE
      OBVIOUS
    <3>1. EditOf[edits[m]].key # EditOf[edits[i]].key
      BY <1>3, <2>1 DEF IsLast
    <3>2. Assigns(kind, EditOf[edits[m]], area, key)
      BY <1>3 DEF LastHit
    <3>3. edits[i] \in DOMAIN EditOf /\ edits[m] \in DOMAIN EditOf
      BY <1>1, <2>1
    <3> QED BY <1>3, <3>1, <3>2, <3>3, SameKey
  <2> QED BY <2>1, <2>2, <2>3
<1>4. ASSUME NEW i, IsLast(edits, i), Assigns(kind, EditOf[edits[i]], area, key)
      PROVE  ValueIn(kind, new, area, key) = Asked(area, key, EditOf[edits[i]].value)
  <2>1. ~NoneHits(kind, edits, n, area, key)
    BY <1>4 DEF NoneHits, IsLast
  <2>2. PICK m : /\ LastHit(kind, edits, n, area, key, m)
                 /\ ValueIn(kind, new, area, key) = Asked(area, key, EditOf[edits[m]].value)
    BY <1>2, <2>1 DEF CameAt
  <2> QED BY <1>3, <1>4, <2>2
<1>5. ASSUME NEW m, LastHit(kind, edits, n, area, key, m)
      PROVE  IsLast(edits, m) /\ Assigns(kind, EditOf[edits[m]], area, key)
  <2>1. m \in 1..n /\ Assigns(kind, EditOf[edits[m]], area, key)
    BY <1>5 DEF LastHit
  <2>2. ASSUME NEW j \in 1..n, j > m PROVE EditOf[edits[j]].key # EditOf[edits[m]].key
    <3>1. ~Assigns(kind, EditOf[edits[j]], area, key)
      BY <1>5, <2>1, <2>2 DEF LastHit
    <3>2. edits[j] \in DOMAIN EditOf /\ edits[m] \in DOMAIN EditOf
      BY <1>1, <2>1
    <3> QED BY <2>1, <3>1, <3>2, SameKey
  <2> QED BY <2>1, <2>2 DEF IsLast
<1> QED BY <1>2, <1>4, <1>5 DEF CameAt

(* What the file holds after an edit command, whose process found files.   *)
Promised(c, files, content) ==
  LET kind == KindOf(c)
  IN /\ content.kind = kind
     /\ IF kind = "feel" THEN FeelValid(content.doc) ELSE SettingsValid(content.doc)
     /\ Amounts(kind, EditsOf(c), files[c.operands[1]].doc, content.doc)

DocOf(kind, doc) == IF kind = "feel" THEN FeelFile(doc) ELSE SettingsFile(doc)

LEMMA EditsAre ==
  ASSUME NEW c, Commanded(c), c.name \in EditCommands
  PROVE  \E n \in Nat : Len(EditsOf(c)) = n /\ DOMAIN EditsOf(c) = 1..n
<1>1. c.operands \in Seq(Spoken) /\ Len(c.operands) \in ArityOf(c.name)
  BY CommandIs DEF EditCommands
<1>2. Len(c.operands) >= IF c.name = "settings-patch" THEN 2 ELSE 3
  <2>1. PICK name, m : name = c.name /\ name \in EditCommands /\ m = Len(c.operands) /\ m \in ArityOf(name)
    BY <1>1
  <2>2. CASE name = "settings-patch"
    <3>1. ArityOf(name) = 2..100
      BY <2>2 DEF ArityOf, OneOperand, AtLeast
    <3>2. m \in 2..100
      BY <2>1, <3>1, Zenon
    <3>3. m >= 2
      BY <3>2
    <3> QED BY <2>1, <2>2, <3>3, Zenon
  <2>3. CASE name \in {"feel-set", "settings-set"}
    <3>1. ArityOf(name) = 3..100
      BY <2>3 DEF ArityOf, OneOperand, AtLeast
    <3>2. m \in 3..100
      BY <2>1, <3>1, Zenon
    <3>3. m >= 3 /\ name # "settings-patch"
      BY <2>3, <3>2
    <3> QED BY <2>1, <3>3, Zenon
  <2> QED BY <2>1, <2>2, <2>3 DEF EditCommands
<1>3. PICK k : k = IF c.name = "settings-patch" THEN 2 ELSE 3
  OBVIOUS
<1>4. EditsOf(c) = SubSeq(c.operands, k, Len(c.operands))
  BY <1>3 DEF EditsOf
<1>5. EditsOf(c) \in Seq(Spoken)
  BY <1>1, <1>2, <1>3, <1>4
<1> QED BY <1>5

LEMMA EditPromised ==
  ASSUME NEW c, Commanded(c), c.name \in EditCommands, NEW files, NEW kind, kind = KindOf(c),
         files[c.operands[1]].kind = kind, Shaped(files[c.operands[1]]),
         NEW doc, doc = files[c.operands[1]].doc, NEW edited, edited = EditedInOrder(kind, doc, EditsOf(c)),
         edited.ok, IF kind = "feel" THEN FeelValid(edited.doc) ELSE SettingsValid(edited.doc)
  PROVE  Promised(c, files, DocOf(kind, edited.doc)) /\ Shaped(DocOf(kind, edited.doc))
<1>0. kind \in {"feel", "settings"}
  BY DEF KindOf
<1>1. DocShaped(kind, doc)
  BY <1>0 DEF Shaped, DocShaped
<1>2. PICK n \in Nat : Len(EditsOf(c)) = n /\ DOMAIN EditsOf(c) = 1..n
  BY EditsAre
<1>3. Came(kind, doc, EditsOf(c), n, edited.doc)
  BY <1>0, <1>1, <1>2, EditsCome
<1>4. Amounts(kind, EditsOf(c), doc, edited.doc)
  BY <1>2, <1>3, CameAmounts
<1>5. PICK content : content = DocOf(kind, edited.doc)
  OBVIOUS
<1>6. content.kind = kind /\ content.doc = edited.doc
  BY <1>0, <1>5 DEF DocOf, FeelFile, SettingsFile
<1>7. DocShaped(kind, edited.doc)
  BY <1>3, Zenon DEF Came
<1>8. Shaped(content)
  BY <1>0, <1>6, <1>7 DEF Shaped, DocShaped
<1>9. Promised(c, files, content)
  BY <1>4, <1>6 DEF Promised
<1> QED BY <1>5, <1>8, <1>9

Shelved(files) == \A path \in Paths : Shaped(files[path])

(* The process is past its writing, and not for a failure.                 *)
Past(p) == p.at = "reporting" \/ (p.at = "exited" /\ p.code = 0 /\ p.why = "")

(* Nothing is written before the composed content is; what is written      *)
(* touches the output alone; and what an edit command composed, and then   *)
(* wrote, is as promised.                                                  *)
SavingOf(p, d, b) ==
  /\ Shelved(d)
  /\ p.at \in {"parsed", "writing"} => d = b
  /\ d # b => \A path \in Paths \ {OutputOf(p.command)} : d[path] = b[path]
  /\ p.at = "writing" =>
       Shaped(p.writes) /\ (p.command.name \in EditCommands => Promised(p.command, b, p.writes))
  /\ Past(p) /\ p.command.name \in EditCommands /\ OutputOf(p.command) \in Paths =>
       Promised(p.command, b, d[OutputOf(p.command)])
  /\ p.at = "emitting" => p.command.name \notin EditCommands

Saving == SavingOf(proc, disk, before)

LEMMA OutputIs == Output = OutputOf(proc.command)
BY DEF Output, OutputOf, Name, Operand

LEMMA EditsIs == Edits = EditsOf(proc.command)
BY DEF Edits, EditsOf, Name

LEMMA ProcIs ==
  ASSUME NEW b, NEW c, NEW w, NEW x, NEW y, proc' = ProcOf(b, c, w, x, y)
  PROVE  /\ proc'.at = b /\ proc'.command = c /\ proc'.writes = w
         /\ proc'.code = x /\ proc'.why = y
BY ProcFields

(* What follows from a process that moves on over an unchanged disk.       *)
LEMMA Rests ==
  ASSUME Saving, NEW b, NEW w, NEW x, NEW y,
         proc' = ProcOf(b, proc.command, w, x, y), disk' = disk, before' = before,
         b \in {"reporting", "exited", "emitting", "handed-over", "hosting"},
         \/ proc.command.name \notin EditCommands
         \/ b \in {"handed-over", "hosting"}
         \/ b = "exited" /\ (x # 0 \/ y # "" \/ proc.at = "reporting")
  PROVE  Saving'
<1>0. PICK c : c = proc.command
  OBVIOUS
<1>6. proc' = ProcOf(b, c, w, x, y)
  BY <1>0
<1>1. /\ proc'.at = b /\ proc'.command = c /\ proc'.writes = w
      /\ proc'.code = x /\ proc'.why = y
  BY <1>6, ProcIs, Zenon
<1>2. PICK p, q, d, f : p = proc /\ q = proc' /\ d = disk /\ f = before
  OBVIOUS
<1>3. SavingOf(p, d, f) /\ q.command = p.command /\ q.at = b /\ q.code = x /\ q.why = y
  BY <1>0, <1>1, <1>2 DEF Saving
<1>4. Past(q) /\ p.command.name \in EditCommands => Past(p)
  BY <1>2, <1>3 DEF Past
<1>5. SavingOf(q, d, f)
  BY <1>2, <1>3, <1>4 DEF SavingOf
<1> QED BY <1>2, <1>5 DEF Saving

LEMMA SavedExit ==
  ASSUME Saving, ProcShape, NEW code, NEW why, ExitFor(code, why), disk' = disk, before' = before,
         proc.command.name \notin EditCommands \/ code # 0 \/ why # "" \/ proc.at = "reporting"
  PROVE  Saving'
<1>1. proc' = ProcOf("exited", proc.command, proc.writes, code, why)
  BY Exits
<1> QED BY <1>1, Rests

LEMMA SavedGo ==
  ASSUME Saving, ProcShape, NEW place \in {"reporting", "emitting", "hosting"}, Go(place),
         disk' = disk, before' = before, proc.command.name \notin EditCommands \/ place = "hosting"
  PROVE  Saving'
<1>1. proc' = ProcOf(place, proc.command, proc.writes, proc.code, proc.why)
  BY GoesOn
<1> QED BY <1>1, Rests

LEMMA SavedHandOver ==
  ASSUME Saving, ProcShape, NEW name, HandOver(name), disk' = disk, before' = before
  PROVE  Saving'
<1>1. proc' = ProcOf("handed-over", proc.command, proc.writes, proc.code, name)
  BY HandsOver
<1> QED BY <1>1, Rests

LEMMA SavedComposes ==
  ASSUME Saving, ProcShape, proc.at = "parsed", NEW content, Shaped(content),
         proc' = [proc EXCEPT !.at = "writing", !.writes = content],
         disk' = disk, before' = before,
         proc.command.name \in EditCommands => Promised(proc.command, before, content)
  PROVE  Saving'
<1>1. proc' = ProcOf("writing", proc.command, content, proc.code, proc.why)
  BY Composes
<1>2. /\ proc'.at = "writing" /\ proc'.command = proc.command /\ proc'.writes = content
  BY <1>1, ProcFields
<1>3. PICK p, q, d, f : p = proc /\ q = proc' /\ d = disk /\ f = before
  OBVIOUS
<1>4. SavingOf(p, d, f) /\ d = f
  BY <1>3 DEF Saving, SavingOf
<1>5. SavingOf(q, d, f)
  BY <1>2, <1>3, <1>4 DEF SavingOf, Past
<1> QED BY <1>3, <1>5 DEF Saving

LEMMA FilesDecode ==
  /\ \A kind : kind \notin {"feel", "settings"} => Shaped([kind |-> kind])
  /\ Shaped(Text)
  /\ Shaped(FeelFile(DefaultFeel)) /\ Shaped(SettingsFile(DefaultSettings))
  /\ Shaped(SettingsFile(MacosInspired))
<1>1. FeelShaped(DefaultFeel)
  <2>1. DefaultFeel = FeelOf(FEEL_CONFIG_VERSION, DefaultFeelParam, TRUE)
    BY DEF DefaultFeel, FeelOf
  <2>2. DefaultFeelParam = ParamOver(DefaultFeelParam)
    BY DEF DefaultFeelParam, ParamOver
  <2>3. PICK v, p, l : v = FEEL_CONFIG_VERSION /\ p = DefaultFeelParam /\ l = TRUE
    OBVIOUS
  <2>4. FeelShaped(FeelOf(v, p, l))
    BY <2>2, <2>3, FeelShapedOf
  <2> QED BY <2>1, <2>3, <2>4
<1>2. DefaultSettings = SettingsOf(USER_SETTINGS_VERSION, DefaultFeel, DefaultGestures, DefaultDwt)
  BY DEF DefaultSettings, SettingsOf
<1>3. PICK v, g, d : v = USER_SETTINGS_VERSION /\ g = DefaultGestures /\ d = DefaultDwt
  OBVIOUS
<1>4. DefaultSettings = SettingsOf(v, DefaultFeel, g, d)
  BY <1>2, <1>3
<1>7. GesturesShaped(g) /\ DwtShaped(d)
  BY <1>3 DEF DefaultGestures, DefaultDwt, GesturesShaped, DwtShaped
<1>5. SettingsShaped(DefaultSettings)
  BY <1>1, <1>4, <1>7, SettingsShapedOf
<1>6. SettingsShaped(MacosInspired)
  <2>1. PICK h, i, b : /\ b = MacosBindings /\ h = [g EXCEPT !.drag_enabled = FALSE]
                       /\ i = [h EXCEPT !.bindings = b]
    OBVIOUS
  <2>2. GesturesShaped(i)
    BY <1>7, <2>1, GesturesSet
  <2>3. DefaultSettings.gestures = g
    BY <1>4, SettingsFields
  <2>4. MacosInspired = [DefaultSettings EXCEPT !.gestures = i]
    BY <2>1, <2>3 DEF MacosInspired
  <2>5. MacosInspired = SettingsOf(v, DefaultFeel, i, d)
    BY <1>4, <2>4, SettingsGesturesSet
  <2> QED BY <1>1, <1>7, <2>2, <2>5, SettingsShapedOf
<1> QED BY <1>1, <1>5, <1>6 DEF Shaped, FeelFile, SettingsFile, Text

-----------------------------------------------------------------------------
(* The steps that compose and write                                        *)

LEMMA ReadIs ==
  /\ \A path : \A doc \in ReadFeel(path) :
       path \in Paths /\ disk[path].kind = "feel" /\ doc = disk[path].doc /\ FeelValid(doc)
  /\ \A path : \A doc \in ReadSettings(path) :
       path \in Paths /\ disk[path].kind = "settings" /\ doc = disk[path].doc /\ SettingsValid(doc)
BY DEF ReadFeel, ReadSettings, Contents

LEMMA EditDocument ==
  ASSUME Saving, Commanded(proc.command), Name \in EditCommands, NEW content \in Document
  PROVE  Promised(proc.command, disk, content) /\ Shaped(content)
<1>1. PICK c, kind, path : c = proc.command /\ kind = KindOf(c) /\ path = c.operands[1]
  OBVIOUS
<1>2. Commanded(c) /\ c.name \in EditCommands /\ c.name = Name /\ Operand(1) = path
  BY <1>1 DEF Name, Operand
<1>3. \E doc \in Loaded : \E edited :
        /\ edited = EditedInOrder(kind, doc, EditsOf(c)) /\ edited.ok
        /\ IF kind = "feel" THEN FeelValid(edited.doc) ELSE SettingsValid(edited.doc)
        /\ content = DocOf(kind, edited.doc)
  <2>1. CASE Name = "feel-set"
    <3>1. kind = "feel"
      BY <1>1, <1>2, <2>1 DEF KindOf
    <3>2. Document = {FeelFile(edited.doc) :
            edited \in {e \in {EditedInOrder("feel", doc, Edits) : doc \in Loaded} : e.ok /\ FeelValid(e.doc)}}
      BY <2>1 DEF Document
    <3> QED BY <1>1, <3>1, <3>2, EditsIs, Zenon DEF DocOf
  <2>2. CASE Name \in {"settings-set", "settings-patch"}
    <3>1. kind = "settings"
      BY <1>1, <1>2, <2>2 DEF KindOf
    <3>2. Document = {SettingsFile(edited.doc) :
            edited \in {e \in {EditedInOrder("settings", doc, Edits) : doc \in Loaded} :
                        e.ok /\ SettingsValid(e.doc)}}
      BY <2>2 DEF Document
    <3> QED BY <1>1, <3>1, <3>2, EditsIs, Zenon DEF DocOf
  <2> QED BY <2>1, <2>2 DEF EditCommands
<1>4. PICK doc, edited :
        /\ doc \in Loaded
        /\ edited = EditedInOrder(kind, doc, EditsOf(c)) /\ edited.ok
        /\ IF kind = "feel" THEN FeelValid(edited.doc) ELSE SettingsValid(edited.doc)
        /\ content = DocOf(kind, edited.doc)
  BY <1>3
<1>5. path \in Paths /\ disk[path].kind = kind /\ doc = disk[path].doc
  <2>1. CASE Name = "feel-set"
    BY <1>1, <1>2, <1>4, <2>1, ReadIs DEF Loaded, KindOf
  <2>2. CASE Name \in {"settings-set", "settings-patch"}
    <3>1. Loaded = ReadSettings(path)
      BY <1>2, <2>2 DEF Loaded
    <3>2. kind = "settings"
      BY <1>1, <1>2, <2>2 DEF KindOf
    <3> QED BY <1>4, <3>1, <3>2, ReadIs
  <2> QED BY <1>2, <2>1, <2>2 DEF EditCommands
<1>6. Shaped(disk[path])
  BY <1>5 DEF Saving, SavingOf, Shelved
<1>7. Promised(c, disk, DocOf(kind, edited.doc)) /\ Shaped(DocOf(kind, edited.doc))
  BY <1>1, <1>2, <1>4, <1>5, <1>6, EditPromised
<1> QED BY <1>1, <1>4, <1>7

LEMMA OtherDocument ==
  ASSUME Name \in Writers, Name \notin EditCommands, NEW content \in Document
  PROVE  Shaped(content)
<1>1. CASE Name = "feel-default"
  <2>1. Document = {FeelFile(DefaultFeel)}
    BY <1>1 DEF Document
  <2> QED BY <2>1, FilesDecode
<1>2. CASE Name = "settings-default"
  <2>1. Document = {SettingsFile(DefaultSettings)}
    BY <1>2 DEF Document
  <2> QED BY <2>1, FilesDecode
<1>3. CASE Name = "settings-macos"
  <2>1. Document = {SettingsFile(MacosInspired)}
    BY <1>3 DEF Document
  <2> QED BY <2>1, FilesDecode
<1>4. CASE Name \in {"feel-gui", "settings-gui"}
  <2>1. Document = {Text : doc \in Loaded}
    BY <1>4 DEF Document
  <2> QED BY <2>1, FilesDecode
<1> QED BY <1>1, <1>2, <1>3, <1>4 DEF Writers, EditCommands

(* Storing fills the output of the process and nothing else.               *)
LEMMA StoredIs ==
  ASSUME Saving, NEW content, Shaped(content), disk = before, Stored(content)
  PROVE  /\ before' = before /\ Shelved(disk')
         /\ \A path \in Paths \ {OutputOf(proc.command)} : disk'[path] = before[path]
         /\ OutputOf(proc.command) \in Paths => disk'[OutputOf(proc.command)] = content
<1>1. PICK out : out = OutputOf(proc.command)
  OBVIOUS
<1>2. before' = before /\ disk' = [path \in Paths |-> IF path = out THEN content ELSE disk[path]]
  BY <1>1, OutputIs DEF Stored
<1>3. Shelved(disk)
  BY DEF Saving, SavingOf
<1> QED BY <1>1, <1>2, <1>3 DEF Shelved

LEMMA SavedStored ==
  ASSUME Saving, ProcShape, NEW content, Shaped(content), disk = before, Stored(content),
         NEW place, NEW code, NEW why,
         proc' = ProcOf(place, proc.command, proc.writes, code, why),
         place \in {"reporting", "exited"},
         \/ proc.command.name \in EditCommands => Promised(proc.command, before, content)
         \/ place = "exited" /\ (code # 0 \/ why # "")
  PROVE  Saving'
<1>1. /\ proc'.at = place /\ proc'.command = proc.command
      /\ proc'.code = code /\ proc'.why = why
  BY ProcIs, Zenon
<1>2. PICK q, d, b, c, out : q = proc' /\ d = disk' /\ b = before /\ c = proc.command /\ out = OutputOf(c)
  OBVIOUS
<1>3. /\ before' = b /\ Shelved(d) /\ \A path \in Paths \ {out} : d[path] = b[path]
      /\ out \in Paths => d[out] = content
  BY <1>2, StoredIs
<1>4. q.at = place /\ q.command = c /\ q.code = code /\ q.why = why
  BY <1>1, <1>2
<1>5. Past(q) /\ c.name \in EditCommands => Promised(c, b, content)
  BY <1>2, <1>4 DEF Past
<1>6. SavingOf(q, d, b)
  BY <1>2, <1>3, <1>4, <1>5 DEF SavingOf
<1> QED BY <1>2, <1>3, <1>6 DEF Saving

LEMMA Stays ==
  ASSUME Idle
  PROVE  disk' = disk /\ before' = before
BY Zenon DEF Idle

-----------------------------------------------------------------------------
(* Every step keeps what is saved                                          *)

LEMMA SavingInit == CommandsInit => Saving
<1> SUFFICES ASSUME CommandsInit PROVE Saving
  OBVIOUS
<1>1. disk = before /\ Shelved(disk)
  BY CommandsAssumption DEF CommandsInit, Shelved
<1>2. proc.at = "idle"
  BY DEF CommandsInit, NoProcess
<1> QED BY <1>1, <1>2 DEF Saving, SavingOf, Past

CodesKnown ==
  /\ ExitCode.Success = 0 /\ ExitCode.Config = 1 /\ ExitCode.OutputCapability = 4
  /\ ExitCode.Unexpected = 9

LEMMA CodesAre == CodesKnown
BY DEF CodesKnown, ExitCode

LEMMA SavedFailure ==
  ASSUME ProcKnown, Saving, NEW code, NEW why, code # 0 \/ why # "", ExitFor(code, why), Idle
  PROVE  Saving'
BY SavedExit, Stays DEF ProcKnown

LEMMA SavedOther ==
  ASSUME ProcKnown, Saving, NEW code, Exit(code), Idle, Name \notin EditCommands
  PROVE  Saving'
<1>1. ExitFor(code, "") /\ proc.command.name \notin EditCommands
  BY Zenon DEF Exit, Name
<1> QED BY <1>1, SavedExit, Stays DEF ProcKnown

LEMMA SavedStart ==
  ASSUME ProcKnown, Saving, StartProcess
  PROVE  Saving'
<1>1. PICK command \in FirstCommands \cup LaterCommands :
          proc' = IF command.name = "usage-error"
                  THEN [NoProcess EXCEPT !.at = "exited", !.code = ExitCode.Usage]
                  ELSE [NoProcess EXCEPT !.at = "parsed", !.command = command]
  BY Zenon DEF StartProcess
<1>2. \/ proc' = ProcOf("exited", NoCommand, Absent, 1, "")
      \/ proc' = ProcOf("parsed", command, Absent, 0, "")
  BY <1>1, Starts
<1>3. (proc'.at = "exited" /\ proc'.code = 1) \/ proc'.at = "parsed"
  <2>1. CASE proc' = ProcOf("exited", NoCommand, Absent, 1, "")
    BY <2>1, ProcIs
  <2>2. CASE proc' = ProcOf("parsed", command, Absent, 0, "")
    BY <2>2, ProcIs
  <2> QED BY <1>2, <2>1, <2>2
<1>4. PICK q, d : q = proc' /\ d = disk
  OBVIOUS
<1>5. disk' = d /\ before' = d /\ Shelved(d)
  BY <1>4 DEF StartProcess, Saving, SavingOf
<1>6. SavingOf(q, d, d)
  <2>1. (q.at = "exited" /\ q.code = 1) \/ q.at = "parsed"
    BY <1>3, <1>4
  <2>2. ~Past(q) /\ q.at # "writing" /\ q.at # "emitting"
    <3>1. CASE q.at = "exited" /\ q.code = 1
      <4>1. q.code # 0
        BY <3>1
      <4> QED BY <3>1, <4>1 DEF Past
    <3>2. CASE q.at = "parsed"
      BY <3>2 DEF Past
    <3> QED BY <2>1, <3>1, <3>2
  <2> QED BY <1>5, <2>2 DEF SavingOf
<1> QED BY <1>4, <1>5, <1>6 DEF Saving

LEMMA SavedCompose ==
  ASSUME ProcKnown, Saving, Compose
  PROVE  Saving'
<1>0. ProcShape /\ proc.at = "parsed" /\ Commanded(proc.command) /\ Name \in Writers /\ Idle
  BY DEF ProcKnown, Compose, Running
<1>1. CASE Document = {}
  <2>1. ExitFor(ExitCode.Config, "")
    BY <1>1, Zenon DEF Compose, Exit
  <2>2. ExitCode.Config # 0
    BY CodesAre DEF CodesKnown
  <2> QED BY <1>0, <2>1, <2>2, SavedFailure
<1>2. CASE Document # {}
  <2>1. PICK content : content = CHOOSE d \in Document : TRUE
    OBVIOUS
  <2>2. content \in Document
    BY <1>2, <2>1
  <2>3. proc' = [proc EXCEPT !.at = "writing", !.writes = content]
    BY <1>2, <2>1, Zenon DEF Compose
  <2>4. Shaped(content)
    BY <1>0, <2>2, EditDocument, OtherDocument, Zenon
  <2>5. disk = before
    BY <1>0 DEF Saving, SavingOf
  <2>6. proc.command.name \in EditCommands => Promised(proc.command, before, content)
    BY <1>0, <2>2, <2>5, EditDocument DEF Name
  <2> QED BY <1>0, <2>3, <2>4, <2>6, Stays, SavedComposes
<1> QED BY <1>1, <1>2

LEMMA SavedWrite ==
  ASSUME ProcKnown, Saving, Write
  PROVE  Saving'
<1>1. /\ ProcShape /\ Go("reporting") /\ Stored(proc.writes) /\ proc.at = "writing"
  BY DEF ProcKnown, Write, Running
<1>2. /\ disk = before /\ Shaped(proc.writes)
      /\ proc.command.name \in EditCommands => Promised(proc.command, before, proc.writes)
  BY <1>1 DEF Saving, SavingOf
<1>3. proc' = ProcOf("reporting", proc.command, proc.writes, proc.code, proc.why)
  BY <1>1, GoesOn
<1> QED BY <1>1, <1>2, <1>3, SavedStored

LEMMA SavedHalf ==
  ASSUME ProcKnown, Saving, proc.at = "writing", NEW code, NEW why, code # 0 \/ why # "",
         ExitFor(code, why), Stored(Text)
  PROVE  Saving'
<1>1. ProcShape /\ disk = before
  BY DEF ProcKnown, Saving, SavingOf
<1>2. proc' = ProcOf("exited", proc.command, proc.writes, code, why)
  BY <1>1, Exits
<1> QED BY <1>1, <1>2, FilesDecode, SavedStored

LEMMA SavedWriteFails ==
  ASSUME ProcKnown, Saving, WriteFails
  PROVE  Saving'
<1>1. ExitFor(ExitCode.Config, "") /\ proc.at = "writing"
  BY Zenon DEF WriteFails, Exit, Running
<1>2. ExitCode.Config # 0
  BY CodesAre DEF CodesKnown
<1>3. Idle \/ Stored(Text)
  BY Zenon DEF WriteFails
<1> QED BY <1>1, <1>2, <1>3, SavedFailure, SavedHalf

LEMMA SavedKilled ==
  ASSUME ProcKnown, Saving, Killed
  PROVE  Saving'
<1>1. ExitFor(0, "killed")
  BY Zenon DEF Killed
<1>2. Idle \/ (proc.at = "writing" /\ Stored(Text))
  BY Zenon DEF Killed, Running
<1> QED BY <1>1, <1>2, SavedFailure, SavedHalf

LEMMA SavedTell ==
  ASSUME ProcKnown, Saving, Tell
  PROVE  Saving'
<1>1. PICK code : ExitFor(code, "")
  BY Zenon DEF Tell, Exit
<1>2. Idle /\ proc.at = "reporting" /\ ProcShape
  BY Zenon DEF Tell, Running, ProcKnown
<1> QED BY <1>1, <1>2, SavedExit, Stays

LEMMA SavedTakeover ==
  ASSUME ProcKnown, Saving, Takeover
  PROVE  Saving'
<1>1. Idle
  BY Zenon DEF Takeover
<1>2. \/ ExitFor(ExitCode.Config, "") \/ ExitFor(ExitCode.OutputCapability, "plan")
      \/ ExitFor(ExitCode.Unexpected, "profile") \/ (\E name : HandOver(name))
  BY Zenon DEF Takeover, Exit
<1>3. ExitCode.Config # 0 /\ "plan" # "" /\ "profile" # ""
  BY CodesAre DEF CodesKnown
<1>4. CASE ExitFor(ExitCode.Config, "")
  BY <1>1, <1>3, <1>4, SavedFailure
<1>5. CASE ExitFor(ExitCode.OutputCapability, "plan")
  BY <1>1, <1>3, <1>5, SavedFailure
<1>6. CASE ExitFor(ExitCode.Unexpected, "profile")
  BY <1>1, <1>3, <1>6, SavedFailure
<1>7. CASE \E name : HandOver(name)
  BY <1>1, <1>7, SavedHandOver, Stays DEF ProcKnown
<1> QED BY <1>2, <1>4, <1>5, <1>6, <1>7

LEMMA SavingNext == ProcKnown /\ Saving /\ [CommandsNext]_commandVars => Saving'
<1> SUFFICES ASSUME ProcKnown, Saving, [CommandsNext]_commandVars PROVE Saving'
  OBVIOUS
<1>0. ProcShape
  BY DEF ProcKnown
<1>1. CASE HandlerRefused
  <2>1. ExitFor(ExitCode.Unexpected, "") /\ Idle /\ ExitCode.Unexpected # 0
    <3>1. ExitFor(ExitCode.Unexpected, "") /\ Idle
      BY <1>1, Zenon DEF HandlerRefused, Exit
    <3>2. ExitCode.Unexpected # 0
      BY CodesAre DEF CodesKnown
    <3> QED BY <3>1, <3>2, Zenon
  <2> QED BY <2>1, SavedFailure
<1>2. CASE Check
  <2>1. Idle /\ Name \notin EditCommands
    BY <1>2 DEF Check, Reporters, EditCommands
  <2>2. Exit(ExitCode.Config) \/ Go("reporting")
    BY <1>2, Zenon DEF Check
  <2> QED BY <1>0, <2>1, <2>2, SavedOther, SavedGo, Stays DEF Name
<1>3. CASE ListDevices \/ Inspect \/ Doctor
  <2>1. (\E code : Exit(code)) /\ Idle
    BY <1>3, Zenon DEF ListDevices, Inspect, Doctor
  <2>2. Name \notin EditCommands
    BY <1>3 DEF ListDevices, Inspect, Doctor, EditCommands
  <2> QED BY <2>1, <2>2, SavedOther
<1>4. CASE Survey
  <2>1. Idle /\ proc.at = "parsed"
    BY <1>4, Zenon DEF Survey, Running
  <2>2. Name \notin EditCommands
    BY <1>4 DEF Survey, EditCommands
  <2>3. (\E code : Exit(code)) \/ proc' = [proc EXCEPT !.at = "writing", !.writes = Text]
    BY <1>4, Zenon DEF Survey
  <2>4. CASE \E code : Exit(code)
    BY <2>1, <2>2, <2>4, SavedOther
  <2>5. CASE proc' = [proc EXCEPT !.at = "writing", !.writes = Text]
    BY <1>0, <2>1, <2>2, <2>5, FilesDecode, SavedComposes, Stays DEF Name
  <2> QED BY <2>3, <2>4, <2>5
<1>5. CASE Simple \/ Emit
  <2>1. (Go("reporting") \/ Go("emitting")) /\ disk' = disk /\ before' = before
    BY <1>5, Zenon DEF Simple, Emit, Idle
  <2>2. proc.command.name \notin EditCommands
    BY <1>5 DEF Simple, Emit, Name, EditCommands
  <2> QED BY <1>0, <2>1, <2>2, SavedGo
<1>6. CASE Emitted
  <2>1. Exit(emission.code) /\ Idle /\ proc.at = "emitting"
    BY <1>6, Zenon DEF Emitted, Running
  <2>2. Name \notin EditCommands
    BY <2>1 DEF Saving, SavingOf, Name
  <2> QED BY <2>1, <2>2, SavedOther
<1>7. CASE Record
  <2>1. HandOver(Name) /\ Idle
    BY <1>7, Zenon DEF Record
  <2> QED BY <1>0, <2>1, SavedHandOver, Stays
<1>8. CASE HostArrives
  <2>1. Go("hosting") /\ disk' = disk /\ before' = before
    BY <1>8, Zenon DEF HostArrives
  <2> QED BY <1>0, <2>1, SavedGo
<1>9. CASE EmitStep \/ Host \/ UNCHANGED commandVars
  <2>1. proc' = proc /\ disk' = disk /\ before' = before
    BY <1>9, Zenon DEF EmitStep, Host, commandVars
  <2> QED BY <2>1 DEF Saving
<1> QED BY <1>1, <1>2, <1>3, <1>4, <1>5, <1>6, <1>7, <1>8, <1>9, SavedStart, SavedCompose, SavedWrite,
           SavedWriteFails, SavedTell, SavedKilled, SavedTakeover, Zenon
        DEF CommandsNext

LEMMA LastEditsIs ==
  LastEdits = {EditOf[Edits[i]] : i \in {i \in DOMAIN Edits : IsLast(Edits, i)}}
BY Zenon DEF LastEdits, IsLast

LEMMA SavingSaves == Saving => SavedAsAsked
<1> SUFFICES ASSUME Saving PROVE SavedAsAsked
  OBVIOUS
<1>1. PICK c, out, kind : c = proc.command /\ out = OutputOf(c) /\ kind = KindOf(c)
  OBVIOUS
<1>2. disk # before => \A path \in Paths \ {Output} : disk[path] = before[path]
  BY OutputIs DEF Saving, SavingOf
<1>3. ASSUME Name \in EditCommands, Ended(Name, 0), Output \in Paths
      PROVE  LET old == before[Operand(1)].doc
                 new == disk[Output].doc
             IN /\ \A area \in AreasOf(Kind) : \A key \in Parameters(area) :
                     /\ \A edit \in LastEdits : Assigns(Kind, edit, area, key) =>
                          ValueIn(Kind, new, area, key) = Asked(area, key, edit.value)
                     /\ (\A edit \in LastEdits : ~Assigns(Kind, edit, area, key)) =>
                          ValueIn(Kind, new, area, key) = ValueIn(Kind, old, area, key)
                /\ (IF Kind = "feel" THEN ReadFeel(Output) ELSE ReadSettings(Output)) # {}
  <2>1. Past(proc) /\ c.name = Name /\ out \in Paths /\ Output = out /\ Kind = kind
    BY <1>1, <1>3, OutputIs DEF Ended, Past, Running, Name, Kind, KindOf
  <2>2. Promised(c, before, disk[out])
    BY <1>1, <1>3, <2>1 DEF Saving, SavingOf
  <2>3. PICK edits, content, old, new :
          /\ edits = Edits /\ edits = EditsOf(c) /\ content = disk[out]
          /\ old = before[Operand(1)].doc /\ new = content.doc
    BY <1>1, EditsIs
  <2>4. /\ content.kind = kind
        /\ IF kind = "feel" THEN FeelValid(new) ELSE SettingsValid(new)
        /\ Amounts(kind, edits, old, new)
    BY <1>1, <2>2, <2>3 DEF Promised, Operand
  <2>5. kind = "feel" \/ kind = "settings"
    BY <1>1 DEF KindOf
  <2>8. LastEdits = {EditOf[edits[i]] : i \in {i \in DOMAIN edits : IsLast(edits, i)}}
    BY <2>3, LastEditsIs
  <2>9. \A i : IsLast(edits, i) => i \in DOMAIN edits
    BY DEF IsLast
  <2>10. ASSUME NEW area \in AreasOf(kind), NEW key \in Parameters(area),
                NEW edit \in LastEdits, Assigns(kind, edit, area, key)
         PROVE  ValueIn(kind, new, area, key) = Asked(area, key, edit.value)
    <3>1. PICK i : IsLast(edits, i) /\ edit = EditOf[edits[i]]
      BY <2>8
    <3> QED BY <2>4, <2>10, <3>1 DEF Amounts
  <2>11. ASSUME NEW area \in AreasOf(kind), NEW key \in Parameters(area),
                \A edit \in LastEdits : ~Assigns(kind, edit, area, key)
         PROVE  ValueIn(kind, new, area, key) = ValueIn(kind, old, area, key)
    <3>1. ASSUME NEW i, IsLast(edits, i) PROVE ~Assigns(kind, EditOf[edits[i]], area, key)
      BY <2>8, <2>9, <2>11, <3>1
    <3> QED BY <2>4, <3>1 DEF Amounts
  <2>12. (IF Kind = "feel" THEN ReadFeel(Output) ELSE ReadSettings(Output)) # {}
    <3>1. CASE kind = "feel"
      <4>1. disk[out].doc \in ReadFeel(out)
        BY <2>1, <2>3, <2>4, <3>1 DEF ReadFeel, Contents
      <4> QED BY <2>1, <3>1, <4>1
    <3>2. CASE kind = "settings"
      <4>1. disk[out].doc \in ReadSettings(out)
        BY <2>1, <2>3, <2>4, <3>2 DEF ReadSettings, Contents
      <4> QED BY <2>1, <3>2, <4>1
    <3> QED BY <2>5, <3>1, <3>2
  <2>13. old = before[Operand(1)].doc /\ new = disk[Output].doc /\ Kind = kind
    BY <2>1, <2>3
  <2> QED BY <2>10, <2>11, <2>12, <2>13
<1> QED BY <1>2, <1>3, Zenon DEF SavedAsAsked

\* An edit command that exits 0 has written a document that validates, with the
\* value of the last edit of every parameter of the feel, of the typing guard and
\* of the gestures, and that of the document it read for the others; and no
\* process changes a file other than its output.
THEOREM EditsAreSaved == CommandsSpec => []SavedAsAsked
<1>1. CommandsInit => ProcKnown /\ Saving
  BY KnownInit, SavingInit
<1>2. ProcKnown /\ Saving /\ [CommandsNext]_commandVars => ProcKnown' /\ Saving'
  BY KnownNext, SavingNext
<1> QED BY <1>1, <1>2, SavingSaves, PTL DEF CommandsSpec
=============================================================================
