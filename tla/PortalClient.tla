---------------------------- MODULE PortalClient ----------------------------
(***************************************************************************)
(* ZbusPortal (portal_zbus.rs): the requests of the RemoteDesktop portal.  *)
(* A request's answer is a signal on an object path that the client        *)
(* predicts from a token: it subscribes, calls, and waits until a          *)
(* deadline.  The portal answers when the user does, perhaps too late.     *)
(***************************************************************************)
EXTENDS Naturals

CONSTANT MaxTokens   \* bound: handle tokens drawn

ASSUME PortalAssumption == MaxTokens \in Nat

VARIABLES
  counter,    \* TokenGenerator
  request,    \* the round trip in progress
  inbox,      \* the answers the subscription has received
  asked,      \* the requests the portal has not answered
  alive,      \* the portal's sessions, by session token
  handle,     \* PortalOutputSink::session: the session token, 0 for none
  orphaned    \* history: sessions whose creation was given up or answered with no
              \* usable handle, or whose close failed

client == <<counter, request, inbox, handle>>
portalv == <<asked, alive>>
portalVars == <<client, portalv, orphaned>>

NoRequest == [method |-> "none", token |-> 0, stage |-> "none"]
Codes     == {"ok", "cancelled", "refused"}

PortalInit ==
  /\ counter = 0 /\ request = NoRequest /\ inbox = {} /\ asked = {} /\ alive = {}
  /\ handle = 0 /\ orphaned = {}

(* CreateSession draws a handle token and then a session token.            *)
SessionToken(token) == token + 1

(* request_with_options: the path is predicted, and subscribed first.      *)
Subscribe(method) ==
  /\ request = NoRequest /\ counter + 2 <= MaxTokens
  /\ counter' = counter + (IF method = "CreateSession" THEN 2 ELSE 1)
  /\ request' = [method |-> method, token |-> counter + 1, stage |-> "subscribed"]
  /\ inbox' = {} /\ UNCHANGED <<handle, portalv, orphaned>>

(* The portal has the call; it may answer before the call returns.         *)
CallArrives ==
  /\ request.stage = "subscribed"
  /\ request' = [request EXCEPT !.stage = "called"]
  /\ asked' = asked \cup {[method |-> request.method, token |-> request.token]}
  /\ UNCHANGED <<counter, inbox, handle, alive, orphaned>>

CallReturns ==
  /\ request.stage = "called" /\ request' = [request EXCEPT !.stage = "waiting"]
  /\ UNCHANGED <<counter, inbox, handle, portalv, orphaned>>

(* The bus or the portal refuses the call; dropping the iterator drops the *)
(* subscription.                                                           *)
CallFails ==
  /\ request.stage = "subscribed" /\ request' = NoRequest /\ inbox' = {}
  /\ UNCHANGED <<counter, handle, portalv, orphaned>>

(* Mutant: the subscription is made when the call has returned.            *)
ListeningLate(token) == request.token = token /\ request.stage = "waiting"

(* The portal's answer reaches a live subscription on its path or nobody.  *)
Listening(token) == request.token = token /\ request.stage # "none"

Answers(r, code) ==
  /\ r \in asked /\ asked' = asked \ {r}
  /\ alive' = IF r.method = "CreateSession" /\ code = "ok"
              THEN alive \cup {SessionToken(r.token)} ELSE alive
  /\ inbox' = IF Listening(r.token)
              THEN inbox \cup {[token |-> r.token, code |-> code]} ELSE inbox
  /\ UNCHANGED <<counter, request, handle, orphaned>>

(* wait_response takes the first answer; interpret_response: 0 and nothing *)
(* else is success.                                                        *)
TakeAnswer(code) ==
  /\ request.stage = "waiting" /\ request' = NoRequest /\ inbox' = {}
  /\ \E a \in inbox :
       /\ a.code = code /\ handle' = IF request.method = "CreateSession" /\ code = "ok"
                    THEN SessionToken(a.token) ELSE handle
  /\ UNCHANGED <<counter, portalv, orphaned>>

(* decode_create_session_response refuses the handle in a success: the     *)
(* session is the portal's, and the client cannot name it.                 *)
Undecoded ==
  /\ request.stage = "waiting" /\ request.method = "CreateSession"
  /\ \E a \in inbox : a.code = "ok"
  /\ request' = NoRequest /\ inbox' = {}
  /\ orphaned' = orphaned \cup {SessionToken(request.token)}
  /\ UNCHANGED <<counter, handle, portalv>>

(* Mutant: no deadline.                                                    *)
GivesUpNever == FALSE /\ UNCHANGED portalVars

(* The deadline: of an answer that arrives with it, nothing remains.       *)
GivesUp ==
  /\ request.stage = "waiting" /\ request' = NoRequest /\ inbox' = {}
  /\ orphaned' = IF request.method = "CreateSession"
                 THEN orphaned \cup {SessionToken(request.token)} ELSE orphaned
  /\ UNCHANGED <<counter, handle, portalv>>

(* Session.Close, after the sink has taken its handle.                     *)
CloseSession(ok) ==
  /\ handle # 0 /\ handle' = 0
  /\ alive' = IF ok THEN alive \ {handle} ELSE alive
  /\ orphaned' = IF ok THEN orphaned ELSE orphaned \cup {handle}
  /\ UNCHANGED <<counter, request, inbox, asked>>

-----------------------------------------------------------------------------
(* An answer the client takes is the answer to the request it waits for,   *)
(* never to an earlier one that it gave up; and an answer that is given in *)
(* time is there to be taken: a request the portal has answered is in the  *)
(* inbox of a client that still waits for it.                              *)
AnswersMatch ==
  request.stage \in {"called", "waiting"} =>
    /\ \A a \in inbox : a.token = request.token
    /\ [method |-> request.method, token |-> request.token] \notin asked => inbox # {}

(* The portal keeps no session the client does not know of, but for one    *)
(* whose creation it gave up or whose handle it could not decode, and one  *)
(* whose close failed.                                                     *)
SessionsKnown == alive \subseteq {handle} \cup orphaned
  \cup (IF request.method = "CreateSession" THEN {SessionToken(request.token)} ELSE {})
=============================================================================
