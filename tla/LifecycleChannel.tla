-------------------------- MODULE LifecycleChannel --------------------------
(***************************************************************************)
(* What the transport promises its caller (transport.rs, trait Transport): *)
(* the server's events reach the caller in the order the server sent them, *)
(* each once, events of no meaning to the caller left out; a disconnect is *)
(* terminal; closing the transport drops what has not been told.           *)
(***************************************************************************)
EXTENDS Naturals, Sequences, SequencesExt, FiniteSets

CONSTANTS
  Event,           \* what a server may send
  Observable(_),   \* the events a caller is told of
  Final(_)         \* the disconnect

VARIABLES
  sent,    \* everything the server has sent
  told,    \* everything the caller has been told
  open     \* the transport still has a connection to listen to

(* How many of the first n events sent are events to tell.                 *)
Visible(n) == Cardinality({i \in 1..n : Observable(sent[i])})

Init == sent = <<>> /\ told = <<>> /\ open = FALSE

Connect == ~open /\ told = <<>> /\ open' = TRUE /\ UNCHANGED <<sent, told>>

Send == open /\ (\E e \in Event : sent' = Append(sent, e)) /\ UNCHANGED <<told, open>>

(* The next event the caller has not been told, and no other.              *)
Tell ==
  /\ open /\ ~(told # <<>> /\ Final(Last(told)))
  /\ \E n \in 1..Len(sent) :
       /\ Observable(sent[n]) /\ Visible(n - 1) = Len(told)
       /\ told' = Append(told, sent[n])
  /\ UNCHANGED <<sent, open>>

Close == open' = FALSE /\ UNCHANGED <<sent, told>>

Next == Connect \/ Send \/ Tell \/ Close

Spec == Init /\ [][Next]_<<sent, told, open>>
=============================================================================
