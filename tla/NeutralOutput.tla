--------------------------- MODULE NeutralOutput ---------------------------
(***************************************************************************)
(* What the output side promises the desktop, seen from the desktop alone: *)
(* buttons and scroll axes (Controls) may go down only while a session is  *)
(* open; once the session is failing or being cleaned up they can only     *)
(* come up; a session that is over left nothing down, and it never opens   *)
(* again.  The diagram at the head of sink.rs, without its mechanism.      *)
(***************************************************************************)
CONSTANT Controls

VARIABLES stage, down

TypeOK == stage \in {"closed", "open", "ending", "over"} /\ down \subseteq Controls

Init == stage = "closed" /\ down = {}

Open   == stage = "closed" /\ stage' = "open" /\ down' = {}
Work   == stage = "open" /\ down' \in SUBSET Controls /\ UNCHANGED stage
Fail   == stage \in {"closed", "open"} /\ stage' = "ending" /\ down' \subseteq down
Lift   == stage = "ending" /\ down' \subseteq down /\ UNCHANGED stage
Finish == stage # "over" /\ stage' = "over" /\ down' = {}

Next == Open \/ Work \/ Fail \/ Lift \/ Finish

Spec == Init /\ [][Next]_<<stage, down>>
=============================================================================
