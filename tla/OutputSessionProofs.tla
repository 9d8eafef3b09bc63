------------------------ MODULE OutputSessionProofs ------------------------
(***************************************************************************)
(* Proofs about the output path, for every set of scroll axes and every    *)
(* choice of the calls that may fail: the three ledgers and the desktop    *)
(* agree when nothing is in flight, an acknowledged release leaves nothing *)
(* down, and the whole path implements NeutralOutput.                      *)
(*                                                                         *)
(* What the runs check speaks of the moments between two calls.  The       *)
(* inductive invariant also says what holds in the middle of one: what a   *)
(* decision in flight will still do to the adapter's ledger (DecisionLeft),*)
(* that the frame on the wire is the one that was validated against the    *)
(* sink's ledger (FrameValid), and that the desktop is ahead of the sink's *)
(* ledger by exactly that frame (Match).                                   *)
(***************************************************************************)
EXTENDS OutputSession, TLAPS

Closed     == {"Disconnected", "Authorizing", "Ready"}
Submitting == {"submit", "send", "settle"}
Releases   == {e \in Events : e.kind \in {"up", "end"}}
Ups        == {<<e>> : e \in Releases}

\* What the sink believes to be down, on the wire and in the adapter's terms.
Helds == [buttons : SUBSET Buttons, open : BOOLEAN, axes : SUBSET Axes]
Books(h)  == h.buttons \cup h.axes
Ledger(h) == (h.buttons \cap Tracked)
               \cup (IF h.open THEN {"scroll"} ELSE {})

\* A scroll is begun only when the ledger has none open.
Opens(ledger, e) == e.kind = "begin" => "scroll" \notin ledger

\* The rest of a decision takes the adapter's ledger to the arbiter's.
DecisionLeft ==
  \/ todo = <<>> /\ believed = delivered
  \/ \E e \in Events :
       /\ todo = << <<e>> >>
       /\ Opens(delivered, e) /\ believed = Acked(delivered, e)
  \/ \E e, f \in Events :
       /\ todo = << <<e>>, <<f>> >>
       /\ Opens(delivered, e) /\ Opens(Acked(delivered, e), f)
       /\ believed = Acked(Acked(delivered, e), f)
  \/ \E e, f \in Events :
       /\ todo = << <<e, f>> >> /\ IsPair(<<e, f>>)
       /\ believed = Acked(Acked(delivered, e), f)

\* The unit in flight: one event, or an ownership edge with its motion.
UnitOK(es) ==
  \/ \E e \in Events : es = <<e>> /\ Opens(delivered, e)
  \/ \E e, f \in Events : es = <<e, f>> /\ IsPair(<<e, f>>)

FrameValid == \A i \in DOMAIN Head(todo) : Valid(Head(todo)[i])

\* Which call is being made for whom, in which state of the session.
CallInv ==
  /\ pc = "authorize" => st = "Authorizing"
  /\ pc \in {"connect", "shake"} => st = "Ready"
  /\ pc \in {"authorize", "connect", "shake"} => job = "prepare"
  /\ pc \in {"send", "settle"} => st = "Emulating"
  /\ pc \in Submitting => todo # <<>> /\ job \in {"decision", "ups"}
  /\ pc \notin Submitting => todo = <<>>
  /\ job = "ups" => pc \in Submitting \cup {"release", "drain", "close"}
  /\ job = "decision" => pc \in Submitting \cup {"idle"} /\ ~faulted
  /\ job = "none" => pc \in {"idle", "dropped"}
  /\ job \in {"prepare", "drop"} => pc # "idle"
  /\ pc \in {"drain", "close"} <=> st = "Stopping"
  /\ pc = "dropped" => st \in {"Disconnected", "Stopped", "Fatal"}

\* What a state of the session says of the device and the connection.
SessionInv ==
  /\ st \in Closed => /\ held = Neutral /\ delivered = {} /\ desktop = {}
                      /\ server = "none" /\ news = "none" /\ ~blind
  /\ st \in {"Disconnected", "Stopped"} => ~connected
  /\ pc = "shake" => connected
  /\ st = "Emulating" => device
  /\ device => st \in {"Emulating", "Stopping"} /\ pc # "close"
  /\ server = "up" => connected /\ resumed /\ news = "none"
  /\ desktop # {} => connected
  /\ pc = "close" /\ ~cleanupFailed => ~connected

\* The ledgers agree, up to what is in flight.
LedgerInv ==
  /\ ~held.open => held.axes = {}
  /\ st \in {"Emulating", "Interrupted"} => delivered = Ledger(held)
  /\ job \in {"none", "prepare", "drop"} => believed = delivered
  /\ job = "decision" => DecisionLeft
  /\ job = "ups" => todo \in Seq(Ups)
  /\ pc \in {"send", "settle"} => FrameValid
  /\ pc = "drain" => owed \subseteq ReleaseEvents

\* The desktop once the frame on the wire is through.
Ahead == InTurn(Moved, Books(held), Head(todo))

\* The desktop is what the sink's ledger says, unless a pump failed.
Match ==
  device /\ server = "up" /\ ~blind =>
    desktop = IF pc = "settle" THEN Ahead ELSE Books(held)

DesktopInv ==
  /\ Match
  /\ blind /\ st = "Emulating" => faulted \/ job = "ups"
  /\ NoUnmatchedRelease

OutcomeInv ==
  outcome = "ok" =>
    /\ desktop = {} /\ delivered = {} /\ believed = {} /\ ~faulted
    /\ job \notin {"decision", "ups"}

SafetyInv ==
  TypeOK /\ CallInv /\ SessionInv /\ LedgerInv /\ DesktopInv /\ OutcomeInv

-----------------------------------------------------------------------------
(* What an event does to the three ledgers.                                *)

\* Buttons go up and down, axes move, and nothing else names a control.
LEMMA EventFields ==
  ASSUME NEW e \in Events
  PROVE  /\ e = [kind |-> e.kind, on |-> e.on]
         /\ e.kind \in {"move", "begin", "end", "down", "up", "delta"}
         /\ e.kind \in {"down", "up"} => e.on \subseteq Buttons
         /\ e.kind = "delta" => e.on \subseteq Axes
         /\ e.kind \in {"move", "begin", "end"} => e.on = {}
  BY DEF Events, Event

\* The adapter's acknowledgement of an event is what the sink records of it.
LEMMA AckedIsRecorded ==
  ASSUME NEW h \in Helds, NEW e \in Events
  PROVE  /\ Recorded(h, e) \in Helds
         /\ Ledger(Recorded(h, e)) = Acked(Ledger(h), e)
<1> USE OutputAssumption, EventFields DEF Helds, Ledger, Buttons, Tracked
<1>1. CASE e.kind = "down"  BY <1>1 DEF Recorded, Acked
<1>2. CASE e.kind = "up"  BY <1>2 DEF Recorded, Acked
<1>3. CASE e.kind = "begin"  BY <1>3 DEF Recorded, Acked
<1>4. CASE e.kind = "delta"  BY <1>4 DEF Recorded, Acked
<1>5. CASE e.kind = "end"  BY <1>5 DEF Recorded, Acked
<1>6. CASE e.kind = "move"  BY <1>6 DEF Recorded, Acked
<1> QED  BY <1>1, <1>2, <1>3, <1>4, <1>5, <1>6

\* An acknowledged ledger is a ledger.
LEMMA AckedType ==
  ASSUME NEW l \in Ledgers, NEW e \in Events
  PROVE  Acked(l, e) \in Ledgers
BY EventFields DEF Acked, Ledgers, Tracked, Buttons

\* A unit of one event, and of two.
LEMMA AckedUnit ==
  ASSUME NEW l, NEW e, NEW f
  PROVE  /\ AckedAll(l, <<e>>) = Acked(l, e)
         /\ AckedAll(l, <<e, f>>) = Acked(Acked(l, e), f)
<1>1. AckedAll(l, <<e>>) = Acked(l, e)
  BY DEF AckedAll, InTurn
<1>2. AckedAll(l, <<e, f>>) = Acked(Acked(l, e), f)
  BY DEF AckedAll, InTurn
<1> QED  BY <1>1, <1>2

\* What a valid event does to a desktop that is as the sink's ledger says is
\* what the sink will record of it.
LEMMA MovedIsRecorded ==
  ASSUME held \in Helds, ~held.open => held.axes = {},
         NEW e \in Events, Valid(e), e.kind = "begin" => ~held.open
  PROVE  /\ Moved(Books(held), e) = Books(Recorded(held, e))
         /\ ~Recorded(held, e).open => Recorded(held, e).axes = {}
         /\ Lifted(e) \subseteq Books(held)
<1> USE OutputAssumption, EventFields
    DEF Helds, Books, Buttons, Moved, Pressed, Lifted, Recorded, Valid
<1>1. CASE e.kind = "down"  BY <1>1
<1>2. CASE e.kind = "up"  BY <1>2
<1>3. CASE e.kind = "begin"  BY <1>3
<1>4. CASE e.kind = "delta"  BY <1>4
<1>5. CASE e.kind = "end"  BY <1>5
<1>6. CASE e.kind = "move"  BY <1>6
<1> QED  BY <1>1, <1>2, <1>3, <1>4, <1>5, <1>6

\* The same of a whole unit.
LEMMA UnitIsRecorded ==
  ASSUME held \in Helds, ~held.open => held.axes = {}, delivered = Ledger(held),
         NEW es, UnitOK(es), \A i \in DOMAIN es : Valid(es[i])
  PROVE  /\ HeldAfter(es) \in Helds
         /\ Ledger(HeldAfter(es)) = AckedAll(delivered, es)
         /\ InTurn(Moved, Books(held), es) = Books(HeldAfter(es))
         /\ ~HeldAfter(es).open => HeldAfter(es).axes = {}
         /\ \A i \in DOMAIN es : Lifted(es[i]) \subseteq Books(held)
<1>1. CASE \E e \in Events : es = <<e>> /\ Opens(delivered, e)
  <2>1. PICK e \in Events : es = <<e>> /\ Opens(delivered, e)
    BY <1>1
  <2>2. Valid(e) /\ (e.kind = "begin" => ~held.open)
    BY <2>1 DEF Opens, Ledger
  <2>3. /\ HeldAfter(es) = Recorded(held, e)
        /\ AckedAll(delivered, es) = Acked(delivered, e)
        /\ InTurn(Moved, Books(held), es) = Moved(Books(held), e)
    BY <2>1 DEF HeldAfter, AckedAll, InTurn
  <2>4. \A i \in DOMAIN es : es[i] = e
    BY <2>1
  <2>5. HeldAfter(es) \in Helds /\ Ledger(HeldAfter(es)) = AckedAll(delivered, es)
    BY <2>3, AckedIsRecorded
  <2> QED
    BY <2>2, <2>3, <2>4, <2>5, MovedIsRecorded
<1>2. CASE \E e, f \in Events : es = <<e, f>> /\ IsPair(<<e, f>>)
  <2>1. PICK e \in Events, f \in Events : es = <<e, f>> /\ IsPair(<<e, f>>)
    BY <1>2
  <2>0. DOMAIN es = {1, 2} /\ es[1] = e /\ es[2] = f
    BY <2>1
  <2>2. /\ Valid(e) /\ Valid(f)
        /\ \/ e.kind = "down" /\ f.kind = "move"
           \/ e.kind = "move" /\ f.kind = "up"
    BY <2>1, <2>0 DEF IsPair
  <2>3. /\ HeldAfter(es) = Recorded(Recorded(held, e), f)
        /\ AckedAll(delivered, es) = Acked(Acked(delivered, e), f)
        /\ InTurn(Moved, Books(held), es) = Moved(Moved(Books(held), e), f)
    BY <2>1 DEF HeldAfter, AckedAll, InTurn
  <2>4. CASE f.kind = "move"
    <3>1. /\ Moved(Books(held), e) = Books(Recorded(held, e))
          /\ ~Recorded(held, e).open => Recorded(held, e).axes = {}
          /\ Lifted(e) \subseteq Books(held)
      BY <2>2, <2>4, MovedIsRecorded
    <3>2. \A h, d : Recorded(h, f) = h /\ Moved(d, f) = d /\ Lifted(f) = {}
      BY <2>4 DEF Recorded, Moved, Pressed, Lifted
    <3>3. /\ HeldAfter(es) \in Helds
          /\ Ledger(HeldAfter(es)) = AckedAll(delivered, es)
      BY <2>3, AckedIsRecorded
    <3> QED
      BY <2>0, <2>3, <3>1, <3>2, <3>3
  <2>5. CASE e.kind = "move"
    <3>1. /\ Moved(Books(held), f) = Books(Recorded(held, f))
          /\ ~Recorded(held, f).open => Recorded(held, f).axes = {}
          /\ Lifted(f) \subseteq Books(held)
      BY <2>2, <2>5, MovedIsRecorded
    <3>2. \A h, d : Recorded(h, e) = h /\ Moved(d, e) = d /\ Lifted(e) = {}
      BY <2>5 DEF Recorded, Moved, Pressed, Lifted
    <3>3. /\ HeldAfter(es) \in Helds
          /\ Ledger(HeldAfter(es)) = AckedAll(delivered, es)
      BY <2>3, AckedIsRecorded
    <3> QED
      BY <2>0, <2>3, <3>1, <3>2, <3>3
  <2> QED
    BY <2>2, <2>4, <2>5
<1> QED  BY <1>1, <1>2 DEF UnitOK
-----------------------------------------------------------------------------
(* Decisions, their wire frames, and what is left of them.                 *)

\* What an event may be counted on to keep in range.
LEMMA UnitTypes ==
  ASSUME held \in Helds, desktop \subseteq Controls, delivered \in Ledgers,
         NEW es, UnitOK(es)
  PROVE  /\ HeldAfter(es) \in Helds
         /\ AckedAll(delivered, es) \in Ledgers
         /\ InTurn(Moved, desktop, es) \subseteq Controls
<1>1. \A e \in Events, d \in SUBSET Controls : Moved(d, e) \in SUBSET Controls
  BY EventFields DEF Moved, Pressed, Controls
<1>2. CASE \E e \in Events : es = <<e>> /\ Opens(delivered, e)
  <2>1. PICK e \in Events : es = <<e>>
    BY <1>2
  <2>2. /\ HeldAfter(es) = Recorded(held, e)
        /\ AckedAll(delivered, es) = Acked(delivered, e)
        /\ InTurn(Moved, desktop, es) = Moved(desktop, e)
    BY <2>1 DEF HeldAfter, AckedAll, InTurn
  <2> QED  BY <1>1, <2>2, AckedIsRecorded, AckedType
<1>3. CASE \E e, f \in Events : es = <<e, f>> /\ IsPair(<<e, f>>)
  <2>1. PICK e \in Events, f \in Events : es = <<e, f>>
    BY <1>3
  <2>2. /\ HeldAfter(es) = Recorded(Recorded(held, e), f)
        /\ AckedAll(delivered, es) = Acked(Acked(delivered, e), f)
        /\ InTurn(Moved, desktop, es) = Moved(Moved(desktop, e), f)
    BY <2>1 DEF HeldAfter, AckedAll, InTurn
  <2> QED  BY <1>1, <2>2, AckedIsRecorded, AckedType
<1> QED  BY <1>2, <1>3 DEF UnitOK

\* The wire frames of a decision take the ledger where the decision does.
LEMMA FramesOfDecision ==
  ASSUME believed \in Ledgers, believed = delivered,
         NEW d \in Decisions(believed), NEW frames \in WireFrames(d),
         todo' = frames, believed' = AckedAll(believed, d), delivered' = delivered
  PROVE  DecisionLeft' /\ todo' # <<>> /\ believed' \in Ledgers
<1>1. CASE \E e \in Events : d = <<e>> /\ Legal(believed, e)
  <2>1. PICK e \in Events : d = <<e>> /\ Legal(believed, e)
    BY <1>1
  <2>2. frames = << <<e>> >>
    BY <2>1 DEF WireFrames, IsPair, OneByOne
  <2>3. AckedAll(believed, d) = Acked(believed, e) /\ Opens(believed, e)
    BY <2>1 DEF AckedAll, InTurn, Legal, Opens
  <2> QED  BY <2>2, <2>3, AckedType DEF DecisionLeft
<1>2. CASE \E e, f \in Events : /\ d = <<e, f>>
                                /\ Opens(believed, e) /\ Opens(Acked(believed, e), f)
  <2>1. PICK e \in Events, f \in Events :
          /\ d = <<e, f>> /\ Opens(believed, e) /\ Opens(Acked(believed, e), f)
    BY <1>2
  <2>2. AckedAll(believed, d) = Acked(Acked(believed, e), f)
    BY <2>1 DEF AckedAll, InTurn
  <2>3. \/ frames = << <<e>>, <<f>> >>
        \/ frames = << <<e, f>> >> /\ IsPair(<<e, f>>)
    BY <2>1 DEF WireFrames, OneByOne
  <2>4. believed' \in Ledgers
    BY <2>2, AckedType
  <2>5. CASE frames = << <<e>>, <<f>> >>
    <3>1. /\ todo' = << <<e>>, <<f>> >>
          /\ Opens(delivered', e) /\ Opens(Acked(delivered', e), f)
          /\ believed' = Acked(Acked(delivered', e), f)
      BY <2>1, <2>2, <2>5
    <3> QED  BY <2>4, <3>1 DEF DecisionLeft
  <2>6. CASE frames = << <<e, f>> >> /\ IsPair(<<e, f>>)
    <3>1. /\ todo' = << <<e, f>> >> /\ IsPair(<<e, f>>)
          /\ believed' = Acked(Acked(delivered', e), f)
      BY <2>1, <2>2, <2>6
    <3> QED  BY <2>4, <3>1 DEF DecisionLeft
  <2> QED  BY <2>3, <2>5, <2>6
<1>3. \/ \E e \in Events : d = <<e>> /\ Legal(believed, e)
      \/ \E e, f \in Events : /\ d = <<e, f>>
                              /\ Opens(believed, e) /\ Opens(Acked(believed, e), f)
  <2> DEFINE First == {e \in Events : Legal(believed, e)}
  <2>1. CASE d \in {<<e>> : e \in First}
    BY <2>1
  <2>2. CASE d \in {c \in First \X Events : Legal(Acked(believed, c[1]), c[2])}
    <3>1. d = <<d[1], d[2]>> /\ d[1] \in First /\ d[2] \in Events
      BY <2>2
    <3>2. Opens(believed, d[1]) /\ Opens(Acked(believed, d[1]), d[2])
      BY <2>2, <3>1 DEF Legal, Opens
    <3> QED  BY <3>1, <3>2
  <2>3. CASE d = <<Event("down", {"middle"}), Event("up", {"middle"})>>
    <3>1. /\ Event("down", {"middle"}) \in Events
          /\ Event("up", {"middle"}) \in Events
      BY DEF Events, Buttons
    <3>2. \A l : /\ Opens(l, Event("down", {"middle"}))
                 /\ Opens(l, Event("up", {"middle"}))
      BY DEF Opens, Event
    <3> QED  BY <2>3, <3>1, <3>2
  <2> QED  BY <2>1, <2>2, <2>3 DEF Decisions
<1> QED  BY <1>1, <1>2, <1>3

\* What is submitted next is one unit; a release submits releases only.
LEMMA InFlight ==
  ASSUME CallInv, LedgerInv, pc \in Submitting
  PROVE  /\ UnitOK(Head(todo))
         /\ job = "ups" => Head(todo) \in Ups /\ Tail(todo) \in Seq(Ups)
<1>1. todo # <<>> /\ job \in {"decision", "ups"}
  BY DEF CallInv
<1>2. CASE job = "ups"
  <2>1. Head(todo) \in Ups /\ Tail(todo) \in Seq(Ups)
    BY <1>1, <1>2 DEF LedgerInv
  <2>2. UnitOK(Head(todo))
    BY <2>1 DEF UnitOK, Ups, Releases, Opens
  <2> QED  BY <2>1, <2>2
<1>3. CASE job = "decision"
  <2>1. DecisionLeft
    BY <1>3 DEF LedgerInv
  <2>2. \/ \E e \in Events : todo = << <<e>> >> /\ Opens(delivered, e)
        \/ \E e, f \in Events : todo = << <<e>>, <<f>> >> /\ Opens(delivered, e)
        \/ \E e, f \in Events : todo = << <<e, f>> >> /\ IsPair(<<e, f>>)
    BY <1>1, <2>1 DEF DecisionLeft
  <2>3. \/ \E e \in Events : Head(todo) = <<e>> /\ Opens(delivered, e)
        \/ \E e, f \in Events : Head(todo) = <<e, f>> /\ IsPair(<<e, f>>)
    BY <2>2
  <2> QED  BY <1>3, <2>3 DEF UnitOK
<1> QED  BY <1>1, <1>2, <1>3

\* A unit that is acknowledged leaves the rest of its decision.
LEMMA DecisionAdvances ==
  ASSUME DecisionLeft, todo # <<>>, todo' = Tail(todo), believed' = believed,
         delivered' = AckedAll(delivered, Head(todo))
  PROVE  DecisionLeft'
<1>1. CASE \E e \in Events :
             todo = << <<e>> >> /\ believed = Acked(delivered, e)
  <2>1. PICK e \in Events : todo = << <<e>> >> /\ believed = Acked(delivered, e)
    BY <1>1
  <2>2. Head(todo) = <<e>> /\ Tail(todo) = <<>>
    BY <2>1
  <2>3. AckedAll(delivered, Head(todo)) = Acked(delivered, e)
    BY <2>2, AckedUnit
  <2> QED  BY <2>1, <2>2, <2>3 DEF DecisionLeft
<1>2. CASE \E e, f \in Events :
             /\ todo = << <<e>>, <<f>> >>
             /\ Opens(Acked(delivered, e), f)
             /\ believed = Acked(Acked(delivered, e), f)
  <2>1. PICK e \in Events, f \in Events :
          /\ todo = << <<e>>, <<f>> >>
          /\ Opens(Acked(delivered, e), f)
          /\ believed = Acked(Acked(delivered, e), f)
    BY <1>2
  <2>2. Head(todo) = <<e>> /\ Tail(todo) = << <<f>> >>
    BY <2>1
  <2>3. AckedAll(delivered, Head(todo)) = Acked(delivered, e)
    BY <2>2, AckedUnit
  <2> QED  BY <2>1, <2>2, <2>3 DEF DecisionLeft
<1>3. CASE \E e, f \in Events :
             /\ todo = << <<e, f>> >>
             /\ believed = Acked(Acked(delivered, e), f)
  <2>1. PICK e \in Events, f \in Events :
          todo = << <<e, f>> >> /\ believed = Acked(Acked(delivered, e), f)
    BY <1>3
  <2>2. Head(todo) = <<e, f>> /\ Tail(todo) = <<>>
    BY <2>1
  <2>0. AckedAll(delivered, <<e, f>>) = Acked(Acked(delivered, e), f)
    BY DEF AckedAll, InTurn
  <2>3. AckedAll(delivered, Head(todo)) = Acked(Acked(delivered, e), f)
    BY <2>2, <2>0
  <2> QED  BY <2>1, <2>2, <2>3 DEF DecisionLeft
<1> QED  BY <1>1, <1>2, <1>3 DEF DecisionLeft
-----------------------------------------------------------------------------
(* Every step keeps the types.                                             *)

\* An explicit release is a unit of one release; so is what is left of them.
LEMMA ReleaseUnits ==
  ASSUME TypeOK
  PROVE  ReleaseEvents \subseteq Releases /\ ExplicitUps \in Seq(Ups)
<1>1. ReleaseEvents \subseteq Releases
  BY DEF TypeOK, Helds, ReleaseEvents, Releases, Events, Event
<1>2. /\ Event("up", {"left"}) \in Releases
      /\ Event("up", {"right"}) \in Releases
      /\ Event("end", {}) \in Releases
  BY DEF Releases, Events, Event, Buttons
<1>3. ASSUME NEW c, NEW e \in Releases
      PROVE  OwedUp(c, e) \in Seq(Ups)
  <2>1. <<e>> \in Ups
    BY DEF Ups
  <2>2. \A u \in Ups : <<u>> \in Seq(Ups)
    OBVIOUS
  <2> QED  BY <2>1, <2>2 DEF OwedUp
<1>4. ExplicitUps \in Seq(Ups)
  BY <1>2, <1>3 DEF ExplicitUps
<1> QED  BY <1>1, <1>4

\* Every step keeps the variables in their types.
LEMMA TypeStep ==
  ASSUME TypeOK, CallInv, LedgerInv, [Next]_vars
  PROVE  TypeOK'
<1> USE DEF TypeOK, SessionStates, sinkv, wire, adapter, call, result
<1>1. CASE CreateSession
  BY <1>1
     DEF CreateSession, Enter
<1>2. CASE Authorize
  BY <1>2
     DEF Authorize, PrepareFails, Enter
<1>3. CASE ConnectToEis
  BY <1>3
     DEF ConnectToEis, PrepareFails, Enter
<1>4. CASE Handshake
  BY <1>4
     DEF Handshake, PrepareFails, Enter
<1>5. ASSUME NEW d \in Decisions(believed), Decide(d)
      PROVE  TypeOK'
  <2>1. believed' \in Ledgers
    <3>1. PICK frames \in WireFrames(d) : todo' = frames
      BY <1>5 DEF Decide
    <3>2. pc = "idle" /\ todo = <<>> /\ job \in {"none", "decision"}
      BY <1>5 DEF Decide, CallInv, Submitting
    <3>3. believed = delivered
      BY <3>2 DEF LedgerInv, DecisionLeft
    <3> QED  BY <1>5, <3>1, <3>3, FramesOfDecision DEF Decide
  <2> QED
    BY <1>5, <2>1 DEF Decide
<1>6. CASE Submit
  BY <1>6
     DEF Submit, UnitFails, AfterUnit, AcceptedOnFailure, Reconcile,
         PumpQuiet, PumpInterrupts, PumpErrs, PumpStutters
<1>7. CASE Send
  <2>1. UnitOK(Head(todo))
    BY <1>7, InFlight DEF Send, Submitting
  <2>2. InTurn(Moved, desktop, Head(todo)) \subseteq Controls
    BY <2>1, UnitTypes DEF Helds
  <2> QED
    BY <1>7, <2>2 DEF Send, UnitFails, AfterUnit, AcceptedOnFailure, Reconcile, Commit
<1>8. CASE Settle
  <2>1. UnitOK(Head(todo))
    BY <1>8, InFlight DEF Settle, Submitting
  <2>2. /\ HeldAfter(Head(todo)) \in Helds
        /\ AckedAll(delivered, Head(todo)) \in Ledgers
    BY <2>1, UnitTypes DEF Helds
  <2> QED
    BY <1>8, <2>2
       DEF Settle, Helds, UnitFails, AfterUnit, AcceptedOnFailure, Reconcile,
           PumpQuiet, PumpInterrupts, PumpErrs, PumpStutters
<1>9. CASE ReleaseAll
  BY <1>9
     DEF ReleaseAll
<1>10. CASE DropSink
  BY <1>10
     DEF DropSink, Enter
<1>11. CASE SkipRelease
  BY <1>11 DEF SkipRelease, Return, StillOwed, Reconcile, Enter, Ledgers
<1>12. CASE StartRelease
  <2>1. ReleaseEvents \subseteq Events
    BY ReleaseUnits DEF Releases
  <2> QED
    BY <1>12, <2>1 DEF StartRelease
<1>13. ASSUME NEW e \in owed, SendRelease(e)
      PROVE  TypeOK'
  <2>1. e \in Events
    BY <1>13
  <2>2. held \in Helds /\ Recorded(held, e) \in Helds
    BY <2>1, AckedIsRecorded DEF Helds
  <2>3. InTurn(Moved, desktop, <<e>>) \subseteq Controls
    <3>1. UnitOK(<<e>>) \/ e.kind = "begin"
      BY <2>1 DEF UnitOK, Opens
    <3>2. InTurn(Moved, desktop, <<e>>) = Moved(desktop, e)
      BY DEF InTurn
    <3> QED  BY <2>1, <3>2, EventFields DEF Moved, Pressed, Controls
  <2> QED
    BY <1>13, <2>2, <2>3 DEF SendRelease, Commit, Helds
<1>14. CASE Disconnect
  BY <1>14
     DEF Disconnect
<1>15. CASE CloseSession
  <2>1. Neutral \in [buttons : SUBSET Buttons, open : BOOLEAN, axes : SUBSET Axes]
    BY DEF Neutral
  <2>2. EndState \in SessionStates
    BY DEF EndState
  <2> QED
    BY <1>15, <2>1, <2>2
       DEF CloseSession, Return, StillOwed, Reconcile, Enter, Ledgers
<1>16. ASSUME NEW n \in {"paused", "removed", "gone"}, ServerActs(n)
      PROVE  TypeOK'
  BY <1>16
     DEF ServerActs
<1>17. CASE UNCHANGED vars
  BY <1>17
     DEF vars
<1> QED
  BY <1>1, <1>2, <1>3, <1>4, <1>5, <1>6, <1>7, <1>8, <1>9,
     <1>10, <1>11, <1>12, <1>13, <1>14, <1>15, <1>16, <1>17 DEF Next, Dropped

-----------------------------------------------------------------------------
(* Every step keeps the parts of the invariant.                            *)

\* A unit that fails ends its decision, or is skipped by the release it is of.
LEMMA AfterFailure ==
  ASSUME CallInv, pc \in Submitting, UnitFails
  PROVE  /\ UNCHANGED <<owed, cleanupFailed, outcome, delivered>>
         /\ \/ /\ job = "decision" /\ job' = "none" /\ pc' = "idle" /\ todo' = <<>>
               /\ believed' = delivered /\ faulted'
            \/ /\ job = "ups" /\ job' = "ups" /\ todo' = Tail(todo)
               /\ pc' = (IF Tail(todo) # <<>> THEN "submit" ELSE "release")
               /\ UNCHANGED <<believed, faulted>>
BY DEF CallInv, Submitting, UnitFails, AfterUnit, AcceptedOnFailure, Reconcile, adapter, result

\* The calls keep to the order the callers make them in.
LEMMA CallStep ==
  ASSUME TypeOK, CallInv, SessionInv, [Next]_vars
  PROVE  CallInv'
<1> USE DEF CallInv, Submitting, sinkv, wire, adapter, call, result
<1>1. CASE CreateSession
  BY <1>1
     DEF CreateSession, Enter
<1>2. CASE Authorize
  BY <1>2
     DEF Authorize, PrepareFails, Enter
<1>3. CASE ConnectToEis
  BY <1>3
     DEF ConnectToEis, PrepareFails, Enter
<1>4. CASE Handshake
  BY <1>4
     DEF Handshake, PrepareFails, Enter
<1>5. ASSUME NEW d \in Decisions(believed), Decide(d)
      PROVE  CallInv'
  <2>1. todo' # <<>>
    <3>1. \A frames \in WireFrames(d) : frames # <<>>
      BY DEF WireFrames, OneByOne
    <3> QED  BY <1>5, <3>1 DEF Decide
  <2> QED
    BY <1>5, <2>1 DEF Decide, MayDecide
<1>6. CASE Submit
  <2>1. CASE UnitFails /\ UNCHANGED <<st, device, resumed, news, blind>>
    BY <1>6, <2>1, AfterFailure DEF Submit, PumpStutters
  <2>2. CASE UnitFails /\ PumpInterrupts
    BY <1>6, <2>2, AfterFailure DEF Submit, PumpInterrupts, PumpStutters
  <2>3. CASE UnitFails /\ PumpErrs
    BY <1>6, <2>3, AfterFailure DEF Submit, PumpErrs, PumpStutters
  <2>4. CASE /\ PumpQuiet /\ pc' = "send" /\ st = "Emulating"
             /\ UNCHANGED <<job, todo, owed, adapter, result>>
    BY <1>6, <2>4 DEF Submit, PumpQuiet, PumpStutters
  <2> QED  BY <1>6, <2>1, <2>2, <2>3, <2>4 DEF Submit
<1>7. CASE Send
  <2>1. CASE UnitFails
    BY <1>7, <2>1, AfterFailure DEF Send, Commit
  <2>2. CASE pc' = "settle" /\ UNCHANGED <<job, todo, owed, adapter, result>>
    BY <1>7, <2>2 DEF Send, Commit
  <2> QED  BY <1>7, <2>1, <2>2 DEF Send
<1>8. CASE Settle
  <2>1. CASE UnitFails /\ PumpInterrupts /\ UNCHANGED held
    BY <1>8, <2>1, AfterFailure DEF Settle, PumpInterrupts, PumpStutters
  <2>2. CASE UnitFails /\ PumpErrs /\ UNCHANGED held
    BY <1>8, <2>2, AfterFailure DEF Settle, PumpErrs, PumpStutters
  <2>3. CASE /\ PumpQuiet /\ AfterUnit(Tail(todo))
             /\ UNCHANGED <<believed, faulted, result>>
    BY <1>8, <2>3 DEF Settle, AfterUnit, PumpQuiet, PumpStutters
  <2> QED  BY <1>8, <2>1, <2>2, <2>3 DEF Settle
<1>9. CASE ReleaseAll
  <2>1. /\ pc' = IF todo' = <<>> THEN "release" ELSE "submit"
        /\ job' = "ups" /\ st' = st /\ st # "Stopping"
    BY <1>9 DEF ReleaseAll
  <2> QED
    BY <2>1
<1>10. CASE DropSink
  BY <1>10
     DEF DropSink, Enter
<1>11. CASE SkipRelease
  BY <1>11
     DEF SkipRelease, NothingToRelease, Clean, Return, StillOwed, Reconcile, Enter
<1>12. CASE StartRelease
  BY <1>12
     DEF StartRelease, NothingToRelease, Clean
<1>13. ASSUME NEW e \in owed, SendRelease(e)
      PROVE  CallInv'
  BY <1>13
     DEF SendRelease, Commit
<1>14. CASE Disconnect
  BY <1>14
     DEF Disconnect
<1>15. CASE CloseSession
  BY <1>15
     DEF CloseSession, EndState, Return, StillOwed, Reconcile, Enter, TypeOK
<1>16. ASSUME NEW n \in {"paused", "removed", "gone"}, ServerActs(n)
      PROVE  CallInv'
  BY <1>16
     DEF ServerActs
<1>17. CASE UNCHANGED vars
  BY <1>17
     DEF vars
<1> QED
  BY <1>1, <1>2, <1>3, <1>4, <1>5, <1>6, <1>7, <1>8, <1>9,
     <1>10, <1>11, <1>12, <1>13, <1>14, <1>15, <1>16, <1>17 DEF Next, Dropped

\* The device and the connection follow the state of the session.
LEMMA SessionStep ==
  ASSUME TypeOK, CallInv, SessionInv, LedgerInv, [Next]_vars
  PROVE  SessionInv'
<1> USE DEF SessionInv, CallInv, Submitting, Closed, sinkv, wire, adapter, call, result
<1>1. CASE CreateSession
  BY <1>1
     DEF CreateSession, Enter
<1>2. CASE Authorize
  BY <1>2
     DEF Authorize, PrepareFails, Enter
<1>3. CASE ConnectToEis
  BY <1>3
     DEF ConnectToEis, PrepareFails, Enter
<1>4. CASE Handshake
  <2>1. CASE UNCHANGED <<st, session, device, held, wire, call>>
    BY <1>4, <2>1 DEF Handshake
  <2>2. CASE /\ device' = TRUE /\ resumed' = TRUE /\ server' = "up"
             /\ st' = "Emulating" /\ Enter("idle", "none")
             /\ UNCHANGED <<session, candidate, held, portal, connected, news,
                            desktop, unmatched>>
    BY <1>4, <2>2 DEF Handshake, Enter
  <2>3. CASE PrepareFails
    BY <1>4, <2>3 DEF Handshake, PrepareFails, Enter
  <2> QED  BY <1>4, <2>1, <2>2, <2>3 DEF Handshake
<1>5. ASSUME NEW d \in Decisions(believed), Decide(d)
      PROVE  SessionInv'
  BY <1>5
     DEF Decide, MayDecide
<1>6. CASE Submit
  <2>1. CASE UnitFails /\ UNCHANGED <<st, device, resumed, news, blind>>
    BY <1>6, <2>1, AfterFailure DEF Submit, PumpStutters
  <2>2. CASE UnitFails /\ PumpInterrupts
    BY <1>6, <2>2, AfterFailure DEF Submit, PumpInterrupts, PumpStutters
  <2>3. CASE UnitFails /\ PumpErrs
    BY <1>6, <2>3, AfterFailure DEF Submit, PumpErrs, PumpStutters
  <2>4. CASE /\ PumpQuiet /\ pc' = "send" /\ st = "Emulating"
             /\ UNCHANGED <<job, todo, owed, adapter, result>>
    BY <1>6, <2>4 DEF Submit, PumpQuiet, PumpStutters
  <2> QED  BY <1>6, <2>1, <2>2, <2>3, <2>4 DEF Submit
<1>7. CASE Send
  <2>1. CASE UnitFails
    BY <1>7, <2>1, AfterFailure DEF Send, Commit
  <2>2. CASE pc' = "settle" /\ UNCHANGED <<job, todo, owed, adapter, result>>
    BY <1>7, <2>2 DEF Send, Commit
  <2> QED  BY <1>7, <2>1, <2>2 DEF Send
<1>8. CASE Settle
  <2>1. CASE UnitFails /\ PumpInterrupts /\ UNCHANGED held
    BY <1>8, <2>1, AfterFailure DEF Settle, PumpInterrupts, PumpStutters
  <2>2. CASE UnitFails /\ PumpErrs /\ UNCHANGED held
    BY <1>8, <2>2, AfterFailure DEF Settle, PumpErrs, PumpStutters
  <2>3. CASE /\ PumpQuiet /\ AfterUnit(Tail(todo))
             /\ UNCHANGED <<believed, faulted, result>>
    BY <1>8, <2>3 DEF Settle, AfterUnit, PumpQuiet, PumpStutters
  <2> QED  BY <1>8, <2>1, <2>2, <2>3 DEF Settle
<1>9. CASE ReleaseAll
  BY <1>9
     DEF ReleaseAll
<1>10. CASE DropSink
  BY <1>10
     DEF DropSink, Enter
<1>11. CASE SkipRelease
  BY <1>11
     DEF SkipRelease, NothingToRelease, Clean, Return, StillOwed, Reconcile, Enter
<1>12. CASE StartRelease
  BY <1>12
     DEF StartRelease, NothingToRelease, Clean
<1>13. ASSUME NEW e \in owed, SendRelease(e)
      PROVE  SessionInv'
  BY <1>13 DEF SendRelease, Commit
<1>14. CASE Disconnect
  BY <1>14
     DEF Disconnect
<1>15. CASE CloseSession
  BY <1>15
     DEF CloseSession, EndState, Return, StillOwed, Reconcile, Enter
<1>16. ASSUME NEW n \in {"paused", "removed", "gone"}, ServerActs(n)
      PROVE  SessionInv'
  BY <1>16
     DEF ServerActs
<1>17. CASE UNCHANGED vars
  BY <1>17
     DEF vars
<1> QED
  BY <1>1, <1>2, <1>3, <1>4, <1>5, <1>6, <1>7, <1>8, <1>9,
     <1>10, <1>11, <1>12, <1>13, <1>14, <1>15, <1>16, <1>17 DEF Next, Dropped

\* What the parts of the ledger invariant depend on.
LEMMA Kept ==
  /\ UNCHANGED <<todo, believed, delivered>> /\ DecisionLeft => DecisionLeft'
  /\ UNCHANGED <<todo, held>> /\ FrameValid => FrameValid'
  /\ UNCHANGED held => ReleaseEvents' = ReleaseEvents
<1>1. UNCHANGED <<todo, believed, delivered>> /\ DecisionLeft => DecisionLeft'
  BY DEF DecisionLeft
<1>2. UNCHANGED <<todo, held>> /\ FrameValid => FrameValid'
  BY DEF FrameValid, Valid
<1>3. UNCHANGED held => ReleaseEvents' = ReleaseEvents
  BY DEF ReleaseEvents
<1> QED  BY <1>1, <1>2, <1>3

\* Between two calls nothing is in flight: the arbiter and its adapter agree.
LEMMA AtRest ==
  ASSUME TypeOK, CallInv, LedgerInv, pc = "idle"
  PROVE  believed = delivered /\ todo = <<>> /\ job \in {"none", "decision"}
<1>1. todo = <<>> /\ job \in {"none", "decision"}
  BY DEF CallInv, TypeOK, Submitting
<1>2. CASE job = "decision"
  BY <1>1, <1>2 DEF LedgerInv, DecisionLeft
<1> QED  BY <1>1, <1>2 DEF LedgerInv

\* The ledgers go on agreeing.
LEMMA LedgerStep ==
  ASSUME TypeOK, CallInv, SessionInv, LedgerInv, [Next]_vars
  PROVE  LedgerInv'
<1> USE Kept DEF LedgerInv, CallInv, Submitting, sinkv, wire, adapter, call, result
<1>1. CASE CreateSession
  BY <1>1, AtRest
     DEF CreateSession, Enter
<1>2. CASE Authorize
  BY <1>2
     DEF Authorize, PrepareFails, Enter
<1>3. CASE ConnectToEis
  BY <1>3
     DEF ConnectToEis, PrepareFails, Enter
<1>4. CASE Handshake
  <2>1. CASE UNCHANGED <<st, session, device, held, wire, call>>
    BY <1>4, <2>1 DEF Handshake
  <2>2. CASE /\ device' = TRUE /\ resumed' = TRUE /\ server' = "up"
             /\ st' = "Emulating" /\ Enter("idle", "none")
             /\ UNCHANGED <<session, candidate, held, portal, connected, news,
                            desktop, unmatched>>
    <3>1. held = Neutral /\ delivered = {} /\ job = "prepare" /\ todo = <<>>
      BY <1>4 DEF Handshake, SessionInv, Closed
    <3>2. Ledger(held) = {} /\ held.axes = {}
      BY <3>1 DEF Neutral, Ledger
    <3> QED
      BY <1>4, <2>2, <3>1, <3>2 DEF Handshake, Enter
  <2>3. CASE PrepareFails
    BY <1>4, <2>3 DEF Handshake, PrepareFails, Enter
  <2> QED  BY <1>4, <2>1, <2>2, <2>3 DEF Handshake
<1>5. ASSUME NEW d \in Decisions(believed), Decide(d)
      PROVE  LedgerInv'
  <2>1. PICK frames \in WireFrames(d) : todo' = frames
    BY <1>5 DEF Decide
  <2>3. believed = delivered
    BY <1>5, AtRest DEF Decide
  <2>4. DecisionLeft'
    BY <1>5, <2>1, <2>3, FramesOfDecision DEF Decide, TypeOK
  <2> QED
    BY <1>5, <2>4 DEF Decide
<1>6. CASE Submit
  <2>0. job = "ups" => Tail(todo) \in Seq(Ups)
    BY <1>6, InFlight DEF Submit
  <2>1. CASE UnitFails /\ UNCHANGED <<st, device, resumed, news, blind>>
    BY <1>6, <2>0, <2>1, AfterFailure DEF Submit, PumpStutters
  <2>2. CASE UnitFails /\ PumpInterrupts
    <3>1. st = "Emulating" \/ st' = st
      BY <1>6 DEF Submit, PumpInterrupts
    <3> QED
      BY <1>6, <2>0, <2>2, AfterFailure DEF Submit, PumpInterrupts, PumpStutters
  <2>3. CASE UnitFails /\ PumpErrs
    BY <1>6, <2>0, <2>3, AfterFailure DEF Submit, PumpErrs, PumpStutters
  <2>4. CASE /\ PumpQuiet /\ pc' = "send" /\ st = "Emulating"
             /\ \A i \in DOMAIN Head(todo) : Valid(Head(todo)[i])
             /\ UNCHANGED <<job, todo, owed, adapter, result>>
    <3>1. FrameValid
      BY <2>4 DEF FrameValid
    <3> QED
      BY <1>6, <2>4, <3>1 DEF Submit, PumpQuiet, PumpStutters
  <2> QED  BY <1>6, <2>1, <2>2, <2>3, <2>4 DEF Submit
<1>7. CASE Send
  <2>0. job = "ups" => Tail(todo) \in Seq(Ups)
    BY <1>7, InFlight DEF Send
  <2>1. CASE UnitFails
    BY <1>7, <2>0, <2>1, AfterFailure DEF Send, Commit
  <2>2. CASE pc' = "settle" /\ UNCHANGED <<job, todo, owed, adapter, result>>
    BY <1>7, <2>2 DEF Send, Commit
  <2> QED  BY <1>7, <2>1, <2>2 DEF Send
<1>8. CASE Settle
  <2>0. UnitOK(Head(todo)) /\ (job = "ups" => Tail(todo) \in Seq(Ups))
    BY <1>8, InFlight DEF Settle
  <2>1. CASE UnitFails /\ PumpInterrupts /\ UNCHANGED held
    BY <1>8, <2>0, <2>1, AfterFailure DEF Settle, PumpInterrupts, PumpStutters
  <2>2. CASE UnitFails /\ PumpErrs /\ UNCHANGED held
    BY <1>8, <2>0, <2>2, AfterFailure DEF Settle, PumpErrs, PumpStutters
  <2>3. CASE /\ PumpQuiet /\ held' = HeldAfter(Head(todo))
             /\ delivered' = AckedAll(delivered, Head(todo))
             /\ AfterUnit(Tail(todo)) /\ UNCHANGED <<believed, faulted, result>>
    <3>1. delivered = Ledger(held) /\ FrameValid /\ todo # <<>> /\ st = "Emulating"
      BY <1>8 DEF Settle
    <3>2. /\ Ledger(held') = delivered'
          /\ ~held'.open => held'.axes = {}
      BY <2>0, <2>3, <3>1, UnitIsRecorded DEF TypeOK, Helds, FrameValid
    <3>3. job = "decision" => DecisionLeft'
      BY <2>3, <3>1, DecisionAdvances DEF AfterUnit
    <3> QED
      BY <1>8, <2>0, <2>3, <3>1, <3>2, <3>3 DEF Settle, AfterUnit, PumpQuiet
  <2> QED  BY <1>8, <2>1, <2>2, <2>3 DEF Settle
<1>9. CASE ReleaseAll
  BY <1>9, ReleaseUnits DEF ReleaseAll
<1>10. CASE DropSink
  BY <1>10, AtRest
     DEF DropSink, Enter
<1>11. CASE SkipRelease
  BY <1>11
     DEF SkipRelease, NothingToRelease, Clean, Return, StillOwed, Reconcile, Enter, TypeOK
<1>12. CASE StartRelease
  BY <1>12
     DEF StartRelease, NothingToRelease, Clean
<1>13. ASSUME NEW e \in owed, SendRelease(e)
      PROVE  LedgerInv'
  <2>0. e \in Events /\ e \in ReleaseEvents /\ e.kind \in {"up", "end"}
    BY <1>13, ReleaseUnits DEF SendRelease, Releases
  <2>1. CASE Commit(<<e>>) /\ held' = Recorded(held, e)
    <3>1. ~held'.open => held'.axes = {}
      BY <2>0, <2>1 DEF TypeOK, Recorded
    <3>2. owed' \subseteq ReleaseEvents'
      <4>1. CASE e.kind = "up"
        <5>1. PICK b \in held.buttons : e = Event("up", {b})
          BY <2>0, <4>1 DEF ReleaseEvents, Event
        <5>2. /\ held'.buttons = held.buttons \ {b}
              /\ held'.open = held.open /\ held'.axes = held.axes
          BY <2>1, <5>1 DEF Recorded, TypeOK, Event
        <5> QED
          BY <1>13, <5>1, <5>2 DEF SendRelease, ReleaseEvents
      <4>2. CASE e.kind = "end"
        <5>1. e = Event("end", {})
          BY <2>0, <4>2 DEF ReleaseEvents, Event
        <5>2. held'.buttons = held.buttons
          BY <2>1, <4>2 DEF Recorded, TypeOK
        <5> QED
          BY <1>13, <5>1, <5>2 DEF SendRelease, ReleaseEvents
      <4> QED  BY <2>0, <4>1, <4>2
    <3> QED
      BY <1>13, <3>1, <3>2 DEF SendRelease, Commit
  <2>2. CASE UNCHANGED <<held, wire>>
    BY <1>13, <2>2 DEF SendRelease
  <2> QED  BY <1>13, <2>1, <2>2 DEF SendRelease
<1>14. CASE Disconnect
  BY <1>14
     DEF Disconnect
<1>15. CASE CloseSession
  BY <1>15 DEF CloseSession, EndState, Return, StillOwed, Reconcile, Enter,
         Neutral, TypeOK
<1>16. ASSUME NEW n \in {"paused", "removed", "gone"}, ServerActs(n)
      PROVE  LedgerInv'
  BY <1>16
     DEF ServerActs
<1>17. CASE UNCHANGED vars
  BY <1>17
     DEF vars
<1> QED
  BY <1>1, <1>2, <1>3, <1>4, <1>5, <1>6, <1>7, <1>8, <1>9,
     <1>10, <1>11, <1>12, <1>13, <1>14, <1>15, <1>16, <1>17 DEF Next, Dropped

\* A unit with nothing for the wire presses and lifts nothing.
LEMMA SilentUnit ==
  ASSUME TypeOK, LedgerInv, UnitOK(Head(todo)),
         ~\E i \in DOMAIN Head(todo) : OnWire(Head(todo)[i])
  PROVE  Ahead = Books(held)
<1>1. PICK e \in Events : Head(todo) = <<e>>
  <2>1. ASSUME NEW e \in Events, NEW f \in Events, Head(todo) = <<e, f>>,
               IsPair(<<e, f>>)
        PROVE  FALSE
    <3>1. 1 \in DOMAIN Head(todo) /\ Head(todo)[1] = e
      BY <2>1
    <3>2. e.kind \in {"down", "move"}
      BY <2>1 DEF IsPair
    <3> QED  BY <3>1, <3>2 DEF OnWire
  <2> QED  BY <2>1 DEF UnitOK
<1>2. Ahead = Moved(Books(held), e)
  BY <1>1 DEF Ahead, InTurn
<1>3. ~OnWire(e)
  <2>1. 1 \in DOMAIN Head(todo) /\ Head(todo)[1] = e
    BY <1>1
  <2> QED  BY <2>1
<1>4. Pressed(e) = {} /\ Lifted(e) = {}
  BY <1>3, EventFields DEF OnWire, Pressed, Lifted
<1> QED  BY <1>2, <1>4 DEF Moved

\* Where the desktop is while a unit is on the wire depends on the sink's
\* ledger and on the unit.
LEMMA AheadKept ==
  UNCHANGED <<held, todo>> => Ahead' = Ahead /\ Books(held)' = Books(held)
BY DEF Ahead, InTurn, Moved, Pressed, Lifted, Books

\* The desktop goes on matching the sink's ledger.
LEMMA DesktopStep ==
  ASSUME TypeOK, CallInv, SessionInv, LedgerInv, DesktopInv, [Next]_vars
  PROVE  DesktopInv'
<1> USE AheadKept DEF DesktopInv, Match, NoUnmatchedRelease, CallInv, Submitting,
         sinkv, wire, adapter, call, result
<1>1. CASE CreateSession
  BY <1>1
     DEF CreateSession, Enter
<1>2. CASE Authorize
  BY <1>2
     DEF Authorize, PrepareFails, Enter
<1>3. CASE ConnectToEis
  BY <1>3
     DEF ConnectToEis, PrepareFails, Enter
<1>4. CASE Handshake
  <2>1. CASE UNCHANGED <<st, session, device, held, wire, call>>
    BY <1>4, <2>1 DEF Handshake
  <2>2. CASE /\ device' = TRUE /\ resumed' = TRUE /\ server' = "up"
             /\ st' = "Emulating" /\ Enter("idle", "none")
             /\ UNCHANGED <<session, candidate, held, portal, connected, news,
                            desktop, unmatched>>
    <3>1. held = Neutral /\ desktop = {} /\ ~blind
      BY <1>4 DEF Handshake, SessionInv, Closed
    <3>2. Books(held) = {}
      BY <3>1 DEF Neutral, Books
    <3> QED
      BY <1>4, <2>2, <3>1, <3>2 DEF Handshake, Enter
  <2>3. CASE PrepareFails
    BY <1>4, <2>3 DEF Handshake, PrepareFails, Enter
  <2> QED  BY <1>4, <2>1, <2>2, <2>3 DEF Handshake
<1>5. ASSUME NEW d \in Decisions(believed), Decide(d)
      PROVE  DesktopInv'
  BY <1>5
     DEF Decide, MayDecide
<1>6. CASE Submit
  <2>1. CASE UnitFails /\ UNCHANGED <<st, device, resumed, news, blind>>
    BY <1>6, <2>1, AfterFailure DEF Submit, PumpStutters
  <2>2. CASE UnitFails /\ PumpInterrupts
    BY <1>6, <2>2, AfterFailure DEF Submit, PumpInterrupts, PumpStutters
  <2>3. CASE UnitFails /\ PumpErrs
    BY <1>6, <2>3, AfterFailure DEF Submit, PumpErrs, PumpStutters
  <2>4. CASE /\ PumpQuiet /\ pc' = "send" /\ st = "Emulating"
             /\ UNCHANGED <<job, todo, owed, adapter, result>>
    BY <1>6, <2>4 DEF Submit, PumpQuiet, PumpStutters
  <2> QED  BY <1>6, <2>1, <2>2, <2>3, <2>4 DEF Submit
<1>7. CASE Send
  <2>0. UnitOK(Head(todo)) /\ FrameValid /\ st = "Emulating" /\ device
    BY <1>7, InFlight DEF Send, LedgerInv, SessionInv
  <2>1. delivered = Ledger(held) /\ (~held.open => held.axes = {})
    BY <2>0 DEF LedgerInv
  <2>2. \A i \in DOMAIN Head(todo) : Lifted(Head(todo)[i]) \subseteq Books(held)
    BY <2>0, <2>1, UnitIsRecorded DEF TypeOK, Helds, FrameValid
  <2>3. CASE UnitFails /\ UNCHANGED wire
    BY <1>7, <2>3, AfterFailure DEF Send
  <2>4. CASE pc' = "settle" /\ Commit(Head(todo)) /\ UNCHANGED <<job, todo, adapter>>
    <3>1. server = "up" /\ ~blind => desktop = Books(held)
      BY <1>7, <2>0 DEF Send
    <3>2. server = "up" /\ ~blind => desktop' = Ahead
      BY <2>4, <3>1 DEF Commit, Ahead
    <3>3. unmatched' => unmatched \/ blind
      <4>1. CASE blind
        BY <4>1
      <4>2. CASE ~blind
        BY <2>2, <2>4, <3>1, <4>2 DEF Commit
      <4> QED  BY <4>1, <4>2
    <3> QED
      BY <1>7, <2>4, <3>2, <3>3 DEF Send, Commit
  <2>5. CASE /\ ~\E i \in DOMAIN Head(todo) : OnWire(Head(todo)[i])
             /\ pc' = "settle" /\ UNCHANGED <<wire, job, todo, adapter>>
    <3>1. Ahead = Books(held)
      BY <2>0, <2>5, SilentUnit
    <3> QED
      BY <1>7, <2>5, <3>1 DEF Send
  <2> QED  BY <1>7, <2>3, <2>4, <2>5 DEF Send
<1>8. CASE Settle
  <2>1. CASE UnitFails /\ PumpInterrupts /\ UNCHANGED held
    BY <1>8, <2>1, AfterFailure DEF Settle, PumpInterrupts, PumpStutters
  <2>2. CASE UnitFails /\ PumpErrs /\ UNCHANGED held
    BY <1>8, <2>2, AfterFailure DEF Settle, PumpErrs, PumpStutters
  <2>3. CASE /\ PumpQuiet /\ held' = HeldAfter(Head(todo))
             /\ AfterUnit(Tail(todo)) /\ UNCHANGED <<believed, faulted, result>>
    <3>1. /\ UnitOK(Head(todo)) /\ FrameValid /\ delivered = Ledger(held)
          /\ ~held.open => held.axes = {}
      BY <1>8, InFlight DEF Settle, LedgerInv
    <3>2. Books(held') = Ahead
      BY <2>3, <3>1, UnitIsRecorded DEF TypeOK, Helds, FrameValid, Ahead
    <3>3. Books(held)' = Books(held')
      BY DEF Books
    <3> QED
      BY <1>8, <2>3, <3>2, <3>3 DEF Settle, AfterUnit, PumpQuiet, PumpStutters
  <2> QED  BY <1>8, <2>1, <2>2, <2>3 DEF Settle
<1>9. CASE ReleaseAll
  BY <1>9
     DEF ReleaseAll
<1>10. CASE DropSink
  BY <1>10
     DEF DropSink, Enter
<1>11. CASE SkipRelease
  BY <1>11
     DEF SkipRelease, NothingToRelease, Clean, Return, StillOwed, Reconcile, Enter
<1>12. CASE StartRelease
  BY <1>12
     DEF StartRelease, NothingToRelease, Clean
<1>13. ASSUME NEW e \in owed, SendRelease(e)
      PROVE  DesktopInv'
  <2>0. e \in Events /\ e \in ReleaseEvents
    BY <1>13, ReleaseUnits DEF SendRelease, Releases, LedgerInv
  <2>1. CASE device /\ Commit(<<e>>) /\ held' = Recorded(held, e)
    <3>1. Valid(e) /\ e.kind # "begin"
      BY <2>0 DEF ReleaseEvents, Valid, Event
    <3>2. /\ Moved(Books(held), e) = Books(Recorded(held, e))
          /\ Lifted(e) \subseteq Books(held)
      BY <2>0, <3>1, MovedIsRecorded DEF TypeOK, Helds, LedgerInv
    <3>3. Books(held)' = Books(Recorded(held, e))
      BY <2>1 DEF Books
    <3>4. server = "up" => desktop' = Moved(desktop, e)
      BY <2>1 DEF Commit, InTurn
    <3>5. unmatched' => \/ unmatched
                        \/ server = "up" /\ ~(Lifted(e) \subseteq desktop)
      <4>1. \A i \in DOMAIN <<e>> : <<e>>[i] = e
        OBVIOUS
      <4> QED  BY <2>1, <4>1 DEF Commit
    <3>6. server' = server /\ UNCHANGED <<st, device, blind, pc, job, faulted>>
      BY <1>13, <2>1 DEF SendRelease, Commit
    <3> QED
      BY <1>13, <3>2, <3>3, <3>4, <3>5, <3>6 DEF SendRelease
  <2>2. CASE UNCHANGED <<held, wire>>
    BY <1>13, <2>2 DEF SendRelease
  <2> QED  BY <1>13, <2>1, <2>2 DEF SendRelease
<1>14. CASE Disconnect
  BY <1>14
     DEF Disconnect
<1>15. CASE CloseSession
  BY <1>15
     DEF CloseSession, EndState, Return, StillOwed, Reconcile, Enter, SessionInv
<1>16. ASSUME NEW n \in {"paused", "removed", "gone"}, ServerActs(n)
      PROVE  DesktopInv'
  BY <1>16
     DEF ServerActs
<1>17. CASE UNCHANGED vars
  BY <1>17
     DEF vars
<1> QED
  BY <1>1, <1>2, <1>3, <1>4, <1>5, <1>6, <1>7, <1>8, <1>9,
     <1>10, <1>11, <1>12, <1>13, <1>14, <1>15, <1>16, <1>17 DEF Next, Dropped

\* A reported success stays true until the next decision or release.
LEMMA OutcomeStep ==
  ASSUME TypeOK, CallInv, SessionInv, LedgerInv, OutcomeInv, [Next]_vars
  PROVE  OutcomeInv'
<1> USE DEF OutcomeInv, CallInv, SessionInv, Closed, Submitting,
         sinkv, wire, adapter, call, result
<1>1. CASE CreateSession
  BY <1>1
     DEF CreateSession, Enter
<1>2. CASE Authorize
  BY <1>2
     DEF Authorize, PrepareFails, Enter
<1>3. CASE ConnectToEis
  BY <1>3
     DEF ConnectToEis, PrepareFails, Enter
<1>4. CASE Handshake
  BY <1>4
     DEF Handshake, PrepareFails, Enter
<1>5. ASSUME NEW d \in Decisions(believed), Decide(d)
      PROVE  OutcomeInv'
  BY <1>5
     DEF Decide, MayDecide
<1>6. CASE Submit
  BY <1>6, AfterFailure DEF Submit, PumpStutters
<1>7. CASE Send
  BY <1>7, AfterFailure DEF Send
<1>8. CASE Settle
  BY <1>8, AfterFailure DEF Settle, AfterUnit
<1>9. CASE ReleaseAll
  BY <1>9
     DEF ReleaseAll
<1>10. CASE DropSink
  BY <1>10
     DEF DropSink, Enter
<1>11. CASE SkipRelease
  BY <1>11
     DEF SkipRelease, NothingToRelease, Clean, Return, StillOwed, Reconcile, Enter
<1>12. CASE StartRelease
  BY <1>12
     DEF StartRelease, NothingToRelease, Clean
<1>13. ASSUME NEW e \in owed, SendRelease(e)
      PROVE  OutcomeInv'
  <2>0. e \in Events /\ Pressed(e) = {}
    BY <1>13, ReleaseUnits DEF SendRelease, Releases, LedgerInv, Pressed
  <2>1. desktop' \subseteq desktop
    BY <1>13, <2>0 DEF SendRelease, Commit, InTurn, Moved
  <2> QED
    BY <1>13, <2>1 DEF SendRelease
<1>14. CASE Disconnect
  BY <1>14
     DEF Disconnect
<1>15. CASE CloseSession
  BY <1>15
     DEF CloseSession, EndState, Return, StillOwed, Reconcile, Enter
<1>16. ASSUME NEW n \in {"paused", "removed", "gone"}, ServerActs(n)
      PROVE  OutcomeInv'
  BY <1>16
     DEF ServerActs
<1>17. CASE UNCHANGED vars
  BY <1>17
     DEF vars
<1> QED
  BY <1>1, <1>2, <1>3, <1>4, <1>5, <1>6, <1>7, <1>8, <1>9,
     <1>10, <1>11, <1>12, <1>13, <1>14, <1>15, <1>16, <1>17 DEF Next, Dropped

-----------------------------------------------------------------------------
(* The theorems.                                                           *)

\* The strengthening of the invariants below: no step of the session leaves it.
THEOREM SafetyInvariant == Spec => []SafetyInv
<1>1. Init => SafetyInv
  BY DEF Init, SafetyInv, TypeOK, SessionStates, Neutral, Ledgers, CallInv, Submitting,
         SessionInv, Closed, LedgerInv, DesktopInv, Match, NoUnmatchedRelease,
         OutcomeInv
<1>2. SafetyInv /\ [Next]_vars => SafetyInv'
  BY TypeStep, CallStep, SessionStep, LedgerStep, DesktopStep, OutcomeStep
     DEF SafetyInv
<1> QED  BY <1>1, <1>2, PTL DEF Spec

\* The ledgers, the session and the desktop stay in their types.
THEOREM TypeCorrect == Spec => []TypeOK
<1>1. SafetyInv => TypeOK
  BY DEF SafetyInv
<1> QED  BY <1>1, SafetyInvariant, PTL

\* Everything that is down on the desktop is known to the ledger of whoever has
\* to release it, is in a session whose next release reaches the disconnect, and
\* no control that is not down is ever lifted unless a failed pump hid it.
THEOREM DesktopIsAccountedFor == Spec => []DesktopAccountedFor
<1>1. SafetyInv => DesktopAccountedFor
  <2> SUFFICES ASSUME SafetyInv PROVE DesktopAccountedFor
    OBVIOUS
  <2> USE DEF SafetyInv
  <2>1. LedgersAgree
    BY DEF LedgersAgree, LedgerInv, Ledger
  <2>2. BooksMatchDesktop
    <3> SUFFICES ASSUME pc = "idle", ~faulted, st = "Emulating"
                 PROVE  /\ believed = delivered
                        /\ server = "up" => desktop = held.buttons \cup held.axes
      BY DEF BooksMatchDesktop
    <3>1. believed = delivered /\ job \in {"none", "decision"}
      BY AtRest
    <3>2. device /\ ~blind
      BY <3>1 DEF SessionInv, DesktopInv
    <3> QED
      BY <3>1, <3>2 DEF DesktopInv, Match, Books
  <2>3. NothingStranded
    BY DEF NothingStranded, TypeOK, SessionStates, SessionInv, Closed, CallInv
  <2>4. NoUnmatchedRelease
    BY DEF DesktopInv
  <2> QED
    BY <2>1, <2>2, <2>3, <2>4 DEF DesktopAccountedFor
<1> QED  BY <1>1, SafetyInvariant, PTL

\* ArbiterSink::release_all answers Ok only when nothing is down, no ledger
\* thinks otherwise and no fault is pending.
THEOREM AcknowledgedMeansNeutral == Spec => []AcknowledgedReleaseIsNeutral
<1>1. SafetyInv => AcknowledgedReleaseIsNeutral
  BY DEF SafetyInv, OutcomeInv, AcknowledgedReleaseIsNeutral
<1> QED  BY <1>1, SafetyInvariant, PTL

\* A faulted adapter forgets a press only when its release was submitted or a
\* cleanup reset the desktop.
LEMMA OwedStep ==
  ASSUME SafetyInv, Next, faulted, delivered' # delivered
  PROVE  \/ pc = "settle" /\ job = "ups"
         \/ desktop' = {} /\ ~connected'
<1> USE DEF SafetyInv, CallInv, Submitting, adapter, wire
<1>1. CASE Settle
  BY <1>1, AfterFailure DEF Settle
<1>2. CASE SkipRelease
  BY <1>2 DEF SkipRelease, NothingToRelease, SessionInv
<1>3. CASE CloseSession
  BY <1>3 DEF CloseSession, Return, StillOwed, SessionInv
<1>4. CASE Submit
  BY <1>4, AfterFailure DEF Submit
<1>5. CASE Send
  BY <1>5, AfterFailure DEF Send
<1> QED
  BY <1>1, <1>2, <1>3, <1>4, <1>5
     DEF Next, CreateSession, Authorize, ConnectToEis, Handshake, PrepareFails,
         Decide, ReleaseAll, DropSink, StartRelease, SendRelease, Disconnect,
         ServerActs, Dropped, vars

\* Every step of the path is a step the desktop was promised.
LEMMA ContractStep ==
  ASSUME SafetyInv, [Next]_vars
  PROVE  [Contract!Next]_<<Stage, desktop>>
<1> USE DEF Contract!Next, Contract!Open, Contract!Work, Contract!Fail, Contract!Lift,
         Contract!Finish, Stage, SafetyInv, CallInv, SessionInv, Closed, Submitting,
         sinkv, wire, adapter, call, result
<1>1. CASE CreateSession
  BY <1>1
     DEF CreateSession, Enter
<1>2. CASE Authorize
  BY <1>2
     DEF Authorize, PrepareFails, Enter
<1>3. CASE ConnectToEis
  BY <1>3
     DEF ConnectToEis, PrepareFails, Enter
<1>4. CASE Handshake
  BY <1>4
     DEF Handshake, PrepareFails, Enter
<1>5. ASSUME NEW d \in Decisions(believed), Decide(d)
      PROVE  [Contract!Next]_<<Stage, desktop>>
  BY <1>5
     DEF Decide, MayDecide
<1>6. CASE Submit
  <2>1. desktop' = desktop
    BY <1>6 DEF Submit, PumpStutters
  <2>2. st' = st \/ (st = "Emulating" /\ st' = "Interrupted")
    BY <1>6 DEF Submit, PumpQuiet, PumpInterrupts, PumpErrs
  <2>3. faulted' = faulted \/ (faulted' /\ ~faulted)
    BY <1>6, AfterFailure DEF Submit
  <2> QED
    BY <2>1, <2>2, <2>3 DEF TypeOK
<1>7. CASE Send
  <2>1. st' = st /\ st = "Emulating" /\ (faulted => job = "ups")
    BY <1>7 DEF Send
  <2>2. CASE UnitFails /\ UNCHANGED wire
    BY <1>7, <2>1, <2>2, AfterFailure
  <2>3. CASE UNCHANGED <<wire, adapter>>
    BY <1>7, <2>1, <2>3
  <2>4. CASE Commit(Head(todo)) /\ UNCHANGED adapter
    <3>1. desktop' \in SUBSET Controls
      BY <1>7, TypeStep DEF TypeOK
    <3>2. CASE ~faulted
      BY <2>1, <2>4, <3>1, <3>2
    <3>3. CASE faulted
      <4>1. PICK e \in Releases : Head(todo) = <<e>>
        BY <1>7, <2>1, <3>3, InFlight DEF Send, Ups
      <4>2. Pressed(e) = {}
        BY DEF Releases, Pressed
      <4>3. InTurn(Moved, desktop, Head(todo)) = Moved(desktop, e)
        BY <4>1 DEF InTurn
      <4>4. desktop' \subseteq desktop
        BY <2>4, <4>2, <4>3 DEF Commit, Moved
      <4> QED
        BY <2>1, <2>4, <3>3, <4>4
    <3> QED  BY <3>2, <3>3
  <2> QED  BY <1>7, <2>2, <2>3, <2>4 DEF Send
<1>8. CASE Settle
  <2>1. desktop' = desktop
    BY <1>8 DEF Settle, PumpStutters
  <2>2. st' = st \/ (st = "Emulating" /\ st' = "Interrupted")
    BY <1>8 DEF Settle, PumpQuiet, PumpInterrupts, PumpErrs
  <2>3. faulted' = faulted \/ (faulted' /\ ~faulted)
    BY <1>8, AfterFailure DEF Settle
  <2> QED
    BY <2>1, <2>2, <2>3 DEF TypeOK
<1>9. CASE ReleaseAll
  BY <1>9
     DEF ReleaseAll
<1>10. CASE DropSink
  BY <1>10
     DEF DropSink, Enter
<1>11. CASE SkipRelease
  BY <1>11
     DEF SkipRelease, NothingToRelease, Clean, Return, StillOwed, Reconcile, Enter
<1>12. CASE StartRelease
  BY <1>12
     DEF StartRelease, NothingToRelease, Clean
<1>13. ASSUME NEW e \in owed, SendRelease(e)
      PROVE  [Contract!Next]_<<Stage, desktop>>
  <2>0. e \in Events /\ Pressed(e) = {}
    BY <1>13, ReleaseUnits DEF SendRelease, Releases, LedgerInv, Pressed
  <2>1. desktop' \subseteq desktop
    BY <1>13, <2>0 DEF SendRelease, Commit, InTurn, Moved
  <2> QED
    BY <1>13, <2>1 DEF SendRelease
<1>14. CASE Disconnect
  BY <1>14
     DEF Disconnect
<1>15. CASE CloseSession
  BY <1>15
     DEF CloseSession, EndState, Return, StillOwed, Reconcile, Enter
<1>16. ASSUME NEW n \in {"paused", "removed", "gone"}, ServerActs(n)
      PROVE  [Contract!Next]_<<Stage, desktop>>
  <2>1. desktop' \in SUBSET Controls
    BY <1>16, TypeStep DEF TypeOK
  <2>2. desktop' \subseteq desktop /\ st' = st /\ faulted' = faulted
    BY <1>16 DEF ServerActs
  <2>3. st \notin Closed \cup {"Stopped"} \/ desktop = {}
    OBVIOUS
  <2> QED
    BY <2>1, <2>2, <2>3
<1>17. CASE UNCHANGED vars
  BY <1>17
     DEF vars
<1> QED
  BY <1>1, <1>2, <1>3, <1>4, <1>5, <1>6, <1>7, <1>8, <1>9,
     <1>10, <1>11, <1>12, <1>13, <1>14, <1>15, <1>16, <1>17 DEF Next, Dropped

\* The whole path implements NeutralOutput: buttons and axes go down only in an
\* open session, only come up once it fails, and a session that is over left
\* nothing down; and what is owed is kept until it is delivered.
THEOREM PathKeepsContract == Spec => KeepsContract
<1>1. Init => Contract!Init
  BY DEF Init, Contract!Init, Stage
<1>2. SafetyInv /\ [Next]_vars => [Contract!Next]_<<Stage, desktop>>
  BY ContractStep
<1>3. SafetyInv /\ [Next]_vars =>
        [faulted /\ delivered' # delivered =>
           \/ pc = "settle" /\ job = "ups"
           \/ desktop' = {} /\ ~connected']_vars
  BY OwedStep
<1> QED
  BY <1>1, <1>2, <1>3, SafetyInvariant, PTL
     DEF Spec, KeepsContract, OwedReleaseKept, Contract!Spec
=============================================================================
