--------------------------- MODULE ServiceProofs ----------------------------
(***************************************************************************)
(* Proofs about the takeover as a service, for every set of paths, keys,   *)
(* contacts and contents, and every timeout.  The invariant has one part   *)
(* for each of the modules Service composes, and one for the loop:         *)
(* SettingsInv (what may be pending where in a round), NodesInv (who owns  *)
(* which descriptor at which step of the startup), TypingInv (every time   *)
(* on its way to the typing policy is that of a letter pressed), and       *)
(* ClockInv (the anchor of the clock is the last frame between two reads). *)
(***************************************************************************)
EXTENDS Service, FiniteSetTheorems, SequenceTheorems, WellFoundedInduction, TLAPS

-----------------------------------------------------------------------------
(* The settings: an update that is pending is newer than what is active,   *)
(* and a poll finds nothing pending on an arbiter that would have taken it.*)

SettingsInv ==
  /\ NewestUpdateWins
  /\ activeGen \in Nat /\ generation \in Nat
  /\ pending # NoUpdate =>
       pending.config \in Sound /\ pending.generation \in Nat /\ pending.generation > activeGen
  /\ pc = "poll" /\ Quiescent => pending = NoUpdate

-----------------------------------------------------------------------------
(* The descriptors: at each step of the startup, whose they are.           *)

Devices == [path : Paths, nature : Natures]

NodesInv ==
  /\ node \in [Paths -> Natures]
  /\ listed \subseteq Paths /\ found \subseteq Paths
  /\ probed \in Devices \cup {Nobody} /\ session \in Devices \cup {Nobody}
  /\ monitors \subseteq Devices /\ IsFiniteSet(monitors)
  /\ DescriptorsOwned
  /\ stage = "none" => probed = Nobody
  /\ pc \in {"read", "watch", "find"} => session = Nobody
  /\ pc \in {"read", "watch", "find", "accept"} => monitors = {}
  /\ pc = "find" => stage \in {"none", "touchpads"}
  /\ pc = "listen" => stage \in {"none", "keyboards"}
  /\ pc \in {"read", "watch", "accept", "ended"} \cup Running => stage = "none"
  /\ pc = "listen" /\ monitors # {} => Scanned
  /\ pc = "listen" => \A m \in monitors : m.path \notin found
  /\ pc \in {"listen"} \cup Running => session.nature = "pad"
  /\ todo \subseteq Paths

-----------------------------------------------------------------------------
(* Typing: every time that is on its way to the policy is of a letter.     *)

Known == {e \in KeyEvents : e.value = "press" /\ e.key \in Letters => e.at \in typed}

Phases == UNION {[S -> {"Began", "Active", "Ended"}] : S \in SUBSET Contacts}
Frames == {f \in [at : Nat, discontinuity : BOOLEAN, contacts : Phases] :
             1 <= f.at /\ f.at <= now}

Records == [role : Roles, since : Nat] \cup {Untracked}

WindowOK ==
  \/ window = [last |-> 0, deadline |-> 0]
  \/ /\ window.last \in typed /\ window.deadline \in Nat
     /\ window.deadline <= window.last + Long

TypingInv ==
  /\ now \in Nat \ {0} /\ typed \subseteq Nat /\ lastInput \in Nat /\ lastInput <= now
  /\ keys \in [Boards -> Seq(Known)] /\ activity \in Seq(typed)
  /\ WindowOK
  /\ down \subseteq Contacts /\ touches \in Seq(Frames)
  /\ roles \in [Contacts -> Records]
  /\ TypingOnlyWhenArmed

\* What the arbiter has seen is tracked as a finger, what it was spared is
\* tracked as suppressed.
RolesInv ==
  /\ \A c \in shown : c \in Contacts /\ roles[c].role = "Finger"
  /\ \A c \in hidden : c \in Contacts /\ roles[c].role \in Suppressed

-----------------------------------------------------------------------------
(* The clock: outside a read the anchor is that of the last frame.         *)

ClockInv ==
  /\ anchor.process \in Nat /\ anchor.input \in Nat /\ anchor.sequence \in Nat
  /\ accepted \in Nat /\ anchor.sequence <= accepted
  /\ anchor.process <= now /\ anchor.input <= anchor.process
  /\ accepted = anchor.sequence => lastInput = anchor.input
  /\ pc \notin {"frames", "ended"} => accepted = anchor.sequence

ServiceInv == SettingsInv /\ NodesInv /\ TypingInv /\ RolesInv /\ ClockInv

-----------------------------------------------------------------------------
(* Lemmas on the operators.                                                *)

\* A set of naturals has a least element.
LEMMA LeastNat ==
  ASSUME NEW S \in SUBSET Nat, S # {}
  PROVE  \E m \in S : \A n \in S : m <= n
<1>1. PICK m \in S : \A n \in S : ~(<<n, m>> \in OpToRel(<, Nat))
  BY WFMin, NatLessThanWellFounded
<1>2. \A n \in S : ~(n < m)
  BY <1>1 DEF OpToRel
<1> QED  BY <1>2

\* The first of some paths is one of them.
LEMMA FirstIsOne ==
  ASSUME NEW S \in SUBSET Paths, S # {}
  PROVE  First(S) \in S
<1>1. S \in SUBSET Nat
  BY NodesAssumption
<1>2. \E m \in S : \A n \in S : m <= n
  BY <1>1, LeastNat
<1> QED  BY <1>2 DEF First

-----------------------------------------------------------------------------
(* Settings.                                                               *)

\* A step that leaves the settings alone and does not lead to the poll.
LEMMA SettingsKept ==
  ASSUME SettingsInv, UNCHANGED settingsVars,
         pc' # "poll" \/ UNCHANGED <<pc, arb>>
  PROVE  SettingsInv'
BY DEF SettingsInv, NewestUpdateWins, settingsVars, watcher, Quiescent

LEMMA SettingsStep ==
  ASSUME SettingsInv, [Next]_vars
  PROVE  SettingsInv'
<1>1. CASE StartSettings
  BY <1>1 DEF StartSettings, ReadSettings, CreateWatcher, SettingsInv, NewestUpdateWins,
              watcher
<1>2. CASE Apply
  <2>1. CASE pending # NoUpdate /\ Accepts
    BY <1>2, <2>1
       DEF Apply, ApplyPending, SettingsInv, NewestUpdateWins, NoUpdate, typingVars,
           untimedVars, Quiescent
  <2>2. CASE ~(pending # NoUpdate /\ Accepts)
    BY <1>2, <2>2
       DEF Apply, ApplyPending, SettingsInv, NewestUpdateWins, Accepts, Quiescent,
           typingVars, untimedVars
  <2> QED  BY <2>1, <2>2
<1>3. CASE Poll
  <2>1. pc = "poll" /\ pc' = "wait" /\ PollSettings(Accepts)
    BY <1>3 DEF Poll
  <2>2. CASE ~Loaded(file)
    BY <2>1, <2>2 DEF PollSettings, SettingsInv, NewestUpdateWins
  <2>3. CASE Loaded(file) /\ Accepts
    <3>1. pending = NoUpdate /\ generation = activeGen
      BY <2>1, <2>3 DEF SettingsInv, NewestUpdateWins, Accepts
    <3> QED
      BY <2>1, <2>3, <3>1 DEF PollSettings, SettingsInv, NewestUpdateWins
  <2>4. CASE Loaded(file) /\ ~Accepts
    <3>1. /\ pending' = [config |-> file, generation |-> generation + 1]
          /\ generation' = generation + 1 /\ activeGen' = activeGen
      BY <2>1, <2>4 DEF PollSettings, Queued
    <3>2. file \in Sound /\ pending' # NoUpdate
      BY <2>4, <3>1, SettingsAssumption DEF Loaded, Valid, NoUpdate
    <3>3. generation >= activeGen
      BY DEF SettingsInv, NewestUpdateWins
    <3> QED
      BY <2>1, <3>1, <3>2, <3>3 DEF SettingsInv, NewestUpdateWins
  <2> QED  BY <2>2, <2>3, <2>4
<1>4. CASE FileChanges
  BY <1>4
     DEF FileChanges, PatchReads, PatchTruncates, PatchEnds, Edit, SettingsInv,
         NewestUpdateWins, watcher, typingVars, untimedVars, Quiescent
<1>5. CASE FindTouchpad \/ AcceptTouchpad \/ FindKeyboards
  BY <1>5, SettingsKept DEF FindTouchpad, AcceptTouchpad, FindKeyboards
<1>6. CASE Wait \/ DrainKeyboard \/ NoteKeys \/ KeyboardsDrained
  BY <1>6, SettingsKept DEF Wait, DrainKeyboard, NoteKeys, KeyboardsDrained
<1>7. CASE ReadTouchpad \/ StepFrame \/ Observe \/ Tick
  BY <1>7, SettingsKept DEF ReadTouchpad, StepFrame, Observe, Tick
<1>8. CASE Leave \/ Ended \/ Plug \/ UserActs \/ Pass
  BY <1>8, SettingsKept DEF Leave, Ended, Plug, UserActs, Pass, loopVars, vars
<1>9. CASE UNCHANGED vars
  BY <1>9, SettingsKept DEF vars, loopVars, typingVars, untimedVars
<1> QED
  BY <1>1, <1>2, <1>3, <1>4, <1>5, <1>6, <1>7, <1>8, <1>9 DEF Next, Startup, Loop

\* The configuration in use only moves forward, at rest, and to sound contents.
LEMMA BoundaryStep ==
  ASSUME SettingsInv, Next, active' # active, pc # "read"
  PROVE  arb = "rest" /\ active' \in Sound /\ activeGen' > activeGen
<1>1. Apply \/ Poll
  BY DEF Next, Startup, Loop, StartSettings, FindTouchpad, AcceptTouchpad, FindKeyboards,
         Wait, DrainKeyboard, NoteKeys, KeyboardsDrained, ReadTouchpad, StepFrame, Observe,
         Tick, Leave, Ended, Plug, UserActs, Pass, FileChanges, PatchReads, PatchTruncates,
         PatchEnds, Edit, CreateWatcher, settingsVars, vars
<1>2. CASE Apply
  BY <1>2 DEF Apply, ApplyPending, Accepts, Quiescent, SettingsInv
<1>3. CASE Poll
  <2>1. Loaded(file) /\ Accepts /\ active' = file /\ activeGen' = generation + 1
    BY <1>3 DEF Poll, PollSettings
  <2>2. pending = NoUpdate
    BY <1>3, <2>1 DEF Poll, SettingsInv, Accepts
  <2> QED
    BY <2>1, <2>2 DEF SettingsInv, NewestUpdateWins, Loaded, Valid, Accepts, Quiescent
<1> QED  BY <1>1, <1>2, <1>3

-----------------------------------------------------------------------------
(* Devices.                                                                *)

\* A device is on a path, which nobody is.
LEMMA DeviceIsSomebody ==
  ASSUME NEW p \in Paths, node \in [Paths -> Natures]
  PROVE  On(p) \in Devices /\ On(p) # Nobody /\ On(p).path = p
BY NodesAssumption DEF On, Devices, Nobody

\* A step that leaves the devices alone.
LEMMA NodesKept ==
  ASSUME NodesInv, UNCHANGED nodeVars, todo' \subseteq Paths,
         \/ pc' = pc
         \/ pc \in Running /\ pc' \in Running
         \/ pc \in {"read", "watch"} /\ pc' \in {"watch", "find"}
  PROVE  NodesInv'
BY DEF NodesInv, nodeVars, DescriptorsOwned, Owned, Running, Scanned

\* A scan lists paths, opens one and closes it.
LEMMA ListStep ==
  ASSUME NodesInv, UNCHANGED <<pc, todo>>,
         \/ pc = "find" /\ List("touchpads")
         \/ pc = "listen" /\ List("keyboards")
  PROVE  NodesInv'
<1>1. /\ stage = "none" /\ found' = {} /\ probed' = Nobody /\ listed' \subseteq Paths
      /\ UNCHANGED <<node, fds, session, monitors>>
      /\ \/ pc = "find" /\ stage' = "touchpads"
         \/ pc = "listen" /\ stage' = "keyboards"
  BY DEF List
<1>2. probed = Nobody
  BY <1>1 DEF NodesInv
<1> QED
  BY <1>1, <1>2 DEF NodesInv, DescriptorsOwned, Owned, Running, Scanned

LEMMA ProbeOpensStep ==
  ASSUME NodesInv, UNCHANGED <<pc, todo>>, pc \in {"find", "listen"},
         NEW ok \in BOOLEAN, ProbeOpens(ok)
  PROVE  NodesInv'
<1>1. First(listed) \in Paths
  BY FirstIsOne DEF ProbeOpens, NodesInv
<1>2. stage # "none" /\ listed # {} /\ probed = Nobody /\ ~Scanned
  BY DEF ProbeOpens, Scanned
<1>3. CASE probed' = On(First(listed)) /\ fds' = fds + 1 /\ UNCHANGED listed
  <2>1. probed' \in Devices /\ probed' # Nobody
    BY <1>1, <1>3, DeviceIsSomebody DEF NodesInv
  <2>2. UNCHANGED <<node, stage, found, session, monitors>>
    BY DEF ProbeOpens
  <2>3. Owned' = Owned + 1
    <3>1. Cardinality(monitors) \in Nat
      BY FS_CardinalityType DEF NodesInv
    <3> QED  BY <1>2, <2>1, <2>2, <3>1 DEF Owned
  <2> QED
    BY <1>2, <1>3, <2>1, <2>2, <2>3 DEF NodesInv, DescriptorsOwned, Running
<1>4. CASE listed' = listed \ {First(listed)} /\ UNCHANGED <<probed, fds>>
  <2>1. UNCHANGED <<node, stage, found, session, monitors>>
    BY DEF ProbeOpens
  <2> QED
    BY <1>2, <1>4, <2>1 DEF NodesInv, DescriptorsOwned, Owned, Running, Scanned
<1> QED  BY <1>3, <1>4 DEF ProbeOpens

LEMMA ProbeReadsStep ==
  ASSUME NodesInv, UNCHANGED <<pc, todo>>, pc \in {"find", "listen"},
         NEW ok \in BOOLEAN, ProbeReads(ok)
  PROVE  NodesInv'
<1>1. /\ probed # Nobody /\ fds' = fds - 1 /\ probed' = Nobody /\ listed' \subseteq listed
      /\ found' \subseteq found \cup {probed.path}
      /\ UNCHANGED <<node, stage, session, monitors>>
  BY DEF ProbeReads, ClosedAfterProbe
<1>2. probed.path \in Paths /\ stage # "none" /\ ~Scanned
  BY <1>1 DEF NodesInv, Devices, Scanned
<1>3. pc = "listen" => monitors = {}
  BY <1>2 DEF NodesInv
<1>4. Owned' = Owned - 1
  <2>1. Cardinality(monitors) \in Nat
    BY FS_CardinalityType DEF NodesInv
  <2> QED  BY <1>1, <2>1 DEF Owned
<1> QED
  BY <1>1, <1>2, <1>3, <1>4 DEF NodesInv, DescriptorsOwned, Running

\* The session's own open, and its judgement on its own descriptor.
LEMMA OpenSessionStep ==
  ASSUME NodesInv, pc = "find", pc' = "accept", UNCHANGED todo, OpenSession
  PROVE  NodesInv'
<1>1. found # {}
  BY FS_EmptySet DEF OpenSession, Unique
<1>2. First(found) \in Paths
  BY <1>1, FirstIsOne DEF NodesInv
<1>3. session' \in Devices /\ session' # Nobody /\ fds' = fds + 1
  BY <1>2, DeviceIsSomebody DEF OpenSession, NodesInv
<1>4. /\ session = Nobody /\ monitors = {} /\ probed = Nobody
      /\ stage' = "none" /\ found' = {} /\ UNCHANGED <<node, listed, probed, monitors>>
  BY DEF OpenSession, NodesInv, Scanned
<1>5. Owned' = Owned + 1
  <2>1. Cardinality(monitors) \in Nat
    BY FS_CardinalityType DEF NodesInv
  <2> QED  BY <1>3, <1>4, <2>1 DEF Owned
<1> QED
  BY <1>3, <1>4, <1>5 DEF NodesInv, DescriptorsOwned, Running

LEMMA AcceptStep ==
  ASSUME NodesInv, AcceptTouchpad
  PROVE  NodesInv'
<1>1. session.nature = "pad"
  BY DEF AcceptTouchpad, AcceptSession, IsTouchpad, ReadOff
<1>2. pc = "accept" /\ pc' = "listen" /\ UNCHANGED <<nodeVars, todo>>
  BY DEF AcceptTouchpad
<1> QED
  BY <1>1, <1>2 DEF NodesInv, nodeVars, DescriptorsOwned, Owned, Running, Scanned

\* Monitors are opened one path after the other, and kept.
LEMMA MonitorOpensStep ==
  ASSUME NodesInv, pc = "listen", UNCHANGED <<pc, todo>>, NEW ok \in BOOLEAN,
         MonitorOpens(ok)
  PROVE  NodesInv'
<1> DEFINE p == First(found)
<1>1. /\ Scanned /\ stage = "keyboards" /\ found # {} /\ found' = found \ {p}
      /\ UNCHANGED <<node, stage, listed, probed, session>>
  BY DEF MonitorOpens
<1>2. p \in Paths /\ p \in found
  BY <1>1, FirstIsOne DEF NodesInv
<1>3. On(p) \in Devices /\ On(p).path = p /\ On(p) \notin monitors
  BY <1>2, DeviceIsSomebody DEF NodesInv
<1>4. CASE monitors' = monitors \cup {On(p)} /\ fds' = fds + 1
  <2>1. IsFiniteSet(monitors') /\ Cardinality(monitors') = Cardinality(monitors) + 1
    BY <1>3, <1>4, FS_AddElement DEF NodesInv
  <2>2. Owned' = Owned + 1
    <3>1. Cardinality(monitors) \in Nat
      BY FS_CardinalityType DEF NodesInv
    <3> QED  BY <1>1, <2>1, <3>1 DEF Owned
  <2>3. \A m \in monitors' : m.path \notin found'
    BY <1>1, <1>3, <1>4 DEF NodesInv
  <2>4. Scanned'
    BY <1>1 DEF Scanned
  <2> QED
    BY <1>1, <1>3, <1>4, <2>1, <2>2, <2>3, <2>4 DEF NodesInv, DescriptorsOwned, Running
<1>5. CASE UNCHANGED <<monitors, fds>>
  BY <1>1, <1>5 DEF NodesInv, DescriptorsOwned, Owned, Running, Scanned
<1> QED  BY <1>4, <1>5 DEF MonitorOpens

LEMMA KeepDevicesStep ==
  ASSUME NodesInv, pc = "listen", pc' = "loop", UNCHANGED todo, KeepDevices
  PROVE  NodesInv'
<1>1. node' \in [Paths -> Natures]
  BY DEF KeepDevices, Natures
<1>2. /\ stage' = "none" /\ probed = Nobody
      /\ UNCHANGED <<fds, listed, probed, found, session, monitors>>
  BY DEF KeepDevices, Scanned
<1> QED
  BY <1>1, <1>2 DEF NodesInv, DescriptorsOwned, Owned, Running

LEMMA MonitorLostStep ==
  ASSUME NodesInv, pc = "keys", UNCHANGED pc, todo' \subseteq todo,
         NEW m \in monitors, MonitorLost(m)
  PROVE  NodesInv'
<1>1. /\ monitors' = monitors \ {m} /\ fds' = fds - 1
      /\ UNCHANGED <<node, stage, listed, probed, found, session>>
  BY DEF MonitorLost
<1>2. IsFiniteSet(monitors') /\ Cardinality(monitors') = Cardinality(monitors) - 1
  BY <1>1, FS_RemoveElement DEF NodesInv
<1>3. Owned' = Owned - 1
  <2>1. Cardinality(monitors) \in Nat
    BY FS_CardinalityType DEF NodesInv
  <2> QED  BY <1>1, <1>2, <2>1 DEF Owned
<1> QED
  BY <1>1, <1>2, <1>3 DEF NodesInv, DescriptorsOwned, Running

\* Whenever the command ends, everything is closed.
LEMMA LeaveStep ==
  ASSUME NodesInv, Leave
  PROVE  NodesInv'
<1>1. /\ fds' = fds - Owned /\ probed' = Nobody /\ session' = Nobody /\ monitors' = {}
      /\ stage' = "none" /\ listed' = {} /\ found' = {} /\ UNCHANGED node
      /\ pc' = "ended" /\ todo' = {}
  BY DEF Leave, DropDevices
<1>2. Cardinality({}) = 0 /\ IsFiniteSet({})
  BY FS_EmptySet
<1>3. Owned \in Nat /\ fds = Owned
  BY FS_CardinalityType DEF Owned, NodesInv, DescriptorsOwned
<1>4. fds' = 0 /\ Owned' = 0
  BY <1>1, <1>2, <1>3 DEF Owned
<1> QED
  BY <1>1, <1>2, <1>4 DEF NodesInv, DescriptorsOwned, Running

LEMMA NodesStep ==
  ASSUME NodesInv, [Next]_vars
  PROVE  NodesInv'
<1> USE DEF Running
<1>0. todo \subseteq Paths
  BY DEF NodesInv
<1>1. CASE StartSettings
  BY <1>0, <1>1, NodesKept DEF StartSettings
<1>2. CASE FindTouchpad
  BY <1>2, ListStep, ProbeOpensStep, ProbeReadsStep, OpenSessionStep
     DEF FindTouchpad, Scan
<1>3. CASE AcceptTouchpad
  BY <1>3, AcceptStep
<1>4. CASE FindKeyboards
  BY <1>4, ListStep, ProbeOpensStep, ProbeReadsStep, MonitorOpensStep, KeepDevicesStep
     DEF FindKeyboards, Scan
<1>5. CASE Apply \/ Poll
  BY <1>0, <1>5, NodesKept DEF Apply, Poll
<1>6. CASE Wait
  <2>1. todo' \subseteq Paths
    BY <1>6 DEF Wait, NodesInv, Devices
  <2> QED
    BY <1>6, <2>1, NodesKept DEF Wait
<1>7. CASE DrainKeyboard
  <2>1. CASE UNCHANGED nodeVars
    BY <1>0, <1>7, <2>1, NodesKept DEF DrainKeyboard
  <2>2. CASE \E m \in monitors : MonitorLost(m) /\ todo' \subseteq todo /\ UNCHANGED pc
    BY <1>7, <2>2, MonitorLostStep DEF DrainKeyboard
  <2> QED
    BY <1>7, <2>1, <2>2 DEF DrainKeyboard
<1>8. CASE NoteKeys \/ KeyboardsDrained
  BY <1>0, <1>8, NodesKept DEF NoteKeys, KeyboardsDrained
<1>9. CASE ReadTouchpad \/ StepFrame \/ Observe \/ Tick
  BY <1>0, <1>9, NodesKept DEF ReadTouchpad, StepFrame, Observe, Tick
<1>10. CASE Leave
  BY <1>10, LeaveStep
<1>11. CASE Plug
  <2>1. PICK p \in Paths, nature \in Natures : Replug(p, nature)
    BY <1>11 DEF Plug
  <2>2. /\ node' \in [Paths -> Natures] /\ UNCHANGED <<pc, todo>>
        /\ UNCHANGED <<fds, stage, listed, probed, found, session, monitors>>
    BY <1>11, <2>1 DEF Plug, Replug, NodesInv
  <2> QED
    BY <2>2 DEF NodesInv, DescriptorsOwned, Owned, Scanned
<1>12. CASE FileChanges \/ UserActs \/ Pass \/ Ended \/ UNCHANGED vars
  BY <1>0, <1>12, NodesKept DEF FileChanges, UserActs, Pass, Ended, vars, loopVars
<1> QED
  BY <1>1, <1>2, <1>3, <1>4, <1>5, <1>6, <1>7, <1>8, <1>9, <1>10, <1>11, <1>12
     DEF Next, Startup, Loop

-----------------------------------------------------------------------------
(* Typing.                                                                 *)

\* Time goes on and letters are only added: what is queued stays known.
LEMMA QueuesGrow ==
  /\ typed \subseteq typed' => Seq(Known) \subseteq Seq(Known)' /\ Seq(typed) \subseteq Seq(typed)'
  /\ now \in Nat /\ now' \in Nat /\ now <= now' => Seq(Frames) \subseteq Seq(Frames)'
<1>1. ASSUME typed \subseteq typed'
      PROVE  Seq(Known) \subseteq Seq(Known)' /\ Seq(typed) \subseteq Seq(typed)'
  <2>1. Known \subseteq Known'
    BY <1>1 DEF Known
  <2> QED  BY <1>1, <2>1, SeqMonotonic
<1>2. ASSUME now \in Nat, now' \in Nat, now <= now'
      PROVE  Seq(Frames) \subseteq Seq(Frames)'
  <2>1. Frames \subseteq Frames'
    BY <1>2 DEF Frames
  <2> QED  BY <2>1, SeqMonotonic
<1> QED  BY <1>1, <1>2

\* What is left of the invariant when only time goes on.
LEMMA TypingKept ==
  ASSUME TypingInv, now' \in Nat, now <= now',
         UNCHANGED <<typed, lastInput, keys, activity, window, down, touches, roles>>
  PROVE  TypingInv'
<1>1. /\ keys' \in [Boards -> Seq(Known)'] /\ activity' \in Seq(typed)'
      /\ touches' \in Seq(Frames)'
  BY QueuesGrow DEF TypingInv
<1>2. now' \in Nat \ {0} /\ lastInput' <= now'
  BY DEF TypingInv
<1> QED
  BY <1>1, <1>2 DEF TypingInv, WindowOK, TypingOnlyWhenArmed

LEMMA KeyHappensStep ==
  ASSUME TypingInv, NEW b \in Boards, NEW k \in Keys,
         NEW v \in {"press", "release", "repeat"}, KeyHappens(b, k, v)
  PROVE  TypingInv'
<1> DEFINE e == [key |-> k, value |-> v, at |-> now]
<1>1. /\ typed \subseteq typed' /\ typed' \subseteq Nat
      /\ v = "press" /\ k \in Letters => now \in typed'
  BY DEF KeyHappens, TypingInv
<1>2. e \in Known'
  BY <1>1 DEF Known, KeyEvents, TypingInv
<1>3. Append(keys[b], e) \in Seq(Known)'
  BY <1>1, <1>2, QueuesGrow DEF TypingInv
<1>4. keys' = [keys EXCEPT ![b] = Append(@, e)]
  BY DEF KeyHappens
<1>5. keys' \in [Boards -> Seq(Known)']
  BY <1>1, <1>3, <1>4, QueuesGrow DEF TypingInv
<1>6. /\ activity' \in Seq(typed)'
      /\ UNCHANGED <<now, window, activity, down, touches, roles, lastInput>>
  BY <1>1, QueuesGrow DEF KeyHappens, TypingInv
<1>7. touches' \in Seq(Frames)'
  BY <1>6, QueuesGrow DEF TypingInv
<1>8. WindowOK' /\ TypingOnlyWhenArmed'
  BY <1>1, <1>6 DEF TypingInv, WindowOK, TypingOnlyWhenArmed
<1> QED
  BY <1>1, <1>5, <1>6, <1>7, <1>8 DEF TypingInv

LEMMA TouchHappensStep ==
  ASSUME TypingInv, NEW next \in SUBSET Contacts, NEW resync \in BOOLEAN,
         TouchHappens(next, resync)
  PROVE  TypingInv'
<1> DEFINE ids == next \cup (IF resync THEN {} ELSE down)
           f == [at |-> now, discontinuity |-> resync,
                 contacts |-> [c \in ids |->
                                 IF c \notin next THEN "Ended"
                                 ELSE IF c \in down /\ ~resync THEN "Active" ELSE "Began"]]
<1>1. /\ touches' = Append(touches, f) /\ down' = next
      /\ UNCHANGED <<now, typed, lastInput, keys, activity, window, roles>>
  BY DEF TouchHappens
<1>2. ids \in SUBSET Contacts
  BY DEF TypingInv
<1>3. f.contacts \in Phases
  <2>1. f.contacts \in [ids -> {"Began", "Active", "Ended"}]
    OBVIOUS
  <2> QED  BY <1>2, <2>1 DEF Phases
<1>4. f \in Frames
  <2> HIDE DEF ids
  <2>1. f.at = now /\ f.discontinuity = resync
    OBVIOUS
  <2>2. now \in Nat /\ 1 <= now
    BY DEF TypingInv
  <2> QED  BY <1>3, <2>1, <2>2 DEF Frames
<1>5. touches' \in Seq(Frames)
  <2> HIDE DEF f
  <2> QED  BY <1>1, <1>4 DEF TypingInv
<1>6. touches' \in Seq(Frames)' /\ keys' \in [Boards -> Seq(Known)'] /\ activity' \in Seq(typed)'
  <2>1. UNCHANGED <<now, typed, keys, activity>>
    BY <1>1
  <2> QED  BY <1>5, <2>1, QueuesGrow DEF TypingInv
<1> QED
  BY <1>1, <1>6 DEF TypingInv, WindowOK, TypingOnlyWhenArmed

LEMMA ReadKeyStep ==
  ASSUME TypingInv, NEW b \in Boards, ReadKey(b)
  PROVE  TypingInv'
<1> DEFINE e == Head(keys[b])
<1>1. keys[b] \in Seq(Known) /\ keys[b] # <<>>
  BY DEF TypingInv, ReadKey
<1>2. e \in Known /\ Tail(keys[b]) \in Seq(Known)
  BY <1>1
<1>3. /\ UNCHANGED <<now, typed, window, down, touches, roles, lastInput>>
      /\ keys' = [keys EXCEPT ![b] = Tail(@)]
      /\ activity' = IF IsActivity(b, e) THEN Append(activity, e.at) ELSE activity
  BY DEF ReadKey
<1>4. IsActivity(b, e) => e.at \in typed
  BY <1>2 DEF IsActivity, Triggers, Known
<1>5. activity' \in Seq(typed) /\ keys' \in [Boards -> Seq(Known)]
  BY <1>2, <1>3, <1>4 DEF TypingInv
<1>6. touches' \in Seq(Frames)' /\ keys' \in [Boards -> Seq(Known)'] /\ activity' \in Seq(typed)'
  BY <1>3, <1>5, QueuesGrow DEF TypingInv
<1> QED
  BY <1>3, <1>6 DEF TypingInv, WindowOK, TypingOnlyWhenArmed

LEMMA LoseKeysStep ==
  ASSUME TypingInv, NEW b \in Boards, LoseKeys(b)
  PROVE  TypingInv'
<1>1. /\ UNCHANGED <<now, typed, window, down, touches, roles, lastInput>>
      /\ keys' = [keys EXCEPT ![b] = <<>>] /\ activity' = <<>>
  BY DEF LoseKeys
<1>2. activity' \in Seq(typed) /\ keys' \in [Boards -> Seq(Known)]
  BY <1>1 DEF TypingInv
<1>3. touches' \in Seq(Frames)' /\ keys' \in [Boards -> Seq(Known)'] /\ activity' \in Seq(typed)'
  BY <1>1, <1>2, QueuesGrow DEF TypingInv
<1> QED
  BY <1>1, <1>3 DEF TypingInv, WindowOK, TypingOnlyWhenArmed

\* A time that reaches the policy is a letter's, and arms at most the long
\* window after it.
LEMMA NoteActivityStep ==
  ASSUME TypingInv, NEW enabled \in BOOLEAN, NoteActivity(enabled)
  PROVE  TypingInv'
<1>1. /\ UNCHANGED <<now, typed, keys, down, touches, roles, lastInput>>
      /\ activity # <<>> /\ activity' = Tail(activity)
      /\ window' = Armed(window, Head(activity), enabled)
  BY DEF NoteActivity
<1>2. Head(activity) \in typed /\ activity' \in Seq(typed)
  BY <1>1 DEF TypingInv
<1>3. WindowOK'
  <2>1. CASE window' = window
    BY <1>1, <2>1 DEF TypingInv, WindowOK
  <2>2. CASE window' = Noted(window, Head(activity))
    <3>1. Head(activity) \in Nat
      BY <1>2 DEF TypingInv
    <3> QED
      BY <1>1, <1>2, <2>2, <3>1, TypingAssumption DEF Noted, WindowOK
  <2> QED  BY <1>1, <2>1, <2>2 DEF Armed
<1>4. touches' \in Seq(Frames)' /\ keys' \in [Boards -> Seq(Known)'] /\ activity' \in Seq(typed)'
  BY <1>1, <1>2, QueuesGrow DEF TypingInv
<1> QED
  BY <1>1, <1>3, <1>4 DEF TypingInv, TypingOnlyWhenArmed

\* What is kept of the contacts, and what a frame makes of one of them.
LEMMA RoleTypes ==
  ASSUME TypingInv, NEW f \in Frames, NEW looks \in [DOMAIN f.contacts -> {"Palm", "Finger"}],
         NEW enabled \in BOOLEAN
  PROVE  /\ DOMAIN f.contacts \subseteq Contacts
         /\ Kept(f) \in [Contacts -> Records]
         /\ \A c \in Contacts : Kept(f)[c] = Untracked \/ Kept(f)[c] = roles[c]
         /\ \A c \in DOMAIN f.contacts :
              /\ Classify(f, c, looks, enabled) \in Records
              /\ Classify(f, c, looks, enabled).role \in Roles
              /\ Classify(f, c, looks, enabled).since = f.at
<1>1. DOMAIN f.contacts \subseteq Contacts
  BY DEF Frames, Phases
<1>2. /\ Kept(f) \in [Contacts -> Records]
      /\ \A c \in Contacts : Kept(f)[c] = Untracked \/ Kept(f)[c] = roles[c]
  <2>1. Untracked \in Records
    BY DEF Records
  <2> QED  BY <2>1 DEF Kept, TypingInv
<1>3. ASSUME NEW c \in DOMAIN f.contacts
      PROVE  /\ Classify(f, c, looks, enabled) \in Records
             /\ Classify(f, c, looks, enabled).role \in Roles
             /\ Classify(f, c, looks, enabled).since = f.at
  BY DEF Classify, Records, Roles, Suppressed, Frames
<1> QED  BY <1>1, <1>2, <1>3

\* A contact is only suppressed for typing inside a window a letter opened.
LEMMA ArmedByALetter ==
  ASSUME TypingInv, NEW f \in Frames, NEW enabled \in BOOLEAN, TypingActive(f.at, enabled)
  PROVE  \E t \in typed : t <= f.at /\ f.at <= t + Long
<1>1. window.last <= f.at /\ f.at <= window.deadline /\ f.at \in Nat /\ f.at >= 1
  BY DEF TypingActive, Frames
<1>2. window.last \in typed /\ window.deadline \in Nat /\ window.deadline <= window.last + Long
  BY <1>1 DEF TypingInv, WindowOK
<1>3. window.last \in Nat /\ Long \in Nat
  BY <1>2, TypingAssumption DEF TypingInv
<1> QED  BY <1>1, <1>2, <1>3

LEMMA ProcessFrameStep ==
  ASSUME TypingInv, RolesInv, NEW enabled \in BOOLEAN, ProcessFrame(enabled)
  PROVE  TypingInv' /\ RolesInv'
<1> DEFINE f == Head(touches)
           ids == DOMAIN f.contacts
           live == {c \in ids : f.contacts[c] # "Ended"}
<1>1. f \in Frames /\ touches' \in Seq(Frames)
  BY DEF ProcessFrame, TypingInv
<1>2. PICK looks \in [ids -> {"Palm", "Finger"}] :
        LET pass == {c \in ids : Passes(f, c, looks, enabled)}
            old(S) == IF f.discontinuity THEN {} ELSE S
        IN  /\ \A c \in ids : Kept(f)[c] # Untracked => looks[c] = "Finger"
            /\ roles' = [c \in Contacts |->
                           IF c \in live THEN RoleIn(f, c, looks, enabled)
                           ELSE IF c \in ids THEN Untracked ELSE Kept(f)[c]]
            /\ shown' = (old(shown) \cup pass) \cap live
            /\ hidden' = (old(hidden) \cup (ids \ pass)) \cap live
            /\ lastInput' = f.at
  BY DEF ProcessFrame
<1>3. UNCHANGED <<now, keys, typed, activity, window, down>>
  BY DEF ProcessFrame
<1> DEFINE pass == {c \in ids : Passes(f, c, looks, enabled)}
<1>4. /\ roles' = [c \in Contacts |->
                     IF c \in live THEN RoleIn(f, c, looks, enabled)
                     ELSE IF c \in ids THEN Untracked ELSE Kept(f)[c]]
      /\ shown' \subseteq live /\ hidden' \subseteq live
      /\ shown' \subseteq pass \cup (IF f.discontinuity THEN {} ELSE shown)
      /\ hidden' \subseteq (ids \ pass) \cup (IF f.discontinuity THEN {} ELSE hidden)
      /\ lastInput' = f.at
  BY <1>2
<1>5. /\ ids \subseteq Contacts /\ live \subseteq ids
      /\ Kept(f) \in [Contacts -> Records]
      /\ \A c \in Contacts : Kept(f)[c] = Untracked \/ Kept(f)[c] = roles[c]
      /\ \A c \in ids : /\ Classify(f, c, looks, enabled) \in Records
                        /\ Classify(f, c, looks, enabled).role \in Roles
                        /\ Classify(f, c, looks, enabled).since = f.at
  BY <1>1, RoleTypes
<1> HIDE DEF f, ids, live, pass
<1>6. \A c \in Contacts :
        roles'[c] = IF c \in live THEN RoleIn(f, c, looks, enabled)
                    ELSE IF c \in ids THEN Untracked ELSE Kept(f)[c]
  BY <1>4
<1>7. \A c \in live : RoleIn(f, c, looks, enabled) \in Records
  BY <1>5 DEF RoleIn
<1>8. Untracked \in Records /\ Untracked.role = "none"
  BY DEF Untracked, Records
<1>9. roles' \in [Contacts -> Records]
  BY <1>4, <1>5, <1>7, <1>8
<1>10. TypingOnlyWhenArmed'
  <2> SUFFICES ASSUME NEW c \in Contacts, roles'[c].role = "TypingSuppressed"
               PROVE  \E t \in typed : t <= roles'[c].since /\ roles'[c].since <= t + Long
    BY <1>3 DEF TypingOnlyWhenArmed
  <2>1. CASE roles'[c] = roles[c]
    BY <2>1 DEF TypingInv, TypingOnlyWhenArmed
  <2>2. CASE roles'[c] = Untracked
    BY <1>8, <2>2
  <2>3. CASE c \in ids /\ roles'[c] = Classify(f, c, looks, enabled)
    <3>1. TypingActive(f.at, enabled)
      BY <1>2, <2>3 DEF Classify, f, ids
    <3> QED
      BY <1>1, <1>5, <2>3, <3>1, ArmedByALetter DEF f
  <2> QED
    BY <1>5, <1>6, <2>1, <2>2, <2>3 DEF RoleIn
<1>11. \A c \in live : c \in ids /\ f.contacts[c] # "Ended"
  BY DEF live
<1>12. \A c \in live : RoleIn(f, c, looks, enabled).role \in Roles
  BY <1>5, <1>8, <1>11 DEF RoleIn, Records
<1>13. RolesInv'
  <2>1. ASSUME NEW c \in shown'
        PROVE  c \in Contacts /\ roles'[c].role = "Finger"
    <3>1. c \in live /\ c \in Contacts /\ roles'[c] = RoleIn(f, c, looks, enabled)
      BY <1>4, <1>5, <1>6
    <3>2. CASE c \in pass
      BY <1>11, <1>12, <3>1, <3>2 DEF pass, Passes, Roles
    <3>3. CASE ~f.discontinuity /\ c \in shown
      <4>1. Kept(f)[c] = roles[c] /\ roles[c].role = "Finger" /\ roles[c] # Untracked
        BY <3>3 DEF Kept, RolesInv, Untracked
      <4> QED  BY <3>1, <4>1 DEF RoleIn
    <3> QED  BY <1>4, <3>2, <3>3
  <2>2. ASSUME NEW c \in hidden'
        PROVE  c \in Contacts /\ roles'[c].role \in Suppressed
    <3>1. c \in live /\ c \in Contacts /\ roles'[c] = RoleIn(f, c, looks, enabled)
      BY <1>4, <1>5, <1>6
    <3>2. CASE c \in ids \ pass
      BY <1>11, <1>12, <3>1, <3>2 DEF pass, Passes, Roles
    <3>3. CASE ~f.discontinuity /\ c \in hidden
      <4>1. Kept(f)[c] = roles[c] /\ roles[c].role \in Suppressed /\ roles[c] # Untracked
        BY <3>3 DEF Kept, RolesInv, Untracked, Suppressed
      <4> QED  BY <3>1, <4>1 DEF RoleIn
    <3> QED  BY <1>4, <3>2, <3>3
  <2> QED  BY <2>1, <2>2 DEF RolesInv
<1>14. lastInput' \in Nat /\ lastInput' <= now'
  BY <1>1, <1>3, <1>4 DEF f, Frames
<1>15. /\ touches' \in Seq(Frames)' /\ keys' \in [Boards -> Seq(Known)']
       /\ activity' \in Seq(typed)'
  BY <1>1, <1>3, QueuesGrow DEF TypingInv
<1> QED
  BY <1>3, <1>9, <1>10, <1>13, <1>14, <1>15 DEF TypingInv, WindowOK

\* A step that leaves the devices' queues and the policy alone.
LEMMA UntimedKept ==
  ASSUME TypingInv, RolesInv, UNCHANGED untimedVars, now' \in Nat, now <= now'
  PROVE  TypingInv' /\ RolesInv'
BY TypingKept DEF untimedVars, RolesInv

LEMMA TypingStep ==
  ASSUME TypingInv, RolesInv, NodesInv, [Next]_vars
  PROVE  TypingInv' /\ RolesInv'
<1>0. now \in Nat /\ now + 1 \in Nat
  BY DEF TypingInv
<1>1. CASE UNCHANGED typingVars
  BY <1>0, <1>1, UntimedKept DEF typingVars
<1>2. CASE Wait
  BY <1>0, <1>2, UntimedKept DEF Wait
<1>3. CASE DrainKeyboard
  <2>1. First(todo) \in Boards
    BY <1>3, FirstIsOne, ServiceAssumption DEF DrainKeyboard, NodesInv
  <2>2. UNCHANGED typingVars \/ ReadKey(First(todo)) \/ LoseKeys(First(todo))
    BY <1>3 DEF DrainKeyboard
  <2>3. ReadKey(First(todo)) \/ LoseKeys(First(todo)) => UNCHANGED <<roles, shown, hidden>>
    BY DEF ReadKey, LoseKeys
  <2> QED
    BY <1>1, <2>1, <2>2, <2>3, ReadKeyStep, LoseKeysStep DEF RolesInv
<1>4. CASE NoteKeys
  <2>1. DwtOn(active) \in BOOLEAN /\ NoteActivity(DwtOn(active))
    BY <1>4 DEF NoteKeys, DwtOn
  <2>2. UNCHANGED <<roles, shown, hidden>>
    BY <2>1 DEF NoteActivity
  <2> QED
    BY <2>1, <2>2, NoteActivityStep DEF RolesInv
<1>5. CASE StepFrame
  <2>1. DwtOn(active) \in BOOLEAN
    BY DEF DwtOn
  <2>2. ProcessFrame(DwtOn(active))
    BY <1>5 DEF StepFrame
  <2> QED  BY <2>1, <2>2, ProcessFrameStep
<1>6. CASE Tick
  <2>1. CASE TickAt(MappedNow)
    <3>1. UNCHANGED <<now, typed, lastInput, keys, activity, window, down, touches,
                      roles, shown, hidden>>
      BY <2>1 DEF TickAt
    <3> QED  BY <1>0, <3>1, TypingKept DEF RolesInv
  <2> QED  BY <1>1, <1>6, <2>1 DEF Tick
<1>7. CASE UserActs
  <2>1. CASE \E m \in monitors, k \in Keys, v \in {"press", "release", "repeat"} :
               KeyHappens(m.path, k, v)
    <3>1. PICK m \in monitors, k \in Keys, v \in {"press", "release", "repeat"} :
            KeyHappens(m.path, k, v)
      BY <2>1
    <3>2. m.path \in Boards
      BY ServiceAssumption DEF NodesInv, Devices
    <3>3. UNCHANGED <<roles, shown, hidden>>
      BY <3>1 DEF KeyHappens
    <3> QED  BY <3>1, <3>2, <3>3, KeyHappensStep DEF RolesInv
  <2>2. CASE \E next \in SUBSET Contacts, resync \in BOOLEAN : TouchHappens(next, resync)
    <3>1. PICK next \in SUBSET Contacts, resync \in BOOLEAN : TouchHappens(next, resync)
      BY <2>2
    <3>2. UNCHANGED <<roles, shown, hidden>>
      BY <3>1 DEF TouchHappens
    <3> QED  BY <3>1, <3>2, TouchHappensStep DEF RolesInv
  <2> QED  BY <1>7, <2>1, <2>2 DEF UserActs
<1>8. CASE Pass
  BY <1>0, <1>8, UntimedKept DEF Pass
<1> QED
  BY <1>1, <1>2, <1>3, <1>4, <1>5, <1>6, <1>7, <1>8
     DEF Next, Startup, Loop, StartSettings, FindTouchpad, AcceptTouchpad, FindKeyboards,
         Apply, Poll, KeyboardsDrained, ReadTouchpad, Observe, Leave, Ended, Plug,
         FileChanges, vars

-----------------------------------------------------------------------------
(* The clock of the timers.                                                *)

LEMMA ClockKept ==
  ASSUME ClockInv, UNCHANGED <<lastInput, accepted, anchor>>, now' \in Nat, now \in Nat,
         now <= now', pc' \in {"frames", "ended"} \/ pc \notin {"frames", "ended"}
  PROVE  ClockInv'
BY DEF ClockInv

LEMMA ClockStep ==
  ASSUME ClockInv, TypingInv, [Next]_vars
  PROVE  ClockInv'
<1>0. now \in Nat /\ now + 1 \in Nat /\ lastInput \in Nat /\ lastInput <= now
  BY DEF TypingInv
<1>1. CASE StepFrame
  <2>1. ProcessFrame(DwtOn(active))
    BY <1>1 DEF StepFrame
  <2>2. accepted' = accepted + 1 /\ now' = now
    BY <2>1 DEF ProcessFrame
  <2>3. anchor' = anchor /\ pc' = "frames"
    BY <1>1 DEF StepFrame
  <2> QED  BY <1>0, <2>2, <2>3 DEF ClockInv
<1>2. CASE Observe
  BY <1>0, <1>2 DEF Observe, Anchored, ClockInv, typingVars, untimedVars
<1>3. CASE Wait
  BY <1>0, <1>3, ClockKept DEF Wait, untimedVars
<1>4. CASE DrainKeyboard \/ NoteKeys
  BY <1>0, <1>4, ClockKept
     DEF DrainKeyboard, NoteKeys, ReadKey, LoseKeys, NoteActivity, typingVars, untimedVars
<1>5. CASE Tick
  BY <1>0, <1>5, ClockKept DEF Tick, TickAt, typingVars, untimedVars
<1>6. CASE UserActs
  <2>1. UNCHANGED pc /\ UNCHANGED anchor
    BY <1>6 DEF UserActs
  <2>2. CASE \E m \in monitors, k \in Keys, v \in {"press", "release", "repeat"} :
               KeyHappens(m.path, k, v)
    <3>1. UNCHANGED <<now, lastInput, accepted>>
      BY <2>2 DEF KeyHappens
    <3> QED  BY <1>0, <2>1, <3>1, ClockKept
  <2>3. CASE \E next \in SUBSET Contacts, resync \in BOOLEAN : TouchHappens(next, resync)
    <3>1. UNCHANGED <<now, lastInput, accepted>>
      BY <2>3 DEF TouchHappens
    <3> QED  BY <1>0, <2>1, <3>1, ClockKept
  <2> QED  BY <1>6, <2>2, <2>3 DEF UserActs
<1>7. CASE Pass
  BY <1>0, <1>7, ClockKept DEF Pass, untimedVars, loopVars
<1>8. CASE Startup \/ Apply \/ Poll \/ KeyboardsDrained \/ ReadTouchpad
  BY <1>0, <1>8, ClockKept
     DEF Startup, StartSettings, FindTouchpad, AcceptTouchpad, FindKeyboards, Apply, Poll,
         KeyboardsDrained, ReadTouchpad, typingVars, untimedVars
<1>9. CASE Leave \/ Plug \/ FileChanges \/ Ended \/ UNCHANGED vars
  BY <1>0, <1>9, ClockKept
     DEF Leave, Plug, FileChanges, Ended, vars, loopVars, typingVars, untimedVars
<1> QED
  BY <1>1, <1>2, <1>3, <1>4, <1>5, <1>6, <1>7, <1>8, <1>9 DEF Next, Loop

-----------------------------------------------------------------------------
(* The theorems.                                                           *)

\* The strengthening from which the rest follows: the settings, the nodes, the
\* touches and the clock each keep their part of it.
THEOREM ServiceInvariant == Spec => []ServiceInv
<1>1. Init => SettingsInv
  BY DEF Init, SettingsInit, TypingInit, SettingsInv, NewestUpdateWins, NoUpdate
<1>2. Init => NodesInv
  <2>1. Init => Owned = 0
    BY FS_EmptySet DEF Init, NodesInit, Owned
  <2> QED
    BY <2>1, FS_EmptySet, NodesAssumption
       DEF Init, NodesInit, Layouts, NodesInv, DescriptorsOwned, Running
<1>3. Init => TypingInv /\ RolesInv
  <2> SUFFICES ASSUME Init PROVE TypingInv /\ RolesInv
    OBVIOUS
  <2>1. keys \in [Boards -> Seq(Known)] /\ activity \in Seq(typed) /\ touches \in Seq(Frames)
    BY DEF Init, TypingInit
  <2>2. roles \in [Contacts -> Records]
    BY DEF Init, TypingInit, Records
  <2>3. TypingOnlyWhenArmed
    BY DEF Init, TypingInit, TypingOnlyWhenArmed, Untracked
  <2> QED
    BY <2>1, <2>2, <2>3 DEF Init, TypingInit, TypingInv, RolesInv, WindowOK
<1>4. Init => ClockInv
  BY DEF Init, TypingInit, NoAnchor, ClockInv
<1>5. ServiceInv /\ [Next]_vars => ServiceInv'
  BY SettingsStep, NodesStep, TypingStep, ClockStep DEF ServiceInv
<1> QED
  BY <1>1, <1>2, <1>3, <1>4, <1>5, PTL DEF Spec, ServiceInv

\* No descriptor is without an owner at any step of the startup or the loop, and
\* what the takeover runs on was judged a touchpad on the descriptor it reads.
THEOREM DevicesAreInHand == Spec => []DevicesInHand
<1>1. ServiceInv => DevicesInHand
  BY DEF ServiceInv, NodesInv, DevicesInHand, SessionIsTouchpad
<1> QED  BY <1>1, ServiceInvariant, PTL

\* A touch is kept out for typing only when a letter had been pressed by the time
\* it began and less than the long window before, and then from beginning to end.
THEOREM TypingIsInHand == Spec => []TypingInHand
<1>1. RolesInv => WholeOrNothing
  BY DEF RolesInv, WholeOrNothing, Suppressed
<1>2. ServiceInv => TypingInHand
  BY <1>1 DEF ServiceInv, TypingInv, TypingInHand
<1> QED  BY <1>2, ServiceInvariant, PTL

\* No settings update that was loaded is lost to an older one.
THEOREM NewestSettingsWin == Spec => []NewestUpdateWins
<1>1. ServiceInv => NewestUpdateWins
  BY DEF ServiceInv, SettingsInv
<1> QED  BY <1>1, ServiceInvariant, PTL

\* The configuration changes only at the arbiter's neutral boundary, only to a
\* content that was judged valid, and its generation only grows.
THEOREM SettingsChangeAtRest == Spec => AppliedAtNeutralBoundary
<1>1. ServiceInv /\ [Next]_vars =>
        [active' # active /\ pc # "read" =>
           arb = "rest" /\ active' \in Sound /\ activeGen' > activeGen]_vars
  BY BoundaryStep DEF ServiceInv
<1> QED
  BY <1>1, ServiceInvariant, PTL DEF Spec, AppliedAtNeutralBoundary

\* The mapped clock of the timers is never behind the last frame and never
\* ahead of the devices.
THEOREM TimersAreOnTime == Spec => []TimersKeepTime
<1>1. ServiceInv => TimersKeepTime
  <2> SUFFICES ASSUME ServiceInv, pc = "tick", anchor # NoAnchor
               PROVE  MappedNow \in lastInput..now
    BY DEF TimersKeepTime
  <2>1. /\ lastInput = anchor.input /\ anchor.process \in Nat /\ anchor.input \in Nat
        /\ anchor.process <= now /\ anchor.input <= anchor.process /\ now \in Nat
    BY DEF ServiceInv, ClockInv, TypingInv
  <2> QED  BY <2>1 DEF MappedNow
<1> QED  BY <1>1, ServiceInvariant, PTL
=============================================================================
