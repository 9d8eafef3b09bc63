------------------------------ MODULE Service -------------------------------
(***************************************************************************)
(* `touchpadctl takeover` as a service: the order of its startup           *)
(* (takeover.rs, run_inner) and the rounds of its loop (run_loop), over    *)
(* the settings file, the device nodes and the typing policy.  Each round  *)
(* applies the pending settings, polls the file, waits, drains the         *)
(* keyboards, steps the runtime through one read, and ticks the timers     *)
(* with a clock mapped into the time of the input.                         *)
(*                                                                         *)
(* The output session and the cleanup are in Takeover and OutputSession.   *)
(***************************************************************************)
EXTENDS LiveSettings, DeviceNodes, Typing

CONSTANTS
  Enabled,       \* the settings with dwt.enabled
  MaxEvents      \* bound: keys, touches, edits, faults in a behaviour

ASSUME ServiceAssumption == Boards = Paths /\ Enabled \subseteq Sound /\ MaxEvents \in Nat

VARIABLES
  pc,      \* the step the command is about to make
  ready,   \* the wait found the touchpad readable
  todo,    \* monitors not yet drained in this round
  batch,   \* frames of the read in progress
  anchor,  \* InputDomainTickClock
  spent    \* events so far

loopVars == <<pc, ready, todo, batch, anchor, spent>>
vars     == <<settingsVars, nodeVars, typingVars, loopVars>>

NoAnchor == [process |-> 0, input |-> 0, sequence |-> 0]

Init ==
  /\ SettingsInit /\ NodesInit /\ TypingInit
  /\ pc = "read" /\ ready = FALSE /\ todo = {} /\ batch = 0
  /\ anchor = NoAnchor /\ spent = 0

Starting == {"read", "watch", "find", "accept", "listen"}
Running  == {"loop", "poll", "wait", "keys", "note", "read-touchpad",
              "frames", "tick"}

-----------------------------------------------------------------------------
(* The startup.                                                            *)

StartSettings ==
  /\ \/ pc = "read" /\ ReadSettings /\ pc' = "watch"
     \/ pc = "watch" /\ CreateWatcher /\ pc' = "find"
  /\ UNCHANGED <<nodeVars, typingVars, ready, todo, batch, anchor, spent>>

Spends == spent < MaxEvents /\ spent' = spent + 1

(* A step that works, or one that fails, which is an event.                *)
Costs(ok) == IF ok THEN UNCHANGED spent ELSE Spends

Scan(what) ==
  \/ List(what) /\ UNCHANGED spent
  \/ \E ok \in BOOLEAN : Costs(ok) /\ (ProbeOpens(ok) \/ ProbeReads(ok))

FindTouchpad ==
  /\ pc = "find"
  /\ \/ Scan("touchpads") /\ UNCHANGED pc
     \/ OpenSession /\ pc' = "accept" /\ UNCHANGED spent
  /\ UNCHANGED <<settingsVars, typingVars, ready, todo, batch, anchor>>

(* EvdevRuntime::open on its own descriptor; any failure gives it up.      *)
AcceptTouchpad ==
  /\ pc = "accept" /\ \E ok \in BOOLEAN : AcceptSession(session.nature, ok)
  /\ pc' = "listen"
  /\ UNCHANGED <<settingsVars, nodeVars, typingVars, ready, todo, batch, anchor, spent>>

FindKeyboards ==
  /\ pc = "listen"
  /\ \/ Scan("keyboards") /\ UNCHANGED pc
     \/ \E ok \in BOOLEAN : MonitorOpens(ok) /\ Costs(ok) /\ UNCHANGED pc
     \/ KeepDevices /\ pc' = "loop" /\ UNCHANGED spent
  /\ UNCHANGED <<settingsVars, typingVars, ready, todo, batch, anchor>>

Startup == StartSettings \/ FindTouchpad \/ AcceptTouchpad \/ FindKeyboards

-----------------------------------------------------------------------------
(* The loop.                                                               *)

Accepts == Quiescent

Apply ==
  /\ pc = "loop" /\ ApplyPending(Accepts) /\ pc' = "poll"
  /\ UNCHANGED <<nodeVars, typingVars, ready, todo, batch, anchor, spent>>

Poll ==
  /\ pc = "poll" /\ PollSettings(Accepts) /\ pc' = "wait"
  /\ UNCHANGED <<nodeVars, typingVars, ready, todo, batch, anchor, spent>>

(* The wait ends when the touchpad is readable, by whole frames or a part  *)
(* of one, or when the quantum is over.                                    *)
Wait ==
  /\ pc = "wait" /\ todo' = {m.path : m \in monitors} /\ pc' = "keys"
  /\ \/ touches # <<>> /\ ready' = TRUE /\ UNCHANGED <<now, spent>>
     \/ touches = <<>> /\ ready' = TRUE /\ Spends /\ UNCHANGED now
     \/ touches = <<>> /\ ready' = FALSE /\ UNCHANGED spent
        /\ now' = IF now <= Horizon + Gap + 1 THEN now + 1 ELSE now
  /\ UNCHANGED <<settingsVars, nodeVars, untimedVars, batch, anchor>>

DwtOn(config) == config \in Enabled

(* One keyboard after the other is read until it has nothing more; one     *)
(* that fails to read is dropped.                                          *)
DrainKeyboard ==
  /\ pc = "keys" /\ todo # {}
  /\ LET b == First(todo)
     IN  \/ ReadKey(b) /\ UNCHANGED <<nodeVars, pc, todo, spent>>
         \/ /\ keys[b] = <<>> /\ activity # <<>> /\ pc' = "note"
            /\ UNCHANGED <<nodeVars, typingVars, todo, spent>>
         \/ /\ keys[b] = <<>> /\ activity = <<>> /\ todo' = todo \ {b}
            /\ UNCHANGED <<nodeVars, typingVars, pc, spent>>
         \/ /\ LoseKeys(b) /\ \E m \in monitors : m.path = b /\ MonitorLost(m)
            /\ Spends /\ todo' = todo \ {b} /\ UNCHANGED pc
  /\ UNCHANGED <<settingsVars, ready, batch, anchor>>

(* The times it collected go to the typing policy before the next is read. *)
NoteKeys ==
  /\ pc = "note" /\ NoteActivity(DwtOn(active))
  /\ IF activity' = <<>> THEN pc' = "keys" /\ todo' = todo \ {First(todo)}
                         ELSE UNCHANGED <<pc, todo>>
  /\ UNCHANGED <<settingsVars, nodeVars, ready, batch, anchor, spent>>

KeyboardsDrained ==
  /\ pc = "keys" /\ todo = {}
  /\ pc' = IF ready THEN "read-touchpad" ELSE "tick"
  /\ UNCHANGED <<settingsVars, nodeVars, typingVars, ready, todo, batch, anchor, spent>>

(* step_deferred: one read, of as many frames as it holds.                 *)
ReadTouchpad ==
  /\ pc = "read-touchpad" /\ batch' \in (IF touches = <<>> THEN {0} ELSE 1..Len(touches)) /\ pc' = "frames"
  /\ UNCHANGED <<settingsVars, nodeVars, typingVars, ready, todo, anchor, spent>>

StepFrame ==
  /\ pc = "frames" /\ batch > 0 /\ ProcessFrame(DwtOn(active)) /\ batch' = batch - 1
  /\ UNCHANGED <<settingsVars, nodeVars, pc, ready, todo, anchor, spent>>

Anchored == IF accepted = anchor.sequence THEN anchor
            ELSE [process |-> now, input |-> lastInput, sequence |-> accepted]

(* observe_input, after the read.                                          *)
Observe ==
  /\ pc = "frames" /\ batch = 0 /\ anchor' = Anchored /\ pc' = "tick"
  /\ UNCHANGED <<settingsVars, nodeVars, typingVars, ready, todo, batch, spent>>

MappedNow == anchor.input + (now - anchor.process)

DueWhenRead == arb = "tapped" /\ ready   \* mutant: a tick needs input
Due         == arb = "tapped"

Tick ==
  /\ pc = "tick" /\ pc' = "loop" /\ ready' = FALSE
  /\ IF Due /\ anchor # NoAnchor THEN TickAt(MappedNow) ELSE UNCHANGED typingVars
  /\ UNCHANGED <<settingsVars, nodeVars, todo, batch, anchor, spent>>

Loop == \/ Apply \/ Poll \/ Wait \/ DrainKeyboard \/ NoteKeys \/ KeyboardsDrained
        \/ ReadTouchpad \/ StepFrame \/ Observe \/ Tick

(* A failed startup step, a signal, the deadline, a fault, a stream error, *)
(* a status line that cannot be written; at the head of the loop or in a   *)
(* batch, as nothing outlives the loop that a later stop could find.       *)
Leave ==
  /\ pc \in Starting \cup {"loop", "frames"}
  /\ pc' = "ended" /\ DropDevices
  /\ ready' = FALSE /\ todo' = {} /\ batch' = 0
  /\ UNCHANGED <<settingsVars, typingVars, anchor, spent>>

Ended == pc = "ended" /\ UNCHANGED vars

-----------------------------------------------------------------------------
(* The rest of the world.  What happens is taken just before the first     *)
(* step that could tell it happened: the file before it is read, a key or  *)
(* a touch before its queue is, a moment before a clock or a time stamp.   *)

(* Devices are replugged while paths are looked up.                        *)
Plug ==
  /\ pc \in {"find", "listen"} /\ Spends
  /\ \E p \in Paths, nature \in Natures : Replug(p, nature)
  /\ UNCHANGED <<settingsVars, typingVars, pc, ready, todo, batch, anchor>>

FileChanges ==
  /\ pc \in {"watch", "poll"}
  /\ \/ Spends /\ (PatchReads \/ \E c \in Sound \cup {Torn, Unreadable} : Edit(c))
     \/ UNCHANGED spent /\ (PatchTruncates \/ \E c \in Sound \cup {Torn} : PatchEnds(c))
  /\ UNCHANGED <<nodeVars, typingVars, pc, ready, todo, batch, anchor>>

UserActs ==
  /\ Spends
  /\ \/ /\ pc \in {"wait", "keys"}
        /\ \E m \in monitors, k \in Keys, v \in {"press", "release", "repeat"} :
             KeyHappens(m.path, k, v)
     \/ /\ pc \in {"wait", "read-touchpad", "tick"}
        /\ \E next \in SUBSET Contacts, resync \in BOOLEAN : TouchHappens(next, resync)
  /\ UNCHANGED <<settingsVars, nodeVars, pc, ready, todo, batch, anchor>>

(* Time also goes on while the command is at work; the bound holds it when *)
(* nothing more is to happen.                                              *)
Pass ==
  /\ pc \in {"read-touchpad", "frames", "tick"} /\ now <= Horizon /\ now' = now + 1
  /\ UNCHANGED <<settingsVars, nodeVars, untimedVars, loopVars>>

Next == Startup \/ Loop \/ Leave \/ Ended \/ Plug \/ FileChanges \/ UserActs \/ Pass

Spec     == Init /\ [][Next]_vars
FairSpec == Spec /\ WF_vars(Loop)

-----------------------------------------------------------------------------
(* Properties.                                                             *)

\* What runs was judged a touchpad on the descriptor it is read from, and no
\* descriptor is without an owner.
DevicesInHand == DescriptorsOwned /\ SessionIsTouchpad(pc \in Running)

\* A touch is kept out for typing only, and then from its beginning to its end.
TypingInHand == TypingOnlyWhenArmed /\ WholeOrNothing

\* The clock of the timers never runs behind the last frame, which would
\* fault the bridge, nor ahead of the devices, which would cut a tap short.
TimersKeepTime ==
  pc = "tick" /\ anchor # NoAnchor => MappedNow \in lastInput..now

\* A tap's button is released at its time, and not left down for want of
\* input.
TapIsReleased ==
  []TimersKeepTime /\ (arb = "tapped" ~> (arb # "tapped" \/ pc = "ended"))

\* The configuration changes only between interactions, to a content that
\* was judged valid, and never back to an older generation.
AppliedAtNeutralBoundary ==
  [][active' # active /\ pc # "read" =>
       arb = "rest" /\ active' \in Sound /\ activeGen' > activeGen]_vars

\* A file that is left valid is in use for good, whatever was torn or lost on
\* the way, if the arbiter is at rest at the head of the loop again and again.
\* A content that came between the two reads of the startup is the exception,
\* until an update has been loaded: the watcher takes it for known.
EventuallyInUse ==
  []<>(pc = "loop" /\ arb = "rest") =>
    <>[](file \in Sound /\ ~(overlooked /\ generation = 0) => active = file)

\* The way of an update from the file to the arbiter.
SettingsTakeEffect == AppliedAtNeutralBoundary /\ EventuallyInUse
=============================================================================
