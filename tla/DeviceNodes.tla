---------------------------- MODULE DeviceNodes -----------------------------
(***************************************************************************)
(* Startup discovery: enumerate and probe (device.rs), the choice of the   *)
(* touchpad (takeover.rs, discover_unique_touchpad), the opening of the    *)
(* session device (runtime.rs, EvdevRuntime::open) and the keyboards that  *)
(* typing suppression listens to (keyboard.rs).                            *)
(*                                                                         *)
(* A path is looked up anew every time it is opened, and udev may put      *)
(* another device behind it in between; a descriptor stays with the device *)
(* it was opened on.  What a probe reads off a device is its nature:       *)
(* a touchpad, a device that is no touchpad and no keyboard, a keyboard    *)
(* that is built in, one that is not.                                      *)
(***************************************************************************)
EXTENDS Naturals, FiniteSets

CONSTANTS
  Paths,      \* event nodes, in the order of their names
  Pads, Inner, Outer   \* paths known to be a touchpad, a built-in keyboard,
                       \* another keyboard at the start

Natures == {"none", "pad", "other", "inner", "outer"}

ASSUME NodesAssumption == Paths \subseteq Nat \ {0}

VARIABLES
  node,          \* the device behind each path
  fds,           \* descriptors the process holds
  stage,         \* the scan in progress: touchpads, keyboards, or none
  listed,        \* paths of the scan still to probe
  probed,        \* the device of the probe in progress
  found,         \* paths the scan has judged fit
  session,       \* the runtime's device: path and nature
  monitors       \* the keyboards listened to

nodeVars == <<node, fds, stage, listed, probed, found, session, monitors>>

Nobody  == [path |-> 0, nature |-> "none"]
On(p)   == [path |-> p, nature |-> node[p]]
First(s) == CHOOSE p \in s : \A q \in s : p <= q

(* What may be plugged in at the start.                                    *)
Layouts ==
  {f \in [Paths -> Natures] :
     \A p \in Paths : /\ p \in Pads  => f[p] = "pad"
                      /\ p \in Inner => f[p] = "inner"
                      /\ p \in Outer => f[p] = "outer"}

NodesInit ==
  /\ node \in Layouts /\ fds = 0 /\ stage = "none" /\ listed = {}
  /\ probed = Nobody /\ found = {} /\ session = Nobody /\ monitors = {}

(* probe_open_fd: what the queries on one descriptor say, which is nothing *)
(* when one of them fails or answers only in part.                         *)
ReadOff(nature, ok) == IF ok THEN nature ELSE "none"

(* decide_verdict and probe_keyboard_fd.                                   *)
IsTouchpad(reading)      == reading = "pad"
IsInnerKeyboard(reading) == reading = "inner"

(* read_dir: the paths there are now; a keyboard is not sought behind the  *)
(* touchpad's own node.                                                    *)
List(what) ==
  /\ stage = "none" /\ stage' = what /\ found' = {} /\ probed' = Nobody
  /\ listed' = {p \in Paths : node[p] # "none" /\ p # session.path}
  /\ UNCHANGED <<node, fds, session, monitors>>

(* A node that cannot be opened is passed over.                            *)
ProbeOpens(ok) ==
  /\ stage # "none" /\ listed # {} /\ probed = Nobody
  /\ LET p == First(listed)
     IN  IF ok /\ node[p] # "none"
         THEN probed' = On(p) /\ fds' = fds + 1 /\ UNCHANGED listed
         ELSE listed' = listed \ {p} /\ UNCHANGED <<probed, fds>>
  /\ UNCHANGED <<node, stage, found, session, monitors>>

ClosedAfterProbe(ok) == fds - 1

(* The ioctls, which fail on a device that is gone, and the close.         *)
ProbeReads(ok) ==
  /\ probed # Nobody /\ fds' = ClosedAfterProbe(ok) /\ probed' = Nobody
  /\ listed' = listed \ {probed.path}
  /\ LET reading == ReadOff(probed.nature, ok)
         fit == \/ stage = "touchpads" /\ IsTouchpad(reading)
                \/ stage = "keyboards" /\ IsInnerKeyboard(reading)
     IN  found' = IF fit THEN found \cup {probed.path} ELSE found
  /\ UNCHANGED <<node, stage, session, monitors>>

Scanned == stage # "none" /\ listed = {} /\ probed = Nobody

(* Exactly one candidate, or none is taken.                                *)
Unique == Cardinality(found) = 1

(* EvdevRuntime::open: the node is opened once, and judged again on that   *)
(* descriptor.                                                             *)
OpenSession ==
  /\ Scanned /\ stage = "touchpads" /\ Unique
  /\ LET p == First(found)
     IN  node[p] # "none" /\ session' = On(p) /\ fds' = fds + 1
  /\ stage' = "none" /\ found' = {}
  /\ UNCHANGED <<node, listed, probed, monitors>>

(* Mutant: the verdict of the enumeration is trusted.                      *)
AcceptUnseen(nature, ok) == ok

AcceptSession(nature, ok) == IsTouchpad(ReadOff(nature, ok))

(* KeyboardMonitor::open, by path; a clock that cannot be set closes it.   *)
MonitorOpens(ok) ==
  /\ Scanned /\ stage = "keyboards" /\ found # {}
  /\ LET p == First(found)
     IN  /\ found' = found \ {p}
         /\ IF ok /\ node[p] # "none"
            THEN monitors' = monitors \cup {On(p)} /\ fds' = fds + 1
            ELSE UNCHANGED <<monitors, fds>>
  /\ UNCHANGED <<node, stage, listed, probed, session>>

(* Everything is dropped, each with its descriptor.                        *)
Owned == (IF probed = Nobody THEN 0 ELSE 1) + (IF session = Nobody THEN 0 ELSE 1)
           + Cardinality(monitors)

DropDevices ==
  /\ fds' = fds - Owned /\ probed' = Nobody /\ session' = Nobody /\ monitors' = {}
  /\ stage' = "none" /\ listed' = {} /\ found' = {} /\ UNCHANGED node

(* After the startup no path is looked up again.                           *)
KeepDevices ==
  /\ Scanned /\ stage = "keyboards" /\ found = {} /\ stage' = "none"
  /\ node' = [p \in Paths |-> "none"]
  /\ UNCHANGED <<fds, listed, probed, found, session, monitors>>

(* A read error: the monitor is removed, and closed as it is dropped.      *)
MonitorLost(m) ==
  /\ m \in monitors /\ monitors' = monitors \ {m} /\ fds' = fds - 1
  /\ UNCHANGED <<node, stage, listed, probed, found, session>>

Replug(p, nature) ==
  /\ node[p] # nature /\ node' = [node EXCEPT ![p] = nature]
  /\ UNCHANGED <<fds, stage, listed, probed, found, session, monitors>>

-----------------------------------------------------------------------------
(* No descriptor without an owner: every probe closes the one it opened,   *)
(* whatever fails (device.rs: "the probe handle is always closed").        *)
DescriptorsOwned == fds = Owned

(* The takeover never runs on a node that is no touchpad, whatever udev    *)
(* put behind the path between the scan and the session's own open.        *)
SessionIsTouchpad(running) == running => session.nature = "pad"
=============================================================================
