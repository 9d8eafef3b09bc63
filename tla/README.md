# Verification of touchpad2mac

TLA+ models of the touchpad driver in this repository, the TLC configurations
that check them on small instances, and proofs checked by TLAPS. Paths below
are relative to the repository root; `core/`, `linux/`, `desktop/`, `trace/` stand for
`src/crates/touchpad-core/src/` and so on, `ctl/` for `src/apps/touchpadctl/src/`.
`PROJECT.json` maps every definition to the lines it models, every property to a
bug that breaks it, and every hazard to the properties that watch it.

## The system

`touchpadctl takeover` (and `service-run`) grabs a Type-B multitouch touchpad,
decodes its events into contact frames, interprets the frames as pointer,
button, scroll and gesture actions, and submits these to the desktop through the XDG
RemoteDesktop portal and libei. At the end it gives everything back.
`record` writes the raw events to a trace file instead, `replay` decodes
such a file. The other commands edit and check documents, probe devices and the
desktop, and emit a small fixed pattern.

| Component | Source | State | Operations |
|---|---|---|---|
| Takeover coordinator | `ctl/cmd/takeover.rs` | guard, stop flags, deadline, stop reason, tick clock | prepare, countdown, grab, loop (stop, deadline, settings, wait, keyboards, read, tick), finalize, compose the result |
| Evdev runtime, device handle | `linux/runtime.rs`, `grab.rs` | phase, recorder, fd, grab | open, grab, step, shutdown, fail open |
| Device probing, keyboards | `linux/device.rs`, `keyboard.rs` | descriptors, key queues | enumerate, probe, choose, drain |
| Type-B decoder | `linux/decode.rs` | sync state, selected slot, committed slots, pending packet, buttons | feed, commit, resync |
| Axes, quirks, contacts | `core/axis.rs`, `quirks.rs`, `profile.rs`, `contact.rs` | overrides, diagnostics | configure, convert, validate |
| Kernel snapshot | `linux/snapshot.rs`, `resync.rs` | none | one ioctl per axis, validation |
| Semantic bridge | `linux/bridge.rs` | first fault, stopped | on_frame, tick, release, replace configuration |
| Arbiter | `core/arbiter.rs` | pointer lifecycle, tap/drag/lock phase, two-finger phase, button sources, open scroll | frame, tick, release_all, try_replace_config |
| Policies above it | `core/three_finger_drag.rs`, `gesture.rs`, `gesture_bindings.rs` | drag phase, candidate, committed gesture, route | process a frame, cancel, route |
| Typing filter | `core/robustness.rs`, `dwt.rs` | last key, quiet window, roles of contacts | note typing, filter a frame |
| Motion stages | `core/fidelity.rs`, `scroll_fidelity.rs` | dead zone, velocity, axis lock, remainders, momentum | process, reset, tick |
| ArbiterSink | `core/arbiter.rs`, second half | what was delivered, fault | frame, tick, release_all with acknowledgement |
| Portal output session | `desktop/sink.rs`, `held.rs`, `streaming.rs` | SessionState, handles, held state | prepare, submit, pump, release, recover, drop |
| Portal client | `desktop/portal_zbus.rs` | token counter, subscription | request and await each answer, close |
| Native transport | `desktop/native_transport.rs`, `ffi.rs` | counted references, queues, descriptor | connect, wait, poll, request, frame, disconnect |
| Desktop actions | `desktop/kde_actions.rs` | verified bindings | preflight, invoke |
| Live settings | `ctl/cmd/live_settings.rs` | last hash, pending update | poll, queue, apply |
| Recording | `ctl/cmd/record.rs`, `linux/recorder.rs`, `trace/writer.rs` | buffer, file, poison flag | prepare, grab, record, flush, finish, choose the result |
| Trace reader, replay | `trace/reader.rs`, `replay.rs`, `ctl/cmd/replay.rs` | reader state, last time stamp | read header, read event, finish |
| Documents, profiles | `core/settings.rs`, `feel.rs`, `m10.rs` to `m19.rs`, `ctl/cmd/settings.rs`, `feel.rs`, `config.rs` | files | validate, edit, write, select a profile |
| Service contracts | `core/production.rs` | lifecycle, two reconnect controllers | transition, failure, success, stop |
| Command line, other commands | `ctl/args.rs`, `main.rs`, `lib.rs`, `cmd/` | none | parse, run, exit code |
| Output probe | `ctl/cmd/output_probe.rs`, `desktop/emit.rs`, `desktop.rs` | pattern position, errors | countdown, emit, clean up |
| Signals | `linux/signals.rs`, `sys/ffi.rs` | dispositions, marker, stop flag | install, handle, restore |
| Windows adapter | `src/crates/touchpad-windows`, `ctl/cmd/windows.rs` | pending report, slots, gate, held buttons, wheel residues, capture file | push a report, overlay, submit, release, probe, capture |
| Test kit | `src/crates/touchpad-testkit`, fakes | | not modelled |

How they interact. The coordinator is one thread. It calls the runtime's `step`;
the runtime reads a batch, records it and feeds each event to the decoder; the
decoder calls the bridge with a frame; the bridge calls `ArbiterSink::frame`,
which runs the arbiter (typing filter, drag, gestures, then one and two fingers)
and submits its events to the streaming output, which hands actions to KDE and
the rest to the portal sink, which writes wire frames to libei and pumps the
server's events before and after. All of this is nested calls, so a failure
anywhere comes back as a stored fault. What runs concurrently is outside:
signals, the kernel and the finger, keyboards, udev, the compositor, the portal
and the user who answers it, the editor of the settings file, and time.

What makes it hard: every one of some thirty calls can fail and each has its own
cleanup; the compositor can interrupt a session between any two wire calls; the
wire has a press before any ledger records it; events of the compositor wait in
four queues and change reference counts when they are told, not when they come;
a portal answers before or after anybody waits; a queue overflow cuts a packet in
two and the snapshot that repairs it is not atomic; a tap's release is deferred
to a timer, whose clock is not the input's; three sources share one wire button,
and two policies one of them; settings change under a running interaction; a
path names another device a moment later; key presses are read out of order; a
write of the trace may stop in the middle of a line; a signal may fall between the
poll of a flag and a blocking read, or between two calls of `sigaction`.

What makes each part correct:

- coordinator: whatever happens, the touchpad is back, nothing is left down on
  the desktop, the order of cleanup is kept, and the exit status tells the truth;
- decoder: frames show what the stream says, contacts begin, continue and end in
  order, and after a loss the decoder agrees with the hardware again;
- coordinates: a value shown is the count reported, and a gap is explained;
- arbiter: what the output holds is what the sources say, at every event, and
  whatever is held has one owner that lets go of it; gestures are told in order;
- motion: no millimetre is lost, none moves the pointer twice;
- typing: a touch is kept out for a reason that came before it, and as a whole;
- output: arbiter, adapter, sink and compositor agree on what is down, and
  whatever is down can still be released;
- backend: events once and in order, no reference, descriptor or session left,
  no wait without end, directional actions that go their direction;
- recording and replay: the result tells the truth about the file, whoever reads
  it sees a beginning of what the device delivered, and nothing behind an error;
- live settings: the newest valid file is in use eventually, and it never
  changes in the middle of an interaction;
- documents and commands: what an edit reports it has saved, what was validated
  is not refused later, an exit code says what happened;
- signals: nothing of the handler outlives its guard;
- Windows: frames show who the reports said was down, the overlay hands on whole clusters
  only, what is down in the sink can be released, a capture says how much it holds.

## Modules

| Module | Models | Extends |
|---|---|---|
| `Takeover` | coordinator, runtime lifecycle, device handle, recorder lifetime, bridge, signals | |
| `NeutralOutput` | abstract specification: what the desktop is promised | |
| `OutputSession` | `ArbiterSink`, `PortalOutputSink`, held state, transport, compositor | instantiates `NeutralOutput` |
| `LifecycleChannel` | abstract specification: what a transport promises its caller | |
| `Transport` | libei, its queues and counted objects, the compositor | instantiates `LifecycleChannel` |
| `PortalClient` | the portal's requests, answers and sessions | |
| `KdeActions` | bindings, the Overview and the user who toggles it | |
| `Backend` | the streaming output over these three | `Transport`, `PortalClient`, `KdeActions` |
| `Recording` | record command, fail-open step, recorder, trace writer, BufWriter, file, trace reader | |
| `LiveSettings` | startup read, watcher, queue, neutral boundary, `settings-patch`, editor | |
| `DeviceNodes` | enumeration, probe, choice, descriptors, udev | |
| `Typing` | keyboards and touches in their queues, quiet window, roles | |
| `Service` | startup and loop of the service over these three | `LiveSettings`, `DeviceNodes`, `Typing` |
| `TypeBDecoder` | the decoder's state and operations | |
| `TraceDecoder` | decoder fed by any recorded stream, beside a per-event reference | `TypeBDecoder` |
| `Replay`, `MCReplay` | lines of a trace, reader, driver, replay command | `TraceDecoder` |
| `EvdevStream` | decoder fed by touchpad, bounded kernel queue, batches, snapshot ioctls | `TypeBDecoder` |
| `Coordinates` | quirks, profile, conversion, values and diagnostics of a frame | |
| `Arbiter`, `MCArbiter` | interaction policy and source multiplexer | |
| `GestureArbiter`, `MCGestureArbiter` | three-finger drag, continuous gestures, routing above it | `Arbiter` |
| `Fidelity`, `ScrollFidelity` | the motion and scroll stages | |
| `Motion` | the interactions that drive them | `ScrollFidelity` |
| `PrecisionTouchpad` | Windows: hybrid reports into frames and slots; the gate before an arbiter | |
| `WindowsOutput` | Windows: the SendInput sink and its probe | |
| `RawCapture` | Windows: the capture command and its file | |
| `MCMotion` | joins the five | `Motion`, `Coordinates`, `PrecisionTouchpad`, `WindowsOutput`, `RawCapture` |
| `Documents` | feel, settings and runtime documents, edits, validation, migration | |
| `Profiles` | m10 to m19 and what every stage's constructor demands | `Documents` |
| `CommandLine` | `parse_args` | `Documents` |
| `EmitPattern` | the guarded emission | |
| `Production` | lifecycle and reconnect controllers under any host | `Documents` |
| `Commands`, `MCCommands` | processes one after another on the same files | `CommandLine`, `Profiles`, `EmitPattern`, `Production` |
| `TerminationHandler` | the handler of SIGINT and SIGTERM; `MCCommands` joins it | |

The proofs are in modules of their own, each on top of what it proves about:
`TakeoverProofs`, `OutputSessionProofs`, `RecordingProofs`, `ServiceProofs`,
`DecoderProofs` (on `Replay` and `EvdevStream`), `ArbiterProofs`, `MotionProofs` (on `MCMotion`) and
`HostProofs` (on `Backend`, `TerminationHandler` and `Commands`, with `Production` and `EmitPattern` below it).

**Takeover.** `pc` names the call about to be made; one action per call that can
fail or block, each with its failing branch. Signals (`RequestStop`), server
interruptions, unwinds and clock ticks are separate actions that may fall
between any two. `Unwind` is a panic before `finalize`: the guard's `Drop` runs.
Merged or left out: printing of status lines is only its failure; the two
back-to-back cancellation checks are one step (`Recheck`); profile and settings
loading before the device is open hold nothing and are in `Commands` and `Service`.
`service-run` is the same machine without trace, countdown and deadline, and always
with a watcher. The arbiter is three bits here: something is held, a release is
deferred, the session is lost.

**OutputSession.** A decision is a short sequence of events, split into wire
frames as `submit_frame_at` splits it; each wire frame is pump, requests and
commit, pump, record, acknowledge. `desktop` is what the compositor has down and
is changed only by the commit and by the compositor. Every capability is taken
as negotiated (the coordinator refuses anything less). Keys (no caller sends one)
and time stamps are left out. Native requests fail only when the device is not
resumed. A poll error loses the pause or removal drained before it (`blind`).

**Transport, PortalClient, KdeActions, Backend.** A server event is in the socket,
in libei's queue, in the native pending queue, or told; references are taken
and dropped when it is told. `refs` counts what the owners of `desktop/ffi.rs` hold.
A portal request is subscription, call and wait; the answer is on the bus
before or after the wait, or never; tokens are numbers. The Overview is one bit
that the user toggles too. `Backend` drives the three in the order of
`streaming.rs` and `sink.rs`: preflight, session, handshake event by event,
pumps, actions, stop and a close that goes backwards. `OutputSession` has what is
held down; `ActiveDeviceUsable` is what it takes from the transport.

**Recording.** `pc` names the call about to be made. `written` is what
`write_all` took, in pieces: the two halves of a line's JSON object and its line
feed; `onDisk` is how much of it is in the file, the rest is in the BufWriter. A
chunk fits the buffer or flushes it first, a failing flush stops anywhere, so a
line can be torn inside its object or before its line feed. `fail_open`,
`shutdown` and `Drop` run the same steps in the same order and are one chain of
actions; what differs is who asks and what is reported. The decoder is three
outcomes per event: goes on, has just resynchronised, fails. A time stamp of 0 is
one that cannot be represented. `Signal` stores the flag and interrupts a read only
if one is blocked; `Kill` is SIGKILL, which loses the buffer. The reader is any
client of the file; its steps may fall anywhere.

**Replay.** A line is a record of what the parser tells apart: kind, whether its
numbers are absent, fractional, out of range or fit, its time and its event. The
caller is the replay command's driver, or a client that ignores an error.

**TypeBDecoder, TraceDecoder, EvdevStream.** `None` stands for tracking id -1 and for
a slot out of range. A pending lifecycle `carried` is `Active{fresh: false}`, `fresh`
is `Active{fresh: true}`, `over` is either of the two kinds of end within a
packet. In `TraceDecoder` any event may come at any time, since a trace file may
hold anything; `said` and `at` are the reference: the stream's meaning taken
event by event, without packets. In `EvdevStream` the kernel is external and modelled
from the protocol: axis values only when changed, the slot only when it changes,
whole packets, overflow that empties the queue but for `SYN_DROPPED` and the newest event
(`Push` says at once what that leaves of a packet), `EVIOCGKEY` taking back queued key
events (`KeyFree`); snapshot ioctls interleave with hardware packets.
Positions are the touch they were measured of, so a foreign coordinate shows.

**Coordinates.** One slot through any packets and snapshots, over the devices and
quirks of the configuration. A measured value is a quotient of counts and
resolution, so a round trip can be checked; the rounding to `f32` is left out.

**Arbiter.** One action per public operation: `Frame`, `Regress` (a frame that
goes back in sequence or time), `Tick`, `ReleaseAll`, `ReplaceConfig`. A frame
is handled as the code does it on a draft: physical edges, discontinuity, follow-up
timeout, contacts (one finger, then two), multiplexer, order, commit. Geometry
and time enter as facts of a frame (`crossed`, `strayed`, `late`), because
the code compares each once against its limit and keeps the outcome. The synthetic
right button is a pulse within one frame. Frames follow the decoder's contact order;
beyond it the arbiter also takes contacts without a coordinate (`MaxIncomplete`) and
contacts gone without an Ended record (`Vanishing`), as its own tests do.
After a regression only `ReleaseAll` follows, since the bridge
stops at the first fault. `cluster` is history for the properties, never read.

**GestureArbiter** puts the upper policies in front: each sees the frame first and
may block it, which cancels what the lower ones hold. Facts of a frame are added:
whether the entry debounce is over, how far the reference finger moved, what the
shape since the anchor amounts to. One kind of gesture per number of fingers.

**Fidelity, ScrollFidelity, Motion.** Displacements are whole millimetres, pixels are
counted in parts, so the remainder is exact. `Motion` keeps fingers relative to the
anchor of their interaction and compares what the stages hold with where the
fingers went. The curves are piecewise linear or step shaped where the code's are
smooth; the properties are about conservation, not about the curve.

**Typing, DeviceNodes, LiveSettings, Service.** Events bear the time they happened at
and are judged when their queue is read. A path is looked up at every open and udev
may replug in between; a descriptor stays with its device. A content of the
settings file is a model value, its hash the content itself; `settings-patch`
truncates, then writes. `Service` runs the loop's round in the code's order. `Pads`,
`Inner` and `Outer` are the paths that bear a touchpad, a built-in and an external
keyboard at the start.

**PrecisionTouchpad, WindowsOutput, RawCapture.** A report names its contacts, how many
the whole hybrid frame has, and its scan time; positions and the decoding of HID bits
are left out. One action per step of `push_report`, so that an error leaves what the steps
before it did; the caller goes on after it. The overlay is given the frames of any source,
after any one any other, and the arbiter behind it is what it takes for live. The sink counts
residues in parts of a wheel unit; every `SendInput` may fail. `RawCapture` runs from
the list of devices to the summary. Assembly and overlay are compiled for their own tests
only and nothing joins them, nor does the model: they share no step.

**Documents, Profiles, CommandLine, EmitPattern, Production, Commands.** A document
is a record of its parameters; a spelling stands for the number it parses to.
`parse_args` is an operator. `Commands` runs a process from its arguments to its
exit; write and report may fail, and a command without the handler may be
killed anywhere. A failed preparation of the emission cleans up after itself, which may fail
too; an event whose submission failed may have reached the desktop. Commands that go on elsewhere end as handed over. The machine
is a choice of scan results.

**TerminationHandler.** The program is one thread between its two stores and two
`sigaction`s; handlers begin and store at any time, also after their guard is gone.

## Runs

A property of a run is often a conjunction of named parts; the parts are defined just
before it in the module, each with its own comment.

| Run | Result | States | Question |
|---|---|---|---|
| `Takeover` | holds | 128 986 | does every ending give everything back, in order, with an honest result; do stop, deadline and deferred release happen while the touchpad is silent |
| `OutputSession` | holds | 163 476 | do the ledgers agree with each other and the compositor through partial submissions, interruptions and failing releases; does it implement `NeutralOutput` |
| `Recording` | holds | 1 268 756 | does the result tell the truth about the file, is the device released last, what can a reader see |
| `EvdevStream` | holds | 1 366 830 | does the decoder agree with the hardware again after overflow, torn snapshot and drain |
| `Arbiter` | holds | 3 831 (symmetry) | wires, order of events and ownership over all policies |
| `GestureArbiter` | holds | 25 570 | do drag, gestures and the policies below share fingers and the left button |
| `Backend` | holds | 288 125 | are events told once and in order, is everything given back, does every wait end |
| `Service` | holds | 600 441 | settings, devices and typing across startup and loop, with a timer that runs on another clock |
| `Motion` | holds | 508 356 | is every millimetre accounted for; is every coordinate the one reported; do reports, clusters, wheel units and captures add up on Windows |
| `Replay` | holds | 459 781 (symmetry) | does a replay decode exactly the lines before the first bad one |
| `Commands` | holds | 427 546 | what edits, the emission and the contracts come to over several processes; the handler of signals |
| `ArbiterSwap` | violated | | right up and left down over two fingers in one frame |

`Motion` and `Commands` each hold models that share no state: `Motion` with `Coordinates`
and the three of Windows, the commands with `TerminationHandler`. A behaviour takes one
of them at its first step, so none is explored within another.

What the properties say, where their names do not:

- `EndsClean`: resources and desktop given back, one ungrab, output held only
  while grabbed, exit 0 only after a complete cleanup, an abort before the grab touches nothing.
  `StepsInOrder`: cleanup in its order, no output after it began.
  `NothingWaitsForInput`: stop, deadline and deferred release on a silent touchpad,
  and a takeover with a duration ends.
- `DesktopAccountedFor`: arbiter, adapter and sink agree as far as each claims to know, nothing
  down is out of every ledger, no release without its press.
  `KeepsContract`: the steps are those of `NeutralOutput`, an owed release stays owed until
  it is sent or the session is gone.
- `OutputAccountedFor`, `ReadsBack`, `EndsInOrder`: a complete trace or an error
  that says otherwise; a reader gets a beginning of the delivered events, and all
  of them after a clean stop; the recorder ends before the device is released.
- `CaughtUp`, `FramesAreTrue`: once everything is read the decoder shows what the hardware
  shows; no frame gives a touch another touch's coordinate; the drain takes the whole batch.
- `EveryPressIsOwned`, `CleanHandover`, `NoTapAfterPress`: the wire is what the
  sources say, what is held has an owner; a press goes out only after whatever it
  excludes was released; fingers that pressed the pad do not also tap.
- `OwnersAgree`, `RouteFollowsGesture`, `ToldInTurn`: one policy owns the fingers, the left
  button has one owner; the route is the committed gesture's; Begin, Update, End or Cancel in
  order, and no tap beside them.
- `EndpointsInStep`, `NothingLeaks`, `InOrder`, `Directional`, `StopEnds`: the client's view of devices follows the events told; every reference and the
  descriptor are given back once; an answer reaches the request it was for; events keep the
  order in which they were sent; an open action never closes the Overview, up to the raced toggle noted
  below; a stop comes to its end.
- `DevicesInHand`, `TypingInHand`, `NewestUpdateWins`, `SettingsTakeEffect`,
  `TapIsReleased`: descriptors belong to who opened them and the session is a touchpad; a touch
  is kept out only by typing before it and as a whole; the settings in use are the
  newest valid ones seen; changed at rest only, eventually; a tap's release comes, by
  the right clock.
- `NothingLost`, `CoordinatesAreTold`: what the stages hold and what they
  emitted add up to what the fingers did; a value is the count reported, a missing one
  has a diagnostic.
- `TouchesAccountedFor`: who follows the frames of the assembler takes for live who the
  reports said was down, and after an error nobody else; the arbiter behind the overlay gets a
  cluster from the frame with three fingers to the last lift, and none with a fourth.
  The exceptions are two errors noted below. `WindowsAccountedFor`: the buttons the sink takes for held
  are down, no grain of a scroll is lost or sent twice, a summary counts the lines above it.
- `InStepToTheEnd`, `FramesAreFaithful`, `StopsAtTheOffence`: reader and decoder
  are together at every line, exit 0 means the whole file; frames say what the lines said;
  nothing behind the first bad line is decoded.
- `SavedAsAsked`, `AcceptedRunsHaveAProfile`, `EmissionAccountedFor`,
  `RecoveryWithinPolicy`, `HandlerInOrder`: a reported edit is in the file, and every
  parameter of feel, typing guard and gestures that was not edited is as it was; an accepted
  configuration builds; the emission's report and exit code say what was sent and, but for a
  failed preparation, what was cleaned up; retries
  within attempts and delay, a stop always accepted; dispositions are restored, a guard sees the stops sent in its
  time, and no other but from a handler overtaken as noted below.

Bounds, and why they are enough.

- `Takeover`: countdown, duration and quantum of 2, gap 1, batches of 2. Every
  loop is passed zero times, once and more; the proofs remove the bounds.
- `OutputSession`: two scroll axes, all four kinds of fault, one session. A
  session never reopens, and held controls are sets, so more decisions only
  revisit states.
- `Recording`: three events, two time stamps, reads of up to two. Batches of one
  and two, a full and a drained batch, equal, rising and falling time stamps; three
  lines in the buffer when it is flushed, torn or lost.
- `EvdevStream`: two slots, three touches, a queue of 4, reads of 3, 5 packets.
  The queue overflows in the middle of a packet, before and during a snapshot,
  and a second time before the first is recovered; the proofs remove these bounds.
- `Arbiter`: three ids, at most one contact without a coordinate, four
  configurations: everything on, without drag lock, tap and scroll only, all
  off. A pair with a third finger and a replacement are the largest cases the
  code distinguishes. `SameFrameSwap = FALSE` excludes the one input on which
  `WireFollowsSources` fails; `ArbiterSwap` admits it, with only frames the
  decoder really makes (`MaxIncomplete = 0`, `Vanishing = FALSE`).
- `GestureArbiter`: four ids, three fingers at a time, four touches between two empty
  pads; m19 with drag lock, the macOS preset and m17 with its centroid, over one
  lower configuration. Three fingers with one replaced is the largest
  group whose members the drag distinguishes.
- `Backend`: a seat, two devices, six server events, five tokens, an action, two
  toggles by the user. A device is replaced, paused and removed while its
  predecessor's events are still queued; one creation, selection and start draw
  the tokens; an answer to each may be late while the next waits.
- `Service`: two valid contents and a torn one, three nodes, two keys, one
  contact, time up to 2, three events of the outside. A patch, a replug and a
  key press, or two edits and a signal, fall in every order.
- `Motion`: five displacements, gaps of 0, 1 and 2, fingers within 3 of their
  anchor, six frames; the proofs remove these. Coordinates: four devices, three
  quirk entries, so that none, one and two match. Windows: four contacts, some with an
  id or size that is refused, on three slots, so that reports are split, repeated, orphaned and
  overfull, and a cluster of three may get a fourth; scrolls of -3, 0 and 13 grains of a quarter unit with events of at most 2 units, so that
  residues carry over and a wheel event is full; three submits, four messages.
- `Replay`: one slot, two ids, two axes, two times. The state is finite, the length of
  the trace is not bounded; the decoder's own proofs cover any number of slots.
- `Commands`: two processes, the first with any command line that is sound or
  has one slip, the second with any sound one that does not emit; seven disks. Two handlers, so that
  a stray one meets its successor.

Deadlock checking is off where the system may stop: a bounded hardware
(`EvdevStream`), an arbitrary trace (`Replay`), a caller that need not call (`Arbiter`,
`GestureArbiter`, `Motion`), a closed backend, a process that has exited (`Commands`).
It is on in `Takeover`, `OutputSession`, `Recording` and `Service`, where a
stuttering action marks the intended end.

Fairness. `Takeover`: `WF(Program)`, since every call returns (waits are bounded
by the poll quantum, portal answers by their timeouts, and a D-Bus call, which has none, ends
with the peer's answer or the bus's error), and `SF(ClockTick)`: time goes on.
Nothing is assumed of fingers, signals or the compositor, so the liveness
properties hold with a silent touchpad. `Recording`: `WF(Program)`, every call but
the blocking read returns; nothing of fingers, signals or the reader.
`Service`: weak fairness of the loop, whose waits are bounded likewise; none of
editor, udev, keyboards and fingers. That newest settings come into use is promised
only if the arbiter is at rest at the head of the loop again and again: the code waits
for it as long as it takes. `Backend`: weak fairness of the client: its waits for
a portal's answer and for an event of the compositor have deadlines; the method calls
themselves, of portal and KDE (`desktop/portal_zbus.rs:554-564`, 652-678), have none and are
assumed to return, with an error when the peer is gone. None of portal, compositor and user:
no dialog need ever be answered.

### What differs from the documents

`ArbiterSwap`: the multiplexer emits the latch's press and the right
button's release, in this order; the wire ends up although the latch owns it.
The code's own `debug_assert_eq!` says otherwise.

Seen while modelling, without a run of their own:

- A fresh pair may be disqualified from a secondary tap by the one before: the mark
  is lifted by a frame without contacts in which the pair was already over
  (`core/arbiter.rs:2480`, against 1305). If both fingers lift in one frame, that frame does not come.
- Anchoring of a pair waits for the buttons to be released (`core/arbiter.rs:2516`), so its
  check for a held button (2535) never sees one: a button pressed before two
  fingers land and released under them does not keep them from a secondary tap.
- The snapshot does not read `ABS_MT_SLOT` and slot 0 is assumed after a recovery
  (`linux/decode.rs:798`); the kernel names the slot only when it changes.
- `record` polls the stop flag, then blocks in `read(2)` without a timeout
  (`ctl/cmd/record.rs:164`, against `linux/signals.rs:12-14`). A signal in between is stored but
  wakes nobody until the next touch or signal (`StopSeenAtNextInput` holds).
- The settings watcher hashes the file later than the startup read it
  (`ctl/cmd/live_settings.rs:43`); an edit in between is never applied. `SettingsTakeEffect`
  excepts exactly this (`overlooked`).
- A truncated or partly written settings file is what the watcher may read:
  `settings-patch` writes in place. Several edits are applied one at a time, each
  validated, so their order matters.
- Middle click is an action KDE cannot run (`desktop/kde_actions.rs:100-105`,
  `core/gesture_bindings.rs:146-148`), though `doc/USER_MANUAL.md:163` offers it; the m19
  preset, and so `service-run` as in `README.md:115`, is refused on KDE with exit 4.
- `LazyTransport` does not forward `frame_at` (`desktop/streaming.rs:484`), so
  `desktop/transport.rs:200` stamps source-driven frames with the time of sending,
  unlike `doc/old/reviews/TAP_SCROLL_TIMESTAMP_REVIEW.md`.
- A handler that began before its guard was dropped may store its signal after the next
  install's reset (`linux/sys/ffi.rs:612-615`): that guard sees a stop it was not sent.
- `release_all_detailed` (`desktop/sink.rs:759`) chooses Stopped by the disconnect
  alone, also when `close_session` failed.
- When libei is missing, the descriptor the portal handed over stays open
  (`desktop/transport.rs:118`). A second `connect` on a connected transport leaks it.
  `transport.rs:114-115` promises Disconnected once; it is repeated.
- A CreateSession answered after the client gave up, or with a handle that
  `decode_create_session_response` refuses, leaves its session in the portal.
- `ConnectToEIS` is a plain method call (`desktop/portal_zbus.rs:652`) without the 15 s that
  `desktop/sink.rs:221-222` speaks of.
- When the cleanup after a failed preparation fails too, `output-probe --emit` exits with the
  code of the first error while the session may be open, and prints nothing of the second
  (`ctl/cmd/output_probe.rs:171`), though the comment above says its diagnostics are "carried inside".
- The Overview's state is read, then the toggle is sent; the user's own toggle in between
  makes a close open it (`doc/USER_MANUAL.md:274-277`).
- A contact may begin without coordinates (`core/contact.rs:56-60`).
- The keyboard monitor ignores `SYN_DROPPED`. Keyboards are drained one after another,
  so the time of the last key can go back.
- A discontinuity clears the roles of contacts, so a touch that was kept out may act
  after it (`doc/USER_MANUAL.md:41-43`).
- A touchpad without axis resolution is accepted and grabbed.
- After an empty trace file is refused the reader can still be asked, and reads on.
- `--settings` and `--feel-config` take a following flag as their value.
- `doctor` gives every failure of the output exit 4. A stop during the last pause of
  `output-probe --emit` still exits 0.
- Nothing outside the tests calls `with_surface_size_mm`, so edge swipes never activate.
- An error of the Windows assembler loses the frames of its call (`ptp.rs:172`, 209): contacts that began in
  them are next shown as Active (`ptp.rs:250-251`), and if one was a discontinuity, those live before it
  stay live for who follows the frames.
- When the arbiter refuses the frame that leaves no contact, the overlay stays active
  (`overlay.rs:94-105`) and hands on a later cluster of any size below four.
- The Windows overlay takes its pipeline out to reset it; if the release then fails it stays out
  and the next call meets `expect("pipeline always installed")` (`overlay.rs:128-143`).

## Proofs

Assumptions are the named `ASSUME`s of the modules only: constants are natural
numbers or disjoint sets, some of them finite, the quantum, batch, gains and grain positive.
TLC evaluates them. One theorem has a hypothesis more, named below. No bound of a run is used.

`TakeoverProofs`, for any countdown, duration, quantum, tap gap and batch size.
`CountersCorrect` is inductive by itself. The other invariants are not: that
nothing is left behind at exit depends on what each cleanup step found and left.
`SafetyInvariant` is the strengthening: `PointsInv` says which resources are live at
each program point (setup, loop, cleanup), `DeviceInv` relates held
output, grab and ungrab count, `TraceInv` follows the recorder, `OutcomeInv`
relates the stop reason to how far the command got. Each part has a lemma with
one step per action. From it follow `TypeCorrect`, `TouchpadReturned`,
`HeldWhileGrabbed`, `UngrabOnce`, `AbortUntouched`, `CleanExit`, together `EndsCleanly`,
and the action properties `GrabLast`, `OrderedCleanup`, `NoLateOutput`, together
`OrderKept`; `DeadlineBound` has an invariant of its own, that a wait begins before the deadline.

`OutputSessionProofs`, for any axes and any set of calls that may fail. The runs' properties
speak of the moments between two calls; `SafetyInv` adds the middle of one.
`DecisionLeft`: the rest of a decision takes the adapter's ledger to the arbiter's. `FrameValid`:
the frame on the wire was validated against the sink's ledger. `Match`: the desktop
is ahead of that ledger by exactly this frame. From it `DesktopIsAccountedFor` and
`AcknowledgedMeansNeutral`; and `PathKeepsContract`, the refinement: every step is one of
`NeutralOutput` or a stutter under the mapping, and an owed release stays owed.

`HostProofs`, five parts. The reconnect controllers, for any attempts, delays and widths: a
delay is within bounds because of where the doubling stands, so `LinkBooks` relates each
next delay to the delays asked since the last success, and `Books` both to the
lifecycle. From it `BackoffIsBounded`, `StopTaken`, together `RecoveryIsBounded`.
The handler, for any dispositions and number of handlers: `HandlerInv` is the type, `InForce` (which
disposition is installed at each point of install and restore) and `Request` (where a set flag
came from). From it `SignalsAreGivenBack`, `StopsBelongToTheGuard`, together `HandlerIsInOrder`.
The backend, for any seats, devices, events and interleaving of server, portal and
user. The key is `QueueInv`: the three queues together are the end of what the
server sent, so the number `Passed` tells what has been told, and the client's seats and
devices are what the first `Passed` events amount to. With `RefsBalanced` (an object
has as many references as fields that name it), `RequestInv` and `SessionInv` (an
answer in the inbox is the current request's, a session given up is known to be),
`DescriptorInv` and `ActiveInv` it forms `BackendInv`. From it `EndpointsAreInStep`,
`NothingIsLeaked`, the refinement `ToldInOrder` (every step of the transport is one of
`LifecycleChannel`) and, with `ActionInv`, `ActionsGoOneWay`.
The guarded emission, for any capabilities on offer and any failure. What the exit code says is
decided by how the pattern ended, so `InPattern` says that exactly the steps
passed and the events of the present one have been sent, and `Behind` that each end has its reason.
A preparation that failed sent nothing, whatever it left open.
From it `EmissionAnswersForItself`.
The processes, for any files, documents, edits and command lines, whatever the files hold at first.
`ProfilesAreNeverRefused` goes through the parser, the validation of documents and the constructors.
`Scan` and `Sifted` are recursive functions over the arguments; that what they collect comes from
the command line is shown by the least argument that would break it, and from `ProfileChecks` that an
accepted `takeover` names one of the accepted profiles and exactly the documents it needs. A lemma
for each stage shows that any document that validates satisfies the constructor's demands, up
to the drag curve of m19, whose fast gain is capped but never below the slow one.
`EditsAreSaved` rests on `ProcKnown` (the command a process runs is one that `parse_args`
gives) and `Saving`: nothing changes before the composed content is written, only the output
changes then, and what an edit command composed, and later wrote, is the document it read with
the last edit of each parameter and no other (`Promised`). One edit is taken whole or not at all
and touches one parameter, of whichever of the three areas (`EditingOnce`); `EditsCome` carries
this along the list.
The assumptions are `DocumentsAssumption` and `CommandsAssumption`: a key has one spelling
as area and rest, no gesture is named like a switch, a document decodes to the fields of its schema,
no argument is the absence of one.

`ServiceProofs`, for any paths, keys, contacts, contents and time-outs. `ServiceInv`
has a part for each module composed: `SettingsInv` (an update pending is newer than the active one,
and which step may find one), `NodesInv` (whose descriptors are open at each step), `TypingInv` and
`RolesInv` (every time on its way to the policy is that of a letter, every kept-out
contact has one), `ClockInv` (the clock's anchor is the last frame). From it
`DevicesAreInHand`, `TypingIsInHand`, `NewestSettingsWin`, `TimersAreOnTime` and the
action property `SettingsChangeAtRest`.

`DecoderProofs`, for any slots, ids, axes, values, buttons and any file. The decoder's
`IInv` is `TypeOK`, `ShownBooks` (the last frame, `published` and the
committed slots say the same) and `InStep` (the half-merged packet means what
the events said). `InStep` needs one lemma per kind of event that says what
merging it does to the slot's meaning, and `CycleMeaning` that a commit
does not change it. `ContactsInOrder` and `FramesFaithful` follow: only commit
and recovery publish. Every step of a replay that touches the decoder is a step of
`TraceDecoder`, so these carry over (`ReplayDecodes`, `ReplayFramesFaithful`).
`ReadBooks` relates the reader's state, the driver and the exit code; from it
`ReadingFailsStop`, `StopsAtTheFirst`, `CleanExitIsWhole` and, together, `ReplayIsWhole`.

Its second half is the live stream, for any capacity of the queue, batch size, number of packets,
slots, axes and buttons; ids are numbered from 1 as the kernel does, the axes are finitely many,
and the queue holds at least two events (the kernel's smallest holds 64). These are
`StreamAssumption`, which no theorem about traces uses. That the decoder has caught
up when nothing is left to read is far from inductive: before that it lags behind by whatever is
in the batch and the queue, part of which may have been dropped. `StreamInv` says what that is, with
batch and queue as one sequence. It is `Coherent`: the last id queued for a slot, with no drop behind
it, is the touch there, the last event of a button its position, the positions behind an id
are of its touch, and it ends with a packet. `DecoderAgrees`: for a slot that no queued id and no
drop concerns any more the decoder already holds the touch there, and so for buttons;
`AnswerAgrees` says the same of the snapshot's answers and the queue behind it. Every report of the
hardware `Tells` something about one slot or button, and a lemma each shows what appending it, cutting
the queue by it, feeding it and taking key events back preserve. From it `StreamCatchesUp`.
Coordinates need `FrameInv` beside it: as long as no event was misrouted, outdated or met a
snapshot, what the decoder holds for a touch (`OwnPositions`), what is still to come for it
(`ComingPositions`) and what the snapshot answered (`SnapshotInv`) were measured of it, and
`DrainInv` knows from which side of the last snapshot the queued events are.
From both `StreamFramesAreTrue`.

`RecordingProofs`, for any number of events, time stamps and batch size. What the
result says about the file depends on how much was written at each point
(`LengthInv`) and on the pieces being those of the delivered events in order
(`Faithful`); `CleanupInv` follows which results are still possible from the stop
reason to the verdict; `ReaderInv` says that a reader that has not failed stands
after the object or the line feed of the last event it yielded. With the batch
(`BatchInv`), the grab (`GrabInv`) and the recorder's end (`ReleaseInv`) they
form the inductive `IInv`, each part with a lemma that has one step per action.
`CompleteTrace` turns pieces in their places into the whole trace. From it follow
`TypeCorrect`, `ReaderSeesPrefix`, `GrabAfterHeader`, `CompleteOrReported`, together
`FileAnswersForItself`, and the action property `RecorderBeforeDevice`. That a clean stop reads
back whole (`TraceReadsBack`) needs more, since the reader refuses a time stamp
that goes back: `BackInv` adds that the runtime compared every event fed with the one before
(`FedInv`) and that a reader who came after the end has met nothing but whole lines (`LateInv`).

`ArbiterProofs`, for any contacts and configurations. A frame is followed through the
handlers on its draft: `Ready` (between frames) leads over `Edged` (the buttons),
`Mid` (discontinuity, late follow-up) and `Contacted` (fingers) to `Decided`, in which the
edge flags account for every source that changed. This makes `OwnersInv` inductive and gives
`HoldsHaveOwners`. The second half follows the events: `Told` is the account of a
sequence of them (the wires it leaves, and that each fits the ones before), the
code's order is a chain of single events (`OrderedForm`) of which each keeps the account.
`PressesHaveOwners`, `HandoversAreClean` and `NoTapFollowsAPress` follow under the
hypothesis `SameFrameSwap = FALSE`: no frame releases the right button and presses the left
at once. Without it they are false, which is what the run `ArbiterSwap` shows.
The third part puts drag and gestures of `GestureArbiter` in front. None of its properties is
inductive: that two policies never own a finger depends on what each was shown, and a
blocked frame first takes from the lower policies what they hold. `UpperInv` is the type,
`LowerInv` (the lower policies' books, which every lower handler keeps whatever the upper ones
took out of its frame), `DragInv` (what the drag holds at each of its phases) and `GestureInv`
(gesture, route and what was told). A frame passes from `Gripped` over `Dragged`, `DragLooked`,
`Gestured` and `Blocked` to `Lowered`, each of them what the policies so far leave to the next.
From it `FingersHaveOneOwner`, `NoRouteOutlivesItsGesture`, and with the account of
events `WiresFollowSources` and `EverybodyIsToldInTurn`; these need no hypothesis.

`MotionProofs`, for any unit, scale, dead zone, speeds, gains, steps and gaps. That no
pixel is lost is not inductive: the remainder only balances if the position the stage
last saw is where the finger then was. `MotionIsTracked` proves that invariant,
`PixelsAreConserved` and `PressesMove` follow from it, together `NothingIsLost`.
`CoordinatesAreTrue`, for any device and quirks: which of profile, device and snapshot
each state of a slot goes back to. `TouchesAreAccountedFor`, for any contacts, slots, reports, frames and errors: what the frames
made so far and the half-done one leave live, whether an error lost one, and that slots are
injective; for the overlay, what each state of the gate says of the frames since nobody was down. `SinkKeepsAccount`
and `CapturesAddUp`, together `PartsKeepTheirWord`, for any events, messages and failures.

Several of these speak of the first or the last position with some property; the least number
of a set is taken from the library's theorem on well-founded induction for `Nat`.

Model-checked only: all liveness and whatever needs ENABLED, which the prover does not
do (`NothingWaitsForInput`, `StopSeenAtNextInput`, `StopEnds`, `SettingsTakeEffect`,
`TapIsReleased`). Induction over data is out of its reach as a rule of the library; where a
recursive function had to be followed (the parser, the edits), the argument is by the
least position at which the claim fails.

## Not modelled, and why

- Of the Windows adapter, the support probe, the decoding of HID bits and units and
  the layout of Win32 records: formats and calls without a state of their own.
- The test kit and the fakes: not part of the program.
- Time stamps on the wire: nothing reads them but the compositor.
- JSON and D-Bus text, the variants of portal answers, wording of reports: formats,
  abstracted to what the code tells apart.
- Angles of swipes, edge zones, the jitter filter, smooth curves: real
  arithmetic. Their verdicts are facts of a frame, chosen freely.
- Layout of C structures and the unsafe casts of `linux/sys/ffi.rs`: no state
  machine.

## Plan

The models are done; what is left of the components marked partly is above. Every safety
property of a run is proved; the liveness properties stay with TLC.
