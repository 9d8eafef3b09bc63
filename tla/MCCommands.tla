----------------------------- MODULE MCCommands -----------------------------
(* The instance of Commands that TLC checks: command lines with at most    *)
(* one slip of the hand on files of every kind, then sound ones.  The      *)
(* termination handler shares no state with what a command does, so a      *)
(* behaviour exercises the one or the other.                               *)
EXTENDS Commands, TerminationHandler

Files == {"a.json", "b.json"}

Bindable == {"three-finger-tap", "three-finger-swipe-left", "edge-swipe-up"}

NoNumber == -1
Numbers == "10" :> 10 @@ "400" :> 400 @@ "600" :> 600 @@ "900" :> 900 @@ "0" :> 0
Decimals == "1.9" :> 190 @@ "3.0" :> 300 @@ "1.5" :> 150 @@ "nan" :> NoNumber @@ "9" :> 900

Edit(key, area, rest, value) == [key |-> key, area |-> area, rest |-> rest, value |-> value]

FeelEdits ==
  "pointer.min_gain=1.9" :> Edit("pointer.min_gain", "pointer", "min_gain", "1.9")
  @@ "pointer.max_gain=1.5" :> Edit("pointer.max_gain", "pointer", "max_gain", "1.5")
  @@ "pointer.max_gain=3.0" :> Edit("pointer.max_gain", "pointer", "max_gain", "3.0")
  @@ "pointer.max_gain=nan" :> Edit("pointer.max_gain", "pointer", "max_gain", "nan")
  @@ "drag.drag_lock=false" :> Edit("drag.drag_lock", "drag", "drag_lock", "false")

SettingsEdits ==
  "feel.pointer.min_gain=1.9" :>
      Edit("feel.pointer.min_gain", "feel", "pointer.min_gain", "1.9")
  @@ "feel.scroll.momentum_tau_ms=400" :>
      Edit("feel.scroll.momentum_tau_ms", "feel", "scroll.momentum_tau_ms", "400")
  @@ "gesture.three-finger-tap=middle-click" :>
      Edit("gesture.three-finger-tap", "gesture", "three-finger-tap", "middle-click")
  @@ "gesture.edge-swipe-up=middle-click" :>
      Edit("gesture.edge-swipe-up", "gesture", "edge-swipe-up", "middle-click")
  @@ "gesture.three-finger-drag-enabled=true" :>
      Edit("gesture.three-finger-drag-enabled", "gesture", "three-finger-drag-enabled", "true")
  @@ "dwt.enabled=false" :> Edit("dwt.enabled", "dwt", "enabled", "false")
  @@ "dwt.short-timeout-ms=600" :> Edit("dwt.short-timeout-ms", "dwt", "short-timeout-ms", "600")
  @@ "dwt.long-timeout-ms=900" :> Edit("dwt.long-timeout-ms", "dwt", "long-timeout-ms", "900")

AllEdits == FeelEdits @@ SettingsEdits

Strange == {"--bogus"}

Backoff == [initial |-> 2, max |-> 7, attempts |-> 4]
OldConfig == [version |-> 1, profile |-> "m16-production-v1", device |-> "pad", reconnect |-> Backoff]
NewConfig ==
  [Migrate(OldConfig) EXCEPT !.rollback = "m15-kde-v1", !.output_reconnect.attempts = 2]

Shipped == [MacosInspired EXCEPT !.gestures.bindings["three-finger-tap"] = "middle-click"]

Disk(a, b) == "a.json" :> a @@ "b.json" :> b

Disks ==
  {Disk(FeelFile(DefaultFeel), Absent),
   Disk(SettingsFile(Shipped), FeelFile(DefaultFeel)),
   Disk(SettingsFile(MacosInspired), Text),
   Disk(RuntimeFile(OldConfig), RuntimeFile([NewConfig EXCEPT !.foreground_only = FALSE])),
   Disk(RuntimeFile(NewConfig), RuntimeFile([NewConfig EXCEPT !.rollback = NewConfig.profile])),
   Disk(SettingsFile([DefaultSettings EXCEPT !.dwt.short = 501]),
        FeelFile([DefaultFeel EXCEPT !.version = 2])),
   Disk(RuntimeFile([OldConfig EXCEPT !.reconnect.attempts = 33]),
        RuntimeFile([OldConfig EXCEPT !.device = Blank]))}

-----------------------------------------------------------------------------

Runs(edits) == {<<e>> : e \in edits} \cup {<<e, f>> : e, f \in edits}

EditLines ==
  {<<"feel-set", p, q>> \o es : p, q \in Files, es \in Runs(DOMAIN FeelEdits)}
  \cup {<<"settings-set", "a.json", q>> \o es : q \in Files, es \in Runs(DOMAIN SettingsEdits)}
  \cup {<<"settings-patch", p>> \o es : p \in Files, es \in Runs(DOMAIN SettingsEdits)}

OnePath ==
  {"config-check", "service-preflight", "doctor", "diagnostics", "qualify", "service-run",
   "feel-default", "feel-check", "feel-show", "settings-default", "settings-macos",
   "settings-check", "settings-show"}

FileLines ==
  {<<c, p>> : c \in OnePath, p \in Files}
  \cup {<<c, p, q>> : c \in {"feel-gui", "settings-gui"}, p, q \in Files}

OptIn == <<"--takeover", "--confirm", "TAKEOVER", "--output-qualified",
           "--max-duration-seconds", "10", "--profile">>

TakeoverLines ==
  {<<"takeover", "t.jsonl">> \o OptIn \o rest :
     rest \in {<<"m10-linear-v1">>, <<"m17-tunable-v1", "--feel-config", "a.json">>,
               <<"m18-remap-v1", "--settings", "a.json">>,
               <<"m19-live-v1", "--settings", "a.json", "--watch-settings">>}}
  \cup {<<"takeover", "event3", "t.jsonl">> \o OptIn \o <<"m16-production-v1">>,
        <<"takeover", "t.jsonl", "--device", "event3">> \o OptIn \o <<"m16-production-v1">>}

OtherLines ==
  {<<"devices">>, <<"inspect", "event3">>, <<"record", "event3", "t.jsonl">>,
   <<"record", "event3", "t.jsonl", "--grab">>, <<"replay", "t.jsonl">>, <<"output-probe">>,
   <<"output-probe", "--emit">>, <<"windows-probe">>, <<"windows-capture", "b.json", "10">>}

(* One slip of the hand: a word dropped, repeated, replaced or put in.     *)
Words == {"t.jsonl", "a.json", "--settings", "--feel-config", "--watch-settings", "--takeover",
          "--confirm", "--grab", "--emit", "--bogus", "--help", "0", "m17-tunable-v1", "--device"}

Slips(line) ==
  {RemoveAt(line, i) : i \in DOMAIN line}
  \cup {ReplaceAt(line, i, w) : i \in DOMAIN line, w \in Words}
  \cup {InsertAt(line, i, w) : i \in 1..Len(line) + 1, w \in Words}

Sound == EditLines \cup FileLines \cup TakeoverLines \cup OtherLines

SoundOrSlipped ==
  Sound \cup UNION {Slips(line) : line \in TakeoverLines \cup OtherLines
                      \cup {<<"feel-set", "a.json", "b.json", "pointer.min_gain=1.9">>,
                            <<"settings-patch", "a.json", "dwt.enabled=false">>, <<"feel-gui", "a.json", "b.json">>}}

WithoutEmission == Sound \ {<<"output-probe", "--emit">>}

-----------------------------------------------------------------------------

Terminal   == [s \in Signals |-> "default"]
Background == [Terminal EXCEPT !["SIGINT"] = "ignored"]
Dispositions == {Terminal, Background}

MCInit == CommandsInit /\ HandlerInit

MCNext ==
  \/ HandlerInit /\ start = Terminal /\ CommandsNext /\ UNCHANGED handlerVars
  \/ runs = 0 /\ proc = NoProcess /\ HandlerNext /\ UNCHANGED commandVars

MCSpec == MCInit /\ [][MCNext]_<<commandVars, handlerVars>>
=============================================================================
