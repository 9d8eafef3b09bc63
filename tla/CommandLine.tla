----------------------------- MODULE CommandLine -----------------------------
(***************************************************************************)
(* The argument parser of touchpadctl (args.rs).  parse_args is a pure     *)
(* function of the argument vector, so it is an operator here, and the     *)
(* command it yields is a record.  An argument is one of the spellings the *)
(* parser compares with, or a member of a small set of operands; whether   *)
(* it begins with a dash is all the parser looks at beside its spelling.   *)
(***************************************************************************)
EXTENDS Documents, FiniteSets

CONSTANT UnknownFlags      \* dashed arguments no command knows

TAKEOVER_CONFIRM_TEXT == "TAKEOVER"

ACCEPTED_TAKEOVER_PROFILES ==
  EarlyProfiles \cup {"m17-tunable-v1", "m18-remap-v1", "m19-live-v1"}

SECONDS == 1..300     \* takeover and windows-capture accept the same range

IsDuration(word) == word \in DOMAIN NumberOf /\ NumberOf[word] \in SECONDS

TAKEOVER_ONLY_FLAGS ==
  {"--takeover", "--confirm", "--output-qualified", "--device", "--profile",
   "--max-duration-seconds", "--feel-config", "--settings", "--watch-settings"}

HelpFlags == {"-h", "--help"}

Dashed == TAKEOVER_ONLY_FLAGS \cup HelpFlags \cup {"--grab", "--emit"} \cup UnknownFlags

-----------------------------------------------------------------------------
(* What the parser returns                                                 *)

UsageError(kind) == [name |-> "usage-error", why |-> kind]

HelpCommand == [name |-> "help"]

(* A command other than takeover: its operands and whether its own flag    *)
(* (--grab of record, --emit of output-probe) was given.                   *)
PlainCommand(name, operands, flag) == [name |-> name, operands |-> operands, flag |-> flag]

Exactly(n) == n..n

AtLeast(n) == n..100   \* no argument vector of a run comes near the upper end

OneOperand ==
  {"inspect", "replay", "config-check", "service-preflight", "doctor", "diagnostics", "qualify",
   "service-run", "feel-default", "feel-check", "feel-show", "settings-default",
   "settings-macos", "settings-check", "settings-show"}

PlainCommands ==
  OneOperand \cup {"devices", "record", "output-probe", "windows-probe", "windows-capture",
                   "feel-gui", "settings-gui", "feel-set", "settings-set", "settings-patch"}

ArityOf(name) ==
  CASE name \in OneOperand -> Exactly(1)
    [] name \in {"devices", "output-probe", "windows-probe"} -> Exactly(0)
    [] name \in {"record", "windows-capture", "feel-gui", "settings-gui"} -> Exactly(2)
    [] name \in {"feel-set", "settings-set"} -> AtLeast(3)
    [] name = "settings-patch" -> AtLeast(2)

(* The one flag a command takes, at most once.                             *)
OwnFlag(name) == IF name = "record" THEN "--grab"
                 ELSE IF name = "output-probe" THEN "--emit" ELSE Nothing

(* The three edit commands look at their flags before their operands.      *)
FlagsFirst == {"feel-set", "settings-set", "settings-patch"}

(* Errors are tried in order and the first that holds is returned.  A      *)
(* check is a pair <<holds, error>>.                                       *)
FirstError(checks, otherwise) ==
  IF \A i \in DOMAIN checks : ~checks[i][1] THEN otherwise
  ELSE LET first == CHOOSE i \in DOMAIN checks :
                      checks[i][1] /\ \A j \in DOMAIN checks : checks[j][1] => i <= j
       IN UsageError(checks[first][2])

FlagError(name, flags) ==
  CASE flags = <<>> -> Nothing
    [] flags # <<>> /\ flags[1] = "--grab" /\ name # "record" -> "GrabNotAllowed"
    [] flags # <<>> /\ flags[1] \in TAKEOVER_ONLY_FLAGS -> "TakeoverFlagNotAllowed"
    [] OTHER -> "UnknownFlag"

(* The arguments that are among the words, or those that are not.          *)
Sifted(args, words, among) ==
  LET kept[n \in 0..Len(args)] ==
        IF n = 0 THEN <<>>
        ELSE IF (args[n] \in words) = among THEN Append(kept[n - 1], args[n])
        ELSE kept[n - 1]
  IN kept[Len(args)]

(* The commands other than takeover: sift the operands from the flags,     *)
(* refuse the takeover flags before anything else, then arity and flags in *)
(* the command's own order.                                                *)
ParsePlain(name, rest) ==
  LET operands == Sifted(rest, Dashed, FALSE)
      flags    == Sifted(rest, Dashed, TRUE)
      foreign  == Sifted(flags, {OwnFlag(name)}, FALSE)
      own      == Len(flags) - Len(foreign)
      arity    == <<Len(operands) \notin ArityOf(name), "WrongArity">>
      strange  == <<foreign # <<>>, FlagError(name, foreign)>>
      \* record and output-probe count their flag before they look at the others
      twice    == <<own > 1, "DuplicateFlag">>
  IN FirstError(
       << <<\E i \in DOMAIN flags : flags[i] \in TAKEOVER_ONLY_FLAGS, "TakeoverFlagNotAllowed">> >>
       \o (IF name \in FlagsFirst THEN <<strange, arity>> ELSE <<arity, twice, strange>>)
       \o << <<name = "windows-capture" /\ Len(operands) = 2 /\ ~IsDuration(operands[2]),
               "WindowsCaptureDurationInvalid">> >>,
       PlainCommand(name, operands, own = 1))

-----------------------------------------------------------------------------
(* takeover: one pass over the arguments, then the checks on what it saw   *)

Switches == {"--takeover", "--output-qualified", "--watch-settings"}

ValueOptions == TAKEOVER_ONLY_FLAGS \ Switches

(* Missing stands for an option that ends the line.                        *)
Missing == "missing-value"

ValueError(option, value) ==
  IF value = Missing THEN "ValueRequired"
  ELSE CASE option = "--device"  -> IF value \in Dashed THEN "DeviceNeedsValue" ELSE Nothing
         [] option = "--confirm" -> IF value # TAKEOVER_CONFIRM_TEXT THEN "ConfirmTextMismatch" ELSE Nothing
         [] option = "--profile" -> IF value \notin ACCEPTED_TAKEOVER_PROFILES
                                    THEN "UnknownProfile" ELSE Nothing
         [] option = "--max-duration-seconds" ->
              IF IsDuration(value) THEN Nothing ELSE "DurationInvalid"
         [] OTHER -> Nothing        \* --feel-config and --settings take any argument

NothingScanned ==
  [at |-> 1, count |-> [f \in TAKEOVER_ONLY_FLAGS |-> 0],
   value |-> [f \in ValueOptions |-> Nothing], positionals |-> <<>>, error |-> Nothing]

Step(scan, args) ==
  LET arg   == args[scan.at]
      value == IF scan.at < Len(args) THEN args[scan.at + 1] ELSE Missing
  IN CASE arg \in Switches ->
            [scan EXCEPT !.count[arg] = @ + 1, !.at = @ + 1]
       [] arg \in ValueOptions ->
            [scan EXCEPT !.count[arg] = @ + 1, !.value[arg] = value, !.at = @ + 2,
                         !.error = ValueError(arg, value)]
       [] arg \in Dashed \ TAKEOVER_ONLY_FLAGS ->
            [scan EXCEPT !.error = "UnknownFlag"]
       [] OTHER ->
            [scan EXCEPT !.positionals = Append(@, arg), !.at = @ + 1,
                         !.error = IF Len(scan.positionals) = 2 THEN "WrongArity" ELSE Nothing]

(* Every step passes one argument at least.                                *)
Scan(args) ==
  LET after[n \in 0..Len(args)] ==
        IF n = 0 THEN NothingScanned
        ELSE LET before == after[n - 1]
             IN IF before.error # Nothing \/ before.at > Len(args) THEN before
                ELSE Step(before, args)
  IN after[Len(args)]

Demanded(scan, flag, error) == <<scan.count[flag] = 0, error>>
OnlyOnce(scan, flag) == <<scan.count[flag] > 1, "DuplicateTakeoverFlag">>

OptInChecks(scan) ==
  << Demanded(scan, "--takeover", "TakeoverFlagRequired"), OnlyOnce(scan, "--takeover"),
     Demanded(scan, "--confirm", "ConfirmRequired"), OnlyOnce(scan, "--confirm"),
     Demanded(scan, "--output-qualified", "OutputQualifiedRequired"),
     OnlyOnce(scan, "--output-qualified"), OnlyOnce(scan, "--device"),
     Demanded(scan, "--profile", "ProfileRequired"), OnlyOnce(scan, "--profile"),
     Demanded(scan, "--max-duration-seconds", "DurationRequired"),
     OnlyOnce(scan, "--max-duration-seconds"), OnlyOnce(scan, "--feel-config"),
     OnlyOnce(scan, "--settings"), OnlyOnce(scan, "--watch-settings") >>

(* Which of the three conditional inputs a profile demands; it refuses the *)
(* others.                                                                 *)
InputsOf(profile) ==
  CASE profile = "m17-tunable-v1" -> {"--feel-config"}
    [] profile = "m18-remap-v1"   -> {"--settings"}
    [] profile = "m19-live-v1"    -> {"--settings", "--watch-settings"}
    [] OTHER                      -> {}

ProfileChecks(scan) ==
  LET wanted == InputsOf(scan.value["--profile"])
      given  == {f \in {"--feel-config", "--settings", "--watch-settings"} : scan.count[f] > 0}
      lacks(f)   == f \in wanted \ given
      refuses(f) == f \in given \ wanted
  IN << <<lacks("--feel-config"), "FeelConfigRequired">>, <<lacks("--settings"), "SettingsRequired">>,
        <<refuses("--feel-config"), "FeelConfigOnlyM17">>, <<refuses("--settings"), "SettingsOnlyM18M19">>,
        <<refuses("--watch-settings"), "WatchSettingsOnlyM19">>,
        <<lacks("--watch-settings"), "WatchSettingsRequired">> >>

PositionalChecks(scan) ==
  << <<Len(scan.positionals) = 0, "WrongArity">>,
     <<Len(scan.positionals) = 2 /\ scan.count["--device"] > 0, "DeviceSpecifiedTwice">> >>

ParseTakeover(rest) ==
  LET scan   == Scan(rest)
      legacy == IF Len(scan.positionals) = 2 THEN scan.positionals[1] ELSE Nothing
  IN IF scan.error # Nothing THEN UsageError(scan.error)
     ELSE FirstError(OptInChecks(scan) \o ProfileChecks(scan) \o PositionalChecks(scan),
            [name     |-> "takeover",
             device   |-> IF scan.value["--device"] # Nothing THEN scan.value["--device"] ELSE legacy,
             trace    |-> Last(scan.positionals),
             seconds  |-> NumberOf[scan.value["--max-duration-seconds"]],
             profile  |-> scan.value["--profile"],
             feel     |-> scan.value["--feel-config"],
             settings |-> scan.value["--settings"],
             watch    |-> scan.count["--watch-settings"] = 1])

-----------------------------------------------------------------------------

parse_args(args) ==
  IF args = <<>> THEN UsageError("NoCommand")
  ELSE IF \E i \in DOMAIN args : args[i] \in HelpFlags THEN HelpCommand
  ELSE IF args[1] = "takeover" THEN ParseTakeover(Tail(args))
  ELSE IF args[1] \in PlainCommands THEN ParsePlain(args[1], Tail(args))
  ELSE UsageError("UnknownCommand")
=============================================================================
