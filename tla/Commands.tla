------------------------------ MODULE Commands ------------------------------
(***************************************************************************)
(* touchpadctl from its command line to its exit code (main.rs, lib.rs,    *)
(* exit.rs and cmd): one process after another on the same files.  The     *)
(* commands that check, show, edit and write documents, the probes and the *)
(* guarded emission run here to their end; record, replay, takeover and    *)
(* service-run are followed up to the point where the touchpad or the      *)
(* trace is opened and handed over to their own modules.  A host outside   *)
(* the repository may take up a runtime configuration (Production).        *)
(***************************************************************************)
EXTENDS CommandLine, Profiles, EmitPattern, Production

CONSTANTS
  Paths,          \* the files documents are kept in
  InitialDisks,   \* what they may hold at first
  FirstLines,     \* the command lines tried on those files
  LaterLines,     \* the command lines tried on what the first left behind
  MaxRuns         \* bound: processes, one after another

(* No argument is the absence of one, and a document decodes to the        *)
(* parameters its schema names and no other.                               *)
FeelShaped(feel) ==
  feel = [version |-> feel.version, param |-> [key \in FeelKeys |-> feel.param[key]],
          drag_lock |-> feel.drag_lock]

GesturesShaped(gestures) ==
  gestures = [version |-> gestures.version, drag_enabled |-> gestures.drag_enabled,
              bindings |-> gestures.bindings]

DwtShaped(dwt) == dwt = [enabled |-> dwt.enabled, short |-> dwt.short, long |-> dwt.long]

SettingsShaped(settings) ==
  /\ settings = [version |-> settings.version, feel |-> settings.feel,
                 gestures |-> settings.gestures, dwt |-> settings.dwt]
  /\ FeelShaped(settings.feel) /\ GesturesShaped(settings.gestures) /\ DwtShaped(settings.dwt)

Shaped(content) ==
  /\ content.kind = "feel" => FeelShaped(content.doc)
  /\ content.kind = "settings" => SettingsShaped(content.doc)

ASSUME CommandsAssumption ==
  /\ \A line \in FirstLines \cup LaterLines :
       line \in Seq(STRING) /\ \A i \in DOMAIN line : line[i] \notin {Nothing, Missing}
  /\ \A files \in InitialDisks :
       DOMAIN files = Paths /\ \A path \in Paths : Shaped(files[path])

VARIABLES
  disk,     \* path -> content
  proc,     \* the process: where it is, its command, what it writes, how it ended
  before,   \* history: the disk when the process started
  runs      \* bound: processes so far

commandVars == <<disk, proc, before, runs, emission, productionVars>>

Absent == [kind |-> "absent"]
Text   == [kind |-> "text"]       \* a report, a page, a capture, or half a document

FeelFile(doc)     == [kind |-> "feel", doc |-> doc]
SettingsFile(doc) == [kind |-> "settings", doc |-> doc]
RuntimeFile(doc)  == [kind |-> "runtime", doc |-> doc]

Contents(path, kind) == IF path \in Paths /\ disk[path].kind = kind THEN {disk[path].doc} ELSE {}

(* read_config, read_settings and load_runtime_config: the document, if    *)
(* the file holds one of its kind that validates.                          *)
ReadFeel(path)     == {doc \in Contents(path, "feel") : FeelValid(doc)}
ReadSettings(path) == {doc \in Contents(path, "settings") : SettingsValid(doc)}
ReadRuntime(path)  == UNION {LoadRuntime(doc) : doc \in Contents(path, "runtime")}

-----------------------------------------------------------------------------
(* A process begins                                                        *)

NoCommand == [name |-> "none"]

NoProcess == [at |-> "idle", command |-> NoCommand, writes |-> Absent, code |-> 0, why |-> ""]

CommandsInit ==
  /\ disk \in InitialDisks /\ before = disk
  /\ proc = NoProcess /\ runs = 0
  /\ emission = NoEmission
  /\ ProductionInit

Running(place) == proc.at = place
Name    == proc.command.name
Operand(i) == proc.command.operands[i]

Idle == UNCHANGED <<disk, before, runs, emission, productionVars>>

Go(place) == proc' = [proc EXCEPT !.at = place]

ExitFor(code, why) == proc' = [proc EXCEPT !.at = "exited", !.code = code, !.why = why]
Exit(code) == ExitFor(code, "")

ExitCode ==
  [Success |-> 0, Usage |-> 1, Config |-> 1, InputDir |-> 2, Permission |-> 3, NoCandidate |-> 4,
   OutputCapability |-> 4, Stream |-> 6, Unexpected |-> 9]

FirstCommands == {parse_args(line) : line \in FirstLines}
LaterCommands == {parse_args(line) : line \in LaterLines}

StartProcess ==
  /\ proc.at \in {"idle", "exited"} /\ runs < MaxRuns
  /\ runs' = runs + 1 /\ before' = disk
  /\ \E command \in (IF runs = 0 THEN FirstCommands ELSE LaterCommands) :
       proc' = IF command.name = "usage-error"
               THEN [NoProcess EXCEPT !.at = "exited", !.code = ExitCode.Usage]
               ELSE [NoProcess EXCEPT !.at = "parsed", !.command = command]
  /\ emission' = NoEmission
  /\ UNCHANGED <<disk, productionVars>>

command_needs_termination_handler(command) ==
  \/ command.name \in {"record", "takeover", "service-run"}
  \/ command.name = "output-probe" /\ command.flag

(* The handler is installed before the command does anything.              *)
HandlerRefused ==
  /\ Running("parsed") /\ command_needs_termination_handler(proc.command)
  /\ Exit(ExitCode.Unexpected) /\ Idle

-----------------------------------------------------------------------------
(* Documents: checking, showing, editing and writing                       *)

(* The document a reading command loads before all else.                   *)
Loaded ==
  CASE Name \in {"feel-check", "feel-show", "feel-set", "feel-gui"} -> ReadFeel(Operand(1))
    [] Name \in {"settings-check", "settings-show", "settings-set", "settings-patch", "settings-gui"} ->
         ReadSettings(Operand(1))
    [] Name \in {"config-check", "service-preflight"} -> ReadRuntime(Operand(1))
    [] OTHER -> {}

Reporters == {"feel-check", "feel-show", "settings-check", "settings-show", "config-check",
              "service-preflight"}

Check ==
  /\ Running("parsed") /\ Name \in Reporters
  /\ IF Loaded = {} THEN Exit(ExitCode.Config) ELSE Go("reporting")
  /\ Idle

Edits == SubSeq(proc.command.operands, IF Name = "settings-patch" THEN 2 ELSE 3,
                Len(proc.command.operands))

(* What a command wants to write: nothing when its input is refused or one *)
(* of its edits is.  write_config and write_settings validate once more.   *)
Document ==
  CASE Name = "feel-default"     -> {FeelFile(DefaultFeel)}
    [] Name = "settings-default" -> {SettingsFile(DefaultSettings)}
    [] Name = "settings-macos"   -> {SettingsFile(MacosInspired)}
    [] Name = "feel-set" ->
         {FeelFile(edited.doc) :
            edited \in {e \in {EditedInOrder("feel", doc, Edits) : doc \in Loaded} : e.ok /\ FeelValid(e.doc)}}
    [] Name \in {"settings-set", "settings-patch"} ->
         {SettingsFile(edited.doc) :
            edited \in {e \in {EditedInOrder("settings", doc, Edits) : doc \in Loaded} :
                        e.ok /\ SettingsValid(e.doc)}}
    [] OTHER -> {Text : doc \in Loaded}      \* feel-gui, settings-gui

Output == IF Name \in {"feel-set", "settings-set", "feel-gui", "settings-gui"}
          THEN Operand(2) ELSE Operand(1)

Writers == {"feel-default", "settings-default", "settings-macos", "feel-set", "settings-set",
            "settings-patch", "feel-gui", "settings-gui"}

Compose ==
  /\ Running("parsed") /\ Name \in Writers
  /\ IF Document = {} THEN Exit(ExitCode.Config)
     ELSE proc' = [proc EXCEPT !.at = "writing", !.writes = CHOOSE d \in Document : TRUE]
  /\ Idle

(* A file outside Paths is not followed.                                   *)
Stored(content) ==
  /\ disk' = [path \in Paths |-> IF path = Output THEN content ELSE disk[path]]
  /\ UNCHANGED <<before, runs, emission, productionVars>>

(* std::fs::write truncates the file, then fills it.                       *)
Write == Running("writing") /\ Go("reporting") /\ Stored(proc.writes)

WriteFails ==
  /\ Running("writing") /\ Exit(ExitCode.Config)
  /\ \/ Idle                \* the file could not be opened
     \/ Stored(Text)        \* nor filled

Tell ==
  /\ Running("reporting")
  /\ \/ Exit(ExitCode.Success)
     \/ Exit(ExitCode.Unexpected)      \* standard output cannot be written
  /\ Idle

(* A command without the handler dies of a signal where it stands.         *)
Killed ==
  /\ proc.at \in {"parsed", "writing", "reporting"}
  /\ ~command_needs_termination_handler(proc.command)
  /\ ExitFor(0, "killed")
  /\ IF Running("writing") THEN Idle \/ Stored(Text) ELSE Idle

-----------------------------------------------------------------------------
(* Reports about the machine                                               *)

(* What a scan of /dev/input comes to.                                     *)
Scans == {"missing", "denied", "unreadable", "none", "one", "many"}

ScanCode(scan) ==
  CASE scan = "missing" -> ExitCode.InputDir [] scan = "denied" -> ExitCode.Permission
    [] scan = "none" -> ExitCode.NoCandidate [] OTHER -> ExitCode.Success

(* run_doctor: all the findings are printed, and the first that failed is  *)
(* the result.                                                             *)
DoctorCode(settingsOk, scan, outputOk) ==
  CASE scan = "denied" -> ExitCode.Permission
    [] scan \in {"missing", "unreadable"} -> ExitCode.InputDir
    [] ~settingsOk -> ExitCode.Config
    [] scan # "one" -> ExitCode.NoCandidate
    [] ~outputOk -> ExitCode.OutputCapability
    [] OTHER -> ExitCode.Success

ListDevices ==
  /\ Running("parsed") /\ Name = "devices"
  /\ \E scan \in Scans : Exit(IF scan = "unreadable" THEN ExitCode.Unexpected ELSE ScanCode(scan))
  /\ Idle

(* The node is opened once for its exit code, then again for the probe.    *)
Inspect ==
  /\ Running("parsed") /\ Name = "inspect"
  /\ \E failure \in {"Success", "InputDir", "Permission", "Unexpected", "NoCandidate", "Stream"} :
       Exit(ExitCode[failure])
  /\ Idle

Doctor ==
  /\ Running("parsed") /\ Name = "doctor"
  /\ \E scan \in Scans, outputOk \in BOOLEAN :
       Exit(DoctorCode(ReadSettings(Operand(1)) # {}, scan, outputOk))
  /\ Idle

(* diagnostics, qualify and windows-capture write a file of their own once *)
(* they have found what it is about.                                       *)
Survey ==
  /\ Running("parsed") /\ Name \in {"diagnostics", "qualify", "windows-capture"}
  /\ \E scan \in Scans :
       LET failed == \/ scan \in {"missing", "denied", "unreadable"}
                     \/ scan = "none" /\ Name # "diagnostics"
       IN IF ~failed THEN proc' = [proc EXCEPT !.at = "writing", !.writes = Text]
          ELSE Exit(IF Name = "windows-capture" THEN ExitCode.Unexpected
                    ELSE IF scan = "unreadable" THEN ExitCode.InputDir ELSE ScanCode(scan))
  /\ Idle

Simple ==
  /\ Running("parsed")
  /\ Name \in {"help", "windows-probe"} \/ (Name = "output-probe" /\ ~proc.command.flag)
  /\ Go("reporting") /\ Idle

-----------------------------------------------------------------------------
(* output-probe --emit                                                     *)

Emit ==
  /\ Running("parsed") /\ Name = "output-probe" /\ proc.command.flag
  /\ Go("emitting") /\ BeginEmission
  /\ UNCHANGED <<disk, before, runs, productionVars>>

EmitStep ==
  /\ Running("emitting") /\ EmissionStep
  /\ UNCHANGED <<disk, proc, before, runs, productionVars>>

Emitted ==
  /\ Running("emitting") /\ At("over") /\ Exit(emission.code) /\ Idle

-----------------------------------------------------------------------------
(* The commands that go on elsewhere                                       *)

HandOver(name) == proc' = [proc EXCEPT !.at = "handed-over", !.why = name]

Record ==
  /\ Running("parsed") /\ Name \in {"record", "replay"}
  /\ HandOver(Name) /\ Idle

(* Which profile a run is for and the files of its documents.              *)
Requested ==
  IF Name = "service-run"
  THEN [profile |-> "m19-live-v1", feel |-> Nothing, settings |-> Operand(1)]
  ELSE [profile |-> proc.command.profile, feel |-> proc.command.feel,
        settings |-> proc.command.settings]

(* run_inner up to the banner: the documents, what the desktop can carry   *)
(* out, the profile.                                                       *)
Takeover ==
  /\ Running("parsed") /\ Name \in {"takeover", "service-run"}
  /\ LET asked == Requested
         feel  == IF asked.feel = Nothing THEN {NoDocument} ELSE ReadFeel(asked.feel)
         settings == IF asked.settings = Nothing THEN {NoDocument} ELSE ReadSettings(asked.settings)
     IN IF feel = {} \/ settings = {} THEN Exit(ExitCode.Config)
        ELSE \E f \in feel, s \in settings, backend \in {"kde", "portal"} :
               IF ~PlanBuilds(backend, s) THEN ExitFor(ExitCode.OutputCapability, "plan")
               ELSE IF ~SelectProfile(asked.profile, f, s).ok
               THEN ExitFor(ExitCode.Unexpected, "profile")
               ELSE HandOver(asked.profile)
  /\ Idle

(* A host with a configuration config-check would accept.                  *)
HostArrives ==
  /\ Running("idle")
  /\ \E path \in Paths : \E config \in ReadRuntime(path) : HostBegins(config)
  /\ Go("hosting")
  /\ UNCHANGED <<disk, before, runs, emission>>

Host ==
  /\ Running("hosting") /\ HostStep
  /\ UNCHANGED <<disk, proc, before, runs, emission>>

-----------------------------------------------------------------------------

CommandsNext ==
  \/ StartProcess \/ HandlerRefused
  \/ Check \/ Compose \/ Write \/ WriteFails \/ Tell \/ Killed
  \/ ListDevices \/ Inspect \/ Doctor \/ Survey \/ Simple
  \/ Emit \/ EmitStep \/ Emitted
  \/ Record \/ Takeover
  \/ HostArrives \/ Host

CommandsSpec == CommandsInit /\ [][CommandsNext]_commandVars

-----------------------------------------------------------------------------
(* Properties                                                              *)

Ended(name, code) == Running("exited") /\ Name = name /\ proc.code = code /\ proc.why = ""

EditCommands == {"feel-set", "settings-set", "settings-patch"}

(* The document a command edits, and the parameters of one: by area, and   *)
(* the rest of their keys.  A feel overlay is all of one area.             *)
Kind == IF Name = "feel-set" THEN "feel" ELSE "settings"

AreasOf(kind) == IF kind = "feel" THEN {"feel"} ELSE {"feel", "dwt", "gesture"}

Parameters(area) ==
  IF area = "feel" THEN FeelKeys \cup {"drag.drag_lock"}
  ELSE IF area = "dwt" THEN {"enabled", "short-timeout-ms", "long-timeout-ms"}
  ELSE Triggers \cup {"three-finger-drag-enabled"}

FeelValue(feel, key) == IF key = "drag.drag_lock" THEN feel.drag_lock ELSE feel.param[key]

DwtValue(dwt, key) ==
  IF key = "enabled" THEN dwt.enabled ELSE IF key = "short-timeout-ms" THEN dwt.short ELSE dwt.long

GestureValue(gestures, key) ==
  IF key = "three-finger-drag-enabled" THEN gestures.drag_enabled ELSE gestures.bindings[key]

ValueIn(kind, doc, area, key) ==
  IF kind = "feel" THEN FeelValue(doc, key)
  ELSE IF area = "feel" THEN FeelValue(doc.feel, key)
  ELSE IF area = "dwt" THEN DwtValue(doc.dwt, key) ELSE GestureValue(doc.gestures, key)

(* Whether an edit is of a parameter, and the value it asks for.           *)
Assigns(kind, edit, area, key) ==
  IF kind = "feel" THEN edit.key = key ELSE edit.area = area /\ edit.rest = key

Asked(area, key, value) ==
  IF key \in OnOffKeys THEN Booleans[value]
  ELSE IF area = "feel" THEN Spelled(key)[value]
  ELSE IF area = "dwt" THEN NumberOf[value] ELSE value

(* The last edit of a key, of those a command was given.                   *)
LastEdits ==
  {EditOf[Edits[i]] : i \in {i \in DOMAIN Edits : \A j \in DOMAIN Edits :
                               j > i => EditOf[Edits[j]].key # EditOf[Edits[i]].key}}

(* An edit command that exits 0 has written a document that validates and  *)
(* holds the value of the last edit of every parameter, be it of the feel, *)
(* of the typing guard or of a gesture, and that of the document it read   *)
(* for every parameter not edited; and no process, killed or failed        *)
(* wherever it was, changes a file other than the one its command line     *)
(* names as output (cmd/feel.rs run_set, cmd/settings.rs run_set and       *)
(* run_patch: "transactionally").                                          *)
SavedAsAsked ==
  /\ Name \in EditCommands /\ Ended(Name, 0) /\ Output \in Paths =>
       LET old == before[Operand(1)].doc
           new == disk[Output].doc
       IN /\ \A area \in AreasOf(Kind) : \A key \in Parameters(area) :
               /\ \A edit \in LastEdits : Assigns(Kind, edit, area, key) =>
                    ValueIn(Kind, new, area, key) = Asked(area, key, edit.value)
               /\ (\A edit \in LastEdits : ~Assigns(Kind, edit, area, key)) =>
                    ValueIn(Kind, new, area, key) = ValueIn(Kind, old, area, key)
          /\ (IF Kind = "feel" THEN ReadFeel(Output) ELSE ReadSettings(Output)) # {}
  /\ disk # before => \A path \in Paths \ {Output} : disk[path] = before[path]

(* The parser, the documents' own validation and the constructors of the   *)
(* stages agree: a takeover or service whose command line was accepted and *)
(* whose documents were accepted is never refused for its profile, however *)
(* the documents were edited.                                              *)
AcceptedRunsHaveAProfile == proc.why # "profile"
=============================================================================
