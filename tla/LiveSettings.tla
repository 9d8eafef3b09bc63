---------------------------- MODULE LiveSettings ----------------------------
(***************************************************************************)
(* The settings file, the processes that rewrite it (cmd/settings.rs, an   *)
(* editor) and its hot reload (cmd/live_settings.rs): the startup reads    *)
(* the file once for the configuration and once more for the watcher's     *)
(* hash, and every round of the takeover loop first tries the pending      *)
(* configuration, then polls the file.  `settings patch` reads the file,   *)
(* truncates it and writes it, with the takeover free to poll in between.  *)
(*                                                                         *)
(* File contents are model values; a hash stands for its content.          *)
(***************************************************************************)
EXTENDS Naturals

CONSTANTS
  Sound,         \* contents that decode and pass every validation
  Torn,          \* a content that does not
  Unreadable,    \* a read of the file fails
  None           \* no content

ASSUME SettingsAssumption ==
  /\ Torn \notin Sound /\ Unreadable \notin Sound \cup {Torn}
  /\ None \notin Sound \cup {Torn, Unreadable}

VARIABLES
  file,                           \* the file on disk
  patch,                          \* `settings patch`, in another process
  active, activeGen,              \* the arbiter's configuration, its generation
  lastHash, generation, pending,  \* SettingsWatcher
  overlooked                      \* history: it was created on another content

watcher      == <<lastHash, generation, pending, overlooked>>
settingsVars == <<file, patch, active, activeGen, watcher>>

NoUpdate == [config |-> None, generation |-> 0]

SettingsInit ==
  /\ file \in Sound /\ patch = "idle" /\ active = None /\ activeGen = 0
  /\ lastHash = None /\ generation = 0 /\ pending = NoUpdate
  /\ overlooked = FALSE

(* A document that decodes, validates and makes a configuration.           *)
Valid(c) == c \in Sound

(* read_settings: startup refuses anything it cannot validate.             *)
ReadSettings ==
  /\ Valid(file) /\ active' = file
  /\ UNCHANGED <<file, patch, activeGen, watcher>>

(* SettingsWatcher::new hashes whatever the file holds by now.             *)
CreateWatcher ==
  /\ file # Unreadable /\ lastHash' = file /\ overlooked' = (file # active)
  /\ UNCHANGED <<file, patch, active, activeGen, generation, pending>>

-----------------------------------------------------------------------------
(* One round of run_loop's settings block, on an arbiter that accepts a    *)
(* new configuration or does not (TakeoverBridge::try_replace_config).     *)

(* try_apply_pending.                                                      *)
ApplyPending(accepts) ==
  /\ IF pending # NoUpdate /\ accepts
     THEN active' = pending.config /\ activeGen' = pending.generation /\ pending' = NoUpdate
     ELSE UNCHANGED <<active, activeGen, pending>>
  /\ UNCHANGED <<file, patch, lastHash, generation, overlooked>>

(* poll_validated: what the poll makes of the content c.                   *)
Loaded(c) == c # lastHash /\ Valid(c)

HashAfter(c)  == IF c = Unreadable THEN lastHash ELSE c

(* queue: only the newest update is kept.                                  *)
KeepOldest(u) == IF pending = NoUpdate THEN u ELSE pending   \* mutant
DropBusy(u)   == NoUpdate                                    \* mutant
Queued(u)     == u

(* A loaded update is applied at once or queued.                           *)
PollSettings(accepts) ==
  /\ LET update == [config |-> file, generation |-> generation + 1]
     IN  IF Loaded(file)
         THEN /\ generation' = update.generation
              /\ IF accepts
                 THEN /\ active' = file /\ activeGen' = update.generation
                      /\ UNCHANGED pending
                 ELSE /\ pending' = Queued(update)
                      /\ UNCHANGED <<active, activeGen>>
         ELSE UNCHANGED <<active, activeGen, generation, pending>>
  /\ lastHash' = HashAfter(file)
  /\ UNCHANGED <<file, patch, overlooked>>

-----------------------------------------------------------------------------
(* The other processes.                                                    *)

(* An editor saves by renaming, or the file is removed.                    *)
Edit(c) ==
  /\ patch = "idle" /\ c # file /\ file' = c
  /\ UNCHANGED <<patch, active, activeGen, watcher>>

(* run_patch: read_settings, then write_settings, which opens with         *)
(* truncation and writes in place; it may die or fail after the first.     *)
PatchReads ==
  /\ patch = "idle" /\ Valid(file) /\ patch' = "read"
  /\ UNCHANGED <<file, active, activeGen, watcher>>

PatchTruncates ==
  /\ patch = "read" /\ file' = Torn /\ patch' = "open"
  /\ UNCHANGED <<active, activeGen, watcher>>

PatchEnds(c) ==
  /\ patch = "open" /\ file' = c /\ patch' = "idle"
  /\ UNCHANGED <<active, activeGen, watcher>>

-----------------------------------------------------------------------------
(* No loaded update is lost to an older one: the newest generation is the  *)
(* active configuration or the one waiting for the boundary.               *)
NewestUpdateWins ==
  generation = IF pending = NoUpdate THEN activeGen ELSE pending.generation
=============================================================================
