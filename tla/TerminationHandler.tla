-------------------------- MODULE TerminationHandler --------------------------
(***************************************************************************)
(* The SIGINT and SIGTERM handler of the process (sys/ffi.rs): installing  *)
(* it is two calls of sigaction between two stores, removing it two calls  *)
(* and two stores, and signals arrive at any point of either.  Installing  *)
(* and removing are single-threaded; the handler runs on any thread, so    *)
(* one that has begun may store the stop request after its guard is gone.  *)
(* What a signal does that is not ours to handle is not followed.          *)
(***************************************************************************)
EXTENDS Naturals

CONSTANTS
  Before,      \* the dispositions a process may start with: [Signals -> ...]
  MaxHandlers  \* bound: handlers that have begun and not stored yet

Signals == {"SIGINT", "SIGTERM"}

ASSUME HandlerAssumption ==
  /\ Before \subseteq [Signals -> {"default", "ignored"}]
  /\ MaxHandlers \in Nat \ {0}

VARIABLES
  start,        \* the dispositions before the first install
  disposition,  \* the dispositions in force
  previous,     \* the guard's copy of what was in force before
  installed,    \* INSTALLED
  requested,    \* TERMINATION_REQUESTED
  at,           \* how far the install or the removal has come
  begun,        \* handlers begun under this install and not yet at the store
  stray,        \* the same, begun under an earlier one
  served,       \* history: a handler of this install has stored
  overtaken     \* history: a stray one has, after the install's own reset

handlerVars ==
  <<start, disposition, previous, installed, requested, at, begun, stray, served, overtaken>>

handlers == <<begun, stray, served, overtaken>>

HandlerInit ==
  /\ start \in Before /\ disposition = start /\ previous = start
  /\ installed = FALSE /\ requested = FALSE /\ at = "free"
  /\ begun = 0 /\ stray = 0 /\ served = FALSE /\ overtaken = FALSE

-----------------------------------------------------------------------------
(* install_termination_handler                                             *)

(* The marker is claimed before anything else; a second install is refused.*)
Claim ==
  /\ at = "free" /\ ~installed /\ installed' = TRUE /\ at' = "claimed"
  /\ served' = FALSE /\ overtaken' = FALSE
  /\ UNCHANGED <<start, disposition, previous, requested, begun, stray>>

AlreadyInstalled == at = "held" /\ installed /\ UNCHANGED handlerVars

(* Mutant: the reset is left to the guard's removal.                       *)
StaleAfterClear == requested

StopAfterClear == FALSE

Clear ==
  /\ at = "claimed" /\ at' = "SIGINT" /\ requested' = StopAfterClear
  /\ UNCHANGED <<start, disposition, previous, installed, handlers>>

(* One sigaction: it takes the signal over and keeps what was there.       *)
TakeOver(s) ==
  /\ previous' = [previous EXCEPT ![s] = disposition[s]]
  /\ disposition' = [disposition EXCEPT ![s] = "handler"]

Refuses(next) == at' = next /\ UNCHANGED <<disposition, previous>>

SigactionInt ==
  /\ at = "SIGINT"
  /\ \/ TakeOver("SIGINT") /\ at' = "SIGTERM"
     \/ Refuses("reset")
  /\ UNCHANGED <<start, installed, requested, handlers>>

(* A partial install is undone: SIGINT is given back first.                *)
SigactionTerm ==
  /\ at = "SIGTERM"
  /\ \/ TakeOver("SIGTERM") /\ at' = "held"
     \/ Refuses("undo")
  /\ UNCHANGED <<start, installed, requested, handlers>>

-----------------------------------------------------------------------------
(* The guard's drop, and the way back from a partial install               *)

GiveBack(s) == disposition' = [disposition EXCEPT ![s] = previous[s]]

DropGuard ==
  /\ at = "held" /\ at' = "restore" /\ GiveBack("SIGINT")
  /\ UNCHANGED <<start, previous, installed, requested, handlers>>

RestoreTerm ==
  /\ at = "restore" /\ at' = "reset" /\ GiveBack("SIGTERM")
  /\ UNCHANGED <<start, previous, installed, requested, handlers>>

Undo ==
  /\ at = "undo" /\ at' = "reset" /\ GiveBack("SIGINT")
  /\ UNCHANGED <<start, previous, installed, requested, handlers>>

Reset ==
  /\ at = "reset" /\ at' = "release" /\ requested' = FALSE
  /\ UNCHANGED <<start, disposition, previous, installed, handlers>>

ReleaseMarker ==
  /\ at = "release" /\ at' = "free" /\ installed' = FALSE
  /\ begun' = 0 /\ stray' = stray + begun
  /\ UNCHANGED <<start, disposition, previous, requested, served, overtaken>>

-----------------------------------------------------------------------------
(* Signals                                                                 *)

Deliver(s) ==
  /\ disposition[s] = "handler" /\ begun + stray < MaxHandlers
  /\ begun' = begun + 1
  /\ UNCHANGED <<start, disposition, previous, installed, requested, at, stray, served, overtaken>>

(* termination_handler: one store, wherever the program is by then.        *)
Store ==
  /\ begun > 0 /\ begun' = begun - 1 /\ requested' = TRUE /\ served' = TRUE
  /\ UNCHANGED <<start, disposition, previous, installed, at, stray, overtaken>>

StoreLate ==
  /\ stray > 0 /\ stray' = stray - 1 /\ requested' = TRUE
  /\ overtaken' = (overtaken \/ at \notin {"free", "claimed"})
  /\ UNCHANGED <<start, disposition, previous, installed, at, begun, served>>

HandlerNext ==
  \/ Claim \/ AlreadyInstalled \/ Clear \/ SigactionInt \/ SigactionTerm
  \/ DropGuard \/ RestoreTerm \/ Undo \/ Reset \/ ReleaseMarker
  \/ \E s \in Signals : Deliver(s)
  \/ Store \/ StoreLate

HandlerSpec == HandlerInit /\ [][HandlerNext]_handlerVars

-----------------------------------------------------------------------------
(* Without a guard the process has the dispositions it started with,       *)
(* however often the handler was installed and wherever an install failed  *)
(* (sys/ffi.rs: "no handler is left installed and a retry is possible").   *)
DispositionsRestored == at = "free" => ~installed /\ disposition = start

(* While the guard is held a stop request is there exactly when a signal   *)
(* of this install has been handled, even between its two sigactions: none *)
(* is lost to the reset and none is left over from the guard before.  The  *)
(* exception is a handler of that guard that stores after this install's   *)
(* reset, which sys/ffi.rs takes to be impossible ("no signal can race     *)
(* this reset").                                                           *)
StopsAreThisGuards == at = "held" => (requested <=> served \/ overtaken)

(* Installing and removing leave nothing behind: neither a disposition nor *)
(* a stop request outlives the guard they belong to.                       *)
HandlerInOrder == DispositionsRestored /\ StopsAreThisGuards
=============================================================================
