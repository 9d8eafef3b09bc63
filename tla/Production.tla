----------------------------- MODULE Production -----------------------------
(***************************************************************************)
(* The productionization contracts of production.rs: the versioned runtime *)
(* configuration with its migration (cmd/config.rs loads it), the bounded  *)
(* exponential reconnect controller and the lifecycle of the foreground    *)
(* service.  The module performs no I/O; the host that drives a lifecycle  *)
(* and two controllers, one for the device and one for the output, is      *)
(* outside the repository and may call them in any order.                  *)
(***************************************************************************)
EXTENDS Documents

CONSTANT MaxU64      \* u64::MAX

ASSUME ProductionAssumption == MaxU64 \in Nat \ {0}

VARIABLES
  service,       \* ServiceLifecycle.state
  controllers,   \* the two ReconnectControllers
  retries,       \* history: the delays each has asked for since its last success
  refused        \* history: a request to stop was refused

productionVars == <<service, controllers, retries, refused>>

CURRENT_RUNTIME_CONFIG_VERSION == 2

-----------------------------------------------------------------------------
(* The runtime configuration                                               *)

PolicyValid(policy) ==
  /\ policy.initial \in 1..MaxU64 /\ policy.max \in policy.initial..MaxU64
  /\ policy.attempts \in 1..32

(* validate_nonempty: a device that is blank is refused.                   *)
Blank == "blank"

RuntimeV1Valid(config) ==
  /\ config.version = 1
  /\ config.profile \in EarlyProfiles /\ config.device # Blank
  /\ PolicyValid(config.reconnect)

RuntimeValid(config) ==
  /\ config.version = CURRENT_RUNTIME_CONFIG_VERSION
  /\ config.profile \in EarlyProfiles /\ config.device # Blank
  /\ PolicyValid(config.device_reconnect) /\ PolicyValid(config.output_reconnect)
  /\ config.rollback \in (EarlyProfiles \ {config.profile}) \cup {Nothing}
  /\ config.foreground_only

Migrate(old) ==
  [version |-> CURRENT_RUNTIME_CONFIG_VERSION, profile |-> old.profile, device |-> old.device,
   device_reconnect |-> old.reconnect, output_reconnect |-> old.reconnect,
   rollback |-> Nothing, foreground_only |-> TRUE]

(* load_runtime_config: the configuration a document gives, if any.  A     *)
(* document of one version never decodes as the other: fields are strict.  *)
LoadRuntime(doc) ==
  CASE doc.version = 1 /\ RuntimeV1Valid(doc) /\ RuntimeValid(Migrate(doc)) -> {Migrate(doc)}
    [] doc.version = CURRENT_RUNTIME_CONFIG_VERSION /\ RuntimeValid(doc) -> {doc}
    [] OTHER -> {}

-----------------------------------------------------------------------------
(* ReconnectController                                                     *)

NewController(policy) ==
  [policy |-> policy, attempts |-> 0, next_delay |-> policy.initial, stopped |-> FALSE]

Least(a, b) == IF a < b THEN a ELSE b

Doubled(controller) == Least(Least(2 * controller.next_delay, MaxU64), controller.policy.max)

Stopped   == [retry |-> FALSE, why |-> "stopped"]
Exhausted == [retry |-> FALSE, why |-> "exhausted"]
RetryAfter(delay) == [retry |-> TRUE, after |-> delay]

(* on_failure: the decision, and the controller after it.                  *)
OnFailure(controller) ==
  IF controller.stopped THEN [decision |-> Stopped, controller |-> controller]
  ELSE IF controller.attempts >= controller.policy.attempts
  THEN [decision |-> Exhausted, controller |-> controller]
  ELSE [decision |-> RetryAfter(Least(controller.next_delay, controller.policy.max)),
        controller |-> [controller EXCEPT !.attempts = @ + 1, !.next_delay = Doubled(controller)]]

\* mutant: a success leaves the delay where it was
OnSuccessKeepsDelay(controller) ==
  IF controller.stopped THEN controller ELSE [controller EXCEPT !.attempts = 0]
OnSuccess(controller) ==
  IF controller.stopped THEN controller
  ELSE [controller EXCEPT !.attempts = 0, !.next_delay = controller.policy.initial]

StopController(controller) == [controller EXCEPT !.stopped = TRUE]

-----------------------------------------------------------------------------
(* ServiceLifecycle                                                        *)

ServiceStates ==
  {"stopped", "starting", "running", "reconnecting", "degraded", "stopping", "faulted"}

Working == {"running", "reconnecting", "degraded"}

(* transition: the twenty legal pairs.                                     *)
Legal(from, to) ==
  \/ from = "stopped" /\ to = "starting"
  \/ from = "starting" /\ to \in {"running", "degraded", "faulted", "stopping"}
  \/ from \in Working /\ to \in (Working \cup {"faulted", "stopping"}) \ {from}
  \/ from = "faulted" /\ to \in {"starting", "stopping"}
  \/ from = "stopping" /\ to = "stopped"

-----------------------------------------------------------------------------
(* The host: it makes its controllers from a configuration that            *)
(* load_runtime_config has accepted.                                       *)

Links == {"device", "output"}

NoPolicy == [initial |-> 0, max |-> 0, attempts |-> 0]

ProductionInit ==
  /\ service = "stopped" /\ refused = FALSE
  /\ controllers = [link \in Links |-> NewController(NoPolicy)]
  /\ retries = [link \in Links |-> <<>>]

HostBegins(config) ==
  /\ controllers' = [link \in Links |->
                       NewController(IF link = "device" THEN config.device_reconnect
                                     ELSE config.output_reconnect)]
  /\ retries' = [link \in Links |-> <<>>]
  /\ UNCHANGED <<service, refused>>

(* transition; a refused one changes nothing.                              *)
Transition(to) ==
  /\ Legal(service, to)
  /\ service' = to
  /\ UNCHANGED <<controllers, retries, refused>>

RequestStop ==
  /\ service \notin {"stopped", "stopping"}
  /\ IF Legal(service, "stopping") THEN service' = "stopping" /\ refused' = refused
     ELSE service' = service /\ refused' = TRUE
  /\ UNCHANGED <<controllers, retries>>

MarkStopped ==
  /\ service = "stopping" /\ Legal(service, "stopped")
  /\ service' = "stopped"
  /\ UNCHANGED <<controllers, retries, refused>>

LinkFailed(link) ==
  LET next == OnFailure(controllers[link])
  IN /\ controllers' = [controllers EXCEPT ![link] = next.controller]
     /\ retries' = IF next.decision.retry
                   THEN [retries EXCEPT ![link] = Append(@, next.decision.after)] ELSE retries
     /\ UNCHANGED <<service, refused>>

LinkRestored(link) ==
  /\ controllers' = [controllers EXCEPT ![link] = OnSuccess(@)]
  /\ retries' = IF controllers[link].stopped THEN retries ELSE [retries EXCEPT ![link] = <<>>]
  /\ UNCHANGED <<service, refused>>

LinkStopped(link) ==
  /\ controllers' = [controllers EXCEPT ![link] = StopController(@)]
  /\ UNCHANGED <<service, retries, refused>>

HostStep ==
  \/ \E to \in ServiceStates : Transition(to)
  \/ RequestStop
  \/ MarkStopped
  \/ \E link \in Links : LinkFailed(link) \/ LinkRestored(link) \/ LinkStopped(link)

-----------------------------------------------------------------------------

(* Between two successes a controller asks for no more retries than its    *)
(* policy allows, the first after the initial delay, each after at most    *)
(* twice the one before and never less, and none above the bound, whatever *)
(* order a host reports failures, successes and stops in.                  *)
BackoffWithinPolicy ==
  \A link \in Links :
    LET policy == controllers[link].policy
        asked  == retries[link]
    IN /\ Len(asked) <= policy.attempts
       /\ asked # <<>> => asked[1] = policy.initial
       /\ \A i \in 1..Len(asked) : asked[i] <= policy.max
       /\ \A i \in 1..Len(asked) - 1 :
            asked[i] <= asked[i + 1] /\ asked[i + 1] <= 2 * asked[i]

(* Whatever state a service has reached, even after a fault, a request to  *)
(* stop is taken.                                                          *)
StopIsNeverRefused == ~refused

(* A service that loses its output keeps within the policy it was given,   *)
(* and can always be told to stop.                                         *)
RecoveryWithinPolicy == BackoffWithinPolicy /\ StopIsNeverRefused
=============================================================================
