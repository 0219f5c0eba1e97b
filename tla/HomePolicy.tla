----------------------------- MODULE HomePolicy -----------------------------
(***************************************************************************)
(* The two static layers that decide what happens to a home action once    *)
(* its target is resolved: the household policy (ha/policy.rs,             *)
(* assess_home_action), and the runtime safety gate                        *)
(* (assess_runtime_home_action), in the order tools/home.rs `control`      *)
(* applies them.  Confidences are percentages.                             *)
(***************************************************************************)
EXTENDS Integers

Kinds == {"turn_on", "turn_off", "toggle", "set_brightness", "set_temperature",
          "open", "close", "lock", "unlock", "activate"}

RequestOrigin == {"unknown", "voice", "dashboard", "api", "telegram", "repl",
                  "confirmation"}

TargetKinds == {"entity", "group", "scene", "script"}

(***************************************************************************)
(* A resolved HomeTarget.  `barrier` abstracts the text scan of            *)
(* opens_physical_barrier (garage, door, gate); `entities` is the number   *)
(* of entity ids the query resolved to.                                    *)
(***************************************************************************)
HomeTarget(domains, counts, confidences) ==
  [kind : TargetKinds, domain : domains, voiceSafe : BOOLEAN,
   barrier : BOOLEAN, entities : counts, confidence : confidences]

Allow(risk)               == [risk |-> risk, allowed |-> TRUE, requiresConfirmation |-> FALSE]
RequireConfirmation(risk) == [risk |-> risk, allowed |-> FALSE, requiresConfirmation |-> TRUE]
Deny                      == [risk |-> "high", allowed |-> FALSE, requiresConfirmation |-> FALSE]

MediumRisk == {<<"climate", "set_temperature">>, <<"cover", "close">>,
               <<"cover", "toggle">>, <<"script", "activate">>}

(* assess_home_action: the first rule that applies decides. *)
AssessHomeAction(action, target) ==
  CASE action = "activate" /\ target.kind = "script" /\ ~target.voiceSafe -> Deny
    [] ~target.voiceSafe /\ ~(action = "activate" /\ target.kind = "script")
         -> RequireConfirmation("high")
    [] target.voiceSafe /\
         (\/ target.domain \in {"lock", "alarm_control_panel", "camera"}
          \/ action = "unlock"
          \/ action = "open" /\ (target.domain = "cover" \/ target.barrier))
         -> RequireConfirmation("high")
    [] OTHER -> Allow(IF <<target.domain, action>> \in MediumRisk THEN "medium" ELSE "low")

(* Channels whose non-low-risk requests home::control sends to confirmation. *)
ConfirmingOrigins == {"voice", "telegram", "api", "dashboard", "repl"}

(* control(): the outcomes that need no Home Assistant round trip. *)
PolicyOutcome(policy, origin, confirmed) ==
  CASE ~policy.allowed /\ ~policy.requiresConfirmation -> "denied"
    [] ~policy.allowed /\ policy.requiresConfirmation /\ ~confirmed -> "confirm"
    [] policy.allowed /\ ~confirmed /\ policy.risk # "low" /\ origin \in ConfirmingOrigins
         -> "confirm"
    [] OTHER -> "check"

Highest(a, b) == IF a >= b THEN a ELSE b

OriginFloor(origin) ==
  CASE origin = "voice" -> 88 [] origin = "telegram" -> 90
    [] origin = "api" -> 84   [] OTHER -> 0

RequiredConfidence(policy, config, origin, confirmed) ==
  LET base == IF policy.risk \in {"medium", "high"} THEN config.minSensitive
              ELSE config.minTarget
  IN  IF confirmed THEN base ELSE Highest(base, OriginFloor(origin))

Stateless(target) == target.kind \in {"scene", "script"}

(***************************************************************************)
(* assess_runtime_home_action: `connected` is IntegrationHealth.connected, *)
(* `available` HomeState.available (control() reads a state for every      *)
(* target that is not a scene or a script, so the None arm of the match is *)
(* never taken for those).                                                 *)
(***************************************************************************)
RuntimeAllows(target, policy, connected, available, config, origin, confirmed) ==
  \/ ~config.enabled
  \/ /\ connected
     /\ target.entities > 0
     /\ target.confidence >= RequiredConfidence(policy, config, origin, confirmed)
     /\ ~(config.denyMultiTargetSensitive /\ policy.risk \in {"medium", "high"}
            /\ target.entities > 1)
     /\ (config.requireAvailableState /\ ~Stateless(target)) => available

(* control() as a whole for one resolved target, given what HA reports. *)
Control(action, target, connected, available, config, origin, confirmed) ==
  LET policy == AssessHomeAction(action, target)
      first  == PolicyOutcome(policy, origin, confirmed)
  IN  IF first # "check" THEN first
      ELSE IF RuntimeAllows(target, policy, connected, available, config, origin, confirmed)
           THEN "execute" ELSE "blocked"
=============================================================================
