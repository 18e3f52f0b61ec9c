----------------------------- MODULE PolicyModes -----------------------------
(***************************************************************************)
(* The permission arithmetic every authorization point of the MCP server   *)
(* shares: capabilities have a mode under a policy, a command needs some   *)
(* capabilities and any one of some others, and the modes combine into the *)
(* mode of the invocation and into the reasons the user must confirm.      *)
(* All operators are pure; a policy is a function from Capability to Mode. *)
(***************************************************************************)

CONSTANTS
    Capability,     \* capability names of policy.py
    Impersonation   \* the extra confirmation reason "impersonation"

ASSUME ImpersonationAssumption == Impersonation \notin Capability

Mode == {"deny", "allow", "confirm"}

Policy == [Capability -> Mode]

(* What a prompt can be about: a capability, or acting as another user. *)
Reason == Capability \cup {Impersonation}

(* Deny wins, then Confirm; no mode at all is Deny. *)
Combine(modes) ==
    IF modes = {} \/ "deny" \in modes THEN "deny"
    ELSE IF "confirm" \in modes THEN "confirm" ELSE "allow"

ModesOf(policy, capabilities) == {policy[k] : k \in capabilities}

(* The most permissive mode of an any-of set: Allow wins, then Confirm. *)
BestOf(modes) ==
    IF "allow" \in modes THEN "allow"
    ELSE IF "confirm" \in modes THEN "confirm" ELSE "deny"

(* CommandDecision.effective_mode for the fixed and request-derived        *)
(* capabilities `required` and the any-of capabilities `alternatives`.     *)
EffectiveMode(policy, required, alternatives) ==
    Combine(ModesOf(policy, required) \cup
            (IF alternatives = {} THEN {}
             ELSE {BestOf(ModesOf(policy, alternatives))}))

(* Acting as another user raises Allow to Confirm and changes nothing else. *)
InvocationMode(policy, required, alternatives, impersonating) ==
    LET mode == EffectiveMode(policy, required, alternatives)
    IN  IF impersonating /\ mode = "allow" THEN "confirm" ELSE mode

(* Capabilities in Confirm mode the call really depends on: alternatives   *)
(* count only when none of them is allowed outright.                       *)
ConfirmedCapabilities(policy, required, alternatives) ==
    {k \in required : policy[k] = "confirm"} \cup
    {k \in alternatives : /\ policy[k] = "confirm"
                          /\ "allow" \notin ModesOf(policy, alternatives)}

(* The capability a prompt names when no other reason applies: a required  *)
(* one (the code takes the first in sorted order), else "impersonation".   *)
ConfirmationCapability(required) ==
    IF required = {} THEN Impersonation ELSE CHOOSE k \in required : TRUE

(* The reasons the user must have accepted before the call may execute. *)
ConfirmationEvidence(policy, required, alternatives, impersonating) ==
    LET reasons ==
          ConfirmedCapabilities(policy, required, alternatives) \cup
          (IF impersonating THEN {Impersonation} ELSE {})
    IN  IF InvocationMode(policy, required, alternatives, impersonating) = "allow"
        THEN {}
        ELSE IF reasons = {} THEN {ConfirmationCapability(required)} ELSE reasons
===============================================================================
