---------------------------- MODULE MCInvocation ----------------------------
(* A small server for Invocation: the setup-flow submission with its any-of *)
(* and secret capabilities, a config save and a playback command.           *)
EXTENDS Invocation

MCCapability == {"provider", "player", "secret", "control"}

All(mode) == [k \in MCCapability |-> mode]

(* Open, guarded, no secrets, and provider-only. *)
MCPolicies ==
    {All("allow"),
     All("confirm"),
     [All("allow") EXCEPT !["secret"] = "confirm"],
     [All("deny") EXCEPT !["provider"] = "confirm", !["control"] = "allow"]}

MCSafeQueries == All("deny")

MCRequired ==
    [m \in Command |-> CASE m = "submit" -> {}
                           [] m = "save" -> {"provider"}
                           [] m = "play" -> {"control"}]

MCAlternatives ==
    [m \in Command |-> IF m = "submit" THEN {"provider", "player"} ELSE {}]

MCPreflight ==
    [m \in Command |-> CASE m = "submit" -> "flow"
                           [] m = "save" -> "entries"
                           [] m = "play" -> "none"]

MCCategories ==
    [m \in Command |->
        CASE m = "submit" -> {{"provider"}, {"player", "secret"}, Unclassified}
          [] m = "save" -> {{}, {"secret"}}
          [] m = "play" -> {{}}]
===============================================================================
