-------------------------- MODULE MCLifecycleRegimes --------------------------
(* Lifecycle under two regimes of its surroundings, each with what the other *)
(* leaves out: configurations and tokens that change while some first route  *)
(* is contested, and routes of every group contested under one policy.       *)
EXTENDS MCLifecycle

VARIABLE regime

(* The endpoint, the first metadata document. *)
MCFirstRoutes == {<<"mcp", "a">>, <<"resource", "a">>}

(* The endpoint, the later metadata document, the rest of the wizard. *)
MCLaterRoutes == {<<"mcp", "a">>, <<"resource", "root">>, <<"token", "a">>}

MCContested == MCFirstRoutes \cup MCLaterRoutes

Foreign == {p \in Route : routes[p] = "foreign"}

Within ==
    \/ regime = "configuration" /\ Foreign \subseteq MCFirstRoutes
    \/ /\ regime = "routes" /\ Foreign \subseteq MCLaterRoutes
       /\ config.policy = "open" /\ config.indexed = {}
       /\ \A g \in Runtime : runtime[g].known = {}

RegimeInit == regime \in {"configuration", "routes"} /\ Init /\ Within

RegimeNext == Next /\ UNCHANGED regime /\ Within'

RegimeSpec ==
    /\ RegimeInit /\ [][RegimeNext]_<<vars, regime>>
    /\ WF_vars(LifespanFails) /\ WF_vars(DrainTimesOut)
===============================================================================
