------------------------------- MODULE Lifecycle -------------------------------
(***************************************************************************)
(* The life of the plugin inside Music Assistant (MA): provider.py owns    *)
(* the command set and at most one runtime; a runtime (server.py) compiles *)
(* the policy resolver, drives the lifespan of its FastMCP application and *)
(* mounts routes on MA's webserver.                                        *)
(*                                                                         *)
(* MA runs one lifecycle operation at a time (init, config update,         *)
(* unload).  An operation suspends only where it waits for the lifespan to *)
(* start or to drain; there requests go on verifying bearers, which binds  *)
(* token identities and recompiles the resolver, and other plugins go on   *)
(* registering routes.  A step is the code between two suspensions.        *)
(***************************************************************************)
EXTENDS Sequences, Naturals, FiniteSets

CONSTANTS
    Runtime,        \* runtime objects
    None,           \* no runtime attached
    PolicyValue,    \* what the policy keys of the config can say
    Surface,        \* what the resource keys can say
    MountPath,      \* what the other keys can say, the mount path for one
    Token,          \* ids of MA tokens
    Default,        \* the policy of requests without a token override
    Watched,        \* <<policy, token or Default>> pairs that may read events
    Contested,      \* routes other plugins may register
    MaxTaken        \* bound: the routes they hold at a time

VARIABLES
    config,     \* the saved config; MA mutates the one object in place
    op,         \* the lifecycle operation in progress and where it waits
    attached,   \* provider._runtime
    commands,   \* whether the provider's MA commands are registered
    runtime,    \* the runtime objects
    routes,     \* owner of every route of MA's webserver
    active,     \* token ids the event retention knows
    listening,  \* whether the event buffer is subscribed to MA's bus
    lagging,    \* history: a save of both kinds of keys left the resolver old
    leaked      \* history: routes registered before a later one of their group failed

vars ==
    <<config, op, attached, commands, runtime, routes, active, listening, lagging, leaked>>

(* `indexed`: tokens whose policy rows the config finds without knowing the  *)
(* token (the stored suffixes).                                              *)
Config ==
    [policy : PolicyValue, surface : Surface, path : MountPath, indexed : SUBSET Token]

Operation ==
    [kind : {"none", "init", "rebuild", "restart", "unload"},
     at : {"none", "starting", "rollback", "stopping"}]

Idle == [kind |-> "none", at |-> "none"]

(* The routes of one mount: the endpoint, two metadata documents and the   *)
(* wizard, whose five routes are its page ("connect") and the others.      *)
Route == {"mcp", "resource", "connect", "token"} \X (MountPath \cup {"root"})

Main(path) == <<"mcp", path>>
WellKnown(path) == <<<<"resource", path>>, <<"resource", "root">>>>
Wizard(path) == <<<<"connect", path>>, <<"token", path>>>>

RuntimeState ==
    [path : MountPath, surface : Surface,
     policy : PolicyValue, seen : SUBSET Token,     \* the compiled resolver
     known : SUBSET Token,                          \* token identity registry
     lifespan : {"new", "starting", "up", "stopping", "ending", "down"},
     served : BOOLEAN,                              \* it has received requests
     route : BOOLEAN, wellKnown : BOOLEAN, wizard : BOOLEAN,  \* unmount handles
     lost : BOOLEAN]                                \* a lifespan without handle

ASSUME LifecycleAssumption ==
    /\ None \notin Runtime
    /\ "free" \notin Runtime /\ "foreign" \notin Runtime
    /\ "root" \notin MountPath
    /\ Watched \subseteq PolicyValue \X (Token \cup {Default})
    /\ Contested \subseteq Route
    /\ MaxTaken \in Nat

(***************************************************************************)
(* Shared pieces.                                                          *)
(***************************************************************************)

(* MCPServerRuntime.__init__, up to the wait for its lifespan. *)
NewRuntime(c) ==
    [path |-> c.path, surface |-> c.surface, policy |-> c.policy, seen |-> {},
     known |-> {}, lifespan |-> "starting", served |-> FALSE, route |-> FALSE,
     wellKnown |-> FALSE, wizard |-> FALSE, lost |-> FALSE]

Blank(c) == [NewRuntime(c) EXCEPT !.lifespan = "new"]

(* _refresh_policy_resolver: compile the config for the tokens known now. *)
Compiled(r, c) == [r EXCEPT !.policy = c.policy, !.seen = r.known]

(* policy_event_buffer_enabled: the default policy, or the one of a token we *)
(* were told of or that is indexed, may read events.                         *)
Retains(c, ids) == \E d \in ids \cup c.indexed \cup {Default} : <<c.policy, d>> \in Watched

(* Registration in order stops at the first route that is taken. *)
Claimed(group) ==
    {group[i] : i \in {i \in DOMAIN group : \A j \in 1 .. i : routes[group[j]] = "free"}}

Whole(group) == \A i \in DOMAIN group : routes[group[i]] = "free"

Assign(paths, owner) == [p \in Route |-> IF p \in paths THEN owner ELSE routes[p]]

(* The routes the handles of a runtime still unregister when it stops. *)
Holds(r) ==
    (IF r.wellKnown THEN {WellKnown(r.path)[i] : i \in 1 .. 2} ELSE {}) \cup
    (IF r.wizard THEN {Wizard(r.path)[i] : i \in 1 .. 2} ELSE {})

(* Mutant: the lifespan is told to stop and nobody waits for it. *)
StoppedUndrained(r) == [r EXCEPT !.route = FALSE, !.wellKnown = FALSE, !.wizard = FALSE]

Stopped(r) ==
    [r EXCEPT !.lifespan = "down", !.route = FALSE, !.wellKnown = FALSE, !.wizard = FALSE]

Unused == {g \in Runtime : runtime[g].lifespan = "new"}

(* The next runtime object; which one it is plays no part. *)
NextRuntime == CHOOSE g \in Unused : TRUE

(***************************************************************************)
(* Initial state: MA has a config for the plugin, nothing is loaded.       *)
(***************************************************************************)
Init ==
    /\ config \in Config
    /\ op = Idle
    /\ attached = None
    /\ commands = FALSE
    /\ runtime = [g \in Runtime |-> Blank(config)]
    /\ routes = [p \in Route |-> "free"]
    /\ active = {}
    /\ listening = FALSE
    /\ lagging = FALSE
    /\ leaked = {}

(***************************************************************************)
(* Starting.                                                               *)
(***************************************************************************)

(* handle_async_init up to the first wait: runtime and commands are built,  *)
(* the commands registered, the lifespan of the application started.        *)
BeginInit ==
    /\ op = Idle /\ ~commands /\ Unused # {}
    /\ runtime' = [runtime EXCEPT ![NextRuntime] = NewRuntime(config)]
    /\ attached' = NextRuntime
    /\ commands' = TRUE
    /\ active' = {}
    /\ listening' = Retains(config, {})
    /\ op' = [kind |-> "init", at |-> "starting"]
    /\ lagging' = FALSE
    /\ UNCHANGED <<config, routes, leaked>>

Starting == op.at = "starting" /\ runtime[attached].lifespan = "starting"

(* The lifespan is up and all routes are free, or only the wizard's are not: *)
(* its failure is logged, the endpoint stays, and so does what the wizard    *)
(* registered before the taken route, without its handle.                    *)
MountEndpoint ==
    LET g == attached
        p == runtime[g].path
    IN  /\ Starting
        /\ routes[Main(p)] = "free" /\ Whole(WellKnown(p))
        /\ routes' = Assign({Main(p)} \cup Claimed(WellKnown(p)) \cup Claimed(Wizard(p)), g)
        /\ runtime' = [runtime EXCEPT ![g].lifespan = "up", ![g].served = TRUE,
                                      ![g].route = TRUE, ![g].wellKnown = TRUE,
                                      ![g].wizard = Whole(Wizard(p))]
        /\ leaked' = leaked \cup IF Whole(Wizard(p)) THEN {} ELSE Claimed(Wizard(p))
        /\ op' = Idle
        /\ UNCHANGED <<config, attached, commands, active, listening, lagging>>

(* Mutant: a failed init forgets to stop the commands' event buffer. *)
AbortSubscribed ==
    /\ op' = Idle
    /\ attached' = IF op.kind = "rebuild" THEN attached ELSE None
    /\ commands' = (op.kind # "init")
    /\ UNCHANGED <<config, active, listening, lagging, leaked>>

(* What a failed start leaves: after init nothing, after a restart no       *)
(* runtime, after a rebuild the runtime without its mount.                  *)
Abort ==
    /\ op' = Idle
    /\ attached' = IF op.kind = "rebuild" THEN attached ELSE None
    /\ commands' = (op.kind # "init")
    /\ listening' = (op.kind # "init" /\ listening)
    /\ UNCHANGED <<config, active, lagging, leaked>>

(* The endpoint's own route is taken: mount_into_mass raises and the handle *)
(* of the lifespan it has started is lost with it.                          *)
EndpointTaken ==
    /\ Starting
    /\ routes[Main(runtime[attached].path)] # "free"
    /\ runtime' = [runtime EXCEPT ![attached].lifespan = "down", ![attached].lost = TRUE]
    /\ UNCHANGED routes
    /\ Abort

(* A metadata route is taken: mount_well_known raises, what it registered    *)
(* before stays, and start() rolls the endpoint back through stop().         *)
WellKnownTaken ==
    LET p == runtime[attached].path
    IN  /\ Starting
        /\ routes[Main(p)] = "free" /\ ~Whole(WellKnown(p))
        /\ routes' = Assign(Claimed(WellKnown(p)), attached)
        /\ leaked' = leaked \cup Claimed(WellKnown(p))
        /\ runtime' = [runtime EXCEPT ![attached].lifespan = "stopping",
                                      ![attached].route = TRUE]
        /\ op' = [op EXCEPT !.at = "rollback"]
        /\ UNCHANGED <<config, attached, commands, active, listening, lagging>>

(* The application's lifespan task is asked or told to end and awaited. *)
Ending ==
    /\ runtime' = [runtime EXCEPT ![attached].lifespan = "ending"]
    /\ UNCHANGED <<config, op, attached, commands, routes, active, listening, lagging, leaked>>

(* Mutant: a failed negotiation leaves the lifespan task behind. *)
LifespanFailsUndrained ==
    /\ Starting
    /\ UNCHANGED <<runtime, routes>>
    /\ Abort

(* Mutant: only the first start has a timeout. *)
LifespanFailsAtInit == Starting /\ op.kind = "init" /\ Ending

(* The application reports that its start failed, does not answer within 30  *)
(* seconds, or the operation is cancelled: in the first case the task is     *)
(* awaited as it is, in the others cancelled and then awaited, each time     *)
(* without a limit.                                                          *)
LifespanFails == Starting /\ Ending

(* The lifespan task that was awaited ends: the start has failed. *)
LifespanEnds ==
    /\ op.at = "starting" /\ runtime[attached].lifespan = "ending"
    /\ runtime' = [runtime EXCEPT ![attached].lifespan = "down"]
    /\ UNCHANGED routes
    /\ Abort

(* The application has not drained in two waits of 10 seconds: its task is   *)
(* cancelled and awaited without a limit.                                    *)
DrainTimesOut ==
    /\ op.at \in {"rollback", "stopping"} /\ runtime[attached].lifespan = "stopping"
    /\ Ending

(* The application has drained, in time or after it was cancelled. *)
RollbackEnds ==
    /\ op.at = "rollback"
    /\ runtime' = [runtime EXCEPT ![attached] = Stopped(@)]
    /\ UNCHANGED routes
    /\ Abort

(***************************************************************************)
(* Stopping, and what comes after it.                                      *)
(***************************************************************************)

(* Once stopped, a rebuild starts the same runtime again, a restart a new    *)
(* one that knows no tokens, and unload withdraws the commands; `kept` is    *)
(* whether the event buffer was subscribed before.                           *)
AfterStop(kind, c, kept) ==
    LET old == attached
    IN  \/ /\ kind = "rebuild"
           /\ runtime' = [runtime EXCEPT ![old] = [Stopped(@) EXCEPT
                                 !.lifespan = "starting", !.surface = c.surface]]
           /\ op' = [kind |-> kind, at |-> "starting"]
           /\ listening' = kept
           /\ UNCHANGED <<attached, commands, active>>
        \/ /\ kind = "restart"
           /\ Unused # {}
           /\ runtime' = [runtime EXCEPT ![old] = Stopped(@), ![NextRuntime] = NewRuntime(c)]
           /\ attached' = NextRuntime
           /\ op' = [kind |-> kind, at |-> "starting"]
           /\ active' = {}
           /\ listening' = Retains(c, {})
           /\ UNCHANGED commands
        \/ /\ kind = "unload"
           /\ runtime' = [runtime EXCEPT ![old] = Stopped(@)]
           /\ attached' = None
           /\ commands' = FALSE
           /\ listening' = FALSE
           /\ op' = Idle
           /\ UNCHANGED active

(* Mutant: the lifespan drains before the endpoint goes. *)
StopDrainingFirst(kind, c, kept) ==
    IF runtime[attached].route
    THEN /\ runtime' = [runtime EXCEPT ![attached].lifespan = "stopping"]
         /\ op' = [kind |-> kind, at |-> "stopping"]
         /\ listening' = kept
         /\ UNCHANGED <<routes, attached, commands, active>>
    ELSE AfterStop(kind, c, kept) /\ UNCHANGED routes

(* MCPServerRuntime.stop: the endpoint goes first, then the lifespan drains; *)
(* a runtime that is not mounted has nothing to wait for.                    *)
Stop(kind, c, kept) ==
    IF runtime[attached].route
    THEN /\ routes' = Assign({Main(runtime[attached].path)}, "free")
         /\ runtime' = [runtime EXCEPT ![attached].lifespan = "stopping"]
         /\ op' = [kind |-> kind, at |-> "stopping"]
         /\ listening' = kept
         /\ UNCHANGED <<attached, commands, active>>
    ELSE AfterStop(kind, c, kept) /\ UNCHANGED routes

(* Mutant: stop forgets the wizard's routes. *)
StopEndsKeepingWizard ==
    /\ op.at = "stopping"
    /\ routes' = LET p == runtime[attached].path
                 IN  Assign({WellKnown(p)[i] : i \in 1 .. 2}, "free")
    /\ AfterStop(op.kind, config, listening)
    /\ lagging' = (lagging /\ op.kind = "rebuild")
    /\ UNCHANGED <<config, leaked>>

(* The application has drained, in time or after it was cancelled. *)
StopEnds ==
    /\ op.at = "stopping"
    /\ routes' = Assign(Holds(runtime[attached]), "free")
    /\ AfterStop(op.kind, config, listening)
    /\ lagging' = (lagging /\ op.kind = "rebuild")
    /\ UNCHANGED <<config, leaked>>

Unload ==
    /\ op = Idle /\ commands
    /\ IF attached # None
       THEN Stop("unload", config, listening)
       ELSE /\ commands' = FALSE /\ listening' = FALSE
            /\ UNCHANGED <<runtime, routes, op, attached, active>>
    /\ UNCHANGED <<config, lagging, leaked>>

(***************************************************************************)
(* update_config: MA has changed the config and tells which keys.          *)
(***************************************************************************)
Changed(c) == {k \in {"policy", "surface", "path"} : c[k] # config[k]}

(* Tokens whose policy row the save changes. *)
Rows(c) ==
    {t \in Token : (<<c.policy, t>> \in Watched) # (<<config.policy, t>> \in Watched)}

(* A loaded provider indexes the rows that changed. *)
Save(c) ==
    /\ op = Idle
    /\ c \in Config /\ Changed(c) # {}
    /\ c.indexed = config.indexed \cup (IF commands THEN Rows(c) ELSE {})
    /\ config' = c
    /\ UNCHANGED leaked

(* Nothing is loaded: the config is only stored. *)
SaveUnloaded ==
    /\ \E c \in Config : Save(c)
    /\ ~commands
    /\ UNCHANGED <<op, attached, commands, runtime, routes, active, listening, lagging>>

(* Mutant: only the commands hear of the new policy. *)
SavePolicyKeysKeepingResolver ==
    /\ commands /\ attached # None
    /\ \E c \in Config :
          /\ Save(c) /\ Changed(c) = {"policy"}
          /\ listening' = Retains(c, active)
    /\ UNCHANGED <<op, attached, commands, runtime, routes, active, lagging>>

(* Policy keys only: the resolver is replaced in place and the retention     *)
(* hears of the tokens the runtime knows.                                    *)
SavePolicyKeys ==
    /\ commands /\ attached # None
    /\ \E c \in Config :
          /\ Save(c) /\ Changed(c) = {"policy"}
          /\ runtime' = [runtime EXCEPT ![attached] = Compiled(@, c)]
          /\ active' = runtime[attached].known
          /\ listening' = Retains(c, runtime[attached].known)
    /\ lagging' = FALSE
    /\ UNCHANGED <<op, attached, commands, routes>>

(* Mutant: resource keys are taken for policy keys. *)
SaveResourceKeysInPlace ==
    /\ commands /\ attached # None
    /\ \E c \in Config :
          /\ Save(c) /\ "surface" \in Changed(c) /\ "path" \notin Changed(c)
          /\ runtime' = [runtime EXCEPT ![attached] = Compiled(@, c)]
          /\ active' = runtime[attached].known
          /\ listening' = Retains(c, runtime[attached].known)
    /\ lagging' = FALSE
    /\ UNCHANGED <<op, attached, commands, routes>>

(* With a resource key the surface is rebuilt, and nothing else happens. *)
SaveResourceKeys ==
    /\ commands /\ attached # None
    /\ \E c \in Config :
          /\ Save(c) /\ "surface" \in Changed(c) /\ "path" \notin Changed(c)
          /\ Stop("rebuild", c, Retains(c, active))
          /\ lagging' = (lagging \/ "policy" \in Changed(c))

(* With any other key the runtime is replaced. *)
SaveOtherKeys ==
    /\ commands /\ attached # None /\ Unused # {}
    /\ \E c \in Config :
          /\ Save(c) /\ "path" \in Changed(c)
          /\ Stop("restart", c, Retains(c, active))
          /\ lagging' = FALSE

(* After a failed restart any save starts a runtime again. *)
SaveDetached ==
    /\ commands /\ attached = None /\ Unused # {}
    /\ \E c \in Config :
          /\ Save(c)
          /\ runtime' = [runtime EXCEPT ![NextRuntime] = NewRuntime(c)]
          /\ attached' = NextRuntime
          /\ listening' = Retains(c, {})
    /\ active' = {}
    /\ op' = [kind |-> "restart", at |-> "starting"]
    /\ lagging' = FALSE
    /\ UNCHANGED <<commands, routes>>

(***************************************************************************)
(* Meanwhile: requests, also on a runtime already stopped, and others.     *)
(***************************************************************************)

(* TokenIdentityRegistry calls back into its runtime, the runtime into the  *)
(* provider, whichever runtime is attached by now.                          *)
Knows(g, tokens) ==
    /\ runtime' = [runtime EXCEPT ![g] = Compiled([@ EXCEPT !.known = tokens], config)]
    /\ IF commands
       THEN active' = tokens /\ listening' = Retains(config, tokens)
       ELSE UNCHANGED <<active, listening>>
    /\ lagging' = (lagging /\ g # attached)
    /\ UNCHANGED <<config, op, attached, commands, routes, leaked>>

(* A request on the runtime verifies a token it had not seen; a registry     *)
(* that is full forgets another.                                             *)
Bind(g, t) ==
    LET known == runtime[g].known
    IN  /\ runtime[g].served /\ t \notin known
        /\ \E evicted \in {{}} \cup {{u} : u \in known} :
              Knows(g, (known \ evicted) \cup {t})

(* The verification of a token fails. *)
Discard(g, t) ==
    /\ runtime[g].served /\ t \in runtime[g].known
    /\ Knows(g, runtime[g].known \ {t})

(* Another plugin registers or withdraws a route. *)
OtherPlugin ==
    /\ \E p \in Contested :
          \/ /\ routes[p] = "free"
             /\ Cardinality({q \in Contested : routes[q] = "foreign"}) < MaxTaken
             /\ routes' = Assign({p}, "foreign")
          \/ routes[p] = "foreign" /\ routes' = Assign({p}, "free")
    /\ UNCHANGED <<config, op, attached, commands, runtime, active, listening, lagging, leaked>>

(* The last reference to a stopped runtime goes. *)
Retire(g) ==
    /\ g # attached /\ runtime[g].lifespan = "down" /\ ~runtime[g].lost
    /\ \A p \in Route : routes[p] # g
    /\ runtime' = [runtime EXCEPT ![g] = Blank(config)]
    /\ UNCHANGED <<config, op, attached, commands, routes, active, listening, lagging, leaked>>

(***************************************************************************)
(* Specification.                                                          *)
(***************************************************************************)
Update ==
    \/ SaveUnloaded \/ SavePolicyKeys \/ SaveResourceKeys \/ SaveOtherKeys \/ SaveDetached

Next ==
    \/ BeginInit \/ MountEndpoint \/ EndpointTaken \/ WellKnownTaken \/ LifespanFails
    \/ LifespanEnds \/ DrainTimesOut \/ RollbackEnds \/ StopEnds \/ Unload \/ Update
    \/ OtherPlugin
    \/ \E g \in Runtime : Retire(g) \/ \E t \in Token : Bind(g, t) \/ Discard(g, t)

Spec == Init /\ [][Next]_vars

(* Only the timeouts are relied on: 30 seconds for the lifespan to start and *)
(* twice 10 for it to drain.  Nothing obliges the application to answer, or  *)
(* to end once it was cancelled.                                             *)
FairSpec == Spec /\ WF_vars(LifespanFails) /\ WF_vars(DrainTimesOut)

(***************************************************************************)
(* Properties.                                                             *)
(***************************************************************************)

(* Every variable keeps its type, and the attached runtime is where the     *)
(* operation in progress says.                                              *)
TypeOK ==
    /\ config \in Config
    /\ op \in Operation
    /\ attached \in Runtime \cup {None}
    /\ commands \in BOOLEAN
    /\ runtime \in [Runtime -> RuntimeState]
    /\ routes \in [Route -> Runtime \cup {"free", "foreign"}]
    /\ active \in SUBSET Token
    /\ listening \in BOOLEAN
    /\ lagging \in BOOLEAN
    /\ leaked \in SUBSET Route
    /\ op.at = "starting" =>
          attached # None /\ runtime[attached].lifespan \in {"starting", "ending"}
    /\ op.at \in {"rollback", "stopping"} =>
          attached # None /\ runtime[attached].lifespan \in {"stopping", "ending"}
    /\ op = Idle /\ attached # None => runtime[attached].lifespan \in {"up", "down"}

(* Whoever reaches the endpoint finds an application that is running, of the *)
(* runtime that is attached, with the commands it dispatches to registered:  *)
(* unload stops "the MCP endpoint before withdrawing its MA commands".       *)
EndpointBacked ==
    \A p \in MountPath :
        LET g == routes[Main(p)]
        IN  g \in Runtime => /\ g = attached /\ commands
                             /\ runtime[g].path = p /\ runtime[g].lifespan = "up"

(* A runtime's lifespan is over before the next one begins, and no lifespan *)
(* goes on when nothing is attached: stop drains it (http_bridge.py, the     *)
(* comment in _unmount).  Lifespans without a handle are another matter, see *)
(* CleanSlate.                                                               *)
OneLifespan ==
    \A g \in Runtime :
        runtime[g].lifespan \in {"starting", "up", "stopping", "ending"} => g = attached /\ commands

(* The attached runtime holds the handle that unregisters the route. *)
Held(p) ==
    LET g == routes[p]
    IN  /\ g = attached
        /\ \/ p = Main(runtime[g].path) /\ runtime[g].route
           \/ p \in Holds(runtime[g])

Ours == {p \in Route : routes[p] \in Runtime}

(* Each route of ours can still be unregistered, but for those a group       *)
(* registered before it found a later one taken: no other way loses a route, *)
(* whatever fails, restarts or is unloaded in between.                       *)
NoOrphanRoutes == \A p \in Ours : Held(p) \/ p \in leaked

(* server.py:119: a start after a partial mount "starts from a clean slate   *)
(* instead of accumulating orphan well-known routes or zombie ASGI           *)
(* lifespans".  Stated at its weakest: not both promises are broken.         *)
CleanSlate == (\A p \in Ours : Held(p)) \/ \A g \in Runtime : ~runtime[g].lost

(* Between operations the attached runtime authorizes by the policy as saved *)
(* and by every token it knows.                                              *)
Fresh == runtime[attached].policy = config.policy
         /\ runtime[attached].seen = runtime[attached].known

(* The resolver is behind the saved config only after a save that changed    *)
(* policy and resource keys together.                                        *)
ResolverLagsOnlyAfterMixedSave == op = Idle /\ attached # None => Fresh \/ lagging

(* constants.py:46: "Policy keys refresh the resolver in place. Resource     *)
(* keys keep the runtime object but rebuild its mounted surface."            *)
ResolverFresh == op = Idle /\ attached # None => Fresh

(* What is mounted is what the config says: no save of a resource key or of  *)
(* the mount path goes unnoticed, also after failed rebuilds.                *)
MountFresh ==
    op = Idle /\ attached # None =>
        /\ runtime[attached].path = config.path
        /\ runtime[attached].route => runtime[attached].surface = config.surface

(* The event buffer is subscribed exactly when the commands are registered   *)
(* and a policy in force for a token it was told of may read events, across  *)
(* restarts and token changes.                                               *)
RetentionFollows ==
    listening = (commands /\ Retains(config, active))

(* An operation waits for a lifespan task that was cancelled, or said that   *)
(* it failed, and runs on.                                                   *)
Stalled == op # Idle /\ runtime[attached].lifespan = "ending"

(* A lifecycle operation ends if the application lets go of every lifespan   *)
(* task that was cancelled or said that it failed; it need not answer        *)
(* anything, or drain, for that.                                             *)
OperationEnds == (Stalled ~> ~Stalled) => (op # Idle ~> op = Idle)

===============================================================================
