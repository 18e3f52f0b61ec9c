---------------------------- MODULE LifecycleProofs ----------------------------
(***************************************************************************)
(* Proofs about Lifecycle, for any number of runtimes, mount paths, tokens *)
(* and policies.                                                           *)
(***************************************************************************)
EXTENDS Lifecycle, TLAPS

(***************************************************************************)
(* The inductive invariant, in four parts that are proved one after the    *)
(* other.                                                                  *)
(***************************************************************************)

Types ==
    /\ config \in Config
    /\ op \in Operation
    /\ attached \in Runtime \cup {None}
    /\ commands \in BOOLEAN
    /\ runtime \in [Runtime -> RuntimeState]
    /\ routes \in [Route -> Runtime \cup {"free", "foreign"}]
    /\ active \in SUBSET Token
    /\ listening \in BOOLEAN
    /\ lagging \in BOOLEAN
    /\ leaked \in SUBSET Route

(* An operation waits where its kind takes it. *)
Waits(o) ==
    /\ o.at = "none" => o.kind = "none"
    /\ o.at \in {"starting", "rollback"} => o.kind \in {"init", "rebuild", "restart"}
    /\ o.at = "stopping" => o.kind \in {"rebuild", "restart", "unload"}

(* What the attached runtime `r` is like while `o` waits where it does: its *)
(* three handles come and go together, the endpoint's first and last.       *)
Fits(o, r) ==
    /\ o.at = "none" => r.lifespan \in {"up", "down"}
    /\ o.at = "starting" => r.lifespan \in {"starting", "ending"} /\ ~r.route
    /\ o.at \in {"rollback", "stopping"} => r.lifespan \in {"stopping", "ending"}
    /\ o.at = "rollback" => ~r.wellKnown /\ ~r.wizard
    /\ ~r.route => ~r.wellKnown /\ ~r.wizard

Quiet(r) == r.lifespan \in {"new", "down"}

(* Where everything is: the operation has a runtime to wait for, and every   *)
(* other runtime is quiet.                                                   *)
Placed ==
    /\ Waits(op)
    /\ op.at # "none" => attached # None
    /\ attached # None => commands /\ Fits(op, runtime[attached])
    /\ \A g \in Runtime \ {attached} : Quiet(runtime[g])

Shape == Types /\ Placed

(* The route of an endpoint is held by the attached runtime while it serves. *)
Endpoints ==
    \A p \in MountPath :
        routes[Main(p)] \in Runtime =>
            /\ routes[Main(p)] = attached
            /\ runtime[attached].path = p
            /\ runtime[attached].lifespan = "up" /\ runtime[attached].route

(* While a runtime is being replaced, it is the next one that must be right. *)
Leaving == op.at = "stopping" /\ op.kind = "restart"

(* What the attached runtime has been compiled and mounted from. *)
Current ==
    attached # None /\ ~Leaving =>
        /\ Fresh \/ lagging
        /\ runtime[attached].path = config.path
        /\ op.at = "starting" => runtime[attached].surface = config.surface
        /\ op.at \in {"none", "rollback"} /\ runtime[attached].route =>
              runtime[attached].surface = config.surface

-------------------------------------------------------------------------------
(* Values. *)

LEMMA NewRuntimeType ==
  ASSUME NEW c \in Config
  PROVE  /\ NewRuntime(c) \in RuntimeState /\ Blank(c) \in RuntimeState
         /\ NewRuntime(c).lifespan = "starting" /\ ~NewRuntime(c).route
         /\ ~NewRuntime(c).wellKnown /\ ~NewRuntime(c).wizard
         /\ NewRuntime(c).path = c.path /\ NewRuntime(c).surface = c.surface
         /\ NewRuntime(c).policy = c.policy /\ NewRuntime(c).seen = NewRuntime(c).known
         /\ Blank(c).lifespan = "new"
  BY DEF NewRuntime, Blank, Config, RuntimeState

LEMMA StoppedType ==
  ASSUME NEW r \in RuntimeState
  PROVE  /\ Stopped(r) \in RuntimeState
         /\ Stopped(r).lifespan = "down"
         /\ ~Stopped(r).route /\ ~Stopped(r).wellKnown /\ ~Stopped(r).wizard
         /\ Stopped(r).path = r.path /\ Stopped(r).surface = r.surface
         /\ Stopped(r).policy = r.policy /\ Stopped(r).seen = r.seen
         /\ Stopped(r).known = r.known
  BY DEF Stopped, RuntimeState

LEMMA CompiledType ==
  ASSUME NEW r \in RuntimeState, NEW tokens \in SUBSET Token, NEW c \in Config
  PROVE  LET t == Compiled([r EXCEPT !.known = tokens], c)
         IN  /\ t \in RuntimeState
             /\ t.lifespan = r.lifespan /\ t.route = r.route
             /\ t.wellKnown = r.wellKnown /\ t.wizard = r.wizard
             /\ t.path = r.path /\ t.surface = r.surface
             /\ t.policy = c.policy /\ t.seen = t.known /\ t.known = tokens
  BY DEF Compiled, RuntimeState, Config

LEMMA AssignType ==
  ASSUME Types, NEW paths, NEW owner \in Runtime \cup {"free", "foreign"}
  PROVE  /\ Assign(paths, owner) \in [Route -> Runtime \cup {"free", "foreign"}]
         /\ \A p \in Route :
               Assign(paths, owner)[p] = IF p \in paths THEN owner ELSE routes[p]
  BY DEF Types, Assign

LEMMA NextRuntimeUnused ==
  ASSUME Unused # {}
  PROVE  NextRuntime \in Runtime /\ runtime[NextRuntime].lifespan = "new"
  BY DEF NextRuntime, Unused

LEMMA RetainsBoolean ==
  ASSUME NEW c, NEW ids
  PROVE  Retains(c, ids) \in BOOLEAN
  BY DEF Retains

(* One runtime object changes. *)
LEMMA Put ==
  ASSUME Types, NEW g \in Runtime, NEW t \in RuntimeState,
         runtime' = [runtime EXCEPT ![g] = t]
  PROVE  /\ runtime' \in [Runtime -> RuntimeState]
         /\ runtime'[g] = t
         /\ \A x \in Runtime \ {g} : runtime'[x] = runtime[x]
  BY DEF Types

(* One goes and another begins. *)
LEMMA PutTwo ==
  ASSUME Types, NEW g \in Runtime, NEW t \in RuntimeState,
         NEW h \in Runtime, NEW u \in RuntimeState, g # h,
         runtime' = [runtime EXCEPT ![g] = t, ![h] = u]
  PROVE  /\ runtime' \in [Runtime -> RuntimeState]
         /\ runtime'[g] = t /\ runtime'[h] = u
         /\ \A x \in Runtime \ {g, h} : runtime'[x] = runtime[x]
  BY DEF Types

-------------------------------------------------------------------------------
(* Every operation has a runtime in its place. *)

LEMMA InitShape == Init => Shape
<1> SUFFICES ASSUME Init PROVE Shape
  OBVIOUS
<1>1. config \in Config /\ Blank(config) \in RuntimeState /\ Blank(config).lifespan = "new"
  BY NewRuntimeType DEF Init
<1>2. Types
  BY <1>1 DEF Init, Types, Idle, Operation
<1>3. Placed
  BY <1>1, <1>2 DEF Init, Placed, Waits, Quiet, Idle
<1> QED
  BY <1>2, <1>3 DEF Shape

(* In all that follows from a stop the attached runtime is stopped. *)
LEMMA AfterStopShape ==
  ASSUME Shape, attached # None, commands,
         NEW kind \in {"rebuild", "restart", "unload"}, NEW c \in Config,
         NEW kept \in BOOLEAN, AfterStop(kind, c, kept),
         config' = c, lagging' \in BOOLEAN, leaked' = leaked,
         routes' \in [Route -> Runtime \cup {"free", "foreign"}],
         runtime[attached].lifespan # "new"
  PROVE  Shape'
<1> DEFINE old == attached
<1>1. old \in Runtime /\ runtime[old] \in RuntimeState /\ Types /\ Placed
  BY DEF Shape, Types
<1>2. CASE kind = "rebuild"
  <2> DEFINE t == [Stopped(runtime[old]) EXCEPT !.lifespan = "starting", !.surface = c.surface]
  <2>1. /\ runtime' = [runtime EXCEPT ![old] = t]
        /\ op' = [kind |-> kind, at |-> "starting"] /\ listening' = kept
        /\ UNCHANGED <<attached, commands, active>>
    BY <1>1, <1>2 DEF AfterStop, Types
  <2>2. /\ t \in RuntimeState /\ t.lifespan = "starting" /\ ~t.route
        /\ ~t.wellKnown /\ ~t.wizard
    BY <1>1, StoppedType DEF RuntimeState, Config
  <2> HIDE DEF t
  <2>3. runtime' \in [Runtime -> RuntimeState] /\ runtime'[old] = t
        /\ \A x \in Runtime \ {old} : runtime'[x] = runtime[x]
    BY <1>1, <2>1, <2>2, Put
  <2>4. Types'
    BY <1>1, <1>2, <2>1, <2>3 DEF Types, Operation
  <2>5. Placed'
    BY <1>1, <1>2, <2>1, <2>2, <2>3 DEF Placed, Waits, Fits, Quiet
  <2> QED
    BY <2>4, <2>5 DEF Shape
<1>3. CASE kind = "restart"
  <2> DEFINE new == NextRuntime
  <2>1. /\ Unused # {}
        /\ runtime' = [runtime EXCEPT ![old] = Stopped(@), ![new] = NewRuntime(c)]
        /\ attached' = new /\ op' = [kind |-> kind, at |-> "starting"]
        /\ active' = {} /\ listening' = Retains(c, {}) /\ UNCHANGED commands
    BY <1>3 DEF AfterStop
  <2>2. new \in Runtime /\ runtime[new].lifespan = "new"
    BY <2>1, NextRuntimeUnused
  <2>3. new # old
    BY <2>2
  <2>4. Stopped(runtime[old]) \in RuntimeState /\ Quiet(Stopped(runtime[old]))
    BY <1>1, StoppedType DEF Quiet
  <2>5. runtime' = [runtime EXCEPT ![old] = Stopped(runtime[old]), ![new] = NewRuntime(c)]
    BY <1>1, <2>1, <2>2 DEF Types
  <2> HIDE DEF new
  <2>6. /\ runtime' \in [Runtime -> RuntimeState]
        /\ runtime'[old] = Stopped(runtime[old]) /\ runtime'[new] = NewRuntime(c)
        /\ \A x \in Runtime \ {old, new} : runtime'[x] = runtime[x]
    BY <1>1, <2>2, <2>3, <2>4, <2>5, NewRuntimeType, PutTwo, ZenonT(60)
  <2>7. Types'
    <3>1. op' \in Operation /\ listening' \in BOOLEAN /\ active' \in SUBSET Token
      BY <1>3, <2>1, RetainsBoolean DEF Operation
    <3>2. attached' \in Runtime \cup {None} /\ commands' \in BOOLEAN
      BY <1>1, <2>1, <2>2 DEF Types
    <3> QED
      BY <1>1, <2>6, <3>1, <3>2 DEF Types
  <2>8. Placed'
    <3>1. Fits(op', runtime'[attached'])
      BY <1>3, <2>1, <2>6, NewRuntimeType DEF Fits
    <3>2. \A x \in Runtime \ {attached'} : Quiet(runtime'[x])
      BY <1>1, <2>1, <2>4, <2>6 DEF Placed
    <3>3. attached' # None /\ commands' /\ op'.kind = "restart" /\ op'.at = "starting"
      BY <1>3, <2>1, <2>2, LifecycleAssumption
    <3> QED
      BY <3>1, <3>2, <3>3 DEF Placed, Waits
  <2> QED
    BY <2>7, <2>8 DEF Shape
<1>4. CASE kind = "unload"
  <2>1. /\ runtime' = [runtime EXCEPT ![old] = Stopped(runtime[old])]
        /\ attached' = None /\ commands' = FALSE /\ listening' = FALSE /\ op' = Idle
        /\ UNCHANGED active
    BY <1>1, <1>4 DEF AfterStop, Types
  <2>2. Stopped(runtime[old]) \in RuntimeState /\ Quiet(Stopped(runtime[old]))
    BY <1>1, StoppedType DEF Quiet
  <2>3. /\ runtime' \in [Runtime -> RuntimeState] /\ runtime'[old] = Stopped(runtime[old])
        /\ \A x \in Runtime \ {old} : runtime'[x] = runtime[x]
    BY <1>1, <2>1, <2>2, Put
  <2>4. Types'
    BY <1>1, <2>1, <2>3 DEF Types, Operation, Idle
  <2>5. Placed'
    BY <1>1, <2>1, <2>2, <2>3 DEF Placed, Waits, Idle
  <2> QED
    BY <2>4, <2>5 DEF Shape
<1> QED
  BY <1>2, <1>3, <1>4

LEMMA StopShape ==
  ASSUME Shape, attached # None, commands, op = Idle,
         NEW kind \in {"rebuild", "restart", "unload"}, NEW c \in Config,
         NEW kept \in BOOLEAN, Stop(kind, c, kept),
         config' = c, lagging' \in BOOLEAN, leaked' = leaked
  PROVE  Shape'
<1>1. attached \in Runtime /\ runtime[attached] \in RuntimeState /\ Types /\ Placed
  BY DEF Shape, Types
<1>2. runtime[attached].lifespan \in {"up", "down"}
  BY <1>1 DEF Placed, Fits, Idle
<1>3. CASE runtime[attached].route
  <2> DEFINE t == [runtime[attached] EXCEPT !.lifespan = "stopping"]
  <2>1. /\ routes' = Assign({Main(runtime[attached].path)}, "free")
        /\ runtime' = [runtime EXCEPT ![attached] = t]
        /\ op' = [kind |-> kind, at |-> "stopping"] /\ listening' = kept
        /\ UNCHANGED <<attached, commands, active>>
    BY <1>1, <1>3 DEF Stop, Types
  <2>2. t \in RuntimeState /\ t.lifespan = "stopping" /\ t.route
    BY <1>1, <1>3 DEF RuntimeState
  <2> HIDE DEF t
  <2>3. /\ runtime' \in [Runtime -> RuntimeState] /\ runtime'[attached] = t
        /\ \A x \in Runtime \ {attached} : runtime'[x] = runtime[x]
    BY <1>1, <2>1, <2>2, Put
  <2>4. Types'
    BY <1>1, <2>1, <2>3, AssignType DEF Types, Operation
  <2>5. Placed'
    BY <1>1, <2>1, <2>2, <2>3 DEF Placed, Waits, Fits
  <2> QED
    BY <2>4, <2>5 DEF Shape
<1>4. CASE ~runtime[attached].route
  <2>1. AfterStop(kind, c, kept) /\ UNCHANGED routes
    BY <1>4 DEF Stop
  <2>2. routes' \in [Route -> Runtime \cup {"free", "foreign"}]
    BY <1>1, <2>1 DEF Types
  <2> QED
    BY <1>2, <2>1, <2>2, AfterStopShape
<1> QED
  BY <1>3, <1>4

(* What a failed start leaves is a stopped runtime, attached or not. *)
LEMMA AbortShape ==
  ASSUME Shape, attached # None, commands, op.at \in {"starting", "rollback"}, Abort,
         NEW t \in RuntimeState, t.lifespan = "down",
         ~t.route /\ ~t.wellKnown /\ ~t.wizard,
         runtime' = [runtime EXCEPT ![attached] = t],
         UNCHANGED routes
  PROVE  Shape'
<1>1. attached \in Runtime /\ Types /\ Placed
  BY DEF Shape, Types
<1>2. /\ runtime' \in [Runtime -> RuntimeState] /\ runtime'[attached] = t
      /\ \A x \in Runtime \ {attached} : runtime'[x] = runtime[x]
  BY <1>1, Put
<1>3. Types'
  <2>1. /\ op' \in Operation /\ attached' \in Runtime \cup {None}
        /\ commands' \in BOOLEAN /\ listening' \in BOOLEAN
    BY <1>1 DEF Abort, Types, Idle, Operation
  <2>2. UNCHANGED <<config, active, lagging, leaked>>
    BY DEF Abort
  <2> QED
    BY <1>1, <1>2, <2>1, <2>2 DEF Types
<1>4. Waits(op') /\ op'.at = "none"
  BY DEF Abort, Idle, Waits
<1>5. attached' # None => attached' = attached /\ commands'
  BY DEF Abort
<1>6. Fits(op', t) /\ Quiet(t)
  BY <1>4 DEF Fits, Quiet
<1>7. \A x \in Runtime : x = attached \/ Quiet(runtime'[x])
  BY <1>1, <1>2 DEF Placed
<1>8. attached' # None => Fits(op', runtime'[attached'])
  BY <1>2, <1>5, <1>6
<1>9. \A x \in Runtime \ {attached'} : Quiet(runtime'[x])
  BY <1>2, <1>6, <1>7
<1>10. Placed'
  BY <1>4, <1>5, <1>8, <1>9 DEF Placed
<1> QED
  BY <1>3, <1>10 DEF Shape

(* A new runtime is attached and waits for its lifespan. *)
LEMMA BeginShape ==
  ASSUME Shape, attached = None, Unused # {}, NEW c \in Config,
         NEW kind \in {"init", "restart"},
         runtime' = [runtime EXCEPT ![NextRuntime] = NewRuntime(c)],
         attached' = NextRuntime, commands', commands' \in BOOLEAN,
         op' = [kind |-> kind, at |-> "starting"],
         config' = c, active' = {}, listening' \in BOOLEAN, lagging' = FALSE,
         UNCHANGED <<routes, leaked>>
  PROVE  Shape'
<1> DEFINE new == NextRuntime
<1>1. new \in Runtime /\ new # None /\ None \notin Runtime /\ Types /\ Placed
  BY NextRuntimeUnused, LifecycleAssumption DEF Shape
<1> HIDE DEF new
<1>2. runtime' = [runtime EXCEPT ![new] = NewRuntime(c)] /\ attached' = new
  BY DEF new
<1>3. /\ runtime' \in [Runtime -> RuntimeState] /\ runtime'[new] = NewRuntime(c)
      /\ \A x \in Runtime \ {new} : runtime'[x] = runtime[x]
  BY <1>1, <1>2, NewRuntimeType, Put
<1>4. Types'
  <2>1. op' \in Operation
    BY DEF Operation
  <2> QED
    BY <1>1, <1>2, <1>3, <2>1 DEF Types
<1>5. Fits(op', runtime'[attached'])
  BY <1>2, <1>3, NewRuntimeType DEF Fits
<1>6. \A x \in Runtime \ {attached'} : Quiet(runtime'[x])
  BY <1>1, <1>2, <1>3 DEF Placed, Types
<1>7. Waits(op') /\ op'.at = "starting"
  BY DEF Waits
<1>8. Placed'
  BY <1>1, <1>2, <1>5, <1>6, <1>7 DEF Placed
<1> QED
  BY <1>4, <1>8 DEF Shape

(* Only what a runtime knows or was compiled from changes. *)
LEMMA KnowsShape ==
  ASSUME Shape, NEW g \in Runtime, NEW t \in RuntimeState,
         runtime' = [runtime EXCEPT ![g] = t],
         t.lifespan = runtime[g].lifespan, t.route = runtime[g].route,
         t.wellKnown = runtime[g].wellKnown, t.wizard = runtime[g].wizard,
         config' \in Config, active' \in SUBSET Token, listening' \in BOOLEAN,
         lagging' \in BOOLEAN, UNCHANGED <<op, attached, commands, routes, leaked>>
  PROVE  Shape'
<1>1. Types /\ Placed
  BY DEF Shape
<1>2. /\ runtime' \in [Runtime -> RuntimeState] /\ runtime'[g] = t
      /\ \A x \in Runtime \ {g} : runtime'[x] = runtime[x]
  BY <1>1, Put
<1>3. Types'
  BY <1>1, <1>2 DEF Types
<1>4. Placed'
  BY <1>1, <1>2 DEF Placed, Fits, Quiet, Types
<1> QED
  BY <1>3, <1>4 DEF Shape

(* Where an operation waits there is an attached runtime. *)
LEMMA Attached ==
  ASSUME Shape, op.at # "none"
  PROVE  /\ attached \in Runtime /\ runtime[attached] \in RuntimeState
         /\ attached # None /\ commands /\ Fits(op, runtime[attached])
  BY DEF Shape, Types, Placed

(* What a group claims are routes. *)
LEMMA WizardClaimed ==
  ASSUME NEW p \in MountPath
  PROVE  Claimed(Wizard(p)) \subseteq Route
<1>1. DOMAIN Wizard(p) = {1, 2} /\ Wizard(p)[1] \in Route /\ Wizard(p)[2] \in Route
  BY DEF Wizard, Route
<1> QED
  BY <1>1 DEF Claimed

LEMMA WellKnownClaimed ==
  ASSUME NEW p \in MountPath
  PROVE  Claimed(WellKnown(p)) \subseteq Route
<1>1. DOMAIN WellKnown(p) = {1, 2} /\ WellKnown(p)[1] \in Route /\ WellKnown(p)[2] \in Route
  BY DEF WellKnown, Route
<1> QED
  BY <1>1 DEF Claimed

(* A lifespan task that was cancelled, or said that it failed, is awaited. *)
LEMMA EndingStep ==
  ASSUME Shape, LifespanFails \/ DrainTimesOut
  PROVE  /\ op.at \in {"starting", "rollback", "stopping"} /\ attached \in Runtime
         /\ runtime[attached].lifespan # "up"
         /\ runtime' = [runtime EXCEPT ![attached] =
                           [runtime[attached] EXCEPT !.lifespan = "ending"]]
         /\ UNCHANGED <<config, op, attached, commands, routes, active, listening, lagging,
                        leaked>>
<1>1. Ending /\ op.at \in {"starting", "rollback", "stopping"}
  BY DEF LifespanFails, DrainTimesOut, Starting
<1>2. /\ attached \in Runtime /\ runtime[attached].lifespan # "up"
      /\ runtime \in [Runtime -> RuntimeState]
  BY <1>1, Attached DEF Shape, Types, Fits
<1> QED
  BY <1>1, <1>2 DEF Ending

LEMMA EndingShape ==
  ASSUME Shape, LifespanFails \/ DrainTimesOut
  PROVE  Shape'
<1> DEFINE t == [runtime[attached] EXCEPT !.lifespan = "ending"]
<1>1. /\ op.at \in {"starting", "rollback", "stopping"} /\ attached \in Runtime
      /\ runtime' = [runtime EXCEPT ![attached] = t]
      /\ UNCHANGED <<config, op, attached, commands, routes, active, listening, lagging, leaked>>
      /\ Types /\ Placed
  BY EndingStep DEF Shape
<1>2. /\ t \in RuntimeState /\ t.lifespan = "ending" /\ t.route = runtime[attached].route
      /\ t.wellKnown = runtime[attached].wellKnown /\ t.wizard = runtime[attached].wizard
  BY <1>1 DEF Types, RuntimeState
<1> HIDE DEF t
<1>3. /\ runtime' \in [Runtime -> RuntimeState] /\ runtime'[attached] = t
      /\ \A x \in Runtime \ {attached} : runtime'[x] = runtime[x]
  BY <1>1, <1>2, Put
<1>4. Types'
  BY <1>1, <1>3 DEF Types
<1>5. Placed'
  BY <1>1, <1>2, <1>3 DEF Placed, Fits
<1> QED
  BY <1>4, <1>5 DEF Shape

LEMMA MountEndpointShape ==
  ASSUME Shape, MountEndpoint
  PROVE  Shape'
<1> DEFINE g == attached
           p == runtime[g].path
           t == [runtime[g] EXCEPT !.lifespan = "up", !.served = TRUE, !.route = TRUE,
                                   !.wellKnown = TRUE, !.wizard = Whole(Wizard(p))]
<1>1. op.at = "starting"
  BY DEF MountEndpoint, Starting
<1>2. g \in Runtime /\ runtime[g] \in RuntimeState /\ commands /\ Types /\ Placed
  BY <1>1, Attached DEF Shape
<1>3. runtime' = [runtime EXCEPT ![g] = t]
  BY <1>2 DEF MountEndpoint, Types
<1>4. t \in RuntimeState /\ t.lifespan = "up" /\ t.route
  BY <1>2 DEF RuntimeState, Whole
<1> HIDE DEF t
<1>5. /\ runtime' \in [Runtime -> RuntimeState] /\ runtime'[g] = t
      /\ \A x \in Runtime \ {g} : runtime'[x] = runtime[x]
  BY <1>2, <1>3, <1>4, Put
<1>6. /\ routes' \in [Route -> Runtime \cup {"free", "foreign"}]
      /\ leaked' \in SUBSET Route
  <2>1. Claimed(Wizard(p)) \subseteq Route
    BY <1>2, WizardClaimed DEF RuntimeState
  <2> QED
    BY <1>2, <2>1, AssignType DEF MountEndpoint, Types
<1>7. op' = Idle /\ UNCHANGED <<config, attached, commands, active, listening, lagging>>
  BY DEF MountEndpoint
<1>8. Types'
  BY <1>2, <1>5, <1>6, <1>7 DEF Types, Idle, Operation
<1>9. Placed'
  BY <1>2, <1>4, <1>5, <1>7 DEF Placed, Waits, Fits, Idle
<1> QED
  BY <1>8, <1>9 DEF Shape

LEMMA WellKnownTakenShape ==
  ASSUME Shape, WellKnownTaken
  PROVE  Shape'
<1> DEFINE t == [runtime[attached] EXCEPT !.lifespan = "stopping", !.route = TRUE]
<1>1. op.at = "starting"
  BY DEF WellKnownTaken, Starting
<1>2. /\ attached \in Runtime /\ runtime[attached] \in RuntimeState /\ commands
      /\ Types /\ Placed /\ Fits(op, runtime[attached])
  BY <1>1, Attached DEF Shape
<1>3. runtime' = [runtime EXCEPT ![attached] = t]
  BY <1>2 DEF WellKnownTaken, Types
<1>4. t \in RuntimeState /\ t.lifespan = "stopping" /\ t.route /\ ~t.wellKnown /\ ~t.wizard
  BY <1>1, <1>2 DEF RuntimeState, Fits
<1> HIDE DEF t
<1>5. /\ runtime' \in [Runtime -> RuntimeState] /\ runtime'[attached] = t
      /\ \A x \in Runtime \ {attached} : runtime'[x] = runtime[x]
  BY <1>2, <1>3, <1>4, Put
<1>6. /\ routes' \in [Route -> Runtime \cup {"free", "foreign"}]
      /\ leaked' \in SUBSET Route
  <2>1. Claimed(WellKnown(runtime[attached].path)) \subseteq Route
    BY <1>2, WellKnownClaimed DEF RuntimeState
  <2> QED
    BY <1>2, <2>1, AssignType DEF WellKnownTaken, Types
<1>7. /\ op' = [op EXCEPT !.at = "rollback"]
      /\ UNCHANGED <<config, attached, commands, active, listening, lagging>>
  BY DEF WellKnownTaken
<1>8. op' \in Operation /\ op'.at = "rollback" /\ op'.kind = op.kind
  BY <1>2, <1>7 DEF Types, Operation
<1>9. Types'
  BY <1>2, <1>5, <1>6, <1>7, <1>8 DEF Types
<1>10. Placed'
  BY <1>1, <1>2, <1>4, <1>5, <1>7, <1>8 DEF Placed, Waits, Fits
<1> QED
  BY <1>9, <1>10 DEF Shape

LEMMA FailedStartShape ==
  ASSUME Shape, EndpointTaken \/ LifespanEnds \/ RollbackEnds
  PROVE  Shape'
<1>1. op.at \in {"starting", "rollback"} /\ Abort /\ UNCHANGED routes
  BY DEF EndpointTaken, LifespanEnds, RollbackEnds, Starting
<1>2. /\ attached \in Runtime /\ runtime[attached] \in RuntimeState /\ commands
      /\ attached # None /\ Types /\ Fits(op, runtime[attached])
  BY <1>1, Attached DEF Shape
<1>3. CASE EndpointTaken
  <2> DEFINE t == [runtime[attached] EXCEPT !.lifespan = "down", !.lost = TRUE]
  <2>1. runtime' = [runtime EXCEPT ![attached] = t] /\ op.at = "starting"
    BY <1>2, <1>3 DEF EndpointTaken, Starting, Types
  <2>2. t \in RuntimeState /\ t.lifespan = "down" /\ ~t.route /\ ~t.wellKnown /\ ~t.wizard
    BY <1>2, <2>1 DEF RuntimeState, Fits
  <2> HIDE DEF t
  <2> QED
    BY <1>1, <1>2, <2>1, <2>2, AbortShape
<1>4. CASE LifespanEnds
  <2> DEFINE t == [runtime[attached] EXCEPT !.lifespan = "down"]
  <2>1. runtime' = [runtime EXCEPT ![attached] = t] /\ op.at = "starting"
    BY <1>2, <1>4 DEF LifespanEnds, Types
  <2>2. t \in RuntimeState /\ t.lifespan = "down" /\ ~t.route /\ ~t.wellKnown /\ ~t.wizard
    BY <1>2, <2>1 DEF RuntimeState, Fits
  <2> HIDE DEF t
  <2> QED
    BY <1>1, <1>2, <2>1, <2>2, AbortShape
<1>5. CASE RollbackEnds
  <2> DEFINE t == Stopped(runtime[attached])
  <2>1. runtime' = [runtime EXCEPT ![attached] = t]
    BY <1>2, <1>5 DEF RollbackEnds, Types
  <2>2. t \in RuntimeState /\ t.lifespan = "down" /\ ~t.route /\ ~t.wellKnown /\ ~t.wizard
    BY <1>2, StoppedType
  <2> HIDE DEF t
  <2> QED
    BY <1>1, <1>2, <2>1, <2>2, AbortShape
<1> QED
  BY <1>3, <1>4, <1>5

LEMMA BeginInitShape ==
  ASSUME Shape, BeginInit
  PROVE  Shape'
<1>1. attached = None /\ config \in Config
  BY DEF Shape, Types, Placed, BeginInit
<1>2. listening' \in BOOLEAN
  BY RetainsBoolean DEF BeginInit
<1> QED
  BY <1>1, <1>2, BeginShape DEF BeginInit

LEMMA StopEndsShape ==
  ASSUME Shape, StopEnds
  PROVE  Shape'
<1>1. op.at = "stopping" /\ AfterStop(op.kind, config, listening)
      /\ UNCHANGED <<config, leaked>>
  BY DEF StopEnds
<1>2. /\ attached # None /\ commands /\ attached \in Runtime
      /\ Types /\ Placed /\ Fits(op, runtime[attached])
  BY <1>1, Attached DEF Shape
<1>3. op.kind \in {"rebuild", "restart", "unload"} /\ runtime[attached].lifespan # "new"
  BY <1>1, <1>2 DEF Placed, Waits, Fits
<1>4. routes' \in [Route -> Runtime \cup {"free", "foreign"}]
  BY <1>2, AssignType DEF StopEnds
<1>5. lagging' \in BOOLEAN
  BY <1>2 DEF StopEnds, Types
<1>6. config \in Config /\ listening \in BOOLEAN
  BY <1>2 DEF Types
<1> QED
  BY <1>1, <1>2, <1>3, <1>4, <1>5, <1>6, AfterStopShape

LEMMA UnloadShape ==
  ASSUME Shape, Unload
  PROVE  Shape'
<1>1. /\ op = Idle /\ commands /\ UNCHANGED <<config, lagging, leaked>>
      /\ config \in Config /\ listening \in BOOLEAN /\ lagging \in BOOLEAN
  BY DEF Unload, Shape, Types
<1>2. CASE attached # None
  <2>1. Stop("unload", config, listening)
    BY <1>2 DEF Unload
  <2> QED
    BY <1>1, <1>2, <2>1, StopShape
<1>3. CASE attached = None
  <2>1. /\ commands' = FALSE /\ listening' = FALSE
        /\ UNCHANGED <<runtime, routes, op, attached, active>>
    BY <1>3 DEF Unload
  <2>2. Types'
    BY <1>1, <2>1 DEF Shape, Types
  <2>3. Placed'
    BY <1>1, <1>3, <2>1 DEF Shape, Placed, Waits, Idle
  <2> QED
    BY <2>2, <2>3 DEF Shape
<1> QED
  BY <1>2, <1>3

LEMMA UpdateShape ==
  ASSUME Shape, Update
  PROVE  Shape'
<1>1. Types /\ Placed /\ op = Idle
  BY DEF Shape, Update, SaveUnloaded, SavePolicyKeys, SaveResourceKeys, SaveOtherKeys,
         SaveDetached, Save
<1>2. CASE SaveUnloaded
  <2>1. /\ config' \in Config
        /\ UNCHANGED <<op, attached, commands, runtime, routes, active, listening, lagging, leaked>>
    BY <1>2 DEF SaveUnloaded, Save
  <2>2. Types' /\ Placed'
    BY <1>1, <2>1 DEF Types, Placed
  <2> QED
    BY <2>2 DEF Shape
<1>3. CASE SavePolicyKeys
  <2>1. PICK c \in Config :
          /\ config' = c
          /\ runtime' = [runtime EXCEPT ![attached] = Compiled(@, c)]
          /\ active' = runtime[attached].known
          /\ listening' = Retains(c, runtime[attached].known)
    BY <1>3 DEF SavePolicyKeys, Save
  <2>2. /\ attached \in Runtime /\ lagging' = FALSE
        /\ UNCHANGED <<op, attached, commands, routes, leaked>>
    BY <1>1, <1>3 DEF SavePolicyKeys, Save, Types
  <2> DEFINE r == runtime[attached]
             t == Compiled([r EXCEPT !.known = r.known], c)
  <2>3. r \in RuntimeState /\ r.known \in SUBSET Token /\ [r EXCEPT !.known = r.known] = r
    BY <1>1, <2>2 DEF Types, RuntimeState
  <2>4. runtime' = [runtime EXCEPT ![attached] = t]
    BY <1>1, <2>1, <2>2, <2>3 DEF Types
  <2>5. t \in RuntimeState /\ t.lifespan = r.lifespan /\ t.route = r.route
        /\ t.wellKnown = r.wellKnown /\ t.wizard = r.wizard
    BY <2>3, CompiledType
  <2>6. active' \in SUBSET Token /\ listening' \in BOOLEAN
    BY <2>1, <2>3, RetainsBoolean
  <2> HIDE DEF t
  <2> QED
    BY <2>1, <2>2, <2>4, <2>5, <2>6, KnowsShape
<1>4. CASE SaveResourceKeys
  <2>1. PICK c \in Config : /\ config' = c /\ Stop("rebuild", c, Retains(c, active))
                            /\ lagging' = (lagging \/ "policy" \in Changed(c))
                            /\ leaked' = leaked
    BY <1>4 DEF SaveResourceKeys, Save
  <2>2. commands /\ attached # None /\ lagging' \in BOOLEAN /\ Retains(c, active) \in BOOLEAN
    BY <1>1, <1>4, <2>1, RetainsBoolean DEF SaveResourceKeys, Types
  <2> QED
    BY <1>1, <2>1, <2>2, StopShape
<1>5. CASE SaveOtherKeys
  <2>1. PICK c \in Config : /\ config' = c /\ Stop("restart", c, Retains(c, active))
                            /\ lagging' = FALSE /\ leaked' = leaked
    BY <1>5 DEF SaveOtherKeys, Save
  <2>2. commands /\ attached # None /\ lagging' \in BOOLEAN /\ Retains(c, active) \in BOOLEAN
    BY <1>5, <2>1, RetainsBoolean DEF SaveOtherKeys
  <2> QED
    BY <1>1, <2>1, <2>2, StopShape
<1>6. CASE SaveDetached
  <2>1. PICK c \in Config :
          /\ config' = c
          /\ runtime' = [runtime EXCEPT ![NextRuntime] = NewRuntime(c)]
          /\ attached' = NextRuntime /\ listening' = Retains(c, {}) /\ leaked' = leaked
    BY <1>6 DEF SaveDetached, Save
  <2>2. /\ attached = None /\ Unused # {} /\ commands /\ active' = {} /\ lagging' = FALSE
        /\ op' = [kind |-> "restart", at |-> "starting"] /\ UNCHANGED <<commands, routes>>
    BY <1>6 DEF SaveDetached
  <2>3. commands' /\ commands' \in BOOLEAN /\ listening' \in BOOLEAN
    BY <1>1, <2>1, <2>2, RetainsBoolean DEF Types
  <2> QED
    BY <2>1, <2>2, <2>3, BeginShape
<1> QED
  BY <1>2, <1>3, <1>4, <1>5, <1>6 DEF Update

(* What a runtime learns of its tokens. *)
LEMMA KnowsView ==
  ASSUME Shape, NEW g \in Runtime, NEW t \in Token, Bind(g, t) \/ Discard(g, t)
  PROVE  \E tokens \in SUBSET Token : Knows(g, tokens)
<1>1. runtime[g].known \in SUBSET Token
  BY DEF Shape, Types, RuntimeState
<1> QED
  BY <1>1 DEF Bind, Discard

LEMMA RequestShape ==
  ASSUME Shape, NEW g \in Runtime, NEW tokens \in SUBSET Token, Knows(g, tokens)
  PROVE  Shape'
<1> DEFINE r == runtime[g]
           t == Compiled([r EXCEPT !.known = tokens], config)
<1>1. Types /\ r \in RuntimeState /\ config \in Config
  BY DEF Shape, Types
<1>2. runtime' = [runtime EXCEPT ![g] = t]
  BY <1>1 DEF Knows, Types
<1>3. t \in RuntimeState /\ t.lifespan = r.lifespan /\ t.route = r.route
      /\ t.wellKnown = r.wellKnown /\ t.wizard = r.wizard
  BY <1>1, CompiledType
<1>4. active' \in SUBSET Token /\ listening' \in BOOLEAN /\ lagging' \in BOOLEAN
  BY <1>1, RetainsBoolean DEF Knows, Types
<1>5. UNCHANGED <<config, op, attached, commands, routes, leaked>>
  BY DEF Knows
<1> HIDE DEF t
<1> QED
  BY <1>1, <1>2, <1>3, <1>4, <1>5, KnowsShape

LEMMA OthersShape ==
  ASSUME Shape, OtherPlugin \/ UNCHANGED vars
  PROVE  Shape'
<1>1. Types /\ Placed
  BY DEF Shape
<1>2. UNCHANGED <<config, op, attached, commands, runtime, active, listening, lagging, leaked>>
  BY DEF OtherPlugin, vars
<1>3. routes' \in [Route -> Runtime \cup {"free", "foreign"}]
  <2>1. \/ routes' = routes
        \/ \E p \in Contested : routes' = Assign({p}, "foreign") \/ routes' = Assign({p}, "free")
    BY DEF OtherPlugin, vars
  <2>2. \A p : /\ Assign({p}, "foreign") \in [Route -> Runtime \cup {"free", "foreign"}]
               /\ Assign({p}, "free") \in [Route -> Runtime \cup {"free", "foreign"}]
    BY <1>1, AssignType
  <2> QED
    BY <1>1, <2>1, <2>2 DEF Types
<1> QED
  BY <1>1, <1>2, <1>3 DEF Shape, Types, Placed

LEMMA RetireShape ==
  ASSUME Shape, NEW g \in Runtime, Retire(g)
  PROVE  Shape'
<1>1. Types /\ Placed /\ config \in Config
  BY DEF Shape, Types
<1>2. runtime' = [runtime EXCEPT ![g] = Blank(config)] /\ g # attached
      /\ UNCHANGED <<config, op, attached, commands, routes, active, listening, lagging, leaked>>
  BY DEF Retire
<1>3. /\ runtime' \in [Runtime -> RuntimeState] /\ runtime'[g] = Blank(config)
      /\ \A x \in Runtime \ {g} : runtime'[x] = runtime[x]
  BY <1>1, <1>2, NewRuntimeType, Put
<1>4. Types'
  BY <1>1, <1>2, <1>3 DEF Types
<1>5. Quiet(runtime'[g])
  BY <1>1, <1>3, NewRuntimeType DEF Quiet
<1>6. Placed'
  BY <1>1, <1>2, <1>3, <1>5 DEF Placed, Types
<1> QED
  BY <1>4, <1>6 DEF Shape

LEMMA NextShape == Shape /\ [Next]_vars => Shape'
<1> SUFFICES ASSUME Shape, [Next]_vars PROVE Shape'
  OBVIOUS
<1>1. CASE BeginInit
  BY <1>1, BeginInitShape
<1>2. CASE MountEndpoint
  BY <1>2, MountEndpointShape
<1>3. CASE WellKnownTaken
  BY <1>3, WellKnownTakenShape
<1>4. CASE EndpointTaken \/ LifespanEnds \/ RollbackEnds
  BY <1>4, FailedStartShape
<1>11. CASE LifespanFails \/ DrainTimesOut
  BY <1>11, EndingShape
<1>5. CASE StopEnds
  BY <1>5, StopEndsShape
<1>6. CASE Unload
  BY <1>6, UnloadShape
<1>7. CASE Update
  BY <1>7, UpdateShape
<1>8. CASE OtherPlugin \/ UNCHANGED vars
  BY <1>8, OthersShape
<1>9. ASSUME NEW g \in Runtime, Retire(g) PROVE Shape'
  BY <1>9, RetireShape
<1>10. ASSUME NEW g \in Runtime, NEW t \in Token, Bind(g, t) \/ Discard(g, t) PROVE Shape'
  BY <1>10, KnowsView, RequestShape
<1> QED
  BY <1>1, <1>2, <1>3, <1>4, <1>5, <1>6, <1>7, <1>8, <1>9, <1>10, <1>11 DEF Next

(* The types, and where the attached runtime is during every operation. *)
LEMMA ShapeTypeOK == Shape => TypeOK
<1> SUFFICES ASSUME Shape PROVE TypeOK
  OBVIOUS
<1>1. op = Idle => op.at = "none"
  BY DEF Idle
<1>2. op.at \in {"starting", "rollback", "stopping"} => attached # None
  BY DEF Shape, Placed
<1> QED
  BY <1>1, <1>2 DEF Shape, Types, Placed, Fits, TypeOK

THEOREM LifecycleTypeCorrect == Spec => []TypeOK
<1>1. Spec => []Shape
  BY InitShape, NextShape, PTL DEF Spec
<1> QED
  BY <1>1, ShapeTypeOK, PTL

(* One lifespan at a time, whatever fails. *)
THEOREM OneLifespanHolds == Spec => []OneLifespan
<1>1. Shape => OneLifespan
  <2> SUFFICES ASSUME Shape, NEW g \in Runtime,
                      runtime[g].lifespan \in {"starting", "up", "stopping", "ending"}
               PROVE  g = attached /\ commands
    BY DEF OneLifespan
  <2>1. g = attached
    BY DEF Shape, Placed, Quiet
  <2>2. attached # None
    BY <2>1, LifecycleAssumption
  <2> QED
    BY <2>1, <2>2 DEF Shape, Placed
<1>2. Spec => []Shape
  BY InitShape, NextShape, PTL DEF Spec
<1> QED
  BY <1>1, <1>2, PTL

-------------------------------------------------------------------------------
(* Routes. *)

LEMMA RoutesOfPath ==
  ASSUME NEW p \in MountPath
  PROVE  /\ Main(p) \in Route
         /\ WellKnown(p)[1] \in Route /\ WellKnown(p)[2] \in Route
         /\ Wizard(p)[1] \in Route /\ Wizard(p)[2] \in Route
  BY DEF Main, WellKnown, Wizard, Route

LEMMA MainApart ==
  ASSUME NEW p \in MountPath, NEW q \in MountPath
  PROVE  /\ Main(p) = Main(q) => p = q
         /\ Main(p) # WellKnown(q)[1] /\ Main(p) # WellKnown(q)[2]
         /\ Main(p) # Wizard(q)[1] /\ Main(p) # Wizard(q)[2]
  BY DEF Main, WellKnown, Wizard

LEMMA PairClaimed ==
  ASSUME NEW a, NEW b
  PROVE  /\ Whole(<<a, b>>) <=> routes[a] = "free" /\ routes[b] = "free"
         /\ Claimed(<<a, b>>) = IF routes[a] # "free" THEN {}
                                ELSE IF routes[b] # "free" THEN {a} ELSE {a, b}
<1>1. DOMAIN <<a, b>> = {1, 2} /\ 1 .. 1 = {1} /\ 1 .. 2 = {1, 2}
  OBVIOUS
<1>2. <<a, b>>[1] = a /\ <<a, b>>[2] = b
  OBVIOUS
<1>3. Whole(<<a, b>>) <=> routes[a] = "free" /\ routes[b] = "free"
  BY <1>1, <1>2 DEF Whole
<1>4. {i \in DOMAIN <<a, b>> : \A j \in 1 .. i : routes[<<a, b>>[j]] = "free"}
      = IF routes[a] # "free" THEN {} ELSE IF routes[b] # "free" THEN {1} ELSE {1, 2}
  BY <1>1, <1>2
<1>5. Claimed(<<a, b>>) = IF routes[a] # "free" THEN {}
                          ELSE IF routes[b] # "free" THEN {a} ELSE {a, b}
  BY <1>2, <1>4 DEF Claimed
<1> QED
  BY <1>3, <1>5

LEMMA ClaimedOfPath ==
  ASSUME NEW p \in MountPath
  PROVE  /\ Whole(WellKnown(p)) <=>
              routes[WellKnown(p)[1]] = "free" /\ routes[WellKnown(p)[2]] = "free"
         /\ Whole(Wizard(p)) <=>
              routes[Wizard(p)[1]] = "free" /\ routes[Wizard(p)[2]] = "free"
         /\ Claimed(WellKnown(p)) =
              IF routes[WellKnown(p)[1]] # "free" THEN {}
              ELSE IF routes[WellKnown(p)[2]] # "free" THEN {WellKnown(p)[1]}
              ELSE {WellKnown(p)[1], WellKnown(p)[2]}
         /\ Claimed(Wizard(p)) =
              IF routes[Wizard(p)[1]] # "free" THEN {}
              ELSE IF routes[Wizard(p)[2]] # "free" THEN {Wizard(p)[1]}
              ELSE {Wizard(p)[1], Wizard(p)[2]}
<1>1. /\ WellKnown(p) = <<WellKnown(p)[1], WellKnown(p)[2]>>
      /\ Wizard(p) = <<Wizard(p)[1], Wizard(p)[2]>>
  BY DEF WellKnown, Wizard
<1> DEFINE a == WellKnown(p)[1]
           b == WellKnown(p)[2]
           d == Wizard(p)[1]
           e == Wizard(p)[2]
<1>2. /\ Whole(<<a, b>>) <=> routes[a] = "free" /\ routes[b] = "free"
      /\ Claimed(<<a, b>>) = IF routes[a] # "free" THEN {}
                             ELSE IF routes[b] # "free" THEN {a} ELSE {a, b}
  BY PairClaimed
<1>3. /\ Whole(<<d, e>>) <=> routes[d] = "free" /\ routes[e] = "free"
      /\ Claimed(<<d, e>>) = IF routes[d] # "free" THEN {}
                             ELSE IF routes[e] # "free" THEN {d} ELSE {d, e}
  BY PairClaimed
<1> QED
  BY <1>1, <1>2, <1>3

(* What the handles of a runtime cover. *)
LEMMA HoldsOf ==
  ASSUME NEW r \in RuntimeState
  PROVE  Holds(r) = (IF r.wellKnown THEN {WellKnown(r.path)[1], WellKnown(r.path)[2]} ELSE {})
                    \cup (IF r.wizard THEN {Wizard(r.path)[1], Wizard(r.path)[2]} ELSE {})
<1>1. 1 .. 2 = {1, 2}
  OBVIOUS
<1> QED
  BY <1>1 DEF Holds

LEMMA NotARuntime == None \notin Runtime /\ "free" \notin Runtime /\ "foreign" \notin Runtime
  BY LifecycleAssumption

-------------------------------------------------------------------------------
(* Endpoints: held by the attached runtime, while it serves. *)

(* While nothing serves there is none. *)
LEMMA NoEndpoints ==
  ASSUME Shape, Endpoints,
         attached = None \/ runtime[attached].lifespan # "up" \/ ~runtime[attached].route
  PROVE  \A p \in MountPath : routes[Main(p)] \notin Runtime
  BY NotARuntime DEF Endpoints

LEMMA EndpointsKept ==
  ASSUME Endpoints, attached' = attached,
         \A p \in MountPath : routes'[Main(p)] \in Runtime => routes'[Main(p)] = routes[Main(p)],
         attached \in Runtime => /\ runtime'[attached].path = runtime[attached].path
                                 /\ runtime'[attached].lifespan = runtime[attached].lifespan
                                 /\ runtime'[attached].route = runtime[attached].route
  PROVE  Endpoints'
  BY DEF Endpoints, Main

LEMMA EndpointsGone ==
  ASSUME \A p \in MountPath : routes'[Main(p)] \notin Runtime
  PROVE  Endpoints'
  BY DEF Endpoints, Main

LEMMA StopEndpoints ==
  ASSUME Shape, Endpoints, attached # None, NEW kind, NEW c, NEW kept, Stop(kind, c, kept)
  PROVE  \A p \in MountPath : routes'[Main(p)] \notin Runtime
<1>1. Types /\ attached \in Runtime /\ runtime[attached] \in RuntimeState
  BY DEF Shape, Types
<1>2. CASE runtime[attached].route
  <2>1. routes' = Assign({Main(runtime[attached].path)}, "free")
    BY <1>2 DEF Stop
  <2>2. \A p \in MountPath : routes'[Main(p)] = IF Main(p) = Main(runtime[attached].path)
                                                THEN "free" ELSE routes[Main(p)]
    BY <1>1, <2>1, AssignType, RoutesOfPath
  <2> QED
    BY <2>2, NotARuntime DEF Endpoints
<1>3. CASE ~runtime[attached].route
  BY <1>3, NoEndpoints DEF Stop
<1> QED
  BY <1>2, <1>3

LEMMA MountEndpoints ==
  ASSUME Shape, Endpoints, MountEndpoint
  PROVE  Endpoints'
<1> DEFINE g == attached
           p == runtime[g].path
<1>1. op.at = "starting"
  BY DEF MountEndpoint, Starting
<1>2. /\ g \in Runtime /\ runtime[g] \in RuntimeState /\ p \in MountPath
      /\ runtime[g].lifespan # "up" /\ Types
  BY <1>1, Attached DEF Shape, Fits, RuntimeState
<1>3. \A q \in MountPath : routes[Main(q)] \notin Runtime
  BY <1>2, NoEndpoints
<1>4. \A q \in MountPath : routes'[Main(q)] = IF q = p THEN g ELSE routes[Main(q)]
  <2> SUFFICES ASSUME NEW q \in MountPath
               PROVE  routes'[Main(q)] = IF q = p THEN g ELSE routes[Main(q)]
    OBVIOUS
  <2>1. Main(q) \in {Main(p)} \cup Claimed(WellKnown(p)) \cup Claimed(Wizard(p)) <=> q = p
    BY <1>2, ClaimedOfPath, MainApart
  <2> QED
    BY <1>2, <2>1, AssignType, RoutesOfPath DEF MountEndpoint
<1>5. runtime'[g].path = p /\ runtime'[g].lifespan = "up" /\ runtime'[g].route /\ attached' = g
  BY <1>2 DEF MountEndpoint, Types, RuntimeState
<1> HIDE DEF p
<1> QED
  BY <1>3, <1>4, <1>5 DEF Endpoints, Main

LEMMA NextEndpoints == Shape /\ Endpoints /\ [Next]_vars => Endpoints'
<1> SUFFICES ASSUME Shape, Endpoints, [Next]_vars PROVE Endpoints'
  OBVIOUS
<1>1. Types /\ Placed
  BY DEF Shape
<1>2. CASE BeginInit \/ SaveDetached
  <2>1. attached = None /\ UNCHANGED routes
    BY <1>1, <1>2 DEF BeginInit, SaveDetached, Placed
  <2> QED
    BY <2>1, NoEndpoints, EndpointsGone
<1>3. CASE MountEndpoint
  BY <1>3, MountEndpoints
<1>4. CASE EndpointTaken \/ LifespanEnds \/ RollbackEnds
  <2>1. op.at \in {"starting", "rollback"} /\ UNCHANGED routes
    BY <1>4 DEF EndpointTaken, LifespanEnds, RollbackEnds, Starting
  <2>2. runtime[attached].lifespan # "up"
    BY <2>1, Attached DEF Fits
  <2> QED
    BY <2>1, <2>2, NoEndpoints, EndpointsGone
<1>5. CASE WellKnownTaken
  <2>1. op.at = "starting" /\ routes' = Assign(Claimed(WellKnown(runtime[attached].path)), attached)
    BY <1>5 DEF WellKnownTaken, Starting
  <2>2. /\ runtime[attached].lifespan # "up" /\ attached \in Runtime
        /\ runtime[attached].path \in MountPath
    BY <2>1, Attached DEF Fits, RuntimeState
  <2>3. \A q \in MountPath : routes'[Main(q)] = routes[Main(q)]
    BY <1>1, <2>1, <2>2, ClaimedOfPath, MainApart, AssignType, RoutesOfPath
  <2> QED
    BY <2>2, <2>3, NoEndpoints, EndpointsGone
<1>6. CASE StopEnds
  <2>1. op.at = "stopping" /\ routes' = Assign(Holds(runtime[attached]), "free")
    BY <1>6 DEF StopEnds
  <2>2. runtime[attached].lifespan # "up"
    BY <2>1, Attached DEF Fits
  <2>3. \A q \in MountPath : routes'[Main(q)] \in {"free", routes[Main(q)]}
    BY <1>1, <2>1, AssignType, RoutesOfPath
  <2> QED
    BY <2>2, <2>3, NoEndpoints, EndpointsGone, NotARuntime
<1>7. CASE Unload \/ SaveResourceKeys \/ SaveOtherKeys
  <2>1. CASE attached # None
    <3>1. \E kind, c, kept : Stop(kind, c, kept)
      BY <1>7, <2>1 DEF Unload, SaveResourceKeys, SaveOtherKeys
    <3> QED
      BY <2>1, <3>1, StopEndpoints, EndpointsGone
  <2>2. CASE attached = None
    <3>1. UNCHANGED routes
      BY <1>7, <2>2 DEF Unload, SaveResourceKeys, SaveOtherKeys
    <3> QED
      BY <2>2, <3>1, NoEndpoints, EndpointsGone
  <2> QED
    BY <2>1, <2>2
<1>8. CASE SaveUnloaded \/ UNCHANGED vars
  BY <1>8, EndpointsKept DEF SaveUnloaded, vars
<1>9. CASE SavePolicyKeys
  <2>1. attached \in Runtime /\ UNCHANGED <<attached, routes>>
    BY <1>1, <1>9 DEF SavePolicyKeys, Types
  <2>2. /\ runtime'[attached].path = runtime[attached].path
        /\ runtime'[attached].lifespan = runtime[attached].lifespan
        /\ runtime'[attached].route = runtime[attached].route
    BY <1>1, <1>9, <2>1 DEF SavePolicyKeys, Compiled, Types, RuntimeState
  <2> QED
    BY <2>1, <2>2, EndpointsKept
<1>10. CASE OtherPlugin
  <2>1. UNCHANGED <<attached, runtime>>
    BY <1>10 DEF OtherPlugin
  <2>2. \E p : routes' = Assign({p}, "free") \/ routes' = Assign({p}, "foreign")
    BY <1>10 DEF OtherPlugin
  <2>3. \A q \in MountPath : routes'[Main(q)] \in {"free", "foreign", routes[Main(q)]}
    BY <1>1, <2>2, AssignType, RoutesOfPath
  <2> QED
    BY <2>1, <2>3, NotARuntime, EndpointsKept
<1>11. ASSUME NEW g \in Runtime, Retire(g) PROVE Endpoints'
  BY <1>11, EndpointsKept DEF Retire, Shape, Types
<1>12. ASSUME NEW g \in Runtime, NEW t \in Token, Bind(g, t) \/ Discard(g, t) PROVE Endpoints'
  <2>1. PICK tokens \in SUBSET Token : Knows(g, tokens)
    BY <1>12, KnowsView
  <2>2. runtime' = [runtime EXCEPT ![g] = Compiled([runtime[g] EXCEPT !.known = tokens], config)]
        /\ UNCHANGED <<attached, routes>>
    BY <1>1, <2>1 DEF Knows, Types
  <2>3. \A x \in Runtime : /\ runtime'[x].path = runtime[x].path
                           /\ runtime'[x].lifespan = runtime[x].lifespan
                           /\ runtime'[x].route = runtime[x].route
    BY <1>1, <2>2, CompiledType DEF Types
  <2> QED
    BY <2>2, <2>3, EndpointsKept
<1>13. CASE LifespanFails \/ DrainTimesOut
  BY <1>13, EndingStep, NoEndpoints, EndpointsGone
<1> QED
  BY <1>2, <1>3, <1>4, <1>5, <1>6, <1>7, <1>8, <1>9, <1>10, <1>11, <1>12, <1>13 DEF Next, Update

(* Whoever reaches the endpoint reaches a running application with its       *)
(* commands, whatever routes other plugins take.                             *)
THEOREM EndpointBackedHolds == Spec => []EndpointBacked
<1>1. Init => Endpoints
  BY NotARuntime, RoutesOfPath DEF Init, Endpoints
<1>2. Shape /\ Endpoints => EndpointBacked
  <2> SUFFICES ASSUME Shape, Endpoints, NEW p \in MountPath, routes[Main(p)] \in Runtime
               PROVE  /\ routes[Main(p)] = attached /\ commands
                      /\ runtime[routes[Main(p)]].path = p
                      /\ runtime[routes[Main(p)]].lifespan = "up"
    BY DEF EndpointBacked
  <2>1. routes[Main(p)] = attached /\ attached # None
    BY NotARuntime DEF Endpoints
  <2> QED
    BY <2>1 DEF Endpoints, Shape, Placed
<1> QED
  BY <1>1, <1>2, InitShape, NextShape, NextEndpoints, PTL DEF Spec

-------------------------------------------------------------------------------
(* The policy in force, and what is mounted. *)

LEMMA IdleIs == op = Idle <=> op.at = "none" /\ op = Idle
  BY DEF Idle

(* A new runtime is what the config says. *)
LEMMA BeginCurrent ==
  ASSUME NEW g \in Runtime, attached' = g, runtime'[g] = NewRuntime(config'),
         config' \in Config, op'.at = "starting"
  PROVE  Current'
<1>1. Fresh'
  BY NewRuntimeType DEF Fresh
<1> QED
  BY <1>1, NewRuntimeType DEF Current

LEMMA AfterStopCurrent ==
  ASSUME Shape, attached # None, NEW kind \in {"rebuild", "restart", "unload"},
         NEW c \in Config, NEW kept, AfterStop(kind, c, kept), config' = c,
         runtime[attached].lifespan # "new",
         kind = "rebuild" => /\ runtime[attached].path = c.path
                             /\ \/ lagging'
                                \/ /\ runtime[attached].policy = c.policy
                                   /\ runtime[attached].seen = runtime[attached].known
  PROVE  Current'
<1> DEFINE old == attached
<1>1. old \in Runtime /\ runtime[old] \in RuntimeState /\ Types
  BY DEF Shape, Types
<1>2. CASE kind = "rebuild"
  <2> DEFINE t == [Stopped(runtime[old]) EXCEPT !.lifespan = "starting", !.surface = c.surface]
  <2>1. /\ runtime' = [runtime EXCEPT ![old] = t] /\ attached' = old
        /\ op' = [kind |-> kind, at |-> "starting"]
    BY <1>1, <1>2 DEF AfterStop, Types
  <2>2. /\ t.surface = c.surface /\ t.path = runtime[old].path
        /\ t.policy = runtime[old].policy /\ t.seen = runtime[old].seen
        /\ t.known = runtime[old].known
    BY <1>1, StoppedType DEF RuntimeState
  <2> HIDE DEF t
  <2>3. runtime'[old] = t
    BY <1>1, <2>1 DEF Types
  <2>4. (Fresh \/ lagging)'
    BY <1>2, <2>1, <2>2, <2>3 DEF Fresh
  <2> QED
    BY <1>2, <2>1, <2>2, <2>3, <2>4 DEF Current
<1>3. CASE kind = "restart"
  <2> DEFINE new == NextRuntime
  <2>1. /\ new \in Runtime /\ attached' = new /\ op'.at = "starting"
        /\ runtime' = [runtime EXCEPT ![old] = Stopped(@), ![new] = NewRuntime(c)]
    BY <1>3, NextRuntimeUnused DEF AfterStop
  <2> HIDE DEF new
  <2>2. runtime'[new] = NewRuntime(c)
    BY <1>1, <2>1 DEF Types
  <2> QED
    BY <2>1, <2>2, BeginCurrent
<1>4. CASE kind = "unload"
  BY <1>4 DEF AfterStop, Current
<1> QED
  BY <1>2, <1>3, <1>4

LEMMA StopCurrent ==
  ASSUME Shape, Current, op = Idle, attached # None,
         NEW kind \in {"rebuild", "restart", "unload"},
         NEW c \in Config, NEW kept, Stop(kind, c, kept), config' = c,
         kind \in {"rebuild", "unload"} =>
            /\ config.path = c.path
            /\ \/ lagging'
               \/ lagging' = lagging /\ config.policy = c.policy
  PROVE  Current'
<1>1. /\ attached \in Runtime /\ runtime[attached] \in RuntimeState /\ Types
      /\ runtime[attached].lifespan # "new"
  BY DEF Shape, Types, Placed, Fits, Idle
<1>2. /\ Fresh \/ lagging
      /\ runtime[attached].path = config.path
  BY DEF Current, Leaving, Idle
<1>3. CASE runtime[attached].route
  <2>1. /\ runtime' = [runtime EXCEPT ![attached].lifespan = "stopping"]
        /\ op' = [kind |-> kind, at |-> "stopping"] /\ attached' = attached
    BY <1>3 DEF Stop
  <2>2. /\ runtime'[attached].path = runtime[attached].path
        /\ runtime'[attached].policy = runtime[attached].policy
        /\ runtime'[attached].seen = runtime[attached].seen
        /\ runtime'[attached].known = runtime[attached].known
    BY <1>1, <2>1 DEF Types, RuntimeState
  <2>3. kind # "restart" => (Fresh \/ lagging)' /\ runtime'[attached'].path = config'.path
    BY <1>2, <2>1, <2>2 DEF Fresh
  <2> QED
    BY <2>1, <2>3 DEF Current, Leaving
<1>4. CASE ~runtime[attached].route
  <2>1. AfterStop(kind, c, kept)
    BY <1>4 DEF Stop
  <2> QED
    BY <1>1, <1>2, <2>1, AfterStopCurrent DEF Fresh
<1> QED
  BY <1>3, <1>4

(* A start that failed leaves the attached runtime, if any, unmounted. *)
LEMMA AbortCurrent ==
  ASSUME Shape, Current, op.at \in {"starting", "rollback"}, Abort, NEW t,
         runtime' = [runtime EXCEPT ![attached] = t],
         t.path = runtime[attached].path, t.policy = runtime[attached].policy,
         t.seen = runtime[attached].seen, t.known = runtime[attached].known, ~t.route
  PROVE  Current'
<1>1. attached \in Runtime /\ attached # None /\ Types
  BY Attached DEF Shape
<1>2. (Fresh \/ lagging) /\ runtime[attached].path = config.path
  BY <1>1 DEF Current, Leaving
<1>3. runtime'[attached] = t
  BY <1>1 DEF Types
<1>4. op' = Idle /\ attached' \in {attached, None} /\ UNCHANGED <<config, lagging>>
  BY DEF Abort
<1>5. attached' = attached => (Fresh \/ lagging)'
  BY <1>2, <1>3, <1>4 DEF Fresh
<1> QED
  BY <1>2, <1>3, <1>4, <1>5 DEF Current, Idle

LEMMA FailedStartCurrent ==
  ASSUME Shape, Current, EndpointTaken \/ LifespanEnds \/ RollbackEnds
  PROVE  Current'
<1>1. op.at \in {"starting", "rollback"} /\ Abort
  BY DEF EndpointTaken, LifespanEnds, RollbackEnds, Starting
<1>2. /\ attached \in Runtime /\ runtime[attached] \in RuntimeState
      /\ Types /\ Fits(op, runtime[attached])
  BY <1>1, Attached DEF Shape
<1>3. CASE EndpointTaken
  <2> DEFINE t == [runtime[attached] EXCEPT !.lifespan = "down", !.lost = TRUE]
  <2>1. runtime' = [runtime EXCEPT ![attached] = t] /\ op.at = "starting"
    BY <1>2, <1>3 DEF EndpointTaken, Starting, Types
  <2>2. /\ t.path = runtime[attached].path /\ t.policy = runtime[attached].policy
        /\ t.seen = runtime[attached].seen /\ t.known = runtime[attached].known /\ ~t.route
    BY <1>2, <2>1 DEF RuntimeState, Fits
  <2> HIDE DEF t
  <2> QED
    BY <1>1, <2>1, <2>2, AbortCurrent
<1>4. CASE LifespanEnds
  <2> DEFINE t == [runtime[attached] EXCEPT !.lifespan = "down"]
  <2>1. runtime' = [runtime EXCEPT ![attached] = t] /\ op.at = "starting"
    BY <1>2, <1>4 DEF LifespanEnds, Types
  <2>2. /\ t.path = runtime[attached].path /\ t.policy = runtime[attached].policy
        /\ t.seen = runtime[attached].seen /\ t.known = runtime[attached].known /\ ~t.route
    BY <1>2, <2>1 DEF RuntimeState, Fits
  <2> HIDE DEF t
  <2> QED
    BY <1>1, <2>1, <2>2, AbortCurrent
<1>5. CASE RollbackEnds
  <2> DEFINE t == Stopped(runtime[attached])
  <2>1. runtime' = [runtime EXCEPT ![attached] = t]
    BY <1>2, <1>5 DEF RollbackEnds, Types
  <2>2. /\ t.path = runtime[attached].path /\ t.policy = runtime[attached].policy
        /\ t.seen = runtime[attached].seen /\ t.known = runtime[attached].known /\ ~t.route
    BY <1>2, StoppedType
  <2> HIDE DEF t
  <2> QED
    BY <1>1, <2>1, <2>2, AbortCurrent
<1> QED
  BY <1>3, <1>4, <1>5

LEMMA EndingCurrent ==
  ASSUME Shape, Current, LifespanFails \/ DrainTimesOut
  PROVE  Current'
<1> DEFINE t == [runtime[attached] EXCEPT !.lifespan = "ending"]
<1>1. /\ attached \in Runtime /\ runtime' = [runtime EXCEPT ![attached] = t]
      /\ UNCHANGED <<config, op, attached, lagging>> /\ Types
  BY EndingStep DEF Shape
<1>2. /\ t.path = runtime[attached].path /\ t.policy = runtime[attached].policy
      /\ t.seen = runtime[attached].seen /\ t.known = runtime[attached].known
      /\ t.surface = runtime[attached].surface /\ t.route = runtime[attached].route
  BY <1>1 DEF Types, RuntimeState
<1> HIDE DEF t
<1>3. runtime'[attached] = t
  BY <1>1 DEF Types
<1>4. Fresh' <=> Fresh
  BY <1>1, <1>2, <1>3 DEF Fresh
<1> QED
  BY <1>1, <1>2, <1>3, <1>4 DEF Current, Leaving

LEMMA MountCurrent ==
  ASSUME Shape, Current, MountEndpoint \/ WellKnownTaken
  PROVE  Current'
<1>1. op.at = "starting" /\ UNCHANGED <<config, attached, lagging>>
  BY DEF MountEndpoint, WellKnownTaken, Starting
<1>2. attached \in Runtime /\ runtime[attached] \in RuntimeState /\ attached # None /\ Types
  BY <1>1, Attached DEF Shape
<1>3. /\ runtime'[attached].path = runtime[attached].path
      /\ runtime'[attached].surface = runtime[attached].surface
      /\ runtime'[attached].policy = runtime[attached].policy
      /\ runtime'[attached].seen = runtime[attached].seen
      /\ runtime'[attached].known = runtime[attached].known
  BY <1>2 DEF MountEndpoint, WellKnownTaken, Types, RuntimeState
<1>4. /\ Fresh \/ lagging
      /\ runtime[attached].path = config.path /\ runtime[attached].surface = config.surface
  BY <1>1, <1>2 DEF Current, Leaving
<1>5. (Fresh \/ lagging)'
  BY <1>1, <1>3, <1>4 DEF Fresh
<1> QED
  BY <1>1, <1>3, <1>4, <1>5 DEF Current

LEMMA SaveCurrent ==
  ASSUME Shape, Current, Update
  PROVE  Current'
<1>1. Types /\ Placed /\ op = Idle
  BY DEF Shape, Update, SaveUnloaded, SavePolicyKeys, SaveResourceKeys, SaveOtherKeys,
         SaveDetached, Save
<1>2. CASE SaveUnloaded
  <2>1. attached = None /\ attached' = attached
    BY <1>1, <1>2 DEF SaveUnloaded, Placed
  <2> QED
    BY <2>1 DEF Current
<1>3. CASE SavePolicyKeys
  <2>1. PICK c \in Config :
          /\ config' = c /\ Changed(c) = {"policy"}
          /\ runtime' = [runtime EXCEPT ![attached] = Compiled(@, c)]
    BY <1>3 DEF SavePolicyKeys, Save
  <2>2. attached \in Runtime /\ attached # None /\ UNCHANGED <<op, attached>>
    BY <1>1, <1>3 DEF SavePolicyKeys, Types
  <2>3. c.path = config.path /\ c.surface = config.surface
    <3>1. "path" \notin Changed(c) /\ "surface" \notin Changed(c)
      BY <2>1
    <3> QED
      BY <3>1 DEF Changed
  <2>4. /\ runtime'[attached].path = runtime[attached].path
        /\ runtime'[attached].surface = runtime[attached].surface
        /\ runtime'[attached].route = runtime[attached].route
        /\ runtime'[attached].policy = c.policy
        /\ runtime'[attached].seen = runtime'[attached].known
    BY <1>1, <2>1, <2>2 DEF Compiled, Types, RuntimeState, Config
  <2>5. Fresh'
    BY <2>1, <2>2, <2>4 DEF Fresh
  <2> QED
    BY <1>1, <2>1, <2>2, <2>3, <2>4, <2>5 DEF Current, Leaving, Idle
<1>4. CASE SaveResourceKeys
  <2>1. PICK c \in Config : /\ config' = c /\ Stop("rebuild", c, Retains(c, active))
                            /\ "path" \notin Changed(c)
                            /\ lagging' = (lagging \/ "policy" \in Changed(c))
    BY <1>4 DEF SaveResourceKeys, Save
  <2>2. attached # None
    BY <1>4 DEF SaveResourceKeys
  <2>3. config.path = c.path /\ ("policy" \notin Changed(c) => config.policy = c.policy)
    BY <2>1 DEF Changed
  <2>4. \/ lagging'
        \/ lagging' = lagging /\ config.policy = c.policy
    BY <1>1, <2>1, <2>3 DEF Types
  <2> QED
    BY <1>1, <2>1, <2>2, <2>3, <2>4, StopCurrent
<1>5. CASE SaveOtherKeys
  <2>1. PICK c \in Config : config' = c /\ Stop("restart", c, Retains(c, active))
    BY <1>5 DEF SaveOtherKeys, Save
  <2>2. attached # None
    BY <1>5 DEF SaveOtherKeys
  <2> QED
    BY <1>1, <2>1, <2>2, StopCurrent
<1>6. CASE SaveDetached
  <2>1. PICK c \in Config :
          /\ config' = c
          /\ runtime' = [runtime EXCEPT ![NextRuntime] = NewRuntime(c)]
          /\ attached' = NextRuntime
    BY <1>6 DEF SaveDetached, Save
  <2>2. NextRuntime \in Runtime /\ op'.at = "starting"
    BY <1>6, NextRuntimeUnused DEF SaveDetached
  <2>3. runtime'[NextRuntime] = NewRuntime(c)
    BY <1>1, <2>1, <2>2 DEF Types
  <2> QED
    BY <2>1, <2>2, <2>3, BeginCurrent
<1> QED
  BY <1>2, <1>3, <1>4, <1>5, <1>6 DEF Update

LEMMA RequestCurrent ==
  ASSUME Shape, Current, NEW g \in Runtime, NEW tokens \in SUBSET Token, Knows(g, tokens)
  PROVE  Current'
<1> DEFINE t == Compiled([runtime[g] EXCEPT !.known = tokens], config)
<1>1. /\ Types /\ runtime[g] \in RuntimeState /\ config \in Config
      /\ runtime' = [runtime EXCEPT ![g] = t]
      /\ lagging' = (lagging /\ g # attached) /\ UNCHANGED <<config, op, attached>>
  BY DEF Knows, Shape, Types
<1>2. /\ t.route = runtime[g].route /\ t.path = runtime[g].path
      /\ t.surface = runtime[g].surface /\ t.policy = config.policy /\ t.seen = t.known
  BY <1>1, CompiledType
<1> HIDE DEF t
<1>3. /\ runtime'[g] = t
      /\ \A x \in Runtime \ {g} : runtime'[x] = runtime[x]
  BY <1>1 DEF Types
<1>4. CASE attached = g
  <2>1. Fresh'
    BY <1>1, <1>2, <1>3, <1>4 DEF Fresh
  <2> QED
    BY <1>1, <1>2, <1>3, <1>4, <2>1 DEF Current, Leaving
<1>5. CASE attached # g
  <2>1. attached # None => runtime'[attached] = runtime[attached] /\ lagging' = lagging
    BY <1>1, <1>3, <1>5 DEF Types
  <2>2. attached # None => (Fresh' <=> Fresh)
    BY <1>1, <2>1 DEF Fresh
  <2> QED
    BY <1>1, <2>1, <2>2 DEF Current, Leaving
<1> QED
  BY <1>4, <1>5

LEMMA NextCurrent == Shape /\ Current /\ [Next]_vars => Current'
<1> SUFFICES ASSUME Shape, Current, [Next]_vars PROVE Current'
  OBVIOUS
<1>1. Types /\ Placed
  BY DEF Shape
<1>2. CASE BeginInit
  <2>1. /\ NextRuntime \in Runtime /\ op'.at = "starting" /\ attached' = NextRuntime
        /\ config' = config /\ runtime'[NextRuntime] = NewRuntime(config)
    BY <1>1, <1>2, NextRuntimeUnused DEF BeginInit, Types
  <2> QED
    BY <1>1, <2>1, BeginCurrent DEF Types
<1>3. CASE MountEndpoint \/ WellKnownTaken
  BY <1>3, MountCurrent
<1>4. CASE EndpointTaken \/ LifespanEnds \/ RollbackEnds
  BY <1>4, FailedStartCurrent
<1>11. CASE LifespanFails \/ DrainTimesOut
  BY <1>11, EndingCurrent
<1>5. CASE StopEnds
  <2>1. /\ op.at = "stopping" /\ AfterStop(op.kind, config, listening) /\ config' = config
        /\ lagging' = (lagging /\ op.kind = "rebuild")
    BY <1>5 DEF StopEnds
  <2>2. /\ op.kind \in {"rebuild", "restart", "unload"} /\ attached # None
        /\ runtime[attached].lifespan # "new"
    BY <1>1, <2>1 DEF Placed, Waits, Fits
  <2>3. op.kind = "rebuild" => /\ runtime[attached].path = config.path
                               /\ \/ lagging'
                                  \/ /\ runtime[attached].policy = config.policy
                                     /\ runtime[attached].seen = runtime[attached].known
    BY <2>1, <2>2 DEF Current, Leaving, Fresh
  <2> QED
    BY <1>1, <2>1, <2>2, <2>3, AfterStopCurrent DEF Types
<1>6. CASE Unload
  <2>1. op = Idle /\ config' = config /\ lagging' = lagging
    BY <1>6 DEF Unload
  <2>2. CASE attached # None
    <3>1. Stop("unload", config, listening)
      BY <1>6, <2>2 DEF Unload
    <3> QED
      BY <1>1, <2>1, <2>2, <3>1, StopCurrent DEF Types
  <2>3. CASE attached = None
    BY <1>6, <2>3 DEF Unload, Current
  <2> QED
    BY <2>2, <2>3
<1>7. CASE Update
  BY <1>7, SaveCurrent
<1>8. CASE OtherPlugin \/ UNCHANGED vars
  <2>1. UNCHANGED <<config, op, attached, runtime, lagging>>
    BY <1>8 DEF OtherPlugin, vars
  <2> QED
    BY <2>1 DEF Current, Leaving, Fresh
<1>9. ASSUME NEW g \in Runtime, Retire(g) PROVE Current'
  <2>1. /\ UNCHANGED <<config, op, attached, lagging>>
        /\ attached # None => runtime'[attached] = runtime[attached]
    BY <1>1, <1>9 DEF Retire, Types
  <2>2. attached # None => (Fresh' <=> Fresh)
    BY <2>1 DEF Fresh
  <2> QED
    BY <2>1, <2>2 DEF Current, Leaving
<1>10. ASSUME NEW g \in Runtime, NEW t \in Token, Bind(g, t) \/ Discard(g, t) PROVE Current'
  BY <1>10, KnowsView, RequestCurrent
<1> QED
  BY <1>2, <1>3, <1>4, <1>5, <1>6, <1>7, <1>8, <1>9, <1>10, <1>11 DEF Next

LEMMA InitCurrent == Init => Current
  BY DEF Init, Current

(* The resolver is behind the saved policy only after a save of both kinds   *)
(* of keys, whatever requests, saves and failures come together.             *)
THEOREM ResolverLagsHolds == Spec => []ResolverLagsOnlyAfterMixedSave
<1>1. Current => ResolverLagsOnlyAfterMixedSave
  BY DEF Current, Leaving, Idle, ResolverLagsOnlyAfterMixedSave
<1> QED
  BY <1>1, InitShape, InitCurrent, NextShape, NextCurrent, PTL DEF Spec

(* What is mounted is what was saved, also after failed rebuilds. *)
THEOREM MountFreshHolds == Spec => []MountFresh
<1>1. Current => MountFresh
  BY DEF Current, Leaving, Idle, MountFresh
<1> QED
  BY <1>1, InitShape, InitCurrent, NextShape, NextCurrent, PTL DEF Spec

-------------------------------------------------------------------------------
(* Every route of ours can be unregistered. *)

(* The attached runtime that neither serves nor holds handles has no routes   *)
(* but those that leaked.                                                    *)
LEMMA NoRoutes ==
  ASSUME Shape, Endpoints, NoOrphanRoutes,
         attached # None => /\ ~runtime[attached].wellKnown /\ ~runtime[attached].wizard
                            /\ runtime[attached].lifespan # "up" \/ ~runtime[attached].route
  PROVE  \A p \in Route : routes[p] \in Runtime => p \in leaked
<1> SUFFICES ASSUME NEW p \in Route, routes[p] \in Runtime, p \notin leaked PROVE FALSE
  OBVIOUS
<1>1. Held(p)
  BY DEF NoOrphanRoutes, Ours
<1>2. routes[p] = attached /\ attached \in Runtime /\ attached # None
  BY <1>1, NotARuntime DEF Held
<1>3. runtime[attached] \in RuntimeState /\ runtime[attached].path \in MountPath
  BY <1>2 DEF Shape, Types, RuntimeState
<1>4. p \notin Holds(runtime[attached])
  BY <1>2, <1>3, HoldsOf
<1>5. p = Main(runtime[attached].path) /\ runtime[attached].route
  BY <1>1, <1>2, <1>4 DEF Held
<1>6. runtime[attached].lifespan = "up"
  BY <1>2, <1>3, <1>5 DEF Endpoints
<1> QED
  BY <1>2, <1>5, <1>6

LEMMA OwnedGone ==
  ASSUME \A p \in Route : routes'[p] \in Runtime => p \in leaked'
  PROVE  NoOrphanRoutes'
  BY DEF NoOrphanRoutes, Ours

LEMMA OwnedKept ==
  ASSUME Shape, Shape', NoOrphanRoutes, attached' = attached, leaked' = leaked,
         \A p \in Route : routes'[p] \in Runtime => routes'[p] = routes[p],
         attached \in Runtime => /\ runtime'[attached].path = runtime[attached].path
                                 /\ runtime'[attached].route = runtime[attached].route
                                 /\ runtime'[attached].wellKnown = runtime[attached].wellKnown
                                 /\ runtime'[attached].wizard = runtime[attached].wizard
  PROVE  NoOrphanRoutes'
<1> SUFFICES ASSUME NEW p \in Route, routes'[p] \in Runtime, p \notin leaked
             PROVE  /\ routes'[p] = attached'
                    /\ \/ p = Main(runtime'[routes'[p]].path) /\ runtime'[routes'[p]].route
                       \/ p \in Holds(runtime'[routes'[p]])
  BY DEF NoOrphanRoutes, Ours, Held, Main, Holds
<1>1. routes[p] = routes'[p] /\ Held(p)
  BY DEF NoOrphanRoutes, Ours
<1>2. routes[p] = attached /\ attached \in Runtime
  BY <1>1 DEF Held
<1>3. runtime[attached] \in RuntimeState /\ runtime'[attached] \in RuntimeState
  BY <1>2 DEF Shape, Types
<1>4. Holds(runtime'[attached]) = Holds(runtime[attached])
  BY <1>2, <1>3, HoldsOf
<1>5. \/ p = Main(runtime[attached].path) /\ runtime[attached].route
      \/ p \in Holds(runtime[attached])
  BY <1>1, <1>2 DEF Held
<1> QED
  BY <1>1, <1>2, <1>4, <1>5

LEMMA StopOwned ==
  ASSUME Shape, Shape', Endpoints, NoOrphanRoutes, attached # None, op = Idle,
         leaked' = leaked, NEW kind, NEW c, NEW kept, Stop(kind, c, kept)
  PROVE  NoOrphanRoutes'
<1>1. /\ Types /\ attached \in Runtime /\ runtime[attached] \in RuntimeState
      /\ Fits(op, runtime[attached])
  BY DEF Shape, Types, Placed
<1>2. CASE runtime[attached].route
  <2> DEFINE main == Main(runtime[attached].path)
  <2>1. /\ routes' = Assign({main}, "free") /\ attached' = attached
        /\ runtime' = [runtime EXCEPT ![attached].lifespan = "stopping"]
    BY <1>2 DEF Stop
  <2>2. \A p \in Route : routes'[p] = IF p = main THEN "free" ELSE routes[p]
    BY <1>1, <2>1, AssignType
  <2>3. /\ runtime'[attached].path = runtime[attached].path
        /\ runtime'[attached].route = runtime[attached].route
        /\ runtime'[attached].wellKnown = runtime[attached].wellKnown
        /\ runtime'[attached].wizard = runtime[attached].wizard
    BY <1>1, <2>1 DEF Types, RuntimeState
  <2> HIDE DEF main
  <2>4. \A p \in Route : routes'[p] \in Runtime => routes'[p] = routes[p]
    BY <2>2, NotARuntime
  <2> QED
    BY <2>1, <2>3, <2>4, OwnedKept
<1>3. CASE ~runtime[attached].route
  <2>1. routes' = routes
    BY <1>3 DEF Stop
  <2>2. \A p \in Route : routes[p] \in Runtime => p \in leaked
    BY <1>1, <1>3, NoRoutes DEF Fits
  <2> QED
    BY <2>1, <2>2, OwnedGone
<1> QED
  BY <1>2, <1>3

LEMMA StopEndsOwned ==
  ASSUME Shape, Endpoints, NoOrphanRoutes, StopEnds
  PROVE  NoOrphanRoutes'
<1>1. op.at = "stopping" /\ routes' = Assign(Holds(runtime[attached]), "free")
      /\ leaked' = leaked
  BY DEF StopEnds
<1>2. /\ attached \in Runtime /\ runtime[attached] \in RuntimeState /\ Types
      /\ runtime[attached].path \in MountPath /\ runtime[attached].lifespan # "up"
  BY <1>1, Attached DEF Shape, Fits, RuntimeState
<1>3. \A p \in Route : routes'[p] = IF p \in Holds(runtime[attached]) THEN "free" ELSE routes[p]
  BY <1>1, <1>2, AssignType
<1>4. ASSUME NEW p \in Route, routes'[p] \in Runtime, p \notin leaked PROVE FALSE
  <2>1. routes[p] \in Runtime /\ p \notin Holds(runtime[attached])
    BY <1>3, <1>4, NotARuntime
  <2>2. routes[p] = attached /\ p = Main(runtime[attached].path)
    BY <1>4, <2>1 DEF NoOrphanRoutes, Ours, Held
  <2> QED
    BY <1>2, <2>1, <2>2 DEF Endpoints
<1> QED
  BY <1>1, <1>4, OwnedGone

(* While a start waits for its lifespan no route is held. *)
LEMMA StartingOwned ==
  ASSUME Shape, Endpoints, NoOrphanRoutes, op.at = "starting"
  PROVE  \A p \in Route : routes[p] \in Runtime => p \in leaked
<1>1. Fits(op, runtime[attached])
  BY Attached
<1> QED
  BY <1>1, NoRoutes DEF Fits

LEMMA MountOwned ==
  ASSUME Shape, Shape', Endpoints, NoOrphanRoutes, MountEndpoint
  PROVE  NoOrphanRoutes'
<1> DEFINE g == attached
           p == runtime[g].path
           ours == {Main(p)} \cup Claimed(WellKnown(p)) \cup Claimed(Wizard(p))
<1>1. /\ op.at = "starting" /\ Whole(WellKnown(p)) /\ routes' = Assign(ours, g) /\ attached' = g
      /\ leaked' = leaked \cup IF Whole(Wizard(p)) THEN {} ELSE Claimed(Wizard(p))
  BY DEF MountEndpoint, Starting
<1>2. /\ g \in Runtime /\ runtime[g] \in RuntimeState /\ p \in MountPath /\ Types
      /\ runtime'[g] \in RuntimeState
  BY <1>1, Attached DEF Shape, Types, RuntimeState
<1>3. \A q \in Route : routes[q] \in Runtime => q \in leaked
  BY <1>1, StartingOwned
<1>4. /\ runtime'[g].path = p /\ runtime'[g].route /\ runtime'[g].wellKnown
      /\ runtime'[g].wizard = Whole(Wizard(p))
  BY <1>2 DEF MountEndpoint, Types, RuntimeState
<1>5. /\ Claimed(WellKnown(p)) \subseteq {WellKnown(p)[1], WellKnown(p)[2]}
      /\ Claimed(Wizard(p)) \subseteq
            (IF Whole(Wizard(p)) THEN {Wizard(p)[1], Wizard(p)[2]} ELSE leaked')
  BY <1>1, <1>2, ClaimedOfPath
<1>6. \A q \in Route : routes'[q] = IF q \in ours THEN g ELSE routes[q]
  BY <1>1, <1>2, AssignType
<1>7. Holds(runtime'[g]) = {WellKnown(p)[1], WellKnown(p)[2]} \cup
          (IF Whole(Wizard(p)) THEN {Wizard(p)[1], Wizard(p)[2]} ELSE {})
  BY <1>2, <1>4, HoldsOf
<1>8. ours \subseteq {Main(p)} \cup Holds(runtime'[g]) \cup leaked'
  BY <1>5, <1>7
<1> HIDE DEF p, ours
<1>9. ASSUME NEW q \in Route, routes'[q] \in Runtime, q \notin leaked'
      PROVE  /\ routes'[q] = attached'
             /\ \/ q = Main(runtime'[routes'[q]].path) /\ runtime'[routes'[q]].route
                \/ q \in Holds(runtime'[routes'[q]])
  BY <1>1, <1>3, <1>4, <1>6, <1>8, <1>9
<1> QED
  BY <1>9 DEF NoOrphanRoutes, Ours, Held, Main, Holds

LEMMA NextOwned == Shape /\ Shape' /\ Endpoints /\ NoOrphanRoutes /\ [Next]_vars => NoOrphanRoutes'
<1> SUFFICES ASSUME Shape, Shape', Endpoints, NoOrphanRoutes, [Next]_vars PROVE NoOrphanRoutes'
  OBVIOUS
<1>1. Types /\ Placed
  BY DEF Shape
<1>2. CASE BeginInit \/ SaveDetached
  <2>1. attached = None /\ routes' = routes /\ leaked' = leaked
    BY <1>1, <1>2 DEF BeginInit, SaveDetached, Save, Placed
  <2> QED
    BY <2>1, NoRoutes, OwnedGone
<1>3. CASE MountEndpoint
  BY <1>3, MountOwned
<1>4. CASE EndpointTaken \/ LifespanEnds \/ RollbackEnds
  <2>1. op.at \in {"starting", "rollback"} /\ routes' = routes /\ leaked' = leaked
    BY <1>4 DEF EndpointTaken, LifespanEnds, RollbackEnds, Starting, Abort
  <2>2. Fits(op, runtime[attached])
    BY <2>1, Attached
  <2>3. \A p \in Route : routes[p] \in Runtime => p \in leaked
    BY <2>1, <2>2, NoRoutes DEF Fits
  <2> QED
    BY <2>1, <2>3, OwnedGone
<1>5. CASE WellKnownTaken
  <2> DEFINE claimed == Claimed(WellKnown(runtime[attached].path))
  <2>1. /\ op.at = "starting" /\ routes' = Assign(claimed, attached)
        /\ leaked' = leaked \cup claimed
    BY <1>5 DEF WellKnownTaken, Starting
  <2>2. attached \in Runtime
    BY <2>1, Attached
  <2>3. \A q \in Route : routes[q] \in Runtime => q \in leaked
    BY <2>1, StartingOwned
  <2>4. \A q \in Route : routes'[q] = IF q \in claimed THEN attached ELSE routes[q]
    BY <1>1, <2>1, <2>2, AssignType
  <2> HIDE DEF claimed
  <2> QED
    BY <2>1, <2>3, <2>4, OwnedGone
<1>6. CASE StopEnds
  BY <1>6, StopEndsOwned
<1>7. CASE Unload \/ SaveResourceKeys \/ SaveOtherKeys
  <2>1. CASE attached # None
    <3>1. op = Idle /\ leaked' = leaked /\ \E kind, c, kept : Stop(kind, c, kept)
      BY <1>7, <2>1 DEF Unload, SaveResourceKeys, SaveOtherKeys, Save
    <3> QED
      BY <2>1, <3>1, StopOwned
  <2>2. CASE attached = None
    <3>1. routes' = routes /\ leaked' = leaked
      BY <1>7, <2>2 DEF Unload, SaveResourceKeys, SaveOtherKeys
    <3> QED
      BY <2>2, <3>1, NoRoutes, OwnedGone
  <2> QED
    BY <2>1, <2>2
<1>8. CASE SaveUnloaded \/ UNCHANGED vars
  <2>1. UNCHANGED <<attached, runtime, routes, leaked>>
    BY <1>8 DEF SaveUnloaded, Save, vars
  <2> QED
    BY <2>1, OwnedKept
<1>9. CASE SavePolicyKeys
  <2>1. attached \in Runtime /\ UNCHANGED <<attached, routes, leaked>>
    BY <1>1, <1>9 DEF SavePolicyKeys, Save, Types
  <2>2. /\ runtime'[attached].path = runtime[attached].path
        /\ runtime'[attached].route = runtime[attached].route
        /\ runtime'[attached].wellKnown = runtime[attached].wellKnown
        /\ runtime'[attached].wizard = runtime[attached].wizard
    BY <1>1, <1>9, <2>1 DEF SavePolicyKeys, Compiled, Types, RuntimeState
  <2> QED
    BY <2>1, <2>2, OwnedKept
<1>10. CASE OtherPlugin
  <2>1. UNCHANGED <<attached, runtime, leaked>>
    BY <1>10 DEF OtherPlugin
  <2>2. PICK p \in Contested : routes' = Assign({p}, "free") \/ routes' = Assign({p}, "foreign")
    BY <1>10 DEF OtherPlugin
  <2>3. \A q \in Route : routes'[q] \in {routes[q], "free", "foreign"}
    BY <1>1, <2>2, AssignType
  <2>4. \A q \in Route : routes'[q] \in Runtime => routes'[q] = routes[q]
    BY <2>3, NotARuntime
  <2> QED
    BY <2>1, <2>4, OwnedKept
<1>11. ASSUME NEW g \in Runtime, Retire(g) PROVE NoOrphanRoutes'
  <2>1. /\ UNCHANGED <<attached, routes, leaked>>
        /\ attached \in Runtime => runtime'[attached] = runtime[attached]
    BY <1>1, <1>11 DEF Retire, Types
  <2> QED
    BY <2>1, OwnedKept
<1>12. ASSUME NEW g \in Runtime, NEW t \in Token, Bind(g, t) \/ Discard(g, t)
       PROVE  NoOrphanRoutes'
  <2>1. PICK tokens \in SUBSET Token : Knows(g, tokens)
    BY <1>12, KnowsView
  <2>2. runtime' = [runtime EXCEPT ![g] = Compiled([runtime[g] EXCEPT !.known = tokens], config)]
        /\ UNCHANGED <<attached, routes, leaked>>
    BY <1>1, <2>1 DEF Knows, Types
  <2>3. \A x \in Runtime : /\ runtime'[x].path = runtime[x].path
                           /\ runtime'[x].route = runtime[x].route
                           /\ runtime'[x].wellKnown = runtime[x].wellKnown
                           /\ runtime'[x].wizard = runtime[x].wizard
    BY <1>1, <2>2, CompiledType DEF Types
  <2> QED
    BY <2>2, <2>3, OwnedKept
<1>13. CASE LifespanFails \/ DrainTimesOut
  <2>1. /\ attached \in Runtime /\ UNCHANGED <<attached, routes, leaked>>
        /\ runtime' = [runtime EXCEPT ![attached] =
                          [runtime[attached] EXCEPT !.lifespan = "ending"]]
    BY <1>13, EndingStep
  <2>2. /\ runtime'[attached].path = runtime[attached].path
        /\ runtime'[attached].route = runtime[attached].route
        /\ runtime'[attached].wellKnown = runtime[attached].wellKnown
        /\ runtime'[attached].wizard = runtime[attached].wizard
    BY <1>1, <2>1 DEF Types, RuntimeState
  <2> QED
    BY <2>1, <2>2, OwnedKept
<1> QED
  BY <1>2, <1>3, <1>4, <1>5, <1>6, <1>7, <1>8, <1>9, <1>10, <1>11, <1>12, <1>13 DEF Next, Update

(* Every route of ours can be unregistered or was registered before a later  *)
(* route of its group was found taken, whatever routes other plugins take    *)
(* and whenever they do.                                                     *)
THEOREM NoOrphanRoutesHolds == Spec => []NoOrphanRoutes
<1>1. Init => Endpoints /\ NoOrphanRoutes
  BY NotARuntime, RoutesOfPath DEF Init, Endpoints, NoOrphanRoutes, Ours
<1>2. Shape /\ Endpoints /\ NoOrphanRoutes /\ [Next]_vars => (Shape /\ Endpoints /\ NoOrphanRoutes)'
  BY NextShape, NextEndpoints, NextOwned
<1> QED
  BY <1>1, <1>2, InitShape, PTL DEF Spec

-------------------------------------------------------------------------------
(* Retention. *)

LEMMA AfterStopRetention ==
  ASSUME NEW kind, NEW c, NEW kept, commands, AfterStop(kind, c, kept), config' = c,
         kept = Retains(c, active)
  PROVE  RetentionFollows'
<1>1. CASE kind = "rebuild"
  BY <1>1 DEF AfterStop, RetentionFollows, Retains
<1>2. CASE kind = "restart"
  BY <1>2 DEF AfterStop, RetentionFollows, Retains
<1>3. CASE kind = "unload"
  BY <1>3 DEF AfterStop, RetentionFollows
<1> QED
  BY <1>1, <1>2, <1>3 DEF AfterStop

LEMMA StopRetention ==
  ASSUME NEW kind, NEW c, NEW kept, commands, Stop(kind, c, kept), config' = c,
         kept = Retains(c, active)
  PROVE  RetentionFollows'
<1>1. CASE runtime[attached].route
  BY <1>1 DEF Stop, RetentionFollows, Retains
<1>2. CASE ~runtime[attached].route
  BY <1>2, AfterStopRetention DEF Stop
<1> QED
  BY <1>1, <1>2

LEMMA NextRetention == Shape /\ RetentionFollows /\ [Next]_vars => RetentionFollows'
<1> SUFFICES ASSUME Shape, RetentionFollows, [Next]_vars PROVE RetentionFollows'
  OBVIOUS
<1>1. Types /\ Placed
  BY DEF Shape
<1>2. commands => listening = Retains(config, active)
  BY RetainsBoolean DEF RetentionFollows
<1>3. CASE BeginInit
  BY <1>3, RetainsBoolean DEF BeginInit, RetentionFollows, Retains
<1>4. CASE \/ MountEndpoint \/ WellKnownTaken \/ LifespanFails \/ DrainTimesOut
          \/ OtherPlugin \/ UNCHANGED vars
  <2>1. UNCHANGED <<config, commands, active, listening>>
    BY <1>4, EndingStep DEF MountEndpoint, WellKnownTaken, OtherPlugin, vars
  <2> QED
    BY <2>1 DEF RetentionFollows, Retains
<1>5. CASE EndpointTaken \/ LifespanEnds \/ RollbackEnds
  <2>1. Abort /\ op.at # "none"
    BY <1>5 DEF EndpointTaken, LifespanEnds, RollbackEnds, Starting
  <2>2. commands
    BY <2>1, Attached
  <2> QED
    BY <1>2, <2>1, <2>2 DEF Abort, RetentionFollows, Retains
<1>6. CASE StopEnds
  <2>1. commands
    BY <1>6, Attached DEF StopEnds
  <2> QED
    BY <1>2, <1>6, <2>1, AfterStopRetention DEF StopEnds
<1>7. CASE Unload
  <2>1. CASE attached # None
    BY <1>2, <1>7, <2>1, StopRetention DEF Unload
  <2>2. CASE attached = None
    BY <1>7, <2>2 DEF Unload, RetentionFollows
  <2> QED
    BY <2>1, <2>2
<1>8. CASE SaveUnloaded
  BY <1>8 DEF SaveUnloaded, RetentionFollows
<1>9. CASE SavePolicyKeys
  BY <1>9, RetainsBoolean DEF SavePolicyKeys, Save, RetentionFollows, Retains
<1>10. CASE SaveResourceKeys \/ SaveOtherKeys
  <2>1. commands /\ \E c, kind : Stop(kind, c, Retains(c, active)) /\ config' = c
    BY <1>10 DEF SaveResourceKeys, SaveOtherKeys, Save
  <2> QED
    BY <2>1, StopRetention
<1>11. CASE SaveDetached
  BY <1>11, RetainsBoolean DEF SaveDetached, Save, RetentionFollows, Retains
<1>12. ASSUME NEW g \in Runtime, Retire(g) PROVE RetentionFollows'
  BY <1>12 DEF Retire, RetentionFollows, Retains
<1>13. ASSUME NEW g \in Runtime, NEW t \in Token, Bind(g, t) \/ Discard(g, t)
       PROVE  RetentionFollows'
  <2>1. PICK tokens \in SUBSET Token : Knows(g, tokens)
    BY <1>13, KnowsView
  <2>2. CASE commands
    BY <2>1, <2>2, RetainsBoolean DEF Knows, RetentionFollows, Retains
  <2>3. CASE ~commands
    BY <2>1, <2>3 DEF Knows, RetentionFollows
  <2> QED
    BY <2>2, <2>3
<1> QED
  BY <1>3, <1>4, <1>5, <1>6, <1>7, <1>8, <1>9, <1>10, <1>11, <1>12, <1>13 DEF Next, Update

(* Events are retained exactly while somebody may read them. *)
THEOREM RetentionFollowsHolds == Spec => []RetentionFollows
<1>1. Init => RetentionFollows
  BY DEF Init, RetentionFollows
<1> QED
  BY <1>1, InitShape, NextShape, NextRetention, PTL DEF Spec
===============================================================================
