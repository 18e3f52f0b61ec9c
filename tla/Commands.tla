------------------------------- MODULE Commands -------------------------------
(***************************************************************************)
(* The provider's own Music Assistant (MA) commands (commands/): they are  *)
(* registered and withdrawn as one set, and each of them guards itself,    *)
(* because MA also offers them to callers the MCP dispatcher never sees.   *)
(* A command in Confirm mode is admitted on a grant the dispatcher leaves  *)
(* in a context variable while it runs the command for a user who          *)
(* accepted; tasks spawned meanwhile inherit the variable.                 *)
(*                                                                         *)
(* Registration and withdrawal are loops, one step of MA after the other,  *)
(* each of which may fail; they contain no await, so nothing else happens  *)
(* until the set rests again.  The guard contains none either; a command   *)
(* awaits between its guard and its outcome.                               *)
(***************************************************************************)
EXTENDS Naturals, Sequences, FiniteSets

CONSTANTS
    Definition,     \* the provider's commands, in registration order
    Diagnostics,    \* commands refused to users with target filters
    Targeted,       \* commands whose arguments the filters apply to
    Dispatcher,     \* tasks that run the MCP dispatcher
    Spawned,        \* tasks a running handler starts
    Native,         \* tasks of MA's own API
    MaxGrants,      \* bound: accepted prompts
    MaxSaves        \* bound: policy saves

CommandName == {Definition[i] : i \in DOMAIN Definition}

Task == Dispatcher \cup Spawned \cup Native

NoCommand == "none"

ASSUME CommandsAssumption ==
    /\ Definition \in Seq(CommandName) /\ Definition # <<>>
    /\ \A i, j \in DOMAIN Definition : Definition[i] = Definition[j] => i = j
    /\ NoCommand \notin CommandName
    /\ Diagnostics \subseteq CommandName /\ Targeted \subseteq CommandName
    /\ Dispatcher \cap Spawned = {} /\ Dispatcher \cap Native = {} /\ Spawned \cap Native = {}
    /\ MaxGrants \in Nat /\ MaxSaves \in Nat

VARIABLES
    phase,      \* where start() or stop() is, "rest" outside of both
    started,    \* ProviderCommandSet._unregister is not empty
    callbacks,  \* how many callbacks the loop, or the set, has: the first ones
    installed,  \* commands MA has of us
    stuck,      \* those whose withdrawal raised
    mode,       \* command -> mode of its capability under the live policy
    secured,    \* require_auth, read from the live configuration
    grant,      \* the grants made so far
    carried,    \* task -> the grant its context carries, 0 for none
    running,    \* dispatcher -> what it is executing
    task,       \* task -> the invocation it is in
    saves       \* policy saves so far

setVars == <<phase, started, callbacks, installed, stuck>>

callVars == <<mode, secured, grant, carried, running, task, saves>>

commandVars == <<setVars, callVars>>

Phase == {"rest", "registering", "unwinding", "withdrawing"}

Mode == {"deny", "allow", "confirm"}

(* A caller as the guard sees it: who it is, and whether it has no filters,   *)
(* one the arguments keep to or not, or the access records of its music       *)
(* sources only.  Nobody has no filters.                                      *)
Standing == {"unknown", "disabled", "unscoped", "tokenless", "known"}

Caller ==
    {c \in [standing : Standing, reach : {"free", "within", "outside", "sourced"}] :
        c.standing = "unknown" => c.reach = "free"}

(* What the user was asked about and accepted before an execution: nothing,   *)
(* another capability than the command's own, or that one as well.            *)
Accepted == {"nothing", "another", "own"}

Resting == [command |-> NoCommand, accepted |-> "nothing"]

Execution == [command : CommandName, accepted : Accepted] \cup {Resting}

Grant == [command : CommandName, owner : Dispatcher, covers : BOOLEAN, active : BOOLEAN]

(* A running invocation, with the mode it was admitted under; of one that     *)
(* ended only the trace it left is kept.                                      *)
Invocation ==
    [command : CommandName \cup {NoCommand}, entered : Mode,
     records : Nat, outcome : {"none", "denied", "returned"}]

Quiet ==
    [command |-> NoCommand, entered |-> "deny",
     records |-> 0, outcome |-> "none"]

CommandsInit ==
    /\ phase = "rest" /\ started = FALSE /\ callbacks = 0
    /\ installed = {} /\ stuck = {}
    /\ mode \in [CommandName -> Mode] /\ secured \in BOOLEAN
    /\ grant = <<>>
    /\ carried = [t \in Task |-> 0]
    /\ running = [t \in Dispatcher |-> Resting]
    /\ task = [t \in Task |-> Quiet]
    /\ saves = 0

(***************************************************************************)
(* The set as a whole.                                                     *)
(***************************************************************************)
Start ==
    /\ phase = "rest" /\ ~started
    /\ phase' = "registering" /\ callbacks' = 0
    /\ UNCHANGED <<started, installed, stuck, callVars>>

(* MA takes the next command and hands out the callback that withdraws it; a  *)
(* name it still has it refuses.                                              *)
Register ==
    /\ phase = "registering" /\ callbacks < Len(Definition)
    /\ Definition[callbacks + 1] \notin installed
    /\ installed' = installed \cup {Definition[callbacks + 1]}
    /\ callbacks' = callbacks + 1
    /\ UNCHANGED <<phase, started, stuck, callVars>>

(* The event buffer is configured and the callbacks are kept. *)
Started ==
    /\ phase = "registering" /\ callbacks = Len(Definition)
    /\ phase' = "rest" /\ started' = TRUE
    /\ UNCHANGED <<callbacks, installed, stuck, callVars>>

(* A registration or the configuration of the buffer raises. *)
StartFails ==
    /\ phase = "registering"
    /\ phase' = "unwinding"
    /\ UNCHANGED <<started, callbacks, installed, stuck, callVars>>

(* stop() takes the callbacks out of the set before it calls any of them. *)
Stop ==
    /\ phase = "rest" /\ started
    /\ phase' = "withdrawing" /\ started' = FALSE
    /\ UNCHANGED <<callbacks, installed, stuck, callVars>>

(* Mutant: the first callback that raises ends the loop. *)
WithdrawUntilFailure ==
    /\ phase \in {"unwinding", "withdrawing"} /\ callbacks > 0
    /\ \/ /\ installed' = installed \ {Definition[callbacks]}
          /\ callbacks' = callbacks - 1 /\ UNCHANGED stuck
       \/ /\ stuck' = stuck \cup {Definition[callbacks]}
          /\ callbacks' = 0 /\ UNCHANGED installed
    /\ UNCHANGED <<phase, started, callVars>>

(* The last callback left is called: MA gives the command up, or the call     *)
(* raises, which is passed over until the loop is through.                    *)
Withdraw ==
    /\ phase \in {"unwinding", "withdrawing"} /\ callbacks > 0
    /\ callbacks' = callbacks - 1
    /\ \/ installed' = installed \ {Definition[callbacks]} /\ UNCHANGED stuck
       \/ stuck' = stuck \cup {Definition[callbacks]} /\ UNCHANGED installed
    /\ UNCHANGED <<phase, started, callVars>>

(* start() raises what failed it, stop() the first failure it met, if any. *)
Withdrawn ==
    /\ phase \in {"unwinding", "withdrawing"} /\ callbacks = 0
    /\ phase' = "rest"
    /\ UNCHANGED <<started, callbacks, installed, stuck, callVars>>

SetNext == Start \/ Register \/ Started \/ StartFails \/ Stop \/ Withdraw \/ Withdrawn

SaveModes ==
    /\ saves < MaxSaves /\ saves' = saves + 1
    /\ mode' \in [CommandName -> Mode] /\ secured' \in BOOLEAN
    /\ UNCHANGED <<setVars, grant, carried, running, task>>

(***************************************************************************)
(* The dispatcher around a command, confirmation_context.                  *)
(***************************************************************************)
IdleTask(t) == task[t].command = NoCommand

(* The dispatcher executes a command; what its user accepted is granted. *)
Dispatch(t, m, accepted) ==
    /\ running[t] = Resting /\ IdleTask(t)
    /\ running' = [running EXCEPT ![t] = [command |-> m, accepted |-> accepted]]
    /\ IF accepted = "nothing"
       THEN UNCHANGED <<grant, carried>>
       ELSE /\ Len(grant) < MaxGrants
            /\ grant' = Append(grant, [command |-> m, owner |-> t,
                                       covers |-> accepted = "own", active |-> TRUE])
            /\ carried' = [carried EXCEPT ![t] = Len(grant) + 1]
    /\ UNCHANGED <<setVars, mode, secured, task, saves>>

(* Mutant: what the user accepted outlives the execution. *)
DispatchEndsAccepted(t) ==
    /\ running[t] # Resting /\ IdleTask(t)
    /\ running' = [running EXCEPT ![t].command = NoCommand]
    /\ IF running[t].accepted = "nothing"
       THEN UNCHANGED <<grant, carried>>
       ELSE /\ grant' = [grant EXCEPT ![carried[t]].active = FALSE]
            /\ carried' = [carried EXCEPT ![t] = 0]
    /\ UNCHANGED <<setVars, mode, secured, task, saves>>

(* The finally of the scope: its grant is revoked, the context restored. *)
DispatchEnds(t) ==
    /\ running[t] # Resting /\ IdleTask(t)
    /\ running' = [running EXCEPT ![t] = Resting]
    /\ IF running[t].accepted = "nothing"
       THEN UNCHANGED <<grant, carried>>
       ELSE /\ grant' = [grant EXCEPT ![carried[t]].active = FALSE]
            /\ carried' = [carried EXCEPT ![t] = 0]
    /\ UNCHANGED <<setVars, mode, secured, task, saves>>

(* A handler starts a task, which gets a copy of its context. *)
Spawn(t, s) ==
    /\ running[t] # Resting /\ IdleTask(s)
    /\ carried' = [carried EXCEPT ![s] = carried[t]]
    /\ UNCHANGED <<setVars, mode, secured, grant, running, task, saves>>

(* Mutant: whoever carries the grant may use it. *)
ConfirmedByAnyone(t, m) ==
    LET g == carried[t] IN g # 0 /\ grant[g].command = m /\ grant[g].covers

(* capability_was_confirmed: the grant is active, made for this command and  *)
(* its capability, and this task owns it.                                    *)
Confirmed(t, m) ==
    LET g == carried[t]
    IN  /\ g # 0 /\ grant[g].active /\ grant[g].owner = t
        /\ grant[g].command = m /\ grant[g].covers

(***************************************************************************)
(* One invocation.                                                         *)
(***************************************************************************)

(* user_has_target_filters: the dispatcher's callers bring the filter of     *)
(* their music sources with them, MA's own do not.                           *)
HasFilters(t, caller) ==
    caller.reach \in {"within", "outside"} \/ (caller.reach = "sourced" /\ t \notin Native)

(* _guard with authorize_extension.  Where no authentication is required,    *)
(* user, scope and token are not asked for, policy and filters still apply.  *)
Admitted(t, m, caller) ==
    /\ secured => caller.standing = "known"
    /\ mode[m] = "allow" \/ (mode[m] = "confirm" /\ Confirmed(t, m))
    /\ m \in Targeted => caller.reach # "outside"
    /\ m \in Diagnostics => ~HasFilters(t, caller)

(* A denial is audited and raised; an admitted command runs. *)
Invoke(t, m) ==
    /\ IdleTask(t) /\ m \in installed
    /\ \E caller \in Caller :
          task' = [task EXCEPT ![t] =
              IF Admitted(t, m, caller)
              THEN [Quiet EXCEPT !.command = m, !.entered = mode[m]]
              ELSE [Quiet EXCEPT !.records = 1, !.outcome = "denied"]]
    /\ UNCHANGED <<setVars, mode, secured, grant, carried, running, saves>>

(* Mutant: an except clause that misses cancellation. *)
ReturnsUncancelled(t) ==
    /\ ~IdleTask(t)
    /\ \E recorded \in {0, 1} :
          task' = [task EXCEPT ![t] = [Quiet EXCEPT !.records = recorded,
                                                    !.outcome = "returned"]]
    /\ UNCHANGED <<setVars, mode, secured, grant, carried, running, saves>>

(* _execute_audited: the command returns, raises or is cancelled.  All our    *)
(* capabilities are privileged, so each outcome is recorded.                  *)
Returns(t) ==
    /\ ~IdleTask(t)
    /\ task' = [task EXCEPT ![t] = [Quiet EXCEPT !.records = task[t].records + 1,
                                                 !.outcome = "returned"]]
    /\ UNCHANGED <<setVars, mode, secured, grant, carried, running, saves>>

CallsNext ==
    \/ SaveModes
    \/ \E t \in Dispatcher : DispatchEnds(t)
    \/ \E t \in Dispatcher, m \in CommandName, a \in Accepted : Dispatch(t, m, a)
    \/ \E t \in Dispatcher, s \in Spawned : Spawn(t, s)
    \/ \E t \in Task, m \in CommandName : Invoke(t, m)
    \/ \E t \in Task : Returns(t)

CommandsNext == SetNext \/ (phase = "rest" /\ CallsNext)

CommandsSpec == CommandsInit /\ [][CommandsNext]_commandVars

(***************************************************************************)
(* Properties.                                                             *)
(***************************************************************************)
CommandsTypeOK ==
    /\ phase \in Phase /\ started \in BOOLEAN
    /\ callbacks \in 0 .. Len(Definition)
    /\ installed \subseteq CommandName /\ stuck \subseteq CommandName
    /\ mode \in [CommandName -> Mode] /\ secured \in BOOLEAN
    /\ grant \in Seq(Grant) /\ Len(grant) <= MaxGrants
    /\ carried \in [Task -> 0 .. Len(grant)]
    /\ running \in [Dispatcher -> Execution]
    /\ task \in [Task -> Invocation]
    /\ saves \in 0 .. MaxSaves

(* Wherever a start or a stop fails, and however many of its withdrawals do,  *)
(* MA is left with the whole set or with nothing of it but the names whose    *)
(* own withdrawal raised, and a set that is whole has no such name            *)
(* (registry.py: "restoring the previous state on partial failure").          *)
AllOrNothing ==
    phase = "rest" =>
        /\ installed = (IF started THEN CommandName ELSE stuck)
        /\ started => stuck = {}

(* Wherever it ends, an invocation leaves exactly one audit record, also if  *)
(* it is cancelled.                                                          *)
CommandAudited ==
    \A t \in Task :
        task[t].records = (IF task[t].outcome = "none" THEN 0 ELSE 1)

(* A command admitted on a confirmation runs in the dispatcher's own task,   *)
(* inside an execution whose user accepted its very capability, whatever     *)
(* tasks were spawned, policies saved or grants left in contexts meanwhile.  *)
ConfirmedInDispatch ==
    \A t \in Task :
        task[t].entered = "confirm"
        => /\ t \in Dispatcher
           /\ running[t] = [command |-> task[t].command, accepted |-> "own"]
===============================================================================
