------------------------------- MODULE Preflight -------------------------------
(***************************************************************************)
(* The guards of a command that depend on its arguments (command_policy.py *)
(* from preflight_command on).  They are taken more than once: awaited in  *)
(* each authorization, synchronously when the call is authorized for the   *)
(* last time, and for a value that was read once more on the result.  MA's *)
(* config entries and setup flows change in between, any number of times.  *)
(***************************************************************************)

(* CommandDecision.preflight; the last two look at the arguments alone. *)
Kind ==
    {"config_secret_read", "config_secret_write", "config_flow_submit",
     "config_flow_abort", "storage_secret_write", "favorite_clear"}

VARIABLES
    kind,       \* the preflight of the command
    supplied,   \* arguments: a password, or no favorite
    type,       \* type of the config entry the arguments name, as MA has it
    flow,       \* scope of the setup flow they name
    stage,      \* how far the call is
    class,      \* CommandPreflight
    held,       \* type the value had when the command read or wrote it
    result,     \* what the caller of a read gets
    seen        \* history: entry and flow as the checks found them

preflightVars == <<kind, supplied, type, flow, stage, class, held, result, seen>>

Type == {"secure", "plain", "unknown", "missing"}

Flow == {"providers", "players", "other", "gone"}

(* _setup_flow_write_capability *)
FlowCapability(f) ==
    CASE f = "providers" -> {"write:provider"}
      [] f = "players" -> {"write:player"}
      [] OTHER -> {}

Secret == {"write:secret"}

NoClass == [secure |-> FALSE, required |-> {}]

(* Nothing looked at: the type before the seal, and at it what there was and *)
(* whether MA could tell the type without being waited for.                  *)
Unseen == [before |-> "missing", sealed |-> "missing", flow |-> "gone", proven |-> FALSE]

PreflightInit ==
    /\ kind \in Kind /\ supplied \in BOOLEAN
    /\ type \in Type /\ flow \in Flow
    /\ stage = "decided" /\ class = NoClass
    /\ held = "missing" /\ result = "none" /\ seen = Unseen

(* A provider is reloaded with other entries, a flow moves on or ends.  What *)
(* changes after the call has ended is none of its concern.                  *)
Move ==
    /\ stage \notin {"done", "refused"}
    /\ \/ type' \in Type /\ UNCHANGED flow
       \/ flow' \in Flow /\ UNCHANGED type
    /\ UNCHANGED <<kind, supplied, stage, class, held, result, seen>>

(* A value whose type MA does not tell is not read at all. *)
Unclassifiable == kind = "config_secret_read" /\ type \in {"unknown", "missing"}

NoFlow == kind \in {"config_flow_submit", "config_flow_abort"} /\ FlowCapability(flow) = {}

FromArguments == [NoClass EXCEPT !.required =
    CASE ~supplied -> {}
      [] supplied /\ kind = "favorite_clear" -> {"delete:favorites"}
      [] supplied /\ kind = "storage_secret_write" -> Secret]

SecretWrite == IF type = "secure" THEN Secret ELSE {}

(* preflight_command *)
Classified ==
    CASE kind = "config_secret_read" -> [NoClass EXCEPT !.secure = (type = "secure")]
      [] kind = "config_secret_write" -> [NoClass EXCEPT !.required = SecretWrite]
      [] kind = "config_flow_submit" ->
            [NoClass EXCEPT !.required = FlowCapability(flow) \cup SecretWrite]
      [] kind = "config_flow_abort" -> [NoClass EXCEPT !.required = FlowCapability(flow)]
      [] kind \in {"storage_secret_write", "favorite_clear"} -> FromArguments

(* revalidate_preflight_command_sync.  `proven` is FALSE when MA's getter has *)
(* to be awaited and so proves nothing: a read or write of the config keeps   *)
(* its class then, and the entries of a flow count as secret.  A type MA does *)
(* not tell leaves the class of a read as it is.                              *)
Reclassified(proven) ==
    CASE kind = "config_secret_read" ->
            IF ~proven \/ type \in {"unknown", "missing"} THEN class
            ELSE [NoClass EXCEPT !.secure = (type = "secure")]
      [] kind = "config_secret_write" ->
            IF proven THEN [NoClass EXCEPT !.required = SecretWrite] ELSE class
      [] kind = "config_flow_submit" ->
            [NoClass EXCEPT !.required =
                FlowCapability(flow) \cup (IF proven THEN SecretWrite ELSE Secret)]
      [] kind = "config_flow_abort" -> [NoClass EXCEPT !.required = FlowCapability(flow)]
      [] kind \in {"storage_secret_write", "favorite_clear"} -> FromArguments

(* Awaited, before each prompt and once more before the last authentication; *)
(* what cannot be classified ends the call.                                  *)
CheckBefore ==
    /\ stage \in {"decided", "checked"}
    /\ stage' = IF Unclassifiable \/ NoFlow THEN "refused" ELSE "checked"
    /\ class' = IF Unclassifiable \/ NoFlow THEN NoClass ELSE Classified
    /\ seen' = [seen EXCEPT !.before = type]
    /\ UNCHANGED <<kind, supplied, type, flow, held, result>>

Seal(proven) == seen' = [seen EXCEPT !.sealed = type, !.flow = flow, !.proven = proven]

(* Mutant: a flow that was found once keeps its class. *)
CheckAgainKeeping ==
    /\ stage = "checked"
    /\ stage' = IF NoFlow THEN "refused" ELSE "sealed"
    /\ \E proven \in BOOLEAN :
          /\ class' = CASE NoFlow -> NoClass
                        [] ~NoFlow /\ kind = "config_flow_abort" -> class
                        [] ~NoFlow /\ kind # "config_flow_abort" -> Reclassified(proven)
          /\ Seal(proven)
    /\ UNCHANGED <<kind, supplied, type, flow, held, result>>

(* After the last authentication, in one step with the start of the command. *)
CheckAgain ==
    /\ stage = "checked"
    /\ stage' = IF NoFlow THEN "refused" ELSE "sealed"
    /\ \E proven \in BOOLEAN :
          /\ class' = IF NoFlow THEN NoClass ELSE Reclassified(proven)
          /\ Seal(proven)
    /\ UNCHANGED <<kind, supplied, type, flow, held, result>>

(* The command reads or writes, after awaits of its own. *)
Execute ==
    /\ stage = "sealed" /\ stage' = "executed" /\ held' = type
    /\ UNCHANGED <<kind, supplied, type, flow, class, result, seen>>

(* Mutant: the class from before the call is all that is looked at. *)
SanitizeByClass ==
    /\ stage = "executed" /\ stage' = "done"
    /\ result' = IF kind = "config_secret_read" /\ class.secure THEN "masked" ELSE "plain"
    /\ UNCHANGED <<kind, supplied, type, flow, class, held, seen>>

(* postflight_command: a read is masked if its value was secure then or is    *)
(* now, and fails if that cannot be told any longer.                          *)
Sanitize ==
    /\ stage = "executed" /\ stage' = "done"
    /\ result' = CASE kind # "config_secret_read" -> "plain"
                   [] Unclassifiable -> "failed"
                   [] kind = "config_secret_read" /\ ~Unclassifiable ->
                        IF class.secure \/ type = "secure" THEN "masked" ELSE "plain"
    /\ UNCHANGED <<kind, supplied, type, flow, class, held, seen>>

PreflightNext == Move \/ CheckBefore \/ CheckAgain \/ Execute \/ Sanitize

PreflightSpec == PreflightInit /\ [][PreflightNext]_preflightVars

(***************************************************************************)
(* Properties.                                                             *)
(***************************************************************************)
PreflightTypeOK ==
    /\ kind \in Kind /\ supplied \in BOOLEAN /\ type \in Type /\ flow \in Flow
    /\ stage \in {"decided", "checked", "sealed", "executed", "done", "refused"}
    /\ class.secure \in BOOLEAN
    /\ class.required \subseteq Secret \cup {"write:provider", "write:player",
                                             "delete:favorites"}
    /\ held \in Type /\ result \in {"none", "plain", "masked", "failed"}
    /\ seen \in [before : Type, sealed : Type, flow : Flow, proven : BOOLEAN]

(* The type a config value was last known to have before the command ran: at *)
(* the seal if MA told it there, or else before the last authentication.     *)
Judged ==
    IF seen.proven /\ (kind = "config_secret_read" => seen.sealed \in {"secure", "plain"})
    THEN seen.sealed ELSE seen.before

(* Whatever entries and flows do while the call runs, the class it is         *)
(* authorized under fits what the last look found.  A flow that moved since   *)
(* the prompt needs the capability for where it is at the seal, not where it  *)
(* was, and a secret if it asks for one there; a write to a config value that *)
(* was last known for a secret needs the capability for secrets; and a secret *)
(* that was read is shown only if its value became one after the last look    *)
(* and ceased to be one before the result was sanitized (command_policy.py:   *)
(* "a key's entry type is static per provider").                              *)
ClassHolds ==
    /\ stage \in {"sealed", "executed", "done"} =>
          /\ kind \in {"config_flow_submit", "config_flow_abort"} =>
                /\ FlowCapability(seen.flow) # {}
                /\ FlowCapability(seen.flow) \subseteq class.required
          /\ kind = "config_flow_submit" /\ seen.sealed = "secure" => Secret \subseteq class.required
          /\ kind = "config_secret_write" /\ Judged = "secure" => Secret \subseteq class.required
    /\ kind = "config_secret_read" /\ result = "plain" /\ held = "secure" =>
          Judged # "secure" /\ type # "secure"
===============================================================================
