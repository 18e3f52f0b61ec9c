------------------------------ MODULE Invocation ------------------------------
(***************************************************************************)
(* One tool call of the MCP server, from DynamicAPIAdapter._call to the    *)
(* end of the Music Assistant (MA) command it dispatches.                  *)
(*                                                                         *)
(* The server is one asyncio loop: the code between two awaits is atomic,  *)
(* and at every await anything may happen to the state the authorization   *)
(* is decided on.  A step of this module is such a segment, or the moment  *)
(* inside MA at which an awaited read takes its snapshot; the environment  *)
(* steps are the policy save, the token registry, the MA account and       *)
(* handler registries and the setup flows changing underneath.             *)
(***************************************************************************)
EXTENDS PolicyModes, Naturals

CONSTANTS
    Calls,          \* tool calls
    Bearer,         \* MA long-lived tokens
    Command,        \* canonical MA commands
    Handler,        \* handler objects that can be registered for a command
    None,           \* no handler registered, or no identity resolved
    Unknown,        \* stands for what a gone or unknown setup flow needs
    Policies,       \* the policies an administrator can save
    SafeQueries,    \* the policy of a bearer the registry does not know
    Required,       \* Command -> required capabilities
    Alternatives,   \* Command -> any-of capabilities
    Preflight,      \* Command -> "none", "entries" or "flow"
    Categories,     \* Command -> the classifications a preflight may return
    SecretWrite,    \* capability config:write_secret
    Impersonable,   \* commands whose handler takes a user to act as
    Audited,        \* privileged commands the dispatcher itself audits
    MaxChanges      \* bound on the changes of the environment

VARIABLES
    live,       \* bearers MA still accepts
    bound,      \* bearers the token registry holds an exact identity for
    account,    \* bearer -> standing of its MA user
    target,     \* standing of the user an impersonating call names
    policy,     \* bearer -> policy its token id resolves to
    handler,    \* command -> registered handler
    category,   \* command -> what its preflight would find now
    changes,    \* environment changes so far
    call        \* per call: where it is and what it holds

environment == <<live, bound, account, target, policy, handler, category, changes>>
vars == <<live, bound, account, target, policy, handler, category, changes, call>>

(* A preflight that finds no flow of a known scope classifies nothing. *)
Unclassified == {Unknown}

(* CommandPreflight.additional_required. *)
Class == (SUBSET Capability) \cup {Unclassified}

(***************************************************************************)
(* A user as one request sees it: "granted" may run the command on these   *)
(* targets, "filtered" has the scope but a target filter refuses the       *)
(* arguments, "unscoped" lacks the scope, "disabled" is no identity.       *)
(***************************************************************************)
Account == {"granted", "filtered", "unscoped", "disabled"}

ASSUME InvocationAssumption ==
    /\ Bearer # {} /\ Command # {}
    /\ Policies \subseteq Policy
    /\ SafeQueries \in Policy
    /\ Required \in [Command -> SUBSET Capability]
    /\ Alternatives \in [Command -> SUBSET Capability]
    /\ Preflight \in [Command -> {"none", "entries", "flow"}]
    /\ Categories \in [Command -> SUBSET Class]
    /\ SecretWrite \in Capability
    /\ Unknown \notin Reason
    /\ None \notin Handler \cup Account
    /\ Impersonable \subseteq Command
    /\ Audited \subseteq Command
    /\ MaxChanges \in Nat

HasScope(user) == user \in {"granted", "filtered"}

(* Phases of _call: the catalog lookup, the three possible authorizations  *)
(* (first, after the first prompt, after the second) and the final one.    *)
Phase == {"idle", "visible", "first", "second", "third", "final", "run", "ended"}

(* Within a phase, the await the call stands at ("user": asking MA for the *)
(* user of the token, "id": for the token's id, ...) or the value it       *)
(* resumes with ("authenticated", "resolved", "classified").               *)
Step == {"user", "id", "authenticated", "target", "resolved", "preflight",
         "classified", "elicit", "handler", "postflight", "none"}

Outcome == {"denied", "requested", "accepted", "declined", "unsupported",
            "failed", "succeeded"}

Result == {"pending", "denied", "invalid", "unconfirmed", "error", "timeout",
           "cancelled", "failed", "refused", "succeeded"}

CallState ==
    [phase : Phase, step : Step, bearer : Bearer, command : Command,
     impersonating : BOOLEAN,
     entry : Handler \cup {None},                 \* DynamicEntry.handler
     got : Account \cup {None},                   \* snapshot an await returned
     auth : Account \cup {None},                  \* the authenticated user
     class : Class,                               \* what the preflight found
     asked : SUBSET Reason,                       \* reasons in the open prompt
     evidence : SUBSET Reason,                    \* reasons the user accepted
     started : BOOLEAN,                           \* execution_started
     result : Result,
     audit : [Outcome -> Nat]]                    \* audit records, by outcome

(***************************************************************************)
(* Shared pieces of the handlers.                                          *)
(***************************************************************************)

(* AuthenticatedPolicyResolver.resolve: an unbound bearer gets Safe queries. *)
RequestPolicy(bearer) == IF bound[bearer] THEN policy[bearer] ELSE SafeQueries

(* EffectiveMode of a call's command with preflight class. *)
CallMode(r, class) ==
    EffectiveMode(RequestPolicy(r.bearer), Required[r.command] \cup class,
                  Alternatives[r.command])

EvidenceOf(r, class) ==
    ConfirmationEvidence(RequestPolicy(r.bearer), Required[r.command] \cup class,
                         Alternatives[r.command], r.impersonating)

(* _reauthorize_entry: the entry's handler is still the registered one, the *)
(* user is enabled and in scope, and the fixed capabilities are not denied. *)
EntryHolds(r) ==
    /\ handler[r.command] = r.entry
    /\ r.entry # None
    /\ HasScope(r.auth)
    /\ CallMode(r, {}) # "deny"

(* The target filters apply to the user the call acts as. *)
FiltersHold(r) ==
    IF r.impersonating THEN r.got = "granted" ELSE r.auth = "granted"

Recorded(r, outcome) == [r EXCEPT !.audit[outcome] = @ + 1]

At(c, phase, step) == call[c].phase = phase /\ call[c].step = step

Become(c, r) == call' = [call EXCEPT ![c] = r] /\ UNCHANGED environment

Advance(r, phase, step) == [r EXCEPT !.phase = phase, !.step = step]

(* Between the phases only the entry, the identity and the evidence are     *)
(* kept: what was read before is not used again.                            *)
Ended(r, result) ==
    [r EXCEPT !.phase = "ended", !.step = "none", !.result = result,
              !.got = None, !.auth = None, !.class = {}, !.asked = {}]

Denied(r) == Ended(Recorded(r, "denied"), "denied")

AuthorizePhase == {"first", "second", "third"}

(***************************************************************************)
(* Initial state: MA and the plugin are up and nothing is in flight.       *)
(***************************************************************************)
IdleCall ==
    [phase |-> "idle", step |-> "none",
     bearer |-> CHOOSE b \in Bearer : TRUE, command |-> CHOOSE m \in Command : TRUE,
     impersonating |-> FALSE, entry |-> None, got |-> None, auth |-> None,
     class |-> {}, asked |-> {}, evidence |-> {}, started |-> FALSE,
     result |-> "pending", audit |-> [o \in Outcome |-> 0]]

Init ==
    /\ live = [b \in Bearer |-> TRUE]
    /\ bound = [b \in Bearer |-> TRUE]
    /\ account = [b \in Bearer |-> "granted"]
    /\ target = "granted"
    /\ policy \in [Bearer -> Policies]
    /\ handler \in [Command -> Handler]
    /\ category \in {f \in [Command -> UNION {Categories[m] : m \in Command}] :
                       \A m \in Command : f[m] \in Categories[m]}
    /\ changes = 0
    /\ call = [c \in Calls |-> IdleCall]

(***************************************************************************)
(* The environment between two steps of a call.                            *)
(***************************************************************************)
Change == changes < MaxChanges /\ changes' = changes + 1 /\ UNCHANGED call

(* A policy-only save swaps the resolver; _refresh_policy_resolver. *)
SavePolicy(b) ==
    /\ Change
    /\ \E p \in Policies : policy' = [policy EXCEPT ![b] = p]
    /\ UNCHANGED <<live, bound, account, target, handler, category>>

(* MA revokes a long-lived token; the registry is not told. *)
Revoke(b) ==
    /\ Change
    /\ live' = [live EXCEPT ![b] = FALSE]
    /\ UNCHANGED <<bound, account, target, policy, handler, category>>

(* Another request verifies the same bearer, or the registry evicts it: the *)
(* binding is set only for a bearer MA accepts, and can go at any time.     *)
Rebind(b) ==
    /\ Change
    /\ \/ bound' = [bound EXCEPT ![b] = FALSE]
       \/ live[b] /\ bound' = [bound EXCEPT ![b] = TRUE]
    /\ UNCHANGED <<live, account, target, policy, handler, category>>

(* An administrator edits the caller or the user it may act as. *)
EditUsers ==
    /\ Change
    /\ \/ /\ \E b \in Bearer, a \in Account : account' = [account EXCEPT ![b] = a]
          /\ UNCHANGED target
       \/ /\ \E a \in Account : target' = a
          /\ UNCHANGED account
    /\ UNCHANGED <<live, bound, policy, handler, category>>

(* A provider (un)loads: its commands are registered with new handlers. *)
Reregister(m) ==
    /\ Change
    /\ \E h \in Handler \cup {None} : handler' = [handler EXCEPT ![m] = h]
    /\ UNCHANGED <<live, bound, account, target, policy, category>>

(* The setup flow or the config entries the arguments refer to move on. *)
Reclassify(m) ==
    /\ Change
    /\ \E k \in Categories[m] : category' = [category EXCEPT ![m] = k]
    /\ UNCHANGED <<live, bound, account, target, policy, handler>>

Environment ==
    \/ \E b \in Bearer : SavePolicy(b) \/ Revoke(b) \/ Rebind(b)
    \/ EditUsers
    \/ \E m \in Command : Reregister(m) \/ Reclassify(m)

(***************************************************************************)
(* The pipeline.  Each action is the code between two awaits, or the read  *)
(* an await performs inside MA.                                            *)
(***************************************************************************)

(* call -> _call -> catalog_context: the entry is taken from the snapshot of *)
(* the live registry, then the request's identity is resolved.  The HTTP     *)
(* layer has verified the bearer, so it is accepted and bound.               *)
Arrive(c) ==
    /\ call[c].phase = "idle"
    /\ \E b \in Bearer, m \in Command, act \in BOOLEAN :
          /\ live[b] /\ bound[b]
          /\ act => m \in Impersonable
          /\ Become(c, [call[c] EXCEPT !.phase = "visible", !.step = "user",
                                       !.bearer = b, !.command = m,
                                       !.impersonating = act,
                                       !.entry = handler[m]])

(* _authentication, first await: MA returns the token's user, or nothing    *)
(* when the token is revoked, the user disabled or the lookup failing.      *)
LookUpUser(c) ==
    LET r == call[c]
        user == IF live[r.bearer] /\ account[r.bearer] # "disabled"
                THEN account[r.bearer] ELSE None
    IN  /\ r.step = "user"
        /\ \E found \in {user, None} :
              Become(c, [r EXCEPT !.step = "id", !.got = found])

(* Mutant: the snapshot of the first await outlives the second. *)
LookUpTokenIdKeepingSnapshot(c) ==
    LET r == call[c]
        user == IF bound[r.bearer] /\ live[r.bearer] THEN r.got ELSE None
    IN  /\ r.step = "id"
        /\ \E found \in {user, None} :
              Become(c, [r EXCEPT !.step = "authenticated", !.auth = found])

(* _authentication, second half: the identity bound to the bearer is read,  *)
(* then MA is asked for the token's id, and both must agree with the user.  *)
(* No step in between can make the pair valid that is not valid here.       *)
LookUpTokenId(c) ==
    LET r == call[c]
        user == IF bound[r.bearer] /\ live[r.bearer] THEN r.got ELSE None
    IN  /\ r.step = "id"
        /\ \E found \in {user, None} :
              Become(c, [r EXCEPT !.step = "authenticated", !.auth = found, !.got = None])

(* No identity: every phase records one denial and stops. *)
Unauthenticated(c) ==
    /\ call[c].step = "authenticated" /\ call[c].auth = None
    /\ Become(c, Denied(call[c]))

(* catalog_context filters by scope and policy; a hidden name is denied. *)
ResolveEntry(c) ==
    LET r == call[c]
        visible == r.entry # None /\ HasScope(r.auth) /\ CallMode(r, {}) # "deny"
    IN  /\ At(c, "visible", "authenticated") /\ r.auth # None
        /\ Become(c, IF visible THEN Advance(r, "first", "user") ELSE Denied(r))

(* _call rejects arguments that do not match the schema, without a record. *)
InvalidArguments(c) ==
    /\ At(c, "first", "authenticated") /\ call[c].auth # None
    /\ Become(c, Ended(call[c], "invalid"))

(* _authorize_call up to its first await. *)
BeginAuthorize(c) ==
    LET r == call[c]
    IN  /\ r.phase \in AuthorizePhase /\ r.step = "authenticated" /\ r.auth # None
        /\ Become(c, IF ~EntryHolds(r) THEN Denied(r)
                     ELSE IF r.impersonating THEN [r EXCEPT !.step = "target"]
                     ELSE IF ~FiltersHold(r) THEN Denied(r)
                     ELSE [r EXCEPT !.step = "preflight"])

(* _resolve_impersonated_user: MA reads the user to act as. *)
LookUpTarget(c) ==
    /\ call[c].step = "target"
    /\ Become(c, [call[c] EXCEPT !.step = "resolved", !.got = target])

(* A target that is gone, out of scope or filtered ends the authorization. *)
ResolveTarget(c) ==
    LET r == call[c]
    IN  /\ r.phase \in AuthorizePhase /\ r.step = "resolved"
        /\ Become(c, IF FiltersHold(r) THEN [r EXCEPT !.step = "preflight"] ELSE Denied(r))

(* preflight_command: the live flow or config entries are classified. *)
Classify(c) ==
    LET r == call[c]
    IN  /\ r.step = "preflight"
        /\ Become(c, [r EXCEPT !.step = "classified",
                               !.class = IF Preflight[r.command] = "none" THEN {}
                                         ELSE category[r.command]])

(* _authorize_call after its last await: everything is checked again. *)
Authorized(r) ==
    /\ r.class # Unclassified
    /\ EntryHolds(r)
    /\ FiltersHold(r)
    /\ CallMode(r, r.class) # "deny"

Confirmed(r) == EvidenceOf(r, r.class) \subseteq r.evidence

RefuseAuthorization(c) ==
    /\ call[c].phase \in AuthorizePhase /\ call[c].step = "classified"
    /\ ~Authorized(call[c])
    /\ Become(c, Denied(call[c]))

(* _confirm: audit the request and elicit; a third prompt is never made. *)
Prompt(c) ==
    LET r == call[c]
    IN  /\ r.phase \in {"first", "second"} /\ r.step = "classified"
        /\ Authorized(r) /\ ~Confirmed(r)
        /\ Become(c, [Recorded(r, "requested") EXCEPT
                         !.step = "elicit", !.asked = EvidenceOf(r, r.class)])

(* Nothing (more) to confirm: re-authorize after the first authorization,   *)
(* seal after the later ones.  The third goes on whatever it found.         *)
Proceed(c) ==
    LET r == call[c]
    IN  /\ r.phase \in AuthorizePhase /\ r.step = "classified"
        /\ Authorized(r)
        /\ Confirmed(r) \/ r.phase = "third"
        /\ Become(c, IF r.phase = "first" THEN Advance(r, "second", "user")
                     ELSE Advance(r, "final", "preflight"))

(* Mutant: the answer is used but not recorded. *)
AcceptPromptUnrecorded(c) ==
    LET r == call[c]
    IN  /\ r.step = "elicit"
        /\ Become(c, [Advance(r, IF r.phase = "first" THEN "second" ELSE "third", "user")
                        EXCEPT !.evidence = @ \cup r.asked, !.asked = {}])

(* The user accepts; the call is authorized from the start once more. *)
AcceptPrompt(c) ==
    LET r == call[c]
    IN  /\ r.step = "elicit"
        /\ Become(c, [Recorded(Advance(r, IF r.phase = "first" THEN "second" ELSE "third",
                                       "user"), "accepted")
                        EXCEPT !.evidence = @ \cup r.asked, !.asked = {}])

(* The user refuses, or the client cannot elicit. *)
RefusePrompt(c) ==
    /\ call[c].step = "elicit"
    /\ \E outcome \in {"declined", "unsupported"} :
          Become(c, Ended(Recorded(call[c], outcome), "unconfirmed"))

(* An awaited call fails with an exception no handler records. *)
Break(c) ==
    /\ call[c].step \in {"target", "preflight", "elicit"}
    /\ Become(c, Ended(call[c], "error"))

(***************************************************************************)
(* _execute_authorized: the final authorization and the execution share    *)
(* one 60 second timeout.                                                  *)
(***************************************************************************)

(* Mutant: the user of the last authorization is used again. *)
BeginFinalKeepingUser(c) ==
    LET r == call[c]
    IN  /\ At(c, "final", "classified")
        /\ Become(c, IF r.class = Unclassified THEN Denied(r)
                     ELSE [r EXCEPT !.step = "authenticated", !.got = None])

(* _finalize_invocation after its preflight; a flow that is gone is denied. *)
BeginFinal(c) ==
    LET r == call[c]
    IN  /\ At(c, "final", "classified")
        /\ Become(c, IF r.class = Unclassified THEN Denied(r)
                     ELSE [r EXCEPT !.step = "user", !.got = None, !.auth = None])

(* _final_authentication reads the target after the caller. *)
FinalTarget(c) ==
    LET r == call[c]
    IN  /\ At(c, "final", "authenticated") /\ r.auth # None /\ r.impersonating
        /\ Become(c, [r EXCEPT !.step = "target"])

(* Mutant: the classification made before the last awaits is kept. *)
StaleClasses(r) == {r.class}

(* revalidate_preflight_command_sync: a flow is classified again (its        *)
(* secret fields conservatively, when the step cannot be read without an     *)
(* await), config entries keep the classification of the preflight.          *)
SealedClasses(r) ==
    IF Preflight[r.command] # "flow" THEN {r.class}
    ELSE IF category[r.command] = Unclassified THEN {Unclassified}
    ELSE {category[r.command], category[r.command] \cup {SecretWrite}}

AtSeal(r) ==
    /\ r.phase = "final"
    /\ r.auth # None
    /\ r.step = IF r.impersonating THEN "resolved" ELSE "authenticated"

(* The synchronous tail of _finalize_invocation and the evidence check: the *)
(* bearer is still bound, the authorization still holds under the policy in *)
(* force, and the user accepted everything that policy wants confirmed.     *)
Sealed(r) == bound[r.bearer] /\ Authorized(r) /\ Confirmed(r)

Start(c) ==
    /\ AtSeal(call[c])
    /\ \E class \in SealedClasses(call[c]) :
          LET r == [call[c] EXCEPT !.class = class]
          IN  /\ Sealed(r)
              /\ Become(c, [Advance(r, "run", "handler") EXCEPT !.started = TRUE])

(* Mutant: the refusal also passes through the clause for failures. *)
RefuseSealTwice(c) ==
    /\ AtSeal(call[c])
    /\ \E class \in SealedClasses(call[c]) :
          ~Sealed([call[c] EXCEPT !.class = class])
    /\ Become(c, Denied(Recorded(call[c], "failed")))

RefuseSeal(c) ==
    /\ AtSeal(call[c])
    /\ \E class \in SealedClasses(call[c]) :
          ~Sealed([call[c] EXCEPT !.class = class])
    /\ Become(c, Denied(call[c]))

(* _audit_execution: only privileged commands the dispatcher audits. *)
ExecutionRecord(r, outcome) ==
    IF r.command \in Audited THEN Recorded(r, outcome) ELSE r

(* The handler is done; the result is filtered and sanitized (postflight). *)
HandlerReturns(c) ==
    /\ At(c, "run", "handler")
    /\ Become(c, [call[c] EXCEPT !.step = "postflight"])

Succeed(c) ==
    /\ At(c, "run", "postflight")
    /\ Become(c, Ended(ExecutionRecord(call[c], "succeeded"), "succeeded"))

(* The handler or the postflight raises. *)
Fail(c) ==
    /\ call[c].phase = "run"
    /\ Become(c, Ended(ExecutionRecord(call[c], "failed"), "failed"))

(* The handler itself refuses the caller: a denial, not a failure. *)
RefuseCaller(c) ==
    /\ call[c].phase = "run"
    /\ Become(c, Ended(ExecutionRecord(call[c], "denied"), "refused"))

(* Mutant: the timeout does not ask whether the handler was started. *)
TimeoutAlwaysRecorded(c) ==
    /\ call[c].phase \in {"final", "run"}
    /\ Become(c, Ended(ExecutionRecord(call[c], "failed"), "timeout"))

(* Mutant: only the final authorization is under the timeout. *)
TimeoutBeforeStart(c) ==
    /\ call[c].phase = "final"
    /\ Become(c, Ended(call[c], "timeout"))

(* asyncio.timeout: recorded only when the handler had been started. *)
Timeout(c) ==
    LET r == call[c]
    IN  /\ r.phase \in {"final", "run"}
        /\ Become(c, Ended(IF r.started THEN ExecutionRecord(r, "failed") ELSE r,
                           "timeout"))

(* The client goes away or the server stops: CancelledError passes every    *)
(* except clause of the pipeline.                                           *)
Cancel(c) ==
    /\ call[c].phase \notin {"idle", "ended"}
    /\ Become(c, Ended(call[c], "cancelled"))

(***************************************************************************)
(* Specification.                                                          *)
(***************************************************************************)

(* Segments the event loop runs as soon as MA has answered. *)
Progress(c) ==
    \/ LookUpUser(c) \/ LookUpTokenId(c) \/ LookUpTarget(c) \/ Classify(c)
    \/ Unauthenticated(c) \/ ResolveEntry(c) \/ BeginAuthorize(c) \/ ResolveTarget(c)
    \/ RefuseAuthorization(c) \/ Prompt(c) \/ Proceed(c)
    \/ BeginFinal(c) \/ FinalTarget(c) \/ Start(c) \/ RefuseSeal(c)

(* What the client, the user, the handler and the clock decide. *)
Outside(c) ==
    \/ Arrive(c) \/ InvalidArguments(c) \/ AcceptPrompt(c) \/ RefusePrompt(c)
    \/ Break(c) \/ HandlerReturns(c) \/ Succeed(c) \/ Fail(c) \/ RefuseCaller(c)
    \/ Timeout(c) \/ Cancel(c)

Next ==
    \/ \E c \in Calls : Progress(c) \/ Outside(c)
    \/ Environment

Spec == Init /\ [][Next]_vars

(* MA answers its lookups and the 60 second timeout fires; nothing makes    *)
(* the user answer a prompt or a handler return.                            *)
FairSpec == Spec /\ \A c \in Calls : WF_vars(Progress(c)) /\ WF_vars(Timeout(c))

(***************************************************************************)
(* Properties.                                                             *)
(***************************************************************************)

(* The awaits of each phase. *)
Places ==
    [idle |-> {"none"},
     visible |-> {"user", "id", "authenticated"},
     first |-> Step \ {"handler", "postflight", "none"},
     second |-> Step \ {"handler", "postflight", "none"},
     third |-> Step \ {"handler", "postflight", "none", "elicit"},
     final |-> Step \ {"handler", "postflight", "none", "elicit"},
     run |-> {"handler", "postflight"},
     ended |-> {"none"}]

(* What a call holds follows from where it stands. *)
Placed(r) ==
    /\ r.step \in Places[r.phase]
    /\ r.step \in {"authenticated", "target"} => r.got = None
    /\ r.step \in {"target", "resolved"} => r.impersonating
    /\ r.phase = "run" => r.started
    /\ r.started => r.phase \in {"run", "ended"}
    /\ r.asked # {} => r.step = "elicit"
    /\ r.result # "pending" <=> r.phase = "ended"

(* Every variable keeps its type and every call is well placed. *)
TypeOK ==
    /\ live \in [Bearer -> BOOLEAN]
    /\ bound \in [Bearer -> BOOLEAN]
    /\ account \in [Bearer -> Account]
    /\ target \in Account
    /\ policy \in [Bearer -> Policies]
    /\ handler \in [Command -> Handler \cup {None}]
    /\ category \in [Command -> Class]
    /\ changes \in Nat
    /\ call \in [Calls -> CallState]
    /\ \A c \in Calls : Placed(call[c])

Answers(r) == r.audit["accepted"] + r.audit["declined"] + r.audit["unsupported"]

Verdicts(r) ==
    r.audit["denied"] + r.audit["declined"] + r.audit["unsupported"]
        + r.audit["failed"] + r.audit["succeeded"]

(* The audit trail never contradicts itself: one call leaves at most one    *)
(* verdict (denied, declined, unsupported, failed or succeeded), although   *)
(* nine places of the pipeline emit one and errors pass through several.    *)
OneVerdict == \A c \in Calls : Verdicts(call[c]) <= 1

(* Every prompt in the audit trail has its answer there, except one still   *)
(* open or one whose call died with it; no call prompts more than twice.    *)
PromptsAnswered ==
    \A c \in Calls :
        LET r == call[c]
        IN  /\ r.audit["requested"] <= 2
            /\ \/ r.audit["requested"] = Answers(r)
               \/ /\ r.audit["requested"] = Answers(r) + 1
                  /\ r.step = "elicit" \/ r.result \in {"error", "cancelled"}

ExecutionVerdicts(r) ==
    r.audit["denied"] + r.audit["failed"] + r.audit["succeeded"]

(* A privileged handler that ran leaves exactly one record of how it ended  *)
(* (cancellation apart, see CancelledExecutionAudited), and no execution is *)
(* ever recorded for a call whose handler was not started.                  *)
ExecutionAudited ==
    \A c \in Calls :
        LET r == call[c]
        IN  /\ ~r.started => r.audit["failed"] + r.audit["succeeded"] = 0
            /\ /\ r.phase = "ended" /\ r.started
               /\ r.command \in Audited /\ r.result # "cancelled"
               => ExecutionVerdicts(r) = 1

(* README.md:125: audit records cover privileged execution outcomes.  A     *)
(* cancelled execution is such an outcome and leaves no record.             *)
CancelledExecutionAudited ==
    \A c \in Calls :
        LET r == call[c]
        IN  r.phase = "ended" /\ r.started /\ r.command \in Audited
            => ExecutionVerdicts(r) = 1

(* Once it has arrived, a call always ends or waits for its user: the       *)
(* timeout covers whatever the handler does.                                *)
EveryCallSettles ==
    \A c \in Calls :
        call[c].phase # "idle" ~> (call[c].phase = "ended" \/ call[c].step = "elicit")

(***************************************************************************)
(* The pipeline implements the atomic reference monitor.                   *)
(***************************************************************************)
Forbidden == {Unknown}

(* What the state of this instant demands of a call: config entries count   *)
(* as the preflight classified them, a setup flow as it stands now.         *)
LiveClass(r) ==
    IF Preflight[r.command] = "flow" THEN category[r.command] ELSE r.class

Need(r) ==
    IF /\ bound[r.bearer]
       /\ r.entry # None /\ handler[r.command] = r.entry
       /\ LiveClass(r) # Unclassified
       /\ CallMode(r, LiveClass(r)) # "deny"
    THEN EvidenceOf(r, LiveClass(r)) ELSE Forbidden

Caller(r, user) ==
    IF HasScope(user) /\ (r.impersonating \/ user = "granted") THEN {"caller"} ELSE {}

Valid(r) ==
    (IF live[r.bearer] THEN Caller(r, account[r.bearer]) ELSE {}) \cup
    (IF target = "granted" THEN {"target"} ELSE {})

Identities(r) == IF r.impersonating THEN {"caller", "target"} ELSE {"caller"}

Stage(r) ==
    IF r.phase = "ended" THEN "closed" ELSE IF r.phase = "run" THEN "running" ELSE "open"

Checked(r) ==
    IF r.phase \notin {"final", "run"} \/ r.step \in {"preflight", "classified", "user"}
    THEN {}
    ELSE IF r.step = "id" THEN Caller(r, r.got)
    ELSE Caller(r, r.auth) \cup
         (IF r.impersonating /\ r.got = "granted" THEN {"target"} ELSE {})

Monitor == INSTANCE ReferenceMonitor WITH
    need <- [c \in Calls |-> Need(call[c])],
    valid <- [c \in Calls |-> Valid(call[c])],
    identities <- [c \in Calls |-> Identities(call[c])],
    stage <- [c \in Calls |-> Stage(call[c])],
    granted <- [c \in Calls |-> call[c].evidence],
    checked <- [c \in Calls |-> Checked(call[c])]

(* Whatever happens at its awaits, a call starts its handler as if it had   *)
(* been authorized in one atomic step: nothing live denies it, the user     *)
(* accepted all the live policy wants confirmed, and every identity was     *)
(* seen valid by MA after the user's last answer (execution.py, comment     *)
(* "No authorization-sensitive await is permitted below this point").       *)
MonitorSpec == Monitor!Spec

===============================================================================
