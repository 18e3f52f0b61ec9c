--------------------------------- MODULE Tokens ---------------------------------
(***************************************************************************)
(* The tokens of Music Assistant (MA) as this plugin handles them: the     *)
(* Connect Wizard (connect/) trades a bootstrap for a session and mints    *)
(* one long-lived token per client, the verifier (auth.py) authenticates   *)
(* the bearer of every MCP request, and the registry of TokenIdentities    *)
(* remembers what they learned.                                            *)
(*                                                                         *)
(* Requests run on one event loop: a step is the code between two awaits   *)
(* of MA, and every await may fail.  MA's token store is external.         *)
(***************************************************************************)
EXTENDS TokenIdentities, FiniteSets

CONSTANTS
    Request,    \* requests in flight at a time
    Token,      \* tokens MA can ever issue (bound)
    User, Guest, NoUser,
    Client,     \* the clients of the wizard's catalog
    Traffic,    \* kinds of requests that come in (bound)
    ListLimit   \* TOKEN_LIST_LIMIT: MA lists no more tokens than this

ASSUME TokensAssumption ==
    /\ NoToken \notin Token
    /\ NoUser \notin User
    /\ Guest \subseteq User
    /\ ListLimit \in Nat
    /\ Client \cap {"bootstrap", "session", "login"} = {}

VARIABLES
    token,      \* MA's token store
    enabled,    \* users MA lets in
    held,       \* tokens handed to a browser or a client
    req,        \* the requests
    entries,    \* the identity registry
    compiled,   \* token ids the policy resolver was last compiled for
    past        \* history: the bearer a session was bought with, and all
                \* tokens MA listed to the request that made a token

vars == <<token, enabled, held, req, entries, compiled, past>>
registry == <<entries, compiled>>

(* "MCP — wizard bootstrap", "MCP — wizard session", "MCP — <client>", and  *)
(* what MA calls the token of a login.                                      *)
Name == {"bootstrap", "session", "login"} \cup Client

(* _GC_NAMES for the wizard's open action, the client's own name for a mint. *)
Replaced(name) ==
    IF name = "bootstrap" THEN {"bootstrap", "session"} ELSE {name} \cap Client

Kind == {"none", "open", "exchange", "login", "mint", "request"}

At == {"idle", "list", "verify", "login", "resolve", "revoke", "create",
       "whoami", "identify", "bind"}

RequestState ==
    [kind : Kind, at : At, user : User \cup {NoUser},
     bearer : Token \cup {NoToken},     \* what the request presents
     name : Name,                       \* what its token will be called
     todo : SUBSET Token,               \* tokens still to revoke
     clean : BOOLEAN,                   \* no revocation failed
     new : Token \cup {NoToken},        \* the token MA made for it
     id : Token \cup {NoToken},         \* the token id MA resolved
     seen : SUBSET Token]               \* history: what MA listed

Idle == [kind |-> "none", at |-> "idle", user |-> NoUser, bearer |-> NoToken,
         name |-> "login", todo |-> {}, clean |-> TRUE, new |-> NoToken, id |-> NoToken,
         seen |-> {}]

Unused == [life |-> "unused", owner |-> NoUser, name |-> "login"]

TokenState ==
    [life : {"unused", "valid", "gone"}, owner : User \cup {NoUser}, name : Name]

Valid(t) == token[t].life = "valid"

Authenticated(t) == Valid(t) /\ token[t].owner \in enabled

(* The id MA resolves for a bearer: none once the token is gone, or if the  *)
(* lookup fails.                                                            *)
Resolved(t) == {NoToken} \cup {i \in {t} : Valid(i)}

Now(q, r) == req' = [req EXCEPT ![q] = r]

(* The registry changes and, if the change counts, the runtime compiles the  *)
(* policy resolver for the ids it now knows.                                *)
Register(next) ==
    /\ entries' = next
    /\ compiled' = IF Notifies(entries, next) THEN TokenIds(next) ELSE compiled

-------------------------------------------------------------------------------
(* Requests arrive. *)

(* The config action opens the wizard for a signed-in user. *)
Open(q, u) ==
    /\ req[q] = Idle
    /\ Now(q, [Idle EXCEPT !.kind = "open", !.at = "list", !.user = u, !.name = "bootstrap"])
    /\ UNCHANGED <<token, enabled, held, registry, past>>

(* POST /connect/exchange, POST /connect/token and an MCP request present a  *)
(* bearer, which MA is asked to authenticate.                               *)
Present(q, b, kind, name) ==
    /\ req[q] = Idle
    /\ Now(q, [Idle EXCEPT !.kind = kind, !.at = "verify", !.bearer = b, !.name = name])
    /\ UNCHANGED <<token, enabled, held, registry, past>>

(* POST /connect/login presents the credentials of a user. *)
PresentPassword(q, u) ==
    /\ req[q] = Idle
    /\ Now(q, [Idle EXCEPT !.kind = "login", !.at = "login", !.user = u])
    /\ UNCHANGED <<token, enabled, held, registry, past>>

Arrive(q) ==
    \/ "open" \in Traffic /\ \E u \in User : Open(q, u)
    \/ "login" \in Traffic /\ \E u \in User : PresentPassword(q, u)
    \/ "exchange" \in Traffic /\ \E b \in held : Present(q, b, "exchange", "session")
    \/ "mint" \in Traffic /\ \E b \in held, c \in Client : Present(q, b, "mint", c)
    \/ "request" \in Traffic /\ \E b \in held : Present(q, b, "request", "login")

-------------------------------------------------------------------------------
(* MA answers what a request awaits. *)

(* authenticate_with_token: the bearer is good, for make_exchange,           *)
(* make_mint_token or verify_token.  A guest gets no long-lived token.      *)
Admit(q) ==
    LET r == req[q]
        user == token[r.bearer].owner
        known == [r EXCEPT !.user = user]
    IN  /\ r.at = "verify" /\ Authenticated(r.bearer)
        /\ Now(q, CASE r.kind = "mint" /\ user \in Guest -> Idle
                    [] r.kind = "mint" /\ user \notin Guest -> [known EXCEPT !.at = "list"]
                    [] r.kind # "mint" -> [known EXCEPT !.at = "resolve"])
        /\ UNCHANGED <<token, enabled, held, registry, past>>

(* It is not, or MA failed, or its audience is wrong (which the verifier     *)
(* sees without asking MA).  The verifier forgets what it knew of it.       *)
Reject(q) ==
    /\ req[q].at = "verify"
    /\ Now(q, Idle)
    /\ IF req[q].kind = "request"
       THEN Register(Without(entries, req[q].bearer))
       ELSE UNCHANGED registry
    /\ UNCHANGED <<token, enabled, held, past>>

(* Mutant: a missing id is taken for a token id. *)
ResolveUnchecked(q) ==
    /\ req[q].at = "resolve"
    /\ \E i \in Resolved(req[q].bearer) :
          Now(q, IF req[q].kind = "request"
                 THEN [req[q] EXCEPT !.at = "bind", !.id = i]
                 ELSE [req[q] EXCEPT !.at = "revoke", !.todo = {i}])
    /\ UNCHANGED <<token, enabled, held, registry, past>>

(* get_token_id_from_token: without an id a bootstrap cannot be spent. *)
Resolve(q) ==
    /\ req[q].at = "resolve"
    /\ \E i \in Resolved(req[q].bearer) :
          Now(q, CASE req[q].kind = "request" -> [req[q] EXCEPT !.at = "bind", !.id = i]
                   [] req[q].kind = "exchange" /\ i = NoToken -> Idle
                   [] req[q].kind = "exchange" /\ i # NoToken ->
                        [req[q] EXCEPT !.at = "revoke", !.todo = {i}])
    /\ UNCHANGED <<token, enabled, held, registry, past>>

(* After the last revocation: mint, or open the wizard without a bootstrap. *)
Revoking(r) ==
    IF r.todo # {} THEN [r EXCEPT !.at = "revoke"]
    ELSE IF r.clean THEN [r EXCEPT !.at = "create"] ELSE Idle

(* Mutant: only the token's own name is looked for; sessions survive an open. *)
ListOwnName(q) ==
    LET mine == {t \in Token : Valid(t) /\ token[t].owner = req[q].user}
    IN  /\ req[q].at = "list"
        /\ Cardinality(mine) < ListLimit
        /\ Now(q, Revoking([req[q] EXCEPT !.seen = mine,
                      !.todo = {t \in mine : token[t].name = req[q].name}]))
        /\ UNCHANGED <<token, enabled, held, registry, past>>

(* get_user_tokens: what the new token replaces is to be revoked.  A full    *)
(* page may be truncated and counts as a failure.                           *)
List(q) ==
    LET mine == {t \in Token : Valid(t) /\ token[t].owner = req[q].user}
    IN  /\ req[q].at = "list"
        /\ Cardinality(mine) < ListLimit
        /\ Now(q, Revoking([req[q] EXCEPT !.seen = mine,
                      !.todo = {t \in mine : token[t].name \in Replaced(req[q].name)}]))
        /\ UNCHANGED <<token, enabled, held, registry, past>>

(* Listing, creating or logging in fails: nothing is minted. *)
Fail(q) ==
    /\ req[q].at \in {"list", "create", "login"}
    /\ Now(q, Idle)
    /\ UNCHANGED <<token, enabled, held, registry, past>>

Revoke(q) ==
    /\ req[q].at = "revoke"
    /\ \E t \in req[q].todo :
          /\ Valid(t)
          /\ token' = [token EXCEPT ![t].life = "gone"]
          /\ Now(q, Revoking([req[q] EXCEPT !.todo = @ \ {t}]))
    /\ UNCHANGED <<enabled, held, registry, past>>

(* Mutant: a failed revocation goes unnoticed. *)
RevokeFailsUnnoticed(q) ==
    /\ req[q].at = "revoke"
    /\ \E t \in req[q].todo : Now(q, Revoking([req[q] EXCEPT !.todo = @ \ {t}]))
    /\ UNCHANGED <<token, enabled, held, registry, past>>

(* Mutant: a failed revocation is tried again. *)
RevokeRetried(q) ==
    /\ req[q].at = "revoke"
    /\ UNCHANGED vars

(* MA raises, as it must for a token that is gone.  Open goes on with the    *)
(* others, exchange and mint give up.                                       *)
RevokeFails(q) ==
    /\ req[q].at = "revoke"
    /\ \E t \in req[q].todo :
          Now(q, IF req[q].kind = "open"
                 THEN Revoking([req[q] EXCEPT !.todo = @ \ {t}, !.clean = FALSE])
                 ELSE Idle)
    /\ UNCHANGED <<token, enabled, held, registry, past>>

-------------------------------------------------------------------------------
(* MA makes a token. *)

Issue(q, t) ==
    /\ token[t] = Unused
    /\ token' = [token EXCEPT ![t] =
                    [life |-> "valid", owner |-> req[q].user, name |-> req[q].name]]
    /\ past' = [past EXCEPT ![t] =
                    [paid |-> IF req[q].kind = "exchange" THEN req[q].bearer ELSE NoToken,
                     seen |-> req[q].seen]]

(* create_token: the bootstrap goes into the wizard's URL, unless the setup  *)
(* callback turns out to be malformed (actions.py); a session or a client's  *)
(* token is bound to its user before it is handed out (handlers.py).        *)
Create(q) ==
    /\ req[q].at = "create"
    /\ \E t \in Token :
          /\ Issue(q, t)
          /\ IF req[q].kind = "open"
             THEN Now(q, Idle) /\ held' \in {held, held \cup {t}}
             ELSE Now(q, [req[q] EXCEPT !.at = "identify", !.new = t]) /\ UNCHANGED held
    /\ UNCHANGED <<enabled, registry>>

(* auth.login names the user in its answer, or leaves it to be asked for. *)
LogIn(q) ==
    /\ req[q].at = "login" /\ req[q].user \in enabled
    /\ \E t \in Token, next \in {"identify", "whoami"} :
          Issue(q, t) /\ Now(q, [req[q] EXCEPT !.at = next, !.new = t])
    /\ UNCHANGED <<enabled, held, registry>>

WhoAmI(q) ==
    /\ req[q].at = "whoami" /\ Valid(req[q].new)
    /\ Now(q, [req[q] EXCEPT !.at = "identify"])
    /\ UNCHANGED <<token, enabled, held, registry, past>>

(* The session is handed out unbound. *)
Anonymous(q) ==
    /\ req[q].at = "whoami"
    /\ Now(q, Idle)
    /\ held' = held \cup {req[q].new}
    /\ UNCHANGED <<token, enabled, registry, past>>

Identify(q) ==
    /\ req[q].at = "identify"
    /\ \E i \in Resolved(req[q].new) : Now(q, [req[q] EXCEPT !.at = "bind", !.id = i])
    /\ UNCHANGED <<token, enabled, held, registry, past>>

(* Without an id too: the bearer then has the default policy. *)
BindMinted(q) ==
    LET r == req[q]
    IN  /\ r.at = "bind" /\ r.kind # "request"
        /\ Register(Bind(entries, [bearer |-> r.new, user |-> r.user, id |-> r.id]))
        /\ held' = held \cup {r.new}
        /\ Now(q, Idle)
        /\ UNCHANGED <<token, enabled, past>>

(* Mutant: the verifier keeps the authenticated user on itself. *)
BindVerifiedShared(q) ==
    LET r == req[q]
    IN  /\ r.at = "bind" /\ r.kind = "request"
        /\ \E p \in Request :
              /\ req[p].kind = "request" /\ req[p].user # NoUser
              /\ Register(Bind(entries, [bearer |-> r.bearer, user |-> req[p].user, id |-> r.id]))
        /\ Now(q, Idle)
        /\ UNCHANGED <<token, enabled, held, past>>

(* The verifier binds a bearer with its id, and forgets one without. *)
BindVerified(q) ==
    LET r == req[q]
    IN  /\ r.at = "bind" /\ r.kind = "request"
        /\ Register(IF r.id = NoToken
                    THEN Without(entries, r.bearer)
                    ELSE Bind(entries, [bearer |-> r.bearer, user |-> r.user, id |-> r.id]))
        /\ Now(q, Idle)
        /\ UNCHANGED <<token, enabled, held, past>>

Step(q) ==
    \/ Admit(q) \/ Reject(q) \/ Resolve(q)
    \/ List(q) \/ Fail(q) \/ Revoke(q) \/ RevokeFails(q)
    \/ Create(q) \/ LogIn(q) \/ WhoAmI(q) \/ Anonymous(q)
    \/ Identify(q) \/ BindMinted(q) \/ BindVerified(q)

-------------------------------------------------------------------------------
(* The rest of MA and of the plugin. *)

(* The user revokes a token in MA, or it expires. *)
Lapse(t) ==
    /\ Valid(t)
    /\ token' = [token EXCEPT ![t].life = "gone"]
    /\ UNCHANGED <<enabled, held, req, registry, past>>

SetEnabled(u) ==
    /\ enabled' = IF u \in enabled THEN enabled \ {u} ELSE enabled \cup {u}
    /\ UNCHANGED <<token, held, req, registry, past>>

(* A tool call asks who its bearer is. *)
Consult(b) ==
    /\ entries' = Lookup(entries, b)
    /\ UNCHANGED <<token, enabled, held, req, compiled, past>>

Environment ==
    \/ \E t \in Token : Lapse(t)
    \/ \E u \in User : SetEnabled(u)
    \/ \E b \in Bound(entries) : Consult(b)

Init ==
    /\ token = [t \in Token |-> Unused]
    /\ enabled = User
    /\ held = {}
    /\ req = [q \in Request |-> Idle]
    /\ entries = <<>>
    /\ compiled = {}
    /\ past = [t \in Token |-> [paid |-> NoToken, seen |-> {}]]

Next == Environment \/ \E q \in Request : Arrive(q) \/ Step(q)

Spec == Init /\ [][Next]_vars

(* MA answers or fails; a wizard request has no timeout of its own. *)
FairSpec == Spec /\ \A q \in Request : WF_vars(Step(q))

-------------------------------------------------------------------------------
(* Properties. *)

(* Every variable has its type, and a request has what its place needs: an   *)
(* exchange revokes the bearer it presented and nothing else, and what is    *)
(* about to be bound is a token MA has made.                                *)
TypeOK ==
    /\ token \in [Token -> TokenState]
    /\ enabled \subseteq User
    /\ held \subseteq {t \in Token : token[t] # Unused}
    /\ req \in [Request -> RequestState]
    /\ past \in [Token -> [paid : Token \cup {NoToken}, seen : SUBSET Token]]
    /\ \A q \in Request :
          LET r == req[q]
          IN  /\ r.at = "revoke" => r.todo # {}
              /\ r.kind = "exchange" => r.todo \subseteq {r.bearer} /\ r.bearer \in held
              /\ r.at \in {"identify", "whoami"} => r.new \in Token

(* A bearer buys at most one session, and not while it can be used again     *)
(* (handlers.py, "a session is never issued while the reusable bootstrap     *)
(* stays valid"), however many exchanges of it run at once.                  *)
SpentOnce ==
    \A s \in Token :
        past[s].paid # NoToken =>
            /\ token[past[s].paid].life = "gone"
            /\ \A t \in Token : past[t].paid = past[s].paid => t = s

(* Once the wizard has made a token, what it replaces is gone: no token that *)
(* MA had listed to the same request is left of the same client, or, for a   *)
(* bootstrap, of an earlier wizard (actions.py, "instead of adding a fresh   *)
(* bootstrap next to still-valid old ones").                                *)
Rotated ==
    \A t \in Token : \A s \in past[t].seen :
        token[s].owner = token[t].owner /\ token[s].name \in Replaced(token[t].name)
            => ~Valid(s)

(* handlers.py, make_mint_token: minting with an earlier token left "would   *)
(* leave two long-lived credentials for the same client".                    *)
OneTokenPerClient ==
    \A s, t \in Token :
        /\ Valid(s) /\ Valid(t)
        /\ token[s].owner = token[t].owner
        /\ token[s].name = token[t].name /\ token[s].name \in Client
        => s = t

(* The registry never mixes up identities: a bearer is bound once, to the    *)
(* user who owns it and to its own token id or none, however requests,       *)
(* mints, lookups and evictions interleave.                                  *)
BindingsTrue ==
    /\ Len(entries) <= Capacity
    /\ \A i \in DOMAIN entries :
          /\ entries[i].user = token[entries[i].bearer].owner
          /\ entries[i].id \in {NoToken, entries[i].bearer}
          /\ \A j \in DOMAIN entries : entries[i].bearer = entries[j].bearer => i = j

(* The policy resolver is compiled for exactly the token ids the registry    *)
(* knows: no binding, rebinding, eviction or discard goes untold.            *)
ResolverKnowsBound == compiled = TokenIds(entries)

(* A request of the wizard or the verifier ends, unless MA never answers. *)
RequestsEnd == \A q \in Request : req[q] # Idle ~> req[q] = Idle

===============================================================================
