-------------------------------- MODULE Reads --------------------------------
(***************************************************************************)
(* Reading a native MCP resource: TagFilterMiddleware finds what kind the  *)
(* address is, ResourceAuthorizer asks Music Assistant (MA) who the bearer *)
(* is and seals the request without a further await, and the handler reads *)
(* a player, a queue or a library item for the sealed user.                *)
(*                                                                         *)
(* A step is the code between two awaits or the moment inside MA at which  *)
(* an awaited answer is made; the environment changes in between.          *)
(***************************************************************************)
EXTENDS TargetFilters, Naturals

CONSTANTS
    Read,           \* resource reads
    Nobody,         \* no user was found
    Players,        \* players, by their address
    Catalogue,      \* rows a listing or an event may carry
    Items,          \* those a library read may be about
    Providers,      \* providers MA knows
    Accounts,       \* the users an administrator can make of the caller
    DefaultModes,   \* the policy of a bearer the registry does not know
    MaxEdits        \* bound on the changes of the environment

VARIABLES
    required,   \* the config asks for authentication
    valid,      \* MA accepts the bearer
    known,      \* the token registry holds the bearer's exact identity
    account,    \* the user of the bearer, as MA has it
    modes,      \* kind -> mode the bearer's policy has for it
    edits,      \* environment changes so far
    read        \* per read: where it is and what it holds

settings == <<required, valid, known, account, modes, edits>>
readVars == <<required, valid, known, account, modes, edits, read>>

(* The kinds with a capability of their own; any other address has the       *)
(* capability "unknown", which no policy allows, and the resources of the    *)
(* catalog have no tag at all.                                               *)
Guarded == {"library", "player", "queue"}
Kind == Guarded \cup {"unknown", "catalog"}

ModeTable == [Guarded -> {"deny", "allow", "confirm"}]

(* A user of MA with its filters; `scopes` are the kinds its role may read. *)
AccountRecord == [enabled : BOOLEAN, scopes : SUBSET Guarded, filter : User]

ASSUME ReadsAssumption ==
    /\ Accounts \subseteq AccountRecord
    /\ Nobody \notin Accounts /\ Nobody \notin Players /\ Nobody \notin Items
    /\ DefaultModes \in ModeTable
    /\ Players \subseteq PlayerName
    /\ Catalogue \subseteq Row /\ Items \subseteq Catalogue
    /\ MaxEdits \in Nat

At == {"idle", "tags", "user", "id", "seal", "item", "done"}

(* `user` is whom MA named, `as` whom the handler runs as, `row` the item a  *)
(* library read is about; `denials` counts records.                          *)
ReadState ==
    [at : At, kind : Kind, target : Players \cup {Nobody}, row : Items \cup {Nobody},
     user : Accounts \cup {Nobody}, as : Accounts \cup {Nobody}, exact : BOOLEAN,
     denials : Nat,
     result : {"none", "denied", "handed on", "content", "empty", "error"}]

Fresh ==
    [at |-> "idle", kind |-> "unknown", target |-> Nobody, row |-> Nobody, user |-> Nobody,
     as |-> Nobody, exact |-> FALSE, denials |-> 0, result |-> "none"]

ReadsInit ==
    /\ required \in BOOLEAN /\ valid = TRUE /\ known = TRUE
    /\ account \in Accounts
    /\ modes \in ModeTable
    /\ edits = 0
    /\ read = [r \in Read |-> Fresh]

Become(r, state) == read' = [read EXCEPT ![r] = state] /\ UNCHANGED settings

(***************************************************************************)
(* The environment.                                                        *)
(***************************************************************************)
Edit == edits < MaxEdits /\ edits' = edits + 1 /\ UNCHANGED read

SaveModesOf(kind) ==
    /\ Edit
    /\ \E mode \in {"deny", "allow", "confirm"} : modes' = [modes EXCEPT ![kind] = mode]
    /\ UNCHANGED <<required, valid, known, account>>

(* require_auth is read from the config in force. *)
ToggleAuth ==
    /\ Edit
    /\ required' = ~required
    /\ UNCHANGED <<valid, known, account, modes>>

EditAccount ==
    /\ Edit
    /\ account' \in Accounts
    /\ UNCHANGED <<required, valid, known, modes>>

RevokeBearer ==
    /\ Edit
    /\ valid' = FALSE
    /\ UNCHANGED <<required, known, account, modes>>

(* Another request verifies the bearer again, or the registry evicts it. *)
RebindBearer ==
    /\ Edit
    /\ known' \in (IF valid THEN BOOLEAN ELSE {FALSE})
    /\ UNCHANGED <<required, valid, account, modes>>

(***************************************************************************)
(* One read.                                                               *)
(***************************************************************************)

(* on_read_resource up to the lookup of the address's tags. *)
Arrives(r) ==
    /\ read[r].at = "idle"
    /\ \E kind \in Kind, target \in Players, row \in Items :
          Become(r, [read[r] EXCEPT !.at = "tags", !.kind = kind,
              !.target = IF kind \in {"player", "queue"} THEN target ELSE Nobody,
              !.row = IF kind = "library" THEN row ELSE Nobody])

(* A resource of the catalog authorizes its own requests: it is called as it *)
(* is, outside of what follows here.                                         *)
Untagged(r) ==
    /\ read[r].at = "tags" /\ read[r].kind = "catalog"
    /\ Become(r, [read[r] EXCEPT !.at = "done", !.result = "handed on"])

(* The tags are known; MA is asked for the user if there has to be one. *)
Tagged(r) ==
    /\ read[r].at = "tags" /\ read[r].kind # "catalog"
    /\ Become(r, [read[r] EXCEPT !.at = IF required THEN "user" ELSE "seal"])

(* Mutant: a lookup that fails still leads to the second one. *)
FindUserRegardless(r) ==
    /\ read[r].at = "user"
    /\ \E user \in {Nobody} \cup (IF valid /\ account.enabled THEN {account} ELSE {}) :
          Become(r, [read[r] EXCEPT !.user = user, !.at = "id"])

(* authenticate_with_token answers, with nobody if it fails. *)
FindUser(r) ==
    /\ read[r].at = "user"
    /\ \E user \in {Nobody} \cup (IF valid /\ account.enabled THEN {account} ELSE {}) :
          Become(r, [read[r] EXCEPT !.user = user,
                                    !.at = IF user = Nobody THEN "seal" ELSE "id"])

(* get_token_id_from_token answers, or fails. *)
FindId(r) ==
    /\ read[r].at = "id"
    /\ \E exact \in {FALSE, valid} : Become(r, [read[r] EXCEPT !.exact = exact, !.at = "seal"])

(* _resource_target against the player filter of a player or queue read. *)
TargetPermitted(s) ==
    s.kind \in {"player", "queue"} =>
        s.user.filter.admin \/ Within({s.target}, s.user.filter.players)

(* Mutant: the bearer's identity is not looked up again. *)
IdentityRemembered(s) == s.user # Nobody /\ s.exact

(* _authentication_is_valid: the registry is read after the awaits. *)
IdentityHolds(s) == s.user # Nobody /\ s.exact /\ known

(* AuthenticatedPolicyResolver.resolve, read last. *)
LiveMode(kind) ==
    IF kind \notin Guarded THEN "deny" ELSE IF known THEN modes[kind] ELSE DefaultModes[kind]

Permitted(s) ==
    /\ required => IdentityHolds(s) /\ s.kind \in s.user.scopes /\ TargetPermitted(s)
    /\ LiveMode(s.kind) = "allow"

DeniedRead(s) == [s EXCEPT !.at = "done", !.denials = @ + 1, !.result = "denied"]

(* The seal of authorize(): one synchronous block from the last await to the *)
(* handler.  There is no prompt for a resource: Confirm is a refusal.        *)
Seal(r) ==
    /\ read[r].at = "seal"
    /\ LET s == read[r]
       IN  Become(r, IF Permitted(s)
                     THEN [s EXCEPT !.at = "item",
                                    !.as = IF IdentityHolds(s) THEN s.user ELSE Nobody]
                     ELSE DeniedRead(s))

(* library_item_allowed: a read without a user is MA's own. *)
ItemAllowed(s) == s.as # Nobody => RowAllowed(s.as.filter, s.row, "sources")

(* Mutant: an item behind the filter is withheld without a record. *)
DeliverLibrarySilently(r) ==
    LET s == read[r]
    IN  /\ s.at = "item" /\ s.kind = "library"
        /\ Become(r, [s EXCEPT !.at = "done",
               !.result = IF ItemAllowed(s) THEN "content" ELSE "empty"])

(* A library item is awaited and then held against the sealed user's filter: *)
(* what it may not see reads as nothing, with one record.  MA may not have   *)
(* the item (any longer), hide a playlist from the user, or fail.            *)
DeliverLibrary(r) ==
    LET s == read[r]
    IN  /\ s.at = "item" /\ s.kind = "library"
        /\ \/ /\ ItemAllowed(s)
              /\ Become(r, [s EXCEPT !.at = "done", !.result = "content"])
           \/ /\ ~ItemAllowed(s)
              /\ Become(r, [s EXCEPT !.at = "done", !.result = "empty", !.denials = @ + 1])
           \/ Become(r, [s EXCEPT !.at = "done", !.result = "empty", !.row = Nobody])
           \/ Become(r, [s EXCEPT !.at = "done", !.result = "error"])

(* Players and queues are read in the step that follows; they may be gone,   *)
(* or their reading fails.                                                   *)
DeliverPlayer(r) ==
    /\ read[r].at = "item" /\ read[r].kind \in {"player", "queue"}
    /\ \E result \in {"content", "empty", "error"} :
          Become(r, [read[r] EXCEPT !.at = "done", !.result = result])

ReadsNext ==
    \/ \E kind \in Guarded : SaveModesOf(kind)
    \/ ToggleAuth \/ EditAccount \/ RevokeBearer \/ RebindBearer
    \/ \E r \in Read : \/ Arrives(r) \/ Untagged(r) \/ Tagged(r) \/ FindUser(r) \/ FindId(r) \/ Seal(r)
                       \/ DeliverLibrary(r) \/ DeliverPlayer(r)

ReadsSpec == ReadsInit /\ [][ReadsNext]_readVars

(***************************************************************************)
(* Properties.                                                             *)
(***************************************************************************)
ReadsTypeOK ==
    /\ required \in BOOLEAN /\ valid \in BOOLEAN /\ known \in BOOLEAN
    /\ account \in Accounts
    /\ modes \in ModeTable
    /\ edits \in 0 .. MaxEdits
    /\ read \in [Read -> ReadState]
    /\ \A r \in Read :
          /\ read[r].at = "id" => read[r].user # Nobody
          /\ read[r].at = "item" => read[r].kind \in Guarded
          /\ read[r].kind \in {"player", "queue"} => read[r].target # Nobody
          /\ read[r].kind = "library" /\ read[r].at # "done" => read[r].row # Nobody
          /\ read[r].as \in {read[r].user, Nobody}

(* What is refused, by the seal or because the item is outside the filter of  *)
(* the user MA vouched for, leaves exactly one record; what was delivered, is *)
(* not there or broke leaves none.                                            *)
RefusalsAudited ==
    \A r \in Read :
        LET s == read[r]
            withheld == s.result = "empty" /\ s.row # Nobody
        IN  /\ s.denials = (IF s.result = "denied" \/ withheld THEN 1 ELSE 0)
            /\ s.kind = "library" /\ s.result = "content" => ItemAllowed(s)

(* An item read alone and the same item in a listing are hidden from the same *)
(* users: the two places write the rule twice.                                *)
ListingAgrees ==
    \A row \in Catalogue :
        RowAllowed(account.filter, row, "sources")
        <=> row \in FilterCollection(account.filter, Catalogue, "sources")

(* A user is told of an event only about something it could name in a         *)
(* command: the two filters are separate code with separate cases.            *)
EventsWithinReach ==
    \A row \in {x \in Catalogue : IsEventObject(x)} :
        EventVisible(account.filter, Providers, Players, row) =>
            LET named == row.own \cup UNION {ReferenceNames(x) : x \in row.links}
                kind == IF row.own \cap Players # {} THEN "players" ELSE "sources"
            IN  Enforced(account.filter, Providers, {[kind |-> kind, names |-> named]})

(***************************************************************************)
(* A read implements the reference monitor of calls: no prompt, one user.  *)
(***************************************************************************)
Refused == {"refused"}

Need(s) == IF (required => known) /\ LiveMode(s.kind) = "allow" THEN {} ELSE Refused

Vouched(s, user) ==
    IF user # Nobody /\ s.kind \in user.scopes /\ TargetPermitted([s EXCEPT !.user = user])
    THEN {"caller"} ELSE {}

ReadStage(s) ==
    IF s.at = "done" THEN "closed" ELSE IF s.at = "item" THEN "running" ELSE "open"

Seen(s) == IF s.at \in {"id", "seal", "item"} THEN Vouched(s, s.user) ELSE {}

ReadMonitor == INSTANCE ReferenceMonitor WITH
    Calls <- Read,
    Reason <- {"refused", "other"},
    Forbidden <- Refused,
    need <- [r \in Read |-> Need(read[r])],
    valid <- [r \in Read |-> IF valid /\ account.enabled
                             THEN Vouched(read[r], account) ELSE {}],
    identities <- [r \in Read |-> IF required THEN {"caller"} ELSE {}],
    stage <- [r \in Read |-> ReadStage(read[r])],
    granted <- [r \in Read |-> {}],
    checked <- [r \in Read |-> Seen(read[r])]

(* Whatever happens at its two awaits, a read reaches its handler only if the *)
(* policy of that instant allows it to the bound bearer, and for a user whom  *)
(* MA vouched for (resource_authorization.py: "No authorization-sensitive     *)
(* await is permitted below this point").                                     *)
ReadMonitorSpec == ReadMonitor!Spec
===============================================================================
