----------------------------- MODULE CommandPolicy -----------------------------
(***************************************************************************)
(* Which capability a Music Assistant (MA) command needs                   *)
(* (command_policy.py).  The first of these decides: the commands that are *)
(* denied outright, the exact table, the system prefixes, the longest      *)
(* family prefix, and for commands of no known family the MA scope they    *)
(* are registered with.  Family and scope have a column per operation,     *)
(* which verb, profile and scope choose between them.                      *)
(*                                                                         *)
(* A command is the sequence of its words and separators, a scope of MA an *)
(* area and a right; MA lets in whoever holds one of a sequence of scopes. *)
(***************************************************************************)
EXTENDS Naturals, Sequences, FiniteSets, Functions

CONSTANTS
    Registered,     \* commands MA may have registered
    Scopes,         \* what they may be registered with: sequences of scopes
    Overrides,      \* operations a profile may name, "none" among them
    Exact           \* entries of EXACT_POLICIES: command -> decision

ASSUME PolicyAssumption ==
    /\ Scopes \subseteq Seq(STRING \X STRING)
    /\ Overrides \subseteq {"none", "read", "control", "write", "system"}
    /\ \A c \in DOMAIN Exact :
          /\ Exact[c].needs # {}
          /\ Exact[c].operation \in {"read", "control", "write", "system", "delete"}

VARIABLES
    request,        \* a command with its scope and its profile's operation
    decision        \* what was decided about it

policyVars == <<request, decision>>

(* _OPERATION_ORDER, weakest first. *)
OperationOrder == <<"read", "control", "write", "system">>

Rank(operation) == CHOOSE i \in DOMAIN OperationOrder : OperationOrder[i] = operation

DestructiveVerbs == {"clear", "delete", "remove", "reset", "revoke"}

(* Columns from operations to capabilities. *)
Family(prefix, columns) == [prefix |-> prefix, columns |-> columns, readonly |-> FALSE]

ReadonlyFamily(prefix, capability) ==
    [prefix |-> prefix, columns |-> [read |-> capability], readonly |-> TRUE]

ConfigColumns(write) == [read |-> "config:read", write |-> write]

PlaylistColumns ==
    [read |-> "query:library", write |-> "edit:playlists", delete |-> "delete:playlists"]

FamilyPolicies ==
    {Family(<<"music", "/", "playlists", "/">>, PlaylistColumns),
     Family(<<"music", "/", "favorites", "/">>,
            [read |-> "query:library", write |-> "edit:favorites",
             delete |-> "delete:favorites"]),
     Family(<<"music", "/">>,
            [read |-> "query:library", control |-> "control:media",
             write |-> "edit:library", delete |-> "delete:library"]),
     Family(<<"smart", "_", "playlists", "/">>, PlaylistColumns),
     ReadonlyFamily(<<"statistics", "/">>, "query:library"),
     Family(<<"players", "/", "cmd", "/", "volume", "_">>, [control |-> "control:volume"]),
     Family(<<"players", "/", "cmd", "/">>, [control |-> "control:players"]),
     Family(<<"players", "/", "sleep", "_", "timer", "/">>,
            [read |-> "query:players", control |-> "control:playback",
             delete |-> "control:playback"]),
     Family(<<"players", "/">>, [read |-> "query:players"]),
     Family(<<"player", "_", "queues", "/">>,
            [read |-> "query:queue", control |-> "edit:queue",
             write |-> "edit:queue", delete |-> "delete:queue"]),
     Family(<<"metadata", "/">>, [read |-> "query:metadata"]),
     Family(<<"config", "/", "providers">>, ConfigColumns("config:write:provider")),
     Family(<<"config", "/", "core">>, ConfigColumns("config:write:core")),
     Family(<<"config", "/", "players">>, ConfigColumns("config:write:player")),
     Family(<<"config", "/", "player", "_", "queues">>, ConfigColumns("config:write:player")),
     Family(<<"config", "/", "dsp", "_", "presets", "/">>,
            ConfigColumns("config:write:player")),
     Family(<<"config", "/", "dsp", "_", "irs", "/">>, ConfigColumns("config:write:player")),
     Family(<<"storage", "/">>, ConfigColumns("config:write:provider")),
     Family(<<"streams", "/">>, ConfigColumns("config:write:core")),
     ReadonlyFamily(<<"diagnostics", "/">>, "debug:inspect"),
     Family(<<"providers">>, [read |-> "debug:providers"])}

(* SCOPE_FAMILIES, by area and right. *)
ScopeColumns(scope) ==
    LET area == scope[1]
        right == scope[2]
    IN  CASE area = "library" /\ right = "read" -> [read |-> "query:library"]
          [] area = "library" /\ right \in {"write", "manage"} ->
                [write |-> "edit:library", delete |-> "delete:library"]
          [] area = "players" /\ right = "read" -> [read |-> "query:players"]
          [] area = "players" /\ right = "control" -> [control |-> "control:players"]
          [] area = "queues" /\ right = "read" -> [read |-> "query:queue"]
          [] area = "queues" /\ right = "control" ->
                [control |-> "edit:queue", delete |-> "delete:queue"]
          [] area = "providers" /\ right = "read" -> [read |-> "debug:providers"]
          [] area \in {"config.players", "config.providers", "config.core"} /\ right = "read" ->
                [read |-> "config:read"]
          [] area = "config.players" /\ right = "write" -> [write |-> "config:write:player"]
          [] area = "config.providers" /\ right \in {"write", "own"} ->
                [write |-> "config:write:provider"]
          [] area = "config.core" /\ right = "write" -> [write |-> "config:write:core"]
          [] area = "system" /\ right \in {"read", "manage"} -> [system |-> "system:admin"]
          [] OTHER -> <<>>

Mapped(scope) == ScopeColumns(scope) # <<>>

(* The column a family was declared with first: "delete" is never it. *)
Weakest(operations) == CHOOSE o \in operations : \A p \in operations : Rank(o) <= Rank(p)

FirstOperation(columns) == Weakest(DOMAIN columns \ {"delete"})

(* A prefix that ends in a separator, or a whole name or its beginning. *)
StartsWith(command, prefix) ==
    /\ Len(prefix) <= Len(command)
    /\ SubSeq(command, 1, Len(prefix)) = prefix

InFamily(command, family) ==
    LET p == family.prefix
    IN  IF p[Len(p)] \in {"/", "_"} THEN StartsWith(command, p)
        ELSE command = p \/ StartsWith(command, Append(p, "/"))

(* _matching_family, as the set of the longest match. *)
MatchingFamily(command) ==
    LET matches == {f \in FamilyPolicies : InFamily(command, f)}
    IN  {f \in matches : \A g \in matches : Len(g.prefix) <= Len(f.prefix)}

(* _scope_operation of one scope, then of what a command is registered with. *)
RightOperation(scope) ==
    CASE scope[1] = "system" -> "system"
      [] scope[1] # "system" /\ scope[2] = "control" -> "control"
      [] scope[1] # "system" /\ scope[2] \in {"write", "manage", "own"} -> "write"
      [] scope[1] # "system" /\ scope[2] = "read" -> "read"
      [] OTHER -> "none"

(* Mutant: a command is held to be as privileged as its strongest scope. *)
ScopeOperationStrongest(scopes) ==
    LET operations == {RightOperation(scopes[i]) : i \in DOMAIN scopes} \ {"none"}
    IN  IF operations = {} THEN "none"
        ELSE CHOOSE o \in operations : \A p \in operations : Rank(o) >= Rank(p)

ScopeOperation(scopes) ==
    LET operations == {RightOperation(scopes[i]) : i \in DOMAIN scopes} \ {"none"}
    IN  IF operations = {} THEN "none" ELSE Weakest(operations)

(* _scope_family: the columns of the first of the weakest scopes, unless one  *)
(* of them means nothing here.                                                *)
ScopeFamily(scopes) ==
    LET first(i) == Rank(FirstOperation(ScopeColumns(scopes[i])))
        weakest == {i \in DOMAIN scopes : \A j \in DOMAIN scopes : first(i) <= first(j)}
        chosen == CHOOSE i \in weakest : \A j \in weakest : i <= j
    IN  IF scopes = <<>> \/ \E i \in DOMAIN scopes : ~Mapped(scopes[i]) THEN <<>>
        ELSE ScopeColumns(scopes[chosen])

WordsOf(command) == {command[i] : i \in DOMAIN command}

(* _operation *)
Operation(r, columns, readonly) ==
    CASE readonly -> "read"
      [] ~readonly /\ WordsOf(r.command) \cap DestructiveVerbs # {} -> "delete"
      [] OTHER ->
            IF r.override # "none" THEN r.override
            ELSE IF ScopeOperation(r.scopes) # "none" THEN ScopeOperation(r.scopes)
            ELSE IF Cardinality(DOMAIN columns) = 1 THEN CHOOSE o \in DOMAIN columns : TRUE
            ELSE "system"

IsHardDenied(command) ==
    \/ command \in {<<"dashboard", "/", "register">>, <<"dashboard", "/", "unregister">>,
                    <<"music", "/", "tracks", "/", "preview">>}
    \/ StartsWith(command, <<"auth", "/">>)

IsSystem(command) ==
    \/ \E p \in {<<"audio", "_", "analysis", "/">>, <<"dashboard", "/">>, <<"logging", "/">>,
                 <<"tasks", "/">>} : StartsWith(command, p)
    \/ command \in {<<"info">>, <<"translations", "/", "locales">>}

(* To need nothing is to be denied.  The operation decides the annotations a  *)
(* client is shown.                                                           *)
NeverAllowed == [needs |-> {}, operation |-> "none"]

Needs(capability, operation) == [needs |-> {capability}, operation |-> operation]

(* Mutant: a mutating command falls back to whatever its scope has. *)
ScopeFallbackLax(r) ==
    LET columns == ScopeFamily(r.scopes)
        operation == Operation(r, columns, FALSE)
    IN  CASE columns = <<>> -> NeverAllowed
          [] columns # <<>> /\ operation \in DOMAIN columns -> Needs(columns[operation], operation)
          [] OTHER -> Needs(columns[FirstOperation(columns)], operation)

(* _scope_fallback_policy: "a mutating command never inherits a read column". *)
ScopeFallback(r) ==
    LET columns == ScopeFamily(r.scopes)
        operation == Operation(r, columns, FALSE)
    IN  CASE columns = <<>> -> NeverAllowed
          [] columns # <<>> /\ operation \in DOMAIN columns -> Needs(columns[operation], operation)
          [] columns # <<>> /\ operation \notin DOMAIN columns
                /\ (operation = "read" \/ FirstOperation(columns) # "read") ->
                Needs(columns[FirstOperation(columns)], operation)
          [] OTHER -> NeverAllowed

(* _required_capabilities: a delete without a column of its own is a write. *)
FamilyDecision(r, family) ==
    LET columns == family.columns
        operation == Operation(r, columns, family.readonly)
    IN  CASE operation \in DOMAIN columns -> Needs(columns[operation], operation)
          [] operation = "delete" /\ operation \notin DOMAIN columns
                /\ "write" \in DOMAIN columns -> Needs(columns["write"], operation)
          [] OTHER -> NeverAllowed

(* resolve_command_policy *)
Resolve(r) ==
    LET family == MatchingFamily(r.command)
    IN  CASE IsHardDenied(r.command) -> NeverAllowed
          [] ~IsHardDenied(r.command) /\ r.command \in DOMAIN Exact ->
                Exact[r.command]
          [] OTHER ->
                IF IsSystem(r.command) THEN Needs("system:admin", "system")
                ELSE IF family # {} THEN FamilyDecision(r, CHOOSE f \in family : TRUE)
                ELSE ScopeFallback(r)

Undecided == [needs |-> {}, operation |-> "undecided"]

PolicyInit ==
    /\ request \in [command : Registered, scopes : Scopes, override : Overrides]
    /\ decision = Undecided

Decide == decision = Undecided /\ decision' = Resolve(request) /\ UNCHANGED request

PolicySpec == PolicyInit /\ [][Decide]_policyVars

(***************************************************************************)
(* Properties.                                                             *)
(***************************************************************************)
ReadCapability ==
    {"query:library", "query:queue", "query:players", "query:metadata", "config:read",
     "debug:inspect", "debug:logs", "debug:events", "debug:providers"}

PolicyTypeOK ==
    /\ request.command \in Registered /\ request.override \in Overrides
    /\ decision.operation \in {"none", "undecided", "delete"} \cup Range(OperationOrder)
    /\ decision.operation \notin {"none", "undecided"} <=> decision.needs # {}

(* What may change something is never open to those who may only read,        *)
(* wherever its classification came from (command_policy.py: "a read scope    *)
(* cannot guard it").                                                         *)
ReadNeverMutates ==
    /\ decision.operation \in {"control", "write", "delete", "system"}
    /\ request.command \notin DOMAIN Exact
    => decision.needs \cap ReadCapability = {}

(* MA lets in whoever holds any one of several scopes, and the command is     *)
(* classified by the least of them, in both places that look for it: a scope  *)
(* more never makes it need more, and never mixes the right of one with the   *)
(* area of another.                                                           *)
MemberDecides ==
    decision.needs # {} /\ request.scopes # <<>> =>
        \E i \in DOMAIN request.scopes :
            /\ decision = Resolve([request EXCEPT !.scopes = <<request.scopes[i]>>])
            /\ \A j \in DOMAIN request.scopes :
                  RightOperation(request.scopes[j]) # "none" =>
                      /\ RightOperation(request.scopes[i]) # "none"
                      /\ Rank(RightOperation(request.scopes[i]))
                            <= Rank(RightOperation(request.scopes[j]))
===============================================================================
