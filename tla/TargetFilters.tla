----------------------------- MODULE TargetFilters -----------------------------
(***************************************************************************)
(* What a user's target filters let it name and see (target_filters.py).   *)
(* A Music Assistant (MA) administrator gives a user a set of players and  *)
(* a set of music sources; an empty set restricts nothing.  The filters    *)
(* are applied at four places: to the arguments of a command, to the rows  *)
(* a listing returns, to an item read alone, and to what the debug         *)
(* commands tell of events, queues and providers.                          *)
(*                                                                         *)
(* Identifiers are names; a row or a media reference is the set of names   *)
(* its fields carry.  All operators are pure.                              *)
(***************************************************************************)

CONSTANTS
    PlayerName,     \* ids of players; a queue has the id of its player
    SourceName,     \* instance ids and domains of providers
    NoProvider      \* the answer of a lookup that finds nothing

Internal == {"builtin", "database", "library"}

(* A share link of a known host whose path MA cannot parse. *)
Unresolved == "<unresolved share url>"

Name == PlayerName \cup SourceName \cup Internal \cup {Unresolved}

(* A user without a role restriction is an administrator. *)
User == [admin : BOOLEAN, players : SUBSET PlayerName, sources : SUBSET SourceName]

Unfiltered == [admin |-> TRUE, players |-> {}, sources |-> {}]

(* A provider MA has loaded, or knows of and could not load. *)
Provider == [instance : SourceName, domain : SourceName, music : BOOLEAN, available : BOOLEAN]

(* _allowed_values: an empty filter is no filter. *)
Within(names, allowed) == allowed = {} \/ names \subseteq allowed

(* An argument names players or sources, the latter also inside a reference;  *)
(* which argument of which command does is a table.                           *)
TargetKind == {"players", "sources"}

Argument == [kind : TargetKind, names : SUBSET Name]

(* _reference_provider_ids, by the form of the reference: a share link is its *)
(* service's, any other web or stream address MA's own, "a://b" and "a:t:b"   *)
(* name their provider, and other text names nobody.                          *)
Reference == [form : {"share", "brokenShare", "stream", "uri", "plain"}, source : SourceName]

ReferenceNames(r) ==
    CASE r.form \in {"share", "uri"} -> {r.source}
      [] r.form = "brokenShare" -> {Unresolved}
      [] r.form = "stream" -> {"builtin"}
      [] r.form = "plain" -> {}

(* A row of a listing: its own fields, its provider mappings, and for music  *)
(* rows the references in its uri and path.                                  *)
Row == [own : SUBSET Name, mappings : SUBSET Name, links : SUBSET Reference]

RowNames(row, kind) ==
    row.own \cup row.mappings \cup
    (IF kind = "sources" THEN UNION {ReferenceNames(r) : r \in row.links} ELSE {})

FilterOf(user, kind) == IF kind = "players" THEN user.players ELSE user.sources

InternalFor(kind) == IF kind = "sources" THEN Internal ELSE {}

(* collection_row_allowed: one common name is enough, or the row must be     *)
(* MA's own altogether.                                                      *)
RowAllowed(user, row, kind) ==
    LET allowed == FilterOf(user, kind)
        names == RowNames(row, kind)
    IN  \/ user.admin \/ allowed = {}
        \/ names \cap allowed # {}
        \/ names # {} /\ names \subseteq InternalFor(kind)

(* Mutant: a row that says nothing of its source passes as MA's own. *)
FilterRowsLeniently(rows, allowed, kind) ==
    {row \in rows : \/ RowNames(row, kind) \cap allowed # {}
                    \/ RowNames(row, kind) \subseteq InternalFor(kind)}

(* _filter_rows, the same test written a second time for listings. *)
FilterRows(rows, allowed, kind) ==
    {row \in rows : LET names == RowNames(row, kind)
                    IN  \/ names \cap allowed # {}
                        \/ names # {} /\ names \subseteq InternalFor(kind)}

(* filter_collection_result on the rows of a listing command. *)
FilterCollection(user, rows, kind) ==
    IF user.admin \/ FilterOf(user, kind) = {} THEN rows
    ELSE FilterRows(rows, FilterOf(user, kind), kind)

(* mass.get_provider: an instance that is loaded, else one of the domain. *)
Lookup(providers, name) ==
    LET exact == {p \in providers : p.available /\ p.instance = name}
        family == {p \in providers : p.available /\ p.domain = name}
    IN  CASE exact # {} -> CHOOSE p \in exact : TRUE
          [] exact = {} /\ family # {} -> CHOOSE p \in family : TRUE
          [] OTHER -> NoProvider

(* _resolve_music_provider: an instance that is known but not loaded is not  *)
(* taken for another one of its domain.                                      *)
Resolve(providers, name) ==
    LET known == {p \in providers : p.instance = name}
    IN  IF known # {} THEN CHOOSE p \in known : TRUE ELSE Lookup(providers, name)

SourceAllowed(user, providers, name) ==
    LET p == Resolve(providers, name)
    IN  \/ name \in Internal \cup user.sources
        \/ p # NoProvider /\ p.music /\ p.instance \in user.sources

(* enforce_target_filters on the declared arguments of one command. *)
Enforced(user, providers, arguments) ==
    \/ user.admin
    \/ \A a \in arguments :
          IF a.kind = "players" THEN Within(a.names, user.players)
          ELSE user.sources = {} \/ \A name \in a.names : SourceAllowed(user, providers, name)

Filtered(user) == ~user.admin /\ (user.players # {} \/ user.sources # {})

(* The object of an event is one id or one reference. *)
IsEventObject(row) ==
    /\ row.mappings = {}
    /\ \/ row.links = {} /\ \E name \in Name : row.own = {name}
       \/ row.own = {} /\ \E link \in Reference : row.links = {link}

(* event_object_visible: an id of a player, an id of a provider, a reference; *)
(* what cannot be attributed is hidden from a filtered user.                  *)
EventVisible(user, providers, players, object) ==
    LET named == UNION {ReferenceNames(r) : r \in object.links}
    IN  \/ ~Filtered(user)
        \/ object.own \cap players # {} /\ Within(object.own, user.players)
        \/ /\ object.own \cap players = {}
           /\ object.own \cap {p.instance : p \in providers} # {}
           /\ Within(object.own, user.sources)
        \/ /\ named # {}
           /\ user.sources = {} \/ named \subseteq user.sources \cup Internal

ProviderVisible(user, p) == ~Filtered(user) \/ Within({p.instance}, user.sources)

QueueVisible(user, queue) == ~Filtered(user) \/ Within({queue}, user.players)
===============================================================================
