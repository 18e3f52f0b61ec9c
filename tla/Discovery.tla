------------------------------- MODULE Discovery -------------------------------
(***************************************************************************)
(* Finding commands page by page (execution.py, catalog_pagination.py,     *)
(* meta_discovery.py).  The dispatcher compiles Music Assistant's (MA)     *)
(* command registry into a snapshot it keeps while the registry's          *)
(* fingerprint lasts; a request sees the part of it its user and policy    *)
(* allow; search ranks that part by an index kept per fingerprint; and a   *)
(* cursor carries the offset and the revision of what it was cut from.     *)
(*                                                                         *)
(* A request awaits MA's authentication once, between taking its snapshot  *)
(* and cutting its page; locks around the two caches are never held across *)
(* an await.                                                               *)
(***************************************************************************)
EXTENDS Naturals, Sequences, FiniteSets

CONSTANTS
    Walk,           \* callers that page through the catalog
    Command,        \* command names
    HardDenied,     \* those no policy opens (command_is_hard_denied)
    Before,         \* the alphabetical order of names, as a set of pairs
    Policies,       \* modes the callers' policy may give the commands
    Registries,     \* registries MA can have: command -> edition, 0 if absent
    Relevance,      \* the score of a command for the query, per registry
    NoSnapshot,     \* nothing compiled yet
    PageLimit,      \* items asked for per page
    MaxEdits        \* bound: changes of registry, policy and scopes, and failures

Fingerprint == [Command \ HardDenied -> Nat]

(* _capture_registry, _fingerprint: everything but the hidden boundaries. *)
Capture(registry) == [c \in Command \ HardDenied |-> registry[c]]

Fingerprints == {Capture(registry) : registry \in Registries}

Mode == {"deny", "allow", "confirm"}

ASSUME DiscoveryAssumption ==
    /\ IsFiniteSet(Command) /\ HardDenied \subseteq Command
    /\ \A a, b \in Command \ HardDenied :
          /\ <<a, b>> \in Before => <<b, a>> \notin Before
          /\ a # b => <<a, b>> \in Before \/ <<b, a>> \in Before
          /\ \A c \in Command \ HardDenied :
                <<a, b>> \in Before /\ <<b, c>> \in Before => <<a, c>> \in Before
    /\ Policies \subseteq [Command -> Mode]
    /\ Registries \subseteq [Command -> Nat]
    /\ Relevance \in [Fingerprints -> [Command \ HardDenied -> Nat]]
    /\ NoSnapshot \notin Fingerprints
    /\ PageLimit \in Nat \ {0} /\ MaxEdits \in Nat

VARIABLES
    registry,   \* mass.command_handlers
    mode,       \* command -> its mode under the callers' policy
    scoped,     \* commands within the callers' MA scopes
    walk,       \* per caller: its request, its cursor and what it has got
    edits       \* changes of the environment so far

discoveryVars == <<registry, mode, scoped, walk, edits>>

NoCursor == [offset |-> 0, revision |-> {}]

(* `got` is what the pages since the last start have delivered; `first` the   *)
(* list the first of them was cut from.                                       *)
Start(query) ==
    [at |-> "ready", query |-> query, snap |-> NoSnapshot, cursor |-> NoCursor,
     got |-> <<>>, first |-> <<>>, error |-> "none"]

DiscoveryInit ==
    /\ registry \in Registries
    /\ mode \in Policies /\ scoped = Command
    /\ \E query \in [Walk -> {"search", "catalog"}] : walk = [w \in Walk |-> Start(query[w])]
    /\ edits = 0

(***************************************************************************)
(* The environment.                                                        *)
(***************************************************************************)
Edit == edits < MaxEdits /\ edits' = edits + 1

EditRegistry ==
    /\ Edit /\ registry' \in Registries
    /\ UNCHANGED <<mode, scoped, walk>>

EditMode ==
    /\ Edit /\ mode' \in Policies
    /\ UNCHANGED <<registry, scoped, walk>>

EditScopes ==
    /\ Edit /\ scoped' \in SUBSET Command
    /\ UNCHANGED <<registry, mode, walk>>

(***************************************************************************)
(* One request.                                                            *)
(***************************************************************************)

(* base_snapshot: the cached one is used only while the registry has its      *)
(* fingerprint, so it always is the registry's.                               *)
RequestPage(w) ==
    /\ walk[w].at = "ready"
    /\ walk' = [walk EXCEPT ![w].at = "asked", ![w].snap = Capture(registry)]
    /\ UNCHANGED <<registry, mode, scoped, edits>>

(* catalog_context: what of the snapshot the caller may see, with its mode. *)
Visible(snap, known) ==
    {[name |-> c, mode |-> mode[c]] :
        c \in {x \in Command \ HardDenied :
                  known /\ snap[x] # 0 /\ x \in scoped /\ mode[x] # "deny"}}

(* catalog_revision: the fingerprint and all a page shows of the entries. *)
Revision(snap, view) == {<<snap, view>>}

(* The list of the items in an order, a set of pairs. *)
Sorted(view, order) ==
    CHOOSE list \in [1 .. Cardinality(view) -> view] :
        \A i, j \in DOMAIN list : i < j => <<list[i], list[j]>> \in order

Alphabetical(view) == {p \in view \X view : <<p[1].name, p[2].name>> \in Before}

(* _rank, by the index of the snapshot (_index_for caches it like that): by   *)
(* score, then by name; what does not match is left out.                      *)
Ranked(snap, view) ==
    LET score(x) == Relevance[snap][x.name]
        higher == {p \in view \X view :
                      \/ score(p[1]) > score(p[2])
                      \/ score(p[1]) = score(p[2]) /\ p \in Alphabetical(view)}
    IN  Sorted({x \in view : snap[x.name] # 0 /\ score(x) > 0}, higher)

(* What the pages are cut from. *)
Listing(query, snap, view) ==
    IF query = "search" THEN Ranked(snap, view) ELSE Sorted(view, Alphabetical(view))

Slice(list, offset) ==
    SubSeq(list, offset + 1,
           IF offset + PageLimit < Len(list) THEN offset + PageLimit ELSE Len(list))

(* Mutant: a cursor is taken whatever has become of the catalog. *)
NeverStale(cursor, revision) == FALSE

Stale(cursor, revision) == cursor # NoCursor /\ cursor.revision # revision

(* The page of an authenticated caller, or of one MA does not know.  Before   *)
(* the cut come the two refusals, and a refused caller starts over.           *)
AnswerPage(w, known) ==
    LET s == walk[w]
        view == Visible(s.snap, known)
        revision == Revision(s.snap, view)
        list == Listing(s.query, s.snap, view)
        offset == s.cursor.offset
        next == offset + Len(Slice(list, offset))
        refusal == CASE Stale(s.cursor, revision) -> "changed"
                     [] ~Stale(s.cursor, revision) /\ offset > 0 /\ offset >= Len(list)
                        -> "outside"
                     [] OTHER -> "none"
    IN  /\ s.at = "asked"
        /\ walk' = [walk EXCEPT ![w] =
              IF refusal # "none" THEN [Start(s.query) EXCEPT !.error = refusal]
              ELSE [s EXCEPT !.at = IF next < Len(list) THEN "ready" ELSE "done",
                             !.snap = NoSnapshot, !.error = "none",
                             !.cursor = IF next < Len(list)
                                        THEN [offset |-> next, revision |-> revision]
                                        ELSE NoCursor,
                             !.got = @ \o Slice(list, offset),
                             !.first = IF offset = 0 THEN list ELSE @]]
        /\ UNCHANGED <<registry, mode, scoped>>

AnswerKnown(w) == AnswerPage(w, TRUE) /\ UNCHANGED edits

(* authenticate_with_token fails: the caller sees an empty catalog. *)
AnswerUnknown(w) == AnswerPage(w, FALSE) /\ Edit

DiscoveryNext ==
    \/ EditRegistry \/ EditMode \/ EditScopes
    \/ \E w \in Walk : RequestPage(w) \/ AnswerKnown(w) \/ AnswerUnknown(w)

DiscoverySpec == DiscoveryInit /\ [][DiscoveryNext]_discoveryVars

(***************************************************************************)
(* Properties.                                                             *)
(***************************************************************************)
Entry == [name : Command, mode : {"allow", "confirm"}]

DiscoveryTypeOK ==
    /\ registry \in Registries /\ mode \in Policies /\ scoped \subseteq Command
    /\ edits \in 0 .. MaxEdits
    /\ \A w \in Walk :
          /\ walk[w].at \in {"ready", "asked", "done"}
          /\ walk[w].at = "asked" <=> walk[w].snap \in Fingerprints
          /\ walk[w].query \in {"search", "catalog"}
          /\ walk[w].cursor.offset \in Nat
          /\ walk[w].got \in Seq(Entry) /\ walk[w].first \in Seq(Entry)
          /\ walk[w].error \in {"none", "changed", "outside"}

(* The pages a caller joins by their cursors are slices of one list, with the *)
(* modes it had on the first page, whatever registry, policy and scopes were  *)
(* in between; the last page ends it, and no cursor the server gave out is    *)
(* ever refused as out of range.                                              *)
PagesJoin ==
    \A w \in Walk :
        LET s == walk[w]
        IN  /\ Len(s.got) <= Len(s.first) /\ s.got = SubSeq(s.first, 1, Len(s.got))
            /\ s.at = "done" => s.got = s.first
            /\ s.error # "outside"

(* Once registry, policy and scopes are left alone, a caller that starts over *)
(* when it is told to gets to the end.                                        *)
WalksComplete == \A w \in Walk : <>(walk[w].at = "done")
===============================================================================
