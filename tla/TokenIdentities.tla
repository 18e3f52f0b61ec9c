---------------------------- MODULE TokenIdentities ----------------------------
(***************************************************************************)
(* TokenIdentityRegistry (token_identity.py): what the plugin remembers of *)
(* authenticated bearers, least recently used first.  An entry is the      *)
(* [bearer, user, id] of one bearer; `id` is NoToken when MA gave none.    *)
(***************************************************************************)
EXTENDS Naturals, Sequences

CONSTANTS
    Capacity,   \* how many bearers are remembered
    NoToken     \* no token, no id

ASSUME CapacityAssumption == Capacity \in Nat \ {0}

Bound(entries) == {entries[i].bearer : i \in DOMAIN entries}

Place(entries, b) == CHOOSE i \in DOMAIN entries : entries[i].bearer = b

Without(entries, b) ==
    IF b \in Bound(entries)
    THEN SubSeq(entries, 1, Place(entries, b) - 1)
            \o SubSeq(entries, Place(entries, b) + 1, Len(entries))
    ELSE entries

Bind(entries, e) ==
    LET s == Append(Without(entries, e.bearer), e)
    IN  IF Len(s) > Capacity THEN Tail(s) ELSE s

(* The caller sees the binding, and it becomes the most recent one. *)
Lookup(entries, b) ==
    IF b \in Bound(entries)
    THEN Append(Without(entries, b), entries[Place(entries, b)])
    ELSE entries

TokenIds(entries) == {entries[i].id : i \in DOMAIN entries} \ {NoToken}

(* Mutant: a new id for a known bearer goes untold. *)
NotifiesOfBearers(before, after) == Bound(before) # Bound(after)

(* The registry tells its owner when a binding was added, changed, evicted  *)
(* or forgotten, but not when one was only used.                            *)
Entries(entries) == {entries[i] : i \in DOMAIN entries}
Notifies(before, after) == Entries(before) # Entries(after)

===============================================================================
