------------------------------ MODULE PlayerQueue ------------------------------
(***************************************************************************)
(* fastmcp/queue/remove_items_safe on one player queue (commands/queue.py) *)
(* while the player plays on.  The command runs through its ids in one     *)
(* step of the event loop and tells, for each, what became of it.          *)
(***************************************************************************)
EXTENDS SequencesExt, Naturals

CONSTANTS
    MaxItems,       \* bound: items in the queue
    MaxRequest      \* bound: ids in one request

ASSUME PlayerQueueAssumption == MaxItems \in Nat /\ MaxRequest \in Nat

(* An item's id, named by its place when the queue was filled. *)
Item == 1 .. MaxItems

VARIABLES
    items,      \* the queue, first to last
    current,    \* position of the item that plays, 0 for none
    buffered,   \* position up to which the player has buffered, 0 for none
    told        \* what the last removal reported

queueVars == <<items, current, buffered, told>>

Outcome == {"removed", "played", "buffered", "missing"}

Report == [Outcome -> SUBSET Item]

Nothing == [o \in Outcome |-> {}]

QueueInit ==
    /\ \E n \in 0 .. MaxItems : items = [i \in 1 .. n |-> i]
    /\ current = 0 /\ buffered = 0
    /\ told = Nothing

(* The player moves on, or buffers ahead of what it plays. *)
Advance ==
    /\ \/ current < Len(items) /\ current' = current + 1
          /\ buffered' \in {buffered, current + 1}
       \/ buffered < Len(items) /\ buffered' = buffered + 1 /\ current' = current
    /\ UNCHANGED <<items, told>>

(* What a turn of the loop leaves: the queue, and one more id told of. *)
Filed(r, left, outcome, id) ==
    [items |-> left, told |-> [r.told EXCEPT ![outcome] = @ \cup {id}]]

(* Mutant: only the item that plays is spared, as if nothing were buffered. *)
AfterUnbuffered(r, id, broken, refused) ==
    LET index == CHOOSE i \in 1 .. Len(r.items) : r.items[i] = id
    IN  IF id \notin Range(r.items) THEN Filed(r, r.items, "missing", id)
        ELSE IF index <= current THEN Filed(r, r.items, "played", id)
        ELSE Filed(r, RemoveAt(r.items, index), "removed", id)

(* One turn of the loop: the item is looked up by id each time, because what *)
(* was removed before has moved it.  MA may fail to delete it (`broken`) or   *)
(* quietly keep it (`refused`).                                               *)
After(r, id, broken, refused) ==
    LET index == CHOOSE i \in 1 .. Len(r.items) : r.items[i] = id
    IN  IF id \notin Range(r.items) THEN Filed(r, r.items, "missing", id)
        ELSE IF index <= current THEN Filed(r, r.items, "played", id)
        ELSE IF index <= buffered \/ id \in refused
             THEN Filed(r, r.items, "buffered", id)
        ELSE IF id \in broken THEN Filed(r, r.items, "missing", id)
        ELSE Filed(r, RemoveAt(r.items, index), "removed", id)

(* All turns of the loop, one id after the other. *)
Turns(ids, broken, refused) ==
    LET upto[n \in 0 .. Len(ids)] ==
            IF n = 0 THEN [items |-> items, told |-> Nothing]
            ELSE After(upto[n - 1], ids[n], broken, refused)
    IN  upto[Len(ids)]

RemoveItemsSafe(ids) ==
    \E broken \in SUBSET Range(ids), refused \in SUBSET Range(ids) :
        /\ broken \cap refused = {}
        /\ items' = Turns(ids, broken, refused).items
        /\ told' = Turns(ids, broken, refused).told
        /\ UNCHANGED <<current, buffered>>

Requests == UNION {[1 .. n -> Item] : n \in 1 .. MaxRequest}

QueueNext == Advance \/ \E ids \in Requests : RemoveItemsSafe(ids)

QueueSpec == QueueInit /\ [][QueueNext]_queueVars

(***************************************************************************)
(* Properties.                                                             *)
(***************************************************************************)
QueueTypeOK ==
    /\ items \in Seq(Item) /\ IsInjective(items)
    /\ current \in 0 .. MaxItems /\ buffered \in 0 .. MaxItems
    /\ told \in Report

(* What was played or buffered stays, in its place, and the player's two     *)
(* positions go on meaning the same items (queue.py: "Remove only queue      *)
(* items that are neither played nor player-buffered").                      *)
HeardStays ==
    [][\A i \in 1 .. Len(items) :
           i <= current \/ i <= buffered => i <= Len(items') /\ items'[i] = items[i]]_queueVars

(* The report is the truth: what it says was removed is gone, and what it     *)
(* says was skipped is still there; also for an id that was asked for twice.  *)
ReportTrue ==
    /\ told["removed"] \cap Range(items) = {}
    /\ told["played"] \cup told["buffered"] \subseteq Range(items)

(* A removal touches nothing it must not, and says what it did.               *)
RemovalSafe == HeardStays /\ []ReportTrue
===============================================================================
