------------------------------ MODULE EventBuffer ------------------------------
(***************************************************************************)
(* The ring of recent Music Assistant (MA) events and the subscription     *)
(* that fills it (event_buffer.py), as its owner, the provider's command   *)
(* set, configures it.  The ring forgets its oldest event when it is full; *)
(* the counters go on across resubscriptions and start over with the new   *)
(* ring a change of capacity makes.                                        *)
(***************************************************************************)
EXTENDS Sequences, Naturals, FiniteSets

CONSTANTS
    Event,          \* events MA can send, with their object
    EventKind,      \* their types
    KindOf,         \* Event -> EventKind
    Capacities      \* capacities the config can ask for, clamped to 50 .. 5000

ASSUME EventBufferAssumption ==
    /\ KindOf \in [Event -> EventKind]
    /\ Capacities \subseteq Nat \ {0}

VARIABLES
    capacity,       \* EventBuffer._capacity
    ring,           \* EventBuffer._queue, oldest first
    seen,           \* EventBuffer._total_seen
    counts,         \* EventBuffer._counts
    subscribed,     \* EventBuffer._remove is set
    evicted         \* history: events this ring has forgotten

bufferVars == <<capacity, ring, seen, counts, subscribed, evicted>>

(* stats().dropped is computed, not counted. *)
Dropped == IF seen > capacity THEN seen - capacity ELSE 0

BufferInit ==
    /\ capacity \in Capacities
    /\ ring = <<>>
    /\ seen = 0
    /\ counts = [k \in EventKind |-> 0]
    /\ subscribed = FALSE
    /\ evicted = 0

(* _on_event: deque.append with maxlen, then the counters. *)
OnEvent(e) ==
    /\ subscribed
    /\ LET full == Len(ring) = capacity
       IN  /\ ring' = IF full THEN Append(Tail(ring), e) ELSE Append(ring, e)
           /\ evicted' = IF full THEN evicted + 1 ELSE evicted
    /\ seen' = seen + 1
    /\ counts' = [counts EXCEPT ![KindOf[e]] = @ + 1]
    /\ UNCHANGED <<capacity, subscribed>>

(* Mutant: a resize keeps the counters of the old ring. *)
ConfigureKeepingCounters(enabled, size) ==
    /\ capacity' = size
    /\ subscribed' = enabled
    /\ ring' = IF size = capacity THEN ring ELSE <<>>
    /\ UNCHANGED <<seen, counts, evicted>>

(* _configure_event_buffer: a new capacity stops the old buffer and makes a   *)
(* new one, then it is started or stopped; both are idempotent.               *)
Configure(enabled, size) ==
    /\ capacity' = size
    /\ subscribed' = enabled
    /\ IF size = capacity
       THEN UNCHANGED <<ring, seen, counts, evicted>>
       ELSE /\ ring' = <<>> /\ seen' = 0 /\ evicted' = 0
            /\ counts' = [k \in EventKind |-> 0]

(* stop(), as the command set calls it when its commands go. *)
Unsubscribe ==
    /\ subscribed' = FALSE
    /\ UNCHANGED <<capacity, ring, seen, counts, evicted>>

BufferNext ==
    \/ \E e \in Event : OnEvent(e)
    \/ \E enabled \in BOOLEAN, size \in Capacities : Configure(enabled, size)
    \/ Unsubscribe

BufferSpec == BufferInit /\ [][BufferNext]_bufferVars

(***************************************************************************)
(* snapshot(): what of the ring a caller gets.  `wanted` stands for the    *)
(* caller's own filters (types, id, age), `visible` for the events the     *)
(* user may be told of.                                                    *)
(***************************************************************************)
Newest(events, limit) ==
    SubSeq(events, IF Len(events) > limit THEN Len(events) - limit + 1 ELSE 1, Len(events))

Kept(events, due) ==
    LET upto[n \in 0 .. Len(events)] ==
            IF n = 0 THEN <<>>
            ELSE IF events[n] \in due THEN Append(upto[n - 1], events[n]) ELSE upto[n - 1]
    IN  upto[Len(events)]

Snapshot(events, wanted, visible, limit) == Newest(Kept(events, wanted \cap visible), limit)

(***************************************************************************)
(* Properties.                                                             *)
(***************************************************************************)
BufferTypeOK ==
    /\ capacity \in Capacities
    /\ ring \in Seq(Event)
    /\ seen \in Nat
    /\ counts \in [EventKind -> Nat]
    /\ subscribed \in BOOLEAN
    /\ evicted \in Nat

(* A page of recent events shorter than asked for is complete, and a full one *)
(* has the newest: what a caller may not see, or did not ask for, takes no    *)
(* place on it (event_buffer.py: "hiding records from the caller before the   *)
(* limit").                                                                   *)
PageComplete ==
    \A wanted, visible \in SUBSET Event : \A limit \in 1 .. capacity + 1 :
        LET page == Snapshot(ring, wanted, visible, limit)
            due == {i \in 1 .. Len(ring) : ring[i] \in wanted \cap visible}
        IN  /\ Len(page) <= limit
            /\ \A i \in due :
                  LET later == {j \in due : j > i}
                  IN  Cardinality(later) < limit =>
                        /\ Cardinality(later) < Len(page)
                        /\ page[Len(page) - Cardinality(later)] = ring[i]

(* What the debug commands report of the ring adds up for any number of      *)
(* events and across resubscriptions and resizes: every event seen is in the *)
(* ring or counted as dropped, and the ring is never longer than asked for.  *)
RingAccounting ==
    /\ Len(ring) + Dropped = seen
    /\ Dropped = evicted
    /\ Len(ring) <= capacity
===============================================================================
