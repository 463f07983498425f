----------------------------- MODULE LiveEvents -----------------------------
(***************************************************************************)
(* JellyfinLibraryEventQueue (src/src/net/JellyfinLibraryEventQueue.cpp):  *)
(* the bounded set of changed ids that stands between the event socket,    *)
(* the live worker and its retries.  An id it has no room for is forgotten *)
(* and leaves the catch-up flag behind.  Whether an id was added, updated  *)
(* or removed, and the user-data flag, are not told apart here.            *)
(***************************************************************************)
EXTENDS Naturals, FiniteSets

CONSTANTS Items,     \* ids of catalog items
          Capacity   \* ids a queue holds (512 in the code)

ASSUME CapacityAssumption == Capacity \in Nat \ {0}

Batch      == [ids : SUBSET Items, catchUp : BOOLEAN]
EmptyQueue == [ids |-> {}, catchUp |-> FALSE]

(* The sets of ids that push() may keep of a batch: all that fit. *)
Kept(q, ids) ==
    {k \in SUBSET (ids \ q.ids) :
        IF Cardinality(q.ids \cup ids) <= Capacity
        THEN k = ids \ q.ids
        ELSE Cardinality(q.ids \cup k) = Capacity}

Pushed(q, batch, kept) ==
    [ids     |-> q.ids \cup kept,
     catchUp |-> q.catchUp \/ batch.catchUp \/ ~(batch.ids \subseteq q.ids \cup kept)]

MarkCatchUp(q) == [q EXCEPT !.catchUp = TRUE]
=============================================================================
