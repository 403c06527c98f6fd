--------------------------- MODULE RetiredHistory ---------------------------
(***************************************************************************)
(* What RetiredIdSet promises: the identifiers that left the book most      *)
(* recently, each once, oldest first, at most Capacity of them.  Module     *)
(* RetiredIdSet models the hash table and the ring, and implements this.    *)
(***************************************************************************)
EXTENDS Naturals, Sequences

CONSTANTS
  Ids,        \* order identifiers
  Capacity    \* how many retired identifiers are remembered

VARIABLE recent

contains(id) == \E i \in 1..Len(recent) : recent[i] = id

(* Fault: a full history does not evict.                                    *)
FaultNoEviction(id) == recent' = IF contains(id) THEN recent ELSE Append(recent, id)

(* An identifier that is already recorded keeps its place; a new one pushes *)
(* the oldest out of a full history.                                        *)
insert(id) ==
  recent' = IF contains(id) THEN recent
            ELSE IF Len(recent) = Capacity THEN Append(Tail(recent), id)
            ELSE Append(recent, id)

clear == recent' = << >>

Init == recent = << >>

Next == clear \/ \E id \in Ids : insert(id)

Spec == Init /\ [][Next]_recent

=============================================================================
