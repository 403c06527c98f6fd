---------------------------- MODULE RetiredIdSet ----------------------------
(***************************************************************************)
(* The history of retired identifiers as it is stored: an open-addressing   *)
(* table with linear probing and back-shift deletion beside a ring that     *)
(* remembers the order of insertion.  It implements RetiredHistory.         *)
(***************************************************************************)
EXTENDS Naturals, SequencesExt

CONSTANTS
  Ids,         \* order identifiers, 64-bit in the code
  Capacity,    \* how many retired identifiers are remembered
  Homes,       \* table positions the identifiers may hash to
  Empty        \* a slot that is not occupied

VARIABLES
  home,         \* the hash function: every assignment of Homes is some hash
                \* of some 64-bit identifiers
  slots,        \* slots_, the table; a free slot's stale key is never read
  ring,         \* ring_, identifiers by age
  ring_head,    \* ring_head_, index of the oldest
  count         \* count_

vars == <<home, slots, ring, ring_head, count>>

pow2_at_least(n) ==
  LET double[p \in Nat] == IF p < n THEN double[2 * p] ELSE p IN double[1]

kTableSize == pow2_at_least(2 * Capacity)

kNoSlot == kTableSize

(* The slots an identifier's probe visits, nearest first.                   *)
Probe(id, d) == (home[id] + d) % kTableSize

(* Distances at which a probe for `id` meets one of the given contents.     *)
Meets(table, id, contents) ==
  {d \in 0..(kTableSize - 1) : table[Probe(id, d)] \in contents}

find_slot(table, id) ==
  LET i == Probe(id, Min(Meets(table, id, {id, Empty})))
  IN IF table[i] = id THEN i ELSE kNoSlot

contains(id) == find_slot(slots, id) # kNoSlot

table_insert(table, id) ==
  [table EXCEPT ![Probe(id, Min(Meets(table, id, {Empty})))] = id]

(* Fault: the interval test forgets that clusters wrap.                     *)
FaultFlatInterval(i, k, j) == i < k /\ k <= j

(* k lies cyclically within (i, j].                                         *)
Between(i, k, j) == IF i <= j THEN i < k /\ k <= j ELSE i < k \/ k <= j

(* With a hole at i and the scan at j: the next key of the cluster that may *)
(* move into the hole does, and leaves its own place as the hole.           *)
RECURSIVE BackShift(_, _, _)
BackShift(table, i, j) ==
  LET n == (j + 1) % kTableSize
  IN IF table[n] = Empty THEN table
     ELSE IF Between(i, home[table[n]], n) THEN BackShift(table, i, n)
     ELSE BackShift([table EXCEPT ![i] = table[n], ![n] = Empty], n, n)

erase(table, id) ==
  LET i == find_slot(table, id)
  IN IF i = kNoSlot THEN table
     ELSE BackShift([table EXCEPT ![i] = Empty], i, i)

-----------------------------------------------------------------------------

(* Fault: one identifier too few is remembered.                             *)
FaultFullEarly == count + 1 = Capacity

HistoryFull == count = Capacity

Init ==
  /\ home \in [Ids -> Homes]
  /\ slots = [i \in 0..(kTableSize - 1) |-> Empty]
  /\ ring = [i \in 0..(Capacity - 1) |-> 0]
  /\ ring_head = 0
  /\ count = 0

insert(id) ==
  LET table == IF HistoryFull THEN erase(slots, ring[ring_head]) ELSE slots
      first == IF HistoryFull THEN (ring_head + 1) % Capacity ELSE ring_head
      kept == IF HistoryFull THEN count - 1 ELSE count
  IN IF contains(id) THEN UNCHANGED vars
     ELSE /\ slots' = table_insert(table, id)
          /\ ring' = [ring EXCEPT ![(first + kept) % Capacity] = id]
          /\ ring_head' = first
          /\ count' = kept + 1
          /\ UNCHANGED home

clear ==
  /\ slots' = [i \in 0..(kTableSize - 1) |-> Empty]
  /\ count' = 0
  /\ ring_head' = 0
  /\ UNCHANGED <<home, ring>>

Next == clear \/ \E id \in Ids : insert(id)

Spec == Init /\ [][Next]_vars

-----------------------------------------------------------------------------

Recent == [i \in 1..count |-> ring[(ring_head + i - 1) % Capacity]]

(* The table and the ring never disagree: a probe finds exactly the         *)
(* identifiers the ring remembers, each is stored once, and a free slot is  *)
(* left for every probe to stop at, however the clusters were shifted.      *)
TableMatchesRing ==
  /\ \A id \in Ids : contains(id) <=> Contains(Recent, id)
  /\ Cardinality({i \in DOMAIN slots : slots[i] # Empty}) = count
  /\ \E i \in DOMAIN slots : slots[i] = Empty

History == INSTANCE RetiredHistory WITH recent <- Recent

(* insert and clear are those of the bounded history of distinct            *)
(* identifiers: re-inserting keeps the place, and the oldest is evicted.    *)
ImplementsRetiredHistory == History!Spec

=============================================================================
