----------------------------- MODULE OrderBook -----------------------------
(***************************************************************************)
(* The Order_Book as it is stored: a pool of order nodes and a pool of      *)
(* price levels with their free lists, doubly linked levels per side and a  *)
(* doubly linked FIFO of orders per level.  It implements PriceTimeBook.    *)
(*                                                                          *)
(* A pool is a record of its slots, the next_free links, free_head and      *)
(* in_use.  A slot that is not in use is given the value of a fresh slot:   *)
(* whoever acquires a slot writes all of it before it is linked.            *)
(***************************************************************************)
EXTENDS WireProtocol, SequencesExt

CONSTANTS
  Ids, Seqs, MaxPriceTicks, MaxQuantity, MaxOrders, MaxPriceLevels,
  Offered       \* the orders callers insert: records of the arguments

VARIABLES
  orders,    \* FreeListPool<RestingOrder, MaxOrders>
  levels,    \* FreeListPool<PriceLevel, MaxPriceLevels>
  heads      \* bid_head_ and ask_head_, by side

vars == <<orders, levels, heads>>

(* kNullNode: an index no pool has.                                         *)
Null == 1000000

Nodes == 0..(MaxOrders - 1)

LevelNodes == 0..(MaxPriceLevels - 1)

NilOrder ==
  [order_id |-> 0, seq |-> 0, price_ticks |-> 0, remaining_qty |-> 0,
   side |-> "Buy", next |-> Null, prev |-> Null]

NilLevel ==
  [price_ticks |-> 0, order_count |-> 0, head |-> Null, tail |-> Null,
   next_level |-> Null, prev_level |-> Null]

-----------------------------------------------------------------------------
(* FreeListPool.                                                            *)

reset(fresh, capacity) ==
  [slots |-> [i \in 0..(capacity - 1) |-> fresh],
   next_free |-> [i \in 0..(capacity - 1) |-> IF i + 1 = capacity THEN Null ELSE i + 1],
   free_head |-> 0,
   in_use |-> 0]

full(pool, capacity) == pool.in_use = capacity

(* acquire hands out pool.free_head; the caller fills the slot.  What the   *)
(* code leaves in a free slot, and in next_free of a used one, is written   *)
(* before it is read again; here both are cleared.                          *)
acquire(pool, value) ==
  [pool EXCEPT !.free_head = pool.next_free[pool.free_head],
               !.next_free[pool.free_head] = Null,
               !.in_use = @ + 1,
               !.slots[pool.free_head] = value]

release(pool, index, fresh) ==
  [pool EXCEPT !.next_free[index] = pool.free_head,
               !.free_head = index,
               !.in_use = @ - 1,
               !.slots[index] = fresh]

(* A write to one field of a slot, skipped for kNullNode.                   *)
Put(slots, n, field, value) ==
  IF n = Null THEN slots ELSE [slots EXCEPT ![n][field] = value]

(* Fault: only the forward link is repaired.                                *)
FaultForwardOnly(slots, node, fwd, back) ==
  Put(slots, slots[node][back], fwd, slots[node][fwd])

(* The neighbours of a node are linked to each other.                       *)
Bypass(slots, node, fwd, back) ==
  Put(Put(slots, slots[node][back], fwd, slots[node][fwd]),
      slots[node][fwd], back, slots[node][back])

-----------------------------------------------------------------------------

price_ranks_first(side, a, b) == IF side = "Buy" THEN a > b ELSE a < b

(* Fault: of two orders with one sequence number the later goes first.      *)
FaultLaterFirst(x, y) == x.seq <= y.seq

has_priority_over(x, y) ==
  \/ x.seq < y.seq
  \/ x.seq = y.seq /\ x.order_id < y.order_id

(* Walk the sorted levels of a side; stop early once the price would rank   *)
(* ahead of the current level.                                              *)
locate_level(side, price) ==
  LET walk[l \in LevelNodes \cup {Null}] ==
        IF l = Null THEN Null
        ELSE LET lv == levels.slots[l]
             IN IF lv.price_ticks = price THEN l
                ELSE IF price_ranks_first(side, price, lv.price_ticks) THEN Null
                ELSE walk[lv.next_level]
  IN walk[heads[side]]

(* The <<prev, cur>> pair between which a missing level is linked.          *)
InsertionPoint(side, price) ==
  LET walk[p \in (LevelNodes \cup {Null}) \X (LevelNodes \cup {Null})] ==
        IF p[2] = Null THEN p
        ELSE LET lv == levels.slots[p[2]]
             IN IF price_ranks_first(side, price, lv.price_ticks) THEN p
                ELSE walk[<<p[2], lv.next_level>>]
  IN walk[<<Null, heads[side]>>]

(* The pool of levels and the list heads after find_or_create_level made a  *)
(* level for the price.                                                     *)
CreateLevel(side, price) ==
  LET at == InsertionPoint(side, price)
      node == levels.free_head
      made == acquire(levels, [NilLevel EXCEPT !.price_ticks = price,
                                               !.prev_level = at[1],
                                               !.next_level = at[2]])
      linked == Put(Put(made.slots, at[1], "next_level", node),
                    at[2], "prev_level", node)
  IN [levels |-> [made EXCEPT !.slots = linked],
      heads |-> IF at[1] = Null THEN [heads EXCEPT ![side] = node] ELSE heads]

(* The order after which `o` goes: scanning back from the tail, the first   *)
(* one it has no priority over.                                             *)
ScanBack(level, o) ==
  LET walk[n \in Nodes \cup {Null}] ==
        IF n = Null THEN Null
        ELSE IF has_priority_over(o, orders.slots[n]) THEN walk[orders.slots[n].prev]
        ELSE n
  IN walk[level.tail]

(* insert_into_level: the order pool with the node acquired and linked, and *)
(* the level with its ends and its count.                                   *)
LinkOrder(level, o) ==
  LET cur == ScanBack(level, o)
      node == orders.free_head
      next == IF cur = Null THEN level.head ELSE orders.slots[cur].next
      made == acquire(orders, [o EXCEPT !.prev = cur, !.next = next])
      linked == Put(Put(made.slots, cur, "next", node), next, "prev", node)
  IN [orders |-> [made EXCEPT !.slots = linked],
      level |-> [level EXCEPT !.head = IF cur = Null THEN node ELSE @,
                              !.tail = IF next = Null THEN node ELSE @,
                              !.order_count = @ + 1]]

insert_order(id, side, price, seq, qty) ==
  LET found == locate_level(side, price)
      made == CreateLevel(side, price)
      l == IF found # Null THEN found ELSE levels.free_head
      lvls == IF found # Null THEN levels ELSE made.levels
      put == LinkOrder(lvls.slots[l],
                       [NilOrder EXCEPT !.order_id = id, !.seq = seq, !.side = side,
                          !.price_ticks = price, !.remaining_qty = qty])
  IN IF full(orders, MaxOrders) \/ (found = Null /\ full(levels, MaxPriceLevels))
     THEN UNCHANGED vars
     ELSE /\ orders' = put.orders
          /\ levels' = [lvls EXCEPT !.slots[l] = put.level]
          /\ heads' = IF found # Null THEN heads ELSE made.heads

(* unlink_from_level and release the node; an emptied level is unlinked and *)
(* released too.                                                            *)
remove_order(node) ==
  LET o == orders.slots[node]
      l == locate_level(o.side, o.price_ticks)
      lv == [levels.slots[l] EXCEPT !.head = IF o.prev = Null THEN o.next ELSE @,
                                    !.tail = IF o.next = Null THEN o.prev ELSE @,
                                    !.order_count = @ - 1]
      unlinked == Bypass(orders.slots, node, "next", "prev")
      lvls == [levels EXCEPT !.slots[l] = lv]
      bypassed == Bypass(lvls.slots, l, "next_level", "prev_level")
  IN /\ orders' = release([orders EXCEPT !.slots = unlinked], node, NilOrder)
     /\ \/ /\ lv.order_count > 0
           /\ levels' = lvls
           /\ UNCHANGED heads
        \/ /\ lv.order_count = 0
           /\ levels' = release([lvls EXCEPT !.slots = bypassed], l, NilLevel)
           /\ heads' = IF lv.prev_level = Null
                       THEN [heads EXCEPT ![o.side] = lv.next_level] ELSE heads

(* A partial fill writes the front order through order_at().                *)
reduce(node, qty) ==
  /\ orders' = [orders EXCEPT !.slots[node].remaining_qty = @ - qty]
  /\ UNCHANGED <<levels, heads>>

clear ==
  /\ orders' = reset(NilOrder, MaxOrders)
  /\ levels' = reset(NilLevel, MaxPriceLevels)
  /\ heads' = [side \in Sides |-> Null]

-----------------------------------------------------------------------------
(* The lists the links spell out, head to tail.  The budget cuts a walk     *)
(* over a corrupt, cyclic list short.                                       *)

Walk(link, start, capacity) ==
  LET from[k, n \in Nat] ==
        IF n = Null \/ k = 0 THEN << >> ELSE << n >> \o from[k - 1, link[n]]
  IN from[capacity, start]

LevelsOf(side) ==
  Walk([l \in LevelNodes |-> levels.slots[l].next_level], heads[side], MaxPriceLevels)

OrdersOf(level) ==
  Walk([n \in Nodes |-> orders.slots[n].next], levels.slots[level].head, MaxOrders)

NodesOf(side) ==
  LET from[k, l \in Nat] ==
        IF l = Null \/ k = 0 THEN << >>
        ELSE OrdersOf(l) \o from[k - 1, levels.slots[l].next_level]
  IN from[MaxPriceLevels, heads[side]]

(* Bids before asks, best level first, FIFO inside a level; kNullNode when  *)
(* the identifier is not resting.                                           *)
find_order(id) ==
  LET all == NodesOf("Buy") \o NodesOf("Sell")
      at == SelectInSeq(all, LAMBDA n : orders.slots[n].order_id = id)
  IN IF at = 0 THEN Null ELSE all[at]

-----------------------------------------------------------------------------

Init ==
  /\ orders = reset(NilOrder, MaxOrders)
  /\ levels = reset(NilLevel, MaxPriceLevels)
  /\ heads = [side \in Sides |-> Null]

(* The engine removes the front order of a side it filled, or the order     *)
(* find_order returned for a cancelled identifier.                          *)
Next ==
  \/ \E o \in Offered :
       insert_order(o.order_id, o.side, o.price_ticks, o.seq, o.remaining_qty)
  \/ \E id \in Ids :
       LET node == find_order(id) IN node # Null /\ remove_order(node)
  \/ \E side \in Sides :
       /\ heads[side] # Null
       /\ LET front == levels.slots[heads[side]].head
          IN \/ remove_order(front)
             \/ \E qty \in 1..(orders.slots[front].remaining_qty - 1) : reduce(front, qty)
  \/ clear

Spec == Init /\ [][Next]_vars

-----------------------------------------------------------------------------

(* The pools lose and share no slot: the free list and the two sides'       *)
(* lists partition the slots, each slot is in one list once, in_use counts  *)
(* the slots in use, and no level is empty.                                 *)
PoolsPartitioned ==
  LET freeO == Walk(orders.next_free, orders.free_head, MaxOrders)
      liveO == NodesOf("Buy") \o NodesOf("Sell")
      freeL == Walk(levels.next_free, levels.free_head, MaxPriceLevels)
      liveL == LevelsOf("Buy") \o LevelsOf("Sell")
  IN /\ IsInjective(freeO \o liveO) /\ ToSet(freeO \o liveO) = Nodes
     /\ IsInjective(freeL \o liveL) /\ ToSet(freeL \o liveL) = LevelNodes
     /\ orders.in_use = Len(liveO) /\ levels.in_use = Len(liveL)
     /\ \A i \in 1..Len(liveL) :
          /\ levels.slots[liveL[i]].order_count = Len(OrdersOf(liveL[i]))
          /\ levels.slots[liveL[i]].order_count > 0

(* The backward links, which only removals and out-of-order insertions use, *)
(* mirror the forward ones, and a level's tail is the end of its list.      *)
LinksMirrored ==
  LET Mirrored(list, back) ==
        \A i \in 1..Len(list) : back[list[i]] = IF i = 1 THEN Null ELSE list[i - 1]
  IN \A side \in Sides :
       LET ls == LevelsOf(side)
       IN /\ Mirrored(ls, [l \in LevelNodes |-> levels.slots[l].prev_level])
          /\ \A i \in 1..Len(ls) :
               LET os == OrdersOf(ls[i])
               IN /\ Mirrored(os, [n \in Nodes |-> orders.slots[n].prev])
                  /\ levels.slots[ls[i]].tail = Last(os)

(* Long runs of insertions, fills and cancellations, at full pools too,     *)
(* lose and share no slot and leave every link with its mirror image.       *)
StorageConsistent == PoolsPartitioned /\ LinksMirrored

Shown(o) ==
  [order_id |-> o.order_id, seq |-> o.seq, price_ticks |-> o.price_ticks,
   remaining_qty |-> o.remaining_qty]

(* Refinement mapping: a side is the contents of its levels' orders, in     *)
(* list order.                                                              *)
Contents(side) ==
  LET queue[k, n \in Nat] ==
        IF n = Null \/ k = 0 THEN << >>
        ELSE << Shown(orders.slots[n]) >> \o queue[k - 1, orders.slots[n].next]
      from[k, l \in Nat] ==
        IF l = Null \/ k = 0 THEN << >>
        ELSE queue[MaxOrders, levels.slots[l].head] \o from[k - 1, levels.slots[l].next_level]
  IN from[MaxPriceLevels, heads[side]]

View == [side \in Sides |-> Contents(side)]

=============================================================================
