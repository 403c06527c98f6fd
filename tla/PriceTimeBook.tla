--------------------------- MODULE PriceTimeBook ---------------------------
(***************************************************************************)
(* What the Order_Book promises: on each side a list of resting orders in   *)
(* price-time priority, best first, inside two fixed capacities.            *)
(*                                                                          *)
(* The C++ book keeps a sorted list of price levels per side and a FIFO of  *)
(* orders inside each level; here a side is the concatenation of its FIFOs. *)
(* Module OrderBook models the pools and the links, and implements this.    *)
(***************************************************************************)
EXTENDS WireProtocol, Lists, FiniteSetsExt

CONSTANTS
  Ids,             \* order identifiers
  Seqs,            \* arrival sequence numbers
  MaxPriceTicks,   \* greatest valid price, kMaxPriceTicks
  MaxQuantity,     \* greatest quantity the engine accepts, kMaxEngineQuantity
  MaxOrders,       \* capacity of the resting-order pool, both sides together
  MaxPriceLevels   \* capacity of the price-level pool, both sides together

ASSUME BookAssumption ==
  /\ Ids \subseteq Nat
  /\ Seqs \subseteq Nat
  /\ MaxPriceTicks \in Nat \ {0}
  /\ MaxQuantity \in Nat \ {0}
  /\ MaxOrders \in Nat \ {0}
  /\ MaxPriceLevels \in Nat \ {0}

VARIABLE book      \* [Sides -> sequence of resting orders, best first]

RestingOrders ==
  [order_id : Ids, seq : Seqs, price_ticks : 1..MaxPriceTicks,
   remaining_qty : 1..MaxQuantity]

-----------------------------------------------------------------------------

price_ranks_first(side, a, b) == IF side = "Buy" THEN a > b ELSE a < b

has_priority_over(x, y) ==
  \/ x.seq < y.seq
  \/ x.seq = y.seq /\ x.order_id < y.order_id

(* x is strictly ahead of y on the given side: better price, or same price  *)
(* and earlier (seq, order_id).                                             *)
Ahead(side, x, y) ==
  \/ price_ranks_first(side, x.price_ticks, y.price_ticks)
  \/ x.price_ticks = y.price_ticks /\ has_priority_over(x, y)

Prices(side) == {book[side][i].price_ticks : i \in DOMAIN book[side]}

order_count == Len(book["Buy"]) + Len(book["Sell"])

level_count == Cardinality(Prices("Buy")) + Cardinality(Prices("Sell"))

(* insert_order refuses when there is no order slot, or when the price has  *)
(* no level yet and there is no level slot.                                 *)
CanInsert(side, price) ==
  /\ order_count < MaxOrders
  /\ price \in Prices(side) \/ level_count < MaxPriceLevels

(* Fault: levels are sorted by price, and orders of a level by arrival.     *)
FaultArrivalOrder(side, o) ==
  LET s == book[side]
      worse == {i \in 1..Len(s) :
                  price_ranks_first(side, o.price_ticks, s[i].price_ticks)}
  IN IF worse = {} THEN Len(s) + 1 ELSE Min(worse)

(* Fault: a new order goes behind everything on its side.                   *)
FaultInsertLast(side, o) == Len(book[side]) + 1

(* A new order goes before the first resting order it is ahead of, hence    *)
(* behind the ones with its own (price, seq, order_id).                     *)
InsertPosition(side, o) ==
  LET s == book[side]
      worse == {i \in 1..Len(s) : Ahead(side, o, s[i])}
  IN IF worse = {} THEN Len(s) + 1 ELSE Min(worse)

insert_order(side, o) ==
  IF CanInsert(side, o.price_ticks)
  THEN book' = [book EXCEPT ![side] =
                  InsertAt(book[side], InsertPosition(side, o), o)]
  ELSE UNCHANGED book

remove_order(side, i) == book' = [book EXCEPT ![side] = RemoveAt(book[side], i)]

(* Fault: a partial fill is not written back.                               *)
FaultReduceNothing(side, qty) == UNCHANGED book

(* The engine's writes through order_at(): a partial fill of the front.     *)
reduce_front(side, qty) ==
  book' = [book EXCEPT ![side][1].remaining_qty = @ - qty]

clear == book' = [side \in Sides |-> << >>]

(* find_order: every bid is looked at before any ask, best first.  The      *)
(* position is 0 when the identifier is not resting on that side.           *)
PositionOf(side, id) ==
  LET here == {i \in 1..Len(book[side]) : book[side][i].order_id = id}
  IN IF here = {} THEN 0 ELSE Min(here)

SideOf(id) == IF PositionOf("Buy", id) # 0 THEN "Buy" ELSE "Sell"

IsResting(id) == PositionOf(SideOf(id), id) # 0

-----------------------------------------------------------------------------
(* The book on its own, driven by any caller.                               *)

BookInit == book = [side \in Sides |-> << >>]

BookNext ==
  \/ \E side \in Sides, o \in RestingOrders : insert_order(side, o)
  \/ \E side \in Sides : \E i \in 1..Len(book[side]) : remove_order(side, i)
  \/ \E side \in Sides :
       /\ book[side] # << >>
       /\ \E qty \in 1..(book[side][1].remaining_qty - 1) : reduce_front(side, qty)
  \/ clear

BookSpec == BookInit /\ [][BookNext]_book

-----------------------------------------------------------------------------

BookTypeOK ==
  /\ book \in [Sides -> Seq(RestingOrders)]
  /\ order_count <= MaxOrders
  /\ level_count <= MaxPriceLevels

(* Each side is in price-time order: no resting order is strictly ahead of  *)
(* one that stands before it.                                               *)
BookSorted ==
  \A side \in Sides : \A i, j \in 1..Len(book[side]) :
    i < j => ~ Ahead(side, book[side][j], book[side][i])

=============================================================================
