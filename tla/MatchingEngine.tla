--------------------------- MODULE MatchingEngine ---------------------------
(***************************************************************************)
(* The matching core: price-time matching of an incoming order, resting of  *)
(* the remainder, validation and cancellation.                              *)
(*                                                                          *)
(* process_new_order is a loop that delivers one Trade per iteration to the *)
(* caller's sink.  Here an iteration is a step, so what is true between two *)
(* trades can be stated; the engine is single threaded, and no other call   *)
(* starts while `incoming` is an order.                                     *)
(***************************************************************************)
EXTENDS PriceTimeBook

CONSTANT NoOrder     \* value of `incoming` between calls

VARIABLES
  retired,           \* identifiers that left the book, the retired_ history
  next_exec_seq,     \* execution sequence number of the next trade
  incoming,          \* the NewOrder being matched, or NoOrder
  remaining,         \* its unmatched quantity
  emitted            \* events delivered to the sinks by the latest call

History == INSTANCE RetiredHistory WITH Capacity <- MaxOrders, recent <- retired

coreVars == <<book, retired, next_exec_seq, incoming, remaining, emitted>>

(* Inbound values one past each end of the valid ranges are included.       *)
NewOrders ==
  [type : {"NewOrder"}, order_id : Ids, side : Sides,
   price_ticks : 0..(MaxPriceTicks + 1), seq : Seqs,
   quantity : 0..(MaxQuantity + 1)]

ASSUME NoOrderAssumption == NoOrder \notin NewOrders

-----------------------------------------------------------------------------

(* Fault: an order at exactly the limit price is not eligible.              *)
FaultStrictCross(side, limit, resting) ==
  IF side = "Buy" THEN resting < limit ELSE resting > limit

price_crosses(side, limit, resting) ==
  IF side = "Buy" THEN resting <= limit ELSE resting >= limit

QuantityInRange(m) == m.quantity \in 1..MaxQuantity

PriceInRange(m) == m.price_ticks \in 1..MaxPriceTicks

validate_new_order(m) == QuantityInRange(m) /\ PriceInRange(m)

(* Quantity is checked first, so an order violating both reports it.        *)
InvalidReason(m) ==
  IF QuantityInRange(m) THEN "InvalidPrice" ELSE "InvalidQuantity"

Idle == incoming = NoOrder

(* The loop continues: quantity left, and the best opposite order eligible. *)
CanMatch ==
  LET opp == book[Opposite(incoming.side)]
  IN /\ remaining > 0
     /\ opp # << >>
     /\ price_crosses(incoming.side, incoming.price_ticks, opp[1].price_ticks)

-----------------------------------------------------------------------------

RejectNewOrder(m) ==
  /\ Idle
  /\ ~ validate_new_order(m)
  /\ emitted' = << Reject(m.order_id, InvalidReason(m)) >>
  /\ UNCHANGED <<book, retired, next_exec_seq, incoming, remaining>>

(* Fault: every order numbers its executions from the start.                *)
FaultNumberPerOrder(m) ==
  /\ Idle
  /\ validate_new_order(m)
  /\ incoming' = m
  /\ remaining' = m.quantity
  /\ next_exec_seq' = 1
  /\ emitted' = << >>
  /\ UNCHANGED <<book, retired>>

StartNewOrder(m) ==
  /\ Idle
  /\ validate_new_order(m)
  /\ incoming' = m
  /\ remaining' = m.quantity
  /\ emitted' = << >>
  /\ UNCHANGED <<book, retired, next_exec_seq>>

(* One iteration: trade with the front of the best opposite level at its    *)
(* price; a filled resting order is retired and leaves the book.            *)
MatchOne ==
  LET opp == Opposite(incoming.side)
      resting == book[opp][1]
      qty == IF remaining <= resting.remaining_qty
             THEN remaining ELSE resting.remaining_qty
  IN /\ ~ Idle
     /\ CanMatch
     /\ emitted' = Append(emitted, Trade(next_exec_seq, resting.price_ticks, qty,
                                         incoming.order_id, resting.order_id))
     /\ next_exec_seq' = next_exec_seq + 1
     /\ remaining' = remaining - qty
     /\ \/ /\ qty = resting.remaining_qty
           /\ History!insert(resting.order_id)
           /\ remove_order(opp, 1)
        \/ /\ qty < resting.remaining_qty
           /\ reduce_front(opp, qty)
           /\ UNCHANGED retired
     /\ UNCHANGED incoming

(* Fault: the call waits for the book to take the remainder.                *)
FaultWaitForRoom ==
  IF remaining > 0 /\ ~ CanInsert(incoming.side, incoming.price_ticks)
  THEN UNCHANGED <<incoming, remaining>>
  ELSE incoming' = NoOrder /\ remaining' = 0

Return == incoming' = NoOrder /\ remaining' = 0

(* After the loop a remainder rests at its own limit price.  The result of  *)
(* insert_order is ignored: with a pool exhausted the remainder is gone.    *)
RestRemainder ==
  /\ ~ Idle
  /\ ~ CanMatch
  /\ IF remaining > 0
     THEN insert_order(incoming.side,
                       [order_id |-> incoming.order_id, seq |-> incoming.seq,
                        price_ticks |-> incoming.price_ticks,
                        remaining_qty |-> remaining])
     ELSE UNCHANGED book
  /\ Return
  /\ UNCHANGED <<retired, next_exec_seq, emitted>>

CancelResting(id) ==
  /\ Idle
  /\ IsResting(id)
  /\ remove_order(SideOf(id), PositionOf(SideOf(id), id))
  /\ History!insert(id)
  /\ emitted' = << Ack(id, "Cancelled") >>
  /\ UNCHANGED <<next_exec_seq, incoming, remaining>>

CancelMiss(id) ==
  /\ Idle
  /\ ~ IsResting(id)
  /\ emitted' = << Reject(id, IF History!contains(id) THEN "NoLongerResting"
                                                      ELSE "OrderNotFound") >>
  /\ UNCHANGED <<book, retired, next_exec_seq, incoming, remaining>>

(* The part of EngineProcessor::initialize that touches the core.  The      *)
(* execution sequence is not reset.                                         *)
ResetCore ==
  /\ Idle
  /\ clear
  /\ History!clear
  /\ emitted' = << >>
  /\ UNCHANGED <<next_exec_seq, incoming, remaining>>

CoreInit ==
  /\ BookInit
  /\ retired = << >>
  /\ next_exec_seq = 1
  /\ incoming = NoOrder
  /\ remaining = 0
  /\ emitted = << >>

Next ==
  \/ \E m \in NewOrders : RejectNewOrder(m) \/ StartNewOrder(m)
  \/ MatchOne
  \/ RestRemainder
  \/ \E id \in Ids : CancelResting(id) \/ CancelMiss(id)
  \/ ResetCore

Spec == CoreInit /\ [][Next]_coreVars

(* A call that started runs to its end: nothing preempts the loop.          *)
FairSpec == Spec /\ WF_coreVars(MatchOne \/ RestRemainder)

-----------------------------------------------------------------------------

TypeOK ==
  /\ BookTypeOK
  /\ retired \in Seq(Ids) /\ Len(retired) <= MaxOrders
  /\ next_exec_seq \in Nat \ {0}
  /\ incoming \in NewOrders \cup {NoOrder}
  /\ remaining \in 0..MaxQuantity
  /\ emitted \in Seq(Events)

(* The book is never crossed, not even between two trades of one incoming   *)
(* order: process_new_order rests a remainder only when no opposite order   *)
(* is eligible, and the best level speaks for all the others.               *)
Uncrossed ==
  \A i \in 1..Len(book["Buy"]), j \in 1..Len(book["Sell"]) :
    book["Buy"][i].price_ticks < book["Sell"][j].price_ticks

(* A step that delivers a trade.                                            *)
Trades == Len(emitted') > Len(emitted) /\ Last(emitted').type = "Trade"

(* The trade names a resting order at its own limit price, inside the       *)
(* incoming order's limit, for no more than it has, and no order resting on *)
(* that side at that moment is strictly ahead of it.                        *)
WithBestOrder(t) ==
  LET side == Opposite(incoming.side)
  IN \E i \in 1..Len(book[side]) :
       /\ book[side][i].order_id = t.resting_id
       /\ book[side][i].price_ticks = t.price_ticks
       /\ price_crosses(incoming.side, incoming.price_ticks, t.price_ticks)
       /\ t.quantity \in 1..book[side][i].remaining_qty
       /\ \A j \in 1..Len(book[side]) : ~ Ahead(side, book[side][j], book[side][i])

(* Price-time priority, seen from the trades process_new_order delivers:    *)
(* each is with the best eligible order of the moment.                      *)
PriceTimePriority == [][Trades => WithBestOrder(Last(emitted'))]_coreVars

(* Every accepted order leaves the match loop: each iteration uses up the   *)
(* incoming quantity or removes a resting order.                            *)
MatchingEnds == ~ Idle ~> Idle

=============================================================================
