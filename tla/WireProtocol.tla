---------------------------- MODULE WireProtocol ----------------------------
(***************************************************************************)
(* The five binary messages of the Wire_Protocol, as records.  The commands *)
(* NewOrder and CancelOrder travel towards the engine, the events Trade,    *)
(* Ack and Reject away from it.  Field names are those of the C++ structs   *)
(* and of their Rust mirror.                                                *)
(***************************************************************************)
EXTENDS Naturals

Sides == {"Buy", "Sell"}

Opposite(side) == IF side = "Buy" THEN "Sell" ELSE "Buy"

AckKinds == {"Accepted", "Cancelled"}

RejectReasons ==
  {"InvalidQuantity", "InvalidPrice", "OrderNotFound", "NoLongerResting",
   "IntegrityViolation"}

NewOrder(id, side, price, seq, qty) ==
  [type |-> "NewOrder", order_id |-> id, side |-> side, price_ticks |-> price,
   seq |-> seq, quantity |-> qty]

CancelOrder(id) == [type |-> "CancelOrder", order_id |-> id]

(* Fault: the two parties of a trade are swapped.                           *)
FaultSwapParties(exec, price, qty, incoming, resting) ==
  [type |-> "Trade", exec_seq |-> exec, price_ticks |-> price,
   quantity |-> qty, incoming_id |-> resting, resting_id |-> incoming]

Trade(exec, price, qty, incoming, resting) ==
  [type |-> "Trade", exec_seq |-> exec, price_ticks |-> price,
   quantity |-> qty, incoming_id |-> incoming, resting_id |-> resting]

Ack(id, kind) == [type |-> "Ack", order_id |-> id, kind |-> kind]

Reject(id, reason) == [type |-> "Reject", order_id |-> id, reason |-> reason]

TradeEvents ==
  [type : {"Trade"}, exec_seq : Nat, price_ticks : Nat, quantity : Nat,
   incoming_id : Nat, resting_id : Nat]

AckEvents == [type : {"Ack"}, order_id : Nat, kind : AckKinds]

RejectEvents == [type : {"Reject"}, order_id : Nat, reason : RejectReasons]

Events == TradeEvents \cup AckEvents \cup RejectEvents

=============================================================================
