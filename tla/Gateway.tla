------------------------------ MODULE Gateway ------------------------------
(***************************************************************************)
(* The request half of the Gateway library: validate a JSON order, settle   *)
(* its identifier, stamp its arrival sequence and produce the NewOrder      *)
(* message to forward.  A request that is refused changes nothing.          *)
(*                                                                          *)
(* A body is a record of its four fields.  A field may be Absent (missing   *)
(* or null) or Malformed (a value of another type).  Prices are written in  *)
(* tenths of a tick, so that the rounding to ticks shows; the floating-     *)
(* point error of the product by 100 is left out.                           *)
(***************************************************************************)
EXTENDS Integers, FiniteSets, WireProtocol

CONSTANTS
  IdSpace,              \* identifiers are 0..IdSpace-1 (u64) and wrap around
  SeqSpace,             \* sequence numbers are 0..SeqSpace-1 (u64) and wrap
  TopPriceTicks,        \* MAX_PRICE_TICKS
  TopGatewayQuantity,   \* MAX_GATEWAY_QUANTITY
  Absent,
  Malformed

ASSUME GatewayAssumption ==
  /\ IdSpace \in Nat /\ IdSpace > 1
  /\ SeqSpace \in Nat \ {0}
  /\ TopPriceTicks \in Nat \ {0}
  /\ TopGatewayQuantity \in Nat \ {0}

VARIABLES
  in_use,          \* identifiers seen in accepted requests or in the journal
  next_auto_id,    \* candidate for the next request without identifier
  next_seq         \* sequence number of the next message

gatewayVars == <<in_use, next_auto_id, next_seq>>

Numbers == 0..(IdSpace - 1)

-----------------------------------------------------------------------------

Invalid(field) == field \in {Absent, Malformed}

parse_side(field) == field \in Sides

(* The raw price is compared with the limits before it is rounded.          *)
InPriceRange(tenths) == 10 <= tenths /\ tenths <= 10 * TopPriceTicks

(* Fault: a price is cut to whole ticks.                                    *)
FaultTruncate(tenths) == tenths \div 10

(* Half a tick rounds away from zero.                                       *)
RoundToTicks(tenths) == (tenths + 5) \div 10

parse_price(field) ==
  /\ ~ Invalid(field)
  /\ InPriceRange(field)
  /\ RoundToTicks(field) \in 1..TopPriceTicks

parse_quantity(field) == ~ Invalid(field) /\ field \in 1..TopGatewayQuantity

(* Fault: an identifier in use is accepted again.                           *)
FaultReuseIds(body) ==
  IF ~ parse_side(body.side) THEN "InvalidSide"
  ELSE IF ~ parse_price(body.price) THEN "InvalidPrice"
  ELSE IF ~ parse_quantity(body.quantity) THEN "InvalidQuantity"
  ELSE IF body.order_id = Malformed THEN "InvalidOrderId"
  ELSE "None"

(* What the request is refused for, or "None"; the first failure is named.  *)
Refusal(body) ==
  IF ~ parse_side(body.side) THEN "InvalidSide"
  ELSE IF ~ parse_price(body.price) THEN "InvalidPrice"
  ELSE IF ~ parse_quantity(body.quantity) THEN "InvalidQuantity"
  ELSE IF body.order_id = Malformed THEN "InvalidOrderId"
  ELSE IF body.order_id \in in_use THEN "DuplicateOrderId"
  ELSE "None"

(* HTTP status of a refusal.                                                *)
http_status(refusal) == IF refusal = "DuplicateOrderId" THEN 409 ELSE 400

(* Fault: the candidate is handed out without looking whether it is free.   *)
FaultCandidate == next_auto_id

(* assign_unique_id: the first free identifier from the candidate on.       *)
FreeId ==
  LET after(k) == (next_auto_id + k) % IdSpace
  IN after(CHOOSE k \in Numbers :
             /\ after(k) \notin in_use
             /\ \A j \in 0..(k - 1) : after(j) \in in_use)

(* The identifier resolve_order_id settles on.                              *)
ResolvedId(body) == IF body.order_id = Absent THEN FreeId ELSE body.order_id

(* The message of an accepted request.                                      *)
MessageFor(body) ==
  NewOrder(ResolvedId(body), body.side, RoundToTicks(body.price), next_seq,
           body.quantity)

StampSeq == next_seq' = (next_seq + 1) % SeqSpace

(* accept_new_order succeeds.  With every identifier in use the search for  *)
(* a free one would not end, hence the second conjunct.                     *)
accept_new_order(body) ==
  /\ Refusal(body) = "None"
  /\ body.order_id = Absent => in_use # Numbers
  /\ in_use' = in_use \cup {ResolvedId(body)}
  /\ next_auto_id' = IF body.order_id = Absent THEN (FreeId + 1) % IdSpace ELSE next_auto_id
  /\ StampSeq

(* reserve, for an identifier found in the journal, followed by             *)
(* new_order_message, which numbers the replayed command anew.              *)
reserve(id) ==
  /\ in_use' = in_use \cup {id}
  /\ next_auto_id' = IF id \notin in_use /\ id >= next_auto_id
                     THEN (id + 1) % IdSpace ELSE next_auto_id
  /\ StampSeq

GatewayInit == in_use = {} /\ next_auto_id = 1 /\ next_seq = 0

=============================================================================
