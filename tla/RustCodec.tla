----------------------------- MODULE RustCodec -----------------------------
(***************************************************************************)
(* The gateway's codec, codec/src/lib.rs.  Its tables are written out here  *)
(* as they are there: that they agree with the engine's is what the run     *)
(* checks.                                                                  *)
(***************************************************************************)
EXTENDS Naturals, Sequences

CONSTANTS
  ByteSpace, WideBytes, NarrowBytes,
  MAX_PRICE_TICKS, MAX_GATEWAY_QUANTITY, MAX_ENGINE_QUANTITY

MessageType == <<"NewOrder", "CancelOrder", "Trade", "Ack", "Reject">>

(* The order of the writes of encode, and of the reads of decode.           *)
Layout ==
  [NewOrder |-> <<"order_id", "side", "price_ticks", "quantity", "seq">>,
   CancelOrder |-> <<"order_id">>,
   Trade |-> <<"exec_seq", "price_ticks", "quantity", "incoming_id", "resting_id">>,
   Ack |-> <<"order_id", "kind">>,
   Reject |-> <<"order_id", "reason">>]

Width ==
  [f \in {"order_id", "price_ticks", "seq", "exec_seq", "incoming_id", "resting_id",
          "quantity", "side", "kind", "reason"} |->
     CASE f = "quantity" -> NarrowBytes
       [] f \in {"side", "kind", "reason"} -> 1
       [] OTHER -> WideBytes]

(* Fault: the reasons are numbered in another order.                        *)
FaultReasonOrder ==
  [side |-> <<"Buy", "Sell">>,
   kind |-> <<"Accepted", "Cancelled">>,
   reason |-> <<"InvalidQuantity", "InvalidPrice", "OrderNotFound", "NoLongerResting",
                "IntegrityViolation">>]

Discriminators ==
  [side |-> <<"Buy", "Sell">>,
   kind |-> <<"Accepted", "Cancelled">>,
   reason |-> <<"InvalidPrice", "InvalidQuantity", "OrderNotFound", "NoLongerResting",
                "IntegrityViolation">>]

INSTANCE Codec WITH Types <- MessageType, FieldsOf <- Layout, WidthOf <- Width,
                    Enumerated <- Discriminators

check_price(ticks) == 1 <= ticks /\ ticks <= MAX_PRICE_TICKS

(* Fault: the engine's own limit is applied on the wire.                    *)
FaultEngineQuantity(qty) == 1 <= qty /\ qty <= MAX_ENGINE_QUANTITY

check_quantity(qty) == 1 <= qty /\ qty <= MAX_GATEWAY_QUANTITY

validate_fields(msg) ==
  msg.type \in {"NewOrder", "Trade"} =>
    check_price(msg.price_ticks) /\ check_quantity(msg.quantity)

-----------------------------------------------------------------------------

(* The fields are looked at before the room.                                *)
encode(msg, room) ==
  IF ~ validate_fields(msg) THEN Err("FieldOutOfRange")
  ELSE IF room < LenOf(msg.type) THEN Err("InsufficientLength")
  ELSE Ok(Written(msg))

decode(bytes) ==
  IF bytes = << >> THEN Err("InsufficientLength")
  ELSE IF ~ Known(bytes[1]) THEN Err("UnknownType")
  ELSE IF Len(bytes) < LenOf(TypeOf(bytes)) THEN Err("InsufficientLength")
  ELSE IF Len(bytes) > LenOf(TypeOf(bytes)) THEN Err("ExcessTrailingBytes")
  ELSE IF ~ Named(bytes) \/ ~ validate_fields(Read(bytes)) THEN Err("FieldOutOfRange")
  ELSE Ok(Read(bytes))

=============================================================================
