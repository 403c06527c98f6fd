------------------------------ MODULE CppCodec ------------------------------
(***************************************************************************)
(* The engine's codec, cpp/codec.                                           *)
(***************************************************************************)
EXTENDS Naturals, Sequences

CONSTANTS
  ByteSpace, WideBytes, NarrowBytes,     \* 256, and the widths of u64 and u32
  kMaxPriceTicks, kMaxGatewayQuantity    \* greatest values of the wire protocol

MessageType == <<"NewOrder", "CancelOrder", "Trade", "Ack", "Reject">>

Layout ==
  [NewOrder |-> <<"order_id", "side", "price_ticks", "quantity", "seq">>,
   CancelOrder |-> <<"order_id">>,
   Trade |-> <<"exec_seq", "price_ticks", "quantity", "incoming_id", "resting_id">>,
   Ack |-> <<"order_id", "kind">>,
   Reject |-> <<"order_id", "reason">>]

Width ==
  [f \in {"order_id", "price_ticks", "seq", "exec_seq", "incoming_id", "resting_id",
          "quantity", "side", "kind", "reason"} |->
     CASE f = "quantity" -> NarrowBytes
       [] f \in {"side", "kind", "reason"} -> 1
       [] OTHER -> WideBytes]

Discriminators ==
  [side |-> <<"Buy", "Sell">>,
   kind |-> <<"Accepted", "Cancelled">>,
   reason |-> <<"InvalidPrice", "InvalidQuantity", "OrderNotFound", "NoLongerResting",
                "IntegrityViolation">>]

INSTANCE Codec WITH Types <- MessageType, FieldsOf <- Layout, WidthOf <- Width,
                    Enumerated <- Discriminators

price_ticks_in_range(ticks) == 1 <= ticks /\ ticks <= kMaxPriceTicks

quantity_in_range(qty) == 1 <= qty /\ qty <= kMaxGatewayQuantity

InRange(msg) ==
  msg.type \in {"NewOrder", "Trade"} =>
    price_ticks_in_range(msg.price_ticks) /\ quantity_in_range(msg.quantity)

-----------------------------------------------------------------------------

(* The room is looked at before the fields.                                 *)
encode(msg, room) ==
  IF room < LenOf(msg.type) THEN Err("InsufficientLength")
  ELSE IF ~ InRange(msg) THEN Err("FieldOutOfRange")
  ELSE Ok(Written(msg))

decode(bytes) ==
  IF bytes = << >> THEN Err("InsufficientLength")
  ELSE IF ~ Known(bytes[1]) THEN Err("UnknownType")
  ELSE IF Len(bytes) < LenOf(TypeOf(bytes)) THEN Err("InsufficientLength")
  ELSE IF Len(bytes) > LenOf(TypeOf(bytes)) THEN Err("ExcessTrailingBytes")
  ELSE IF ~ Named(bytes) \/ ~ InRange(Read(bytes)) THEN Err("FieldOutOfRange")
  ELSE Ok(Read(bytes))

=============================================================================
