------------------------------- MODULE MCWire -------------------------------
(***************************************************************************)
(* One byte stream, written by either codec, read by both framers.  The     *)
(* stream is a list of messages followed by a tail that may be no message.  *)
(***************************************************************************)
EXTENDS FrameBuffer

CONSTANTS
  MaxSent,              \* most messages of a stream
  MAX_PRICE_TICKS, MAX_GATEWAY_QUANTITY, MAX_ENGINE_QUANTITY   \* the gateway's limits

VARIABLES
  sent,       \* the messages written
  stream,     \* the bytes of the stream
  received,   \* how many of them the engine's framer was given
  taken,      \* how many of them the gateway's reader took
  frame, stopped, handled

Reader == INSTANCE ReadLoop

mcVars == <<frameVars, sent, stream, received, taken, frame, stopped, handled>>

New(id, side, price, qty, seq) ==
  [type |-> "NewOrder", order_id |-> id, side |-> side, price_ticks |-> price,
   quantity |-> qty, seq |-> seq]

Trade(exec, price, qty) ==
  [type |-> "Trade", exec_seq |-> exec, price_ticks |-> price, quantity |-> qty,
   incoming_id |-> 2, resting_id |-> 7]

(* Each type, with values that fill one and two bytes, at both ends of the  *)
(* ranges.                                                                  *)
Samples ==
  {New(8, "Sell", kMaxPriceTicks, 1, 3), New(0, "Buy", 1, kMaxGatewayQuantity, 35),
   Trade(13, 1, kMaxGatewayQuantity), [type |-> "CancelOrder", order_id |-> 9],
   [type |-> "Ack", order_id |-> 20, kind |-> "Accepted"],
   [type |-> "Ack", order_id |-> 1, kind |-> "Cancelled"]} \cup
  [type : {"Reject"}, order_id : {5}, reason : ToSet(Discriminators["reason"])]

(* Nothing, an unknown type, a cut frame, and frames with one bad field.    *)
Tails ==
  {<< >>, << 5, 0 >>, SubSeq(Written(New(8, "Buy", 1, 1, 3)), 1, 4),
   Written(New(1, "Buy", 0, 1, 1)), Written(New(1, "Buy", kMaxPriceTicks + 1, 1, 1)),
   Written(Trade(1, 1, 0)), Written(Trade(1, 1, kMaxGatewayQuantity + 1)),
   << 0, 1, 0, 2, 1, 0, 1, 1, 0 >>, << 3, 1, 0, 2 >>, << 4, 1, 0, 5 >>}

Streams(messages) ==
  LET Bytes(result) == IF result.status = "Ok" THEN result.value ELSE << >>
      Cpp(m) == Bytes(encode(m, LenOf(m.type)))
      Rust(m) == Bytes(Reader!Rust!encode(m, Reader!Rust!LenOf(m.type)))
  IN {FlattenSeq([i \in 1..Len(messages) |-> Cpp(messages[i])]),
      FlattenSeq([i \in 1..Len(messages) |-> Rust(messages[i])])}

MCInit ==
  /\ FrameInit /\ Reader!ReadInit
  /\ sent \in UNION {[1..n -> Samples] : n \in 0..MaxSent}
  /\ \E bytes \in Streams(sent), tail \in Tails : stream = bytes \o tail
  /\ received = 0 /\ taken = 0

EngineReads ==
  \E n \in 1..(Len(stream) - received) :
    /\ consume(SubSeq(stream, received + 1, received + n))
    /\ received' = received + n
    /\ UNCHANGED <<sent, stream, taken, frame, stopped, handled>>

EngineDone == closed \/ received = Len(stream)

(* The two readers share nothing, so one order stands for every other.      *)
GatewayReads ==
  \E n \in 1..(Len(stream) - taken) :
    /\ EngineDone
    /\ n <= Reader!Wanted
    /\ \/ Reader!ReadType(stream[taken + 1])
       \/ Reader!ReadRest(SubSeq(stream, taken + 1, taken + n))
    /\ taken' = taken + n
    /\ UNCHANGED <<frameVars, sent, stream, received>>

MCNext == EngineReads \/ GatewayReads

MCSpec == MCInit /\ [][MCNext]_mcVars

-----------------------------------------------------------------------------

(* Where a stream is cut into reads does not matter to consume: the bytes   *)
(* received are those of the delivered messages, in order, and then the     *)
(* retained part of one more frame.  The framer closes only, and always, at *)
(* the first byte that is no type or the first whole frame that does not    *)
(* decode, and every message before it was delivered.                       *)
ChunkingIrrelevant ==
  LET framed == FlattenSeq([i \in 1..Len(delivered) |-> Written(delivered[i])])
      rest == SubSeq(stream, Len(framed) + 1, received)
      Whole(b) == Len(b) >= frame_length(b[1])
  IN /\ IsPrefix(framed, SubSeq(stream, 1, received))
     /\ ~ closed => rest = buf /\ (rest # << >> => Framable(rest[1]) /\ ~ Whole(rest))
     /\ closed => \/ ~ Framable(rest[1])
                  \/ /\ Whole(rest)
                     /\ decode(SubSeq(rest, 1, frame_length(rest[1]))).status # "Ok"

(* A message written by either codec is read by the other, and by itself,   *)
(* as what it was: field order, widths, byte order and the numbering of     *)
(* every enumeration agree, and nobody refuses what the other may send.     *)
RoundTrip ==
  LET Agree(got, ended) ==
        /\ \A i \in 1..Len(sent) : i <= Len(got) => got[i] = sent[i]
        /\ ended => Len(got) >= Len(sent)
  IN Agree(delivered, closed) /\ Agree(handled, stopped)

(* The two framers, given the same bytes in whatever pieces, find the same  *)
(* messages and give up at the same place.                                  *)
FramersAgree ==
  /\ IsPrefix(delivered, handled) \/ IsPrefix(handled, delivered)
  /\ EngineDone /\ (stopped \/ taken = Len(stream)) =>
       delivered = handled /\ closed = stopped

=============================================================================
