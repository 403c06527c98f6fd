------------------------------ MODULE ReadLoop ------------------------------
(***************************************************************************)
(* The gateway's framer: read_loop reads a type byte, then the rest of its  *)
(* frame, decodes it and hands the message on.  read_exact takes the bytes  *)
(* as they come and never more than the frame has.                          *)
(***************************************************************************)
EXTENDS Naturals, Sequences

CONSTANTS
  ByteSpace, WideBytes, NarrowBytes,
  MAX_PRICE_TICKS, MAX_GATEWAY_QUANTITY, MAX_ENGINE_QUANTITY

VARIABLES
  frame,      \* bytes of the current frame read so far
  stopped,    \* the loop has returned
  handled     \* messages passed to handle_engine_event, in order

readVars == <<frame, stopped, handled>>

Rust == INSTANCE RustCodec

Wanted == IF frame = << >> THEN 1 ELSE Rust!LenOf(Rust!TypeOf(frame)) - Len(frame)

(* The type byte.                                                           *)
ReadType(byte) ==
  /\ ~ stopped
  /\ frame = << >>
  /\ IF Rust!Known(byte) THEN frame' = << byte >> /\ UNCHANGED stopped
     ELSE stopped' = TRUE /\ UNCHANGED frame
  /\ UNCHANGED handled

(* Some of the bytes that are wanted; with the last one the frame is        *)
(* decoded.                                                                 *)
ReadRest(bytes) ==
  LET whole == frame \o bytes
      decoded == Rust!decode(whole)
  IN /\ ~ stopped
     /\ frame # << >>
     /\ \/ /\ Len(bytes) < Wanted
           /\ frame' = whole
           /\ UNCHANGED <<stopped, handled>>
        \/ /\ Len(bytes) = Wanted
           /\ decoded.status = "Ok"
           /\ handled' = Append(handled, decoded.value)
           /\ frame' = << >>
           /\ UNCHANGED stopped
        \/ /\ Len(bytes) = Wanted
           /\ decoded.status # "Ok"
           /\ stopped' = TRUE
           /\ UNCHANGED <<frame, handled>>

ReadInit == frame = << >> /\ stopped = FALSE /\ handled = << >>

=============================================================================
