---------------------------- MODULE FrameBuffer ----------------------------
(***************************************************************************)
(* The engine's framer of one connection: it cuts whole messages out of     *)
(* socket reads that end anywhere, keeps one partial frame between reads,   *)
(* and closes on an unknown type or an undecodable frame.                   *)
(***************************************************************************)
EXTENDS CppCodec, SequencesExt

CONSTANT kMaxMessageSize    \* cap of the retained partial frame

VARIABLES
  buf,          \* the retained partial frame, buf_[0 .. len_)
  closed,       \* closed_
  delivered     \* messages passed to `deliver`, in order

frameVars == <<buf, closed, delivered>>

(* frame_length gives a length.                                             *)
Framable(byte) == Known(byte) /\ LenOf(MessageType[byte + 1]) <= kMaxMessageSize

frame_length(byte) == LenOf(MessageType[byte + 1])

(* Fault: the retained bytes are forgotten.                                 *)
FaultWholeFrame(partial) == frame_length(partial[1])

(* How many bytes complete the retained frame.                              *)
Missing(partial) == frame_length(partial[1]) - Len(partial)

Framing(partial, isClosed, messages) ==
  [buf |-> partial, closed |-> isClosed, delivered |-> messages]

(* The loop of consume: `partial` is retained, `rest` is what is left of    *)
(* the chunk.                                                               *)
RECURSIVE Loop(_, _, _)
Loop(partial, rest, messages) ==
  IF partial = << >>
  THEN IF rest = << >> THEN Framing(<< >>, FALSE, messages)
       ELSE IF ~ Framable(rest[1]) THEN Framing(<< >>, TRUE, messages)
       ELSE LET needed == frame_length(rest[1])
                decoded == decode(SubSeq(rest, 1, needed))
            IN IF Len(rest) < needed THEN Framing(rest, FALSE, messages)
               ELSE IF decoded.status # "Ok" THEN Framing(<< >>, TRUE, messages)
               ELSE Loop(<< >>, SubSeq(rest, needed + 1, Len(rest)),
                         Append(messages, decoded.value))
  ELSE LET take == Min({Missing(partial), Len(rest)})
           frame == partial \o SubSeq(rest, 1, take)
           decoded == decode(frame)
       IN IF take < Missing(partial) THEN Framing(frame, FALSE, messages)
          ELSE IF decoded.status # "Ok" THEN Framing(frame, TRUE, messages)
          ELSE Loop(<< >>, SubSeq(rest, take + 1, Len(rest)),
                    Append(messages, decoded.value))

(* A closed framer ignores what it is given.                                *)
consume(chunk) ==
  LET after == Loop(buf, chunk, delivered)
  IN /\ ~ closed
     /\ buf' = after.buf
     /\ closed' = after.closed
     /\ delivered' = after.delivered

FrameInit == buf = << >> /\ closed = FALSE /\ delivered = << >>

=============================================================================
