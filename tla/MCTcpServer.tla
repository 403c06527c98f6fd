----------------------------- MODULE MCTcpServer -----------------------------
(***************************************************************************)
(* The engine process on a few clients and commands, with a log beside it:  *)
(* for every open connection the order identifiers its frames asked about.  *)
(* An answer is an Ack or a Reject; trades are not answers.                 *)
(***************************************************************************)
EXTENDS TcpServer

CONSTANT MaxFrames    \* frames delivered over all

VARIABLES
  frames,    \* frames delivered so far
  owed       \* per open connection, what it asked about and no answer was
             \* sent for

AskedId(msg) == invalid_message_order_id(msg)

AskedIds(msgs) == [i \in 1..Len(msgs) |-> AskedId(msgs[i])]

AnswerIds(events) ==
  LET ids[n \in 0..Len(events)] ==
        IF n = 0 THEN << >>
        ELSE IF events[n].type = "Trade" THEN ids[n - 1]
        ELSE Append(ids[n - 1], events[n].order_id)
  IN ids[Len(events)]

Delivers == batch' = batch + 1

MCInit == ServerInit /\ frames = 0 /\ owed = [s \in Sockets |-> << >>]

(* A command the ring took is owed an answer while its connection is open.  *)
OtherStep ==
  /\ Start \/ Select \/ Stop \/ Steps
  /\ frames' = frames + IF Delivers THEN 1 ELSE 0
  /\ frames' <= MaxFrames
  /\ owed' = [s \in Sockets |->
                IF s \notin connections' THEN << >>
                ELSE IF Delivers /\ fd = s /\ ingress' # ingress
                THEN Append(owed[s], AskedId(Last(ingress'))) ELSE owed[s]]

SendStep(s, n) ==
  /\ Sends(s, n)
  /\ LET answers == AnswerIds(SubSeq(outbound[s], 1, n))
     IN owed' = [owed EXCEPT ![s] = SubSeq(@, Len(answers) + 1, Len(@))]
  /\ UNCHANGED frames

MCNext ==
  \/ OtherStep
  \/ \E s \in DOMAIN outbound : \E n \in 0..Len(outbound[s]) : SendStep(s, n)

mcVars == <<allVars, frames, owed>>

(* The kernel takes all that is queued for some connection.                 *)
SendAll == \E s \in Unsent : SendStep(s, Len(outbound[s]))

(* The thread does not stop by itself: select has a timeout, and a pass     *)
(* does not wait.  Clients that stay connected read their sockets.          *)
MCSpec ==
  /\ MCInit
  /\ [][MCNext]_mcVars
  /\ WF_mcVars(MCNext)
  /\ SF_mcVars(SendAll)

-----------------------------------------------------------------------------

(* Everything the engine has produced for a connection and the kernel has   *)
(* not taken, oldest first.                                                 *)
Produced(s) == outbound[s] \o IF s = fd THEN egress ELSE << >>

(* Commands of a connection that are not answered yet.                      *)
Pending(s) ==
  IF s # fd THEN << >>
  ELSE (IF Idle THEN << >> ELSE << incoming.order_id >>) \o AskedIds(ingress)

(* While the egress ring has refused nothing, every command of an open      *)
(* connection that the ingress ring took has exactly one answer, on that    *)
(* connection, for its own identifier and in the order of the commands:     *)
(* sent, queued, or still to be produced.  A short send, a second client,   *)
(* a rejected or misplaced message or a reused descriptor changes nothing.  *)
OneAnswerEach ==
  egress_overflow_count = 0 =>
    \A s \in connections : owed[s] = AnswerIds(Produced(s)) \o Pending(s)

(* Trades come before the answer of the order that caused them: after a     *)
(* trade comes another trade of that order or its Ack, or the order is      *)
(* still being matched.                                                     *)
TradesBeforeTheirAck ==
  egress_overflow_count = 0 =>
    \A s \in connections : LET es == Produced(s) IN
      \A i \in 1..Len(es) : es[i].type = "Trade" =>
        LET id == es[i].incoming_id
        IN IF i = Len(es) THEN ~ Idle /\ incoming.order_id = id
           ELSE \/ es[i + 1] = Ack(id, "Accepted")
                \/ es[i + 1].type = "Trade" /\ es[i + 1].incoming_id = id

(* No loss is silent: a frame that was delivered is processed, waits, or is *)
(* counted as refused by the ingress ring, and a connection is short of no  *)
(* more answers than the egress ring counted as refused.                    *)
LossIsCounted ==
  /\ frames = processed_count + Len(ingress) + ingress_backpressure_count
  /\ \A s \in connections :
       Len(owed[s]) - Len(AnswerIds(Produced(s))) - Len(Pending(s))
         \in 0..egress_overflow_count

Settled == stage = "Select" /\ \A s \in DOMAIN outbound : outbound[s] = << >>

(* Once the clients stop sending commands the thread is back in select with *)
(* nothing queued, or the process was stopped: no batch wedges a pass, and  *)
(* what a short send left in a queue is sent by a later pass, since run()   *)
(* watches the socket for room.                                             *)
ServerSettles == []<>(Settled \/ stage = "Exited")

MCCommands ==
  {NewOrder(1, "Sell", 1, 1, 1), NewOrder(2, "Buy", 1, 1, 2),
   NewOrder(2, "Buy", 1, 1, 0), CancelOrder(1), Ack(2, "Accepted")}

=============================================================================
