-------------------------- MODULE EngineProcessor --------------------------
(***************************************************************************)
(* The single-threaded processing loop around the matching core: commands   *)
(* wait on the ingress ring, each is dispatched to the core, and the events *)
(* it causes go to the egress ring.  The rings are the bounded queues that  *)
(* RingBuffer implements.                                                   *)
(*                                                                          *)
(* A call of process_next that dequeues a NewOrder takes several steps, one *)
(* per trade; the processor has one owner, so its other operations start    *)
(* only between calls (Idle).                                               *)
(***************************************************************************)
EXTENDS MatchingEngine

CONSTANTS
  IngressCapacity,    \* capacity of the ring of inbound commands
  EgressCapacity      \* capacity of the ring of outbound events

ASSUME RingCapacities ==
  IngressCapacity \in Nat \ {0} /\ EgressCapacity \in Nat \ {0}

VARIABLES
  ingress,                  \* inbound messages, oldest first
  egress,                   \* outbound events, oldest first
  processed_count,          \* messages dequeued
  error_event_count,        \* Rejects for invalid messages
  egress_overflow_count,    \* events the full egress ring refused
  operational               \* process_next runs only when TRUE

ringVars == <<ingress, egress>>

statVars == <<processed_count, error_event_count, egress_overflow_count>>

procVars == <<ingress, egress, processed_count, error_event_count,
              egress_overflow_count, operational>>

(* An outbound event a peer put on the wire in the wrong direction.         *)
Misplaced ==
  {Trade(1, 1, 1, id, id) : id \in Ids} \cup {Ack(id, "Accepted") : id \in Ids}
    \cup {Reject(id, "OrderNotFound") : id \in Ids}

Cancels == {CancelOrder(id) : id \in Ids}

Inbound == NewOrders \cup Cancels \cup Misplaced

-----------------------------------------------------------------------------

submit(msg) ==
  /\ Idle
  /\ ingress' = IF Len(ingress) = IngressCapacity THEN ingress ELSE Append(ingress, msg)
  /\ UNCHANGED <<coreVars, egress, statVars, operational>>

(* Fault: a refused event is not counted.                                   *)
FaultUncounted(event) ==
  /\ egress' = IF Len(egress) = EgressCapacity THEN egress ELSE Append(egress, event)
  /\ UNCHANGED egress_overflow_count

(* Push one event; a full ring refuses it and the refusal is counted.       *)
emit(event) ==
  IF Len(egress) = EgressCapacity
  THEN egress_overflow_count' = egress_overflow_count + 1 /\ UNCHANGED egress
  ELSE egress' = Append(egress, event) /\ UNCHANGED egress_overflow_count

(* process_next up to the dispatch: the message leaves the ring.            *)
Dequeue ==
  /\ Idle
  /\ operational
  /\ ingress # << >>
  /\ ingress' = Tail(ingress)
  /\ processed_count' = processed_count + 1
  /\ UNCHANGED operational

BeginNewOrder ==
  /\ Dequeue
  /\ Head(ingress) \in NewOrders
  /\ StartNewOrder(Head(ingress))
  /\ UNCHANGED <<egress, error_event_count, egress_overflow_count>>

EmitTrade ==
  /\ MatchOne
  /\ emit(Last(emitted'))
  /\ UNCHANGED <<ingress, processed_count, error_event_count, operational>>

(* The call returns accepted: the remainder was offered to the book, and    *)
(* the terminating Ack follows the trades.                                  *)
EndNewOrder ==
  /\ RestRemainder
  /\ emit(Ack(incoming.order_id, "Accepted"))
  /\ UNCHANGED <<ingress, processed_count, error_event_count, operational>>

InvalidNewOrder ==
  /\ Dequeue
  /\ Head(ingress) \in NewOrders
  /\ RejectNewOrder(Head(ingress))
  /\ emit(Last(emitted'))
  /\ error_event_count' = error_event_count + 1

Cancel ==
  /\ Dequeue
  /\ Head(ingress) \in Cancels
  /\ LET id == Head(ingress).order_id IN CancelResting(id) \/ CancelMiss(id)
  /\ emit(Last(emitted'))
  /\ UNCHANGED error_event_count

invalid_message_order_id(msg) ==
  IF msg.type = "Trade" THEN msg.incoming_id ELSE msg.order_id

emit_invalid_message_error ==
  /\ Dequeue
  /\ Head(ingress) \in Misplaced
  /\ emit(Reject(invalid_message_order_id(Head(ingress)), "IntegrityViolation"))
  /\ error_event_count' = error_event_count + 1
  /\ UNCHANGED coreVars

next_event ==
  /\ Idle
  /\ egress # << >>
  /\ egress' = Tail(egress)
  /\ UNCHANGED <<coreVars, ingress, statVars, operational>>

(* Startup.  A failed reservation leaves the processor non-operational; a   *)
(* successful one empties the book and the retired history, and neither     *)
(* touches the rings, the counters or the execution sequence.               *)
initialize(reserved) ==
  /\ Idle
  /\ operational' = reserved
  /\ IF reserved THEN ResetCore ELSE UNCHANGED coreVars
  /\ UNCHANGED <<ringVars, statVars>>

ProcInit ==
  /\ CoreInit
  /\ ingress = << >> /\ egress = << >>
  /\ processed_count = 0 /\ error_event_count = 0 /\ egress_overflow_count = 0
  /\ operational = TRUE

(* What process_all does until it returns.                                  *)
Process ==
  \/ BeginNewOrder
  \/ EmitTrade
  \/ EndNewOrder
  \/ InvalidNewOrder
  \/ Cancel
  \/ emit_invalid_message_error

ProcNext ==
  \/ \E msg \in Inbound : submit(msg)
  \/ Process
  \/ next_event
  \/ \E reserved \in BOOLEAN : initialize(reserved)

ProcSpec == ProcInit /\ [][ProcNext]_<<coreVars, procVars>>

-----------------------------------------------------------------------------

(* Execution sequence numbers only grow along the egress ring, over events  *)
(* the full ring refused and over a re-initialisation of the processor.     *)
ExecutionSequenceGrows ==
  \A i, j \in 1..Len(egress) :
    i < j /\ egress[i].type = "Trade" /\ egress[j].type = "Trade" =>
      egress[i].exec_seq < egress[j].exec_seq

=============================================================================
