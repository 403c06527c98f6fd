----------------------------- MODULE MCGateway -----------------------------
(***************************************************************************)
(* The Gateway library driven by any sequence of requests and of journal    *)
(* records, next to the list of the messages it forwarded.                  *)
(***************************************************************************)
EXTENDS Gateway, Sequences

CONSTANTS
  Bodies,          \* the request bodies of this model
  MaxForwarded     \* messages forwarded, over all

ASSUME BodiesAssumption ==
  Bodies \subseteq [side : Sides \cup {Absent, Malformed},
                    price : Nat \cup {Absent, Malformed},
                    quantity : Nat \cup {Absent, Malformed},
                    order_id : Numbers \cup {Absent, Malformed}]

VARIABLES
  forwarded,       \* messages produced so far
  submitted        \* the bodies they were produced from, Absent for a replay

libraryVars == <<gatewayVars, forwarded, submitted>>

LibraryInit == GatewayInit /\ forwarded = << >> /\ submitted = << >>

Accept(body) ==
  /\ Len(forwarded) < MaxForwarded
  /\ accept_new_order(body)
  /\ forwarded' = Append(forwarded, MessageFor(body))
  /\ submitted' = Append(submitted, body)

(* A journal holds each identifier once, and is replayed after a start.     *)
Restore(id) ==
  /\ Len(forwarded) < MaxForwarded
  /\ \A i \in 1..Len(forwarded) : submitted[i] = Absent /\ forwarded[i].order_id # id
  /\ reserve(id)
  /\ forwarded' = Append(forwarded, NewOrder(id, "Buy", 1, next_seq, 1))
  /\ submitted' = Append(submitted, Absent)

LibraryNext ==
  \/ \E body \in Bodies : Accept(body)
  \/ \E id \in Numbers : Restore(id)

LibrarySpec == LibraryInit /\ [][LibraryNext]_libraryVars

-----------------------------------------------------------------------------

(* No two messages carry one identifier, whichever way each was found: by   *)
(* the client, by assign_unique_id (also after the counter wrapped around), *)
(* or in the journal.                                                       *)
IdentifiersUnique ==
  \A i, j \in 1..Len(forwarded) :
    i # j => forwarded[i].order_id # forwarded[j].order_id

(* What is forwarded is encodable and is what the client wrote: the price   *)
(* within half a tick, the other fields unchanged.                          *)
FaithfulToRequest ==
  \A i \in 1..Len(forwarded) :
    LET m == forwarded[i]
        body == submitted[i]
    IN body # Absent =>
         /\ m.price_ticks \in 1..TopPriceTicks
         /\ m.quantity \in 1..TopGatewayQuantity
         /\ 10 * m.price_ticks - body.price \in -4..5
         /\ m.side = body.side /\ m.quantity = body.quantity
         /\ body.order_id # Absent => m.order_id = body.order_id

MCBodies ==
  [side : {"Buy"}, price : {9, 10, 14, 15, 20, 21}, quantity : {0, 1, 2},
   order_id : {Absent, 0, 2}] \cup
  [side : {"Buy", Absent}, price : {10, Malformed}, quantity : {1, Malformed},
   order_id : {Absent, Malformed, 3}]

=============================================================================
