---------------------------- MODULE TradeLedger ----------------------------
(***************************************************************************)
(* The matching core under the identifiers the gateway hands out, each used *)
(* once, with a ledger kept beside it: what was submitted and what the      *)
(* emitted trades say was exchanged for each identifier.  The ledger reads  *)
(* messages and events only and changes nothing the engine does.            *)
(***************************************************************************)
EXTENDS MatchingEngine

CONSTANT MaxTrades    \* no re-initialisation after this many trades

VARIABLES
  submitted,    \* quantity of the accepted NewOrder with this identifier
  traded,       \* sum of the quantities of the trades that name it
  cancelled,    \* identifiers acknowledged as cancelled
  departed      \* identifiers that left the book, in that order

ledgerVars == <<submitted, traded, cancelled, departed>>

LedgerInit ==
  /\ CoreInit
  /\ submitted = [id \in Ids |-> 0]
  /\ traded = [id \in Ids |-> 0]
  /\ cancelled = {}
  /\ departed = << >>

Submit(m) ==
  /\ submitted[m.order_id] = 0
  /\ StartNewOrder(m)
  /\ submitted' = [submitted EXCEPT ![m.order_id] = m.quantity]
  /\ UNCHANGED <<traded, cancelled, departed>>

RestingIds ==
  UNION {{book[side][i].order_id : i \in 1..Len(book[side])} : side \in Sides}

Exchange ==
  /\ MatchOne
  /\ LET t == Last(emitted')
     IN /\ traded' = [id \in Ids |-> traded[id] +
                        IF id \in {t.incoming_id, t.resting_id} THEN t.quantity ELSE 0]
        /\ departed' = IF t.resting_id \in RestingIds' THEN departed
                       ELSE Append(departed, t.resting_id)
  /\ UNCHANGED <<submitted, cancelled>>

Settle == RestRemainder /\ UNCHANGED ledgerVars

Refuse(m) ==
  /\ submitted[m.order_id] = 0
  /\ RejectNewOrder(m)
  /\ UNCHANGED ledgerVars

Withdraw(id) ==
  \/ /\ CancelResting(id)
     /\ cancelled' = cancelled \cup {id}
     /\ departed' = Append(departed, id)
     /\ UNCHANGED <<submitted, traded>>
  \/ CancelMiss(id) /\ UNCHANGED ledgerVars

(* A re-initialised engine starts with a new ledger.                        *)
Reset ==
  /\ ResetCore
  /\ submitted' = [id \in Ids |-> 0]
  /\ traded' = [id \in Ids |-> 0]
  /\ cancelled' = {}
  /\ departed' = << >>

LedgerNext ==
  \/ \E m \in NewOrders : Submit(m) \/ Refuse(m)
  \/ Exchange
  \/ Settle
  \/ \E id \in Ids : Withdraw(id)
  \/ next_exec_seq <= MaxTrades /\ Reset

(* A call that started runs to its end: nothing preempts the match loop.    *)
LedgerSpec ==
  /\ LedgerInit
  /\ [][LedgerNext]_<<coreVars, ledgerVars>>
  /\ WF_<<coreVars, ledgerVars>>(Exchange \/ Settle)

-----------------------------------------------------------------------------

(* What is left of an order is what was submitted less what its trades      *)
(* took: for every resting order, for the order being matched, and nothing  *)
(* is ever filled beyond its quantity.  Two counters in two places of       *)
(* process_new_order have to agree with the emitted trades over the life of *)
(* both orders.                                                             *)
FillsAccountForQuantity ==
  /\ \A side \in Sides : \A i \in 1..Len(book[side]) :
       LET o == book[side][i]
       IN o.remaining_qty = submitted[o.order_id] - traded[o.order_id]
  /\ ~ Idle => remaining = submitted[incoming.order_id] - traded[incoming.order_id]
  /\ \A id \in Ids : traded[id] <= submitted[id]

(* The retired history is exactly the most recent departures, as many as    *)
(* fit: a cancel for one of them is told "no longer resting", and an        *)
(* identifier that is still resting is never in it.                         *)
RetiredAreRecentDepartures ==
  /\ retired = SubSeq(departed, 1 + (IF Len(departed) > MaxOrders
                                     THEN Len(departed) - MaxOrders ELSE 0),
                      Len(departed))
  /\ \A i \in 1..Len(departed) : departed[i] \notin RestingIds

(* docs/DESIGN.md, Property 11: once an accepted order has been processed,  *)
(* its quantity is in its trades or resting in the book, unless it was      *)
(* cancelled.  process_new_order ignores a refusal of insert_order.         *)
QuantityConserved ==
  \A id \in Ids :
    submitted[id] > traded[id] =>
      \/ id \in RestingIds
      \/ ~ Idle /\ incoming.order_id = id
      \/ id \in cancelled

=============================================================================
