--------------------------- MODULE IntegrityGuard ---------------------------
(***************************************************************************)
(* IntegrityGuard::commit: snapshot the book, run an operation on it, check *)
(* the result, and put the snapshot back when a check fails.                *)
(*                                                                          *)
(* The operation is the caller's, and any: inserts that skip the matching,  *)
(* removals and writes of a quantity through order_at(), in any sequence,   *)
(* followed by any report of quantities.  The engine that main() runs does  *)
(* not use the guard; its tests do.                                         *)
(***************************************************************************)
EXTENDS IntegrityChecks

CONSTANTS
  MaxSteps,      \* bound on the changes one operation makes
  WordSize,      \* 2^64, the range of the quantities of an OpOutcome
  Outcomes       \* what an operation may report

Words == 0..(WordSize - 1)

ASSUME OutcomesAssumption ==
  /\ WordSize \in Nat \ {0}
  /\ Outcomes \subseteq [check_conservation : BOOLEAN, incoming_qty : Words,
                         traded_qty : Words, rested_qty : Words]

VARIABLES
  snapshot,      \* snapshot_, the guard's own copy of the book
  phase,         \* "Idle", "Op" while the operation runs, "Check" after it
  steps,         \* changes the operation has made
  outcome,       \* the OpOutcome it returned
  result,        \* how the latest commit ended
  error          \* the invariant it named to emit_error, or "None"

guardVars == <<book, snapshot, phase, steps, outcome, result, error>>

(* OpOutcome::no_conservation.                                              *)
no_conservation ==
  [check_conservation |-> FALSE, incoming_qty |-> 0, traded_qty |-> 0, rested_qty |-> 0]

check_quantity_conservation(o) ==
  o.incoming_qty = (o.traded_qty + o.rested_qty) % WordSize

evaluate(o) ==
  IF find_state_violation # "None" THEN find_state_violation
  ELSE IF o.check_conservation /\ ~ check_quantity_conservation(o)
  THEN "QuantityConservation"
  ELSE "None"

(* What order_at() lets a caller write: a quantity of zero included.        *)
LooseOrders ==
  [order_id : Ids, seq : Seqs, price_ticks : 1..MaxPriceTicks,
   remaining_qty : 0..MaxQuantity]

-----------------------------------------------------------------------------

(* Fault: the snapshot is the one of the first commit.                      *)
FaultSnapshotOnce ==
  snapshot' = IF result = "None" THEN book ELSE snapshot

TakeSnapshot == snapshot' = book

Begin ==
  /\ phase = "Idle"
  /\ TakeSnapshot
  /\ phase' = "Op"
  /\ steps' = 0
  /\ UNCHANGED <<book, outcome, result, error>>

(* One change of the book by the operation.                                 *)
Change ==
  \/ \E side \in Sides, o \in RestingOrders : insert_order(side, o)
  \/ \E side \in Sides : \E i \in 1..Len(book[side]) : remove_order(side, i)
  \/ \E side \in Sides : \E i \in 1..Len(book[side]), q \in 0..MaxQuantity :
       book' = [book EXCEPT ![side][i].remaining_qty = q]

Step ==
  /\ phase = "Op"
  /\ steps < MaxSteps
  /\ Change
  /\ steps' = steps + 1
  /\ UNCHANGED <<snapshot, phase, outcome, result, error>>

EndOperation ==
  /\ phase = "Op"
  /\ outcome' \in Outcomes
  /\ phase' = "Check"
  /\ UNCHANGED <<book, snapshot, steps, result, error>>

(* The rest of commit: the mutation stays, or the snapshot is restored and  *)
(* the violated invariant is named.                                         *)
Decide ==
  /\ phase = "Check"
  /\ phase' = "Idle"
  /\ error' = evaluate(outcome)
  /\ IF evaluate(outcome) = "None"
     THEN result' = "Committed" /\ UNCHANGED book
     ELSE result' = "Refused" /\ book' = snapshot
  /\ steps' = 0
  /\ outcome' = no_conservation
  /\ UNCHANGED snapshot

GuardInit ==
  /\ BookInit
  /\ snapshot = [side \in Sides |-> << >>]
  /\ phase = "Idle" /\ steps = 0 /\ outcome = no_conservation
  /\ result = "None" /\ error = "None"

GuardNext == Begin \/ Step \/ EndOperation \/ Decide

GuardSpec == GuardInit /\ [][GuardNext]_guardVars

-----------------------------------------------------------------------------

(* The book as a caller between two commits sees it.                        *)
Atomic ==
  INSTANCE AtomicCommit WITH
    book <- IF phase = "Idle" THEN book ELSE snapshot,
    result <- IF phase = "Idle" THEN result ELSE "Running"

(* A commit is all or nothing: whatever the operation did to the book and   *)
(* in however many changes, the book ends consistent with the operation     *)
(* done, or is the book of before; comparing neighbours and the two best    *)
(* prices is enough to know it consistent.                                  *)
CommitIsAtomic == Atomic!Spec

(* The error names what is wrong with the operation that is being refused,  *)
(* the first in the order price, quantity, conservation, and an operation   *)
(* with nothing wrong is never refused.  The 64-bit sum of the conservation *)
(* check may wrap; an operation that traded no more than came in is still   *)
(* told exactly.                                                            *)
ErrorNamesViolation ==
  [][phase = "Check" =>
       LET ordered == Atomic!PricesInOrder(book)
           sound == Atomic!Consistent(book)
           balanced == \/ ~ outcome.check_conservation
                       \/ outcome.incoming_qty - outcome.traded_qty = outcome.rested_qty
       IN /\ error' = "PriceOrdering" <=> ~ ordered
          /\ error' = "PositiveQuantity" <=> ordered /\ ~ sound
          /\ outcome.traded_qty <= outcome.incoming_qty =>
               (error' = "QuantityConservation" <=> sound /\ ~ balanced)]_guardVars

=============================================================================
