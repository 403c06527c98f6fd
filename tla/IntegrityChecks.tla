-------------------------- MODULE IntegrityChecks --------------------------
(***************************************************************************)
(* The checks of integrity_guard.hpp on the state of a book.  A level of    *)
(* the C++ book is a run of orders with one price, and the walks over       *)
(* levels and their FIFOs are walks over a side.                            *)
(***************************************************************************)
EXTENDS PriceTimeBook

(* Neighbours are of one level, or the walk over the levels finds the       *)
(* second price strictly behind the first.                                  *)
LevelInOrder(side, i) ==
  \/ book[side][i].price_ticks = book[side][i + 1].price_ticks
  \/ price_ranks_first(side, book[side][i].price_ticks, book[side][i + 1].price_ticks)

(* Fault: a best bid equal to the best ask passes.                          *)
FaultLockedPasses ==
  (book["Buy"] # << >> /\ book["Sell"] # << >>)
    => book["Buy"][1].price_ticks <= book["Sell"][1].price_ticks

(* Only the best bid and the best ask are compared.                         *)
BestUncrossed ==
  (book["Buy"] # << >> /\ book["Sell"] # << >>)
    => book["Buy"][1].price_ticks < book["Sell"][1].price_ticks

check_price_ordering ==
  /\ \A side \in Sides : \A i \in 1..(Len(book[side]) - 1) : LevelInOrder(side, i)
  /\ BestUncrossed

check_positive_quantity ==
  \A side \in Sides : \A i \in 1..Len(book[side]) : book[side][i].remaining_qty # 0

(* Ordering is looked at first, and hides a zero quantity.                  *)
find_state_violation ==
  IF ~ check_price_ordering THEN "PriceOrdering"
  ELSE IF ~ check_positive_quantity THEN "PositiveQuantity"
  ELSE "None"

-----------------------------------------------------------------------------

(* The matching engine leaves nothing to undo: after every message, and     *)
(* after every trade of one, its book passes the checks.  README.md says    *)
(* the engine validates and rolls back; main() runs it without the guard.   *)
NothingToUndo == find_state_violation = "None"

=============================================================================
