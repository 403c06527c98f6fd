---------------------------- MODULE AtomicCommit ----------------------------
(***************************************************************************)
(* What the integrity guard promises: seen between two commits, a book only *)
(* changes by an operation that was accepted and left it consistent, and an *)
(* operation that was refused has changed nothing.                          *)
(***************************************************************************)
EXTENDS WireProtocol, Sequences

VARIABLES
  book,      \* the book as it was when the latest commit began or ended
  result     \* "Running" during a commit, and then how it ended

(* Every bid is below every ask, and each side is in price order.           *)
PricesInOrder(b) ==
  /\ \A i \in 1..Len(b["Buy"]), j \in 1..Len(b["Sell"]) :
       b["Buy"][i].price_ticks < b["Sell"][j].price_ticks
  /\ \A i, j \in 1..Len(b["Buy"]) :
       i < j => b["Buy"][i].price_ticks >= b["Buy"][j].price_ticks
  /\ \A i, j \in 1..Len(b["Sell"]) :
       i < j => b["Sell"][i].price_ticks <= b["Sell"][j].price_ticks

Consistent(b) ==
  /\ PricesInOrder(b)
  /\ \A side \in Sides : \A i \in 1..Len(b[side]) : b[side][i].remaining_qty > 0

Init == Consistent(book) /\ result = "None"

Begin == result # "Running" /\ result' = "Running" /\ UNCHANGED book

Committed == result = "Running" /\ result' = "Committed" /\ Consistent(book')

Refused == result = "Running" /\ result' = "Refused" /\ UNCHANGED book

Next == Begin \/ Committed \/ Refused

Spec == Init /\ [][Next]_<<book, result>>

=============================================================================
