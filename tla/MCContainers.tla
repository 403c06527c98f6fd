---------------------------- MODULE MCContainers ----------------------------
(***************************************************************************)
(* The two stored containers of the matching core, the book and the history *)
(* of retired identifiers.  They share no state, so a behaviour is about    *)
(* one of them.  `shown` is the refinement mapping of OrderBook, evaluated  *)
(* once per state.                                                          *)
(***************************************************************************)
EXTENDS OrderBook

CONSTANTS
  RetiredIds, HistoryCapacity, Homes, Empty,   \* see RetiredIdSet
  FirstHome                                    \* home of all where it is not used

VARIABLES
  subject,     \* the container this behaviour is about
  shown,
  home, slots, ring, ring_head, count

historyVars == <<home, slots, ring, ring_head, count>>

Retired == INSTANCE RetiredIdSet WITH Ids <- RetiredIds, Capacity <- HistoryCapacity

Abstract == INSTANCE PriceTimeBook WITH book <- shown

(* The identifiers are alike, so it only matters how many hash to a place.  *)
MCInit ==
  /\ subject \in {"Book", "History"}
  /\ Init /\ shown = View
  /\ Retired!Init
  /\ \A id, other \in RetiredIds : id < other => home[id] <= home[other]
  /\ subject = "Book" => \A id \in RetiredIds : home[id] = FirstHome

MCNext ==
  /\ UNCHANGED subject
  /\ \/ subject = "Book" /\ Next /\ shown' = View' /\ UNCHANGED historyVars
     \/ subject = "History" /\ Retired!Next /\ UNCHANGED <<vars, shown>>

MCSpec == MCInit /\ [][MCNext]_<<subject, vars, shown, historyVars>>

(* Every operation on the pools and links is an operation of the abstract   *)
(* price-time book or leaves it as it is: the backward scan, the early exit *)
(* of locate_level and slot reuse never lose, duplicate or reorder an order.*)
ImplementsPriceTimeBook == Abstract!BookSpec

(* The table and the ring of RetiredIdSet never disagree, however clusters  *)
(* of the table were shifted by erase.                                      *)
TableMatchesRing == Retired!TableMatchesRing

(* RetiredIdSet's insert and clear are those of the bounded history of      *)
(* distinct identifiers: re-inserting keeps the place, the oldest goes.     *)
ImplementsRetiredHistory == Retired!ImplementsRetiredHistory

Offer(id, side, price, seq, qty) ==
  [order_id |-> id, side |-> side, price_ticks |-> price, seq |-> seq,
   remaining_qty |-> qty]

(* Three bid levels, the middle one with a late arrival and a tie in time   *)
(* that the identifier breaks, and two ask levels.                          *)
MCOffered ==
  {Offer(1, "Buy", 1, 1, 1), Offer(1, "Buy", 2, 1, 1), Offer(2, "Buy", 2, 1, 1),
   Offer(1, "Buy", 2, 2, 1), Offer(1, "Buy", 3, 1, 2), Offer(2, "Sell", 1, 1, 1),
   Offer(1, "Sell", 2, 1, 1)}

=============================================================================
