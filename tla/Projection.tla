----------------------------- MODULE Projection -----------------------------
(***************************************************************************)
(* The gateway's own picture of the engine's book, book.rs: the resting     *)
(* orders it derives from engine events, and beside them the aggregate of   *)
(* each price level, kept up to date one event at a time.  The operators    *)
(* take a projection and return the next one; the change counter that the   *)
(* code also keeps is left out.                                             *)
(***************************************************************************)
EXTENDS WireProtocol, Lists

VARIABLE projection    \* [orders, levels]

Empty == [orders |-> << >>, levels |-> [side \in Sides |-> << >>]]

Without(f, x) == [y \in DOMAIN f \ {x} |-> f[y]]

With(f, x, v) == [y \in DOMAIN f \cup {x} |-> IF y = x THEN v ELSE f[y]]

SaturatingSub(a, b) == IF a < b THEN 0 ELSE a - b

(* A level from which a quantity and some orders went; it disappears with   *)
(* its last order or its last unit.                                         *)
Shrink(levels, side, price, qty, gone) ==
  IF price \notin DOMAIN levels[side] THEN levels
  ELSE LET level == levels[side][price]
           left == [quantity |-> SaturatingSub(level.quantity, qty),
                    orders |-> SaturatingSub(level.orders, gone)]
       IN [levels EXCEPT ![side] =
             IF left.orders = 0 \/ left.quantity = 0
             THEN Without(@, price) ELSE [@ EXCEPT ![price] = left]]

(* Fault: the order goes and its level stays as it is.                      *)
FaultKeepLevel(p, id) ==
  IF id \notin DOMAIN p.orders THEN p ELSE [p EXCEPT !.orders = Without(@, id)]

(* A cancellation.                                                          *)
remove(p, id) ==
  IF id \notin DOMAIN p.orders THEN p
  ELSE LET o == p.orders[id]
       IN [orders |-> Without(p.orders, id),
           levels |-> Shrink(p.levels, o.side, o.price_ticks, o.remaining, 1)]

(* The residual of an accepted order comes to rest; earlier tracking of the *)
(* same identifier is dropped.                                              *)
insert_resting(p, id, side, price, qty) ==
  IF qty = 0 THEN p
  ELSE LET q == remove(p, id)
           old == IF price \in DOMAIN q.levels[side] THEN q.levels[side][price]
                  ELSE [quantity |-> 0, orders |-> 0]
           new == [quantity |-> old.quantity + qty, orders |-> old.orders + 1]
           order == [side |-> side, price_ticks |-> price, remaining |-> qty]
       IN [orders |-> With(q.orders, id, order),
           levels |-> [q.levels EXCEPT ![side] = With(@, price, new)]]

(* A resting order is filled, in part or to the end.                        *)
apply_trade(p, id, qty) ==
  IF id \notin DOMAIN p.orders THEN p
  ELSE LET o == p.orders[id]
           taken == IF qty < o.remaining THEN qty ELSE o.remaining
           emptied == taken = o.remaining
       IN [orders |-> IF emptied THEN Without(p.orders, id)
                      ELSE [p.orders EXCEPT ![id].remaining = @ - taken],
           levels |-> Shrink(p.levels, o.side, o.price_ticks, taken,
                             IF emptied THEN 1 ELSE 0)]

(* The ladder served to clients: the best `depth` levels, best first.       *)
snapshot(p, side, depth) ==
  LET better(a, b) == IF side = "Buy" THEN a > b ELSE a < b
      prices == Ranked(DOMAIN p.levels[side], better)
      shown == IF Len(prices) < depth THEN Len(prices) ELSE depth
      level(i) == p.levels[side][prices[i]]
  IN [i \in 1..shown |-> [price |-> prices[i], quantity |-> level(i).quantity,
                          orders |-> level(i).orders]]

=============================================================================
