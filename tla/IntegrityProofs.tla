-------------------------- MODULE IntegrityProofs --------------------------
(***************************************************************************)
(* Two accounts of the integrity of the book, for every capacity of the     *)
(* book and every range of identifiers, prices and quantities.              *)
(*                                                                          *)
(* The ledger beside the matching core: what is left of every order is what *)
(* was submitted less what was traded, and the retired history is the most  *)
(* recent departures, for every sequence of calls.                          *)
(*                                                                          *)
(* The guard: it commits atomically whatever the operation does.            *)
(***************************************************************************)
EXTENDS TradeLedger, IntegrityGuard, EngineProofs

-----------------------------------------------------------------------------
(* The ledger.                                                              *)

(* An identifier rests at one place only.                                   *)
RestOnce ==
  \A s, t \in Sides : \A i \in 1..Len(book[s]), j \in 1..Len(book[t]) :
    book[s][i].order_id = book[t][j].order_id => s = t /\ i = j

(* The identifiers handed in and not refused.                               *)
Known == {id \in Ids : submitted[id] > 0}

(* An identifier was handed in before it rests, is matched or has departed, *)
(* and is at most one of the three.                                         *)
OneStanding ==
  /\ RestingIds \subseteq Known
  /\ \A i \in 1..Len(departed) : departed[i] \in Known \ RestingIds
  /\ ~ Idle => /\ incoming.order_id \in Known \ RestingIds
               /\ \A i \in 1..Len(departed) : departed[i] # incoming.order_id

(* No identifier departs twice, so that the history never finds the one it  *)
(* records already there, and keeps as many of them as fit.                 *)
DepartOnce ==
  \A i, j \in 1..Len(departed) : departed[i] = departed[j] => i = j

KeepsRecent ==
  /\ Len(retired) = IF Len(departed) <= MaxOrders THEN Len(departed) ELSE MaxOrders
  /\ \A i \in 1..Len(retired) :
       retired[i] = departed[Len(departed) - Len(retired) + i]

(* The inductive invariant.  FillsAccountForQuantity is not inductive by    *)
(* itself: a trade would change the account of a second order with the same *)
(* identifier, hence RestOnce and OneStanding.                              *)
LedgerAgrees ==
  /\ submitted \in [Ids -> Nat] /\ traded \in [Ids -> Nat] /\ departed \in Seq(Ids)
  /\ RestOnce
  /\ OneStanding
  /\ DepartOnce
  /\ KeepsRecent
  /\ FillsAccountForQuantity

LedgerInv == IInv /\ LedgerAgrees

-----------------------------------------------------------------------------
(* What the three changes of the book do to the places of its orders.       *)

LEMMA RestingPlaces ==
  ASSUME NEW id
  PROVE  id \in RestingIds <=>
           \E x \in Sides : \E i \in 1..Len(book[x]) : book[x][i].order_id = id
BY DEF RestingIds

(* A removal closes the gap behind the order and moves nothing else.        *)
LEMMA RemovePlaces ==
  ASSUME BookTypeOK, NEW side \in Sides, NEW p \in 1..Len(book[side]),
         remove_order(side, p), NEW x \in Sides
  PROVE  /\ Len(book[x]) \in Nat
         /\ x # side => book'[x] = book[x]
         /\ x = side => /\ Len(book'[x]) = Len(book[x]) - 1
                        /\ \A i \in 1..(Len(book[x]) - 1) :
                             book'[x][i] = IF i < p THEN book[x][i] ELSE book[x][i + 1]
<1>1. book \in [Sides -> Seq(RestingOrders)] /\ book[x] \in Seq(RestingOrders)
  BY DEF BookTypeOK
<1>2. book' = [book EXCEPT ![side] = RemoveAt(book[side], p)]
  BY DEF remove_order
<1>3. CASE x # side
  BY <1>1, <1>2, <1>3, LenProperties
<1>4. CASE x = side
  <2>1. book'[x] = RemoveAt(book[x], p)
    BY <1>1, <1>2, <1>4
  <2>2. p \in 1..Len(book[x]) /\ Len(book[x]) \in Nat
    BY <1>1, <1>4, LenProperties
  <2>3. /\ Len(RemoveAt(book[x], p)) = Len(book[x]) - 1
        /\ \A i \in 1..(Len(book[x]) - 1) :
             RemoveAt(book[x], p)[i] = IF i < p THEN book[x][i] ELSE book[x][i + 1]
    BY <1>1, <2>2, RemoveAtFacts, Zenon
  <2> QED
    BY <1>4, <2>1, <2>2, <2>3
<1> QED
  BY <1>3, <1>4

(* The order that is removed is the only one that goes.                     *)
LEMMA RemoveDeparts ==
  ASSUME BookTypeOK, RestOnce, NEW side \in Sides, NEW p \in 1..Len(book[side]),
         remove_order(side, p)
  PROVE  /\ RestOnce'
         /\ RestingIds' = RestingIds \ {book[side][p].order_id}
         /\ \A x \in Sides : \A i \in 1..Len(book'[x]) :
              \E k \in 1..Len(book[x]) : book'[x][i] = book[x][k]
<1> DEFINE from(x, i) == IF x = side /\ ~ (i < p) THEN i + 1 ELSE i
<1>1. ASSUME NEW x \in Sides, NEW i \in 1..Len(book'[x])
      PROVE  /\ from(x, i) \in 1..Len(book[x]) /\ book'[x][i] = book[x][from(x, i)]
             /\ x = side => from(x, i) # p
             /\ i \in Nat
  <2>1. CASE x # side
    BY <2>1, RemovePlaces
  <2>2. CASE x = side
    <3>1. Len(book[x]) \in Nat /\ Len(book'[x]) = Len(book[x]) - 1 /\ p \in Nat
      BY <2>2, RemovePlaces
    <3>2. i \in 1..(Len(book[x]) - 1)
      BY <3>1
    <3>3. book'[x][i] = IF i < p THEN book[x][i] ELSE book[x][i + 1]
      BY <2>2, <3>2, RemovePlaces
    <3> QED
      BY <2>2, <3>1, <3>2, <3>3
  <2> QED
    BY <2>1, <2>2
<1>2. RestOnce'
  <2> SUFFICES ASSUME NEW x \in Sides, NEW y \in Sides,
                      NEW i \in 1..Len(book'[x]), NEW j \in 1..Len(book'[y]),
                      book'[x][i].order_id = book'[y][j].order_id
               PROVE  x = y /\ i = j
    BY DEF RestOnce
  <2>1. x = y /\ from(x, i) = from(y, j)
    <3> HIDE DEF from
    <3>1. /\ from(x, i) \in 1..Len(book[x]) /\ from(y, j) \in 1..Len(book[y])
          /\ book'[x][i] = book[x][from(x, i)] /\ book'[y][j] = book[y][from(y, j)]
      BY <1>1
    <3> QED
      BY <3>1 DEF RestOnce
  <2>2. i \in Nat /\ j \in Nat /\ p \in Nat
    BY <1>1, RemovePlaces
  <2>3. CASE x = side
    <3>1. (IF i < p THEN i ELSE i + 1) = (IF j < p THEN j ELSE j + 1)
      BY <2>1, <2>3
    <3>2. i = j
      BY <2>2, <3>1
    <3> QED
      BY <2>1, <3>2
  <2>4. CASE x # side
    BY <2>1, <2>4
  <2> QED
    BY <2>3, <2>4
<1>3. ASSUME NEW id
      PROVE  id \in RestingIds' <=> id \in RestingIds /\ id # book[side][p].order_id
  <2>1. id \in RestingIds' <=>
          \E x \in Sides : \E i \in 1..Len(book'[x]) : book'[x][i].order_id = id
    BY DEF RestingIds
  <2>2. ASSUME NEW x \in Sides, NEW i \in 1..Len(book'[x]), book'[x][i].order_id = id
        PROVE  id \in RestingIds /\ id # book[side][p].order_id
    <3>1. book[x][from(x, i)].order_id = id /\ from(x, i) \in 1..Len(book[x])
      BY <1>1, <2>2
    <3>2. id = book[side][p].order_id => x = side /\ from(x, i) = p
      BY <3>1 DEF RestOnce
    <3> QED
      BY <1>1, <3>1, <3>2, RestingPlaces
  <2>3. ASSUME id \in RestingIds, id # book[side][p].order_id
        PROVE  \E x \in Sides : \E i \in 1..Len(book'[x]) : book'[x][i].order_id = id
    <3>0. PICK x \in Sides : \E k \in 1..Len(book[x]) : book[x][k].order_id = id
      BY <2>3, RestingPlaces
    <3>1. PICK k \in 1..Len(book[x]) : book[x][k].order_id = id
      BY <3>0
    <3>2. CASE x # side
      BY <3>1, <3>2, RemovePlaces
    <3>3. CASE x = side
      <4>1. Len(book[x]) \in Nat /\ Len(book'[x]) = Len(book[x]) - 1 /\ p \in Nat /\ k # p
        BY <2>3, <3>1, <3>3, RemovePlaces
      <4>2. CASE k < p
        <5>1. k \in 1..(Len(book[x]) - 1)
          BY <3>3, <4>1, <4>2
        <5>2. book'[x][k] = book[x][k]
          BY <3>3, <4>2, <5>1, RemovePlaces
        <5> QED
          BY <3>1, <4>1, <5>1, <5>2
      <4>3. CASE k > p
        <5>1. k - 1 \in 1..(Len(book[x]) - 1) /\ ~ (k - 1 < p) /\ (k - 1) + 1 = k
          BY <3>3, <4>1, <4>3
        <5>2. book'[x][k - 1] = book[x][k]
          BY <3>3, <5>1, RemovePlaces
        <5> QED
          BY <3>1, <4>1, <5>1, <5>2
      <4> QED
        BY <4>1, <4>2, <4>3
    <3> QED
      BY <3>2, <3>3
  <2> QED
    BY <2>1, <2>2, <2>3
<1> QED
  BY <1>1, <1>2, <1>3

(* A partial fill touches the quantity of the front order only.             *)
LEMMA ReduceStays ==
  ASSUME BookTypeOK, RestOnce, NEW side \in Sides, book[side] # << >>,
         NEW qty \in 1..(book[side][1].remaining_qty - 1), reduce_front(side, qty)
  PROVE  /\ RestOnce' /\ RestingIds' = RestingIds
         /\ \A x \in Sides : \A i \in 1..Len(book'[x]) :
              /\ i \in 1..Len(book[x])
              /\ book'[x][i].order_id = book[x][i].order_id
              /\ x # side \/ i # 1 => book'[x][i] = book[x][i]
              /\ x = side /\ i = 1 =>
                   book'[x][i].remaining_qty = book[x][i].remaining_qty - qty
<1>1. ASSUME NEW x \in Sides
      PROVE  /\ Len(book'[x]) = Len(book[x])
             /\ \A i \in 1..Len(book[x]) :
                  /\ book'[x][i].order_id = book[x][i].order_id
                  /\ x # side \/ i # 1 => book'[x][i] = book[x][i]
                  /\ x = side /\ i = 1 =>
                       book'[x][i].remaining_qty = book[x][i].remaining_qty - qty
  <2>0. book \in [Sides -> Seq(RestingOrders)]
    BY DEF BookTypeOK
  <2>1. CASE x # side
    BY <2>0, <2>1 DEF reduce_front
  <2>2. CASE x = side
    <3>1. Len(book'[x]) = Len(book[x])
      BY <2>2, ReduceFrontFacts
    <3>2. book'[x] = [book[x] EXCEPT ![1].remaining_qty = @ - qty]
      BY <2>0, <2>2 DEF reduce_front
    <3>3. /\ book[x] \in Seq(RestingOrders)
          /\ \A i \in 1..Len(book[x]) : book[x][i] \in RestingOrders /\ i \in DOMAIN book[x]
      BY <2>0, ElementOfSeq, LenProperties
    <3>4. ASSUME NEW i \in 1..Len(book[x]) 
          PROVE  /\ i # 1 => book'[x][i] = book[x][i]
                 /\ i = 1 => book'[x][i] = [book[x][i] EXCEPT !.remaining_qty = @ - qty]
      BY <3>2, <3>3
    <3>5. ASSUME NEW o \in RestingOrders
          PROVE  /\ [o EXCEPT !.remaining_qty = @ - qty].order_id = o.order_id
                 /\ [o EXCEPT !.remaining_qty = @ - qty].remaining_qty = o.remaining_qty - qty
      BY DEF RestingOrders
    <3>6. ASSUME NEW i \in 1..Len(book[x])
          PROVE  /\ book'[x][i].order_id = book[x][i].order_id
                 /\ i = 1 => book'[x][i].remaining_qty = book[x][i].remaining_qty - qty
      <4>1. CASE i # 1
        BY <3>4, <4>1
      <4>2. CASE i = 1
        BY <3>3, <3>4, <3>5, <4>2
      <4> QED
        BY <4>1, <4>2
    <3> QED
      BY <2>2, <3>1, <3>4, <3>6
  <2> QED
    BY <2>1, <2>2
<1>2. RestOnce'
  BY <1>1 DEF RestOnce
<1>3. RestingIds' = RestingIds
  <2>1. \A id : id \in RestingIds' <=>
                \E x \in Sides : \E i \in 1..Len(book'[x]) : book'[x][i].order_id = id
    BY DEF RestingIds
  <2>2. \A id : id \in RestingIds <=>
                \E x \in Sides : \E i \in 1..Len(book[x]) : book[x][i].order_id = id
    BY DEF RestingIds
  <2>3. /\ \A x \in Sides : 1..Len(book'[x]) = 1..Len(book[x])
        /\ \A x \in Sides : \A i \in 1..Len(book[x]) :
             book'[x][i].order_id = book[x][i].order_id
    BY <1>1
  <2>4. ASSUME NEW id PROVE id \in RestingIds' <=> id \in RestingIds
    <3>1. ASSUME id \in RestingIds' PROVE id \in RestingIds
      <4>1. PICK x \in Sides : \E i \in 1..Len(book'[x]) : book'[x][i].order_id = id
        BY <2>1, <3>1
      <4>2. \E i \in 1..Len(book[x]) : book[x][i].order_id = id
        BY <2>3, <4>1
      <4> QED
        BY <2>2, <4>2
    <3>2. ASSUME id \in RestingIds PROVE id \in RestingIds'
      <4>1. PICK x \in Sides : \E i \in 1..Len(book[x]) : book[x][i].order_id = id
        BY <2>2, <3>2
      <4>2. \E i \in 1..Len(book'[x]) : book'[x][i].order_id = id
        BY <2>3, <4>1
      <4> QED
        BY <2>1, <4>2
    <3> QED
      BY <3>1, <3>2
  <2> QED
    BY <2>4
<1>4. ASSUME NEW x \in Sides, NEW i \in 1..Len(book'[x])
      PROVE  /\ i \in 1..Len(book[x])
             /\ book'[x][i].order_id = book[x][i].order_id
             /\ x # side \/ i # 1 => book'[x][i] = book[x][i]
             /\ x = side /\ i = 1 =>
                  book'[x][i].remaining_qty = book[x][i].remaining_qty - qty
  <2>1. i \in 1..Len(book[x])
    BY <1>1
  <2> QED
    BY <1>1, <2>1
<1> QED
  BY <1>2, <1>3, <1>4, Zenon

(* An insertion, or its refusal, adds nothing but the order.                *)
LEMMA InsertRests ==
  ASSUME BookTypeOK, RestOnce, NEW side \in Sides, NEW o \in RestingOrders,
         o.order_id \notin RestingIds, insert_order(side, o)
  PROVE  /\ RestOnce'
         /\ RestingIds' \subseteq RestingIds \cup {o.order_id}
         /\ \A x \in Sides : \A i \in 1..Len(book'[x]) :
              book'[x][i] = o \/ \E k \in 1..Len(book[x]) : book'[x][i] = book[x][k]
<1> DEFINE p == InsertPosition(side, o)
           from(x, i) == IF x = side /\ i > p THEN i - 1 ELSE i
<1>0. book \in [Sides -> Seq(RestingOrders)] /\ book[side] \in Seq(RestingOrders)
      /\ Len(book[side]) \in Nat
  BY LenProperties DEF BookTypeOK
<1>1. CASE ~ CanInsert(side, o.price_ticks)
  <2>1. book' = book
    BY <1>1 DEF insert_order
  <2> QED
    BY <2>1 DEF RestOnce, RestingIds
<1>2. CASE CanInsert(side, o.price_ticks)
  <2>1. book' = [book EXCEPT ![side] = InsertAt(book[side], p, o)]
    BY <1>2 DEF insert_order
  <2>2. p \in 1..(Len(book[side]) + 1)
    BY <1>0, InsertPositionIsPlace DEF Place
  <2> HIDE DEF p
  <2>3. /\ Len(book'[side]) = Len(book[side]) + 1
        /\ \A i \in 1..(Len(book[side]) + 1) :
             book'[side][i] = IF i < p THEN book[side][i]
                              ELSE IF i = p THEN o ELSE book[side][i - 1]
    <3>1. book'[side] = InsertAt(book[side], p, o)
      BY <1>0, <2>1
    <3> QED
      BY <1>0, <2>2, <3>1, InsertAtFacts
  <2>4. ASSUME NEW x \in Sides, NEW i \in 1..Len(book'[x])
        PROVE  /\ x = side /\ i = p => book'[x][i] = o
               /\ x # side \/ i # p => /\ from(x, i) \in 1..Len(book[x])
                                       /\ book'[x][i] = book[x][from(x, i)]
    <3>1. CASE x # side
      BY <1>0, <2>1, <3>1
    <3>2. CASE x = side
      <4>1. i \in 1..(Len(book[side]) + 1)
        BY <2>3, <3>2
      <4>2. CASE i < p
        <5>1. i \in 1..Len(book[side]) /\ book'[side][i] = book[side][i] /\ ~ (i > p) /\ i # p
          BY <1>0, <2>2, <2>3, <4>1, <4>2
        <5> QED
          BY <3>2, <5>1
      <4>3. CASE i = p
        BY <2>2, <2>3, <3>2, <4>1, <4>3
      <4>4. CASE i > p
        <5>1. i - 1 \in 1..Len(book[side]) /\ book'[side][i] = book[side][i - 1] /\ i # p
          BY <1>0, <2>2, <2>3, <4>1, <4>4
        <5> QED
          BY <3>2, <4>4, <5>1
      <4> QED
        BY <2>2, <4>1, <4>2, <4>3, <4>4
    <3> QED
      BY <3>1, <3>2
  <2>5. ASSUME NEW x \in Sides, NEW i \in 1..Len(book'[x]), x # side \/ i # p
        PROVE  book'[x][i].order_id # o.order_id
    <3> HIDE DEF from
    <3> QED
      BY <2>4, <2>5, RestingPlaces
  <2>6. RestOnce'
    <3> SUFFICES ASSUME NEW x \in Sides, NEW y \in Sides,
                        NEW i \in 1..Len(book'[x]), NEW j \in 1..Len(book'[y]),
                        book'[x][i].order_id = book'[y][j].order_id
                 PROVE  x = y /\ i = j
      BY DEF RestOnce
    <3>1. CASE (x = side /\ i = p) \/ (y = side /\ j = p)
      BY <2>4, <2>5, <3>1
    <3>2. CASE (x # side \/ i # p) /\ (y # side \/ j # p)
      <4>1. x = y /\ from(x, i) = from(y, j)
        <5> HIDE DEF from
        <5>1. /\ from(x, i) \in 1..Len(book[x]) /\ from(y, j) \in 1..Len(book[y])
              /\ book'[x][i] = book[x][from(x, i)] /\ book'[y][j] = book[y][from(y, j)]
          BY <2>4, <3>2
        <5> QED
          BY <5>1 DEF RestOnce
      <4>2. CASE x = side
        <5>1. /\ i \in Nat /\ j \in Nat /\ p \in Nat /\ i # p /\ j # p
              /\ (IF i > p THEN i - 1 ELSE i) = (IF j > p THEN j - 1 ELSE j)
          BY <1>0, <2>2, <2>3, <3>2, <4>1, <4>2
        <5>2. i = j
          BY <5>1
        <5> QED
          BY <4>1, <5>2
      <4>3. CASE x # side
        BY <4>1, <4>3
      <4> QED
        BY <4>2, <4>3
    <3> QED
      BY <3>1, <3>2
  <2>7. RestingIds' \subseteq RestingIds \cup {o.order_id}
    <3> SUFFICES ASSUME NEW id, id \in RestingIds'
                 PROVE  id \in RestingIds \cup {o.order_id}
      OBVIOUS
    <3>a. PICK x \in Sides : \E i \in 1..Len(book'[x]) : book'[x][i].order_id = id
      BY DEF RestingIds
    <3>b. PICK i \in 1..Len(book'[x]) : book'[x][i].order_id = id
      BY <3>a
    <3> SUFFICES book'[x][i].order_id \in RestingIds \cup {o.order_id}
      BY <3>b
    <3>1. CASE x = side /\ i = p
      BY <2>4, <3>1
    <3>2. CASE x # side \/ i # p
      <4> HIDE DEF from
      <4>1. from(x, i) \in 1..Len(book[x]) /\ book'[x][i] = book[x][from(x, i)]
        BY <2>4, <3>2
      <4> QED
        BY <4>1, RestingPlaces
    <3> QED
      BY <3>1, <3>2
  <2> QED
    <3> HIDE DEF from
    <3> QED
      BY <2>4, <2>6, <2>7
<1> QED
  BY <1>1, <1>2

-----------------------------------------------------------------------------
(* Departures and the history of them.                                      *)

LEMMA DepartKeeps ==
  ASSUME retired \in Seq(Ids), departed \in Seq(Ids), KeepsRecent, DepartOnce,
         NEW id \in Ids, \A i \in 1..Len(departed) : departed[i] # id,
         History!insert(id), departed' = Append(departed, id)
  PROVE  /\ departed' \in Seq(Ids) /\ DepartOnce' /\ KeepsRecent'
         /\ \A i \in 1..Len(departed') :
              departed'[i] = id \/ \E k \in 1..Len(departed) : departed'[i] = departed[k]
<1> DEFINE n == Len(departed)
           m == Len(retired)
<1>0. n \in Nat /\ m \in Nat /\ MaxOrders \in Nat \ {0}
  BY LenProperties, BoundsAreNatural
<1>1. /\ departed' \in Seq(Ids) /\ Len(departed') = n + 1 /\ departed'[n + 1] = id
      /\ \A i \in 1..n : departed'[i] = departed[i]
  BY AppendProperties
<1>2. /\ m = IF n <= MaxOrders THEN n ELSE MaxOrders
      /\ \A i \in 1..m : retired[i] = departed[n - m + i]
  BY DEF KeepsRecent
<1>3. ~ History!contains(id)
  <2>1. \A i \in 1..m : n - m + i \in 1..n
    BY <1>0, <1>2
  <2> QED
    BY <1>2, <2>1 DEF History!contains
<1>4. DepartOnce'
  <2> SUFFICES ASSUME NEW i \in 1..(n + 1), NEW j \in 1..(n + 1), departed'[i] = departed'[j]
               PROVE  i = j
    BY <1>1 DEF DepartOnce
  <2>1. (i = n + 1 \/ i \in 1..n) /\ (j = n + 1 \/ j \in 1..n)
    BY <1>0
  <2> QED
    BY <1>1, <2>1 DEF DepartOnce
<1>5. KeepsRecent'
  <2>1. CASE m = MaxOrders
    <3>1. retired' = Append(Tail(retired), id)
      BY <1>3, <2>1 DEF History!insert
    <3>2. retired # << >>
      BY <1>0, <2>1, EmptySeq
    <3>3. /\ Tail(retired) \in Seq(Ids) /\ Len(Tail(retired)) = m - 1
          /\ \A i \in 1..(m - 1) : Tail(retired)[i] = retired[i + 1]
      BY <3>2, HeadTailProperties
    <3> HIDE DEF n, m
    <3>4. /\ Len(retired') = m /\ retired'[m] = id
          /\ \A i \in 1..(m - 1) : retired'[i] = retired[i + 1]
      BY <1>0, <2>1, <3>1, <3>3, AppendProperties
    <3>5. n >= m /\ Len(departed') - Len(retired') = n + 1 - m
      BY <1>0, <1>1, <1>2, <2>1, <3>4
    <3>6. ASSUME NEW i \in 1..m PROVE retired'[i] = departed'[(n + 1 - m) + i]
      <4>1. CASE i = m
        BY <1>0, <1>1, <3>4, <4>1
      <4>2. CASE i # m
        <5>1. /\ i \in 1..(m - 1) /\ i + 1 \in 1..m
              /\ (n + 1 - m) + i = n - m + (i + 1) /\ n - m + (i + 1) \in 1..n
          BY <1>0, <3>5, <4>2
        <5>2. retired'[i] = retired[i + 1] /\ retired[i + 1] = departed[n - m + (i + 1)]
          BY <1>2, <3>4, <5>1
        <5>3. departed'[n - m + (i + 1)] = departed[n - m + (i + 1)]
          BY <1>1, <5>1, Zenon
        <5> QED
          BY <5>1, <5>2, <5>3, Zenon
      <4> QED
        BY <4>1, <4>2, Zenon
    <3>7. Len(retired') = IF Len(departed') <= MaxOrders THEN Len(departed') ELSE MaxOrders
      BY <1>0, <1>1, <2>1, <3>4, <3>5
    <3> QED
      BY <3>4, <3>5, <3>6, <3>7, Zenon DEF KeepsRecent
  <2>2. CASE m # MaxOrders
    <3>1. retired' = Append(retired, id)
      BY <1>3, <2>2 DEF History!insert
    <3> HIDE DEF n, m
    <3>2. n = m /\ n < MaxOrders
      BY <1>0, <1>2, <2>2
    <3>3. /\ Len(retired') = m + 1 /\ retired'[m + 1] = id
          /\ \A i \in 1..m : retired'[i] = retired[i]
      BY <3>1, AppendProperties DEF m
    <3>4. ASSUME NEW i \in 1..(m + 1) PROVE retired'[i] = departed'[i]
      <4>1. CASE i = m + 1
        BY <1>1, <3>2, <3>3, <4>1
      <4>2. CASE i # m + 1
        <5>1. i \in 1..m /\ i \in 1..n /\ n - m + i = i
          BY <1>0, <3>2, <4>2
        <5>2. retired[i] = departed[n - m + i]
          BY <1>2, <5>1
        <5>3. retired'[i] = retired[i] /\ departed'[i] = departed[i]
          BY <1>1, <3>3, <5>1, Zenon
        <5> QED
          BY <5>1, <5>2, <5>3
      <4> QED
        BY <4>1, <4>2, Zenon
    <3>5. Len(departed') - Len(retired') = 0 /\ \A i \in 1..(m + 1) : 0 + i = i
      BY <1>0, <1>1, <3>2, <3>3
    <3>6. Len(retired') = IF Len(departed') <= MaxOrders THEN Len(departed') ELSE MaxOrders
      BY <1>0, <1>1, <3>2, <3>3
    <3> QED
      BY <3>3, <3>4, <3>5, <3>6 DEF KeepsRecent
  <2> QED
    BY <2>1, <2>2
<1>6. ASSUME NEW i \in 1..Len(departed')
      PROVE  departed'[i] = id \/ \E k \in 1..n : departed'[i] = departed[k]
  <2>1. i = n + 1 \/ i \in 1..n
    BY <1>0, <1>1
  <2> QED
    BY <1>1, <2>1
<1> QED
  BY <1>1, <1>4, <1>5, <1>6

-----------------------------------------------------------------------------
(* The calls.                                                               *)

(* The ledger watches the core: its steps are steps of the core.            *)
LEMMA LedgerStepIsCoreStep ==
  [LedgerNext]_<<coreVars, ledgerVars>> => [Next]_coreVars
<1> SUFFICES ASSUME [LedgerNext]_<<coreVars, ledgerVars>> PROVE [Next]_coreVars
  OBVIOUS
<1>1. ASSUME NEW m \in NewOrders, Submit(m) \/ Refuse(m) PROVE Next
  BY <1>1 DEF Submit, Refuse, Next
<1>2. CASE Exchange \/ Settle
  BY <1>2 DEF Exchange, Settle, Next
<1>3. ASSUME NEW id \in Ids, Withdraw(id) PROVE Next
  BY <1>3 DEF Withdraw, Next
<1>4. CASE Reset
  BY <1>4 DEF Reset, Next
<1>5. CASE UNCHANGED <<coreVars, ledgerVars>>
  BY <1>5
<1> QED
  BY <1>1, <1>2, <1>3, <1>4, <1>5 DEF LedgerNext

LEMMA RestingFacts ==
  ASSUME LedgerInv, NEW x \in Sides, NEW i \in 1..Len(book[x])
  PROVE  /\ book[x][i] \in RestingOrders
         /\ book[x][i].order_id \in RestingIds
         /\ book[x][i].order_id \in Ids
         /\ book[x][i].remaining_qty \in 1..MaxQuantity
         /\ submitted[book[x][i].order_id] \in Nat
         /\ traded[book[x][i].order_id] \in Nat
         /\ book[x][i].remaining_qty =
              submitted[book[x][i].order_id] - traded[book[x][i].order_id]
<1>1. book[x] \in Seq(RestingOrders)
  BY DEF LedgerInv, IInv, TypeOK, BookTypeOK
<1>2. book[x][i] \in RestingOrders
  BY <1>1, ElementOfSeq
<1>3. book[x][i].order_id \in Ids /\ book[x][i].remaining_qty \in 1..MaxQuantity
  BY <1>2 DEF RestingOrders
<1>4. book[x][i].order_id \in RestingIds
  BY RestingPlaces
<1>5. submitted \in [Ids -> Nat] /\ traded \in [Ids -> Nat]
  BY DEF LedgerInv, LedgerAgrees
<1>6. book[x][i].remaining_qty = submitted[book[x][i].order_id] - traded[book[x][i].order_id]
  BY DEF LedgerInv, LedgerAgrees, FillsAccountForQuantity
<1> QED
  BY <1>2, <1>3, <1>4, <1>5, <1>6

(* A step that leaves the book or the history alone.                        *)
LEMMA BookLeftAlone ==
  ASSUME book' = book, RestOnce
  PROVE  RestOnce'
BY DEF RestOnce

LEMMA HistoryLeftAlone ==
  ASSUME departed' = departed, retired' = retired, DepartOnce, KeepsRecent
  PROVE  DepartOnce' /\ KeepsRecent'
BY DEF DepartOnce, KeepsRecent

LEMMA SubmitKeeps ==
  ASSUME LedgerInv, NEW m \in NewOrders, Submit(m)
  PROVE  LedgerAgrees'
<1> DEFINE id == m.order_id
<1>1. /\ id \in Ids /\ m.quantity \in Nat /\ m.quantity > 0
      /\ Idle /\ m # NoOrder /\ incoming' = m /\ remaining' = m.quantity
      /\ book' = book /\ retired' = retired
      /\ submitted[id] = 0 /\ submitted' = [submitted EXCEPT ![id] = m.quantity]
      /\ traded' = traded /\ departed' = departed
  BY NoOrderAssumption, BoundsAreNatural
     DEF Submit, StartNewOrder, validate_new_order, QuantityInRange, NewOrders
<1>2. /\ submitted \in [Ids -> Nat] /\ traded \in [Ids -> Nat] /\ departed \in Seq(Ids)
      /\ RestOnce /\ OneStanding /\ DepartOnce /\ KeepsRecent /\ FillsAccountForQuantity
  BY DEF LedgerInv, LedgerAgrees
<1>3. RestingIds' = RestingIds
  BY <1>1 DEF RestingIds
<1>4. id \notin Known /\ Known' = Known \cup {id}
  BY <1>1, <1>2 DEF Known
<1>5. submitted' \in [Ids -> Nat] /\ submitted'[id] = m.quantity
      /\ \A other \in Ids : other # id => submitted'[other] = submitted[other]
  BY <1>1, <1>2
<1>6. RestOnce' /\ DepartOnce' /\ KeepsRecent'
  BY <1>1, <1>2, BookLeftAlone, HistoryLeftAlone
<1>7. OneStanding'
  BY <1>1, <1>2, <1>3, <1>4 DEF OneStanding
<1>8. traded[id] = 0
  BY <1>1, <1>2 DEF FillsAccountForQuantity
<1>9. FillsAccountForQuantity'
  <2>1. ASSUME NEW x \in Sides, NEW i \in 1..Len(book'[x])
        PROVE  book'[x][i].remaining_qty =
                 submitted'[book'[x][i].order_id] - traded'[book'[x][i].order_id]
    <3>1. /\ book[x][i].order_id \in Ids /\ book[x][i].order_id # id
          /\ book[x][i].remaining_qty =
               submitted[book[x][i].order_id] - traded[book[x][i].order_id]
      BY <1>1, <1>2, <1>4, <2>1, RestingFacts DEF OneStanding
    <3> QED
      BY <1>1, <1>5, <3>1
  <2>2. remaining' = submitted'[incoming'.order_id] - traded'[incoming'.order_id]
    BY <1>1, <1>5, <1>8
  <2>3. ASSUME NEW other \in Ids PROVE traded'[other] <= submitted'[other]
    BY <1>1, <1>2, <1>5, <1>8 DEF FillsAccountForQuantity
  <2> QED
    BY <2>1, <2>2, <2>3 DEF FillsAccountForQuantity
<1> QED
  BY <1>1, <1>2, <1>5, <1>6, <1>7, <1>9 DEF LedgerAgrees

(* A trade is entered for two orders, and changes what is left of those two *)
(* by the same quantity.                                                    *)
LEMMA ExchangeKeeps ==
  ASSUME LedgerInv, Exchange
  PROVE  LedgerAgrees'
<1> DEFINE opp == Opposite(incoming.side)
           a == incoming.order_id
           b == Best.order_id
<1>0. MatchOne /\ IInv /\ BookTypeOK
  BY DEF Exchange, LedgerInv, IInv, TypeOK
<1>1. /\ submitted \in [Ids -> Nat] /\ traded \in [Ids -> Nat] /\ departed \in Seq(Ids)
      /\ RestOnce /\ OneStanding /\ DepartOnce /\ KeepsRecent /\ FillsAccountForQuantity
  BY DEF LedgerInv, LedgerAgrees
<1>2. /\ opp \in Sides /\ 1 \in 1..Len(book[opp]) /\ book[opp][1] = Best /\ book[opp] # << >>
      /\ Fill \in 1..Best.remaining_qty /\ Fill \in Nat /\ remaining - Fill \in 0..MaxQuantity
      /\ a \in Ids /\ ~ Idle
  BY <1>0, MatchFacts DEF NewOrders, Best, MatchOne
<1>3. /\ b \in RestingIds /\ b \in Ids /\ Best.remaining_qty \in 1..MaxQuantity
      /\ Best.remaining_qty = submitted[b] - traded[b]
      /\ submitted[b] \in Nat /\ traded[b] \in Nat
  BY <1>2, RestingFacts
<1>4. /\ a \in Known \ RestingIds /\ b \in Known /\ a # b
      /\ remaining = submitted[a] - traded[a] /\ submitted[a] \in Nat /\ traded[a] \in Nat
  BY <1>1, <1>2, <1>3 DEF OneStanding, FillsAccountForQuantity
<1>5. /\ submitted' = submitted /\ incoming' = incoming /\ remaining' = remaining - Fill
      /\ Known' = Known
      /\ traded' = [id \in Ids |-> traded[id] + IF id \in {a, b} THEN Fill ELSE 0]
      /\ departed' = IF b \in RestingIds' THEN departed ELSE Append(departed, b)
  <2> DEFINE t == Last(emitted')
  <2>1. t.incoming_id = a /\ t.resting_id = b /\ t.quantity = Fill
    BY <1>0, TradeDelivered
  <2>2. /\ submitted' = submitted
        /\ traded' = [id \in Ids |-> traded[id] +
                        IF id \in {t.incoming_id, t.resting_id} THEN t.quantity ELSE 0]
        /\ departed' = IF t.resting_id \in RestingIds' THEN departed
                       ELSE Append(departed, t.resting_id)
    BY DEF Exchange
  <2> HIDE DEF t
  <2>3. incoming' = incoming /\ remaining' = remaining - Fill
    BY <1>0, MatchEffect
  <2> QED
    BY <2>1, <2>2, <2>3 DEF Known
<1> HIDE DEF a, b, opp
<1>6. /\ traded' \in [Ids -> Nat]
      /\ traded'[a] = traded[a] + Fill /\ traded'[b] = traded[b] + Fill
      /\ \A id \in Ids : id # a /\ id # b => traded'[id] = traded[id]
  <2>1. ASSUME NEW id \in Ids
        PROVE  /\ traded'[id] = traded[id] + IF id \in {a, b} THEN Fill ELSE 0
               /\ traded[id] \in Nat
    BY <1>1, <1>5
  <2>2. ASSUME NEW id \in Ids
        PROVE  /\ id = a \/ id = b => traded'[id] = traded[id] + Fill
               /\ id # a /\ id # b => traded'[id] = traded[id]
               /\ traded'[id] \in Nat
    <3>1. CASE id \in {a, b}
      BY <1>2, <2>1, <3>1
    <3>2. CASE id \notin {a, b}
      BY <2>1, <3>2
    <3> QED
      BY <3>1, <3>2
  <2>3. traded' = [id \in Ids |-> traded'[id]]
    BY <1>5
  <2> QED
    BY <1>2, <1>3, <2>2, <2>3
<1>7. \A id \in Ids : traded'[id] <= submitted'[id]
  <2>1. traded'[a] <= submitted'[a]
    BY <1>2, <1>4, <1>5, <1>6, BoundsAreNatural
  <2>2. traded'[b] <= submitted'[b]
    BY <1>2, <1>3, <1>5, <1>6, BoundsAreNatural
  <2>3. ASSUME NEW id \in Ids, id # a, id # b PROVE traded'[id] <= submitted'[id]
    BY <1>1, <1>5, <1>6, <2>3 DEF FillsAccountForQuantity
  <2> QED
    BY <2>1, <2>2, <2>3
<1>8. remaining' = submitted'[a] - traded'[a]
  BY <1>2, <1>4, <1>5, <1>6, BoundsAreNatural
<1>9. CASE Fill = Best.remaining_qty /\ History!insert(b) /\ remove_order(opp, 1)
  <2>1. /\ RestOnce' /\ RestingIds' = RestingIds \ {b}
        /\ \A x \in Sides : \A i \in 1..Len(book'[x]) :
             \E k \in 1..Len(book[x]) : book'[x][i] = book[x][k]
    BY <1>0, <1>1, <1>2, <1>9, RemoveDeparts, Zenon DEF b
  <2>2. departed' = Append(departed, b) /\ \A i \in 1..Len(departed) : departed[i] # b
    BY <1>1, <1>3, <1>5, <2>1 DEF OneStanding
  <2>3. /\ departed' \in Seq(Ids) /\ DepartOnce' /\ KeepsRecent'
        /\ \A i \in 1..Len(departed') :
             departed'[i] = b \/ \E k \in 1..Len(departed) : departed'[i] = departed[k]
    BY <1>0, <1>1, <1>3, <1>9, <2>2, DepartKeeps DEF IInv, TypeOK
  <2>4. \A i \in 1..Len(departed') : departed'[i] \in Known \ RestingIds' /\ departed'[i] # a
    <3>1. b \in Known \ RestingIds' /\ b # a
      BY <1>1, <1>2, <1>4, <2>1 DEF OneStanding, a
    <3>2. \A k \in 1..Len(departed) : departed[k] \in Known \ RestingIds' /\ departed[k] # a
      BY <1>1, <1>2, <2>1 DEF OneStanding, a
    <3> QED
      BY <2>3, <3>1, <3>2
  <2>5. OneStanding'
    BY <1>1, <1>4, <1>5, <2>1, <2>4, Zenon DEF OneStanding, a
  <2>6. ASSUME NEW x \in Sides, NEW i \in 1..Len(book'[x])
        PROVE  book'[x][i].remaining_qty =
                 submitted'[book'[x][i].order_id] - traded'[book'[x][i].order_id]
    <3>1. PICK k \in 1..Len(book[x]) : book'[x][i] = book[x][k]
      BY <2>1
    <3>2. book'[x][i].order_id \in RestingIds'
      BY DEF RestingIds
    <3>3. /\ book[x][k].order_id \in Ids
          /\ book[x][k].order_id # a /\ book[x][k].order_id # b
      BY <1>4, <2>1, <3>1, <3>2, RestingFacts
    <3>4. book[x][k].remaining_qty =
            submitted[book[x][k].order_id] - traded[book[x][k].order_id]
      BY RestingFacts
    <3> QED
      BY <1>5, <1>6, <3>1, <3>3, <3>4
  <2>7. FillsAccountForQuantity'
    BY <1>5, <1>7, <1>8, <2>6 DEF FillsAccountForQuantity, a
  <2> QED
    BY <1>1, <1>5, <1>6, <2>1, <2>3, <2>5, <2>7 DEF LedgerAgrees
<1>10. CASE Fill < Best.remaining_qty /\ reduce_front(opp, Fill) /\ UNCHANGED retired
  <2>0. Fill \in 1..(book[opp][1].remaining_qty - 1)
    BY <1>2, <1>3, <1>10, BoundsAreNatural
  <2>1. /\ RestOnce' /\ RestingIds' = RestingIds
        /\ \A x \in Sides : \A i \in 1..Len(book'[x]) :
             /\ i \in 1..Len(book[x])
             /\ book'[x][i].order_id = book[x][i].order_id
             /\ x # opp \/ i # 1 => book'[x][i] = book[x][i]
             /\ x = opp /\ i = 1 =>
                  book'[x][i].remaining_qty = book[x][i].remaining_qty - Fill
    BY <1>0, <1>1, <1>2, <1>10, <2>0, ReduceStays
  <2>2. departed' = departed /\ retired' = retired
    BY <1>3, <1>5, <1>10, <2>1
  <2>3. DepartOnce' /\ KeepsRecent' /\ OneStanding'
    <3>1. DepartOnce' /\ KeepsRecent'
      BY <1>1, <2>2, HistoryLeftAlone
    <3>2. OneStanding'
      BY <1>1, <1>5, <2>1, <2>2 DEF OneStanding, Idle
    <3> QED
      BY <3>1, <3>2
  <2>4. ASSUME NEW x \in Sides, NEW i \in 1..Len(book'[x])
        PROVE  book'[x][i].remaining_qty =
                 submitted'[book'[x][i].order_id] - traded'[book'[x][i].order_id]
    <3>0. i \in 1..Len(book[x]) /\ book'[x][i].order_id = book[x][i].order_id
      BY <2>1
    <3>1. CASE x = opp /\ i = 1
      <4>1. book'[x][i].order_id = b /\ book'[x][i].remaining_qty = Best.remaining_qty - Fill
        BY <1>2, <2>1, <3>1 DEF b
      <4> QED
        BY <1>2, <1>3, <1>5, <1>6, <4>1, BoundsAreNatural
    <3>2. CASE x # opp \/ i # 1
      <4>1. book'[x][i] = book[x][i]
        BY <2>1, <3>2
      <4>2. book[x][i].order_id # b
        BY <1>1, <1>2, <3>0, <3>2 DEF RestOnce, b
      <4>3. book[x][i].order_id # a /\ book[x][i].order_id \in Ids
        BY <1>4, <3>0, RestingFacts
      <4> QED
        BY <1>5, <1>6, <3>0, <4>1, <4>2, <4>3, RestingFacts
    <3> QED
      BY <3>1, <3>2
  <2>5. FillsAccountForQuantity'
    BY <1>5, <1>7, <1>8, <2>4 DEF FillsAccountForQuantity, a
  <2> QED
    BY <1>1, <1>5, <1>6, <2>1, <2>2, <2>3, <2>5 DEF LedgerAgrees
<1> QED
  BY <1>0, <1>9, <1>10, MatchEffect DEF b, opp

(* The remainder rests, or is lost; its account is closed either way.       *)
LEMMA SettleKeeps ==
  ASSUME LedgerInv, Settle
  PROVE  LedgerAgrees'
<1> DEFINE o == [order_id |-> incoming.order_id, seq |-> incoming.seq,
                 price_ticks |-> incoming.price_ticks, remaining_qty |-> remaining]
<1>0. IInv /\ BookTypeOK /\ ~ Idle /\ incoming \in NewOrders /\ validate_new_order(incoming)
  BY DEF Settle, RestRemainder, LedgerInv, IInv, TypeOK, IncomingValid
<1>1. /\ submitted \in [Ids -> Nat] /\ traded \in [Ids -> Nat] /\ departed \in Seq(Ids)
      /\ RestOnce /\ OneStanding /\ DepartOnce /\ KeepsRecent /\ FillsAccountForQuantity
  BY DEF LedgerInv, LedgerAgrees
<1>2. /\ submitted' = submitted /\ traded' = traded /\ departed' = departed
      /\ retired' = retired /\ Idle' /\ Known' = Known
  BY DEF Settle, RestRemainder, Return, ledgerVars, Idle, Known
<1>3. CASE ~ (remaining > 0)
  <2>1. book' = book
    BY <1>3 DEF Settle, RestRemainder
  <2>2. RestOnce' /\ DepartOnce' /\ KeepsRecent'
    BY <1>1, <1>2, <2>1, BookLeftAlone, HistoryLeftAlone
  <2>3. RestingIds' = RestingIds
    BY <2>1 DEF RestingIds
  <2>4. OneStanding'
    BY <1>1, <1>2, <2>3 DEF OneStanding
  <2>5. FillsAccountForQuantity'
    BY <1>1, <1>2, <2>1 DEF FillsAccountForQuantity
  <2> QED
    BY <1>1, <1>2, <2>2, <2>4, <2>5 DEF LedgerAgrees
<1>4. CASE remaining > 0
  <2>1. insert_order(incoming.side, o) /\ incoming.side \in Sides
    BY <1>0, <1>4 DEF Settle, RestRemainder, NewOrders
  <2>2. o \in RestingOrders
    BY <1>0, <1>4, BoundsAreNatural DEF NewOrders, RestingOrders, IInv, TypeOK,
         validate_new_order, PriceInRange
  <2>3. /\ o.order_id = incoming.order_id /\ o.remaining_qty = remaining
        /\ o.order_id \in Known \ RestingIds
    BY <1>0, <1>1 DEF OneStanding
  <2> HIDE DEF o
  <2>4. /\ RestOnce' /\ RestingIds' \subseteq RestingIds \cup {o.order_id}
        /\ \A x \in Sides : \A i \in 1..Len(book'[x]) :
             book'[x][i] = o \/ \E k \in 1..Len(book[x]) : book'[x][i] = book[x][k]
    BY <1>0, <1>1, <2>1, <2>2, <2>3, InsertRests, Zenon
  <2>5. OneStanding'
    BY <1>0, <1>1, <1>2, <2>3, <2>4 DEF OneStanding
  <2>6. ASSUME NEW x \in Sides, NEW i \in 1..Len(book'[x])
        PROVE  book'[x][i].remaining_qty =
                 submitted'[book'[x][i].order_id] - traded'[book'[x][i].order_id]
    <3>1. CASE book'[x][i] = o
      BY <1>0, <1>1, <1>2, <2>3, <3>1 DEF FillsAccountForQuantity
    <3>2. CASE \E k \in 1..Len(book[x]) : book'[x][i] = book[x][k]
      BY <1>1, <1>2, <3>2, RestingFacts
    <3> QED
      BY <2>4, <3>1, <3>2
  <2>7. FillsAccountForQuantity'
    BY <1>1, <1>2, <2>6 DEF FillsAccountForQuantity
  <2> QED
    BY <1>1, <1>2, <2>4, <2>5, <2>7, Zenon DEF LedgerAgrees, DepartOnce, KeepsRecent
<1> QED
  BY <1>3, <1>4

(* A cancelled order departs with its account as it stands.                 *)
LEMMA WithdrawKeeps ==
  ASSUME LedgerInv, NEW id \in Ids, CancelResting(id),
         departed' = Append(departed, id), UNCHANGED <<submitted, traded>>
  PROVE  LedgerAgrees'
<1> DEFINE side == SideOf(id)
           p == PositionOf(SideOf(id), id)
<1>0. IInv /\ BookTypeOK
  BY DEF LedgerInv, IInv, TypeOK
<1>1. /\ submitted \in [Ids -> Nat] /\ traded \in [Ids -> Nat] /\ departed \in Seq(Ids)
      /\ RestOnce /\ OneStanding /\ DepartOnce /\ KeepsRecent /\ FillsAccountForQuantity
  BY DEF LedgerInv, LedgerAgrees
<1>2. /\ side \in Sides /\ p \in 1..Len(book[side]) /\ book[side][p].order_id = id
      /\ remove_order(side, p) /\ History!insert(id) /\ Idle' /\ Known' = Known
      /\ submitted' = submitted /\ traded' = traded
  <2>1. side \in Sides /\ p \in 1..Len(book[side])
    BY <1>0, PositionFacts DEF CancelResting
  <2>2. book[side][p].order_id = id
    <3> DEFINE here == {i \in 1..Len(book[side]) : book[side][i].order_id = id}
    <3>1. p = IF here = {} THEN 0 ELSE Min(here)
      BY DEF PositionOf
    <3>2. here # {} /\ here \subseteq Nat
      BY <2>1, <3>1
    <3>3. p \in here
      BY <3>1, <3>2, MinFacts
    <3> QED
      BY <3>3
  <2> QED
    BY <2>1, <2>2 DEF CancelResting, Idle, Known
<1> HIDE DEF side, p
<1>3. /\ RestOnce' /\ RestingIds' = RestingIds \ {id}
      /\ \A x \in Sides : \A i \in 1..Len(book'[x]) :
           \E k \in 1..Len(book[x]) : book'[x][i] = book[x][k]
  BY <1>0, <1>1, <1>2, RemoveDeparts, Zenon
<1>4. id \in RestingIds
  BY <1>2, RestingPlaces
<1>5. \A i \in 1..Len(departed) : departed[i] # id
  BY <1>1, <1>4 DEF OneStanding
<1>6. /\ departed' \in Seq(Ids) /\ DepartOnce' /\ KeepsRecent'
      /\ \A i \in 1..Len(departed') :
           departed'[i] = id \/ \E k \in 1..Len(departed) : departed'[i] = departed[k]
  <2>1. retired \in Seq(Ids)
    BY <1>0 DEF IInv, TypeOK
  <2> QED
    BY <1>1, <1>2, <1>5, <2>1, DepartKeeps
<1>7. OneStanding'
  <2>1. \A i \in 1..Len(departed') : departed'[i] \in Known \ RestingIds'
    BY <1>1, <1>3, <1>4, <1>6 DEF OneStanding
  <2> QED
    BY <1>1, <1>2, <1>3, <2>1 DEF OneStanding
<1>8. FillsAccountForQuantity'
  <2>1. ASSUME NEW x \in Sides, NEW i \in 1..Len(book'[x])
        PROVE  book'[x][i].remaining_qty =
                 submitted'[book'[x][i].order_id] - traded'[book'[x][i].order_id]
    <3>1. PICK k \in 1..Len(book[x]) : book'[x][i] = book[x][k]
      BY <1>3
    <3> QED
      BY <1>2, <3>1, RestingFacts
  <2> QED
    BY <1>1, <1>2, <2>1 DEF FillsAccountForQuantity
<1> QED
  BY <1>1, <1>2, <1>3, <1>6, <1>7, <1>8 DEF LedgerAgrees

(* A new ledger beside an empty book.                                       *)
LEMMA FreshLedger ==
  ASSUME book = [side \in Sides |-> << >>], retired = << >>, incoming = NoOrder,
         submitted = [id \in Ids |-> 0], traded = [id \in Ids |-> 0], departed = << >>
  PROVE  LedgerAgrees
<1>1. /\ Len(departed) = 0 /\ Len(retired) = 0 /\ departed \in Seq(Ids)
      /\ \A x \in Sides : Len(book[x]) = 0
  BY EmptySeq
<1>2. submitted \in [Ids -> Nat] /\ traded \in [Ids -> Nat]
  OBVIOUS
<1>3. RestOnce /\ DepartOnce
  BY <1>1 DEF RestOnce, DepartOnce
<1>4. OneStanding
  <2>1. RestingIds = {}
    BY <1>1 DEF RestingIds
  <2>2. Idle
    BY DEF Idle
  <2> QED
    BY <1>1, <2>1, <2>2 DEF OneStanding
<1>5. KeepsRecent
  BY <1>1, BoundsAreNatural DEF KeepsRecent
<1>6. FillsAccountForQuantity
  BY <1>1 DEF FillsAccountForQuantity, Idle
<1> QED
  BY <1>1, <1>2, <1>3, <1>4, <1>5, <1>6 DEF LedgerAgrees

LEMMA InitLedgerInv == LedgerInit => LedgerInv
BY InitIInv, FreshLedger DEF LedgerInit, LedgerInv, CoreInit, BookInit

(* Every step of the engine keeps the ledger in agreement with the book.    *)
LEMMA NextLedgerInv ==
  LedgerInv /\ [LedgerNext]_<<coreVars, ledgerVars>> => LedgerInv'
<1> SUFFICES ASSUME LedgerInv, [LedgerNext]_<<coreVars, ledgerVars>> PROVE LedgerAgrees'
  BY LedgerStepIsCoreStep, NextIInv DEF LedgerInv
<1>1. ASSUME UNCHANGED <<book, retired, incoming, remaining, submitted, traded, departed>>
      PROVE  LedgerAgrees'
  <2>1. RestingIds' = RestingIds /\ Known' = Known /\ Idle' = Idle
    BY <1>1 DEF RestingIds, Known, Idle
  <2>2. RestOnce' = RestOnce /\ DepartOnce' = DepartOnce /\ KeepsRecent' = KeepsRecent
    BY <1>1 DEF RestOnce, DepartOnce, KeepsRecent
  <2>3. OneStanding' = OneStanding
    BY <1>1, <2>1 DEF OneStanding
  <2>4. FillsAccountForQuantity' = FillsAccountForQuantity
    BY <1>1, <2>1 DEF FillsAccountForQuantity
  <2> QED
    BY <1>1, <2>2, <2>3, <2>4 DEF LedgerInv, LedgerAgrees
<1>2. ASSUME NEW m \in NewOrders, Submit(m) \/ Refuse(m) PROVE LedgerAgrees'
  BY <1>1, <1>2, SubmitKeeps DEF Refuse, RejectNewOrder, ledgerVars
<1>3. CASE Exchange
  BY <1>3, ExchangeKeeps
<1>4. CASE Settle
  BY <1>4, SettleKeeps
<1>5. ASSUME NEW id \in Ids, Withdraw(id) PROVE LedgerAgrees'
  BY <1>1, <1>5, WithdrawKeeps DEF Withdraw, CancelMiss, ledgerVars
<1>6. CASE Reset
  <2>1. /\ book' = [side \in Sides |-> << >>] /\ retired' = << >> /\ incoming' = NoOrder
        /\ submitted' = [id \in Ids |-> 0] /\ traded' = [id \in Ids |-> 0]
        /\ departed' = << >>
    BY <1>6 DEF Reset, ResetCore, clear, History!clear, Idle
  <2>2. /\ Len(departed') = 0 /\ Len(retired') = 0 /\ departed' \in Seq(Ids)
        /\ \A x \in Sides : Len(book'[x]) = 0
    BY <2>1, EmptySeq
  <2>3. RestOnce' /\ DepartOnce'
    BY <2>2 DEF RestOnce, DepartOnce
  <2>4. OneStanding'
    BY <2>1, <2>2 DEF OneStanding, RestingIds, Idle
  <2>5. KeepsRecent'
    BY <2>2, BoundsAreNatural DEF KeepsRecent
  <2>6. FillsAccountForQuantity'
    BY <2>1, <2>2 DEF FillsAccountForQuantity, Idle
  <2> QED
    BY <2>1, <2>2, <2>3, <2>4, <2>5, <2>6 DEF LedgerAgrees
<1>7. CASE UNCHANGED <<coreVars, ledgerVars>>
  BY <1>1, <1>7 DEF coreVars, ledgerVars
<1> QED
  BY <1>2, <1>3, <1>4, <1>5, <1>6, <1>7 DEF LedgerNext

LEMMA SpecLedgerInv == LedgerSpec => []LedgerInv
BY InitLedgerInv, NextLedgerInv, PTL DEF LedgerSpec

(* Whatever the engine is asked to do, the quantity left of every resting   *)
(* order and of the order being matched is what was submitted less what its *)
(* trades took, and no order is filled beyond its quantity.                 *)
THEOREM LedgerFillsAccount == LedgerSpec => []FillsAccountForQuantity
<1>1. LedgerInv => FillsAccountForQuantity
  BY DEF LedgerInv, LedgerAgrees
<1> QED
  BY <1>1, SpecLedgerInv, PTL

(* The history that tells a late cancellation from an unknown one holds     *)
(* exactly the latest departures, as many as fit, and none that rests.      *)
THEOREM LedgerRetiredRecent == LedgerSpec => []RetiredAreRecentDepartures
<1>1. LedgerInv => RetiredAreRecentDepartures
  <2> SUFFICES ASSUME LedgerInv PROVE RetiredAreRecentDepartures
    OBVIOUS
  <2> DEFINE n == Len(departed)
             first == 1 + (IF n > MaxOrders THEN n - MaxOrders ELSE 0)
  <2>1. retired \in Seq(Ids) /\ departed \in Seq(Ids) /\ KeepsRecent /\ OneStanding
    BY DEF LedgerInv, LedgerAgrees, IInv, TypeOK
  <2>2. n \in Nat /\ Len(retired) \in Nat /\ MaxOrders \in Nat \ {0}
    BY <2>1, LenProperties, BoundsAreNatural
  <2>3. /\ Len(retired) = n - first + 1 /\ first \in 1..(n + 1)
        /\ \A i \in 1..Len(retired) : retired[i] = departed[n - Len(retired) + i]
    <3>1. Len(retired) = IF n <= MaxOrders THEN n ELSE MaxOrders
      BY <2>1 DEF KeepsRecent
    <3>2. \A i \in 1..Len(retired) : retired[i] = departed[n - Len(retired) + i]
      BY <2>1 DEF KeepsRecent
    <3>3. CASE n <= MaxOrders
      BY <2>2, <3>1, <3>2, <3>3
    <3>4. CASE n > MaxOrders
      <4>1. first = 1 + (n - MaxOrders) /\ Len(retired) = MaxOrders
        BY <2>2, <3>1, <3>4
      <4> HIDE DEF first, n
      <4> QED
        BY <2>2, <3>2, <3>4, <4>1
    <3> QED
      BY <2>2, <3>3, <3>4
  <2> HIDE DEF first
  <2>4. \A i \in first..n : departed[i] \in Ids
    BY <2>1, <2>2, <2>3, ElementOfSeq
  <2>5. /\ SubSeq(departed, first, n) \in Seq(Ids)
        /\ Len(SubSeq(departed, first, n)) = IF first <= n THEN n - first + 1 ELSE 0
        /\ \A i \in 1..(n - first + 1) : SubSeq(departed, first, n)[i] = departed[first + i - 1]
    BY <2>2, <2>3, <2>4, SubSeqProperties
  <2>6. Len(SubSeq(departed, first, n)) = Len(retired)
    BY <2>2, <2>3, <2>5
  <2>7. ASSUME NEW i \in 1..Len(retired) PROVE retired[i] = SubSeq(departed, first, n)[i]
    <3>1. n - Len(retired) + i = first + i - 1 /\ i \in 1..(n - first + 1)
      BY <2>2, <2>3
    <3> QED
      BY <2>3, <2>5, <3>1
  <2>8. retired = SubSeq(departed, first, n)
    BY <2>1, <2>5, <2>6, <2>7, SeqEqual, Zenon
  <2>9. \A i \in 1..n : departed[i] \notin RestingIds
    BY <2>1 DEF OneStanding
  <2> QED
    BY <2>8, <2>9 DEF RetiredAreRecentDepartures, first
<1> QED
  BY <1>1, SpecLedgerInv, PTL

-----------------------------------------------------------------------------
(* The guard.                                                               *)
(*                                                                          *)
(* The checks compare neighbours and the two best prices; that this is      *)
(* enough for every pair of orders is ChecksSuffice, by the least position  *)
(* that would be out of order.                                              *)

LooseBooks == [Sides -> Seq(LooseOrders)]

Reports ==
  [check_conservation : BOOLEAN, incoming_qty : Words, traded_qty : Words,
   rested_qty : Words]

(* The inductive invariant: only books of orders are seen, and the one a    *)
(* refusal would bring back is consistent.                                  *)
GuardInv ==
  /\ book \in LooseBooks /\ snapshot \in LooseBooks
  /\ phase \in {"Idle", "Op", "Check"}
  /\ outcome \in Reports
  /\ result \in {"None", "Committed", "Refused"}
  /\ Atomic!Consistent(IF phase = "Idle" THEN book ELSE snapshot)

-----------------------------------------------------------------------------

LEMMA LooseFields ==
  ASSUME NEW x \in LooseOrders
  PROVE  x.price_ticks \in Nat /\ x.remaining_qty \in Nat
<1>1. x.price_ticks \in 1..MaxPriceTicks /\ x.remaining_qty \in 0..MaxQuantity
  BY DEF LooseOrders
<1> QED
  BY <1>1, BookAssumption, SMT

LEMMA LooseBookFacts ==
  ASSUME NEW b \in LooseBooks, NEW side \in Sides
  PROVE  /\ b[side] \in Seq(LooseOrders)
         /\ Len(b[side]) \in Nat
         /\ \A i \in 1..Len(b[side]) : /\ b[side][i] \in LooseOrders
                                       /\ b[side][i].price_ticks \in Nat
                                       /\ b[side][i].remaining_qty \in Nat
<1>1. b[side] \in Seq(LooseOrders)
  BY DEF LooseBooks
<1>2. Len(b[side]) \in Nat /\ \A i \in 1..Len(b[side]) : b[side][i] \in LooseOrders
  BY <1>1, LenProperties, ElementOfSeq
<1> QED
  BY <1>1, <1>2, LooseFields

(* Along one side no later price ranks before an earlier one.               *)
LEMMA NeighboursSuffice ==
  ASSUME book \in LooseBooks, check_price_ordering, NEW side \in Sides,
         NEW i \in 1..Len(book[side]), NEW j \in 1..Len(book[side]), i < j
  PROVE  ~ price_ranks_first(side, book[side][j].price_ticks, book[side][i].price_ticks)
<1> DEFINE s == book[side]
           price(k) == s[k].price_ticks
           bad == {k \in 1..Len(s) : i < k /\ price_ranks_first(side, price(k), price(i))}
<1>0. Len(s) \in Nat /\ \A k \in 1..Len(s) : price(k) \in Nat
  BY LooseBookFacts
<1>1. \A k \in 1..(Len(s) - 1) :
        price(k) = price(k + 1) \/ price_ranks_first(side, price(k), price(k + 1))
  BY DEF check_price_ordering, LevelInOrder
<1>2. SUFFICES ASSUME bad # {} PROVE FALSE
  OBVIOUS
<1>3. bad \subseteq Nat
  BY <1>0
<1>4. PICK m \in bad : \A k \in bad : m <= k
  BY <1>2, <1>3, MinFacts
<1> HIDE DEF price
<1>5. m \in 1..Len(s) /\ i < m /\ price_ranks_first(side, price(m), price(i))
  BY <1>4
<1>6. m - 1 \in 1..(Len(s) - 1) /\ m - 1 \in 1..Len(s) /\ (m - 1) + 1 = m
  BY <1>5, <1>0
<1>7. price(m - 1) = price(m) \/ price_ranks_first(side, price(m - 1), price(m))
  BY <1>1, <1>6
<1>8. m - 1 \notin bad
  BY <1>4, <1>5, <1>0
<1>9. m - 1 = i \/ ~ price_ranks_first(side, price(m - 1), price(i))
  BY <1>8, <1>6, <1>5, <1>0
<1>10. price(m) \in Nat /\ price(m - 1) \in Nat /\ price(i) \in Nat
  BY <1>0, <1>5, <1>6
<1> QED
  BY <1>5, <1>7, <1>9, <1>10 DEF price_ranks_first

(* The best prices speak for the others.                                    *)
LEMMA BestSuffices ==
  ASSUME book \in LooseBooks, check_price_ordering,
         NEW i \in 1..Len(book["Buy"]), NEW j \in 1..Len(book["Sell"])
  PROVE  book["Buy"][i].price_ticks < book["Sell"][j].price_ticks
<1>1. "Buy" \in Sides /\ "Sell" \in Sides
  BY DEF Sides
<1>2. /\ Len(book["Buy"]) \in Nat /\ Len(book["Sell"]) \in Nat
      /\ book["Buy"] \in Seq(LooseOrders) /\ book["Sell"] \in Seq(LooseOrders)
  BY <1>1, LooseBookFacts
<1>3. 1 \in 1..Len(book["Buy"]) /\ 1 \in 1..Len(book["Sell"])
  BY <1>2
<1>4. book["Buy"] # << >> /\ book["Sell"] # << >>
  BY <1>3, <1>2, EmptySeq
<1>5. book["Buy"][1].price_ticks < book["Sell"][1].price_ticks
  BY <1>4 DEF check_price_ordering, BestUncrossed
<1>6. i = 1 \/ ~ (book["Buy"][i].price_ticks > book["Buy"][1].price_ticks)
  <2>1. CASE 1 < i
    <3>1. ~ price_ranks_first("Buy", book["Buy"][i].price_ticks, book["Buy"][1].price_ticks)
      BY <1>1, <1>3, <2>1, NeighboursSuffice
    <3> QED
      BY <3>1 DEF price_ranks_first
  <2> QED
    BY <2>1
<1>7. j = 1 \/ ~ (book["Sell"][j].price_ticks < book["Sell"][1].price_ticks)
  <2>1. CASE 1 < j
    <3>1. ~ price_ranks_first("Sell", book["Sell"][j].price_ticks, book["Sell"][1].price_ticks)
      BY <1>1, <1>3, <2>1, NeighboursSuffice
    <3> QED
      BY <3>1 DEF price_ranks_first
  <2> QED
    BY <2>1
<1>8. /\ book["Buy"][i].price_ticks \in Nat /\ book["Buy"][1].price_ticks \in Nat
      /\ book["Sell"][j].price_ticks \in Nat /\ book["Sell"][1].price_ticks \in Nat
  BY <1>1, <1>3, LooseBookFacts
<1> DEFINE bid == book["Buy"][i].price_ticks
           best_bid == book["Buy"][1].price_ticks
           ask == book["Sell"][j].price_ticks
           best_ask == book["Sell"][1].price_ticks
<1>9. bid = best_bid \/ ~ (bid > best_bid)
  BY <1>6
<1>10. ask = best_ask \/ ~ (ask < best_ask)
  BY <1>7
<1>11. best_bid < best_ask
  BY <1>5
<1>12. bid \in Nat /\ best_bid \in Nat /\ ask \in Nat /\ best_ask \in Nat
  BY <1>8
<1>13. bid < ask
  <2> HIDE DEF bid, best_bid, ask, best_ask
  <2> QED
    BY <1>9, <1>10, <1>11, <1>12
<1> QED
  BY <1>13

(* What the walks of check_price_ordering establish, and nothing less than  *)
(* the order of all pairs does.                                             *)
LEMMA OrderingExact ==
  ASSUME book \in LooseBooks
  PROVE  check_price_ordering <=> Atomic!PricesInOrder(book)
<1>0. "Buy" \in Sides /\ "Sell" \in Sides
  BY DEF Sides
<1>1. /\ \A i \in 1..Len(book["Buy"]) : book["Buy"][i].price_ticks \in Nat
      /\ \A i \in 1..Len(book["Sell"]) : book["Sell"][i].price_ticks \in Nat
      /\ Len(book["Buy"]) \in Nat /\ Len(book["Sell"]) \in Nat
      /\ book["Buy"] \in Seq(LooseOrders) /\ book["Sell"] \in Seq(LooseOrders)
  BY <1>0, LooseBookFacts
<1>2. ASSUME check_price_ordering PROVE Atomic!PricesInOrder(book)
  <2>1. \A i \in 1..Len(book["Buy"]), j \in 1..Len(book["Sell"]) :
          book["Buy"][i].price_ticks < book["Sell"][j].price_ticks
    BY <1>2, BestSuffices
  <2>2. \A i, j \in 1..Len(book["Buy"]) :
          i < j => book["Buy"][i].price_ticks >= book["Buy"][j].price_ticks
    <3> TAKE i, j \in 1..Len(book["Buy"])
    <3> HAVE i < j
    <3>1. ~ price_ranks_first("Buy", book["Buy"][j].price_ticks, book["Buy"][i].price_ticks)
      BY <1>0, <1>2, NeighboursSuffice
    <3> QED
      BY <3>1, <1>1 DEF price_ranks_first
  <2>3. \A i, j \in 1..Len(book["Sell"]) :
          i < j => book["Sell"][i].price_ticks <= book["Sell"][j].price_ticks
    <3> TAKE i, j \in 1..Len(book["Sell"])
    <3> HAVE i < j
    <3>1. ~ price_ranks_first("Sell", book["Sell"][j].price_ticks, book["Sell"][i].price_ticks)
      BY <1>0, <1>2, NeighboursSuffice
    <3> QED
      BY <3>1, <1>1 DEF price_ranks_first
  <2> QED
    BY <2>1, <2>2, <2>3 DEF Atomic!PricesInOrder
<1>3. ASSUME Atomic!PricesInOrder(book) PROVE check_price_ordering
  <2>1. ASSUME NEW i \in 1..(Len(book["Buy"]) - 1) PROVE LevelInOrder("Buy", i)
    <3>1. i \in 1..Len(book["Buy"]) /\ i + 1 \in 1..Len(book["Buy"]) /\ i < i + 1
      BY <1>1
    <3>2. book["Buy"][i].price_ticks >= book["Buy"][i + 1].price_ticks
      BY <1>3, <3>1 DEF Atomic!PricesInOrder
    <3> QED
      BY <1>1, <3>1, <3>2 DEF LevelInOrder, price_ranks_first
  <2>2. ASSUME NEW i \in 1..(Len(book["Sell"]) - 1) PROVE LevelInOrder("Sell", i)
    <3>1. i \in 1..Len(book["Sell"]) /\ i + 1 \in 1..Len(book["Sell"]) /\ i < i + 1
      BY <1>1
    <3>2. book["Sell"][i].price_ticks <= book["Sell"][i + 1].price_ticks
      BY <1>3, <3>1 DEF Atomic!PricesInOrder
    <3> QED
      BY <1>1, <3>1, <3>2 DEF LevelInOrder, price_ranks_first
  <2>3. ASSUME book["Buy"] # << >>, book["Sell"] # << >>
        PROVE  book["Buy"][1].price_ticks < book["Sell"][1].price_ticks
    <3>1. Len(book["Buy"]) # 0 /\ Len(book["Sell"]) # 0
      BY <1>1, <2>3, EmptySeq
    <3>2. 1 \in 1..Len(book["Buy"]) /\ 1 \in 1..Len(book["Sell"])
      BY <1>1, <3>1
    <3> QED
      BY <1>3, <3>2 DEF Atomic!PricesInOrder
  <2> QED
    BY <2>1, <2>2, <2>3 DEF check_price_ordering, BestUncrossed, Sides
<1> QED
  BY <1>2, <1>3

(* A book passes the two state checks exactly when it is consistent.        *)
LEMMA ChecksSuffice ==
  ASSUME book \in LooseBooks
  PROVE  (find_state_violation = "None") <=> Atomic!Consistent(book)
<1>1. check_positive_quantity <=>
        \A side \in Sides : \A i \in 1..Len(book[side]) : book[side][i].remaining_qty > 0
  <2>1. \A side \in Sides : \A i \in 1..Len(book[side]) :
          book[side][i].remaining_qty \in Nat
    BY LooseBookFacts
  <2>2. \A side \in Sides : \A i \in 1..Len(book[side]) :
          book[side][i].remaining_qty # 0 <=> book[side][i].remaining_qty > 0
    BY <2>1
  <2> QED
    BY <2>2 DEF check_positive_quantity
<1> QED
  BY <1>1, OrderingExact DEF find_state_violation, Atomic!Consistent, Atomic!Sides, Sides

-----------------------------------------------------------------------------
(* The changes an operation makes keep a book of orders one.                *)

LEMMA PositionInRange ==
  ASSUME NEW side \in Sides, Len(book[side]) \in Nat, NEW o
  PROVE  InsertPosition(side, o) \in 1..(Len(book[side]) + 1)
<1> DEFINE worse == {i \in 1..Len(book[side]) : Ahead(side, o, book[side][i])}
<1>1. CASE worse = {}
  BY <1>1 DEF InsertPosition
<1>2. CASE worse # {}
  <2>1. worse \subseteq Nat
    OBVIOUS
  <2>2. Min(worse) \in worse
    BY <1>2, <2>1, MinFacts
  <2> QED
    BY <1>2, <2>2 DEF InsertPosition
<1> QED
  BY <1>1, <1>2

LEMMA SideKeeps ==
  ASSUME book \in LooseBooks, NEW side \in Sides, NEW t \in Seq(LooseOrders),
         book' = [book EXCEPT ![side] = t]
  PROVE  book' \in LooseBooks
BY DEF LooseBooks

LEMMA ChangeKeeps ==
  ASSUME book \in LooseBooks, Change
  PROVE  book' \in LooseBooks
<1>1. ASSUME NEW side \in Sides, NEW o \in RestingOrders, insert_order(side, o)
      PROVE  book' \in LooseBooks
  <2>1. CASE CanInsert(side, o.price_ticks)
    <3>1. o \in LooseOrders
      BY BookAssumption DEF RestingOrders, LooseOrders
    <3>2. book[side] \in Seq(LooseOrders) /\ Len(book[side]) \in Nat
      BY LooseBookFacts
    <3>3. InsertAt(book[side], InsertPosition(side, o), o) \in Seq(LooseOrders)
      BY <3>1, <3>2, PositionInRange, InsertAtFacts
    <3> QED
      BY <1>1, <2>1, <3>3, SideKeeps DEF insert_order
  <2> QED
    BY <1>1, <2>1 DEF insert_order
<1>2. ASSUME NEW side \in Sides, NEW i \in 1..Len(book[side]), remove_order(side, i)
      PROVE  book' \in LooseBooks
  <2>1. book[side] \in Seq(LooseOrders)
    BY LooseBookFacts
  <2>2. RemoveAt(book[side], i) \in Seq(LooseOrders)
    BY <2>1, RemoveAtFacts
  <2> QED
    BY <1>2, <2>2, SideKeeps, Zenon DEF remove_order
<1>3. ASSUME NEW side \in Sides, NEW i \in 1..Len(book[side]), NEW q \in 0..MaxQuantity,
             book' = [book EXCEPT ![side][i].remaining_qty = q]
      PROVE  book' \in LooseBooks
  <2> DEFINE o == [book[side][i] EXCEPT !.remaining_qty = q]
             t == [book[side] EXCEPT ![i] = o]
  <2>1. book[side] \in Seq(LooseOrders) /\ book[side][i] \in LooseOrders
    BY LooseBookFacts
  <2>2. o \in LooseOrders
    BY <2>1, Zenon DEF LooseOrders
  <2>3. t \in Seq(LooseOrders)
    BY <2>1, <2>2, ExceptSeq
  <2>4. book' = [book EXCEPT ![side] = t]
    BY <1>3
  <2> QED
    BY <2>3, <2>4, SideKeeps
<1> QED
  BY <1>1, <1>2, <1>3 DEF Change

-----------------------------------------------------------------------------
(* The inductive invariant.                                                 *)

LEMMA NoConservationIsReport == no_conservation \in Reports
BY OutcomesAssumption DEF no_conservation, Reports, Words

LEMMA GuardInvInit == GuardInit => GuardInv
<1> SUFFICES ASSUME GuardInit PROVE GuardInv
  OBVIOUS
<1>1. book = [side \in Sides |-> << >>] /\ snapshot = [side \in Sides |-> << >>]
  BY DEF GuardInit, BookInit
<1>2. << >> \in Seq(LooseOrders) /\ Len(<< >>) = 0
  OBVIOUS
<1>3. book \in LooseBooks /\ snapshot \in LooseBooks
  BY <1>1, <1>2 DEF LooseBooks
<1>4. \A side \in Sides : 1..Len(book[side]) = {}
  <2> TAKE side \in Sides
  <2>1. book[side] = << >>
    BY <1>1
  <2>2. Len(book[side]) = 0
    BY <2>1
  <2> QED
    BY <2>2
<1>5. Atomic!Consistent(book)
  BY <1>4 DEF Atomic!Consistent, Atomic!PricesInOrder, Atomic!Sides, Sides
<1>6. phase = "Idle" /\ result = "None" /\ outcome \in Reports
  BY NoConservationIsReport DEF GuardInit
<1>7. Atomic!Consistent(IF phase = "Idle" THEN book ELSE snapshot)
  BY <1>5, <1>6
<1> QED
  BY <1>3, <1>6, <1>7 DEF GuardInv

LEMMA GuardInvNext == GuardInv /\ [GuardNext]_guardVars => GuardInv'
<1> SUFFICES ASSUME GuardInv, [GuardNext]_guardVars PROVE GuardInv'
  OBVIOUS
<1>1. CASE Begin
  BY <1>1 DEF GuardInv, Begin, TakeSnapshot
<1>2. CASE Step
  <2>1. book' \in LooseBooks
    BY <1>2, ChangeKeeps DEF GuardInv, Step
  <2> QED
    BY <1>2, <2>1 DEF GuardInv, Step
<1>3. CASE EndOperation
  BY <1>3, OutcomesAssumption DEF GuardInv, EndOperation, Reports
<1>4. CASE Decide
  <2>1. CASE evaluate(outcome) = "None"
    <3>1. find_state_violation = "None"
      BY <2>1 DEF evaluate
    <3>2. Atomic!Consistent(book)
      BY <3>1, ChecksSuffice DEF GuardInv
    <3> QED
      BY <1>4, <2>1, <3>2, NoConservationIsReport DEF GuardInv, Decide
  <2>2. CASE evaluate(outcome) # "None"
    BY <1>4, <2>2, NoConservationIsReport DEF GuardInv, Decide
  <2> QED
    BY <2>1, <2>2
<1>5. CASE UNCHANGED guardVars
  BY <1>5 DEF GuardInv, guardVars
<1> QED
  BY <1>1, <1>2, <1>3, <1>4, <1>5 DEF GuardNext

LEMMA GuardInvariant == GuardSpec => []GuardInv
<1> QED
  BY GuardInvInit, GuardInvNext, PTL DEF GuardSpec

-----------------------------------------------------------------------------

(* The book a caller of commit sees changes only by an operation that the   *)
(* guard accepted and that left every pair of orders in order and every     *)
(* quantity positive; a refused operation leaves no trace.                  *)
THEOREM GuardCommitsAtomically == GuardSpec => CommitIsAtomic
<1> DEFINE seen == IF phase = "Idle" THEN book ELSE snapshot
           ended == IF phase = "Idle" THEN result ELSE "Running"
<1>1. GuardInit => Atomic!Init
  <2> SUFFICES ASSUME GuardInit PROVE Atomic!Init
    OBVIOUS
  <2>1. Atomic!Consistent(seen)
    BY GuardInvInit DEF GuardInv
  <2>2. ended = "None"
    BY DEF GuardInit
  <2> QED
    BY <2>1, <2>2 DEF Atomic!Init
<1>2. GuardInv /\ [GuardNext]_guardVars => [Atomic!Next]_<<seen, ended>>
  <2> SUFFICES ASSUME GuardInv, [GuardNext]_guardVars
               PROVE  [Atomic!Next]_<<seen, ended>>
    OBVIOUS
  <2>1. CASE Begin
    <3>1. ended # "Running" /\ ended' = "Running" /\ seen' = seen
      BY <2>1 DEF Begin, TakeSnapshot, GuardInv
    <3> QED
      BY <3>1 DEF Atomic!Next, Atomic!Begin
  <2>2. CASE Step
    BY <2>2 DEF Step
  <2>3. CASE EndOperation
    BY <2>3 DEF EndOperation
  <2>4. CASE Decide
    <3>1. ended = "Running" /\ seen = snapshot
      BY <2>4 DEF Decide
    <3>2. CASE evaluate(outcome) = "None"
      <4>1. ended' = "Committed"
        BY <2>4, <3>2 DEF Decide
      <4>2. GuardInv'
        BY GuardInvNext
      <4>3. Atomic!Consistent(seen')
        BY <4>2 DEF GuardInv
      <4> QED
        BY <3>1, <4>1, <4>3 DEF Atomic!Next, Atomic!Committed
    <3>3. CASE evaluate(outcome) # "None"
      <4>1. ended' = "Refused" /\ seen' = seen
        BY <2>4, <3>1, <3>3 DEF Decide
      <4> QED
        BY <3>1, <4>1 DEF Atomic!Next, Atomic!Refused
    <3> QED
      BY <3>2, <3>3
  <2>5. CASE UNCHANGED guardVars
    BY <2>5 DEF guardVars
  <2> QED
    BY <2>1, <2>2, <2>3, <2>4, <2>5 DEF GuardNext
<1> QED
  BY <1>1, <1>2, GuardInvariant, PTL DEF GuardSpec, CommitIsAtomic, Atomic!Spec

(* The sum wraps, and still cannot hide an imbalance from an operation that *)
(* traded no more than came in.                                             *)
LEMMA WrapIsExact ==
  ASSUME NEW c \in Words, NEW t \in Words, NEW r \in Words, t <= c
  PROVE  c = (t + r) % WordSize <=> c - t = r
<1>1. WordSize \in Nat \ {0}
  BY OutcomesAssumption
<1> QED
  BY <1>1 DEF Words

(* A refusal names the first thing wrong with the operation, and nothing    *)
(* else is refused: the walks over neighbours find every disorder there is, *)
(* and the 64-bit sum every loss of quantity.                               *)
THEOREM GuardErrorIsRight == GuardSpec => ErrorNamesViolation
<1> DEFINE ordered == Atomic!PricesInOrder(book)
           sound == Atomic!Consistent(book)
           balanced == \/ ~ outcome.check_conservation
                       \/ outcome.incoming_qty - outcome.traded_qty = outcome.rested_qty
           named == /\ error' = "PriceOrdering" <=> ~ ordered
                    /\ error' = "PositiveQuantity" <=> ordered /\ ~ sound
                    /\ outcome.traded_qty <= outcome.incoming_qty =>
                         (error' = "QuantityConservation" <=> sound /\ ~ balanced)
<1>1. GuardInv /\ [GuardNext]_guardVars => [phase = "Check" => named]_guardVars
  <2> SUFFICES ASSUME GuardInv, GuardNext, phase = "Check" PROVE named
    OBVIOUS
  <2>1. Decide
    BY DEF GuardNext, Begin, Step, EndOperation
  <2>2. error' = evaluate(outcome)
    BY <2>1 DEF Decide
  <2>3. check_price_ordering <=> ordered
    BY OrderingExact DEF GuardInv
  <2>4. find_state_violation = "None" <=> sound
    BY ChecksSuffice DEF GuardInv
  <2>5. /\ outcome.incoming_qty \in Words /\ outcome.traded_qty \in Words
        /\ outcome.rested_qty \in Words
    BY DEF GuardInv, Reports
  <2>6. outcome.traded_qty <= outcome.incoming_qty =>
          (check_quantity_conservation(outcome) <=>
             outcome.incoming_qty - outcome.traded_qty = outcome.rested_qty)
    BY <2>5, WrapIsExact DEF check_quantity_conservation
  <2> HIDE DEF ordered, sound
  <2>7. /\ find_state_violation = "PriceOrdering" <=> ~ ordered
        /\ find_state_violation = "PositiveQuantity" <=> ordered /\ ~ sound
        /\ find_state_violation # "QuantityConservation"
    BY <2>3, <2>4 DEF find_state_violation
  <2>8. /\ evaluate(outcome) = "PriceOrdering" <=> ~ ordered
        /\ evaluate(outcome) = "PositiveQuantity" <=> ordered /\ ~ sound
        /\ evaluate(outcome) = "QuantityConservation" <=>
             /\ sound
             /\ outcome.check_conservation /\ ~ check_quantity_conservation(outcome)
    BY <2>4, <2>7 DEF evaluate
  <2> QED
    BY <2>2, <2>6, <2>8
<1> QED
  BY <1>1, GuardInvariant, PTL DEF GuardSpec, ErrorNamesViolation

=============================================================================
