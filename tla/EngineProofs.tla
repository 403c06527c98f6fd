---------------------------- MODULE EngineProofs ----------------------------
(***************************************************************************)
(* Theorems about the book, the matching core and the processing loop       *)
(* around it, for every number of identifiers, prices, quantities and       *)
(* capacities.  The book's operations keep each side in price-time order    *)
(* and inside both capacities.  The core's state keeps its types, the book  *)
(* is sorted and never crossed, and trades respect price-time priority.     *)
(* The processor runs the core and nothing else does, so what is proved of  *)
(* the core holds inside it; and the execution sequence numbers it          *)
(* publishes only grow.                                                     *)
(***************************************************************************)
EXTENDS EngineProcessor, IntegrityChecks, SequenceTheorems, FiniteSetTheorems,
        WellFoundedInduction, TLAPS

-----------------------------------------------------------------------------
(* Sequences: what InsertAt and RemoveAt return.                            *)

(* Inserting one element shifts the ones behind it by one place.            *)
LEMMA InsertAtFacts ==
  ASSUME NEW S, NEW s \in Seq(S), NEW e \in S, NEW p \in 1..(Len(s) + 1)
  PROVE  /\ InsertAt(s, p, e) \in Seq(S)
         /\ Len(InsertAt(s, p, e)) = Len(s) + 1
         /\ \A i \in 1..(Len(s) + 1) :
              InsertAt(s, p, e)[i] = IF i < p THEN s[i] ELSE IF i = p THEN e ELSE s[i - 1]
<1> DEFINE a == SubSeq(s, 1, p - 1)
           m == << e >>
           b == SubSeq(s, p, Len(s))
<1>0. Len(s) \in Nat /\ \A i \in 1..Len(s) : s[i] \in S
  BY LenProperties, ElementOfSeq
<1>1. /\ a \in Seq(S)
      /\ Len(a) = p - 1
      /\ \A i \in 1..(p - 1) : a[i] = s[i]
  <2>1. \A i \in 1..(p - 1) : s[i] \in S
    BY <1>0
  <2>2. /\ a \in Seq(S)
        /\ Len(a) = IF 1 <= p - 1 THEN p - 1 - 1 + 1 ELSE 0
        /\ \A i \in 1..(p - 1 - 1 + 1) : a[i] = s[1 + i - 1]
    BY <2>1, <1>0, SubSeqProperties
  <2> QED
    BY <2>2, <1>0
<1>2. /\ b \in Seq(S)
      /\ Len(b) = Len(s) - p + 1
      /\ \A i \in 1..(Len(s) - p + 1) : b[i] = s[p + i - 1]
  <2>1. \A i \in p..Len(s) : s[i] \in S
    BY <1>0
  <2>2. /\ b \in Seq(S)
        /\ Len(b) = IF p <= Len(s) THEN Len(s) - p + 1 ELSE 0
        /\ \A i \in 1..(Len(s) - p + 1) : b[i] = s[p + i - 1]
    BY <2>1, <1>0, SubSeqProperties
  <2> QED
    BY <2>2, <1>0
<1>3. m \in Seq(S) /\ Len(m) = 1 /\ m[1] = e
  OBVIOUS
<1> HIDE DEF a, m, b
<1>4. /\ a \o m \in Seq(S)
      /\ Len(a \o m) = p
      /\ \A i \in 1..p : (a \o m)[i] = IF i <= p - 1 THEN a[i] ELSE m[i - (p - 1)]
  <2>1. /\ a \o m \in Seq(S)
        /\ Len(a \o m) = Len(a) + Len(m)
        /\ \A i \in 1..(Len(a) + Len(m)) :
             (a \o m)[i] = IF i <= Len(a) THEN a[i] ELSE m[i - Len(a)]
    BY <1>1, <1>3, ConcatProperties
  <2> QED
    BY <2>1, <1>1, <1>3, <1>0
<1> DEFINE c == a \o m
<1>5. /\ c \o b \in Seq(S)
      /\ Len(c \o b) = Len(s) + 1
      /\ \A i \in 1..(Len(s) + 1) : (c \o b)[i] = IF i <= p THEN c[i] ELSE b[i - p]
  <2>1. c \in Seq(S) /\ Len(c) = p
    BY <1>4
  <2> HIDE DEF c
  <2>2. /\ c \o b \in Seq(S)
        /\ Len(c \o b) = Len(c) + Len(b)
        /\ \A i \in 1..(Len(c) + Len(b)) :
             (c \o b)[i] = IF i <= Len(c) THEN c[i] ELSE b[i - Len(c)]
    BY <1>2, <2>1, ConcatProperties
  <2> QED
    BY <2>1, <2>2, <1>2, <1>0
<1>6. \A i \in 1..p : c[i] = IF i <= p - 1 THEN a[i] ELSE m[i - (p - 1)]
  BY <1>4
<1> HIDE DEF c
<1>7. ASSUME NEW i \in 1..(Len(s) + 1)
      PROVE  (c \o b)[i] = IF i < p THEN s[i] ELSE IF i = p THEN e ELSE s[i - 1]
  <2>1. CASE i < p
    BY <2>1, <1>0, <1>1, <1>5, <1>6
  <2>2. CASE i = p
    BY <2>2, <1>0, <1>3, <1>5, <1>6
  <2>3. CASE i > p
    <3>1. i - p \in 1..(Len(s) - p + 1)
      BY <2>3, <1>0
    <3>2. b[i - p] = s[p + (i - p) - 1]
      BY <3>1, <1>2
    <3>3. p + (i - p) - 1 = i - 1
      BY <1>0
    <3> QED
      BY <2>3, <3>2, <3>3, <1>0, <1>5
  <2>4. i < p \/ i = p \/ i > p
    BY <1>0
  <2> QED
    BY <2>1, <2>2, <2>3, <2>4
<1>8. InsertAt(s, p, e) = c \o b
  BY DEF InsertAt, a, m, b, c
<1> QED
  BY <1>5, <1>7, <1>8

(* Removing one element closes the gap.                                     *)
LEMMA RemoveAtFacts ==
  ASSUME NEW S, NEW s \in Seq(S), NEW p \in 1..Len(s)
  PROVE  /\ RemoveAt(s, p) \in Seq(S)
         /\ Len(RemoveAt(s, p)) = Len(s) - 1
         /\ \A i \in 1..(Len(s) - 1) :
              RemoveAt(s, p)[i] = IF i < p THEN s[i] ELSE s[i + 1]
<1> DEFINE a == SubSeq(s, 1, p - 1)
           b == SubSeq(s, p + 1, Len(s))
<1>0. Len(s) \in Nat /\ \A i \in 1..Len(s) : s[i] \in S
  BY LenProperties, ElementOfSeq
<1>1. /\ a \in Seq(S)
      /\ Len(a) = p - 1
      /\ \A i \in 1..(p - 1) : a[i] = s[i]
  <2>1. \A i \in 1..(p - 1) : s[i] \in S
    BY <1>0
  <2>2. /\ a \in Seq(S)
        /\ Len(a) = IF 1 <= p - 1 THEN p - 1 - 1 + 1 ELSE 0
        /\ \A i \in 1..(p - 1 - 1 + 1) : a[i] = s[1 + i - 1]
    BY <2>1, <1>0, SubSeqProperties
  <2> QED
    BY <2>2, <1>0
<1>2. /\ b \in Seq(S)
      /\ Len(b) = Len(s) - p
      /\ \A i \in 1..(Len(s) - p) : b[i] = s[p + i]
  <2>1. \A i \in (p + 1)..Len(s) : s[i] \in S
    BY <1>0
  <2>2. /\ b \in Seq(S)
        /\ Len(b) = IF p + 1 <= Len(s) THEN Len(s) - (p + 1) + 1 ELSE 0
        /\ \A i \in 1..(Len(s) - (p + 1) + 1) : b[i] = s[(p + 1) + i - 1]
    BY <2>1, <1>0, SubSeqProperties
  <2> QED
    BY <2>2, <1>0
<1> HIDE DEF a, b
<1>3. /\ a \o b \in Seq(S)
      /\ Len(a \o b) = Len(s) - 1
      /\ \A i \in 1..(Len(s) - 1) : (a \o b)[i] = IF i <= p - 1 THEN a[i] ELSE b[i - (p - 1)]
  <2>1. /\ a \o b \in Seq(S)
        /\ Len(a \o b) = Len(a) + Len(b)
        /\ \A i \in 1..(Len(a) + Len(b)) :
             (a \o b)[i] = IF i <= Len(a) THEN a[i] ELSE b[i - Len(a)]
    BY <1>1, <1>2, ConcatProperties
  <2> QED
    BY <2>1, <1>1, <1>2, <1>0
<1>4. ASSUME NEW i \in 1..(Len(s) - 1)
      PROVE  (a \o b)[i] = IF i < p THEN s[i] ELSE s[i + 1]
  <2>1. CASE i < p
    BY <2>1, <1>0, <1>1, <1>3
  <2>2. CASE ~ (i < p)
    <3>1. i - (p - 1) \in 1..(Len(s) - p)
      BY <2>2, <1>0
    <3>2. b[i - (p - 1)] = s[p + (i - (p - 1))]
      BY <3>1, <1>2
    <3>3. p + (i - (p - 1)) = i + 1
      BY <1>0
    <3> QED
      BY <2>2, <3>2, <3>3, <1>0, <1>3
  <2> QED
    BY <2>1, <2>2
<1>5. RemoveAt(s, p) = a \o b
  BY DEF RemoveAt, a, b
<1> QED
  BY <1>3, <1>4, <1>5

(* Min of a non-empty set of natural numbers is its least element.          *)
LEMMA MinFacts ==
  ASSUME NEW T, T \subseteq Nat, T # {}
  PROVE  Min(T) \in T /\ \A y \in T : Min(T) <= y
<1>1. PICK x \in T : \A y \in T : ~ (<<y, x>> \in OpToRel(<, Nat))
  BY NatLessThanWellFounded, WFMin
<1>2. OpToRel(<, Nat) = {ss \in Nat \X Nat : ss[1] < ss[2]}
  BY Zenon DEF OpToRel
<1>3. ASSUME NEW y \in T PROVE x <= y
  <2>1. x \in Nat /\ y \in Nat
    OBVIOUS
  <2>2. ~ (<<y, x>> \in {ss \in Nat \X Nat : ss[1] < ss[2]})
    BY <1>1, <1>2
  <2> QED
    BY <2>1, <2>2
<1> QED
  BY <1>3 DEF Min

-----------------------------------------------------------------------------
(* The priority order of one side.                                          *)

(* The fields that decide priority are numbers.                             *)
LEMMA OrderFields ==
  ASSUME NEW x \in RestingOrders
  PROVE  x.price_ticks \in Nat /\ x.seq \in Nat /\ x.order_id \in Nat
<1>1. x.price_ticks \in 1..MaxPriceTicks /\ x.seq \in Seqs /\ x.order_id \in Ids
  BY DEF RestingOrders
<1>2. x.price_ticks \in Nat
  BY <1>1, BookAssumption, SMT
<1>3. Seqs \subseteq Nat /\ Ids \subseteq Nat
  BY BookAssumption
<1>4. x.seq \in Nat /\ x.order_id \in Nat
  BY <1>1, <1>3, Zenon
<1> QED
  BY <1>2, <1>4

LEMMA AheadTransitive ==
  ASSUME NEW side \in Sides, NEW x \in RestingOrders, NEW y \in RestingOrders,
         NEW z \in RestingOrders, Ahead(side, x, y), Ahead(side, y, z)
  PROVE  Ahead(side, x, z)
BY OrderFields DEF Sides, Ahead, price_ranks_first, has_priority_over

LEMMA AheadAsymmetric ==
  ASSUME NEW side \in Sides, NEW x \in RestingOrders, NEW y \in RestingOrders,
         Ahead(side, x, y)
  PROVE  ~ Ahead(side, y, x)
BY OrderFields DEF Sides, Ahead, price_ranks_first, has_priority_over

(* One side in order: BookSorted for a single list.                         *)
Sorted(side, s) ==
  \A i, j \in 1..Len(s) : i < j => ~ Ahead(side, s[j], s[i])

(* p is a place for `o`: nothing before it is worse, what stands there is.  *)
Place(side, s, o, p) ==
  /\ p \in 1..(Len(s) + 1)
  /\ \A i \in 1..Len(s) : i < p => ~ Ahead(side, o, s[i])
  /\ p \in 1..Len(s) => Ahead(side, o, s[p])

(* insert_into_level and find_or_create_level look for exactly such a place.*)
LEMMA InsertPositionIsPlace ==
  ASSUME NEW side \in Sides, book[side] \in Seq(RestingOrders), NEW o
  PROVE  Place(side, book[side], o, InsertPosition(side, o))
<1> DEFINE s == book[side]
           worse == {i \in 1..Len(s) : Ahead(side, o, s[i])}
<1>0. Len(s) \in Nat
  BY LenProperties
<1>1. CASE worse = {}
  <2>1. InsertPosition(side, o) = Len(s) + 1
    BY <1>1 DEF InsertPosition
  <2> QED
    BY <1>0, <1>1, <2>1 DEF Place
<1>2. CASE worse # {}
  <2>1. InsertPosition(side, o) = Min(worse)
    BY <1>2 DEF InsertPosition
  <2>2. worse \subseteq Nat
    BY <1>0
  <2>3. Min(worse) \in worse /\ \A y \in worse : Min(worse) <= y
    BY <1>2, <2>2, MinFacts
  <2> HIDE DEF worse
  <2>4. Min(worse) \in 1..Len(s) /\ Ahead(side, o, s[Min(worse)])
    BY <2>3 DEF worse
  <2>5. ASSUME NEW i \in 1..Len(s), i < Min(worse)
        PROVE  ~ Ahead(side, o, s[i])
    <3>1. i \notin worse
      BY <2>3, <2>4, <2>5, <1>0
    <3> QED
      BY <3>1 DEF worse
  <2> QED
    BY <1>0, <2>1, <2>4, <2>5 DEF Place
<1> QED
  BY <1>1, <1>2

LEMMA SortedInsert ==
  ASSUME NEW side \in Sides, NEW s \in Seq(RestingOrders), NEW o \in RestingOrders,
         NEW p, Place(side, s, o, p), Sorted(side, s)
  PROVE  Sorted(side, InsertAt(s, p, o))
<1> DEFINE t == InsertAt(s, p, o)
<1>0. Len(s) \in Nat /\ p \in 1..(Len(s) + 1)
  BY LenProperties DEF Place
<1>1. /\ Len(t) = Len(s) + 1
      /\ \A i \in 1..(Len(s) + 1) :
           t[i] = IF i < p THEN s[i] ELSE IF i = p THEN o ELSE s[i - 1]
  BY <1>0, InsertAtFacts
<1>2. \A i \in 1..Len(s) : s[i] \in RestingOrders
  BY ElementOfSeq
<1> HIDE DEF t
<1>3. ASSUME NEW i \in 1..Len(s), p <= i
      PROVE  ~ Ahead(side, s[i], o)
  <2>1. p \in 1..Len(s) /\ Ahead(side, o, s[p]) /\ s[p] \in RestingOrders
    BY <1>0, <1>2, <1>3 DEF Place
  <2>2. CASE i = p
    BY <1>2, <2>1, <2>2, AheadAsymmetric
  <2>3. CASE p < i
    <3>1. ~ Ahead(side, s[i], s[p])
      BY <2>1, <2>3 DEF Sorted
    <3> QED
      BY <3>1, <2>1, <1>2, AheadTransitive
  <2> QED
    BY <1>0, <1>3, <2>2, <2>3
<1>4. ASSUME NEW i \in 1..Len(t), NEW j \in 1..Len(t), i < j
      PROVE  ~ Ahead(side, t[j], t[i])
  <2>1. CASE j < p
    <3>1. t[i] = s[i] /\ t[j] = s[j] /\ i \in 1..Len(s) /\ j \in 1..Len(s)
      BY <1>0, <1>1, <1>4, <2>1
    <3> QED
      BY <3>1, <1>4 DEF Sorted
  <2>2. CASE j = p
    <3>1. t[i] = s[i] /\ t[j] = o /\ i \in 1..Len(s)
      BY <1>0, <1>1, <1>4, <2>2
    <3> QED
      BY <3>1, <1>4, <2>2 DEF Place
  <2>3. CASE p < j /\ i = p
    <3>1. t[i] = o /\ t[j] = s[j - 1] /\ j - 1 \in 1..Len(s) /\ p <= j - 1
      BY <1>0, <1>1, <1>4, <2>3
    <3> QED
      BY <3>1, <1>3
  <2>4. CASE p < j /\ i < p
    <3>1. t[i] = s[i] /\ t[j] = s[j - 1] /\ i \in 1..Len(s) /\ j - 1 \in 1..Len(s)
          /\ i < j - 1
      BY <1>0, <1>1, <1>4, <2>4
    <3> QED
      BY <3>1 DEF Sorted
  <2>5. CASE p < j /\ p < i
    <3>1. t[i] = s[i - 1] /\ t[j] = s[j - 1] /\ i - 1 \in 1..Len(s)
          /\ j - 1 \in 1..Len(s) /\ i - 1 < j - 1
      BY <1>0, <1>1, <1>4, <2>5
    <3> QED
      BY <3>1 DEF Sorted
  <2> QED
    BY <1>0, <1>1, <2>1, <2>2, <2>3, <2>4, <2>5
<1> QED
  BY <1>4 DEF Sorted, t

LEMMA SortedRemove ==
  ASSUME NEW side \in Sides, NEW s \in Seq(RestingOrders), NEW p \in 1..Len(s),
         Sorted(side, s)
  PROVE  Sorted(side, RemoveAt(s, p))
<1> DEFINE t == RemoveAt(s, p)
           from(i) == IF i < p THEN i ELSE i + 1
<1>0. Len(s) \in Nat
  BY LenProperties
<1>1. /\ Len(t) = Len(s) - 1
      /\ \A i \in 1..(Len(s) - 1) : t[i] = IF i < p THEN s[i] ELSE s[i + 1]
  BY RemoveAtFacts
<1> HIDE DEF t
<1>2. ASSUME NEW i \in 1..Len(t), NEW j \in 1..Len(t), i < j
      PROVE  ~ Ahead(side, t[j], t[i])
  <2>1. t[i] = s[from(i)] /\ t[j] = s[from(j)]
    BY <1>0, <1>1
  <2>2. from(i) \in 1..Len(s) /\ from(j) \in 1..Len(s) /\ from(i) < from(j)
    BY <1>0, <1>1, <1>2
  <2> QED
    BY <2>1, <2>2 DEF Sorted
<1> QED
  BY <1>2 DEF Sorted, t

-----------------------------------------------------------------------------
(* The price levels of one side.                                            *)

PricesOf(s) == {s[i].price_ticks : i \in DOMAIN s}

LEMMA PricesFinite ==
  ASSUME NEW s \in Seq(RestingOrders)
  PROVE  IsFiniteSet(PricesOf(s)) /\ Cardinality(PricesOf(s)) \in Nat
<1>1. \A i \in DOMAIN s : s[i].price_ticks \in 1..MaxPriceTicks
  <2>1. \A i \in DOMAIN s : s[i] \in RestingOrders
    BY LenProperties, ElementOfSeq
  <2> QED
    BY <2>1 DEF RestingOrders
<1>2. PricesOf(s) \in SUBSET (1..MaxPriceTicks)
  BY <1>1 DEF PricesOf
<1>3. IsFiniteSet(1..MaxPriceTicks)
  <2>1. 1 \in Int /\ MaxPriceTicks \in Int
    BY BookAssumption
  <2> QED
    BY <2>1, FS_Interval
<1>4. IsFiniteSet(PricesOf(s))
  BY <1>2, <1>3, FS_Subset, Zenon
<1> QED
  BY <1>4, FS_CardinalityType

LEMMA PricesInsert ==
  ASSUME NEW s \in Seq(RestingOrders), NEW o \in RestingOrders,
         NEW p \in 1..(Len(s) + 1)
  PROVE  PricesOf(InsertAt(s, p, o)) = PricesOf(s) \cup {o.price_ticks}
<1> DEFINE t == InsertAt(s, p, o)
<1>0. Len(s) \in Nat /\ DOMAIN s = 1..Len(s)
  BY LenProperties
<1>1. /\ t \in Seq(RestingOrders)
      /\ Len(t) = Len(s) + 1
      /\ \A i \in 1..(Len(s) + 1) :
           t[i] = IF i < p THEN s[i] ELSE IF i = p THEN o ELSE s[i - 1]
  <2>1. t \in Seq(RestingOrders)
    BY InsertAtFacts
  <2>2. /\ Len(t) = Len(s) + 1
        /\ \A i \in 1..(Len(s) + 1) :
             t[i] = IF i < p THEN s[i] ELSE IF i = p THEN o ELSE s[i - 1]
    BY InsertAtFacts
  <2> QED
    BY <2>1, <2>2
<1> HIDE DEF t
<1>2. DOMAIN t = 1..(Len(s) + 1)
  BY <1>1, LenProperties
<1>3. ASSUME NEW i \in DOMAIN t
      PROVE  t[i].price_ticks \in PricesOf(s) \cup {o.price_ticks}
  <2>1. CASE i < p
    BY <2>1, <1>0, <1>1, <1>2 DEF PricesOf
  <2>2. CASE i = p
    BY <2>2, <1>0, <1>1, <1>2
  <2>3. CASE i > p
    <3>1. t[i] = s[i - 1] /\ i - 1 \in DOMAIN s
      BY <2>3, <1>0, <1>1, <1>2
    <3> QED
      BY <3>1 DEF PricesOf
  <2>4. i < p \/ i = p \/ i > p
    BY <1>0, <1>2
  <2> QED
    BY <2>1, <2>2, <2>3, <2>4
<1>4. ASSUME NEW i \in DOMAIN s
      PROVE  \E j \in DOMAIN t : t[j] = s[i]
  <2>1. CASE i < p
    BY <2>1, <1>0, <1>1, <1>2
  <2>2. CASE ~ (i < p)
    <3>1. i + 1 \in DOMAIN t /\ ~ (i + 1 < p) /\ i + 1 # p /\ (i + 1) - 1 = i
      BY <2>2, <1>0, <1>2
    <3>2. t[i + 1] = s[i]
      BY <3>1, <1>1, <1>2
    <3> QED
      BY <3>1, <3>2
  <2> QED
    BY <2>1, <2>2
<1>5. p \in DOMAIN t /\ t[p] = o
  BY <1>0, <1>1, <1>2
<1>6. PricesOf(t) \subseteq PricesOf(s) \cup {o.price_ticks}
  BY <1>3 DEF PricesOf
<1>7. PricesOf(s) \subseteq PricesOf(t)
  <2> SUFFICES ASSUME NEW i \in DOMAIN s
               PROVE  s[i].price_ticks \in PricesOf(t)
    BY DEF PricesOf
  <2>1. PICK j \in DOMAIN t : t[j] = s[i]
    BY <1>4
  <2> QED
    BY <2>1 DEF PricesOf
<1>8. o.price_ticks \in PricesOf(t)
  BY <1>5 DEF PricesOf
<1> QED
  BY <1>6, <1>7, <1>8 DEF t

LEMMA PricesRemove ==
  ASSUME NEW s \in Seq(RestingOrders), NEW p \in 1..Len(s)
  PROVE  PricesOf(RemoveAt(s, p)) \subseteq PricesOf(s)
<1> DEFINE t == RemoveAt(s, p)
<1>0. Len(s) \in Nat /\ DOMAIN s = 1..Len(s)
  BY LenProperties
<1>1. /\ t \in Seq(RestingOrders)
      /\ Len(t) = Len(s) - 1
      /\ \A i \in 1..(Len(s) - 1) : t[i] = IF i < p THEN s[i] ELSE s[i + 1]
  BY RemoveAtFacts
<1> HIDE DEF t
<1>2. DOMAIN t = 1..(Len(s) - 1)
  BY <1>1, LenProperties
<1>3. ASSUME NEW i \in DOMAIN t
      PROVE  t[i].price_ticks \in PricesOf(s)
  <2>1. CASE i < p
    <3>1. t[i] = s[i] /\ i \in DOMAIN s
      BY <2>1, <1>0, <1>1, <1>2
    <3> QED
      BY <3>1 DEF PricesOf
  <2>2. CASE ~ (i < p)
    <3>1. t[i] = s[i + 1] /\ i + 1 \in DOMAIN s
      BY <2>2, <1>0, <1>1, <1>2
    <3> QED
      BY <3>1 DEF PricesOf
  <2> QED
    BY <2>1, <2>2
<1> QED
  BY <1>3 DEF PricesOf, t

-----------------------------------------------------------------------------
(* The operations of the book.                                              *)

(* Two values of one list count for the capacities of both sides.           *)
LEMMA SideReplaced ==
  ASSUME NEW side \in Sides, NEW t \in Seq(RestingOrders),
         BookTypeOK, BookSorted,
         book' = [book EXCEPT ![side] = t],
         Sorted(side, t),
         Len(t) + Len(book[Opposite(side)]) <= MaxOrders,
         Cardinality(PricesOf(t)) + Cardinality(PricesOf(book[Opposite(side)]))
           <= MaxPriceLevels
  PROVE  BookTypeOK' /\ BookSorted'
<1>0. book \in [Sides -> Seq(RestingOrders)]
  BY DEF BookTypeOK
<1>1. book' \in [Sides -> Seq(RestingOrders)]
  BY <1>0
<1>2. book'[side] = t /\ \A other \in Sides : other # side => book'[other] = book[other]
  BY <1>0
<1>3. BookSorted'
  <2>1. \A x \in Sides : Sorted(x, book[x])
    BY DEF BookSorted, Sorted
  <2>2. \A x \in Sides : Sorted(x, book'[x])
    BY <1>2, <2>1
  <2> QED
    BY <2>2 DEF BookSorted, Sorted
<1>4. \A x \in Sides : /\ Len(book'[x]) \in Nat
                       /\ Cardinality(PricesOf(book'[x])) \in Nat
  BY <1>1, LenProperties, PricesFinite
<1>5. /\ Len(book'["Buy"]) + Len(book'["Sell"]) <= MaxOrders
      /\ Cardinality(PricesOf(book'["Buy"])) + Cardinality(PricesOf(book'["Sell"]))
           <= MaxPriceLevels
  <2>1. CASE side = "Buy"
    <3>1. book'["Buy"] = t /\ book'["Sell"] = book[Opposite(side)]
      BY <1>2, <2>1 DEF Sides, Opposite
    <3> QED
      BY <3>1
  <2>2. CASE side = "Sell"
    <3>1. book'["Sell"] = t /\ book'["Buy"] = book[Opposite(side)]
      BY <1>2, <2>2 DEF Sides, Opposite
    <3>2. /\ Len(book'["Buy"]) \in Nat /\ Len(book'["Sell"]) \in Nat
          /\ Cardinality(PricesOf(book'["Buy"])) \in Nat
          /\ Cardinality(PricesOf(book'["Sell"])) \in Nat
      BY <1>4 DEF Sides
    <3>3. /\ Len(book'["Sell"]) + Len(book'["Buy"]) <= MaxOrders
          /\ Cardinality(PricesOf(book'["Sell"])) + Cardinality(PricesOf(book'["Buy"]))
               <= MaxPriceLevels
      BY <3>1
    <3>4. \A m, n \in Nat : m + n = n + m
      OBVIOUS
    <3> QED
      BY <3>2, <3>3, <3>4
  <2> QED
    BY <2>1, <2>2 DEF Sides
<1> QED
  BY <1>1, <1>3, <1>5 DEF BookTypeOK, order_count, level_count, Prices, PricesOf

LEMMA BoundsAreNatural ==
  /\ MaxPriceTicks \in Nat \ {0} /\ MaxQuantity \in Nat \ {0}
  /\ MaxOrders \in Nat \ {0} /\ MaxPriceLevels \in Nat \ {0}
BY BookAssumption

(* What the capacities say, by side.                                        *)
LEMMA SideCounts ==
  ASSUME NEW side \in Sides, BookTypeOK
  PROVE  /\ Len(book[side]) \in Nat /\ Len(book[Opposite(side)]) \in Nat
         /\ Cardinality(PricesOf(book[side])) \in Nat
         /\ Cardinality(PricesOf(book[Opposite(side)])) \in Nat
         /\ order_count = Len(book[side]) + Len(book[Opposite(side)])
         /\ level_count = Cardinality(PricesOf(book[side]))
                            + Cardinality(PricesOf(book[Opposite(side)]))
<1>1. \A x \in Sides : /\ Len(book[x]) \in Nat
                       /\ Cardinality(PricesOf(book[x])) \in Nat
  BY LenProperties, PricesFinite DEF BookTypeOK
<1>2. \A x \in Sides : Prices(x) = PricesOf(book[x])
  BY DEF Prices, PricesOf
<1>3. \A m, n \in Nat : m + n = n + m
  OBVIOUS
<1>4. "Buy" \in Sides /\ "Sell" \in Sides /\ Opposite(side) \in Sides
  BY DEF Sides, Opposite
<1>5. CASE side = "Buy" /\ Opposite(side) = "Sell"
  BY <1>1, <1>2, <1>4, <1>5 DEF order_count, level_count
<1>6. CASE side = "Sell" /\ Opposite(side) = "Buy"
  BY <1>1, <1>2, <1>3, <1>4, <1>6 DEF order_count, level_count
<1> QED
  BY <1>5, <1>6 DEF Sides, Opposite

LEMMA InsertOrderKeeps ==
  ASSUME NEW side \in Sides, NEW o \in RestingOrders,
         BookTypeOK, BookSorted, insert_order(side, o)
  PROVE  BookTypeOK' /\ BookSorted'
<1> DEFINE s == book[side]
           p == InsertPosition(side, o)
           t == InsertAt(s, p, o)
<1>0. s \in Seq(RestingOrders) /\ book[Opposite(side)] \in Seq(RestingOrders)
  BY DEF BookTypeOK, Sides, Opposite
<1>1. CASE ~ CanInsert(side, o.price_ticks)
  BY <1>1 DEF insert_order, BookTypeOK, BookSorted, order_count, level_count, Prices
<1>2. CASE CanInsert(side, o.price_ticks)
  <2>1. book' = [book EXCEPT ![side] = t]
    BY <1>2 DEF insert_order
  <2>2. Place(side, s, o, p)
    BY <1>0, InsertPositionIsPlace
  <2>3. p \in 1..(Len(s) + 1)
    BY <2>2 DEF Place
  <2> HIDE DEF p
  <2>4. t \in Seq(RestingOrders) /\ Len(t) = Len(s) + 1
    BY <1>0, <2>3, InsertAtFacts
  <2>5. Sorted(side, t)
    BY <1>0, <2>2, SortedInsert DEF BookSorted, Sorted
  <2>6. PricesOf(t) = PricesOf(s) \cup {o.price_ticks}
    BY <1>0, <2>3, PricesInsert
  <2>7. Len(t) + Len(book[Opposite(side)]) <= MaxOrders
    <3>1. order_count < MaxOrders
      BY <1>2 DEF CanInsert
    <3>2. /\ Len(s) \in Nat /\ Len(book[Opposite(side)]) \in Nat
          /\ order_count = Len(s) + Len(book[Opposite(side)])
      BY SideCounts
    <3>3. \A a, b, m \in Nat : a + b < m => (a + 1) + b <= m
      OBVIOUS
    <3>4. MaxOrders \in Nat
      BY BoundsAreNatural
    <3> QED
      BY <2>4, <3>1, <3>2, <3>3, <3>4, Zenon
  <2>8. Cardinality(PricesOf(t)) + Cardinality(PricesOf(book[Opposite(side)]))
          <= MaxPriceLevels
    <3>1. Cardinality(PricesOf(t)) = IF o.price_ticks \in PricesOf(s)
            THEN Cardinality(PricesOf(s)) ELSE Cardinality(PricesOf(s)) + 1
      BY <1>0, <2>6, PricesFinite, FS_AddElement
    <3>2. o.price_ticks \in PricesOf(s) \/ level_count < MaxPriceLevels
      BY <1>2 DEF CanInsert, Prices, PricesOf
    <3>3. level_count <= MaxPriceLevels
      BY DEF BookTypeOK
    <3>4. /\ Cardinality(PricesOf(s)) \in Nat
          /\ Cardinality(PricesOf(book[Opposite(side)])) \in Nat
          /\ level_count = Cardinality(PricesOf(s))
                             + Cardinality(PricesOf(book[Opposite(side)]))
      BY SideCounts
    <3> QED
      BY <3>1, <3>2, <3>3, <3>4, BoundsAreNatural
  <2> HIDE DEF t
  <2> QED
    BY <2>1, <2>4, <2>5, <2>7, <2>8, SideReplaced
<1> QED
  BY <1>1, <1>2

LEMMA RemoveOrderKeeps ==
  ASSUME NEW side \in Sides, NEW i \in 1..Len(book[side]),
         BookTypeOK, BookSorted, remove_order(side, i)
  PROVE  BookTypeOK' /\ BookSorted'
<1> DEFINE s == book[side]
           t == RemoveAt(s, i)
<1>0. s \in Seq(RestingOrders) /\ i \in 1..Len(s)
  BY DEF BookTypeOK
<1>1. book' = [book EXCEPT ![side] = t]
  BY DEF remove_order
<1>2. t \in Seq(RestingOrders) /\ Len(t) = Len(s) - 1
  BY <1>0, RemoveAtFacts
<1>3. Sorted(side, t)
  BY <1>0, SortedRemove DEF BookSorted, Sorted
<1>4. PricesOf(t) \in SUBSET PricesOf(s)
  BY <1>0, PricesRemove
<1>5. Cardinality(PricesOf(t)) <= Cardinality(PricesOf(s))
  BY <1>0, <1>4, PricesFinite, FS_Subset
<1>6. Cardinality(PricesOf(t)) \in Nat
  BY <1>2, PricesFinite
<1>7. order_count <= MaxOrders /\ level_count <= MaxPriceLevels
  BY DEF BookTypeOK
<1> HIDE DEF t
<1>8. /\ Len(t) + Len(book[Opposite(side)]) <= MaxOrders
      /\ Cardinality(PricesOf(t)) + Cardinality(PricesOf(book[Opposite(side)]))
           <= MaxPriceLevels
  <2>1. /\ Len(s) \in Nat /\ Len(book[Opposite(side)]) \in Nat
        /\ Cardinality(PricesOf(s)) \in Nat
        /\ Cardinality(PricesOf(book[Opposite(side)])) \in Nat
        /\ order_count = Len(s) + Len(book[Opposite(side)])
        /\ level_count = Cardinality(PricesOf(s))
                           + Cardinality(PricesOf(book[Opposite(side)]))
    BY SideCounts
  <2>2. \A a, b, c, m \in Nat : a + b <= m /\ c <= a => c + b <= m
    OBVIOUS
  <2>3. Len(t) \in Nat /\ Len(t) <= Len(s)
    BY <1>2, <2>1, LenProperties
  <2>4. MaxOrders \in Nat /\ MaxPriceLevels \in Nat
    BY BoundsAreNatural
  <2> QED
    BY <1>5, <1>6, <1>7, <2>1, <2>2, <2>3, <2>4, Zenon
<1> QED
  BY <1>1, <1>2, <1>3, <1>8, SideReplaced

(* A partial fill changes one quantity and nothing priority looks at.       *)
LEMMA ReduceFrontFacts ==
  ASSUME NEW side \in Sides, BookTypeOK, book[side] # << >>,
         NEW qty \in 1..(book[side][1].remaining_qty - 1), reduce_front(side, qty)
  PROVE  /\ book'[side] \in Seq(RestingOrders)
         /\ book' = [book EXCEPT ![side] = book'[side]]
         /\ Len(book'[side]) = Len(book[side])
         /\ \A i \in 1..Len(book[side]) :
              /\ book'[side][i].price_ticks = book[side][i].price_ticks
              /\ book'[side][i].seq = book[side][i].seq
              /\ book'[side][i].order_id = book[side][i].order_id
<1> DEFINE s == book[side]
           e == [s[1] EXCEPT !.remaining_qty = @ - qty]
           t == [s EXCEPT ![1] = e]
<1>0. s \in Seq(RestingOrders) /\ book \in [Sides -> Seq(RestingOrders)]
  BY DEF BookTypeOK
<1>1. 1 \in 1..Len(s) /\ Len(s) \in Nat
  BY <1>0, EmptySeq
<1>2. s[1] \in RestingOrders
  BY <1>0, <1>1, ElementOfSeq
<1>3. s[1].remaining_qty - qty \in 1..MaxQuantity
  <2>1. s[1].remaining_qty \in 1..MaxQuantity
    BY <1>2 DEF RestingOrders
  <2> QED
    BY <2>1, BoundsAreNatural
<1>4. /\ e \in RestingOrders
      /\ e.price_ticks = s[1].price_ticks /\ e.seq = s[1].seq
      /\ e.order_id = s[1].order_id
  BY <1>2, <1>3 DEF RestingOrders
<1>5. book' = [book EXCEPT ![side] = t]
  BY <1>0 DEF reduce_front
<1> HIDE DEF e
<1>6. /\ t \in Seq(RestingOrders)
      /\ Len(t) = Len(s)
      /\ \A j \in 1..Len(s) : t[j] = IF j = 1 THEN e ELSE s[j]
  BY <1>0, <1>1, <1>4, ExceptSeq
<1> HIDE DEF t
<1>7. book'[side] = t
  BY <1>0, <1>5
<1> QED
  BY <1>4, <1>5, <1>6, <1>7

LEMMA ReduceFrontKeeps ==
  ASSUME NEW side \in Sides, BookTypeOK, BookSorted, book[side] # << >>,
         NEW qty \in 1..(book[side][1].remaining_qty - 1), reduce_front(side, qty)
  PROVE  BookTypeOK' /\ BookSorted'
<1> DEFINE s == book[side]
           t == book'[side]
<1>0. s \in Seq(RestingOrders)
  BY DEF BookTypeOK
<1>1. /\ t \in Seq(RestingOrders)
      /\ book' = [book EXCEPT ![side] = t]
      /\ Len(t) = Len(s)
      /\ \A i \in 1..Len(s) :
           /\ t[i].price_ticks = s[i].price_ticks
           /\ t[i].seq = s[i].seq
           /\ t[i].order_id = s[i].order_id
  BY ReduceFrontFacts
<1>2. Sorted(side, s)
  BY DEF BookSorted, Sorted
<1> HIDE DEF t, s
<1>3. Sorted(side, t)
  BY <1>1, <1>2 DEF Sorted, Ahead, has_priority_over
<1>4. DOMAIN s = 1..Len(s) /\ DOMAIN t = 1..Len(s)
  BY <1>0, <1>1, LenProperties
<1>5. PricesOf(t) = PricesOf(s)
  BY <1>1, <1>4 DEF PricesOf
<1>6. /\ order_count = Len(s) + Len(book[Opposite(side)])
      /\ level_count = Cardinality(PricesOf(s)) + Cardinality(PricesOf(book[Opposite(side)]))
  BY SideCounts DEF s
<1>7. /\ Len(t) + Len(book[Opposite(side)]) <= MaxOrders
      /\ Cardinality(PricesOf(t)) + Cardinality(PricesOf(book[Opposite(side)]))
           <= MaxPriceLevels
  BY <1>1, <1>5, <1>6 DEF BookTypeOK
<1> QED
  BY <1>1, <1>3, <1>7, SideReplaced

LEMMA EmptyBookOK ==
  ASSUME book = [side \in Sides |-> << >>]
  PROVE  BookTypeOK /\ BookSorted
<1>1. book["Buy"] = << >> /\ book["Sell"] = << >> /\ \A x \in Sides : book[x] = << >>
  BY DEF Sides
<1>2. book \in [Sides -> Seq(RestingOrders)]
  BY EmptySeq
<1>3. Prices("Buy") = {} /\ Prices("Sell") = {}
  BY <1>1 DEF Prices
<1>4. level_count = 0 /\ order_count = 0
  <2>1. Cardinality({}) = 0 /\ Len(book["Buy"]) = 0 /\ Len(book["Sell"]) = 0
    BY <1>1, FS_EmptySet, EmptySeq
  <2>2. Cardinality(Prices("Buy")) = 0 /\ Cardinality(Prices("Sell")) = 0
    BY <1>3, <2>1, Zenon
  <2>3. 0 + 0 = 0
    OBVIOUS
  <2> QED
    BY <2>1, <2>2, <2>3, Zenon DEF level_count, order_count
<1>5. BookSorted
  <2>1. \A x \in Sides : Len(book[x]) = 0
    BY <1>1, EmptySeq
  <2> QED
    BY <2>1 DEF BookSorted
<1>6. 0 <= MaxOrders /\ 0 <= MaxPriceLevels
  <2>1. MaxOrders \in Nat /\ MaxPriceLevels \in Nat
    BY BoundsAreNatural
  <2> QED
    BY <2>1
<1> QED
  BY <1>2, <1>4, <1>5, <1>6 DEF BookTypeOK

LEMMA ClearKeeps ==
  ASSUME clear
  PROVE  BookTypeOK' /\ BookSorted'
<1>1. book' = [side \in Sides |-> << >>]
  BY DEF clear
<1>2. book'["Buy"] = << >> /\ book'["Sell"] = << >> /\ \A x \in Sides : book'[x] = << >>
  BY <1>1 DEF Sides
<1>3. book' \in [Sides -> Seq(RestingOrders)]
  BY <1>1, EmptySeq
<1>4. Prices("Buy")' = {} /\ Prices("Sell")' = {}
  BY <1>2 DEF Prices
<1>5. level_count' = 0 /\ order_count' = 0
  <2>1. Cardinality({}) = 0 /\ Len(book'["Buy"]) = 0 /\ Len(book'["Sell"]) = 0
    BY <1>2, FS_EmptySet, EmptySeq
  <2>2. Cardinality(Prices("Buy")') = 0 /\ Cardinality(Prices("Sell")') = 0
    BY <1>4, <2>1, Zenon
  <2>3. 0 + 0 = 0
    OBVIOUS
  <2> QED
    BY <2>1, <2>2, <2>3, Zenon DEF level_count, order_count
<1>6. BookSorted'
  <2>1. \A x \in Sides : Len(book'[x]) = 0
    BY <1>2, EmptySeq
  <2> QED
    BY <2>1 DEF BookSorted
<1>7. 0 <= MaxOrders /\ 0 <= MaxPriceLevels
  <2>1. MaxOrders \in Nat /\ MaxPriceLevels \in Nat
    BY BoundsAreNatural
  <2> QED
    BY <2>1
<1> QED
  BY <1>3, <1>5, <1>6, <1>7 DEF BookTypeOK

(* Whatever its callers do, the book keeps each side in price-time order    *)
(* and stays inside both pool capacities: insert_order refuses what does    *)
(* not fit, and no removal, partial fill or clear disturbs the order.       *)
THEOREM BookStaysSorted == BookSpec => [](BookTypeOK /\ BookSorted)
<1>1. BookInit => BookTypeOK /\ BookSorted
  BY EmptyBookOK DEF BookInit
<1>2. ASSUME BookTypeOK, BookSorted, [BookNext]_book
      PROVE  BookTypeOK' /\ BookSorted'
  <2>1. ASSUME NEW side \in Sides, NEW o \in RestingOrders, insert_order(side, o)
        PROVE  BookTypeOK' /\ BookSorted'
    BY <1>2, <2>1, InsertOrderKeeps
  <2>2. ASSUME NEW side \in Sides, NEW i \in 1..Len(book[side]), remove_order(side, i)
        PROVE  BookTypeOK' /\ BookSorted'
    BY <1>2, <2>2, RemoveOrderKeeps
  <2>3. ASSUME NEW side \in Sides, book[side] # << >>,
               NEW qty \in 1..(book[side][1].remaining_qty - 1), reduce_front(side, qty)
        PROVE  BookTypeOK' /\ BookSorted'
    BY <1>2, <2>3, ReduceFrontKeeps
  <2>4. CASE clear
    BY <2>4, ClearKeeps
  <2>5. CASE UNCHANGED book
    BY <1>2, <2>5 DEF BookTypeOK, BookSorted, order_count, level_count, Prices
  <2> QED
    BY <1>2, <2>1, <2>2, <2>3, <2>4, <2>5 DEF BookNext
<1> QED
  BY <1>1, <1>2, PTL DEF BookSpec

-----------------------------------------------------------------------------
(* The matching core.                                                       *)

(* The order being matched passed validation before the loop started.       *)
IncomingValid == ~ Idle => incoming \in NewOrders /\ validate_new_order(incoming)

(* The inductive invariant.  Uncrossed needs BookSorted: that the best      *)
(* opposite order is not eligible says something about the others only in   *)
(* a sorted book.  TypeOK needs IncomingValid: only a valid order may rest. *)
IInv == TypeOK /\ BookSorted /\ Uncrossed /\ IncomingValid

-----------------------------------------------------------------------------
(* Events and the retired history keep their types.                         *)

LEMMA IdsAreNatural == Ids \subseteq Nat
BY BookAssumption

LEMMA RejectIsEvent ==
  ASSUME NEW id \in Ids, NEW reason \in RejectReasons
  PROVE  Reject(id, reason) \in Events /\ Reject(id, reason).type = "Reject"
<1>1. id \in Nat
  BY IdsAreNatural
<1> QED
  BY <1>1 DEF Reject, Events, RejectEvents

LEMMA AckIsEvent ==
  ASSUME NEW id \in Ids, NEW kind \in AckKinds
  PROVE  Ack(id, kind) \in Events /\ Ack(id, kind).type = "Ack"
<1>1. id \in Nat
  BY IdsAreNatural
<1> QED
  BY <1>1 DEF Ack, Events, AckEvents

LEMMA TradeIsEvent ==
  ASSUME NEW exec \in Nat, NEW price \in Nat, NEW qty \in Nat,
         NEW inc \in Ids, NEW res \in Ids
  PROVE  Trade(exec, price, qty, inc, res) \in Events
<1>1. inc \in Nat /\ res \in Nat
  BY IdsAreNatural
<1> QED
  BY <1>1 DEF Trade, Events, TradeEvents

LEMMA SingletonSeq ==
  ASSUME NEW S, NEW e \in S
  PROVE  << e >> \in Seq(S) /\ Len(<< e >>) = 1 /\ Last(<< e >>) = e
BY DEF Last

(* An insertion keeps the history a list of identifiers inside its capacity.*)
LEMMA HistoryInsertKeeps ==
  ASSUME retired \in Seq(Ids), Len(retired) <= MaxOrders,
         NEW id \in Ids, History!insert(id)
  PROVE  retired' \in Seq(Ids) /\ Len(retired') <= MaxOrders
<1>0. Len(retired) \in Nat /\ MaxOrders \in Nat \ {0}
  BY LenProperties, BoundsAreNatural
<1>1. CASE History!contains(id)
  BY <1>1 DEF History!insert
<1>2. CASE ~ History!contains(id) /\ Len(retired) = MaxOrders
  <2>1. retired' = Append(Tail(retired), id)
    BY <1>2 DEF History!insert
  <2>2. retired # << >>
    BY <1>0, <1>2, EmptySeq
  <2>3. Tail(retired) \in Seq(Ids) /\ Len(Tail(retired)) = Len(retired) - 1
    BY <2>2, HeadTailProperties
  <2>4. retired' \in Seq(Ids) /\ Len(retired') = Len(Tail(retired)) + 1
    BY <2>1, <2>3, AppendProperties
  <2> QED
    BY <1>0, <1>2, <2>3, <2>4
<1>3. CASE ~ History!contains(id) /\ Len(retired) # MaxOrders
  <2>1. retired' = Append(retired, id)
    BY <1>3 DEF History!insert
  <2>2. retired' \in Seq(Ids) /\ Len(retired') = Len(retired) + 1
    BY <2>1, AppendProperties
  <2> QED
    BY <1>0, <1>3, <2>2
<1> QED
  BY <1>1, <1>2, <1>3

(* find_order returns a position of the book.                               *)
LEMMA PositionFacts ==
  ASSUME BookTypeOK, NEW id, IsResting(id)
  PROVE  SideOf(id) \in Sides /\ PositionOf(SideOf(id), id) \in 1..Len(book[SideOf(id)])
<1>1. SideOf(id) \in Sides
  BY DEF SideOf, Sides
<1> DEFINE side == SideOf(id)
           here == {i \in 1..Len(book[side]) : book[side][i].order_id = id}
<1>2. PositionOf(side, id) = IF here = {} THEN 0 ELSE Min(here)
  BY DEF PositionOf
<1>3. here # {}
  BY <1>2 DEF IsResting
<1>4. here \subseteq Nat
  BY <1>1, LenProperties DEF BookTypeOK
<1>5. Min(here) \in here
  BY <1>3, <1>4, MinFacts
<1> QED
  BY <1>1, <1>2, <1>3, <1>5

-----------------------------------------------------------------------------
(* The book stays uncrossed.                                                *)

(* No step that only removes orders, or reduces one, crosses the book.      *)
LEMMA UncrossedShrinks ==
  ASSUME Uncrossed,
         \A x \in Sides : \A i \in 1..Len(book'[x]) :
           \E k \in 1..Len(book[x]) : book'[x][i].price_ticks = book[x][k].price_ticks
  PROVE  Uncrossed'
<1> SUFFICES ASSUME NEW i \in 1..Len(book'["Buy"]), NEW j \in 1..Len(book'["Sell"])
             PROVE  book'["Buy"][i].price_ticks < book'["Sell"][j].price_ticks
  BY DEF Uncrossed
<1>1. PICK k \in 1..Len(book["Buy"]) :
        book'["Buy"][i].price_ticks = book["Buy"][k].price_ticks
  BY DEF Sides
<1>2. PICK l \in 1..Len(book["Sell"]) :
        book'["Sell"][j].price_ticks = book["Sell"][l].price_ticks
  BY DEF Sides
<1> QED
  BY <1>1, <1>2 DEF Uncrossed

LEMMA RemoveOrderUncrossed ==
  ASSUME BookTypeOK, Uncrossed, NEW side \in Sides, NEW p \in 1..Len(book[side]),
         remove_order(side, p)
  PROVE  Uncrossed'
<1> DEFINE s == book[side]
<1>0. book \in [Sides -> Seq(RestingOrders)] /\ s \in Seq(RestingOrders)
  BY DEF BookTypeOK
<1>1. book' = [book EXCEPT ![side] = RemoveAt(s, p)]
  BY DEF remove_order
<1>2. /\ Len(RemoveAt(s, p)) = Len(s) - 1
      /\ \A i \in 1..(Len(s) - 1) : RemoveAt(s, p)[i] = IF i < p THEN s[i] ELSE s[i + 1]
  BY <1>0, RemoveAtFacts
<1>3. Len(s) \in Nat
  BY <1>0, LenProperties
<1>4. ASSUME NEW x \in Sides, NEW i \in 1..Len(book'[x])
      PROVE  \E k \in 1..Len(book[x]) : book'[x][i] = book[x][k]
  <2>1. CASE x # side
    BY <1>0, <1>1, <2>1
  <2>2. CASE x = side
    <3>1. book'[x] = RemoveAt(s, p)
      BY <1>0, <1>1, <2>2
    <3>2. i \in 1..(Len(s) - 1)
      BY <3>1, <1>2
    <3>3. CASE i < p
      <4>1. i \in 1..Len(s) /\ book'[x][i] = s[i]
        BY <1>2, <1>3, <3>1, <3>2, <3>3
      <4> QED
        BY <4>1, <2>2
    <3>4. CASE ~ (i < p)
      <4>1. i + 1 \in 1..Len(s) /\ book'[x][i] = s[i + 1]
        BY <1>2, <1>3, <3>1, <3>2, <3>4
      <4> QED
        BY <4>1, <2>2
    <3> QED
      BY <3>3, <3>4
  <2> QED
    BY <2>1, <2>2
<1> QED
  BY <1>4, UncrossedShrinks

LEMMA ReduceFrontUncrossed ==
  ASSUME BookTypeOK, Uncrossed, NEW side \in Sides, book[side] # << >>,
         NEW qty \in 1..(book[side][1].remaining_qty - 1), reduce_front(side, qty)
  PROVE  Uncrossed'
<1>0. book \in [Sides -> Seq(RestingOrders)]
  BY DEF BookTypeOK
<1>1. /\ book' = [book EXCEPT ![side] = book'[side]]
      /\ Len(book'[side]) = Len(book[side])
      /\ \A i \in 1..Len(book[side]) :
           book'[side][i].price_ticks = book[side][i].price_ticks
  BY ReduceFrontFacts
<1>2. ASSUME NEW x \in Sides, NEW i \in 1..Len(book'[x])
      PROVE  \E k \in 1..Len(book[x]) : book'[x][i].price_ticks = book[x][k].price_ticks
  <2>1. CASE x # side
    BY <1>0, <1>1, <2>1
  <2>2. CASE x = side
    BY <1>1, <2>2
  <2> QED
    BY <2>1, <2>2
<1> QED
  BY <1>2, UncrossedShrinks

(* When the loop is over and the incoming order has quantity left, its      *)
(* price reaches no opposite order: the best one speaks for all.            *)
LEMMA NoneEligible ==
  ASSUME BookTypeOK, BookSorted, NEW side \in Sides, NEW limit \in Nat,
         \/ book[Opposite(side)] = << >>
         \/ ~ price_crosses(side, limit, book[Opposite(side)][1].price_ticks),
         NEW j \in 1..Len(book[Opposite(side)])
  PROVE  ~ price_crosses(side, limit, book[Opposite(side)][j].price_ticks)
<1> DEFINE opp == Opposite(side)
           s == book[opp]
<1>0. opp \in Sides /\ s \in Seq(RestingOrders)
  BY DEF Opposite, Sides, BookTypeOK
<1>1. Len(s) \in Nat /\ 1 \in 1..Len(s) /\ s # << >>
  BY <1>0, LenProperties, EmptySeq
<1>2. s[1] \in RestingOrders /\ s[j] \in RestingOrders
  BY <1>0, <1>1, ElementOfSeq
<1>3. s[1].price_ticks \in Nat /\ s[j].price_ticks \in Nat
  BY <1>2, OrderFields
<1>4. ~ price_crosses(side, limit, s[1].price_ticks)
  BY <1>1
<1>5. j = 1 \/ ~ price_ranks_first(opp, s[j].price_ticks, s[1].price_ticks)
  BY <1>0, <1>1 DEF BookSorted, Ahead
<1>6. CASE j = 1
  BY <1>4, <1>6
<1>7. CASE j # 1 /\ side = "Buy"
  <2>1. opp = "Sell"
    BY <1>7 DEF Opposite
  <2>2. ~ (s[j].price_ticks < s[1].price_ticks) /\ ~ (s[1].price_ticks <= limit)
    BY <1>4, <1>5, <1>7, <2>1 DEF price_ranks_first, price_crosses
  <2>3. ~ (s[j].price_ticks <= limit)
    BY <1>3, <2>2
  <2> QED
    BY <1>7, <2>3 DEF price_crosses
<1>8. CASE j # 1 /\ side = "Sell"
  <2>1. opp = "Buy"
    BY <1>8 DEF Opposite
  <2>2. ~ (s[j].price_ticks > s[1].price_ticks) /\ ~ (s[1].price_ticks >= limit)
    BY <1>4, <1>5, <1>8, <2>1 DEF price_ranks_first, price_crosses
  <2>3. ~ (s[j].price_ticks >= limit)
    BY <1>3, <2>2
  <2> QED
    BY <1>8, <2>3 DEF price_crosses
<1> QED
  BY <1>6, <1>7, <1>8 DEF Sides

LEMMA InsertOrderUncrossed ==
  ASSUME BookTypeOK, Uncrossed, NEW side \in Sides, NEW o \in RestingOrders,
         \A j \in 1..Len(book[Opposite(side)]) :
           ~ price_crosses(side, o.price_ticks, book[Opposite(side)][j].price_ticks),
         insert_order(side, o)
  PROVE  Uncrossed'
<1> DEFINE s == book[side]
           p == InsertPosition(side, o)
           t == InsertAt(s, p, o)
<1>0. /\ book \in [Sides -> Seq(RestingOrders)]
      /\ s \in Seq(RestingOrders) /\ Len(s) \in Nat
      /\ Opposite(side) \in Sides /\ Opposite(side) # side
  BY LenProperties DEF BookTypeOK, Opposite, Sides
<1>1. CASE ~ CanInsert(side, o.price_ticks)
  BY <1>1 DEF insert_order, Uncrossed
<1>2. CASE CanInsert(side, o.price_ticks)
  <2>1. book' = [book EXCEPT ![side] = t]
    BY <1>2 DEF insert_order
  <2>2. p \in 1..(Len(s) + 1)
    BY <1>0, InsertPositionIsPlace DEF Place
  <2> HIDE DEF p
  <2>3. /\ Len(t) = Len(s) + 1
        /\ \A i \in 1..(Len(s) + 1) :
             t[i] = IF i < p THEN s[i] ELSE IF i = p THEN o ELSE s[i - 1]
    BY <1>0, <2>2, InsertAtFacts
  <2>4. book'[side] = t /\ book'[Opposite(side)] = book[Opposite(side)]
    BY <1>0, <2>1
  <2> HIDE DEF t
  <2>5. ASSUME NEW i \in 1..Len(t)
        PROVE  t[i] = o \/ \E k \in 1..Len(s) : t[i] = s[k]
    <3>1. CASE i < p
      <4>1. i \in 1..Len(s) /\ t[i] = s[i]
        BY <1>0, <2>2, <2>3, <3>1
      <4> QED
        BY <4>1
    <3>2. CASE i = p
      BY <2>2, <2>3, <3>2
    <3>3. CASE i > p
      <4>1. i - 1 \in 1..Len(s) /\ t[i] = s[i - 1]
        BY <1>0, <2>2, <2>3, <3>3
      <4> QED
        BY <4>1
    <3>4. i < p \/ i = p \/ i > p
      BY <1>0, <2>2, <2>3
    <3> QED
      BY <3>1, <3>2, <3>3, <3>4
  <2>6. \A x \in Sides : \A i \in 1..Len(book[x]) : book[x][i].price_ticks \in Nat
    BY <1>0, ElementOfSeq, OrderFields
  <2>7. o.price_ticks \in Nat
    BY OrderFields
  <2>8. CASE side = "Buy"
    <3>1. /\ book'["Buy"] = t /\ s = book["Buy"]
          /\ book'["Sell"] = book["Sell"] /\ Opposite(side) = "Sell"
      BY <2>4, <2>8 DEF Opposite
    <3>2. ASSUME NEW i \in 1..Len(t), NEW j \in 1..Len(book["Sell"])
          PROVE  t[i].price_ticks < book["Sell"][j].price_ticks
      <4>1. CASE t[i] = o
        <5>1. ~ (book["Sell"][j].price_ticks <= o.price_ticks)
          BY <2>8, <3>1 DEF price_crosses
        <5>2. book["Sell"][j].price_ticks \in Nat
          BY <2>6 DEF Sides
        <5> QED
          BY <2>7, <4>1, <5>1, <5>2
      <4>2. CASE \E k \in 1..Len(s) : t[i] = s[k]
        BY <3>1, <4>2 DEF Uncrossed
      <4> QED
        BY <2>5, <4>1, <4>2
    <3> QED
      BY <3>1, <3>2 DEF Uncrossed
  <2>9. CASE side = "Sell"
    <3>1. /\ book'["Sell"] = t /\ s = book["Sell"]
          /\ book'["Buy"] = book["Buy"] /\ Opposite(side) = "Buy"
      BY <2>4, <2>9 DEF Opposite
    <3>2. ASSUME NEW i \in 1..Len(t), NEW j \in 1..Len(book["Buy"])
          PROVE  book["Buy"][j].price_ticks < t[i].price_ticks
      <4>1. CASE t[i] = o
        <5>1. ~ (book["Buy"][j].price_ticks >= o.price_ticks)
          BY <2>9, <3>1 DEF price_crosses
        <5>2. book["Buy"][j].price_ticks \in Nat
          BY <2>6 DEF Sides
        <5> QED
          BY <2>7, <4>1, <5>1, <5>2
      <4>2. CASE \E k \in 1..Len(s) : t[i] = s[k]
        BY <3>1, <4>2 DEF Uncrossed
      <4> QED
        BY <2>5, <4>1, <4>2
    <3> QED
      BY <3>1, <3>2 DEF Uncrossed
  <2> QED
    BY <2>8, <2>9 DEF Sides
<1> QED
  BY <1>1, <1>2

-----------------------------------------------------------------------------
(* One iteration of the match loop.                                         *)

Best == book[Opposite(incoming.side)][1]

Fill == IF remaining <= Best.remaining_qty THEN remaining ELSE Best.remaining_qty

(* An iteration trades a positive quantity with a well-formed front order.  *)
LEMMA MatchFacts ==
  ASSUME IInv, MatchOne
  PROVE  /\ incoming \in NewOrders
         /\ Opposite(incoming.side) \in Sides
         /\ book[Opposite(incoming.side)] \in Seq(RestingOrders)
         /\ book[Opposite(incoming.side)] # << >>
         /\ 1 \in 1..Len(book[Opposite(incoming.side)])
         /\ Best \in RestingOrders
         /\ Fill \in 1..Best.remaining_qty
         /\ remaining - Fill \in 0..MaxQuantity
         /\ Fill \in Nat /\ Best.price_ticks \in Nat
<1>1. incoming \in NewOrders
  BY DEF IInv, IncomingValid, MatchOne
<1>2. Opposite(incoming.side) \in Sides
  BY DEF Opposite, Sides
<1>3. /\ book[Opposite(incoming.side)] \in Seq(RestingOrders)
      /\ book[Opposite(incoming.side)] # << >>
      /\ remaining > 0
  BY <1>2 DEF IInv, TypeOK, BookTypeOK, MatchOne, CanMatch
<1>4. 1 \in 1..Len(book[Opposite(incoming.side)])
  BY <1>3, EmptySeq
<1>5. Best \in RestingOrders
  BY <1>3, <1>4, ElementOfSeq DEF Best
<1>6. Best.remaining_qty \in 1..MaxQuantity /\ remaining \in 0..MaxQuantity
  BY <1>5 DEF RestingOrders, IInv, TypeOK
<1>7. /\ Fill \in 1..Best.remaining_qty
      /\ remaining - Fill \in 0..MaxQuantity
      /\ Fill \in Nat
  BY <1>3, <1>6, BoundsAreNatural DEF Fill
<1> QED
  BY <1>1, <1>2, <1>3, <1>4, <1>5, <1>7, OrderFields

(* What the iteration does, with its front order and its quantity named.    *)
LEMMA MatchEffect ==
  ASSUME MatchOne
  PROVE  /\ emitted' = Append(emitted, Trade(next_exec_seq, Best.price_ticks, Fill,
                                             incoming.order_id, Best.order_id))
         /\ next_exec_seq' = next_exec_seq + 1
         /\ remaining' = remaining - Fill
         /\ incoming' = incoming
         /\ \/ /\ Fill = Best.remaining_qty
               /\ History!insert(Best.order_id)
               /\ remove_order(Opposite(incoming.side), 1)
            \/ /\ Fill < Best.remaining_qty
               /\ reduce_front(Opposite(incoming.side), Fill)
               /\ UNCHANGED retired
BY DEF MatchOne, Best, Fill

LEMMA MatchOneKeeps ==
  ASSUME IInv, MatchOne
  PROVE  IInv'
<1> DEFINE opp == Opposite(incoming.side)
<1>0. BookTypeOK /\ BookSorted /\ Uncrossed
  BY DEF IInv, TypeOK
<1>1. BookTypeOK' /\ BookSorted' /\ Uncrossed'
  <2>1. CASE remove_order(opp, 1)
    BY <1>0, <2>1, MatchFacts, RemoveOrderKeeps, RemoveOrderUncrossed
  <2>2. CASE Fill < Best.remaining_qty /\ reduce_front(opp, Fill)
    <3>1. Fill \in 1..(book[opp][1].remaining_qty - 1)
      <4>1. Best.remaining_qty \in Nat
        BY MatchFacts, BoundsAreNatural DEF RestingOrders
      <4> QED
        BY <2>2, <4>1, MatchFacts DEF Best
    <3> QED
      BY <1>0, <2>2, <3>1, MatchFacts, ReduceFrontKeeps, ReduceFrontUncrossed
  <2> QED
    BY <2>1, <2>2, MatchEffect
<1>2. retired' \in Seq(Ids) /\ Len(retired') <= MaxOrders
  <2>1. retired \in Seq(Ids) /\ Len(retired) <= MaxOrders
    BY DEF IInv, TypeOK
  <2>2. Best.order_id \in Ids
    BY MatchFacts DEF RestingOrders
  <2> QED
    BY <2>1, <2>2, MatchEffect, HistoryInsertKeeps
<1>3. emitted' \in Seq(Events)
  <2>1. emitted \in Seq(Events) /\ next_exec_seq \in Nat
    BY DEF IInv, TypeOK
  <2>2. incoming.order_id \in Ids /\ Best.order_id \in Ids
    BY MatchFacts DEF NewOrders, RestingOrders
  <2>3. Trade(next_exec_seq, Best.price_ticks, Fill, incoming.order_id, Best.order_id)
          \in Events
    BY <2>1, <2>2, MatchFacts, TradeIsEvent
  <2> QED
    BY <2>1, <2>3, MatchEffect, AppendProperties
<1>4. next_exec_seq' \in Nat \ {0} /\ remaining' \in 0..MaxQuantity
  BY MatchEffect, MatchFacts DEF IInv, TypeOK
<1>5. incoming' = incoming /\ incoming \in NewOrders \cup {NoOrder} /\ IncomingValid
  BY MatchEffect DEF IInv, TypeOK
<1> QED
  BY <1>1, <1>2, <1>3, <1>4, <1>5 DEF IInv, TypeOK, IncomingValid, Idle

LEMMA RestRemainderKeeps ==
  ASSUME IInv, RestRemainder
  PROVE  IInv'
<1> DEFINE side == incoming.side
           o == [order_id |-> incoming.order_id, seq |-> incoming.seq,
                 price_ticks |-> incoming.price_ticks, remaining_qty |-> remaining]
<1>0. BookTypeOK /\ BookSorted /\ Uncrossed
  BY DEF IInv, TypeOK
<1>1. incoming \in NewOrders /\ validate_new_order(incoming)
  BY DEF IInv, IncomingValid, RestRemainder, Return
<1>2. side \in Sides /\ incoming.price_ticks \in 1..MaxPriceTicks
  BY <1>1 DEF NewOrders, validate_new_order, PriceInRange
<1>3. BookTypeOK' /\ BookSorted' /\ Uncrossed'
  <2>1. CASE remaining > 0
    <3>1. insert_order(side, o)
      BY <2>1 DEF RestRemainder, Return
    <3>2. o \in RestingOrders
      BY <1>1, <1>2, <2>1, BoundsAreNatural DEF NewOrders, RestingOrders, IInv, TypeOK
    <3>3. \/ book[Opposite(side)] = << >>
          \/ ~ price_crosses(side, incoming.price_ticks, book[Opposite(side)][1].price_ticks)
      BY <2>1 DEF RestRemainder, Return, CanMatch
    <3>4. incoming.price_ticks \in Nat
      BY <1>2, BoundsAreNatural
    <3>5. \A j \in 1..Len(book[Opposite(side)]) :
            ~ price_crosses(side, incoming.price_ticks, book[Opposite(side)][j].price_ticks)
      BY <1>0, <1>2, <3>3, <3>4, NoneEligible
    <3>6. o.price_ticks = incoming.price_ticks
      OBVIOUS
    <3> HIDE DEF o
    <3> QED
      BY <1>0, <1>2, <3>1, <3>2, <3>5, <3>6, InsertOrderKeeps, InsertOrderUncrossed
  <2>2. CASE ~ (remaining > 0)
    <3>1. UNCHANGED book
      BY <2>2 DEF RestRemainder, Return
    <3> QED
      BY <1>0, <3>1 DEF BookTypeOK, BookSorted, Uncrossed, order_count, level_count, Prices
  <2> QED
    BY <2>1, <2>2
<1>4. /\ incoming' = NoOrder /\ remaining' = 0
      /\ UNCHANGED <<retired, next_exec_seq, emitted>>
  BY DEF RestRemainder, Return
<1>5. 0 \in 0..MaxQuantity
  BY BoundsAreNatural
<1> QED
  BY <1>3, <1>4, <1>5 DEF IInv, TypeOK, IncomingValid, Idle

-----------------------------------------------------------------------------
(* The invariant.                                                           *)

LEMMA InitIInv == CoreInit => IInv
<1> SUFFICES ASSUME CoreInit PROVE IInv
  OBVIOUS
<1>1. BookTypeOK /\ BookSorted
  BY EmptyBookOK DEF CoreInit, BookInit
<1>2. Uncrossed
  <2>1. Len(book["Buy"]) = 0
    BY EmptySeq DEF CoreInit, BookInit, Sides
  <2> QED
    BY <2>1 DEF Uncrossed
<1>3. << >> \in Seq(Ids) /\ Len(<< >>) = 0 /\ << >> \in Seq(Events)
  BY EmptySeq
<1>4. 0 <= MaxOrders /\ 0 \in 0..MaxQuantity
  BY BoundsAreNatural
<1> QED
  BY <1>1, <1>2, <1>3, <1>4 DEF IInv, TypeOK, IncomingValid, Idle, CoreInit

LEMMA NextIInv == IInv /\ [Next]_coreVars => IInv'
<1> SUFFICES ASSUME IInv, [Next]_coreVars PROVE IInv'
  OBVIOUS
<1>0. BookTypeOK /\ BookSorted /\ Uncrossed /\ TypeOK
  BY DEF IInv, TypeOK
<1>1. ASSUME NEW m \in NewOrders, RejectNewOrder(m)
      PROVE  IInv'
  <2>1. Reject(m.order_id, InvalidReason(m)) \in Events
    <3>1. m.order_id \in Ids /\ InvalidReason(m) \in RejectReasons
      BY DEF NewOrders, InvalidReason, RejectReasons
    <3> QED
      BY <3>1, RejectIsEvent
  <2>2. emitted' \in Seq(Events)
    BY <1>1, <2>1, SingletonSeq DEF RejectNewOrder
  <2> QED
    BY <1>1, <2>2 DEF RejectNewOrder, IInv, TypeOK, BookTypeOK, BookSorted, Uncrossed,
         IncomingValid, Idle, order_count, level_count, Prices
<1>2. ASSUME NEW m \in NewOrders, StartNewOrder(m)
      PROVE  IInv'
  <2>1. m.quantity \in 0..MaxQuantity
    BY <1>2, BoundsAreNatural DEF StartNewOrder, validate_new_order, QuantityInRange
  <2>2. << >> \in Seq(Events)
    BY EmptySeq
  <2> QED
    BY <1>2, <2>1, <2>2 DEF StartNewOrder, IInv, TypeOK, BookTypeOK, BookSorted, Uncrossed,
         IncomingValid, order_count, level_count, Prices
<1>3. CASE MatchOne
  BY <1>3, MatchOneKeeps
<1>4. CASE RestRemainder
  BY <1>4, RestRemainderKeeps
<1>5. ASSUME NEW id \in Ids, CancelResting(id)
      PROVE  IInv'
  <2>1. /\ SideOf(id) \in Sides
        /\ PositionOf(SideOf(id), id) \in 1..Len(book[SideOf(id)])
    BY <1>0, <1>5, PositionFacts DEF CancelResting
  <2>2. BookTypeOK' /\ BookSorted' /\ Uncrossed'
    BY <1>0, <1>5, <2>1, RemoveOrderKeeps, RemoveOrderUncrossed DEF CancelResting
  <2>3. retired' \in Seq(Ids) /\ Len(retired') <= MaxOrders
    BY <1>0, <1>5, HistoryInsertKeeps DEF CancelResting, TypeOK
  <2>4. emitted' \in Seq(Events)
    <3>1. Ack(id, "Cancelled") \in Events
      BY AckIsEvent DEF AckKinds
    <3> QED
      BY <1>5, <3>1, SingletonSeq DEF CancelResting
  <2> QED
    BY <1>5, <2>2, <2>3, <2>4 DEF CancelResting, IInv, TypeOK, IncomingValid, Idle
<1>6. ASSUME NEW id \in Ids, CancelMiss(id)
      PROVE  IInv'
  <2> DEFINE reason == IF History!contains(id) THEN "NoLongerResting" ELSE "OrderNotFound"
  <2>1. Reject(id, reason) \in Events
    <3>1. reason \in RejectReasons
      BY DEF RejectReasons
    <3> QED
      BY <3>1, RejectIsEvent
  <2>2. emitted' \in Seq(Events)
    BY <1>6, <2>1, SingletonSeq DEF CancelMiss
  <2> QED
    BY <1>6, <2>2 DEF CancelMiss, IInv, TypeOK, BookTypeOK, BookSorted, Uncrossed,
         IncomingValid, Idle, order_count, level_count, Prices
<1>7. CASE ResetCore
  <2>1. BookTypeOK' /\ BookSorted'
    BY <1>7, ClearKeeps DEF ResetCore
  <2>2. Uncrossed'
    <3>1. Len(book'["Buy"]) = 0
      BY <1>7, EmptySeq DEF ResetCore, clear, Sides
    <3> QED
      BY <3>1 DEF Uncrossed
  <2>3. retired' \in Seq(Ids) /\ Len(retired') <= MaxOrders /\ emitted' \in Seq(Events)
    <3>1. << >> \in Seq(Ids) /\ Len(<< >>) = 0 /\ << >> \in Seq(Events)
      BY EmptySeq
    <3>2. 0 <= MaxOrders
      BY BoundsAreNatural
    <3> QED
      BY <1>7, <3>1, <3>2 DEF ResetCore, History!clear
  <2> QED
    BY <1>7, <2>1, <2>2, <2>3 DEF ResetCore, IInv, TypeOK, IncomingValid, Idle
<1>8. CASE UNCHANGED coreVars
  BY <1>8 DEF coreVars, IInv, TypeOK, BookTypeOK, BookSorted, Uncrossed, IncomingValid,
       Idle, order_count, level_count, Prices
<1> QED
  BY <1>1, <1>2, <1>3, <1>4, <1>5, <1>6, <1>7, <1>8 DEF Next

LEMMA SpecIInv == Spec => []IInv
BY InitIInv, NextIInv, PTL DEF Spec

(* Every variable of the matching core keeps its type: in particular both   *)
(* pools stay inside their capacities, a resting order has a positive       *)
(* quantity, and the retired history stays inside its own.                  *)
THEOREM CoreTypeCorrect == Spec => []TypeOK
<1>1. IInv => TypeOK
  BY DEF IInv
<1> QED
  BY <1>1, SpecIInv, PTL

(* The book is in price-time order in every state of the engine, between    *)
(* two trades of one order too.                                             *)
THEOREM CoreBookSorted == Spec => []BookSorted
<1>1. IInv => BookSorted
  BY DEF IInv
<1> QED
  BY <1>1, SpecIInv, PTL

(* Bids stay below asks in every state: process_new_order never leaves, or  *)
(* passes through, a crossed book.                                          *)
THEOREM CoreUncrossed == Spec => []Uncrossed
<1>1. IInv => Uncrossed
  BY DEF IInv
<1> QED
  BY <1>1, SpecIInv, PTL

-----------------------------------------------------------------------------
(* Priority.                                                                *)

(* In a sorted book nothing is ahead of the front of a side.                *)
LEMMA FrontIsBest ==
  ASSUME BookTypeOK, BookSorted, NEW side \in Sides, NEW j \in 1..Len(book[side])
  PROVE  ~ Ahead(side, book[side][j], book[side][1])
<1>0. book[side] \in Seq(RestingOrders)
  BY DEF BookTypeOK
<1>1. Len(book[side]) \in Nat /\ 1 \in 1..Len(book[side])
  BY <1>0, LenProperties
<1>2. CASE j = 1
  <2>1. book[side][j] \in RestingOrders
    BY <1>0, ElementOfSeq
  <2> QED
    BY <1>2, <2>1, AheadAsymmetric
<1>3. CASE j # 1
  BY <1>1, <1>3 DEF BookSorted
<1> QED
  BY <1>2, <1>3

(* The iteration delivers a trade between the two orders, for that quantity.*)
LEMMA TradeDelivered ==
  ASSUME IInv, MatchOne
  PROVE  /\ Last(emitted') = Trade(next_exec_seq, Best.price_ticks, Fill,
                                   incoming.order_id, Best.order_id)
         /\ Last(emitted').incoming_id = incoming.order_id
         /\ Last(emitted').resting_id = Best.order_id
         /\ Last(emitted').price_ticks = Best.price_ticks
         /\ Last(emitted').quantity = Fill
<1> DEFINE t == Trade(next_exec_seq, Best.price_ticks, Fill,
                      incoming.order_id, Best.order_id)
<1>1. Last(emitted') = t
  <2>1. t \in Events
    <3>1. incoming.order_id \in Ids /\ Best.order_id \in Ids
      BY MatchFacts DEF NewOrders, RestingOrders
    <3> QED
      BY <3>1, MatchFacts, TradeIsEvent DEF IInv, TypeOK
  <2>2. emitted \in Seq(Events) /\ emitted' = Append(emitted, t)
    BY MatchEffect DEF IInv, TypeOK
  <2> HIDE DEF t
  <2>3. /\ Len(emitted') = Len(emitted) + 1
        /\ emitted'[Len(emitted) + 1] = t
    BY <2>1, <2>2, AppendProperties
  <2> QED
    BY <2>3 DEF Last
<1>2. /\ t.incoming_id = incoming.order_id /\ t.resting_id = Best.order_id
      /\ t.price_ticks = Best.price_ticks /\ t.quantity = Fill
  BY DEF Trade
<1> QED
  BY <1>1, <1>2

LEMMA MatchWithBest ==
  ASSUME IInv, MatchOne
  PROVE  WithBestOrder(Last(emitted'))
<1> DEFINE side == Opposite(incoming.side)
           t == Last(emitted')
<1>1. /\ t.resting_id = Best.order_id /\ t.price_ticks = Best.price_ticks
      /\ t.quantity = Fill
  BY TradeDelivered
<1> HIDE DEF t
<1>2. price_crosses(incoming.side, incoming.price_ticks, Best.price_ticks)
  BY DEF MatchOne, CanMatch, Best
<1>3. \A j \in 1..Len(book[side]) : ~ Ahead(side, book[side][j], book[side][1])
  BY MatchFacts, FrontIsBest DEF IInv, TypeOK
<1>4. 1 \in 1..Len(book[side]) /\ Fill \in 1..Best.remaining_qty
  BY MatchFacts
<1>5. WithBestOrder(t)
  BY <1>1, <1>2, <1>3, <1>4 DEF WithBestOrder, Best
<1> QED
  BY <1>5 DEF t

(* Every trade the engine delivers is with an order nothing on its side is  *)
(* ahead of, at that order's price and inside the incoming limit.           *)
THEOREM CorePriority == Spec => PriceTimePriority
<1>1. ASSUME IInv, [Next]_coreVars
      PROVE  [Trades => WithBestOrder(Last(emitted'))]_coreVars
  <2>1. ASSUME NEW m \in NewOrders, RejectNewOrder(m)
        PROVE  ~ Trades
    <3>1. m.order_id \in Ids /\ InvalidReason(m) \in RejectReasons
      BY DEF NewOrders, InvalidReason, RejectReasons
    <3>2. Last(emitted').type = "Reject"
      BY <2>1, <3>1, RejectIsEvent, SingletonSeq DEF RejectNewOrder
    <3> QED
      BY <3>2 DEF Trades
  <2>2. ASSUME NEW m \in NewOrders, StartNewOrder(m)
        PROVE  ~ Trades
    <3>1. Len(emitted') = 0 /\ Len(emitted) \in Nat
      BY <1>1, <2>2, EmptySeq, LenProperties DEF StartNewOrder, IInv, TypeOK
    <3> QED
      BY <3>1 DEF Trades
  <2>3. CASE MatchOne
    BY <1>1, <2>3, MatchWithBest
  <2>4. CASE UNCHANGED emitted
    <3>1. Len(emitted) \in Nat
      BY <1>1, LenProperties DEF IInv, TypeOK
    <3> QED
      BY <2>4, <3>1 DEF Trades
  <2>5. ASSUME NEW id \in Ids, CancelResting(id)
        PROVE  ~ Trades
    <3>1. Last(emitted').type = "Ack"
      BY <2>5, AckIsEvent, SingletonSeq DEF CancelResting, AckKinds
    <3> QED
      BY <3>1 DEF Trades
  <2>6. ASSUME NEW id \in Ids, CancelMiss(id)
        PROVE  ~ Trades
    <3> DEFINE reason == IF History!contains(id) THEN "NoLongerResting" ELSE "OrderNotFound"
    <3>1. reason \in RejectReasons
      BY DEF RejectReasons
    <3>2. Last(emitted').type = "Reject"
      BY <2>6, <3>1, RejectIsEvent, SingletonSeq DEF CancelMiss
    <3> QED
      BY <3>2 DEF Trades
  <2>7. CASE ResetCore
    <3>1. Len(emitted') = 0 /\ Len(emitted) \in Nat
      BY <1>1, <2>7, EmptySeq, LenProperties DEF ResetCore, IInv, TypeOK
    <3> QED
      BY <3>1 DEF Trades
  <2>8. CASE RestRemainder
    BY <2>4, <2>8 DEF RestRemainder, Return
  <2> QED
    BY <1>1, <2>1, <2>2, <2>3, <2>4, <2>5, <2>6, <2>7, <2>8 DEF Next, coreVars
<1> QED
  BY <1>1, SpecIInv, PTL DEF Spec, PriceTimePriority

-----------------------------------------------------------------------------

(* The book of the engine passes the state checks of the integrity guard    *)
(* after every message and every trade, so that the guard the documents     *)
(* speak of and main() leaves out would have had nothing to roll back.      *)
THEOREM CorePassesChecks == Spec => []NothingToUndo
<1>1. IInv => NothingToUndo
  <2> SUFFICES ASSUME IInv PROVE check_price_ordering /\ check_positive_quantity
    BY DEF NothingToUndo, find_state_violation
  <2>0. /\ \A side \in Sides : /\ book[side] \in Seq(RestingOrders)
                              /\ Len(book[side]) \in Nat
        /\ \A side \in Sides : \A i \in 1..Len(book[side]) : book[side][i] \in RestingOrders
    BY LenProperties, ElementOfSeq DEF IInv, TypeOK, BookTypeOK
  <2>1. ASSUME NEW side \in Sides, NEW i \in 1..(Len(book[side]) - 1)
        PROVE  LevelInOrder(side, i)
    <3>1. i \in 1..Len(book[side]) /\ i + 1 \in 1..Len(book[side]) /\ i < i + 1
      BY <2>0
    <3>2. ~ Ahead(side, book[side][i + 1], book[side][i])
      BY <3>1 DEF IInv, BookSorted
    <3>3. book[side][i].price_ticks \in Nat /\ book[side][i + 1].price_ticks \in Nat
      BY <2>0, <3>1, OrderFields
    <3> QED
      BY <3>2, <3>3 DEF LevelInOrder, Ahead, price_ranks_first
  <2>2. BestUncrossed
    <3> SUFFICES ASSUME book["Buy"] # << >>, book["Sell"] # << >>
                 PROVE  book["Buy"][1].price_ticks < book["Sell"][1].price_ticks
      BY DEF BestUncrossed
    <3>1. 1 \in 1..Len(book["Buy"]) /\ 1 \in 1..Len(book["Sell"])
      BY <2>0, EmptySeq DEF Sides
    <3> QED
      BY <3>1 DEF IInv, Uncrossed
  <2>3. check_positive_quantity
    <3> SUFFICES ASSUME NEW side \in Sides, NEW i \in 1..Len(book[side])
                 PROVE  book[side][i].remaining_qty # 0
      BY DEF check_positive_quantity
    <3>1. book[side][i].remaining_qty \in 1..MaxQuantity
      BY <2>0 DEF RestingOrders
    <3> QED
      BY <3>1, BookAssumption
  <2> QED
    BY <2>1, <2>2, <2>3 DEF check_price_ordering
<1> QED
  BY <1>1, SpecIInv, PTL

-----------------------------------------------------------------------------
(* The processing loop.                                                     *)

(* Every trade on the ring was numbered before the next one will be.        *)
PublishedBefore(n) ==
  \A i \in 1..Len(egress) : egress[i].type = "Trade" => egress[i].exec_seq < n

(* The inductive invariant.  That a new trade exceeds the ones waiting      *)
(* needs all of them to be below next_exec_seq, not only in order.          *)
ProcInv ==
  /\ IInv
  /\ egress \in Seq(Events)
  /\ PublishedBefore(next_exec_seq)
  /\ ExecutionSequenceGrows

-----------------------------------------------------------------------------

(* Each operation of the processor is at most one step of the core.         *)
LEMMA ProcStepIsCoreStep == [ProcNext]_<<coreVars, procVars>> => [Next]_coreVars
<1> SUFFICES ASSUME [ProcNext]_<<coreVars, procVars>> PROVE [Next]_coreVars
  OBVIOUS
<1>1. ASSUME NEW msg \in Inbound, submit(msg) PROVE [Next]_coreVars
  BY <1>1 DEF submit
<1>2. CASE BeginNewOrder
  BY <1>2 DEF BeginNewOrder, Next
<1>3. CASE EmitTrade
  BY <1>3 DEF EmitTrade, Next
<1>4. CASE EndNewOrder
  BY <1>4 DEF EndNewOrder, Next
<1>5. CASE InvalidNewOrder
  BY <1>5 DEF InvalidNewOrder, Next
<1>6. CASE Cancel
  <2>1. PICK id \in Ids : Head(ingress) = CancelOrder(id)
    BY <1>6 DEF Cancel, Cancels
  <2>2. Head(ingress).order_id = id
    BY <2>1 DEF CancelOrder
  <2>3. CancelResting(id) \/ CancelMiss(id)
    BY <1>6, <2>2 DEF Cancel
  <2> QED
    BY <2>3 DEF Next
<1>7. CASE emit_invalid_message_error
  BY <1>7 DEF emit_invalid_message_error
<1>8. CASE next_event
  BY <1>8 DEF next_event
<1>9. ASSUME NEW reserved \in BOOLEAN, initialize(reserved) PROVE [Next]_coreVars
  BY <1>9 DEF initialize, Next
<1>10. CASE UNCHANGED <<coreVars, procVars>>
  BY <1>10
<1> QED
  BY <1>1, <1>2, <1>3, <1>4, <1>5, <1>6, <1>7, <1>8, <1>9, <1>10 DEF ProcNext, Process

(* A processor is a matching core that something drives: every theorem      *)
(* about the core holds of the one inside the processor, whatever order     *)
(* submissions, processing, draining and initialisation come in.            *)
THEOREM ProcessorRunsCore == ProcSpec => Spec
<1>1. ProcInit => CoreInit
  BY DEF ProcInit
<1> QED
  BY <1>1, ProcStepIsCoreStep, PTL DEF ProcSpec, Spec

-----------------------------------------------------------------------------
(* The egress ring.                                                         *)

LEMMA TradeNumbers ==
  ASSUME NEW e \in Events, e.type = "Trade"
  PROVE  e.exec_seq \in Nat
BY DEF Events, TradeEvents, AckEvents, RejectEvents

(* Emitting an event that is no trade, or the trade numbered n, keeps the   *)
(* ring in order; n and m are next_exec_seq before and after.               *)
LEMMA EmitKeeps ==
  ASSUME egress \in Seq(Events), ExecutionSequenceGrows,
         NEW n \in Nat, NEW m \in Nat, n <= m, PublishedBefore(n),
         NEW e \in Events, emit(e),
         e.type = "Trade" => e.exec_seq = n /\ n < m
  PROVE  egress' \in Seq(Events) /\ ExecutionSequenceGrows' /\ PublishedBefore(m)'
<1>0. Len(egress) \in Nat /\ \A i \in 1..Len(egress) : egress[i] \in Events
  BY LenProperties, ElementOfSeq
<1>1. \A i \in 1..Len(egress) : egress[i].type = "Trade" => egress[i].exec_seq \in Nat
  BY <1>0, TradeNumbers
<1>2. CASE egress' = egress
  <2>1. PublishedBefore(m)
    BY <1>0, <1>1 DEF PublishedBefore
  <2> QED
    BY <1>2, <2>1 DEF ExecutionSequenceGrows, PublishedBefore
<1>3. CASE egress' = Append(egress, e)
  <2>1. /\ egress' \in Seq(Events)
        /\ Len(egress') = Len(egress) + 1
        /\ \A i \in 1..Len(egress) : egress'[i] = egress[i]
        /\ egress'[Len(egress) + 1] = e
    BY <1>3, AppendProperties
  <2>2. \A i \in 1..(Len(egress) + 1) :
          i \in 1..Len(egress) \/ i = Len(egress) + 1
    BY <1>0
  <2>3. ASSUME NEW i \in 1..Len(egress'), NEW j \in 1..Len(egress'), i < j,
               egress'[i].type = "Trade", egress'[j].type = "Trade"
        PROVE  egress'[i].exec_seq < egress'[j].exec_seq
    <3>1. i \in 1..Len(egress)
      BY <2>1, <2>3, <1>0
    <3>2. CASE j \in 1..Len(egress)
      BY <2>1, <2>3, <3>1, <3>2 DEF ExecutionSequenceGrows
    <3>3. CASE j = Len(egress) + 1
      BY <2>1, <2>3, <3>1, <3>3 DEF PublishedBefore
    <3> QED
      BY <2>1, <2>2, <3>2, <3>3
  <2>4. ASSUME NEW i \in 1..Len(egress'), egress'[i].type = "Trade"
        PROVE  egress'[i].exec_seq < m
    <3>1. CASE i \in 1..Len(egress)
      <4>1. egress[i].exec_seq \in Nat /\ egress[i].exec_seq < n
        BY <1>1, <2>1, <2>4, <3>1 DEF PublishedBefore
      <4> QED
        BY <2>1, <3>1, <4>1
    <3>2. CASE i = Len(egress) + 1
      BY <2>1, <2>4, <3>2
    <3> QED
      BY <2>1, <2>2, <3>1, <3>2
  <2> QED
    BY <2>1, <2>3, <2>4 DEF ExecutionSequenceGrows, PublishedBefore
<1> QED
  BY <1>2, <1>3 DEF emit

(* Taking the oldest event off the ring keeps the rest in order.            *)
LEMMA TakeKeeps ==
  ASSUME egress \in Seq(Events), ExecutionSequenceGrows, PublishedBefore(next_exec_seq),
         egress # << >>, egress' = Tail(egress), next_exec_seq' = next_exec_seq
  PROVE  egress' \in Seq(Events) /\ ExecutionSequenceGrows' /\ PublishedBefore(next_exec_seq)'
<1>0. Len(egress) \in Nat
  BY LenProperties
<1>1. /\ egress' \in Seq(Events)
      /\ Len(egress') = Len(egress) - 1
      /\ \A i \in 1..Len(egress') : egress'[i] = egress[i + 1]
  BY HeadTailProperties
<1>2. \A i \in 1..Len(egress') : i + 1 \in 1..Len(egress)
  BY <1>0, <1>1
<1>3. ExecutionSequenceGrows'
  <2> SUFFICES ASSUME NEW i \in 1..Len(egress'), NEW j \in 1..Len(egress'), i < j,
                      egress'[i].type = "Trade", egress'[j].type = "Trade"
               PROVE  egress'[i].exec_seq < egress'[j].exec_seq
    BY DEF ExecutionSequenceGrows
  <2>1. i + 1 \in 1..Len(egress) /\ j + 1 \in 1..Len(egress) /\ i + 1 < j + 1
    BY <1>0, <1>1, <1>2
  <2> QED
    BY <1>1, <2>1 DEF ExecutionSequenceGrows
<1>4. PublishedBefore(next_exec_seq)'
  BY <1>1, <1>2 DEF PublishedBefore
<1> QED
  BY <1>1, <1>3, <1>4

-----------------------------------------------------------------------------
(* What each operation emits.                                               *)

(* An emission of the matching loop is the trade numbered next_exec_seq.    *)
LEMMA MatchEmits ==
  ASSUME IInv, MatchOne
  PROVE  /\ next_exec_seq \in Nat /\ next_exec_seq' = next_exec_seq + 1
         /\ Last(emitted').type = "Trade" /\ Last(emitted').exec_seq = next_exec_seq
         /\ Last(emitted') \in Events
<1>1. emitted \in Seq(Events) /\ next_exec_seq \in Nat
  BY DEF IInv, TypeOK
<1>2. IInv'
  BY NextIInv DEF Next
<1>3. emitted' \in Seq(Events)
  BY <1>2 DEF IInv, TypeOK
<1> DEFINE t == Trade(next_exec_seq, Best.price_ticks, Fill, incoming.order_id, Best.order_id)
<1>4. emitted' = Append(emitted, t)
  BY MatchEffect
<1>5. Len(emitted) \in Nat
  BY <1>1, LenProperties
<1>6. Len(emitted') = Len(emitted) + 1 /\ emitted'[Len(emitted) + 1] = t
  <2>1. emitted' = [i \in 1..(Len(emitted) + 1) |-> IF i = Len(emitted) + 1 THEN t ELSE emitted[i]]
    BY <1>1, <1>4
  <2> QED
    BY <1>3, <1>5, <2>1, LenProperties
<1>7. Last(emitted') = t
  BY <1>6 DEF Last
<1>8. Last(emitted') \in Events
  <2>1. Len(emitted') \in 1..Len(emitted')
    BY <1>5, <1>6
  <2> QED
    BY <1>3, <2>1, ElementOfSeq DEF Last
<1>9. next_exec_seq' = next_exec_seq + 1
  BY DEF MatchOne
<1> QED
  BY <1>1, <1>7, <1>8, <1>9 DEF Trade

LEMMA ReasonIsReason ==
  ASSUME NEW m
  PROVE  InvalidReason(m) \in RejectReasons
BY DEF InvalidReason, RejectReasons

LEMMA ProcInvInit == ProcInit => ProcInv
<1> SUFFICES ASSUME ProcInit PROVE ProcInv
  OBVIOUS
<1>1. IInv
  BY InitIInv DEF ProcInit
<1>2. egress = << >>
  BY DEF ProcInit
<1>3. egress \in Seq(Events) /\ Len(egress) = 0
  BY <1>2
<1> QED
  BY <1>1, <1>3 DEF ProcInv, PublishedBefore, ExecutionSequenceGrows

LEMMA ProcInvNext == ProcInv /\ [ProcNext]_<<coreVars, procVars>> => ProcInv'
<1> SUFFICES ASSUME ProcInv, [ProcNext]_<<coreVars, procVars>> PROVE ProcInv'
  OBVIOUS
<1> DEFINE RingKept == /\ egress' \in Seq(Events)
                       /\ PublishedBefore(next_exec_seq)'
                       /\ ExecutionSequenceGrows'
<1>0. IInv /\ IInv' /\ next_exec_seq \in Nat /\ Ids \subseteq Nat
  BY ProcStepIsCoreStep, NextIInv, IdsAreNatural DEF ProcInv, IInv, TypeOK
<1>a. ASSUME UNCHANGED <<egress, next_exec_seq>> PROVE RingKept
  BY <1>a DEF ProcInv, PublishedBefore, ExecutionSequenceGrows
<1>b. ASSUME NEW e \in Events, e.type # "Trade", emit(e), UNCHANGED next_exec_seq
      PROVE  RingKept
  BY <1>0, <1>b, EmitKeeps DEF ProcInv
<1> SUFFICES RingKept
  BY <1>0 DEF ProcInv
<1> HIDE DEF RingKept
<1>1. ASSUME NEW msg \in Inbound, submit(msg) PROVE RingKept
  BY <1>1, <1>a DEF submit, coreVars
<1>2. CASE BeginNewOrder
  BY <1>2, <1>a DEF BeginNewOrder, StartNewOrder
<1>3. CASE EmitTrade
  <2>1. MatchOne /\ emit(Last(emitted'))
    BY <1>3 DEF EmitTrade
  <2>2. /\ next_exec_seq' = next_exec_seq + 1
        /\ Last(emitted').exec_seq = next_exec_seq
        /\ Last(emitted') \in Events
    BY <1>0, <2>1, MatchEmits
  <2>3. next_exec_seq' \in Nat /\ next_exec_seq <= next_exec_seq' /\ next_exec_seq < next_exec_seq'
    BY <1>0, <2>2
  <2>4. /\ egress' \in Seq(Events)
        /\ \A m \in Nat : m = next_exec_seq' => PublishedBefore(m)'
        /\ ExecutionSequenceGrows'
    BY <1>0, <2>1, <2>2, <2>3, EmitKeeps DEF ProcInv
  <2> QED
    BY <2>3, <2>4 DEF PublishedBefore, RingKept
<1>4. CASE EndNewOrder
  <2>1. ~ Idle /\ UNCHANGED next_exec_seq /\ emit(Ack(incoming.order_id, "Accepted"))
    BY <1>4 DEF EndNewOrder, RestRemainder
  <2>2. incoming.order_id \in Ids
    BY <1>0, <2>1 DEF IInv, IncomingValid, NewOrders
  <2>3. "Accepted" \in AckKinds
    BY DEF AckKinds
  <2> QED
    BY <1>b, <2>1, <2>2, <2>3, AckIsEvent
<1>5. CASE InvalidNewOrder
  <2>1. PICK m \in NewOrders : RejectNewOrder(m)
    BY <1>5 DEF InvalidNewOrder
  <2>2. m.order_id \in Ids /\ InvalidReason(m) \in RejectReasons
    BY <2>1, ReasonIsReason DEF NewOrders
  <2>3. emitted' = << Reject(m.order_id, InvalidReason(m)) >> /\ UNCHANGED next_exec_seq
    BY <2>1 DEF RejectNewOrder
  <2>4. Last(emitted') = Reject(m.order_id, InvalidReason(m))
    BY <2>2, <2>3, RejectIsEvent, SingletonSeq
  <2>5. emit(Last(emitted'))
    BY <1>5 DEF InvalidNewOrder
  <2> QED
    BY <1>b, <2>2, <2>3, <2>4, <2>5, RejectIsEvent
<1>6. CASE Cancel
  <2>1. PICK id \in Ids : Head(ingress) = CancelOrder(id)
    BY <1>6 DEF Cancel, Cancels
  <2>2. CancelResting(id) \/ CancelMiss(id)
    BY <1>6, <2>1 DEF Cancel, CancelOrder
  <2>3. UNCHANGED next_exec_seq
    BY <2>2 DEF CancelResting, CancelMiss
  <2>4. PICK e \in Events : emitted' = << e >> /\ e.type # "Trade"
    <3>1. CASE CancelResting(id)
      BY <3>1, AckIsEvent DEF CancelResting, AckKinds
    <3>2. CASE CancelMiss(id)
      BY <3>2, RejectIsEvent DEF CancelMiss, RejectReasons
    <3> QED
      BY <2>2, <3>1, <3>2
  <2>5. emit(Last(emitted')) /\ Last(emitted') = e
    BY <1>6, <2>4, SingletonSeq DEF Cancel
  <2> QED
    BY <1>b, <2>3, <2>4, <2>5
<1>7. CASE emit_invalid_message_error
  <2>1. PICK id \in Ids : invalid_message_order_id(Head(ingress)) = id
    BY <1>7 DEF emit_invalid_message_error, Misplaced, invalid_message_order_id,
       Trade, Ack, Reject
  <2>2. "IntegrityViolation" \in RejectReasons
    BY DEF RejectReasons
  <2>3. emit(Reject(id, "IntegrityViolation")) /\ UNCHANGED next_exec_seq
    BY <1>7, <2>1 DEF emit_invalid_message_error, coreVars
  <2> QED
    BY <1>b, <2>2, <2>3, RejectIsEvent
<1>8. CASE next_event
  BY <1>8, TakeKeeps DEF next_event, coreVars, ProcInv, RingKept
<1>9. ASSUME NEW reserved \in BOOLEAN, initialize(reserved) PROVE RingKept
  BY <1>9, <1>a DEF initialize, ResetCore, ringVars, coreVars
<1>10. CASE UNCHANGED <<coreVars, procVars>>
  BY <1>10, <1>a DEF coreVars, procVars
<1> QED
  BY <1>1, <1>2, <1>3, <1>4, <1>5, <1>6, <1>7, <1>8, <1>9, <1>10 DEF ProcNext, Process

(* Consumers of the egress ring see execution sequence numbers grow, and    *)
(* never see one twice, across refused events and re-initialisations.       *)
THEOREM ProcessorNumbersGrow == ProcSpec => []ExecutionSequenceGrows
<1>1. ProcInv => ExecutionSequenceGrows
  BY DEF ProcInv
<1> QED
  BY <1>1, ProcInvInit, ProcInvNext, PTL DEF ProcSpec

=============================================================================
