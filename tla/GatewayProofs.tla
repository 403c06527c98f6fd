--------------------------- MODULE GatewayProofs ---------------------------
(***************************************************************************)
(* Theorems about the two ends of the gateway that need no engine: the      *)
(* Gateway library, which turns requests into orders, and the event feed    *)
(* with the console that shows the book; each for every value of its        *)
(* constants.                                                               *)
(***************************************************************************)
EXTENDS MCGateway, MCConsole, SequenceTheorems, FiniteSetTheorems, WellFoundedInduction, TLAPS

-----------------------------------------------------------------------------
(* The Gateway library: identifiers are not reused, prices are not bent.    *)
(*                                                                          *)
(* That no two messages share an identifier is not inductive: the           *)
(* identifiers forwarded must all be in in_use, where the next one is       *)
(* looked up.                                                               *)

LEMMA LeastOf ==
  ASSUME NEW T, T \subseteq Nat, T # {}
  PROVE  \E m \in T : \A y \in T : m <= y
<1>1. PICK x \in T : \A y \in T : ~ (<<y, x>> \in OpToRel(<, Nat))
  BY NatLessThanWellFounded, WFMin
<1>2. OpToRel(<, Nat) = {ss \in Nat \X Nat : ss[1] < ss[2]}
  BY Zenon DEF OpToRel
<1>3. ASSUME NEW y \in T PROVE x <= y
  <2>1. x \in Nat /\ y \in Nat
    OBVIOUS
  <2>2. ~ (<<y, x>> \in {ss \in Nat \X Nat : ss[1] < ss[2]})
    BY <1>1, <1>2
  <2> QED
    BY <2>1, <2>2
<1> QED
  BY <1>3

(* assign_unique_id, wherever its counter stands: the search goes once      *)
(* round the identifiers, so it meets a free one if there is any.           *)
LEMMA FreeIdIsFree ==
  ASSUME in_use \subseteq Numbers, in_use # Numbers, next_auto_id \in Numbers
  PROVE  FreeId \in Numbers /\ FreeId \notin in_use
<1> DEFINE after(k) == (next_auto_id + k) % IdSpace
           free == {k \in Numbers : after(k) \notin in_use}
<1>1. PICK n \in Numbers : n \notin in_use
  OBVIOUS
<1>2. free \subseteq Nat /\ free # {}
  <2>1. CASE n >= next_auto_id
    <3>1. n - next_auto_id \in Numbers /\ next_auto_id + (n - next_auto_id) = n
      BY <2>1, GatewayAssumption DEF Numbers
    <3>2. after(n - next_auto_id) = n
      BY <3>1, GatewayAssumption DEF Numbers
    <3> QED
      BY <1>1, <3>1, <3>2 DEF Numbers
  <2>2. CASE ~ (n >= next_auto_id)
    <3>1. /\ n + IdSpace - next_auto_id \in Numbers
          /\ next_auto_id + (n + IdSpace - next_auto_id) = n + IdSpace
      BY <2>2, GatewayAssumption DEF Numbers
    <3>2. after(n + IdSpace - next_auto_id) = n
      BY <3>1, GatewayAssumption DEF Numbers
    <3> QED
      BY <1>1, <3>1, <3>2 DEF Numbers
  <2> QED
    BY <2>1, <2>2
<1>3. PICK m \in free : \A y \in free : m <= y
  <2> HIDE DEF free
  <2> QED
    BY <1>2, LeastOf
<1>4. /\ m \in Numbers /\ after(m) \notin in_use
      /\ \A j \in 0..(m - 1) : after(j) \in in_use
  <2>1. m \in Numbers /\ after(m) \notin in_use
    OBVIOUS
  <2>2. ASSUME NEW j \in 0..(m - 1) PROVE after(j) \in in_use
    <3>1. j \in Numbers /\ ~ (m <= j)
      BY <2>1, GatewayAssumption DEF Numbers
    <3> QED
      BY <1>3, <3>1
  <2> QED
    BY <2>1, <2>2
<1> DEFINE k == CHOOSE k \in Numbers :
                  /\ after(k) \notin in_use
                  /\ \A j \in 0..(k - 1) : after(j) \in in_use
<1>5. k \in Numbers /\ after(k) \notin in_use
  <2> HIDE DEF after
  <2> QED
    BY <1>4
<1>6. FreeId = after(k)
  BY DEF FreeId
<1>7. after(k) \in Numbers
  <2> HIDE DEF k
  <2> QED
    BY <1>5, GatewayAssumption DEF Numbers
<1> QED
  BY <1>5, <1>6, <1>7

(* A forwarded message.                                                     *)
Forwardable ==
  [type : {"NewOrder"}, order_id : Numbers, side : Sides, price_ticks : Nat,
   seq : 0..(SeqSpace - 1), quantity : Nat]

LibraryInv ==
  /\ in_use \subseteq Numbers /\ next_auto_id \in Numbers /\ next_seq \in 0..(SeqSpace - 1)
  /\ forwarded \in Seq(Forwardable) /\ submitted \in Seq(Bodies \cup {Absent})
  /\ Len(submitted) = Len(forwarded)
  /\ \A i \in 1..Len(forwarded) : forwarded[i].order_id \in in_use
  /\ IdentifiersUnique
  /\ FaithfulToRequest

(* What an accepted request is turned into.                                 *)
LEMMA AcceptedMessage ==
  ASSUME LibraryInv, NEW body \in Bodies, Refusal(body) = "None",
         body.order_id = Absent => in_use # Numbers
  PROVE  LET m == MessageFor(body)
         IN /\ m \in Forwardable /\ m.order_id \notin in_use
            /\ m.order_id = ResolvedId(body)
            /\ m.price_ticks \in 1..TopPriceTicks
            /\ m.quantity \in 1..TopGatewayQuantity
            /\ 10 * m.price_ticks - body.price \in -4..5
            /\ m.side = body.side /\ m.quantity = body.quantity
            /\ body.order_id # Absent => m.order_id = body.order_id
<1>1. /\ body.side \in Sides /\ body.price \in Nat
      /\ RoundToTicks(body.price) \in 1..TopPriceTicks
      /\ body.quantity \in 1..TopGatewayQuantity
      /\ body.order_id \in Numbers \cup {Absent} /\ body.order_id \notin in_use
  <2>1. /\ body.price \in Nat \cup {Absent, Malformed}
        /\ body.order_id \in Numbers \cup {Absent, Malformed}
    BY BodiesAssumption
  <2>2. /\ parse_side(body.side) /\ parse_price(body.price) /\ parse_quantity(body.quantity)
        /\ body.order_id # Malformed /\ body.order_id \notin in_use
    BY DEF Refusal
  <2> QED
    BY <2>1, <2>2 DEF parse_side, parse_price, parse_quantity, Invalid
<1>2. ResolvedId(body) \in Numbers /\ ResolvedId(body) \notin in_use
  BY <1>1, FreeIdIsFree DEF LibraryInv, ResolvedId
<1>3. 10 * RoundToTicks(body.price) - body.price \in -4..5
  BY <1>1 DEF RoundToTicks
<1>4. TopPriceTicks \in Nat /\ TopGatewayQuantity \in Nat /\ next_seq \in 0..(SeqSpace - 1)
  BY GatewayAssumption DEF LibraryInv
<1>5. RoundToTicks(body.price) \in Nat /\ body.quantity \in Nat
  BY <1>1, <1>4
<1>6. MessageFor(body) \in Forwardable
  BY <1>1, <1>2, <1>4, <1>5 DEF MessageFor, NewOrder, Forwardable
<1>7. /\ MessageFor(body).order_id = ResolvedId(body)
      /\ MessageFor(body).side = body.side
      /\ MessageFor(body).price_ticks = RoundToTicks(body.price)
      /\ MessageFor(body).quantity = body.quantity
  BY DEF MessageFor, NewOrder
<1>8. body.order_id # Absent => ResolvedId(body) = body.order_id
  BY DEF ResolvedId
<1> QED
  BY <1>1, <1>2, <1>3, <1>6, <1>7, <1>8

LEMMA GrownByOne ==
  ASSUME NEW S, NEW s \in Seq(S), NEW e \in S
  PROVE  /\ Append(s, e) \in Seq(S) /\ Len(Append(s, e)) = Len(s) + 1
         /\ Len(s) \in Nat
         /\ \A i \in 1..(Len(s) + 1) :
              \/ i \in 1..Len(s) /\ Append(s, e)[i] = s[i]
              \/ i = Len(s) + 1 /\ Append(s, e)[i] = e
OBVIOUS

(* A message with an identifier not among the forwarded ones may follow.    *)
LEMMA ForwardKeepsUnique ==
  ASSUME LibraryInv, NEW m \in Forwardable, forwarded' = Append(forwarded, m),
         \A i \in 1..Len(forwarded) : forwarded[i].order_id # m.order_id
  PROVE  IdentifiersUnique'
<1>1. forwarded \in Seq(Forwardable)
  BY DEF LibraryInv
<1>2. /\ Len(forwarded') = Len(forwarded) + 1
      /\ \A i \in 1..(Len(forwarded) + 1) :
           \/ i \in 1..Len(forwarded) /\ forwarded'[i] = forwarded[i]
           \/ i = Len(forwarded) + 1 /\ forwarded'[i] = m
  BY <1>1, GrownByOne
<1>3. SUFFICES ASSUME NEW i \in 1..Len(forwarded'), NEW j \in 1..Len(forwarded'), i # j
               PROVE  forwarded'[i].order_id # forwarded'[j].order_id
  BY DEF IdentifiersUnique
<1>4. i \in 1..(Len(forwarded) + 1) /\ j \in 1..(Len(forwarded) + 1)
  BY <1>2
<1>5. CASE i \in 1..Len(forwarded) /\ j \in 1..Len(forwarded)
  <2>1. forwarded'[i] = forwarded[i] /\ forwarded'[j] = forwarded[j]
    BY <1>1, <1>2, <1>4, <1>5, LenProperties
  <2> QED
    BY <1>3, <1>5, <2>1 DEF LibraryInv, IdentifiersUnique
<1>6. CASE ~ (i \in 1..Len(forwarded) /\ j \in 1..Len(forwarded))
  BY <1>2, <1>3, <1>4, <1>6
<1> QED
  BY <1>5, <1>6

(* What is said of each message and its request may be said of one more.    *)
LEMMA ForwardKeepsFaith ==
  ASSUME LibraryInv, NEW m \in Forwardable, NEW body \in Bodies \cup {Absent},
         forwarded' = Append(forwarded, m), submitted' = Append(submitted, body),
         body # Absent =>
           /\ m.price_ticks \in 1..TopPriceTicks
           /\ m.quantity \in 1..TopGatewayQuantity
           /\ 10 * m.price_ticks - body.price \in -4..5
           /\ m.side = body.side /\ m.quantity = body.quantity
           /\ body.order_id # Absent => m.order_id = body.order_id
  PROVE  FaithfulToRequest'
<1>1. /\ forwarded \in Seq(Forwardable) /\ submitted \in Seq(Bodies \cup {Absent})
      /\ Len(submitted) = Len(forwarded)
  BY DEF LibraryInv
<1>2. /\ Len(forwarded') = Len(forwarded) + 1
      /\ \A i \in 1..(Len(forwarded) + 1) :
           \/ /\ i \in 1..Len(forwarded)
              /\ forwarded'[i] = forwarded[i]
           \/ i = Len(forwarded) + 1 /\ forwarded'[i] = m
  BY <1>1, GrownByOne
<1>3. \A i \in 1..(Len(submitted) + 1) :
        \/ i \in 1..Len(submitted) /\ submitted'[i] = submitted[i]
        \/ i = Len(submitted) + 1 /\ submitted'[i] = body
  BY <1>1, GrownByOne
<1>4. Len(forwarded) \in Nat
  BY <1>1, LenProperties
<1>5. \A i \in 1..Len(forwarded') :
        \/ /\ i \in 1..Len(forwarded)
           /\ forwarded'[i] = forwarded[i] /\ submitted'[i] = submitted[i]
        \/ forwarded'[i] = m /\ submitted'[i] = body
  BY <1>1, <1>2, <1>3, <1>4
<1>6. FaithfulToRequest
  BY DEF LibraryInv
<1>7. ASSUME NEW i \in 1..Len(forwarded'), submitted'[i] # Absent
      PROVE  /\ forwarded'[i].price_ticks \in 1..TopPriceTicks
             /\ forwarded'[i].quantity \in 1..TopGatewayQuantity
             /\ 10 * forwarded'[i].price_ticks - submitted'[i].price \in -4..5
             /\ forwarded'[i].side = submitted'[i].side
             /\ forwarded'[i].quantity = submitted'[i].quantity
             /\ submitted'[i].order_id # Absent =>
                  forwarded'[i].order_id = submitted'[i].order_id
  <2>1. CASE /\ i \in 1..Len(forwarded)
             /\ forwarded'[i] = forwarded[i] /\ submitted'[i] = submitted[i]
    BY <1>6, <1>7, <2>1 DEF FaithfulToRequest
  <2>2. CASE forwarded'[i] = m /\ submitted'[i] = body
    BY <1>7, <2>2
  <2> QED
    BY <1>5, <2>1, <2>2
<1> QED
  BY <1>7 DEF FaithfulToRequest

(* A message put into in_use as it is forwarded keeps the whole invariant.  *)
LEMMA ForwardKeeps ==
  ASSUME LibraryInv, NEW m \in Forwardable, NEW body \in Bodies \cup {Absent},
         forwarded' = Append(forwarded, m), submitted' = Append(submitted, body),
         in_use' = in_use \cup {m.order_id}, next_auto_id' \in Numbers, StampSeq
  PROVE  /\ in_use' \subseteq Numbers /\ next_auto_id' \in Numbers
         /\ next_seq' \in 0..(SeqSpace - 1)
         /\ forwarded' \in Seq(Forwardable) /\ submitted' \in Seq(Bodies \cup {Absent})
         /\ Len(submitted') = Len(forwarded')
         /\ \A i \in 1..Len(forwarded') : forwarded'[i].order_id \in in_use'
<1>1. /\ forwarded \in Seq(Forwardable) /\ submitted \in Seq(Bodies \cup {Absent})
      /\ Len(submitted) = Len(forwarded) /\ in_use \subseteq Numbers
      /\ next_seq \in 0..(SeqSpace - 1)
      /\ \A i \in 1..Len(forwarded) : forwarded[i].order_id \in in_use
  BY DEF LibraryInv
<1>2. /\ forwarded' \in Seq(Forwardable) /\ Len(forwarded') = Len(forwarded) + 1
      /\ \A i \in 1..(Len(forwarded) + 1) :
           \/ i \in 1..Len(forwarded) /\ forwarded'[i] = forwarded[i]
           \/ i = Len(forwarded) + 1 /\ forwarded'[i] = m
  BY <1>1, GrownByOne
<1>3. submitted' \in Seq(Bodies \cup {Absent}) /\ Len(submitted') = Len(submitted) + 1
  BY <1>1, GrownByOne
<1>4. m.order_id \in Numbers
  BY DEF Forwardable
<1>5. next_seq' \in 0..(SeqSpace - 1)
  BY <1>1, GatewayAssumption DEF StampSeq
<1> QED
  BY <1>1, <1>2, <1>3, <1>4, <1>5

LEMMA AcceptKeeps ==
  ASSUME LibraryInv, NEW body \in Bodies, Accept(body)
  PROVE  LibraryInv'
<1>1. /\ Refusal(body) = "None" /\ (body.order_id = Absent => in_use # Numbers)
      /\ in_use' = in_use \cup {ResolvedId(body)} /\ StampSeq
      /\ next_auto_id' = IF body.order_id = Absent THEN (FreeId + 1) % IdSpace
                         ELSE next_auto_id
      /\ forwarded' = Append(forwarded, MessageFor(body))
      /\ submitted' = Append(submitted, body)
  BY DEF Accept, accept_new_order
<1>2. PICK m \in Forwardable :
        /\ m = MessageFor(body) /\ m.order_id \notin in_use
        /\ m.order_id = ResolvedId(body)
        /\ m.price_ticks \in 1..TopPriceTicks
        /\ m.quantity \in 1..TopGatewayQuantity
        /\ 10 * m.price_ticks - body.price \in -4..5
        /\ m.side = body.side /\ m.quantity = body.quantity
        /\ body.order_id # Absent => m.order_id = body.order_id
  BY <1>1, AcceptedMessage
<1>3. next_auto_id' \in Numbers
  <2>1. CASE body.order_id = Absent
    <3>1. FreeId \in Numbers
      BY <1>1, <2>1, FreeIdIsFree DEF LibraryInv
    <3> QED
      BY <1>1, <2>1, <3>1, GatewayAssumption DEF Numbers
  <2>2. CASE body.order_id # Absent
    BY <1>1, <2>2 DEF LibraryInv
  <2> QED
    BY <2>1, <2>2
<1>4. /\ forwarded' = Append(forwarded, m) /\ submitted' = Append(submitted, body)
      /\ in_use' = in_use \cup {m.order_id}
  BY <1>1, <1>2
<1>5. \A i \in 1..Len(forwarded) : forwarded[i].order_id # m.order_id
  BY <1>2 DEF LibraryInv
<1>6. IdentifiersUnique'
  BY <1>4, <1>5, ForwardKeepsUnique
<1>7. FaithfulToRequest'
  BY <1>2, <1>4, ForwardKeepsFaith
<1>8. /\ in_use' \subseteq Numbers /\ next_auto_id' \in Numbers
      /\ next_seq' \in 0..(SeqSpace - 1)
      /\ forwarded' \in Seq(Forwardable) /\ submitted' \in Seq(Bodies \cup {Absent})
      /\ Len(submitted') = Len(forwarded')
      /\ \A i \in 1..Len(forwarded') : forwarded'[i].order_id \in in_use'
  BY <1>1, <1>3, <1>4, ForwardKeeps
<1> QED
  BY <1>6, <1>7, <1>8 DEF LibraryInv

LEMMA RestoreKeeps ==
  ASSUME LibraryInv, NEW id \in Numbers, Restore(id)
  PROVE  LibraryInv'
<1>1. /\ \A i \in 1..Len(forwarded) : forwarded[i].order_id # id
      /\ in_use' = in_use \cup {id} /\ StampSeq
      /\ next_auto_id' = IF id \notin in_use /\ id >= next_auto_id
                         THEN (id + 1) % IdSpace ELSE next_auto_id
      /\ forwarded' = Append(forwarded, NewOrder(id, "Buy", 1, next_seq, 1))
      /\ submitted' = Append(submitted, Absent)
  BY DEF Restore, reserve
<1>2. PICK m \in Forwardable :
        m = NewOrder(id, "Buy", 1, next_seq, 1) /\ m.order_id = id
  <2>1. next_seq \in 0..(SeqSpace - 1)
    BY DEF LibraryInv
  <2>2. NewOrder(id, "Buy", 1, next_seq, 1) \in Forwardable
    BY <2>1 DEF NewOrder, Forwardable, Sides
  <2>3. NewOrder(id, "Buy", 1, next_seq, 1).order_id = id
    BY DEF NewOrder
  <2> QED
    BY <2>2, <2>3
<1>3. next_auto_id' \in Numbers
  <2>1. (id + 1) % IdSpace \in Numbers
    BY GatewayAssumption DEF Numbers
  <2> QED
    BY <1>1, <2>1 DEF LibraryInv
<1>4. /\ forwarded' = Append(forwarded, m) /\ submitted' = Append(submitted, Absent)
      /\ in_use' = in_use \cup {m.order_id}
      /\ \A i \in 1..Len(forwarded) : forwarded[i].order_id # m.order_id
  BY <1>1, <1>2
<1>5. IdentifiersUnique'
  BY <1>4, ForwardKeepsUnique
<1>6. FaithfulToRequest'
  BY <1>4, ForwardKeepsFaith
<1>7. /\ in_use' \subseteq Numbers /\ next_auto_id' \in Numbers
      /\ next_seq' \in 0..(SeqSpace - 1)
      /\ forwarded' \in Seq(Forwardable) /\ submitted' \in Seq(Bodies \cup {Absent})
      /\ Len(submitted') = Len(forwarded')
      /\ \A i \in 1..Len(forwarded') : forwarded'[i].order_id \in in_use'
  BY <1>1, <1>3, <1>4, ForwardKeeps
<1> QED
  BY <1>5, <1>6, <1>7 DEF LibraryInv

LEMMA LibraryInvHolds == LibrarySpec => []LibraryInv
<1>1. LibraryInit => LibraryInv
  <2>1. 1 \in Numbers /\ 0 \in 0..(SeqSpace - 1)
    BY GatewayAssumption DEF Numbers
  <2>2. \A S : << >> \in Seq(S) /\ Len(<< >>) = 0 /\ \A i \in 1..0 : FALSE
    OBVIOUS
  <2>3. LibraryInit => IdentifiersUnique /\ FaithfulToRequest
    BY <2>2 DEF LibraryInit, IdentifiersUnique, FaithfulToRequest
  <2> QED
    BY <2>1, <2>2, <2>3 DEF LibraryInit, GatewayInit, LibraryInv
<1>2. LibraryInv /\ [LibraryNext]_libraryVars => LibraryInv'
  <2> SUFFICES ASSUME LibraryInv, [LibraryNext]_libraryVars PROVE LibraryInv'
    OBVIOUS
  <2>1. CASE UNCHANGED libraryVars
    BY <2>1 DEF libraryVars, gatewayVars, LibraryInv, IdentifiersUnique, FaithfulToRequest
  <2>2. ASSUME NEW body \in Bodies, Accept(body) PROVE LibraryInv'
    BY <2>2, AcceptKeeps
  <2>3. ASSUME NEW id \in Numbers, Restore(id) PROVE LibraryInv'
    BY <2>3, RestoreKeeps
  <2> QED
    BY <2>1, <2>2, <2>3 DEF LibraryNext
<1> QED
  BY <1>1, <1>2, PTL DEF LibrarySpec

(* No two messages the library forwards carry one identifier, for any size  *)
(* of the identifier space and any mix of requests and journal records.     *)
THEOREM LibraryIdsUnique == LibrarySpec => []IdentifiersUnique
<1>1. LibraryInv => IdentifiersUnique
  BY DEF LibraryInv
<1> QED
  BY <1>1, LibraryInvHolds, PTL

(* Every message is within the limits and is what the client wrote, its     *)
(* price within half a tick, for any limits and any requests.               *)
THEOREM LibraryFaithful == LibrarySpec => []FaithfulToRequest
<1>1. LibraryInv => FaithfulToRequest
  BY DEF LibraryInv
<1> QED
  BY <1>1, LibraryInvHolds, PTL

-----------------------------------------------------------------------------
(* The console: the screen does not go back while it follows the socket.    *)
(*                                                                          *)
(* The invariant follows the snapshots along their way: what is on the      *)
(* screen is not newer than what is in the socket, that not newer than what *)
(* is in the channel, and that not newer than what book_broadcaster has     *)
(* read and will send next.                                                 *)

FeedEvents == {Notice} \cup {BookEvent(r) : r \in Nat}

IsBook(e) == e.type = "book"

InOrder(s) ==
  \A i, j \in 1..Len(s) :
    i < j /\ IsBook(s[i]) /\ IsBook(s[j]) => s[i].revision <= s[j].revision

NoneNewer(s, r) == \A i \in 1..Len(s) : IsBook(s[i]) => s[i].revision <= r

NoneOlder(s, r) == \A i \in 1..Len(s) : IsBook(s[i]) => r <= s[i].revision

Precedes(s, t) ==
  \A i \in 1..Len(s), j \in 1..Len(t) :
    IsBook(s[i]) /\ IsBook(t[j]) => s[i].revision <= t[j].revision

LEMMA FeedEventFields ==
  /\ \A e \in FeedEvents : IsBook(e) => e.revision \in Nat
  /\ Notice \in FeedEvents /\ ~ IsBook(Notice)
  /\ \A r \in Nat : BookEvent(r) \in FeedEvents /\ BookEvent(r).revision = r
<1>1. ~ IsBook(Notice)
  BY DEF IsBook, Notice
<1>2. \A r : BookEvent(r).revision = r
  BY DEF BookEvent
<1>3. Notice \in FeedEvents /\ \A r \in Nat : BookEvent(r) \in FeedEvents
  BY DEF FeedEvents
<1>4. \A e \in FeedEvents : e = Notice \/ \E r \in Nat : e = BookEvent(r)
  BY DEF FeedEvents
<1> QED
  BY <1>1, <1>2, <1>3, <1>4

LEMMA ShrunkByOne ==
  ASSUME NEW S, NEW s \in Seq(S), s # << >>
  PROVE  /\ Tail(s) \in Seq(S) /\ Len(s) \in Nat /\ Len(Tail(s)) = Len(s) - 1
         /\ 1 \in 1..Len(s) /\ Head(s) = s[1] /\ Head(s) \in S
         /\ \A i \in 1..Len(Tail(s)) : i + 1 \in 1..Len(s) /\ Tail(s)[i] = s[i + 1]
OBVIOUS

(* Taking the oldest event off a line keeps the line in order.              *)
LEMMA TakenOff ==
  ASSUME NEW s \in Seq(FeedEvents), s # << >>, InOrder(s)
  PROVE  /\ Tail(s) \in Seq(FeedEvents) /\ Head(s) \in FeedEvents /\ InOrder(Tail(s))
         /\ \A r : NoneNewer(s, r) => NoneNewer(Tail(s), r)
         /\ \A r : NoneOlder(s, r) => NoneOlder(Tail(s), r)
         /\ \A t : Precedes(s, t) => Precedes(Tail(s), t)
         /\ \A t : Precedes(t, s) => Precedes(t, Tail(s))
         /\ IsBook(Head(s)) =>
              /\ NoneOlder(Tail(s), Head(s).revision)
              /\ \A r : NoneNewer(s, r) => Head(s).revision <= r
              /\ \A r : NoneOlder(s, r) => r <= Head(s).revision
              /\ \A t : Precedes(s, t) => NoneOlder(t, Head(s).revision)
              /\ \A t : Precedes(t, s) => NoneNewer(t, Head(s).revision)
<1>1. /\ Tail(s) \in Seq(FeedEvents) /\ Len(s) \in Nat
      /\ 1 \in 1..Len(s) /\ Head(s) = s[1] /\ Head(s) \in FeedEvents
      /\ \A i \in 1..Len(Tail(s)) : i + 1 \in 1..Len(s) /\ Tail(s)[i] = s[i + 1]
  BY ShrunkByOne
<1>2. InOrder(Tail(s))
  <2> SUFFICES ASSUME NEW i \in 1..Len(Tail(s)), NEW j \in 1..Len(Tail(s)), i < j,
                      IsBook(Tail(s)[i]), IsBook(Tail(s)[j])
               PROVE  Tail(s)[i].revision <= Tail(s)[j].revision
    BY DEF InOrder
  <2>1. i + 1 < j + 1
    OBVIOUS
  <2> QED
    BY <1>1, <2>1 DEF InOrder
<1>3. /\ \A r : NoneNewer(s, r) => NoneNewer(Tail(s), r)
      /\ \A r : NoneOlder(s, r) => NoneOlder(Tail(s), r)
  BY <1>1 DEF NoneNewer, NoneOlder
<1>4. /\ \A t : Precedes(s, t) => Precedes(Tail(s), t)
      /\ \A t : Precedes(t, s) => Precedes(t, Tail(s))
  BY <1>1 DEF Precedes
<1>5. ASSUME IsBook(Head(s))
      PROVE  /\ NoneOlder(Tail(s), Head(s).revision)
             /\ \A r : NoneNewer(s, r) => Head(s).revision <= r
             /\ \A r : NoneOlder(s, r) => r <= Head(s).revision
             /\ \A t : Precedes(s, t) => NoneOlder(t, Head(s).revision)
             /\ \A t : Precedes(t, s) => NoneNewer(t, Head(s).revision)
  <2>1. \A i \in 1..Len(Tail(s)) : 1 < i + 1
    OBVIOUS
  <2>2. NoneOlder(Tail(s), Head(s).revision)
    BY <1>1, <1>5, <2>1 DEF NoneOlder, InOrder
  <2>3. /\ \A r : NoneNewer(s, r) => Head(s).revision <= r
        /\ \A r : NoneOlder(s, r) => r <= Head(s).revision
    BY <1>1, <1>5 DEF NoneNewer, NoneOlder
  <2>4. /\ \A t : Precedes(s, t) => NoneOlder(t, Head(s).revision)
        /\ \A t : Precedes(t, s) => NoneNewer(t, Head(s).revision)
    BY <1>1, <1>5 DEF Precedes, NoneOlder, NoneNewer
  <2> QED
    BY <2>2, <2>3, <2>4
<1> QED
  BY <1>1, <1>2, <1>3, <1>4, <1>5

(* An event that is not older than those in a line may be put at its end.   *)
LEMMA PutOn ==
  ASSUME NEW s \in Seq(FeedEvents), NEW e \in FeedEvents, InOrder(s),
         IsBook(e) => NoneNewer(s, e.revision)
  PROVE  /\ Append(s, e) \in Seq(FeedEvents) /\ InOrder(Append(s, e))
         /\ \A r : NoneNewer(s, r) /\ (IsBook(e) => e.revision <= r)
                     => NoneNewer(Append(s, e), r)
         /\ \A r : NoneOlder(s, r) /\ (IsBook(e) => r <= e.revision)
                     => NoneOlder(Append(s, e), r)
         /\ \A t : Precedes(s, t) /\ (IsBook(e) => NoneOlder(t, e.revision))
                     => Precedes(Append(s, e), t)
         /\ \A t : Precedes(t, s) /\ (IsBook(e) => NoneNewer(t, e.revision))
                     => Precedes(t, Append(s, e))
<1>1. /\ Append(s, e) \in Seq(FeedEvents) /\ Len(Append(s, e)) = Len(s) + 1
      /\ Len(s) \in Nat
      /\ \A i \in 1..Len(Append(s, e)) :
           \/ i \in 1..Len(s) /\ Append(s, e)[i] = s[i]
           \/ i = Len(s) + 1 /\ Append(s, e)[i] = e
  BY GrownByOne
<1>2. InOrder(Append(s, e))
  <2> SUFFICES ASSUME NEW i \in 1..Len(Append(s, e)), NEW j \in 1..Len(Append(s, e)), i < j,
                      IsBook(Append(s, e)[i]), IsBook(Append(s, e)[j])
               PROVE  Append(s, e)[i].revision <= Append(s, e)[j].revision
    BY DEF InOrder
  <2>1. i \in 1..Len(s) /\ Append(s, e)[i] = s[i]
    BY <1>1
  <2>2. CASE j \in 1..Len(s) /\ Append(s, e)[j] = s[j]
    BY <2>1, <2>2 DEF InOrder
  <2>3. CASE j = Len(s) + 1 /\ Append(s, e)[j] = e
    BY <2>1, <2>3 DEF NoneNewer
  <2> QED
    BY <1>1, <2>2, <2>3
<1>3. /\ \A r : NoneNewer(s, r) /\ (IsBook(e) => e.revision <= r)
                  => NoneNewer(Append(s, e), r)
      /\ \A r : NoneOlder(s, r) /\ (IsBook(e) => r <= e.revision)
                  => NoneOlder(Append(s, e), r)
  BY <1>1 DEF NoneNewer, NoneOlder
<1>4. /\ \A t : Precedes(s, t) /\ (IsBook(e) => NoneOlder(t, e.revision))
                  => Precedes(Append(s, e), t)
      /\ \A t : Precedes(t, s) /\ (IsBook(e) => NoneNewer(t, e.revision))
                  => Precedes(t, Append(s, e))
  BY <1>1 DEF Precedes, NoneNewer, NoneOlder
<1> QED
  BY <1>1, <1>2, <1>3, <1>4

(* The newest book that is in the channel or that will be sent next.        *)
Newest == IF pusher = "Read" THEN snapshot ELSE revision

FeedInv ==
  /\ revision \in Nat /\ snapshot \in Nat /\ snapshot <= revision
  /\ events \in Seq(FeedEvents) /\ socket \in Seq(FeedEvents)
  /\ InOrder(events) /\ InOrder(socket) /\ Precedes(socket, events)
  /\ NoneNewer(events, Newest) /\ NoneNewer(socket, Newest)

PollStates == [stage : {"None", "Asked", "Served"}, book : Nat]

(* What is on the screen, while it follows the socket.                      *)
ScreenInv ==
  /\ shown \in Nat
  /\ poll \in [Polls -> PollStates]
  /\ ws = "Open" => ~ pollTimer
  /\ following =>
       /\ ws = "Open" /\ Outstanding = {}
       /\ NoneOlder(socket, shown) /\ NoneOlder(events, shown) /\ shown <= Newest

(* An event is sent that is not older than what is under way.               *)
LEMMA BroadcastKeeps ==
  ASSUME FeedInv, NEW e \in FeedEvents, broadcast(e), socket' = socket, revision' = revision,
         IsBook(e) => NoneNewer(events, e.revision) /\ NoneNewer(socket, e.revision)
  PROVE  /\ events' \in Seq(FeedEvents) /\ InOrder(events') /\ Precedes(socket', events')
         /\ \A r : NoneNewer(events, r) /\ (IsBook(e) => e.revision <= r)
                     => NoneNewer(events', r)
         /\ \A r : NoneOlder(events, r) /\ (IsBook(e) => r <= e.revision)
                     => NoneOlder(events', r)
<1>1. /\ events \in Seq(FeedEvents) /\ socket \in Seq(FeedEvents)
      /\ InOrder(events) /\ Precedes(socket, events)
  BY DEF FeedInv
<1>2. CASE events' = events
  BY <1>1, <1>2
<1>3. CASE events' = Append(events, e)
  BY <1>1, <1>3, PutOn
<1>4. CASE events # << >> /\ events' = Append(Tail(events), e)
  <2>1. PICK t : t = Tail(events)
    OBVIOUS
  <2>2. /\ t \in Seq(FeedEvents) /\ InOrder(t) /\ Precedes(socket, t)
        /\ \A r : NoneNewer(events, r) => NoneNewer(t, r)
        /\ \A r : NoneOlder(events, r) => NoneOlder(t, r)
    BY <1>1, <1>4, <2>1, TakenOff
  <2>3. IsBook(e) => NoneNewer(t, e.revision)
    BY <2>2
  <2> QED
    BY <1>4, <2>1, <2>2, <2>3, PutOn
<1>5. ~ (Len(events) < EventCapacity) => events # << >>
  BY <1>1, FeedAssumption
<1> QED
  BY <1>2, <1>3, <1>4, <1>5 DEF broadcast

LEMMA NewerBound ==
  ASSUME NEW s \in Seq(FeedEvents), NEW r \in Nat, NEW q \in Nat, r <= q, NoneNewer(s, r)
  PROVE  NoneNewer(s, q)
<1>1. \A i \in 1..Len(s) : IsBook(s[i]) => s[i].revision \in Nat
  BY FeedEventFields
<1> QED
  BY <1>1 DEF NoneNewer

(* What is not older than the book r stays so, and nothing leaves the socket.*)
Streams ==
  /\ Len(socket') >= Len(socket)
  /\ \A r \in Nat :
       NoneOlder(socket, r) /\ NoneOlder(events, r) /\ r <= Newest
         => NoneOlder(socket', r) /\ NoneOlder(events', r) /\ r <= Newest'

(* A step that moves no event.                                              *)
LEMMA QuietKeeps ==
  ASSUME FeedInv, events' = events, socket' = socket,
         revision' \in Nat, snapshot' \in Nat, snapshot' <= revision', Newest <= Newest'
  PROVE  FeedInv' /\ Streams
<1>1. /\ events \in Seq(FeedEvents) /\ socket \in Seq(FeedEvents)
      /\ InOrder(events) /\ InOrder(socket) /\ Precedes(socket, events)
      /\ NoneNewer(events, Newest) /\ NoneNewer(socket, Newest)
      /\ Newest \in Nat /\ Len(socket) \in Nat
  BY LenProperties DEF FeedInv, Newest
<1>2. Newest' \in Nat
  BY DEF Newest
<1>3. NoneNewer(events, Newest') /\ NoneNewer(socket, Newest')
  BY <1>1, <1>2, NewerBound
<1>4. Streams
  BY <1>1, <1>2 DEF Streams
<1> QED
  BY <1>1, <1>3, <1>4 DEF FeedInv

LEMMA WriteKeeps ==
  ASSUME FeedInv, Write
  PROVE  FeedInv' /\ Streams
<1>1. PICK w \in {"reader", "manager"} : Change(w) \/ mark_book_dirty(w)
  BY DEF Write
<1>2. /\ events' = events /\ socket' = socket /\ snapshot' = snapshot /\ pusher' = pusher
      /\ revision' = revision + 1 \/ revision' = revision
  BY <1>1 DEF Change, mark_book_dirty
<1>3. /\ revision' \in Nat /\ snapshot' \in Nat /\ snapshot' <= revision'
      /\ Newest <= Newest'
  BY <1>2 DEF FeedInv, Newest
<1> QED
  BY <1>2, <1>3, QuietKeeps

LEMMA SendKeeps ==
  ASSUME FeedInv, NEW e \in FeedEvents, broadcast(e), socket' = socket, revision' = revision,
         snapshot' \in Nat, snapshot' <= revision,
         Newest <= Newest', IsBook(e) => e.revision = Newest
  PROVE  FeedInv' /\ Streams
<1>1. /\ events \in Seq(FeedEvents) /\ socket \in Seq(FeedEvents)
      /\ InOrder(socket) /\ NoneNewer(events, Newest) /\ NoneNewer(socket, Newest)
      /\ revision \in Nat /\ Newest \in Nat /\ Len(socket) \in Nat
  BY LenProperties DEF FeedInv, Newest
<1>2. Newest' \in Nat
  BY <1>1 DEF Newest
<1>3. /\ events' \in Seq(FeedEvents) /\ InOrder(events') /\ Precedes(socket', events')
      /\ \A r : NoneNewer(events, r) /\ (IsBook(e) => e.revision <= r) => NoneNewer(events', r)
      /\ \A r : NoneOlder(events, r) /\ (IsBook(e) => r <= e.revision) => NoneOlder(events', r)
  BY <1>1, BroadcastKeeps
<1>4. NoneNewer(events, Newest') /\ NoneNewer(socket, Newest')
  BY <1>1, <1>2, NewerBound
<1>5. NoneNewer(events', Newest')
  BY <1>3, <1>4
<1>6. Streams
  BY <1>1, <1>2, <1>3 DEF Streams
<1> QED
  BY <1>1, <1>3, <1>4, <1>5, <1>6 DEF FeedInv

LEMMA PushKeepsFeed ==
  ASSUME FeedInv, Push
  PROVE  FeedInv' /\ Streams
<1>1. CASE take_book_dirty
  <2>1. /\ events' = events /\ socket' = socket /\ revision' = revision
        /\ snapshot' = snapshot /\ pusher = "Waiting" /\ pusher' = "Taken"
    BY <1>1 DEF take_book_dirty
  <2>2. revision' \in Nat /\ snapshot' \in Nat /\ snapshot' <= revision' /\ Newest <= Newest'
    BY <2>1 DEF FeedInv, Newest
  <2> QED
    BY <2>1, <2>2, QuietKeeps
<1>2. CASE ReadBook
  <2>1. /\ events' = events /\ socket' = socket /\ revision' = revision
        /\ snapshot' = revision /\ pusher = "Taken" /\ pusher' = "Read"
    BY <1>2 DEF ReadBook
  <2>2. revision' \in Nat /\ snapshot' \in Nat /\ snapshot' <= revision' /\ Newest <= Newest'
    BY <2>1 DEF FeedInv, Newest
  <2> QED
    BY <2>1, <2>2, QuietKeeps
<1>3. CASE PushBook
  <2>1. /\ broadcast(BookEvent(snapshot)) /\ snapshot' = 0 /\ revision' = revision
        /\ socket' = socket /\ pusher = "Read" /\ pusher' = "Waiting"
    BY <1>3 DEF PushBook
  <2>2. snapshot' \in Nat /\ snapshot' <= revision /\ Newest <= Newest' /\ Newest = snapshot
    BY <2>1 DEF FeedInv, Newest
  <2>3. PICK e \in FeedEvents : e = BookEvent(snapshot) /\ e.revision = snapshot
    BY FeedEventFields DEF FeedInv
  <2>4. broadcast(e)
    BY <2>1, <2>3
  <2> QED
    BY <2>1, <2>2, <2>3, <2>4, SendKeeps
<1> QED
  BY <1>1, <1>2, <1>3 DEF Push

LEMMA NotifyKeeps ==
  ASSUME FeedInv, Notify
  PROVE  FeedInv' /\ Streams
<1>1. /\ broadcast(Notice) /\ socket' = socket /\ revision' = revision
      /\ snapshot' = snapshot /\ pusher' = pusher
  BY DEF Notify
<1>2. snapshot' \in Nat /\ snapshot' <= revision /\ Newest <= Newest'
  BY <1>1 DEF FeedInv, Newest
<1> QED
  BY <1>1, <1>2, FeedEventFields, SendKeeps

(* The socket's task sends the oldest event of the channel, or skips what   *)
(* it lost.                                                                 *)
LEMMA SocketTaskKeeps ==
  ASSUME FeedInv, handle_socket
  PROVE  FeedInv' /\ Streams
<1>1. revision' = revision /\ snapshot' = snapshot /\ pusher' = pusher
  BY DEF handle_socket
<1>2. /\ revision' \in Nat /\ snapshot' \in Nat /\ snapshot' <= revision' /\ Newest' = Newest
      /\ Newest \in Nat
  BY <1>1 DEF FeedInv, Newest
<1>3. CASE SkipLost
  BY <1>2, <1>3, QuietKeeps DEF SkipLost
<1>4. CASE SendNext
  <2>1. /\ events # << >> /\ socket' = Append(socket, Head(events)) /\ events' = Tail(events)
    BY <1>4 DEF SendNext
  <2>2. /\ events \in Seq(FeedEvents) /\ socket \in Seq(FeedEvents)
        /\ InOrder(events) /\ InOrder(socket) /\ Precedes(socket, events)
        /\ NoneNewer(events, Newest) /\ NoneNewer(socket, Newest)
    BY DEF FeedInv
  <2>3. PICK e : e = Head(events)
    OBVIOUS
  <2>4. /\ events' \in Seq(FeedEvents) /\ e \in FeedEvents /\ InOrder(events')
        /\ NoneNewer(events', Newest) /\ Precedes(socket, events')
        /\ \A r : NoneOlder(events, r) => NoneOlder(events', r)
        /\ IsBook(e) => /\ NoneOlder(events', e.revision) /\ e.revision <= Newest
                        /\ \A r : NoneOlder(events, r) => r <= e.revision
                        /\ NoneNewer(socket, e.revision)
    BY <2>1, <2>2, <2>3, TakenOff
  <2>5. /\ socket' \in Seq(FeedEvents) /\ InOrder(socket')
        /\ NoneNewer(socket', Newest) /\ Precedes(socket', events')
        /\ \A r : NoneOlder(socket, r) /\ (IsBook(e) => r <= e.revision) => NoneOlder(socket', r)
    BY <2>1, <2>2, <2>3, <2>4, PutOn
  <2>6. Len(socket') >= Len(socket)
    BY <2>1, <2>2, <2>3, <2>4, GrownByOne
  <2>7. Streams
    BY <1>2, <2>4, <2>5, <2>6 DEF Streams
  <2> QED
    BY <1>2, <2>4, <2>5, <2>7 DEF FeedInv
<1> QED
  BY <1>3, <1>4 DEF handle_socket

ConsoleInv == FeedInv /\ ScreenInv

(* What a step must do: keep the invariant and not take the screen back.    *)
Forward == ConsoleInv' /\ (following /\ following' => shown' >= shown)

(* The gateway's own steps leave the screen behind what is under way.       *)
LEMMA GatewayStepsForward ==
  ASSUME ConsoleInv, FeedInv', Streams, UNCHANGED consoleVars, GhostNext
  PROVE  Forward
<1>1. /\ ws' = ws /\ pollTimer' = pollTimer /\ poll' = poll /\ shown' = shown
      /\ Outstanding' = Outstanding
  BY DEF consoleVars, Outstanding
<1>2. following' => following
  <2>1. Len(socket) \in Nat /\ Len(socket') \in Nat /\ Len(socket') >= Len(socket)
    BY LenProperties DEF ConsoleInv, FeedInv, Streams
  <2>2. ~ (Len(socket') < Len(socket))
    BY <2>1
  <2> QED
    BY <2>2 DEF GhostNext
<1>3. shown \in Nat
  BY DEF ConsoleInv, ScreenInv
<1>4. following => /\ NoneOlder(socket', shown) /\ NoneOlder(events', shown)
                   /\ shown <= Newest'
  BY <1>3 DEF ConsoleInv, ScreenInv, Streams
<1>5. ScreenInv'
  BY <1>1, <1>2, <1>3, <1>4 DEF ConsoleInv, ScreenInv
<1> QED
  BY <1>1, <1>3, <1>5 DEF Forward, ConsoleInv

(* A step of the polls, or of a socket that is not open: what the feed      *)
(* holds stays, and the screen follows the socket after it only if it did   *)
(* before and the step was none of the polls.                               *)
LEMMA ApartForward ==
  ASSUME ConsoleInv, UNCHANGED feedVars, GhostNext, ~ following \/ ws' # "Open",
         shown' \in Nat, poll' \in [Polls -> PollStates],
         ws' = "Open" => ~ pollTimer'
  PROVE  Forward
<1>1. /\ events' = events /\ socket' = socket /\ revision' = revision
      /\ snapshot' = snapshot /\ pusher' = pusher /\ Newest' = Newest
  BY DEF feedVars, Newest
<1>2. FeedInv'
  BY <1>1 DEF ConsoleInv, FeedInv
<1>3. ~ following'
  <2>1. Len(socket) \in Nat
    BY LenProperties DEF ConsoleInv, FeedInv
  <2>2. ~ (Len(socket') < Len(socket))
    BY <1>1, <2>1
  <2> QED
    BY <2>2 DEF GhostNext
<1>4. ScreenInv'
  BY <1>3 DEF ScreenInv
<1> QED
  BY <1>2, <1>3, <1>4 DEF Forward, ConsoleInv

LEMMA PollsAsked ==
  ASSUME poll \in [Polls -> PollStates], pollOnce
  PROVE  poll' \in [Polls -> PollStates]
<1>1. Asked \in PollStates
  BY DEF Asked, PollStates
<1> QED
  BY <1>1 DEF pollOnce

(* While the screen follows the socket no poll is under way and none is     *)
(* started, so no poll is answered either.                                  *)
LEMMA PollStepsForward ==
  ASSUME ConsoleInv, GhostNext,
         PollAgain \/ \E p \in Polls : get_book(p) \/ RenderPoll(p) \/ PollFails(p)
  PROVE  Forward
<1>1. /\ shown \in Nat /\ poll \in [Polls -> PollStates]
      /\ ws = "Open" => ~ pollTimer
      /\ following => ws = "Open" /\ Outstanding = {}
      /\ revision \in Nat
  BY DEF ConsoleInv, ScreenInv, FeedInv
<1>2. CASE PollAgain
  <2>1. /\ UNCHANGED feedVars /\ pollTimer /\ pollTimer' = pollTimer /\ ws' = ws
        /\ shown' = shown /\ pollOnce
    BY <1>2 DEF PollAgain
  <2>2. ~ following
    BY <1>1, <2>1
  <2>3. poll' \in [Polls -> PollStates]
    BY <1>1, <2>1, PollsAsked
  <2> QED
    BY <1>1, <2>1, <2>2, <2>3, ApartForward
<1>3. ASSUME NEW p \in Polls, get_book(p) \/ RenderPoll(p) \/ PollFails(p)
      PROVE  Forward
  <2>1. UNCHANGED feedVars /\ pollTimer' = pollTimer /\ ws' = ws
    BY <1>3 DEF get_book, RenderPoll, PollFails
  <2>2. p \in Outstanding
    <3>1. NoPoll.stage = "None" /\ Asked.stage = "Asked"
      BY DEF NoPoll, Asked
    <3>2. poll[p] # NoPoll \/ p \in Outstanding
      BY <1>3, <3>1 DEF get_book, RenderPoll, PollFails
    <3> QED
      BY <3>2 DEF Outstanding
  <2>3. shown' \in Nat
    <3>1. poll[p].book \in Nat
      BY <1>1 DEF PollStates
    <3> QED
      BY <1>1, <1>3, <3>1 DEF get_book, RenderPoll, PollFails
  <2>4. poll' \in [Polls -> PollStates]
    <3>1. NoPoll \in PollStates /\ [stage |-> "Served", book |-> revision] \in PollStates
      BY <1>1 DEF NoPoll, PollStates
    <3> QED
      BY <1>1, <1>3, <3>1 DEF get_book, RenderPoll, PollFails
  <2>5. ~ following
    BY <1>1, <2>2
  <2> QED
    BY <1>1, <2>1, <2>3, <2>4, <2>5, ApartForward
<1> QED
  BY <1>2, <1>3

(* The socket is opened or lost, or its connection is made.                 *)
LEMMA SocketStepsForward ==
  ASSUME ConsoleInv, GhostNext, connectWs \/ onopen \/ onclose
  PROVE  Forward
<1>1. /\ shown \in Nat /\ poll \in [Polls -> PollStates]
      /\ following => ws = "Open"
  BY DEF ConsoleInv, ScreenInv
<1>2. CASE connectWs \/ onopen
  <2>1. /\ UNCHANGED feedVars /\ shown' = shown /\ poll' = poll
        /\ ws # "Open" /\ (ws' = "Open" => ~ pollTimer')
    BY <1>2 DEF connectWs, onopen
  <2> QED
    BY <1>1, <2>1, ApartForward
<1>3. CASE onclose
  <2>1. /\ ws' = "Retrying" /\ shown' = shown /\ startPolling
        /\ events' = << >> /\ socket' = << >> /\ revision' = revision
        /\ snapshot' = snapshot /\ pusher' = pusher
    BY <1>3 DEF onclose, EndSocket
  <2>2. poll' \in [Polls -> PollStates]
    BY <1>1, <2>1, PollsAsked DEF startPolling
  <2>3. ~ following'
    BY <2>1 DEF GhostNext
  <2>4. ScreenInv'
    BY <1>1, <2>1, <2>2, <2>3 DEF ScreenInv
  <2>5. << >> \in Seq(FeedEvents) /\ Len(<< >>) = 0 /\ \A i \in 1..0 : FALSE
    OBVIOUS
  <2>6. FeedInv'
    BY <2>1, <2>5 DEF ConsoleInv, FeedInv, InOrder, Precedes, NoneNewer
  <2> QED
    BY <2>3, <2>4, <2>6 DEF Forward, ConsoleInv
<1> QED
  BY <1>2, <1>3

(* The snapshot shown next is the oldest in the socket, and not older than  *)
(* the one on the screen.                                                   *)
LEMMA MessageForward ==
  ASSUME ConsoleInv, GhostNext, onmessage
  PROVE  Forward
<1>1. /\ socket # << >> /\ socket' = Tail(socket) /\ events' = events
      /\ shown' = IF Head(socket).type = "book" THEN Head(socket).revision ELSE shown
      /\ revision' = revision /\ snapshot' = snapshot /\ pusher' = pusher
      /\ ws = "Open" /\ ws' = ws /\ pollTimer' = pollTimer /\ poll' = poll
      /\ Newest' = Newest /\ Outstanding' = Outstanding
  BY DEF onmessage, Newest, Outstanding
<1>2. /\ events \in Seq(FeedEvents) /\ socket \in Seq(FeedEvents)
      /\ InOrder(events) /\ InOrder(socket) /\ Precedes(socket, events)
      /\ NoneNewer(events, Newest) /\ NoneNewer(socket, Newest)
      /\ shown \in Nat /\ poll \in [Polls -> PollStates]
      /\ (ws = "Open" => ~ pollTimer)
  BY DEF ConsoleInv, FeedInv, ScreenInv
<1>3. PICK e : e = Head(socket)
  OBVIOUS
<1>4. /\ socket' \in Seq(FeedEvents) /\ e \in FeedEvents /\ InOrder(socket')
      /\ NoneNewer(socket', Newest) /\ Precedes(socket', events)
      /\ \A r : NoneOlder(socket, r) => NoneOlder(socket', r)
      /\ IsBook(e) => /\ NoneOlder(socket', e.revision) /\ e.revision <= Newest
                      /\ \A r : NoneOlder(socket, r) => r <= e.revision
                      /\ NoneOlder(events, e.revision)
  BY <1>1, <1>2, <1>3, TakenOff
<1>5. FeedInv'
  BY <1>1, <1>2, <1>4 DEF ConsoleInv, FeedInv
<1>6. shown' \in Nat /\ (IsBook(e) => shown' = e.revision) /\ (~ IsBook(e) => shown' = shown)
  BY <1>1, <1>2, <1>3, <1>4, FeedEventFields DEF IsBook
<1>7. following => /\ NoneOlder(socket, shown) /\ NoneOlder(events, shown)
                   /\ shown <= Newest /\ Outstanding = {}
  BY DEF ConsoleInv, ScreenInv
<1>8. following' => Outstanding = {} /\ (following \/ IsBook(e))
  BY <1>3, <1>7 DEF GhostNext, IsBook
<1>9. following' => /\ NoneOlder(socket', shown') /\ NoneOlder(events', shown')
                    /\ shown' <= Newest'
  BY <1>1, <1>4, <1>6, <1>7, <1>8
<1>10. ScreenInv'
  BY <1>1, <1>2, <1>6, <1>8, <1>9 DEF ScreenInv
<1>11. following => shown' >= shown
  BY <1>2, <1>4, <1>6, <1>7
<1> QED
  BY <1>5, <1>10, <1>11 DEF Forward, ConsoleInv

LEMMA StepForward ==
  ASSUME ConsoleInv, [MCNext]_mcVars
  PROVE  Forward
<1>1. FeedInv
  BY DEF ConsoleInv
<1>2. CASE UNCHANGED mcVars
  <2>1. /\ UNCHANGED feedVars /\ UNCHANGED consoleVars /\ following' = following
    BY <1>2 DEF mcVars
  <2>2. Newest' = Newest /\ Outstanding' = Outstanding
    BY <2>1 DEF feedVars, consoleVars, Newest, Outstanding
  <2>3. ConsoleInv'
    BY <2>1, <2>2 DEF feedVars, consoleVars, ConsoleInv, FeedInv, ScreenInv
  <2>4. shown' = shown /\ shown \in Nat
    BY <2>1 DEF consoleVars, ConsoleInv, ScreenInv
  <2> QED
    BY <2>3, <2>4 DEF Forward
<1>3. CASE (Write \/ Serve) /\ UNCHANGED consoleVars /\ GhostNext
  <2>1. CASE subscribe
    <3>1. /\ events' = events /\ socket' = socket /\ revision' = revision
          /\ snapshot' = snapshot /\ pusher' = pusher
      BY <2>1 DEF subscribe
    <3>2. /\ revision' \in Nat /\ snapshot' \in Nat /\ snapshot' <= revision'
          /\ Newest <= Newest'
      BY <1>1, <3>1 DEF FeedInv, Newest
    <3> QED
      BY <1>1, <1>3, <3>1, <3>2, QuietKeeps, GatewayStepsForward
  <2>2. CASE Write \/ Push \/ Notify \/ handle_socket
    <3>1. FeedInv' /\ Streams
      BY <1>1, <2>2, WriteKeeps, PushKeepsFeed, NotifyKeeps, SocketTaskKeeps
    <3> QED
      BY <1>3, <3>1, GatewayStepsForward
  <2> QED
    BY <1>3, <2>1, <2>2 DEF Serve
<1>4. CASE Upgrade /\ GhostNext
  <2>1. /\ events' = events /\ socket' = socket /\ revision' = revision
        /\ snapshot' = snapshot /\ pusher' = pusher /\ UNCHANGED consoleVars
    BY <1>4 DEF Upgrade, ws_handler
  <2>2. revision' \in Nat /\ snapshot' \in Nat /\ snapshot' <= revision' /\ Newest <= Newest'
    BY <1>1, <2>1 DEF FeedInv, Newest
  <2> QED
    BY <1>1, <1>4, <2>1, <2>2, QuietKeeps, GatewayStepsForward
<1>5. CASE /\ PollAgain \/ \E p \in Polls : get_book(p) \/ RenderPoll(p) \/ PollFails(p)
           /\ GhostNext
  BY <1>5, PollStepsForward
<1>6. CASE (connectWs \/ onopen \/ onclose) /\ GhostNext
  BY <1>6, SocketStepsForward
<1>7. CASE onmessage /\ GhostNext
  BY <1>7, MessageForward
<1> QED
  BY <1>2, <1>3, <1>4, <1>5, <1>6, <1>7 DEF MCNext, ConsoleNext

(* While the screen follows the socket it never shows an older book than it *)
(* did, for any room in the channel and the socket, any number of polls,    *)
(* changes and failures.                                                    *)
THEOREM ConsoleNeverShowsOlder == MCSpec => NeverShowsOlder
<1>1. MCInit => ConsoleInv
  <2> SUFFICES ASSUME MCInit PROVE ConsoleInv
    OBVIOUS
  <2>1. /\ revision = 0 /\ snapshot = 0 /\ events = << >> /\ socket = << >> /\ shown = 0
        /\ ws = "Connecting" /\ following = FALSE
        /\ poll = [p \in Polls |-> IF p = CHOOSE q \in Polls : TRUE THEN Asked ELSE NoPoll]
    BY DEF MCInit, ConsoleInit, FeedInit
  <2>2. << >> \in Seq(FeedEvents) /\ Len(<< >>) = 0 /\ \A i \in 1..0 : FALSE
    OBVIOUS
  <2>3. FeedInv
    BY <2>1, <2>2 DEF FeedInv, InOrder, Precedes, NoneNewer
  <2>4. Asked \in PollStates /\ NoPoll \in PollStates
    BY DEF Asked, NoPoll, PollStates
  <2>5. ScreenInv
    BY <2>1, <2>4 DEF ScreenInv
  <2> QED
    BY <2>3, <2>5 DEF ConsoleInv
<1>2. ConsoleInv /\ [MCNext]_mcVars => ConsoleInv'
  BY StepForward DEF Forward
<1>3. ConsoleInv /\ [MCNext]_mcVars => [following /\ following' => shown' >= shown]_mcVars
  BY StepForward DEF Forward
<1> QED
  BY <1>1, <1>2, <1>3, PTL DEF MCSpec, NeverShowsOlder

=============================================================================
