-------------------------- MODULE TcpAnswerProofs --------------------------
(***************************************************************************)
(* Every command the server takes is answered once, in the order of the     *)
(* commands and after its trades, unless a full egress ring refused events, *)
(* and those are counted; for every number of descriptors, every cap and    *)
(* every ring, and whatever order handlers, failures and signals come in.   *)
(***************************************************************************)
EXTENDS TcpServerProofs

-----------------------------------------------------------------------------
(* The steps keep the account.                                              *)

(* What is known of the server itself.                                      *)
Sound == ProcInv /\ StageInv /\ LifeInv /\ ServerTypes

AnswerInv ==
  /\ frames \in Nat /\ frames = Delivered
  /\ owed \in [Sockets -> Seq(Nat)]
  /\ \A s \in Sockets \ connections : owed[s] = << >>
  /\ \A s \in connections : Accounted(s)

SoundFact ==
  Sound => /\ connections \subseteq Sockets /\ connections \subseteq DOMAIN outbound
           /\ \A s \in connections : outbound[s] \in Seq(Events)
           /\ IInv /\ egress \in Seq(Events) /\ egress_overflow_count \in Nat
           /\ ingress \in Seq(Inbound)

LEMMA SoundFacts == SoundFact
BY DEF SoundFact, Sound, ProcInv, StageInv, LifeInv, ServerTypes

LEMMA SoundFactsNext == SoundFact'
BY SoundFacts, PTL

LEMMA RestingAccount ==
  ASSUME Sound, Sound', AnswerInv, RestingStep, NEW s \in connections', owed'[s] = owed[s]
  PROVE  Accounted(s)'
<1>1. /\ s \in Sockets /\ s \in DOMAIN outbound' /\ outbound'[s] \in Seq(Events)
      /\ ServerTypes' /\ IInv' /\ egress' \in Seq(Events)
  BY SoundFactsNext DEF SoundFact, Sound
<1>2. Due(s)' = AnswerIds(outbound'[s])
  BY <1>1, DueFactsNext DEF DueFact, RestingStep
<1>3. egress_overflow_count' = egress_overflow_count /\ egress_overflow_count \in Nat
  BY DEF RestingStep, statVars, Sound, ServerTypes
<1>4. CASE s \in connections
  <2>1. s \in DOMAIN outbound /\ outbound'[s] = outbound[s]
    BY <1>1, <1>4, SoundFacts DEF SoundFact, RestingStep
  <2>2. Due(s) = AnswerIds(outbound[s])
    BY <2>1, DueFacts, SoundFacts DEF DueFact, SoundFact, Sound, RestingStep
  <2> QED
    BY <1>2, <1>3, <1>4, <2>1, <2>2 DEF AnswerInv, Accounted
<1>5. CASE s \notin connections
  <2>1. outbound'[s] = << >> /\ owed[s] = << >>
    BY <1>1, <1>5 DEF RestingStep, AnswerInv
  <2>2. Due(s)' = << >>
    BY <1>2, <2>1, AnswersEmpty
  <2>3. Balanced(<< >>, << >>, egress_overflow_count)
    BY <1>3 DEF Balanced
  <2> QED
    BY <1>3, <2>1, <2>2, <2>3 DEF Accounted
<1> QED
  BY <1>4, <1>5

LEMMA StageAccount ==
  ASSUME AnswerInv, StageStep, NEW s \in connections', owed'[s] = owed[s]
  PROVE  Accounted(s)'
<1>1. /\ s \in connections /\ outbound' = outbound /\ fd' = fd /\ egress' = egress
      /\ ingress' = ingress /\ incoming' = incoming
      /\ egress_overflow_count' = egress_overflow_count
  BY DEF StageStep, procVars, coreVars
<1>2. Due(s)' = Due(s)
  BY <1>1 DEF Due, Produced, Pending, Idle
<1> QED
  BY <1>1, <1>2 DEF AnswerInv, Accounted

(* A connection that is not being read.                                     *)
LEMMA OtherAccount ==
  ASSUME Sound, Sound', AnswerInv, NEW s \in connections', s \in connections, s # fd, fd' = fd,
         outbound'[s] = outbound[s], owed'[s] = owed[s],
         egress_overflow_count' \in {egress_overflow_count, egress_overflow_count + 1}
  PROVE  Accounted(s)'
<1>1. Due(s) = AnswerIds(outbound[s]) /\ Due(s) \in Seq(Nat)
  BY DueFacts, SoundFacts DEF DueFact, SoundFact, Sound
<1>2. Due(s)' = AnswerIds(outbound'[s])
  BY DueFactsNext, SoundFactsNext DEF DueFact, SoundFact, Sound
<1>3. Balanced(owed[s], Due(s), egress_overflow_count) /\ owed[s] \in Seq(Nat)
  BY SoundFacts DEF AnswerInv, Accounted, SoundFact
<1>4. egress_overflow_count \in Nat
  BY SoundFacts DEF SoundFact
<1>5. Balanced(owed[s], Due(s), egress_overflow_count + 1)
  BY <1>1, <1>3, <1>4, BalancedLoss
<1> QED
  BY <1>1, <1>2, <1>3, <1>5 DEF Accounted

(* A command the ring takes is logged and waits.                            *)
LEMMA DeliverAccount ==
  ASSUME Sound, Sound', AnswerInv, NEW msg \in Commands, DeliverFrame(msg),
         NEW s \in connections',
         owed'[s] = IF fd = s /\ ingress' # ingress
                    THEN Append(owed[s], AskedId(Last(ingress'))) ELSE owed[s]
  PROVE  Accounted(s)'
<1>0. /\ s \in connections /\ outbound' = outbound /\ fd' = fd /\ egress' = egress
      /\ incoming' = incoming /\ Idle /\ egress_overflow_count' = egress_overflow_count
      /\ ingress' = IF Len(ingress) = IngressCapacity THEN ingress ELSE Append(ingress, msg)
  BY DEF DeliverFrame, submit, registryVars, coreVars, statVars
<1>1. /\ s \in DOMAIN outbound /\ outbound[s] \in Seq(Events) /\ egress \in Seq(Events)
      /\ egress_overflow_count \in Nat /\ ServerTypes /\ IInv /\ ingress \in Seq(Inbound)
      /\ owed[s] \in Seq(Nat)
  BY <1>0, SoundFacts DEF SoundFact, Sound, AnswerInv
<1>2. CASE s # fd
  BY <1>0, <1>2, OtherAccount
<1>3. CASE ingress' = ingress
  <2>1. Due(s)' = Due(s)
    BY <1>0, <1>3 DEF Due, Produced, Pending, Idle
  <2> QED
    BY <1>0, <1>3, <2>1 DEF AnswerInv, Accounted
<1>4. CASE s = fd /\ ingress' # ingress
  <2>1. ingress' = Append(ingress, msg) /\ msg \in Inbound
    BY <1>0, <1>4, ServerAssumption
  <2>2. /\ Last(ingress') = msg /\ AskedId(msg) \in Nat
    BY <1>1, <2>1, AskedType, AppendProperties DEF Last
  <2>3. InFlight = AskedIds(ingress) /\ AskedIds(ingress) \in Seq(Nat)
    BY <1>0, <1>1, InFlightFacts
  <2>4. InFlight' = Append(InFlight, AskedId(msg))
    <3>1. AskedIds(ingress') = Append(AskedIds(ingress), AskedId(msg))
      BY <1>1, <2>1, AskedAppend
    <3>2. AskedIds(ingress') \in Seq(Nat)
      BY <2>2, <2>3, <3>1, AppendProperties
    <3>3. InFlight' = << >> \o AskedIds(ingress')
      BY <1>0 DEF InFlight, Idle
    <3> QED
      BY <2>3, <3>1, <3>2, <3>3, ConcatEmptySeq
  <2> DEFINE a == AnswerIds(outbound[s] \o egress)
  <2>5. a \in Seq(Nat)
    BY <1>1, ConcatProperties, AnswersType, Zenon
  <2>6. Due(s) = a \o InFlight /\ Due(s) \in Seq(Nat)
    BY <1>1, <1>4, DueFacts DEF DueFact
  <2>7. Due(s)' = a \o InFlight'
    BY <1>0, <1>4, DueFactsNext, SoundFactsNext DEF DueFact, SoundFact, Sound
  <2> HIDE DEF a
  <2>8. Due(s)' = Append(Due(s), AskedId(msg))
    BY <2>2, <2>3, <2>4, <2>5, <2>6, <2>7, AppendOfConcat
  <2>9. Balanced(owed[s], Due(s), egress_overflow_count)
    BY <1>0 DEF AnswerInv, Accounted
  <2>10. owed'[s] = Append(owed[s], AskedId(msg))
    BY <1>4, <2>2
  <2> QED
    BY <1>0, <1>1, <2>2, <2>6, <2>8, <2>9, <2>10, BalancedAppend, Zenon DEF Accounted
<1> QED
  BY <1>2, <1>3, <1>4

(* An answer at the end of what was produced instead of at the front of     *)
(* what is pending.                                                         *)
LEMMA AnswerMoves ==
  ASSUME NEW a \in Seq(Nat), NEW x \in Nat, NEW b \in Seq(Nat)
  PROVE  /\ Append(a, x) \o b = a \o (<< x >> \o b)
         /\ Len(a \o (<< x >> \o b)) = Len(a \o b) + 1
<1>1. << x >> \in Seq(Nat) /\ Len(<< x >>) = 1
  OBVIOUS
<1>2. Append(a, x) = a \o << x >>
  BY AppendIsConcat
<1>3. Append(a, x) \o b = a \o (<< x >> \o b)
  BY <1>1, <1>2, ConcatAssociative
<1>4. << x >> \o b \in Seq(Nat) /\ Len(<< x >> \o b) = 1 + Len(b)
  BY <1>1, ConcatProperties
<1>5. Len(a \o (<< x >> \o b)) = Len(a) + (1 + Len(b)) /\ Len(a \o b) = Len(a) + Len(b)
  BY <1>4, ConcatProperties
<1>6. Len(a) \in Nat /\ Len(b) \in Nat
  BY LenProperties
<1> QED
  BY <1>3, <1>5, <1>6

LEMMA RunAccount ==
  ASSUME Sound, Sound', AnswerInv, RunEngine, NEW s \in connections', owed'[s] = owed[s]
  PROVE  Accounted(s)'
<1>0. Process /\ s \in connections /\ outbound' = outbound /\ fd' = fd
  BY DEF RunEngine, pipelineVars, registryVars
<1>1. /\ s \in DOMAIN outbound /\ outbound[s] \in Seq(Events) /\ egress \in Seq(Events)
      /\ egress_overflow_count \in Nat /\ ServerTypes /\ IInv /\ ingress \in Seq(Inbound)
      /\ owed[s] \in Seq(Nat) /\ Balanced(owed[s], Due(s), egress_overflow_count)
  BY <1>0, SoundFacts DEF SoundFact, Sound, AnswerInv, Accounted
<1>2. /\ ServerTypes' /\ IInv' /\ egress' \in Seq(Events) /\ ingress' \in Seq(Inbound)
      /\ s \in DOMAIN outbound'
  BY SoundFactsNext DEF SoundFact, Sound
<1>3. TakesUp \/ \E e \in Events : EmitsTrade(e) \/ Answers(e)
  BY <1>0, <1>1, <1>2, ProcessEffect
<1>4. CASE s # fd
  <2>1. egress_overflow_count' \in {egress_overflow_count, egress_overflow_count + 1}
    BY <1>3 DEF TakesUp, EmitsTrade, Answers, emit
  <2> QED
    BY <1>0, <1>4, <2>1, OtherAccount
<1>5. CASE s = fd
  <2> DEFINE es == outbound[s] \o egress
             a == AnswerIds(es)
  <2>1. es \in Seq(Events) /\ a \in Seq(Nat)
    BY <1>1, ConcatProperties, AnswersType, Zenon
  <2>2. Due(s) = a \o InFlight /\ Due(s) \in Seq(Nat)
    BY <1>1, <1>5, DueFacts DEF DueFact
  <2>3. Due(s)' = AnswerIds(outbound[s] \o egress') \o InFlight' /\ Due(s)' \in Seq(Nat)
    BY <1>0, <1>2, <1>5, DueFactsNext, Zenon DEF DueFact
  <2>4. InFlight' \in Seq(Nat)
    <3>1. Pending(s)' \in Seq(Nat)
      <4>1. AskedIds(ingress') \in Seq(Nat)
        BY <1>2, AskedIdsType
      <4>2. ~ Idle' => incoming'.order_id \in Nat
        BY <1>2, IdsAreNatural DEF IInv, IncomingValid, NewOrders
      <4>3. (IF Idle' THEN << >> ELSE << incoming'.order_id >>) \in Seq(Nat)
        BY <4>2
      <4> QED
        BY <1>0, <1>5, <4>1, <4>3, ConcatProperties DEF Pending
    <3> QED
      BY <1>0, <1>5, <3>1 DEF Pending, InFlight
  <2>5. ASSUME NEW e \in Events, egress' = Append(egress, e)
        PROVE  AnswerIds(outbound[s] \o egress') =
                 IF e.type = "Trade" THEN a ELSE Append(a, e.order_id)
    <3>1. outbound[s] \o egress' = Append(es, e)
      BY <1>1, <2>5, AppendOfConcat
    <3> QED
      BY <2>1, <3>1, AnswersAppend
  <2> HIDE DEF a, es
  <2>6. CASE TakesUp
    BY <1>0, <1>1, <2>2, <2>3, <2>6 DEF TakesUp, Accounted, a, es
  <2>7. ASSUME NEW e \in Events, EmitsTrade(e) PROVE Accounted(s)'
    <3>1. CASE egress' = Append(egress, e) /\ UNCHANGED egress_overflow_count
      <4>1. Due(s)' = Due(s)
        BY <2>2, <2>3, <2>5, <2>7, <3>1, Zenon DEF EmitsTrade
      <4> QED
        BY <1>1, <3>1, <4>1 DEF Accounted
    <3>2. CASE egress' = egress /\ egress_overflow_count' = egress_overflow_count + 1
      <4>1. Due(s)' = Due(s)
        BY <2>2, <2>3, <2>7, <3>2 DEF EmitsTrade, a, es
      <4>2. Balanced(owed[s], Due(s), egress_overflow_count + 1)
        BY <1>1, <2>2, BalancedLoss
      <4> QED
        BY <3>2, <4>1, <4>2 DEF Accounted
    <3> QED
      BY <2>7, <3>1, <3>2 DEF EmitsTrade, emit
  <2>8. ASSUME NEW e \in Events, Answers(e) PROVE Accounted(s)'
    <3>0. e.type # "Trade" /\ e.order_id \in Nat /\ InFlight = << e.order_id >> \o InFlight'
      BY <2>8, AnswerFields DEF Answers
    <3> DEFINE x == e.order_id
               b == InFlight'
    <3>1. /\ Append(a, x) \o b = a \o (<< x >> \o b)
          /\ Len(a \o (<< x >> \o b)) = Len(a \o b) + 1
      BY <2>1, <2>4, <3>0, AnswerMoves
    <3>2. CASE egress' = Append(egress, e) /\ UNCHANGED egress_overflow_count
      <4>1. Due(s)' = Due(s)
        BY <2>2, <2>3, <2>5, <3>0, <3>1, <3>2, Zenon
      <4> QED
        BY <1>1, <3>2, <4>1 DEF Accounted
    <3>3. CASE egress' = egress /\ egress_overflow_count' = egress_overflow_count + 1
      <4>1. Due(s)' = a \o b
        BY <2>3, <3>3 DEF a, es
      <4>2. Len(Due(s)) = Len(Due(s)') + 1
        BY <2>2, <3>0, <3>1, <4>1
      <4>3. Balanced(owed[s], Due(s)', egress_overflow_count + 1)
        BY <1>1, <2>2, <2>3, <4>2, BalancedLoss
      <4> QED
        BY <3>3, <4>3 DEF Accounted
    <3> QED
      BY <2>8, <3>2, <3>3 DEF Answers, emit
  <2> QED
    BY <1>3, <2>6, <2>7, <2>8
<1> QED
  BY <1>4, <1>5

(* Draining moves an event from the ring to the end of the queue.           *)
LEMMA DrainMoves ==
  ASSUME NEW q \in Seq(Events), NEW r \in Seq(Events), r # << >>
  PROVE  Append(q, Head(r)) \o Tail(r) = q \o r
<1> DEFINE h == Head(r)
           t == Tail(r)
<1>1. h \in Events /\ t \in Seq(Events) /\ << h >> \in Seq(Events)
  BY HeadTailProperties, SingletonSeq
<1>2. << h >> \o t = r
  <2>1. /\ Len(t) = Len(r) - 1 /\ \A i \in 1..Len(t) : t[i] = r[i + 1]
    BY HeadTailProperties
  <2>2. Len(r) \in Nat /\ Len(<< h >>) = 1 /\ << h >>[1] = r[1]
    BY LenProperties
  <2> HIDE DEF t, h
  <2>3. /\ << h >> \o t \in Seq(Events) /\ Len(<< h >> \o t) = 1 + Len(t)
        /\ \A i \in 1..1 + Len(t) : (<< h >> \o t)[i] = IF i <= 1 THEN << h >>[i] ELSE t[i - 1]
    BY <1>1, <2>2, ConcatProperties
  <2>4. Len(<< h >> \o t) = Len(r) /\ 1 + Len(t) = Len(r)
    BY <2>1, <2>2, <2>3
  <2>5. ASSUME NEW i \in 1..Len(r) PROVE (<< h >> \o t)[i] = r[i]
    <3>1. CASE i = 1
      <4>1. (<< h >> \o t)[1] = << h >>[1]
        BY <2>3, <2>4, <3>1
      <4> QED
        BY <2>2, <3>1, <4>1
    <3>2. CASE i # 1
      <4>1. ~ (i <= 1) /\ i - 1 \in 1..Len(t) /\ (i - 1) + 1 = i
        BY <2>1, <2>2, <3>2
      <4>2. t[i - 1] = r[i]
        BY <2>1, <4>1
      <4> QED
        BY <2>3, <2>4, <4>1, <4>2
    <3> QED
      BY <3>1, <3>2, Zenon
  <2> QED
    BY <2>3, <2>4, <2>5, SeqEqual
<1>3. Append(q, h) = q \o << h >>
  BY <1>1, AppendIsConcat
<1> QED
  BY <1>1, <1>2, <1>3, ConcatAssociative

LEMMA DrainProduces ==
  ASSUME Sound, Sound', DrainEvent, NEW s \in connections'
  PROVE  /\ s \in connections /\ fd' = fd /\ UNCHANGED <<incoming, ingress, egress_overflow_count>>
         /\ Produced(s)' = Produced(s)
<1>1. /\ egress # << >> /\ egress' = Tail(egress) /\ fd' = fd /\ s \in connections
      /\ UNCHANGED <<incoming, ingress, egress_overflow_count>>
  BY DEF DrainEvent, next_event, registryVars, coreVars, statVars
<1>2. /\ fd \in DOMAIN outbound
      /\ outbound' = [outbound EXCEPT ![fd] = Append(outbound[fd], Head(egress))]
  BY SoundFacts, DrainTypes DEF Sound, SoundFact
<1>3. s \in DOMAIN outbound /\ outbound[s] \in Seq(Events) /\ egress \in Seq(Events)
  BY <1>1, SoundFacts DEF SoundFact
<1>4. CASE s = fd
  <2>1. outbound'[s] = Append(outbound[s], Head(egress))
    BY <1>2, <1>4
  <2>2. Produced(s)' = outbound'[s] \o egress' /\ Produced(s) = outbound[s] \o egress
    BY <1>1, <1>4 DEF Produced
  <2> QED
    BY <1>1, <1>3, <2>1, <2>2, DrainMoves, Zenon
<1>5. CASE s # fd
  BY <1>1, <1>2, <1>3, <1>5 DEF Produced
<1> QED
  BY <1>1, <1>4, <1>5

LEMMA DrainAccount ==
  ASSUME Sound, Sound', AnswerInv, DrainEvent, NEW s \in connections', owed'[s] = owed[s]
  PROVE  Accounted(s)'
<1>1. /\ s \in connections /\ fd' = fd /\ UNCHANGED <<incoming, ingress, egress_overflow_count>>
      /\ Produced(s)' = Produced(s)
  BY DrainProduces
<1>2. Due(s)' = Due(s)
  BY <1>1 DEF Due, Pending, Idle
<1> QED
  BY <1>1, <1>2 DEF AnswerInv, Accounted

(* A send is made with the engine at rest, and takes a prefix of one queue. *)
LEMMA SendEffect ==
  ASSUME Sound, Sound', NEW s \in DOMAIN outbound, NEW n \in 0..Len(outbound[s]), Sends(s, n)
  PROVE  /\ Quiet /\ Quiet' /\ s \in connections /\ connections' = connections
         /\ outbound' = [outbound EXCEPT ![s] = SubSeq(outbound[s], n + 1, Len(outbound[s]))]
         /\ batch' \in {batch, 0} /\ UNCHANGED <<ingress, statVars, ingress_backpressure_count>>
<1>1. /\ UNCHANGED <<coreVars, procVars>> /\ UNCHANGED ingress_backpressure_count
      /\ batch' \in {batch, 0} /\ connections' = connections
      /\ outbound' = [outbound EXCEPT ![s] = SubSeq(outbound[s], n + 1, Len(outbound[s]))]
  BY DEF Sends, WriteSome, Writing, Flush, EndRead, SendSome, EraseSent, countVars, registryVars
<1>2. s \in connections
  BY DEF Sends, WriteSome, Writing, Flush, Sound, LifeInv
<1>3. Quiet
  <2>1. CASE WriteSome(s, n)
    BY <2>1, QuietOutside DEF WriteSome, Writing, Serving, Sound
  <2>2. CASE Flush(n)
    BY <2>2 DEF Flush, EndRead, Sound, StageInv, Quiet
  <2> QED
    BY <2>1, <2>2 DEF Sends
<1>4. Quiet' /\ UNCHANGED <<ingress, statVars>>
  BY <1>1, <1>3 DEF Quiet, Idle, coreVars, procVars, statVars
<1> QED
  BY <1>1, <1>2, <1>3, <1>4

LEMMA SendAccount ==
  ASSUME Sound, Sound', AnswerInv, NEW c \in DOMAIN outbound, NEW n \in 0..Len(outbound[c]),
         SendStep(c, n), NEW s \in connections'
  PROVE  /\ Accounted(s)' /\ owed' \in [Sockets -> Seq(Nat)]
         /\ \A t \in Sockets : t # c => owed'[t] = owed[t]
<1> DEFINE q == outbound[c]
           sent == SubSeq(q, 1, n)
           rest == SubSeq(q, n + 1, Len(q))
<1>1. /\ Quiet /\ Quiet' /\ c \in connections /\ connections' = connections
      /\ outbound' = [outbound EXCEPT ![c] = rest] /\ UNCHANGED statVars
  BY SendEffect DEF SendStep
<1>2. owed' = [owed EXCEPT ![c] = SubSeq(owed[c], Len(AnswerIds(sent)) + 1, Len(owed[c]))]
  BY DEF SendStep
<1>3. /\ s \in Sockets /\ s \in DOMAIN outbound /\ outbound[s] \in Seq(Events)
      /\ c \in Sockets /\ q \in Seq(Events) /\ egress_overflow_count \in Nat
      /\ egress \in Seq(Events) /\ ServerTypes /\ IInv
      /\ egress_overflow_count' = egress_overflow_count
  BY <1>1, SoundFacts DEF SoundFact, Sound, statVars
<1>4. Due(s) = AnswerIds(outbound[s]) /\ Due(c) = AnswerIds(q)
  BY <1>1, <1>3, DueFacts DEF DueFact
<1>5. Due(s)' = AnswerIds(outbound'[s])
  BY <1>1, DueFactsNext, SoundFactsNext DEF DueFact, SoundFact, Sound
<1>6. sent \in Seq(Events) /\ rest \in Seq(Events) /\ sent \o rest = q
  <2>1. Len(q) \in Nat /\ \A i \in 1..Len(q) : q[i] \in Events
    BY <1>3, LenProperties, ElementOfSeq
  <2>2. n \in 0..Len(q) /\ 1 \in 1..Len(q) + 1 /\ n \in 1 - 1..Len(q) /\ Len(q) \in n..Len(q)
    BY <2>1
  <2>3. sent \o rest = SubSeq(q, 1, Len(q))
    BY <1>3, <2>2, ConcatAdjacentSubSeq, Zenon
  <2>4. \A i \in 1..n : q[i] \in Events
    BY <2>1, <2>2
  <2>5. \A i \in (n + 1)..Len(q) : q[i] \in Events
    BY <2>1, <2>2
  <2>6. sent \in Seq(Events) /\ rest \in Seq(Events)
    BY <2>1, <2>2, <2>4, <2>5, SubSeqProperties
  <2> QED
    BY <1>3, <2>3, <2>6, SubSeqFull, Zenon
<1> HIDE DEF q, sent, rest
<1>7. /\ AnswerIds(sent) \in Seq(Nat) /\ AnswerIds(rest) \in Seq(Nat)
      /\ AnswerIds(q) = AnswerIds(sent) \o AnswerIds(rest)
  BY <1>6, AnswersType, AnswersConcat, Zenon
<1>8. owed[c] \in Seq(Nat) /\ Balanced(owed[c], AnswerIds(q), egress_overflow_count)
  BY <1>1, <1>3, <1>4 DEF AnswerInv, Accounted
<1>9. /\ SubSeq(owed[c], Len(AnswerIds(sent)) + 1, Len(owed[c])) \in Seq(Nat)
      /\ Balanced(SubSeq(owed[c], Len(AnswerIds(sent)) + 1, Len(owed[c])), AnswerIds(rest),
                  egress_overflow_count)
  BY <1>3, <1>7, <1>8, BalancedSend
<1>10. owed' \in [Sockets -> Seq(Nat)] /\ \A t \in Sockets : t # c => owed'[t] = owed[t]
  BY <1>2, <1>3, <1>9 DEF AnswerInv
<1>11. CASE s = c
  <2>1. owed'[s] = SubSeq(owed[c], Len(AnswerIds(sent)) + 1, Len(owed[c]))
    BY <1>2, <1>3, <1>11 DEF AnswerInv
  <2>2. outbound'[s] = rest
    BY <1>1, <1>3, <1>11
  <2> QED
    BY <1>3, <1>5, <1>9, <1>10, <2>1, <2>2 DEF Accounted
<1>12. CASE s # c
  <2>1. owed'[s] = owed[s] /\ outbound'[s] = outbound[s]
    BY <1>1, <1>3, <1>10, <1>12
  <2> QED
    BY <1>1, <1>3, <1>4, <1>5, <1>10, <2>1 DEF AnswerInv, Accounted
<1> QED
  BY <1>11, <1>12

-----------------------------------------------------------------------------
(* Trades come before the answer of the order that caused them.             *)

(* Every trade is followed by another one of its order or by the Ack of its *)
(* order; one at the end only while the order, id, is still being matched.  *)
Tied(es, matching, id) ==
  \A i \in 1..Len(es) : es[i].type = "Trade" =>
    IF i = Len(es) THEN matching /\ id = es[i].incoming_id
    ELSE \/ es[i + 1] = Ack(es[i].incoming_id, "Accepted")
         \/ es[i + 1].type = "Trade" /\ es[i + 1].incoming_id = es[i].incoming_id

(* TradesBeforeTheirAck does not say whose order is being matched; that a   *)
(* queue of another connection never ends with a trade is needed when this  *)
(* one starts a new order.                                                  *)
TradesInv ==
  egress_overflow_count = 0 =>
    \A s \in connections : Tied(Produced(s), s = fd /\ ~ Idle, incoming.order_id)

LEMMA TiedTakeUp ==
  ASSUME NEW es, NEW id, Tied(es, FALSE, id), NEW m, NEW next
  PROVE  Tied(es, m, next)
BY DEF Tied

LEMMA TiedAppend ==
  ASSUME NEW es \in Seq(Events), NEW m \in BOOLEAN, NEW id, Tied(es, m, id), NEW e \in Events,
         NEW k \in BOOLEAN, NEW next,
         e.type = "Trade" => e.incoming_id = id /\ k /\ next = id,
         e.type # "Trade" /\ m => e = Ack(id, "Accepted")
  PROVE  Tied(Append(es, e), k, next)
<1> DEFINE ds == Append(es, e)
           n == Len(es)
<1>1. /\ Len(ds) = n + 1 /\ ds[n + 1] = e /\ n \in Nat /\ \A i \in 1..n : ds[i] = es[i]
  BY AppendProperties, LenProperties
<1> HIDE DEF ds, n
<1> SUFFICES ASSUME NEW i \in 1..Len(ds), ds[i].type = "Trade"
             PROVE  IF i = Len(ds) THEN k /\ next = ds[i].incoming_id
                    ELSE \/ ds[i + 1] = Ack(ds[i].incoming_id, "Accepted")
                         \/ ds[i + 1].type = "Trade" /\ ds[i + 1].incoming_id = ds[i].incoming_id
  BY DEF Tied, ds
<1>2. CASE i = n + 1
  BY <1>1, <1>2
<1>3. CASE i = n
  <2>1. i \in 1..n /\ ds[i] = es[i] /\ ds[i + 1] = e /\ i # Len(ds)
    BY <1>1, <1>3
  <2>2. m /\ id = es[i].incoming_id
    BY <1>3, <2>1 DEF Tied, n
  <2> QED
    BY <2>1, <2>2
<1>4. CASE i # n /\ i # n + 1
  <2>1. i \in 1..n /\ i + 1 \in 1..n /\ i # Len(ds) /\ i # Len(es)
    BY <1>1, <1>4 DEF n
  <2>2. ds[i] = es[i] /\ ds[i + 1] = es[i + 1]
    BY <1>1, <2>1
  <2>3. \/ es[i + 1] = Ack(es[i].incoming_id, "Accepted")
        \/ es[i + 1].type = "Trade" /\ es[i + 1].incoming_id = es[i].incoming_id
    BY <2>1, <2>2 DEF Tied, n
  <2> QED
    BY <2>1, <2>2, <2>3
<1> QED
  BY <1>2, <1>3, <1>4

LEMMA TiedSend ==
  ASSUME NEW es \in Seq(Events), NEW m, NEW id, Tied(es, m, id), NEW n \in 0..Len(es)
  PROVE  Tied(SubSeq(es, n + 1, Len(es)), m, id)
<1> DEFINE L == Len(es)
           ds == SubSeq(es, n + 1, L)
<1>1. L \in Nat /\ n \in 0..L /\ \A i \in (n + 1)..L : es[i] \in Events
  BY LenProperties, ElementOfSeq
<1>2. /\ Len(ds) = IF n + 1 <= L THEN L - (n + 1) + 1 ELSE 0
      /\ \A i \in 1..(L - (n + 1) + 1) : ds[i] = es[(n + 1) + i - 1]
  BY <1>1, SubSeqProperties
<1> HIDE DEF ds, L
<1>3. Len(ds) = L - n /\ \A i \in 1..(L - n) : ds[i] = es[n + i]
  BY <1>1, <1>2
<1> SUFFICES ASSUME NEW i \in 1..Len(ds), ds[i].type = "Trade"
             PROVE  IF i = Len(ds) THEN m /\ id = ds[i].incoming_id
                    ELSE \/ ds[i + 1] = Ack(ds[i].incoming_id, "Accepted")
                         \/ ds[i + 1].type = "Trade" /\ ds[i + 1].incoming_id = ds[i].incoming_id
  BY DEF Tied, ds, L
<1>4. n + i \in 1..L /\ i \in 1..(L - n) /\ (i = Len(ds) <=> n + i = L)
  BY <1>1, <1>3
<1>5. ds[i] = es[n + i]
  BY <1>3, <1>4
<1>6. IF n + i = L THEN m /\ id = es[n + i].incoming_id
      ELSE \/ es[(n + i) + 1] = Ack(es[n + i].incoming_id, "Accepted")
           \/ es[(n + i) + 1].type = "Trade"
              /\ es[(n + i) + 1].incoming_id = es[n + i].incoming_id
  BY <1>4, <1>5 DEF Tied, L
<1>7. CASE i = Len(ds)
  BY <1>4, <1>5, <1>6, <1>7
<1>8. CASE i # Len(ds)
  <2>1. i + 1 \in 1..(L - n) /\ n + (i + 1) = (n + i) + 1
    BY <1>1, <1>3, <1>4, <1>8
  <2>2. ds[i + 1] = es[(n + i) + 1]
    BY <1>3, <2>1
  <2> QED
    BY <1>4, <1>5, <1>6, <1>8, <2>2
<1> QED
  BY <1>7, <1>8

LEMMA RestingTrades ==
  ASSUME Sound, Sound', TradesInv, RestingStep
  PROVE  TradesInv'
<1> SUFFICES ASSUME egress_overflow_count' = 0, NEW s \in connections'
             PROVE  Tied(Produced(s), s = fd /\ ~ Idle, incoming.order_id)'
  BY DEF TradesInv
<1>1. /\ s \in DOMAIN outbound' /\ Produced(s)' = outbound'[s]
  BY DueFactsNext, SoundFactsNext DEF DueFact, SoundFact, Sound, RestingStep
<1>2. egress_overflow_count = 0 /\ Idle /\ Idle'
  BY DEF RestingStep, Quiet, statVars
<1>3. CASE s \in connections
  <2>1. /\ s \in DOMAIN outbound /\ outbound'[s] = outbound[s] /\ Produced(s) = outbound[s]
    BY <1>1, <1>3, DueFacts, SoundFacts DEF DueFact, SoundFact, Sound, RestingStep
  <2>2. Tied(Produced(s), FALSE, incoming.order_id)
    BY <1>2, <1>3, Zenon DEF TradesInv
  <2> QED
    BY <1>1, <1>2, <2>1, <2>2, TiedTakeUp, Zenon
<1>4. CASE s \notin connections
  <2>1. s \notin DOMAIN outbound /\ outbound'[s] = << >>
    BY <1>1, <1>4 DEF RestingStep
  <2>2. Len(Produced(s)') = 0
    BY <1>1, <2>1
  <2> QED
    BY <2>2 DEF Tied
<1> QED
  BY <1>3, <1>4

(* A step that changes neither what was produced nor the matched order.     *)
LEMMA SameTrades ==
  ASSUME TradesInv, connections' \subseteq connections, UNCHANGED <<fd, incoming>>,
         egress_overflow_count' = egress_overflow_count,
         \A s \in connections' : Produced(s)' = Produced(s)
  PROVE  TradesInv'
<1> SUFFICES ASSUME egress_overflow_count' = 0, NEW s \in connections'
             PROVE  Tied(Produced(s), s = fd /\ ~ Idle, incoming.order_id)'
  BY DEF TradesInv
<1>1. Tied(Produced(s), s = fd /\ ~ Idle, incoming.order_id)
  BY DEF TradesInv
<1>2. (s = fd /\ ~ Idle)' = (s = fd /\ ~ Idle)
  BY DEF Idle
<1> QED
  BY <1>1, <1>2

LEMMA RunTrades ==
  ASSUME Sound, Sound', TradesInv, RunEngine
  PROVE  TradesInv'
<1> SUFFICES ASSUME egress_overflow_count' = 0, NEW s \in connections'
             PROVE  Tied(Produced(s), s = fd /\ ~ Idle, incoming.order_id)'
  BY DEF TradesInv
<1>0. Process /\ s \in connections /\ outbound' = outbound /\ fd' = fd
  BY DEF RunEngine, pipelineVars, registryVars
<1>1. /\ s \in DOMAIN outbound /\ outbound[s] \in Seq(Events) /\ egress \in Seq(Events)
      /\ egress_overflow_count \in Nat /\ ServerTypes /\ IInv /\ ingress \in Seq(Inbound)
  BY <1>0, SoundFacts DEF SoundFact, Sound
<1>2. TakesUp \/ \E e \in Events : EmitsTrade(e) \/ Answers(e)
  BY <1>0, <1>1, SoundFactsNext, ProcessEffect DEF SoundFact
<1>3. egress_overflow_count = 0 /\ egress_overflow_count' = egress_overflow_count
  <2>1. egress_overflow_count' \in {egress_overflow_count, egress_overflow_count + 1}
    BY <1>2 DEF TakesUp, EmitsTrade, Answers, emit
  <2> QED
    BY <1>1, <2>1
<1>4. Tied(Produced(s), s = fd /\ ~ Idle, incoming.order_id)
  BY <1>0, <1>3 DEF TradesInv
<1>5. CASE s # fd
  <2>1. Produced(s)' = Produced(s)
    BY <1>0, <1>5 DEF Produced
  <2>2. Tied(Produced(s), FALSE, incoming.order_id)
    BY <1>4, <1>5
  <2>3. Tied(Produced(s), FALSE, incoming'.order_id)
    BY <2>2, TiedTakeUp, Zenon
  <2>4. (s = fd /\ ~ Idle)' = FALSE
    BY <1>0, <1>5
  <2> QED
    BY <2>1, <2>3, <2>4
<1>6. CASE s = fd
  <2> DEFINE es == Produced(s)
  <2>1. es = outbound[s] \o egress /\ Produced(s)' = outbound[s] \o egress'
    BY <1>0, <1>6 DEF Produced
  <2>2. es \in Seq(Events)
    BY <1>1, <2>1, ConcatProperties
  <2>3. \A e \in Events : egress' = Append(egress, e) => Produced(s)' = Append(es, e)
    BY <1>1, <2>1, AppendOfConcat
  <2>4. Tied(es, ~ Idle, incoming.order_id)
    BY <1>4, <1>6
  <2>5. (s = fd /\ ~ Idle)' = (~ Idle')
    BY <1>0, <1>6
  <2> HIDE DEF es
  <2>6. CASE TakesUp
    <3>1. Produced(s)' = es /\ Idle
      BY <2>1, <2>6 DEF TakesUp
    <3>2. Tied(es, FALSE, incoming.order_id)
      BY <2>4, <3>1
    <3>3. Tied(es, ~ Idle', incoming'.order_id)
      BY <3>2, TiedTakeUp
    <3> QED
      BY <2>5, <3>1, <3>3
  <2>7. ASSUME NEW e \in Events, EmitsTrade(e) PROVE Tied(Produced(s)', ~ Idle', incoming'.order_id)
    <3>1. egress' = Append(egress, e)
      BY <1>1, <1>3, <2>7 DEF EmitsTrade, emit
    <3>2. /\ ~ Idle /\ ~ Idle' /\ incoming' = incoming
          /\ e.type = "Trade" /\ e.incoming_id = incoming.order_id
      BY <2>7 DEF EmitsTrade, Idle
    <3>3. Tied(es, TRUE, incoming.order_id)
      BY <2>4, <3>2
    <3>4. Tied(Append(es, e), TRUE, incoming.order_id)
      BY <2>2, <3>2, <3>3, TiedAppend
    <3> QED
      BY <2>3, <3>1, <3>2, <3>4, Zenon
  <2>8. ASSUME NEW e \in Events, Answers(e) PROVE Tied(Produced(s)', ~ Idle', incoming'.order_id)
    <3>1. egress' = Append(egress, e)
      BY <1>1, <1>3, <2>8 DEF Answers, emit
    <3>2. /\ Idle' /\ e.type # "Trade"
          /\ ~ Idle => e = Ack(incoming.order_id, "Accepted")
      BY <2>8 DEF Answers
    <3>3. Tied(Append(es, e), FALSE, incoming'.order_id)
      <4>1. CASE Idle
        <5>1. Tied(es, FALSE, incoming.order_id)
          BY <2>4, <4>1
        <5> QED
          BY <2>2, <3>2, <5>1, TiedAppend
      <4>2. CASE ~ Idle
        <5>1. Tied(es, TRUE, incoming.order_id)
          BY <2>4, <4>2, Zenon
        <5> QED
          BY <2>2, <3>2, <4>2, <5>1, TiedAppend
      <4> QED
        BY <4>1, <4>2
    <3>4. (~ Idle') = FALSE
      BY <3>2
    <3> QED
      BY <2>3, <3>1, <3>3, <3>4, Zenon
  <2> QED
    BY <1>2, <2>5, <2>6, <2>7, <2>8
<1> QED
  BY <1>5, <1>6

LEMMA SendTrades ==
  ASSUME Sound, Sound', TradesInv, NEW c \in DOMAIN outbound, NEW n \in 0..Len(outbound[c]),
         Sends(c, n)
  PROVE  TradesInv'
<1> SUFFICES ASSUME egress_overflow_count' = 0, NEW s \in connections'
             PROVE  Tied(Produced(s), s = fd /\ ~ Idle, incoming.order_id)'
  BY DEF TradesInv
<1>1. /\ Quiet /\ Quiet' /\ connections' = connections
      /\ outbound' = [outbound EXCEPT ![c] = SubSeq(outbound[c], n + 1, Len(outbound[c]))]
      /\ egress_overflow_count = 0
  BY SendEffect DEF statVars
<1>2. Produced(s)' = outbound'[s]
  BY <1>1, DueFactsNext, SoundFactsNext DEF DueFact, SoundFact, Sound
<1>3. s \in DOMAIN outbound /\ Produced(s) = outbound[s] /\ outbound[s] \in Seq(Events)
  BY <1>1, DueFacts, SoundFacts DEF DueFact, SoundFact, Sound
<1>4. Idle /\ Idle'
  BY <1>1 DEF Quiet
<1>5. Tied(outbound[s], FALSE, incoming.order_id)
  BY <1>1, <1>3, <1>4, Zenon DEF TradesInv
<1>6. Tied(outbound'[s], FALSE, incoming.order_id)
  <2>1. CASE s = c
    BY <1>1, <1>3, <1>5, <2>1, TiedSend, Zenon
  <2>2. CASE s # c
    BY <1>1, <1>3, <1>5, <2>2
  <2> QED
    BY <2>1, <2>2
<1> QED
  BY <1>2, <1>4, <1>6, TiedTakeUp, Zenon

-----------------------------------------------------------------------------
(* The invariants together.                                                 *)

LEMMA MCStepIsServerStep == [MCNext]_mcVars => [ServerNext]_allVars
BY Zenon DEF MCNext, OtherStep, SendStep, ServerNext, mcVars

LEMMA SoundInit == ServerInit => Sound /\ Delivered = 0
<1> SUFFICES ASSUME ServerInit PROVE Sound /\ Delivered = 0
  OBVIOUS
<1>1. ProcInit /\ outbound = << >> /\ batch = 0 /\ ingress_backpressure_count = 0
  BY DEF ServerInit, PipelineInit
<1>2. /\ processed_count = 0 /\ egress_overflow_count = 0 /\ ingress = << >>
  BY <1>1 DEF ProcInit
<1>3. ServerTypes /\ Delivered = 0
  BY <1>1, <1>2, EmptySeq DEF ServerTypes, Delivered
<1> QED
  BY <1>1, <1>3, ProcInvInit, StageInvInit, LifeInvInit DEF Sound

LEMMA SoundNext == Sound /\ [ServerNext]_allVars => Sound'
<1> SUFFICES ASSUME Sound, [ServerNext]_allVars PROVE Sound'
  OBVIOUS
<1>1. ProcInv' /\ StageInv' /\ LifeInv'
  BY ServerStepIsProcStep, ProcInvNext, StageInvNext, LifeInvNext DEF Sound
<1>2. ServerTypes /\ StageInv /\ LifeInv /\ IInv /\ IInv' /\ egress \in Seq(Events)
  BY <1>1 DEF Sound, ProcInv
<1>3. CASE Start \/ Select \/ Stop \/ Steps
  <2>1. ASSUME NEW msg \in Commands, DeliverFrame(msg) PROVE ServerTypes'
    BY <1>2, <2>1, DeliverTypes
  <2> QED
    BY <1>1, <1>2, <1>3, <2>1, StepKinds, RestingStepTypes, StageStepTypes, RunTypes, DrainTypes
       DEF Sound
<1>4. ASSUME NEW s \in DOMAIN outbound, NEW n \in 0..Len(outbound[s]), Sends(s, n)
      PROVE  ServerTypes'
  <2>1. /\ outbound' = [outbound EXCEPT ![s] = SubSeq(outbound[s], n + 1, Len(outbound[s]))]
        /\ batch' \in {batch, 0} /\ UNCHANGED <<ingress, statVars>>
        /\ UNCHANGED ingress_backpressure_count
    BY <1>4 DEF Sends, WriteSome, Writing, Flush, EndRead, SendSome, EraseSent, countVars,
       procVars, statVars
  <2>2. ASSUME NEW c \in DOMAIN outbound'
        PROVE  c \in DOMAIN outbound /\ \E k \in 0..Len(outbound[c]) :
                 outbound'[c] = SubSeq(outbound[c], k + 1, Len(outbound[c]))
    BY <1>2, <2>1, WholeQueue
  <2> QED
    BY <1>2, <2>1, <2>2, QueuesKeepType
<1>5. CASE UNCHANGED allVars
  BY <1>1, <1>2, <1>5 DEF allVars, procVars, serverVars, pipelineVars, countVars, ServerTypes,
     Sound
<1> QED
  BY <1>1, <1>3, <1>4, <1>5 DEF ServerNext, Sound

LEMMA AnswerInvInit == MCInit => AnswerInv
<1> SUFFICES ASSUME MCInit PROVE AnswerInv
  OBVIOUS
<1>1. /\ connections = {} /\ frames = 0 /\ owed = [s \in Sockets |-> << >>]
      /\ Delivered = 0
  BY SoundInit DEF MCInit, ServerInit, PipelineInit
<1>2. << >> \in Seq(Nat)
  BY EmptySeq
<1> QED
  BY <1>1, <1>2 DEF AnswerInv

LEMMA OtherStepKeeps ==
  ASSUME Sound, Sound', AnswerInv, TradesInv, OtherStep
  PROVE  AnswerInv' /\ TradesInv'
<1>0. /\ batch \in Nat /\ frames \in Nat /\ owed \in [Sockets -> Seq(Nat)]
      /\ frames = Delivered /\ StageInv /\ LifeInv /\ ServerTypes /\ IInv /\ IInv'
      /\ egress \in Seq(Events)
  BY DEF Sound, ProcInv, ServerTypes, AnswerInv
<1>1. /\ connections' \subseteq Sockets /\ << >> \in Seq(Nat)
  BY SoundFactsNext, EmptySeq DEF SoundFact
<1>2. /\ Start \/ Select \/ Stop \/ Steps
      /\ frames' = frames + IF Delivers THEN 1 ELSE 0
      /\ owed' = [s \in Sockets |->
                    IF s \notin connections' THEN << >>
                    ELSE IF Delivers /\ fd = s /\ ingress' # ingress
                    THEN Append(owed[s], AskedId(Last(ingress'))) ELSE owed[s]]
  BY DEF OtherStep
<1>a. ASSUME batch' \in {batch, 0}, Delivered' = Delivered,
             \A s \in connections' : owed'[s] = owed[s] => Accounted(s)'
      PROVE  AnswerInv'
  <2>1. ~ Delivers
    BY <1>0, <1>a DEF Delivers
  <2>2. frames' = frames
    BY <1>0, <1>2, <2>1
  <2>3. owed' = [s \in Sockets |-> IF s \notin connections' THEN << >> ELSE owed[s]]
    BY <1>2, <2>1
  <2> QED
    BY <1>0, <1>1, <1>a, <2>2, <2>3, Zenon DEF AnswerInv
<1>3. CASE RestingStep
  BY <1>0, <1>3, <1>a, RestingStepTypes, RestingAccount, RestingTrades DEF RestingStep
<1>4. CASE StageStep
  <2>1. \A s \in connections' : Produced(s)' = Produced(s)
    BY <1>4 DEF StageStep, procVars, Produced
  <2>2. /\ connections' \subseteq connections /\ UNCHANGED <<fd, incoming>> /\ batch' = batch
        /\ egress_overflow_count' = egress_overflow_count
    BY <1>4 DEF StageStep, procVars, coreVars
  <2> QED
    BY <1>0, <1>4, <1>a, <2>1, <2>2, StageStepTypes, StageAccount, SameTrades
<1>5. ASSUME NEW msg \in Commands, DeliverFrame(msg) PROVE AnswerInv' /\ TradesInv'
  <2>1. Delivers /\ Delivered' = Delivered + 1
    BY <1>0, <1>5, DeliverTypes DEF Delivers, DeliverFrame
  <2>2. frames' = Delivered' /\ frames' \in Nat
    BY <1>0, <1>2, <2>1
  <2>3. /\ connections' = connections /\ UNCHANGED <<fd, incoming, outbound, egress>>
        /\ egress_overflow_count' = egress_overflow_count
    BY <1>5 DEF DeliverFrame, submit, registryVars, coreVars, statVars
  <2>4. owed' = [s \in Sockets |->
                   IF s \notin connections' THEN << >>
                   ELSE IF fd = s /\ ingress' # ingress
                   THEN Append(owed[s], AskedId(Last(ingress'))) ELSE owed[s]]
    BY <1>2, <2>1
  <2>5. ASSUME NEW s \in connections' PROVE Accounted(s)'
    <3>1. owed'[s] = IF fd = s /\ ingress' # ingress
                     THEN Append(owed[s], AskedId(Last(ingress'))) ELSE owed[s]
      BY <1>1, <2>4
    <3> QED
      BY <1>5, <3>1, DeliverAccount
  <2>6. owed' \in [Sockets -> Seq(Nat)]
    <3>1. ingress' # ingress => AskedId(Last(ingress')) \in Nat
      <4>1. ingress' # ingress => ingress' = Append(ingress, msg)
        BY <1>5 DEF DeliverFrame, submit
      <4>2. msg \in Inbound /\ ingress \in Seq(Inbound)
        BY <1>0, ServerAssumption DEF ServerTypes
      <4>3. Last(Append(ingress, msg)) = msg
        BY <4>2, AppendProperties DEF Last
      <4> QED
        BY <4>1, <4>2, <4>3, AskedType, Zenon
    <3>2. ASSUME NEW s \in Sockets, ingress' # ingress
          PROVE  Append(owed[s], AskedId(Last(ingress'))) \in Seq(Nat)
      <4>1. owed[s] \in Seq(Nat)
        BY <1>0
      <4> QED
        BY <3>1, <3>2, <4>1, AppendProperties
    <3> QED
      BY <1>0, <1>1, <2>4, <3>2
  <2>7. \A s \in Sockets \ connections' : owed'[s] = << >>
    BY <2>4
  <2>8. TradesInv'
    BY <2>3, SameTrades DEF Produced
  <2> QED
    BY <2>2, <2>5, <2>6, <2>7, <2>8 DEF AnswerInv
<1>6. CASE RunEngine
  <2>1. batch' = batch
    BY <1>6 DEF RunEngine, pipelineVars
  <2> QED
    BY <1>0, <1>6, <1>a, <2>1, RunTypes, RunAccount, RunTrades
<1>7. CASE DrainEvent
  <2>1. batch' = batch /\ connections' = connections
    BY <1>7 DEF DrainEvent, registryVars
  <2>2. \A s \in connections' : Produced(s)' = Produced(s)
    BY <1>7, DrainProduces
  <2>3. /\ UNCHANGED <<fd, incoming>> /\ egress_overflow_count' = egress_overflow_count
    BY <1>7 DEF DrainEvent, next_event, coreVars, statVars
  <2>4. TradesInv'
    BY <2>1, <2>2, <2>3, SameTrades
  <2> QED
    BY <1>0, <1>7, <1>a, <2>1, <2>4, DrainTypes, DrainAccount
<1> QED
  BY <1>0, <1>2, <1>3, <1>4, <1>5, <1>6, <1>7, StepKinds

LEMMA SendStepKeeps ==
  ASSUME Sound, Sound', AnswerInv, TradesInv, NEW c \in DOMAIN outbound,
         NEW n \in 0..Len(outbound[c]), SendStep(c, n)
  PROVE  AnswerInv' /\ TradesInv'
<1>1. Sends(c, n) /\ frames' = frames
  BY DEF SendStep
<1>2. /\ UNCHANGED <<ingress, statVars>> /\ UNCHANGED ingress_backpressure_count
      /\ connections' = connections /\ c \in connections
  BY <1>1, SendEffect DEF Sends, WriteSome, Writing, countVars, procVars
<1>3. frames' \in Nat /\ frames' = Delivered'
  BY <1>1, <1>2 DEF AnswerInv, Delivered, statVars
<1>4. owed' \in [Sockets -> Seq(Nat)]
  BY <1>2, SendAccount
<1>5. \A s \in Sockets \ connections' : owed'[s] = << >>
  BY <1>2, SendAccount DEF AnswerInv
<1>6. \A s \in connections' : Accounted(s)'
  BY SendAccount
<1> QED
  BY <1>1, <1>3, <1>4, <1>5, <1>6, SendTrades DEF AnswerInv

(* Everything that is known of the server and of its answers.               *)
AccountInv == Sound /\ AnswerInv /\ TradesInv

LEMMA AccountInit == MCInit => AccountInv
<1> SUFFICES ASSUME MCInit PROVE AccountInv
  OBVIOUS
<1>1. connections = {}
  BY DEF MCInit, ServerInit, PipelineInit
<1>2. TradesInv
  BY <1>1 DEF TradesInv
<1> QED
  BY <1>2, SoundInit, AnswerInvInit DEF MCInit, AccountInv

LEMMA AccountNext == AccountInv /\ [MCNext]_mcVars => AccountInv'
<1> SUFFICES ASSUME AccountInv, [MCNext]_mcVars PROVE AccountInv'
  OBVIOUS
<1>1. Sound /\ Sound' /\ AnswerInv /\ TradesInv
  BY MCStepIsServerStep, SoundNext DEF AccountInv
<1>2. CASE OtherStep
  BY <1>1, <1>2, OtherStepKeeps DEF AccountInv
<1>3. ASSUME NEW s \in DOMAIN outbound, NEW n \in 0..Len(outbound[s]), SendStep(s, n)
      PROVE  AccountInv'
  BY <1>1, <1>3, SendStepKeeps DEF AccountInv
<1>4. CASE UNCHANGED mcVars
  <2>1. /\ UNCHANGED <<frames, owed, connections, fd, incoming, outbound, egress, ingress>>
        /\ UNCHANGED <<statVars, ingress_backpressure_count>>
    BY <1>4 DEF mcVars, allVars, procVars, serverVars, pipelineVars, countVars, coreVars,
       registryVars, statVars
  <2>2. Idle' = Idle
    BY <2>1 DEF Idle
  <2>3. TradesInv'
    BY <1>1, <2>1, <2>2 DEF TradesInv, Produced, statVars
  <2>4. Delivered' = Delivered
    BY <2>1 DEF Delivered, statVars
  <2>5. ASSUME NEW s \in connections' PROVE Accounted(s)'
    BY <1>1, <2>1, <2>2, <2>5
       DEF AnswerInv, Accounted, Due, Produced, Pending, statVars
  <2>6. AnswerInv'
    BY <1>1, <2>1, <2>4, <2>5 DEF AnswerInv
  <2> QED
    BY <1>1, <2>3, <2>6 DEF AccountInv
<1> QED
  BY <1>2, <1>3, <1>4 DEF MCNext

LEMMA AccountAlways == MCSpec => []AccountInv
BY AccountInit, AccountNext, PTL DEF MCSpec

-----------------------------------------------------------------------------

(* While the egress ring refuses nothing, a connection is owed exactly the  *)
(* answers that are queued for it, then those of the commands still in the  *)
(* engine, in that order: whatever the clients send, however reads and      *)
(* sends are cut, and for rings and tables of every size.                   *)
THEOREM ServerAnswersEach == MCSpec => []OneAnswerEach
<1>1. AccountInv => OneAnswerEach
  <2> SUFFICES ASSUME AccountInv, egress_overflow_count = 0, NEW s \in connections
               PROVE  owed[s] = AnswerIds(Produced(s)) \o Pending(s)
    BY DEF OneAnswerEach
  <2> QED
    BY DEF AccountInv, AnswerInv, Accounted, Balanced, Due
<1> QED
  BY <1>1, AccountAlways, PTL

(* The trades of an order are queued before its Ack, and nothing of another *)
(* order comes between them, while the egress ring refuses nothing.         *)
THEOREM ServerTradesFirst == MCSpec => []TradesBeforeTheirAck
<1>1. AccountInv => TradesBeforeTheirAck
  <2> SUFFICES ASSUME AccountInv, egress_overflow_count = 0, NEW s \in connections
               PROVE  Tied(Produced(s), ~ Idle, incoming.order_id)
    BY DEF TradesBeforeTheirAck, Tied
  <2> QED
    BY DEF AccountInv, TradesInv, Tied
<1> QED
  BY <1>1, AccountAlways, PTL

(* Every delivered frame is processed, waiting or counted as refused, and a *)
(* connection misses at most as many answers as the egress ring counted.    *)
THEOREM ServerCountsLosses == MCSpec => []LossIsCounted
<1>1. AccountInv => LossIsCounted
  <2> SUFFICES ASSUME AccountInv PROVE LossIsCounted
    OBVIOUS
  <2>1. frames = processed_count + Len(ingress) + ingress_backpressure_count
    BY DEF AccountInv, AnswerInv, Delivered
  <2>2. ASSUME NEW s \in connections
        PROVE  Len(owed[s]) - Len(AnswerIds(Produced(s))) - Len(Pending(s))
                 \in 0..egress_overflow_count
    <3>1. s \in DOMAIN outbound /\ s \in Sockets /\ egress_overflow_count \in Nat
      BY SoundFacts DEF SoundFact, AccountInv
    <3>2. /\ Due(s) \in Seq(Nat) /\ Produced(s) \in Seq(Events)
          /\ Len(Due(s)) = Len(AnswerIds(Produced(s))) + Len(Pending(s))
      BY <3>1, DueFacts, SoundFacts DEF DueFact, SoundFact, AccountInv, Sound
    <3>3. Balanced(owed[s], Due(s), egress_overflow_count)
      BY DEF AccountInv, AnswerInv, Accounted
    <3>4. AnswerIds(Produced(s)) \in Seq(Nat)
      BY <3>2, AnswersType
    <3> QED
      BY <3>1, <3>2, <3>3, <3>4 DEF Balanced, AccountInv, AnswerInv
  <2> QED
    BY <2>1, <2>2 DEF LossIsCounted
<1> QED
  BY <1>1, AccountAlways, PTL

=============================================================================
