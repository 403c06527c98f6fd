------------------------ MODULE GatewayServerProofs ------------------------
(***************************************************************************)
(* The gateway server in front of the engine, in every interleaving, over   *)
(* broken connections, timeouts, restarts of the engine and crashes of the  *)
(* gateway: what the engine may say to the gateway, the state a connection  *)
(* starts from, and that no line of the journal is ever lost.               *)
(***************************************************************************)
EXTENDS MCGatewayServer, EngineProofs

-----------------------------------------------------------------------------
(* Sequences of anything.                                                   *)

Listed(s) == s \in Seq({s[i] : i \in DOMAIN s})

LEMMA ListedIn ==
  ASSUME NEW S, NEW s \in Seq(S)
  PROVE  Listed(s)
<1>1. DOMAIN s = 1..Len(s) /\ Len(s) \in Nat
  BY LenProperties
<1>2. s \in [1..Len(s) -> {s[i] : i \in DOMAIN s}]
  BY <1>1
<1> QED
  BY <1>1, <1>2 DEF Listed

LEMMA ListedAppend ==
  ASSUME NEW s, Listed(s), NEW x
  PROVE  /\ Listed(Append(s, x)) /\ Len(s) \in Nat /\ Len(Append(s, x)) = Len(s) + 1
         /\ \A i \in 1..Len(s) : Append(s, x)[i] = s[i]
         /\ Append(s, x)[Len(s) + 1] = x
<1> DEFINE S == {s[i] : i \in DOMAIN s} \cup {x}
<1>1. s \in Seq(S)
  <2>1. s \in Seq({s[i] : i \in DOMAIN s})
    BY DEF Listed
  <2> QED
    BY <2>1
<1>2. Append(s, x) \in Seq(S)
  BY <1>1, AppendProperties
<1> HIDE DEF S
<1>3. x \in S
  BY DEF S
<1>4. Len(s) \in Nat
  BY <1>1, LenProperties
<1>5. /\ Len(Append(s, x)) = Len(s) + 1
      /\ \A i \in 1..Len(s) : Append(s, x)[i] = s[i]
      /\ Append(s, x)[Len(s) + 1] = x
  BY <1>1, <1>3, AppendProperties
<1>6. Listed(Append(s, x))
  BY <1>2, ListedIn, Zenon
<1> QED
  BY <1>4, <1>5, <1>6

LEMMA ListedTail ==
  ASSUME NEW s, Listed(s), s # << >>
  PROVE  /\ Listed(Tail(s)) /\ Len(s) \in Nat /\ Len(s) > 0 /\ Len(Tail(s)) = Len(s) - 1
         /\ \A i \in 1..(Len(s) - 1) : Tail(s)[i] = s[i + 1]
         /\ Head(s) = s[1]
<1> DEFINE S == {s[i] : i \in DOMAIN s}
<1>1. s \in Seq(S)
  BY DEF Listed
<1> HIDE DEF S
<1>2. Len(s) \in Nat /\ Len(s) # 0
  BY <1>1, LenProperties, EmptySeq
<1>3. /\ Tail(s) \in Seq(S) /\ Len(Tail(s)) = Len(s) - 1 /\ Head(s) = s[1]
      /\ \A i \in 1..(Len(s) - 1) : Tail(s)[i] = s[i + 1]
  BY <1>1, HeadTailProperties
<1>4. Listed(Tail(s))
  BY <1>3, ListedIn, Zenon
<1> QED
  BY <1>2, <1>3, <1>4

LEMMA ListedFront ==
  ASSUME NEW s, Listed(s), s # << >>
  PROVE  Listed(Front(s))
<1> DEFINE S == {s[i] : i \in DOMAIN s}
<1>1. s \in Seq(S)
  BY DEF Listed
<1> HIDE DEF S
<1>2. Front(s) \in Seq(S)
  BY <1>1 DEF Front
<1> QED
  BY <1>2, ListedIn

LEMMA ListedEmpty == Listed(<< >>)
BY EmptySeq, ListedIn, Zenon

-----------------------------------------------------------------------------
(* What a step of process_all says to the gateway.                          *)

(* An Ack of the order being matched, or of the cancellation taken up.      *)
Confirms(e) ==
  \/ ~ Idle /\ e = Ack(incoming.order_id, "Accepted")
  \/ /\ ingress # << >> /\ Head(ingress).type = "CancelOrder"
     /\ e = Ack(Head(ingress).order_id, "Cancelled")

(* The command the engine works on stays, is the next one, or is done.      *)
Advances ==
  \/ ingress' = ingress /\ (incoming' = incoming \/ Idle')
  \/ /\ ingress # << >> /\ ingress' = Tail(ingress)
     /\ \/ incoming' = incoming
        \/ incoming' = Head(ingress) /\ Head(ingress).type = "NewOrder"

LEMMA EngineSays ==
  ASSUME IInv, egress \in Seq(Events), Process
  PROVE  /\ egress' \in Seq(Events) /\ Advances
         /\ \/ egress' = egress
            \/ \E e \in Events : egress' = Append(egress, e)
                                 /\ (e.type = "Ack" => Confirms(e))
<1>a. ASSUME NEW e \in Events, emit(e), e.type = "Ack" => Confirms(e)
      PROVE  /\ egress' \in Seq(Events)
             /\ \/ egress' = egress
                \/ \E d \in Events : egress' = Append(egress, d)
                                     /\ (d.type = "Ack" => Confirms(d))
  BY <1>a, AppendProperties DEF emit
<1>b. ASSUME Dequeue, UNCHANGED incoming PROVE Advances
  BY <1>b DEF Dequeue, Advances
<1>1. CASE BeginNewOrder
  <2>1. /\ ingress # << >> /\ ingress' = Tail(ingress) /\ egress' = egress
        /\ Head(ingress) \in NewOrders /\ incoming' = Head(ingress)
    BY <1>1 DEF BeginNewOrder, Dequeue, StartNewOrder
  <2>2. Head(ingress).type = "NewOrder"
    BY <2>1 DEF NewOrders
  <2> QED
    BY <2>1, <2>2 DEF Advances
<1>2. CASE EmitTrade
  <2>1. MatchOne /\ emit(Last(emitted')) /\ ingress' = ingress
    BY <1>2 DEF EmitTrade
  <2>2. Last(emitted').type = "Trade" /\ Last(emitted') \in Events
    BY <2>1, MatchEmits
  <2>3. incoming' = incoming
    BY <2>1 DEF MatchOne
  <2> QED
    BY <1>a, <2>1, <2>2, <2>3 DEF Advances
<1>3. CASE EndNewOrder
  <2> DEFINE e == Ack(incoming.order_id, "Accepted")
  <2>1. ~ Idle /\ Idle' /\ emit(e) /\ ingress' = ingress
    BY <1>3 DEF EndNewOrder, RestRemainder, Return, Idle
  <2>2. incoming.order_id \in Ids
    BY <2>1 DEF IInv, IncomingValid, NewOrders
  <2>3. e \in Events
    BY <2>2, AckIsEvent DEF AckKinds
  <2>4. Confirms(e)
    BY <2>1 DEF Confirms
  <2> QED
    BY <1>a, <2>1, <2>3, <2>4 DEF Advances
<1>4. CASE InvalidNewOrder
  <2> DEFINE m == Head(ingress)
  <2>1. Dequeue /\ m \in NewOrders /\ RejectNewOrder(m) /\ emit(Last(emitted'))
    BY <1>4 DEF InvalidNewOrder
  <2>2. m.order_id \in Ids /\ InvalidReason(m) \in RejectReasons
    BY <2>1, ReasonIsReason DEF NewOrders
  <2>3. emitted' = << Reject(m.order_id, InvalidReason(m)) >> /\ UNCHANGED incoming
    BY <2>1 DEF RejectNewOrder
  <2>4. /\ Last(emitted') = Reject(m.order_id, InvalidReason(m))
        /\ Last(emitted') \in Events /\ Last(emitted').type = "Reject"
    BY <2>2, <2>3, RejectIsEvent, SingletonSeq
  <2> QED
    BY <1>a, <1>b, <2>1, <2>3, <2>4
<1>5. CASE Cancel
  <2>0. Dequeue /\ emit(Last(emitted')) /\ ingress # << >>
    BY <1>5 DEF Cancel, Dequeue
  <2>1. PICK id \in Ids : Head(ingress) = CancelOrder(id)
    BY <1>5 DEF Cancel, Cancels
  <2>2. Head(ingress).type = "CancelOrder" /\ Head(ingress).order_id = id
    BY <2>1 DEF CancelOrder
  <2>3. CancelResting(id) \/ CancelMiss(id)
    BY <1>5, <2>1 DEF Cancel, CancelOrder
  <2>4. UNCHANGED incoming
    BY <2>3 DEF CancelResting, CancelMiss
  <2>5. PICK e \in Events : emitted' = << e >> /\ (e.type = "Ack" => e = Ack(id, "Cancelled"))
    <3>1. CASE CancelResting(id)
      <4>1. Ack(id, "Cancelled") \in Events
        BY AckIsEvent DEF AckKinds
      <4> QED
        BY <3>1, <4>1 DEF CancelResting
    <3>2. CASE CancelMiss(id)
      <4>1. PICK reason \in RejectReasons : emitted' = << Reject(id, reason) >>
        BY <3>2 DEF CancelMiss, RejectReasons
      <4> QED
        BY <4>1, RejectIsEvent
    <3> QED
      BY <2>3, <3>1, <3>2
  <2>6. Last(emitted') = e
    BY <2>5, SingletonSeq
  <2>7. e.type = "Ack" => Confirms(e)
    BY <2>0, <2>2, <2>5 DEF Confirms
  <2> QED
    BY <1>a, <1>b, <2>0, <2>4, <2>6, <2>7
<1>6. CASE emit_invalid_message_error
  <2> DEFINE id == invalid_message_order_id(Head(ingress))
  <2>1. /\ Dequeue /\ Head(ingress) \in Misplaced /\ UNCHANGED incoming
        /\ emit(Reject(id, "IntegrityViolation"))
    BY <1>6 DEF emit_invalid_message_error, coreVars
  <2>2. id \in Ids
    BY <2>1 DEF Misplaced, invalid_message_order_id, Trade, Ack, Reject
  <2>3. /\ Reject(id, "IntegrityViolation") \in Events
        /\ Reject(id, "IntegrityViolation").type = "Reject"
    BY <2>2, RejectIsEvent DEF RejectReasons
  <2> QED
    BY <1>a, <1>b, <2>1, <2>3
<1> QED
  BY <1>1, <1>2, <1>3, <1>4, <1>5, <1>6 DEF Process

-----------------------------------------------------------------------------
(* The lists, the engine's state and the connection.                        *)

ListInv ==
  /\ IInv /\ egress \in Seq(Events)
  /\ Listed(ingress) /\ Listed(journal) /\ Listed(records)

(* Between two connections nothing is on its way, and the engine is told to *)
(* be restored exactly while the manager replays.                           *)
LinkInv ==
  /\ ~ link => ingress = << >> /\ egress = << >> /\ Idle
  /\ manager \in {"Connecting", "Replaying", "Awaiting", "Serving"}
  /\ restoring <=> manager \in {"Replaying", "Awaiting"}
  /\ manager = "Connecting" => ~ link
  /\ manager = "Awaiting" => records # << >>

(* A step of a request task.                                                *)
TaskStep(c) == Begin(c) \/ Continue(c) \/ TimedOut(c)

LEMMA TaskFrame ==
  ASSUME NEW c \in Clients, TaskStep(c)
  PROVE  UNCHANGED <<engineVars, journal, managerVars, link>> /\ faults \subseteq faults'
<1>1. CASE Begin(c)
  BY <1>1 DEF Begin, post_order, post_cancel
<1>2. CASE Continue(c)
  BY <1>2 DEF Continue, Admit, Register, send_command, Answered, Closed, GiveUp
<1>3. CASE TimedOut(c)
  BY <1>3 DEF TimedOut, GiveUp, Timeout, Strikes
<1> QED
  BY <1>1, <1>2, <1>3 DEF TaskStep

(* A step of the manager that writes nothing and reads no journal.          *)
QuietManage ==
  ReplaySkips \/ ReplayBreaks \/ ReplayResolved \/ ReplayTimedOut \/ ReplayDone \/ Disconnect

(* Who may take a step.                                                     *)
LEMMA SystemActors ==
  ASSUME [SystemNext]_systemVars
  PROVE  \/ \E c \in Clients : TaskStep(c)
         \/ handle_engine_event
         \/ Manage
         \/ Break \/ Restart \/ Crash \/ EngineRuns \/ UNCHANGED systemVars
BY DEF SystemNext, TaskStep

LEMMA ManagerSteps ==
  ASSUME Manage
  PROVE  Connect \/ QuietManage \/ ReplaySends \/ WriteCommand
BY DEF Manage, QuietManage

LEMMA QuietFrame ==
  ASSUME LinkInv, QuietManage
  PROVE  /\ UNCHANGED <<engineVars, journal, link>> /\ Idle /\ faults \subseteq faults'
         /\ \/ records' \in {records, << >>}
            \/ records # << >> /\ records' = Tail(records)
<1>1. CASE ReplaySkips \/ ReplayBreaks
  BY <1>1 DEF ReplaySkips, ReplayBreaks, prepare_replay
<1>2. CASE ReplayResolved \/ ReplayTimedOut
  BY <1>2 DEF ReplayResolved, ReplayTimedOut, Timeout, Strikes, LinkInv
<1>3. CASE ReplayDone \/ Disconnect
  BY <1>3 DEF ReplayDone, Disconnect
<1> QED
  BY <1>1, <1>2, <1>3 DEF QuietManage

CoreStarts == CoreInit => IInv

LEMMA CoreStartsNow == CoreStarts
BY InitIInv DEF CoreStarts

LEMMA CoreStartsNext == CoreStarts'
BY CoreStartsNow, PTL

LEMMA CutUnreadable ==
  ASSUME Listed(journal), journal' = Cut
  PROVE  Listed(journal') /\ ~ Readable'
<1>1. CASE EndsTorn
  <2>1. Len(journal) \in 1..Len(journal) /\ journal[Len(journal)] = Torn
    BY <1>1, ListedTail DEF EndsTorn, Last
  <2> QED
    BY <1>1, <2>1 DEF Cut, Readable
<1>2. CASE ~ EndsTorn
  <2>1. journal' = Append(journal, Torn)
    BY <1>2 DEF Cut
  <2>2. /\ Listed(journal') /\ Len(journal) + 1 \in 1..Len(journal')
        /\ journal'[Len(journal) + 1] = Torn
    BY <2>1, ListedAppend
  <2> QED
    BY <2>2 DEF Readable
<1> QED
  BY <1>1, <1>2

LEMMA WrittenGrows ==
  ASSUME Listed(journal), NEW record, journal' = Written(record)
  PROVE  /\ Listed(journal')
         /\ Readable' => Readable /\ journal' = Append(journal, record)
<1>1. CASE EndsTorn
  <2>1. journal # << >> /\ journal' = Append(Front(journal), Garbled)
    BY <1>1 DEF Written, EndsTorn
  <2>2. Listed(Front(journal))
    BY <2>1, ListedFront
  <2>3. /\ Listed(journal') /\ Len(Front(journal)) \in Nat
        /\ Len(journal') = Len(Front(journal)) + 1
        /\ journal'[Len(Front(journal)) + 1] = Garbled
    BY <2>1, <2>2, ListedAppend
  <2>4. ~ Readable'
    BY <2>3 DEF Readable
  <2> QED
    BY <2>3, <2>4
<1>2. CASE ~ EndsTorn
  <2>1. journal' = Append(journal, record)
    BY <1>2 DEF Written
  <2>2. /\ Listed(journal') /\ Len(journal) \in Nat /\ Len(journal') = Len(journal) + 1
        /\ \A i \in 1..Len(journal) : journal'[i] = journal[i]
    BY <2>1, ListedAppend
  <2>3. Readable' => Readable
    BY <2>2 DEF Readable
  <2> QED
    BY <2>1, <2>2, <2>3
<1> QED
  BY <1>1, <1>2

(* A journal that can be read after a record was handed to it has grown by  *)
(* the record, unless it is being replayed or the write failed.             *)
LEMMA RecordGrows ==
  ASSUME Listed(journal), NEW record, Record(record)
  PROVE  /\ Listed(journal')
         /\ Readable' => Readable /\ journal' \in {journal, Append(journal, record)}
         /\ Readable' /\ Persisted' /\ ~ restoring => journal' = Append(journal, record)
         /\ Persisted' => Persisted
<1>1. CASE UNCHANGED <<journal, faults>> /\ restoring
  BY <1>1 DEF Readable, Persisted
<1>2. CASE journal' = Written(record) /\ UNCHANGED faults
  BY <1>2, WrittenGrows DEF Persisted
<1>3. CASE journal' = journal /\ Strikes("Disk")
  BY <1>3 DEF Readable, Persisted, Strikes
<1>4. CASE journal' = Cut /\ Strikes("Disk")
  BY <1>4, CutUnreadable DEF Persisted, Strikes
<1> QED
  BY <1>1, <1>2, <1>3, <1>4 DEF Record, append

(* What the reader writes for an event, if anything.                        *)
LineOf(event) ==
  IF event.kind = "Accepted"
  THEN [type |-> "New", order_id |-> event.order_id,
        side |-> inflight[event.order_id].side,
        price_ticks |-> inflight[event.order_id].price_ticks,
        quantity |-> inflight[event.order_id].quantity]
  ELSE [type |-> "Cancel", order_id |-> event.order_id]

LEMMA ReaderFrame ==
  ASSUME handle_engine_event
  PROVE  /\ link /\ Idle /\ egress # << >> /\ egress' = Tail(egress)
         /\ UNCHANGED <<coreVars, ingress, statVars, operational>>
         /\ UNCHANGED <<pc, command, answer, managerVars, link>>
         /\ IF /\ Head(egress).type \notin {"Trade", "Reject"}
               /\ Head(egress).order_id \in DOMAIN inflight
            THEN Record(LineOf(Head(egress)))
            ELSE UNCHANGED <<journal, faults>>
<1>1. /\ link /\ Idle /\ egress # << >> /\ egress' = Tail(egress)
      /\ UNCHANGED <<coreVars, ingress, statVars, operational>>
      /\ UNCHANGED <<pc, command, answer, managerVars, link>>
  BY DEF handle_engine_event, next_event
<1>2. CASE Head(egress).type = "Trade"
  BY <1>1, <1>2 DEF handle_engine_event, HandleTrade
<1>3. CASE Head(egress).type # "Trade"
  <2>1. HandleTerminator(Head(egress))
    BY <1>3 DEF handle_engine_event
  <2>2. CASE Head(egress).order_id \notin DOMAIN inflight
    BY <1>1, <2>1, <2>2 DEF HandleTerminator
  <2>3. CASE Head(egress).order_id \in DOMAIN inflight /\ Head(egress).type = "Reject"
    <3>1. UNCHANGED <<journal, faults>>
      BY <2>1, <2>3 DEF HandleTerminator
    <3> QED
      BY <1>1, <2>3, <3>1
  <2>4. CASE Head(egress).order_id \in DOMAIN inflight /\ Head(egress).type # "Reject"
    <3>1. IF Head(egress).kind = "Accepted" THEN complete_accept(Head(egress))
          ELSE complete_cancel(Head(egress))
      BY <2>1, <2>4 DEF HandleTerminator
    <3>2. Record(LineOf(Head(egress)))
      BY <3>1 DEF complete_accept, complete_cancel, LineOf
    <3> QED
      BY <1>1, <1>3, <2>4, <3>2
  <2> QED
    BY <2>2, <2>3, <2>4
<1> QED
  BY <1>2, <1>3

LEMMA WriteFrameLists ==
  ASSUME Listed(ingress), NEW msg, WriteFrame(msg)
  PROVE  /\ UNCHANGED <<coreVars, egress, statVars, operational>> /\ Listed(ingress')
         /\ ingress' \in {ingress, Append(ingress, msg)}
         /\ ~ link => ingress' = ingress
<1>1. CASE link
  <2>1. submit(msg)
    BY <1>1 DEF WriteFrame
  <2>2. Listed(Append(ingress, msg))
    BY ListedAppend
  <2> QED
    BY <1>1, <2>1, <2>2 DEF submit
<1>2. CASE ~ link
  BY <1>2 DEF WriteFrame, engineVars, procVars, statVars
<1> QED
  BY <1>1, <1>2

LEMMA ListInvNext == ListInv /\ LinkInv /\ [SystemNext]_systemVars => ListInv'
<1> SUFFICES ASSUME ListInv, LinkInv, [SystemNext]_systemVars PROVE ListInv'
  OBVIOUS
<1>0. /\ IInv /\ egress \in Seq(Events) /\ Listed(ingress) /\ Listed(journal)
      /\ Listed(records)
  BY DEF ListInv
<1>a. [Next]_coreVars => IInv'
  BY <1>0, NextIInv
<1>b. << >> \in Seq(Events)
  BY EmptySeq
<1>1. ASSUME NEW c \in Clients, TaskStep(c) PROVE ListInv'
  BY <1>0, <1>1, <1>a, TaskFrame DEF ListInv, engineVars, procVars, managerVars
<1>2. CASE handle_engine_event
  <2>1. Tail(egress) \in Seq(Events)
    BY <1>0, <1>2, ReaderFrame, HeadTailProperties
  <2>2. Listed(journal')
    BY <1>0, <1>2, ReaderFrame, RecordGrows
  <2> QED
    BY <1>0, <1>2, <1>a, <2>1, <2>2, ReaderFrame DEF ListInv, managerVars
<1>3. CASE Connect
  BY <1>0, <1>3, <1>a, ListedEmpty DEF Connect, read_records, ListInv, engineVars, procVars
<1>4. CASE QuietManage
  BY <1>0, <1>4, <1>a, QuietFrame, ListedEmpty, ListedTail, Zenon DEF ListInv, engineVars, procVars
<1>5. CASE ReplaySends
  BY <1>0, <1>5, <1>a, WriteFrameLists DEF ReplaySends, prepare_replay, ListInv
<1>6. CASE WriteCommand
  BY <1>0, <1>6, <1>a, WriteFrameLists DEF WriteCommand, managerVars, ListInv
<1>7. CASE Break
  BY <1>0, <1>7, <1>a, <1>b, ListedEmpty DEF Break, LinkLost, managerVars, ListInv
<1>8. CASE Restart
  <2>1. CoreInit'
    BY <1>8 DEF Restart, CoreInit, BookInit
  <2> QED
    BY <1>0, <1>8, <1>b, <2>1, CoreStartsNext, ListedEmpty
       DEF CoreStarts, Restart, LinkLost, managerVars, ListInv
<1>9. CASE Crash
  <2>1. Listed(journal')
    BY <1>0, <1>9, CutUnreadable DEF Crash
  <2> QED
    BY <1>0, <1>9, <1>a, <1>b, <2>1, ListedEmpty, Zenon DEF Crash, LinkLost, ListInv
<1>10. CASE EngineRuns
  <2>1. Process /\ UNCHANGED <<journal, records>>
    BY <1>10 DEF EngineRuns, managerVars
  <2>2. IInv'
    BY <1>a, <2>1, ProcStepIsCoreStep DEF ProcNext
  <2>3. egress' \in Seq(Events) /\ Advances
    BY <1>0, <2>1, EngineSays
  <2>4. Listed(ingress')
    BY <1>0, <2>3, ListedTail, Zenon DEF Advances
  <2> QED
    BY <1>0, <2>1, <2>2, <2>3, <2>4 DEF ListInv
<1>11. CASE UNCHANGED systemVars
  BY <1>0, <1>11, <1>a DEF systemVars, engineVars, procVars, managerVars, ListInv
<1> QED
  BY <1>1, <1>2, <1>3, <1>4, <1>5, <1>6, <1>7, <1>8, <1>9, <1>10, <1>11,
     SystemActors, ManagerSteps

LEMMA LinkLeftAlone ==
  ASSUME LinkInv, UNCHANGED <<engineVars, managerVars, link>>
  PROVE  LinkInv'
<1>1. /\ incoming' = incoming /\ ingress' = ingress /\ egress' = egress
      /\ manager' = manager /\ records' = records /\ restoring' = restoring /\ link' = link
  BY DEF engineVars, procVars, coreVars, managerVars
<1> QED
  BY <1>1 DEF LinkInv, Idle

LEMMA LinkInvNext == ListInv /\ LinkInv /\ [SystemNext]_systemVars => LinkInv'
<1> SUFFICES ASSUME ListInv, LinkInv, [SystemNext]_systemVars PROVE LinkInv'
  OBVIOUS
<1>1. ASSUME NEW c \in Clients, TaskStep(c) PROVE LinkInv'
  <2>1. UNCHANGED <<engineVars, managerVars, link>>
    BY <1>1, TaskFrame
  <2> QED
    BY <2>1, LinkLeftAlone
<1>2. CASE handle_engine_event
  BY <1>2, ReaderFrame DEF LinkInv, coreVars, managerVars, Idle
<1>3. CASE Connect
  BY <1>3 DEF Connect, LinkInv
<1>4. CASE ReplaySkips \/ ReplayBreaks
  BY <1>4 DEF ReplaySkips, ReplayBreaks, prepare_replay, LinkInv, engineVars, procVars, coreVars,
              Idle
<1>5. CASE ReplayResolved \/ ReplayTimedOut \/ ReplayDone
  BY <1>5 DEF ReplayResolved, ReplayTimedOut, ReplayDone, LinkInv, engineVars, procVars,
              coreVars, Idle
<1>6. CASE Disconnect
  BY <1>6 DEF Disconnect, LinkInv, engineVars, procVars, coreVars, Idle
<1>7. CASE ReplaySends
  <2>1. Listed(ingress)
    BY DEF ListInv
  <2>2. /\ UNCHANGED <<coreVars, egress, link, records, restoring>> /\ manager' = "Awaiting"
        /\ ~ link => ingress' = ingress
        /\ manager = "Replaying" /\ records # << >>
    BY <1>7, <2>1, WriteFrameLists DEF ReplaySends, prepare_replay
  <2> QED
    BY <2>2 DEF LinkInv, coreVars, Idle
<1>8. CASE WriteCommand
  <2>1. Listed(ingress)
    BY DEF ListInv
  <2>2. UNCHANGED <<coreVars, egress, link, managerVars>> /\ (~ link => ingress' = ingress)
    BY <1>8, <2>1, WriteFrameLists DEF WriteCommand
  <2> QED
    BY <2>2 DEF LinkInv, coreVars, managerVars, Idle
<1>9. CASE Break \/ Restart
  BY <1>9 DEF Break, Restart, LinkLost, LinkInv, coreVars, managerVars, Idle
<1>10. CASE Crash
  BY <1>10 DEF Crash, LinkLost, LinkInv, coreVars, Idle
<1>11. CASE EngineRuns
  <2>1. Process /\ UNCHANGED <<managerVars, link>>
    BY <1>11 DEF EngineRuns
  <2>2. ~ Idle \/ ingress # << >>
    BY <2>1 DEF Process, BeginNewOrder, EmitTrade, MatchOne, EndNewOrder, RestRemainder,
                InvalidNewOrder, Cancel, emit_invalid_message_error, Dequeue
  <2> QED
    BY <2>1, <2>2 DEF LinkInv, managerVars
<1>12. CASE UNCHANGED systemVars
  BY <1>12, LinkLeftAlone DEF systemVars
<1> QED
  BY <1>1, <1>2, <1>3, <1>4, <1>5, <1>6, <1>7, <1>8, <1>9, <1>10, <1>11, <1>12,
     SystemActors, ManagerSteps DEF QuietManage

-----------------------------------------------------------------------------
(* The lines on disk.                                                       *)

HasNew(id) ==
  \E i \in 1..Len(journal) : journal[i].order_id = id /\ journal[i].type = "New"

HasCancel(id) ==
  \E i \in 1..Len(journal) : journal[i].order_id = id /\ journal[i].type # "New"

(* The line of a command, and of an Ack, is on disk.                        *)
Backed(msg) ==
  IF msg.type = "NewOrder" THEN HasNew(msg.order_id) ELSE HasCancel(msg.order_id)

Proven(event) ==
  event.type = "Ack" =>
    IF event.kind = "Accepted" THEN HasNew(event.order_id) ELSE HasCancel(event.order_id)

(* No line is ever taken back from a journal that can be read, and no       *)
(* failed write forgotten.                                                  *)
Kept ==
  /\ Persisted' => Persisted
  /\ Readable' => /\ Readable
                  /\ \A id : HasNew(id) => HasNew(id)'
                  /\ \A id : HasCancel(id) => HasCancel(id)'

LEMMA RecordKeeps ==
  ASSUME Listed(journal), NEW record, Record(record)
  PROVE  /\ Kept
         /\ Readable' /\ Persisted' /\ ~ restoring =>
              IF record.type = "New" THEN HasNew(record.order_id)' ELSE HasCancel(record.order_id)'
<1>0. Persisted' => Persisted
  BY RecordGrows
<1> SUFFICES ASSUME Readable'
             PROVE  /\ Readable
                    /\ \A id : HasNew(id) => HasNew(id)'
                    /\ \A id : HasCancel(id) => HasCancel(id)'
                    /\ Persisted' /\ ~ restoring =>
                         IF record.type = "New" THEN HasNew(record.order_id)'
                         ELSE HasCancel(record.order_id)'
  BY <1>0 DEF Kept
<1>1. /\ Readable /\ journal' \in {journal, Append(journal, record)}
      /\ Persisted' /\ ~ restoring => journal' = Append(journal, record)
  BY RecordGrows
<1>2. CASE journal' = journal /\ ~ (Persisted' /\ ~ restoring)
  BY <1>1, <1>2 DEF HasNew, HasCancel
<1>3. CASE journal' = Append(journal, record)
  <2>1. /\ Len(journal) \in Nat /\ Len(journal') = Len(journal) + 1
        /\ \A i \in 1..Len(journal) : journal'[i] = journal[i]
        /\ journal'[Len(journal) + 1] = record
    BY <1>3, ListedAppend
  <2>2. \A i \in 1..Len(journal) : i \in 1..Len(journal')
    BY <2>1
  <2>3. Len(journal) + 1 \in 1..Len(journal')
    BY <2>1
  <2>4. \A id : HasNew(id) => HasNew(id)'
    BY <2>1, <2>2 DEF HasNew
  <2>5. \A id : HasCancel(id) => HasCancel(id)'
    BY <2>1, <2>2 DEF HasCancel
  <2>6. IF record.type = "New" THEN HasNew(record.order_id)' ELSE HasCancel(record.order_id)'
    BY <2>1, <2>3 DEF HasNew, HasCancel
  <2> QED
    BY <1>1, <2>4, <2>5, <2>6
<1> QED
  BY <1>1, <1>2, <1>3

LEMMA JournalKept == ListInv /\ LinkInv /\ [SystemNext]_systemVars => Kept
<1> SUFFICES ASSUME ListInv, LinkInv, [SystemNext]_systemVars PROVE Kept
  OBVIOUS
<1>0. Listed(journal)
  BY DEF ListInv
<1>a. UNCHANGED journal /\ faults \subseteq faults' => Kept
  BY DEF Kept, Persisted, Readable, HasNew, HasCancel
<1>b. \A kind : Strikes(kind) => faults \subseteq faults'
  BY DEF Strikes
<1>1. ASSUME NEW c \in Clients, TaskStep(c) PROVE Kept
  BY <1>1, <1>a, TaskFrame
<1>2. CASE handle_engine_event
  BY <1>0, <1>2, <1>a, ReaderFrame, RecordKeeps
<1>3. CASE Connect \/ ReplaySends \/ WriteCommand
  BY <1>3, <1>a DEF Connect, ReplaySends, prepare_replay, WriteCommand
<1>4. CASE QuietManage
  BY <1>4, <1>a, QuietFrame
<1>5. CASE Break \/ Restart \/ EngineRuns
  BY <1>5, <1>a, <1>b DEF Break, Restart, EngineRuns
<1>6. CASE Crash
  <2>0. faults \subseteq faults'
    BY <1>6, <1>b DEF Crash
  <2>1. CASE UNCHANGED journal
    BY <1>a, <2>0, <2>1
  <2>2. CASE journal' = Cut
    BY <1>0, <2>0, <2>2, CutUnreadable DEF Kept, Persisted
  <2> QED
    BY <1>6, <2>1, <2>2 DEF Crash
<1>7. CASE UNCHANGED systemVars
  BY <1>7, <1>a DEF systemVars
<1> QED
  BY <1>1, <1>2, <1>3, <1>4, <1>5, <1>6, <1>7, SystemActors, ManagerSteps

=============================================================================
