-------------------------- MODULE DurabilityProofs --------------------------
(***************************************************************************)
(* What a client was told is done is on disk, for any number of request     *)
(* tasks and any requests, and while the disk takes what is appended to the *)
(* journal.  The argument follows a confirmation from the                   *)
(* engine's event to the answer: the request task's entry, the replay, the  *)
(* reply handed to the task, the answer it gives.                           *)
(***************************************************************************)
EXTENDS GatewayServerProofs

-----------------------------------------------------------------------------
(* The request tasks and the in-flight map.                                 *)

TaskDomains ==
  /\ DOMAIN pc = Clients /\ DOMAIN command = Clients
  /\ DOMAIN reply = Clients /\ DOMAIN answer = Clients

(* An entry of a task is that of its command, and the task still waits.     *)
EntryInv ==
  \A id \in DOMAIN inflight :
    /\ "owner" \in DOMAIN inflight[id]
    /\ inflight[id].owner \in Clients =>
         /\ pc[inflight[id].owner] \in {"Registered", "Waiting"}
         /\ command[inflight[id].owner].order_id = id
         /\ reply[inflight[id].owner] = NoReply

(* A reply is to the task's own command, and a task with an answer is done. *)
TaskInv ==
  \A c \in Clients :
    /\ reply[c] # NoReply => /\ pc[c] \in {"Registered", "Waiting"}
                             /\ reply[c].terminator.order_id = command[c].order_id
    /\ answer[c] # NoAnswer => pc[c] = "Done"

HandlerInv == TaskDomains /\ EntryInv /\ TaskInv

LEMMA EntryOwner ==
  ASSUME NEW msg, NEW owner
  PROVE  "owner" \in DOMAIN Entry(msg, owner) /\ Entry(msg, owner).owner = owner
BY DEF Entry

LEMMA Registering ==
  ASSUME NEW msg, NEW owner, register_inflight(msg, owner)
  PROVE  \A id \in DOMAIN inflight' :
           \/ id = msg.order_id /\ inflight'[id] = Entry(msg, owner)
           \/ id \in DOMAIN inflight /\ inflight'[id] = inflight[id]
BY DEF register_inflight, Proj!With

LEMMA Dropping ==
  ASSUME NEW x, drop_inflight(x)
  PROVE  \A id \in DOMAIN inflight' :
           id # x /\ id \in DOMAIN inflight /\ inflight'[id] = inflight[id]
BY DEF drop_inflight, Proj!Without

LEMMA BeginKeepsTasks ==
  ASSUME HandlerInv, NEW c \in Clients, Begin(c)
  PROVE  HandlerInv'
<1>1. /\ pc[c] = "Start" /\ UNCHANGED <<inflight, reply>>
      /\ command' \in {command, [command EXCEPT ![c] = command'[c]]}
      /\ pc' = [pc EXCEPT ![c] = pc'[c]]
      /\ \/ UNCHANGED answer
         \/ answer' = [answer EXCEPT ![c] = answer'[c]] /\ pc'[c] = "Done"
  <2>1. PICK r \in Requests :
          IF r.type = "Order" THEN post_order(c, r.body) ELSE post_cancel(c, r.order_id)
    BY DEF Begin
  <2>2. CASE post_order(c, r.body)
    BY <2>2 DEF post_order, Respond, HandlerInv, TaskDomains
  <2>3. CASE post_cancel(c, r.order_id)
    BY <2>3 DEF post_cancel, HandlerInv, TaskDomains
  <2> QED
    BY <2>1, <2>2, <2>3
<1>2. TaskDomains'
  BY <1>1 DEF HandlerInv, TaskDomains
<1>3. /\ \A d \in Clients \ {c} : pc'[d] = pc[d] /\ command'[d] = command[d] /\ answer'[d] = answer[d]
      /\ answer'[c] # NoAnswer => pc'[c] = "Done"
  BY <1>1 DEF HandlerInv, TaskDomains, TaskInv
<1>4. EntryInv'
  BY <1>1, <1>3 DEF HandlerInv, EntryInv
<1>5. TaskInv'
  BY <1>1, <1>3 DEF HandlerInv, TaskInv
<1> QED
  BY <1>2, <1>4, <1>5 DEF HandlerInv

LEMMA ContinueKeepsTasks ==
  ASSUME HandlerInv, NEW c \in Clients, Continue(c) \/ TimedOut(c)
  PROVE  HandlerInv'
<1> USE DEF HandlerInv, TaskDomains, Respond
<1>1. CASE Admit(c)
  <2>1. EntryInv'
    BY <1>1 DEF Admit, engine_unavailable, EntryInv
  <2>2. TaskInv'
    BY <1>1 DEF Admit, engine_unavailable, TaskInv
  <2> QED
    BY <1>1, <2>1, <2>2 DEF Admit, engine_unavailable
<1>2. CASE Register(c) /\ InFlight(command[c].order_id)
  <2>1. EntryInv'
    BY <1>2 DEF Register, engine_unavailable, EntryInv
  <2>2. TaskInv'
    BY <1>2 DEF Register, engine_unavailable, TaskInv
  <2> QED
    BY <1>2, <2>1, <2>2 DEF Register, engine_unavailable
<1>3. CASE Register(c) /\ ~ InFlight(command[c].order_id)
  <2>1. /\ register_inflight(command[c], c) /\ pc[c] = "Admitted"
        /\ pc' = [pc EXCEPT ![c] = "Registered"] /\ UNCHANGED <<command, reply, answer>>
    BY <1>3 DEF Register
  <2>2. reply[c] = NoReply /\ answer[c] = NoAnswer
    BY <2>1 DEF TaskInv
  <2>3. EntryInv'
    <3> SUFFICES ASSUME NEW id \in DOMAIN inflight'
                 PROVE  /\ "owner" \in DOMAIN inflight'[id]
                        /\ inflight'[id].owner \in Clients =>
                             /\ pc'[inflight'[id].owner] \in {"Registered", "Waiting"}
                             /\ command'[inflight'[id].owner].order_id = id
                             /\ reply'[inflight'[id].owner] = NoReply
      BY DEF EntryInv
    <3>1. CASE id = command[c].order_id /\ inflight'[id] = Entry(command[c], c)
      BY <2>1, <2>2, <3>1, EntryOwner
    <3>2. CASE id \in DOMAIN inflight /\ inflight'[id] = inflight[id]
      BY <2>1, <3>2 DEF EntryInv
    <3> QED
      BY <2>1, <3>1, <3>2, Registering
  <2>4. TaskInv'
    BY <2>1, <2>2 DEF TaskInv
  <2> QED
    BY <2>1, <2>3, <2>4
<1>4. CASE send_command(c)
  <2>1. EntryInv'
    BY <1>4 DEF send_command, EntryInv
  <2>2. TaskInv'
    BY <1>4 DEF send_command, TaskInv
  <2> QED
    BY <1>4, <2>1, <2>2 DEF send_command
<1>5. CASE Answered(c)
  <2>1. EntryInv'
    BY <1>5 DEF Answered, EntryInv
  <2>2. TaskInv'
    BY <1>5 DEF Answered, TaskInv
  <2> QED
    BY <1>5, <2>1, <2>2 DEF Answered
<1>6. CASE GiveUp(c)
  <2>1. EntryInv'
    BY <1>6, Dropping DEF GiveUp, engine_unavailable, EntryInv
  <2>2. TaskInv'
    BY <1>6 DEF GiveUp, engine_unavailable, TaskInv
  <2> QED
    BY <1>6, <2>1, <2>2 DEF GiveUp, engine_unavailable
<1> QED
  BY <1>1, <1>2, <1>3, <1>4, <1>5, <1>6 DEF Continue, Closed, TimedOut

(* A terminator takes its entry out of the map and goes to the entry's task.*)
LEMMA ReaderKeepsTasks ==
  ASSUME HandlerInv, handle_engine_event
  PROVE  /\ HandlerInv'
         /\ \A c \in Clients :
              \/ reply'[c] = reply[c]
              \/ /\ Head(egress).type # "Trade" /\ Head(egress).order_id \in DOMAIN inflight
                 /\ reply'[c].terminator = Head(egress)
<1> DEFINE event == Head(egress)
<1>0. UNCHANGED <<pc, command, answer>> /\ TaskDomains /\ EntryInv /\ TaskInv
  BY DEF handle_engine_event, HandlerInv
<1>1. CASE event.type = "Trade"
  <2>1. HandleTrade(event)
    BY <1>1 DEF handle_engine_event
  <2>2. UNCHANGED reply
    BY <2>1 DEF HandleTrade
  <2>3. /\ DOMAIN inflight' = DOMAIN inflight
        /\ \A id \in DOMAIN inflight : "owner" \in DOMAIN inflight[id] =>
             "owner" \in DOMAIN inflight'[id] /\ inflight'[id].owner = inflight[id].owner
    BY <2>1 DEF HandleTrade
  <2>4. EntryInv'
    BY <1>0, <2>2, <2>3 DEF EntryInv
  <2> QED
    BY <1>0, <2>2, <2>4 DEF HandlerInv, TaskDomains, TaskInv
<1>2. CASE event.type # "Trade" /\ event.order_id \notin DOMAIN inflight
  <2>1. UNCHANGED <<inflight, reply>>
    BY <1>2 DEF handle_engine_event, HandleTerminator
  <2> QED
    BY <1>0, <2>1 DEF HandlerInv, TaskDomains, TaskInv, EntryInv
<1>3. CASE event.type # "Trade" /\ event.order_id \in DOMAIN inflight
  <2> DEFINE owner == inflight[event.order_id].owner
             filled == inflight[event.order_id].filled
  <2>1. /\ drop_inflight(event.order_id)
        /\ reply' = IF owner \in Clients
                    THEN [reply EXCEPT ![owner] = [terminator |-> event, filled |-> filled]]
                    ELSE reply
    BY <1>3 DEF handle_engine_event, HandleTerminator, Complete
  <2> HIDE DEF event, filled
  <2>2. CASE owner \notin Clients
    <3>1. UNCHANGED reply
      BY <2>1, <2>2
    <3>2. EntryInv'
      BY <1>0, <2>1, <3>1, Dropping DEF EntryInv
    <3> QED
      BY <1>0, <3>1, <3>2 DEF HandlerInv, TaskDomains, TaskInv
  <2>3. CASE owner \in Clients
    <3>1. /\ pc[owner] \in {"Registered", "Waiting"}
          /\ command[owner].order_id = event.order_id
      BY <1>0, <1>3, <2>3 DEF EntryInv
    <3> HIDE DEF owner
    <3>2. /\ DOMAIN reply' = Clients
          /\ \A c \in Clients \ {owner} : reply'[c] = reply[c]
          /\ reply'[owner].terminator = event
      BY <1>0, <2>1, <2>3 DEF TaskDomains
    <3>3. \A id \in DOMAIN inflight' :
            id # event.order_id /\ id \in DOMAIN inflight /\ inflight'[id] = inflight[id]
      BY <2>1, Dropping
    <3>4. EntryInv'
      BY <1>0, <3>1, <3>2, <3>3 DEF EntryInv
    <3>5. TaskInv'
      BY <1>0, <3>1, <3>2 DEF TaskInv
    <3>6. \A c \in Clients : reply'[c] = reply[c] \/ reply'[c].terminator = event
      BY <3>2
    <3> QED
      BY <1>0, <1>3, <3>2, <3>4, <3>5, <3>6 DEF HandlerInv, TaskDomains, event
  <2> QED
    BY <2>2, <2>3
<1> QED
  BY <1>1, <1>2, <1>3

LEMMA HandlerInvNext ==
  ListInv /\ HandlerInv /\ [SystemNext]_systemVars => HandlerInv'
<1> SUFFICES ASSUME ListInv, HandlerInv, [SystemNext]_systemVars PROVE HandlerInv'
  OBVIOUS
<1>a. UNCHANGED <<inflight, handlerVars>> => HandlerInv'
  BY DEF HandlerInv, TaskDomains, EntryInv, TaskInv, handlerVars
<1>b. UNCHANGED handlerVars /\ fail_all_inflight => HandlerInv'
  BY DEF HandlerInv, TaskDomains, EntryInv, TaskInv, handlerVars, fail_all_inflight
<1>1. ASSUME NEW c \in Clients, TaskStep(c) PROVE HandlerInv'
  BY <1>1, BeginKeepsTasks, ContinueKeepsTasks DEF TaskStep
<1>2. CASE handle_engine_event
  BY <1>2, ReaderKeepsTasks
<1>3. CASE Connect \/ WriteCommand \/ ReplaySkips
  BY <1>3, <1>a DEF Connect, WriteCommand, ReplaySkips, prepare_replay
<1>4. CASE ReplayBreaks \/ Disconnect
  BY <1>4, <1>b DEF ReplayBreaks, Disconnect, prepare_replay
<1>5. CASE ReplayResolved \/ ReplayTimedOut \/ ReplayDone
  BY <1>5, <1>a DEF ReplayResolved, ReplayTimedOut, ReplayDone
<1>6. CASE ReplaySends
  <2> DEFINE msg == ReplayCommand(Head(records))
  <2>1. register_inflight(msg, Len(records)) /\ UNCHANGED handlerVars /\ records # << >>
    BY <1>6 DEF ReplaySends, prepare_replay
  <2> HIDE DEF msg
  <2>2. Len(records) \notin Clients
    BY <2>1, ListedTail, OwnersApart DEF ListInv
  <2>3. \A id \in DOMAIN inflight' :
          \/ inflight'[id] = Entry(msg, Len(records))
          \/ id \in DOMAIN inflight /\ inflight'[id] = inflight[id]
    BY <2>1, Registering
  <2>4. EntryInv'
    BY <2>1, <2>2, <2>3, EntryOwner DEF HandlerInv, EntryInv, handlerVars
  <2> QED
    BY <2>1, <2>4 DEF HandlerInv, TaskDomains, TaskInv, handlerVars
<1>7. CASE Break \/ Restart \/ EngineRuns
  BY <1>7, <1>a DEF Break, Restart, EngineRuns
<1>8. CASE Crash
  BY <1>8 DEF Crash, HandlerInv, TaskDomains, EntryInv, TaskInv
<1>9. CASE UNCHANGED systemVars
  BY <1>9, <1>a DEF systemVars
<1> QED
  BY <1>1, <1>2, <1>3, <1>4, <1>5, <1>6, <1>7, <1>8, <1>9, SystemActors DEF Manage

-----------------------------------------------------------------------------
(* While the journal is replayed the reader writes nothing: whatever is on  *)
(* its way to the engine and back was on disk before.                       *)

ReplayInv ==
  Readable /\ restoring =>
    /\ \A i \in 1..Len(records) : IF records[i].type = "New" THEN HasNew(records[i].order_id)
                                  ELSE HasCancel(records[i].order_id)
    /\ \A i \in 1..Len(ingress) : Backed(ingress[i])
    /\ ~ Idle => HasNew(incoming.order_id)
    /\ \A i \in 1..Len(egress) : Proven(egress[i])

(* While the journal stays, what is on its way may change as long as it is  *)
(* on disk.                                                                 *)
LEMMA ReplayGoesOn ==
  ASSUME UNCHANGED journal, restoring' => restoring,
         Readable /\ restoring =>
           /\ \A i \in 1..Len(records') :
                IF records'[i].type = "New" THEN HasNew(records'[i].order_id)
                ELSE HasCancel(records'[i].order_id)
           /\ \A i \in 1..Len(ingress') : Backed(ingress'[i])
           /\ ~ Idle' => HasNew(incoming'.order_id)
           /\ \A i \in 1..Len(egress') : Proven(egress'[i])
  PROVE  ReplayInv'
<1>1. Readable' => Readable
  BY DEF Readable
<1>2. /\ \A id : HasNew(id) => HasNew(id)'
      /\ \A id : HasCancel(id) => HasCancel(id)'
  BY DEF HasNew, HasCancel
<1> QED
  BY <1>1, <1>2 DEF ReplayInv, Backed, Proven

(* So it does when the connection is lost with all that was on its way.     *)
LEMMA ReplayCutOff ==
  ASSUME ReplayInv, UNCHANGED <<journal, records, restoring>>,
         ingress' = << >>, egress' = << >>, Idle'
  PROVE  ReplayInv'
<1>1. 1..Len(ingress') = {} /\ 1..Len(egress') = {}
  OBVIOUS
<1>2. Readable /\ restoring =>
        \A i \in 1..Len(records') :
          IF records'[i].type = "New" THEN HasNew(records'[i].order_id)
          ELSE HasCancel(records'[i].order_id)
  BY DEF ReplayInv
<1> QED
  BY <1>1, <1>2, ReplayGoesOn

LEMMA EngineKeepsReplay ==
  ASSUME ListInv, ReplayInv, EngineRuns
  PROVE  ReplayInv'
<1>1. Process /\ UNCHANGED <<journal, records, restoring>>
  BY DEF EngineRuns, managerVars
<1> SUFFICES ASSUME Readable, restoring
             PROVE  /\ \A i \in 1..Len(ingress') : Backed(ingress'[i])
                    /\ ~ Idle' => HasNew(incoming'.order_id)
                    /\ \A i \in 1..Len(egress') : Proven(egress'[i])
  BY <1>1, ReplayGoesOn DEF ReplayInv
<1>2. /\ \A i \in 1..Len(ingress) : Backed(ingress[i])
      /\ ~ Idle => HasNew(incoming.order_id)
      /\ \A i \in 1..Len(egress) : Proven(egress[i])
  BY DEF ReplayInv
<1>3. /\ Advances /\ Listed(ingress) /\ egress \in Seq(Events)
      /\ \/ egress' = egress
         \/ \E e \in Events : egress' = Append(egress, e) /\ (e.type = "Ack" => Confirms(e))
  BY <1>1, EngineSays DEF ListInv
<1>4. ASSUME ingress # << >>
      PROVE  /\ Backed(Head(ingress)) /\ Len(ingress) \in Nat
             /\ Len(Tail(ingress)) = Len(ingress) - 1
             /\ \A i \in 1..(Len(ingress) - 1) : Tail(ingress)[i] = ingress[i + 1]
  BY <1>2, <1>3, <1>4, ListedTail
<1>5. \A i \in 1..Len(ingress') : Backed(ingress'[i])
  <2>1. CASE ingress' = ingress
    BY <1>2, <2>1
  <2>2. CASE ingress # << >> /\ ingress' = Tail(ingress)
    <3> SUFFICES ASSUME NEW i \in 1..Len(ingress') PROVE Backed(ingress'[i])
      OBVIOUS
    <3>1. i \in 1..(Len(ingress) - 1) /\ i + 1 \in 1..Len(ingress)
      BY <1>4, <2>2
    <3> QED
      BY <1>2, <1>4, <2>2, <3>1
  <2> QED
    BY <1>3, <2>1, <2>2 DEF Advances
<1>6. ~ Idle' => HasNew(incoming'.order_id)
  BY <1>2, <1>3, <1>4 DEF Advances, Idle, Backed
<1>7. \A i \in 1..Len(egress') : Proven(egress'[i])
  <2>1. CASE egress' = egress
    BY <1>2, <2>1
  <2>2. ASSUME NEW e \in Events, egress' = Append(egress, e), e.type = "Ack" => Confirms(e)
        PROVE  \A i \in 1..Len(egress') : Proven(egress'[i])
    <3>1. Proven(e)
      BY <1>2, <1>4, <2>2 DEF Confirms, Proven, Backed, Ack
    <3>2. /\ Len(egress) \in Nat /\ Len(egress') = Len(egress) + 1
          /\ \A i \in 1..Len(egress) : egress'[i] = egress[i]
          /\ egress'[Len(egress) + 1] = e
      BY <1>3, <2>2, AppendProperties, LenProperties
    <3> QED
      BY <1>2, <3>1, <3>2
  <2> QED
    BY <1>3, <2>1, <2>2
<1> QED
  BY <1>5, <1>6, <1>7

LEMMA ReplayInvNext ==
  ListInv /\ LinkInv /\ ReplayInv /\ [SystemNext]_systemVars => ReplayInv'
<1> SUFFICES ASSUME ListInv, LinkInv, ReplayInv, [SystemNext]_systemVars PROVE ReplayInv'
  OBVIOUS
<1>a. ~ restoring' => ReplayInv'
  BY DEF ReplayInv
<1>b. UNCHANGED <<engineVars, journal, records, restoring>> => ReplayInv'
  BY ReplayGoesOn DEF ReplayInv, engineVars, procVars, coreVars, Idle
<1>1. ASSUME NEW c \in Clients, TaskStep(c) PROVE ReplayInv'
  BY <1>1, <1>b, TaskFrame DEF managerVars
<1>2. CASE handle_engine_event
  <2>1. CASE restoring
    <3>1. /\ UNCHANGED <<coreVars, ingress, journal, records, restoring>>
          /\ egress # << >> /\ egress' = Tail(egress)
      BY <1>2, <2>1, ReaderFrame DEF Record, managerVars
    <3>2. /\ Len(egress) \in Nat /\ Len(egress') = Len(egress) - 1
          /\ \A i \in 1..(Len(egress) - 1) : egress'[i] = egress[i + 1]
      BY <3>1, HeadTailProperties, LenProperties DEF ListInv
    <3>3. \A i \in 1..Len(egress') : \E j \in 1..Len(egress) : egress'[i] = egress[j]
      BY <3>2
    <3> QED
      BY <3>1, <3>3, ReplayGoesOn DEF ReplayInv, coreVars, Idle
  <2>2. CASE ~ restoring
    BY <1>2, <1>a, <2>2, ReaderFrame DEF managerVars
  <2> QED
    BY <2>1, <2>2
<1>3. CASE Connect
  <2>1. CASE read_records = << >>
    BY <1>3, <1>a, <2>1 DEF Connect, LinkInv
  <2>2. CASE read_records # << >>
    <3>1. /\ records' = journal /\ UNCHANGED <<engineVars, journal>>
          /\ ingress = << >> /\ egress = << >> /\ Idle
      BY <1>3, <2>2 DEF Connect, read_records, LinkInv
    <3> QED
      BY <3>1 DEF ReplayInv, HasNew, HasCancel, engineVars, procVars, coreVars, Idle
  <2> QED
    BY <2>1, <2>2
<1>4. CASE QuietManage
  <2>1. restoring' => restoring
    BY <1>4, Zenon DEF QuietManage, ReplaySkips, ReplayBreaks, ReplayResolved, ReplayTimedOut,
                ReplayDone, Disconnect
  <2>2. UNCHANGED <<engineVars, journal>>
    BY <1>4, QuietFrame
  <2>3. \A i \in 1..Len(records') : \E j \in 1..Len(records) : records'[i] = records[j]
    <3>1. CASE records' = records
      BY <3>1
    <3>2. CASE records' = << >>
      BY <3>2
    <3>3. CASE records # << >> /\ records' = Tail(records)
      <4>1. /\ Len(records) \in Nat /\ Len(records') = Len(records) - 1
            /\ \A i \in 1..(Len(records) - 1) : records'[i] = records[i + 1]
        BY <3>3, ListedTail DEF ListInv
      <4> QED
        BY <4>1
    <3> QED
      BY <1>4, <3>1, <3>2, <3>3, QuietFrame
  <2> QED
    BY <2>1, <2>2, <2>3, ReplayGoesOn DEF ReplayInv, engineVars, procVars, coreVars, Idle
<1>5. CASE ReplaySends
  <2> DEFINE msg == ReplayCommand(Head(records))
  <2>0. Listed(ingress) /\ Listed(records)
    BY DEF ListInv
  <2>1. /\ UNCHANGED <<coreVars, egress, journal, records, restoring>> /\ records # << >>
        /\ ingress' \in {ingress, Append(ingress, msg)}
    BY <1>5, <2>0, WriteFrameLists DEF ReplaySends, prepare_replay
  <2>2. Readable /\ restoring => Backed(msg)
    <3>1. Head(records) = records[1] /\ 1 \in 1..Len(records)
      BY <2>0, <2>1, ListedTail
    <3> QED
      BY <3>1 DEF ReplayInv, ReplayCommand, Backed, NewOrder, CancelOrder
  <2> HIDE DEF msg
  <2>3. \A i \in 1..Len(ingress') :
          ingress'[i] = msg \/ \E j \in 1..Len(ingress) : ingress'[i] = ingress[j]
    <3>1. CASE ingress' = ingress
      BY <3>1
    <3>2. CASE ingress' = Append(ingress, msg)
      <4>1. /\ Len(ingress) \in Nat /\ Len(ingress') = Len(ingress) + 1
            /\ \A i \in 1..Len(ingress) : ingress'[i] = ingress[i]
            /\ ingress'[Len(ingress) + 1] = msg
        BY <2>0, <3>2, ListedAppend
      <4> QED
        BY <4>1
    <3> QED
      BY <2>1, <3>1, <3>2
  <2> QED
    BY <2>1, <2>2, <2>3, ReplayGoesOn DEF ReplayInv, coreVars, Idle
<1>6. CASE WriteCommand
  BY <1>6, <1>a DEF WriteCommand, LinkInv, managerVars
<1>7. CASE Break \/ Restart
  <2>1. UNCHANGED <<journal, records, restoring>> /\ ingress' = << >> /\ egress' = << >> /\ Idle'
    BY <1>7 DEF Break, Restart, LinkLost, managerVars, coreVars, Idle
  <2> QED
    BY <2>1, ReplayCutOff
<1>8. CASE Crash
  BY <1>8, <1>a DEF Crash
<1>9. CASE EngineRuns
  BY <1>9, EngineKeepsReplay
<1>10. CASE UNCHANGED systemVars
  BY <1>10, <1>b DEF systemVars, managerVars
<1> QED
  BY <1>1, <1>2, <1>3, <1>4, <1>5, <1>6, <1>7, <1>8, <1>9, <1>10,
     SystemActors, ManagerSteps

-----------------------------------------------------------------------------
(* A confirmation handed to a task, and a 200 given by it, are on disk, if  *)
(* no write failed.                                                         *)

ReplyInv ==
  Readable /\ Persisted => \A c \in Clients : reply[c] # NoReply => Proven(reply[c].terminator)

AnswerInv ==
  Readable /\ Persisted => \A c \in Clients :
    answer[c] # NoAnswer /\ answer[c].status = 200 => Backed(command[c])

LEMMA ReplyInvNext ==
  ListInv /\ LinkInv /\ HandlerInv /\ ReplayInv /\ ReplyInv /\ [SystemNext]_systemVars => ReplyInv'
<1> SUFFICES ASSUME ListInv, LinkInv, HandlerInv, ReplayInv, ReplyInv, [SystemNext]_systemVars,
                    Readable', Persisted', NEW c \in Clients, reply'[c] # NoReply
             PROVE  Proven(reply[c].terminator)'
  BY DEF ReplyInv
<1>0. /\ Readable /\ Persisted
      /\ \A id : HasNew(id) => HasNew(id)'
      /\ \A id : HasCancel(id) => HasCancel(id)'
  BY JournalKept DEF Kept
<1>a. CASE reply'[c] = reply[c]
  BY <1>0, <1>a DEF ReplyInv, Proven
<1>1. CASE handle_engine_event /\ reply'[c] # reply[c]
  <2> DEFINE event == Head(egress)
  <2>1. /\ event.type # "Trade" /\ event.order_id \in DOMAIN inflight
        /\ reply'[c].terminator = event
    BY <1>1, ReaderKeepsTasks
  <2>2. egress # << >> /\ egress \in Seq(Events) /\ Listed(journal)
    BY <1>1, ReaderFrame DEF ListInv
  <2>3. CASE event.type # "Ack"
    BY <2>1, <2>3 DEF Proven
  <2>4. CASE event.type = "Ack" /\ restoring
    <3>1. event = egress[1] /\ 1 \in 1..Len(egress)
      BY <2>2, HeadTailProperties, LenProperties, EmptySeq
    <3>2. Proven(event)
      BY <1>0, <2>4, <3>1 DEF ReplayInv
    <3> QED
      BY <1>0, <2>1, <3>2 DEF Proven
  <2>5. CASE event.type = "Ack" /\ ~ restoring
    <3>1. Record(LineOf(event))
      BY <1>1, <2>1, <2>5, ReaderFrame
    <3>2. PICK line : line = LineOf(event)
      OBVIOUS
    <3>3. IF line.type = "New" THEN HasNew(line.order_id)' ELSE HasCancel(line.order_id)'
      BY <2>2, <2>5, <3>1, <3>2, RecordKeeps
    <3>4. /\ line.order_id = event.order_id
          /\ (line.type = "New") <=> (event.kind = "Accepted")
      BY <3>2 DEF LineOf
    <3> QED
      BY <2>1, <3>3, <3>4 DEF Proven
  <2> QED
    BY <2>3, <2>4, <2>5
<1>2. ASSUME NEW d \in Clients, TaskStep(d), reply'[c] # reply[c] PROVE FALSE
  <2>1. DOMAIN reply = Clients
    BY DEF HandlerInv, TaskDomains
  <2>2. UNCHANGED reply \/ reply' = [reply EXCEPT ![d] = NoReply]
    BY <1>2 DEF TaskStep, Begin, post_order, post_cancel, Continue, Admit, Register,
                send_command, Answered, Closed, TimedOut, GiveUp
  <2> QED
    BY <1>2, <2>1, <2>2
<1>3. CASE Manage
  BY <1>3, <1>a DEF Manage, Connect, ReplaySkips, ReplaySends, ReplayBreaks, ReplayResolved,
                    ReplayTimedOut, ReplayDone, WriteCommand, Disconnect, prepare_replay,
                    handlerVars
<1>4. CASE Break \/ Restart \/ EngineRuns \/ UNCHANGED systemVars
  BY <1>4, <1>a DEF Break, Restart, EngineRuns, systemVars, handlerVars
<1>5. CASE Crash
  BY <1>5 DEF Crash
<1> QED
  BY <1>a, <1>1, <1>2, <1>3, <1>4, <1>5, SystemActors

LEMMA OnlyAnsweredConfirms ==
  ASSUME NEW event
  PROVE  /\ new_order_response(event) = 200 => event.type = "Ack" /\ event.kind = "Accepted"
         /\ cancel_response(event) = 200 => event.type = "Ack" /\ event.kind = "Cancelled"
BY DEF new_order_response, cancel_response, reject_response

LEMMA AnswerInvNext ==
  ListInv /\ LinkInv /\ HandlerInv /\ ReplyInv /\ AnswerInv /\ [SystemNext]_systemVars => AnswerInv'
<1> SUFFICES ASSUME ListInv, LinkInv, HandlerInv, ReplyInv, AnswerInv, [SystemNext]_systemVars,
                    Readable', Persisted', NEW c \in Clients,
                    answer'[c] # NoAnswer, answer'[c].status = 200
             PROVE  Backed(command[c])'
  BY DEF AnswerInv
<1>0. /\ Readable /\ Persisted
      /\ \A id : HasNew(id) => HasNew(id)'
      /\ \A id : HasCancel(id) => HasCancel(id)'
  BY JournalKept DEF Kept
<1>a. CASE answer'[c] = answer[c] /\ command'[c] = command[c]
  BY <1>0, <1>a DEF AnswerInv, Backed
<1>b. UNCHANGED <<command, answer>> => Backed(command[c])'
  BY <1>a
<1>1. ASSUME NEW d \in Clients, TaskStep(d) PROVE Backed(command[c])'
  <2>0. DOMAIN answer = Clients /\ DOMAIN command = Clients
    BY DEF HandlerInv, TaskDomains
  <2>1. CASE Begin(d) /\ c = d
    <3>1. pc[c] = "Start"
      BY <2>1 DEF Begin, post_order, post_cancel
    <3>2. answer[c] = NoAnswer
      BY <3>1 DEF HandlerInv, TaskInv
    <3>3. \/ UNCHANGED answer
          \/ \E r : answer' = [answer EXCEPT ![d] = [status |-> Gw!http_status(r), filled |-> 0]]
      BY <2>1 DEF Begin, post_order, post_cancel, Respond
    <3> QED
      BY <2>0, <2>1, <3>2, <3>3 DEF Gw!http_status
  <2>2. CASE Begin(d) /\ c # d
    BY <1>a, <2>0, <2>2 DEF Begin, post_order, post_cancel, Respond
  <2>3. CASE Answered(d) /\ c = d
    <3> DEFINE event == reply[c].terminator
    <3>1. /\ reply[c] # NoReply /\ UNCHANGED command
          /\ answer'[c].status = IF command[c].type = "NewOrder" THEN new_order_response(event)
                                 ELSE cancel_response(event)
      BY <2>0, <2>3 DEF Answered, Respond
    <3>2. Proven(event) /\ event.order_id = command[c].order_id
      BY <1>0, <3>1 DEF ReplyInv, HandlerInv, TaskInv
    <3>3. event.type = "Ack" /\ event.kind = IF command[c].type = "NewOrder" THEN "Accepted"
                                             ELSE "Cancelled"
      BY <3>1, OnlyAnsweredConfirms
    <3> QED
      BY <1>0, <3>1, <3>2, <3>3 DEF Proven, Backed
  <2>4. CASE Answered(d) /\ c # d
    BY <1>a, <2>0, <2>4 DEF Answered, Respond
  <2>5. CASE Admit(d) \/ Register(d) \/ send_command(d) \/ GiveUp(d)
    <3>1. /\ UNCHANGED command
          /\ \/ UNCHANGED answer
             \/ answer' = [answer EXCEPT ![d] = [status |-> 503, filled |-> 0]]
      BY <2>5 DEF Admit, Register, send_command, GiveUp, engine_unavailable, Respond
    <3> QED
      BY <1>a, <2>0, <3>1
  <2> QED
    BY <1>1, <2>1, <2>2, <2>3, <2>4, <2>5 DEF TaskStep, Continue, Closed, TimedOut
<1>2. CASE handle_engine_event
  BY <1>2, <1>b, ReaderFrame
<1>3. CASE Manage
  BY <1>3, <1>b DEF Manage, Connect, ReplaySkips, ReplaySends, ReplayBreaks, ReplayResolved,
                    ReplayTimedOut, ReplayDone, WriteCommand, Disconnect, prepare_replay,
                    handlerVars
<1>4. CASE Break \/ Restart \/ EngineRuns \/ UNCHANGED systemVars
  BY <1>4, <1>b DEF Break, Restart, EngineRuns, systemVars, handlerVars
<1>5. CASE Crash
  <2>1. UNCHANGED answer
    BY <1>5 DEF Crash
  <2>2. pc[c] = "Done"
    BY <2>1 DEF HandlerInv, TaskInv
  <2> QED
    BY <1>5, <1>a, <2>1, <2>2 DEF Crash
<1> QED
  BY <1>1, <1>2, <1>3, <1>4, <1>5, SystemActors

-----------------------------------------------------------------------------

DurableInv == ListInv /\ LinkInv /\ HandlerInv /\ ReplayInv /\ ReplyInv /\ AnswerInv

LEMMA DurableInit == SystemInit => DurableInv
<1> SUFFICES ASSUME SystemInit PROVE DurableInv
  OBVIOUS
<1>1. ListInv
  BY InitIInv, EmptySeq, ListedEmpty DEF SystemInit, ProcInit, ListInv
<1>2. LinkInv
  BY DEF SystemInit, ProcInit, CoreInit, LinkInv, Idle
<1>3. HandlerInv
  BY DEF SystemInit, HandlerInv, TaskDomains, EntryInv, TaskInv
<1> QED
  BY <1>1, <1>2, <1>3 DEF SystemInit, DurableInv, ReplayInv, ReplyInv, AnswerInv

(* While no write to the journal has failed and all of it can be read, a    *)
(* 200 for an order or a cancellation is given only after its line was      *)
(* written, whatever breaks, times out or crashes in between: journal lines *)
(* are written before the reply is sent, and while the journal is replayed, *)
(* when nothing is written, every confirmation is of a line already there.  *)
(* A failed write is only logged (Journal::append), so a 200 may follow it. *)
THEOREM AnswersAreDurable == SystemSpec => []AnsweredIsDurable
<1>1. SystemInit => DurableInv
  BY DurableInit
<1>2. DurableInv /\ [SystemNext]_systemVars => DurableInv'
  BY ListInvNext, LinkInvNext, HandlerInvNext, ReplayInvNext, ReplyInvNext, AnswerInvNext
     DEF DurableInv
<1>3. DurableInv => AnsweredIsDurable
  BY DEF DurableInv, AnswerInv, AnsweredIsDurable, Backed, HasNew, HasCancel
<1> QED
  BY <1>1, <1>2, <1>3, PTL DEF SystemSpec

=============================================================================
