--------------------------- MODULE GatewayServer ---------------------------
(***************************************************************************)
(* The gateway server in front of the engine: one task per HTTP request,    *)
(* the connection manager that owns the TCP connection and replays the      *)
(* journal, the reader task that applies engine events, and the state they  *)
(* share.                                                                   *)
(*                                                                          *)
(* The engine is the processing loop of EngineProcessor; its rings stand    *)
(* for everything between the two processes in that direction, and are      *)
(* large enough here to lose nothing (ServerPipeline is about what they do  *)
(* lose).  The engine answers a read only after it has processed all of it, *)
(* so nothing of a call shows outside before the call ends: the gateway's   *)
(* steps are taken between calls (Idle).                                    *)
(*                                                                          *)
(* No lock is held over an await.  A request task and the manager take a    *)
(* step per lock or await; the reader's handler, which takes one lock after *)
(* the other and is never cut off inside, is one step.                      *)
(***************************************************************************)
EXTENDS EngineProcessor

CONSTANTS
  Clients,             \* request tasks, one HTTP request each
  Requests,            \* the requests they may make
  ChannelCapacity,     \* COMMAND_CHANNEL_CAPACITY
  IdSpace, SeqSpace,   \* see Gateway
  TopGatewayQuantity,
  Absent, Malformed,
  NoCommand, NoReply, NoAnswer,
  Torn, Garbled,       \* lines of the journal that are no record
  Faults,              \* "Break", "Restart", "Timeout", "Crash", "Disk", or some of them
  MaxFaults            \* how many of them happen, each at most once

(* The replay's entries have numbers for owners, a task's have the task.    *)
ASSUME OwnersApart == Clients \cap Nat = {}

VARIABLES
  in_use, next_auto_id, next_seq,   \* AppState::gateway
  projection,    \* AppState::book
  inflight,      \* requests awaiting their terminator, by order identifier
  channel,       \* the command channel
  connected,     \* mutations are let through
  restoring,     \* the journal is being replayed
  journal,       \* the lines on disk
  pc,            \* where each request task stands
  command,       \* the message it built
  reply,         \* what its oneshot received
  answer,        \* the HTTP response
  manager,       \* where the connection manager stands
  records,       \* journal records still to be replayed
  link,          \* the TCP connection is up
  faults         \* the faults that have happened

gatewayVars == <<in_use, next_auto_id, next_seq>>

handlerVars == <<pc, command, reply, answer>>

managerVars == <<manager, records, connected, restoring>>

engineVars == <<coreVars, procVars>>

systemVars == <<engineVars, gatewayVars, projection, inflight, channel, journal,
                handlerVars, managerVars, link, faults>>

Gw == INSTANCE Gateway WITH TopPriceTicks <- MaxPriceTicks

Proj == INSTANCE Projection

OrderRequest(body) == [type |-> "Order", body |-> body]

CancelRequest(id) == [type |-> "Cancel", order_id |-> id]

Strikes(kind) ==
  /\ kind \in Faults \ faults
  /\ Cardinality(faults) < MaxFaults
  /\ faults' = faults \cup {kind}

-----------------------------------------------------------------------------
(* The shared in-flight map.  An entry's owner holds the receiving end of   *)
(* its oneshot: a request task, or the replay, whose records are told apart *)
(* by how many are left.  An entry that is removed without a reply closes   *)
(* the oneshot.                                                             *)

Entry(msg, owner) ==
  IF msg.type = "NewOrder"
  THEN [side |-> msg.side, price_ticks |-> msg.price_ticks, quantity |-> msg.quantity,
        is_cancel |-> FALSE, filled |-> 0, owner |-> owner]
  ELSE [side |-> "Buy", price_ticks |-> 0, quantity |-> 0,
        is_cancel |-> TRUE, filled |-> 0, owner |-> owner]

register_inflight(msg, owner) ==
  inflight' = Proj!With(inflight, msg.order_id, Entry(msg, owner))

drop_inflight(id) == inflight' = Proj!Without(inflight, id)

(* Fault: the entries of a lost connection are kept.                        *)
FaultKeepEntries == UNCHANGED inflight

fail_all_inflight == inflight' = << >>

(* Fault: an entry of the same identifier is not looked for.                *)
FaultNeverInFlight(id) == FALSE

InFlight(id) == id \in DOMAIN inflight

Awaited(owner) == \E id \in DOMAIN inflight : inflight[id].owner = owner

-----------------------------------------------------------------------------
(* Request tasks: post_order and post_cancel.                               *)

Respond(c, status, filled) ==
  /\ answer' = [answer EXCEPT ![c] = [status |-> status, filled |-> filled]]
  /\ pc' = [pc EXCEPT ![c] = "Done"]

engine_unavailable(c) == Respond(c, 503, 0)

(* post_order validates the request under the gateway's lock.               *)
post_order(c, body) ==
  /\ Idle
  /\ pc[c] = "Start"
  /\ \/ /\ Gw!Refusal(body) # "None"
        /\ Respond(c, Gw!http_status(Gw!Refusal(body)), 0)
        /\ UNCHANGED <<command, gatewayVars>>
     \/ /\ Gw!accept_new_order(body)
        /\ command' = [command EXCEPT ![c] = Gw!MessageFor(body)]
        /\ pc' = [pc EXCEPT ![c] = "Validated"]
        /\ UNCHANGED answer
  /\ UNCHANGED <<engineVars, projection, inflight, channel, journal, reply, managerVars,
                 link, faults>>

(* post_cancel has nothing to validate.                                     *)
post_cancel(c, id) ==
  /\ Idle
  /\ pc[c] = "Start"
  /\ command' = [command EXCEPT ![c] = CancelOrder(id)]
  /\ pc' = [pc EXCEPT ![c] = "Validated"]
  /\ UNCHANGED <<engineVars, gatewayVars, projection, inflight, channel, journal, reply,
                 answer, managerVars, link, faults>>

(* The task looks once whether the engine is connected.                     *)
Admit(c) ==
  /\ Idle
  /\ pc[c] = "Validated"
  /\ IF connected THEN pc' = [pc EXCEPT ![c] = "Admitted"] /\ UNCHANGED answer
     ELSE engine_unavailable(c)
  /\ UNCHANGED <<engineVars, gatewayVars, projection, inflight, channel, journal, command,
                 reply, managerVars, link, faults>>

(* One command per identifier may be in flight.                             *)
Register(c) ==
  /\ Idle
  /\ pc[c] = "Admitted"
  /\ IF InFlight(command[c].order_id)
     THEN engine_unavailable(c) /\ UNCHANGED inflight
     ELSE /\ register_inflight(command[c], c)
          /\ pc' = [pc EXCEPT ![c] = "Registered"]
          /\ UNCHANGED answer
  /\ UNCHANGED <<engineVars, gatewayVars, projection, channel, journal, command, reply,
                 managerVars, link, faults>>

(* send_command waits for room in the channel; no timeout covers it.        *)
send_command(c) ==
  /\ Idle
  /\ pc[c] = "Registered"
  /\ Len(channel) < ChannelCapacity
  /\ channel' = Append(channel, command[c])
  /\ pc' = [pc EXCEPT ![c] = "Waiting"]
  /\ UNCHANGED <<engineVars, gatewayVars, projection, inflight, journal, command, reply,
                 answer, managerVars, link, faults>>

(* HTTP status for a Reject of a new order, and of a cancellation.          *)
reject_response(reason) ==
  CASE reason \in {"InvalidPrice", "InvalidQuantity"} -> 400
    [] reason \in {"OrderNotFound", "NoLongerResting"} -> 409
    [] OTHER -> 503

cancel_response(event) ==
  CASE event.type = "Ack" /\ event.kind = "Cancelled" -> 200
    [] event.type = "Reject" /\ event.reason \in {"OrderNotFound", "NoLongerResting"} -> 409
    [] OTHER -> 503

new_order_response(event) ==
  CASE event.type = "Ack" /\ event.kind = "Accepted" -> 200
    [] event.type = "Reject" -> reject_response(event.reason)
    [] OTHER -> 503

(* The oneshot delivered: the terminator decides the response.              *)
Answered(c) ==
  /\ Idle
  /\ pc[c] = "Waiting"
  /\ reply[c] # NoReply
  /\ Respond(c, IF command[c].type = "NewOrder" THEN new_order_response(reply[c].terminator)
                ELSE cancel_response(reply[c].terminator),
             reply[c].filled)
  /\ reply' = [reply EXCEPT ![c] = NoReply]
  /\ UNCHANGED <<engineVars, gatewayVars, projection, inflight, channel, journal, command,
                 managerVars, link, faults>>

(* The task gives up and drops the entry of its identifier.                 *)
GiveUp(c) ==
  /\ Idle
  /\ pc[c] = "Waiting"
  /\ reply[c] = NoReply
  /\ drop_inflight(command[c].order_id)
  /\ engine_unavailable(c)
  /\ UNCHANGED <<engineVars, gatewayVars, projection, channel, journal, command, reply,
                 managerVars, link>>

(* The oneshot was closed without a reply.                                  *)
Closed(c) == GiveUp(c) /\ ~ Awaited(c) /\ UNCHANGED faults

(* A timeout on a connection that is up is an engine slower than it; those  *)
(* are counted.  On a broken connection a wait may always time out.         *)
Timeout == IF link THEN Strikes("Timeout") ELSE UNCHANGED faults

(* ENGINE_TIMEOUT passed first.                                             *)
TimedOut(c) == GiveUp(c) /\ Awaited(c) /\ Timeout

-----------------------------------------------------------------------------
(* The reader task: handle_engine_event.                                    *)

(* The entry leaves the map and its owner gets the terminator.              *)
Complete(event) ==
  LET entry == inflight[event.order_id]
  IN /\ drop_inflight(event.order_id)
     /\ reply' = IF entry.owner \in Clients
                 THEN [reply EXCEPT ![entry.owner] =
                         [terminator |-> event, filled |-> entry.filled]]
                 ELSE reply

EndsTorn == journal # << >> /\ Last(journal) = Torn

(* The file with a line written to its end: a torn last line swallows it.   *)
Written(record) ==
  IF EndsTorn THEN Append(Front(journal), Garbled) ELSE Append(journal, record)

(* The file with a line cut off at its end.                                 *)
Cut == IF EndsTorn THEN journal ELSE Append(journal, Torn)

(* A record that cannot be written, or only in part, is logged and no more: *)
(* the reader goes on and the client is answered as if it had been.         *)
append(record) ==
  \/ journal' = Written(record) /\ UNCHANGED faults
  \/ journal' \in {journal, Cut} /\ Strikes("Disk")

(* Fault: replayed commands are journalled too.                             *)
FaultAlwaysRecord(record) == append(record)

(* Journalling is off while the journal is replayed.                        *)
Record(record) ==
  IF restoring THEN UNCHANGED <<journal, faults>> ELSE append(record)

complete_accept(event) ==
  LET entry == inflight[event.order_id]
  IN /\ projection' = Proj!insert_resting(projection, event.order_id, entry.side,
                        entry.price_ticks, Proj!SaturatingSub(entry.quantity, entry.filled))
     /\ Record([type |-> "New", order_id |-> event.order_id, side |-> entry.side,
                price_ticks |-> entry.price_ticks, quantity |-> entry.quantity])

(* Fault: a cancellation is not journalled.                                 *)
FaultCancelUnrecorded(event) ==
  projection' = Proj!remove(projection, event.order_id) /\ UNCHANGED <<journal, faults>>

complete_cancel(event) ==
  /\ projection' = Proj!remove(projection, event.order_id)
  /\ Record([type |-> "Cancel", order_id |-> event.order_id])

(* An Ack or Reject nobody waits for is ignored.                            *)
HandleTerminator(event) ==
  IF event.order_id \notin DOMAIN inflight
  THEN UNCHANGED <<inflight, reply, projection, journal, faults>>
  ELSE /\ Complete(event)
       /\ IF event.type = "Reject" THEN UNCHANGED <<projection, journal, faults>>
          ELSE IF event.kind = "Accepted" THEN complete_accept(event)
          ELSE complete_cancel(event)

(* Fault: the resting order of a trade is not reduced.                      *)
FaultForgetMaker(event) ==
  /\ inflight' = IF event.incoming_id \in DOMAIN inflight
                 THEN [inflight EXCEPT ![event.incoming_id].filled = @ + event.quantity]
                 ELSE inflight
  /\ UNCHANGED <<projection, reply, journal, faults>>

(* The aggressor's entry collects the fill, the resting order is reduced.   *)
HandleTrade(event) ==
  /\ inflight' = IF event.incoming_id \in DOMAIN inflight
                 THEN [inflight EXCEPT ![event.incoming_id].filled = @ + event.quantity]
                 ELSE inflight
  /\ projection' = Proj!apply_trade(projection, event.resting_id, event.quantity)
  /\ UNCHANGED <<reply, journal, faults>>

handle_engine_event ==
  /\ link
  /\ next_event
  /\ IF Head(egress).type = "Trade" THEN HandleTrade(Head(egress))
     ELSE HandleTerminator(Head(egress))
  /\ UNCHANGED <<gatewayVars, channel, pc, command, answer, managerVars, link>>

-----------------------------------------------------------------------------
(* The connection manager: run, replay_journal, prepare_replay.             *)

(* A frame handed to the socket; on a broken connection it goes nowhere.    *)
WriteFrame(msg) ==
  IF link THEN submit(msg) ELSE UNCHANGED engineVars

(* read_records fails on a line it cannot parse, and all history with it.   *)
Readable == \A i \in 1..Len(journal) : journal[i] \notin {Torn, Garbled}

read_records == IF Readable THEN journal ELSE << >>

(* Connected: the projection restarts empty and the reader is spawned.      *)
(* Without history, or when it cannot be read, there is no replay.          *)
Connect ==
  /\ Idle
  /\ manager = "Connecting"
  /\ link' = TRUE
  /\ projection' = Proj!Empty
  /\ records' = read_records
  /\ IF read_records = << >>
     THEN manager' = "Serving" /\ connected' = TRUE /\ UNCHANGED restoring
     ELSE manager' = "Replaying" /\ restoring' = TRUE /\ UNCHANGED connected
  /\ UNCHANGED <<engineVars, gatewayVars, inflight, channel, journal, handlerVars, faults>>

(* The command of a record, with the sequence number it is given now.       *)
ReplayCommand(record) ==
  IF record.type = "New"
  THEN NewOrder(record.order_id, record.side, record.price_ticks, next_seq, record.quantity)
  ELSE CancelOrder(record.order_id)

(* Fault: cancellations are not replayed.                                   *)
FaultSkipCancels(record) ==
  InFlight(record.order_id) \/ record.type = "Cancel"

(* A record is skipped when its identifier is in flight or the codec        *)
(* refuses to encode it.                                                    *)
Skipped(record) ==
  \/ InFlight(record.order_id)
  \/ record.type = "New" /\ (record.price_ticks = 0 \/ record.quantity = 0)

ReserveRecord(record) ==
  IF record.type = "New" THEN Gw!reserve(record.order_id) ELSE UNCHANGED gatewayVars

prepare_replay ==
  /\ manager = "Replaying"
  /\ records # << >>
  /\ ReserveRecord(Head(records))
  /\ UNCHANGED <<projection, channel, journal, handlerVars, connected, link, faults>>

ReplaySkips ==
  /\ Idle
  /\ prepare_replay
  /\ Skipped(Head(records))
  /\ records' = Tail(records)
  /\ UNCHANGED <<engineVars, inflight, manager, restoring>>

ReplaySends ==
  /\ Idle
  /\ prepare_replay
  /\ ~ Skipped(Head(records))
  /\ register_inflight(ReplayCommand(Head(records)), Len(records))
  /\ WriteFrame(ReplayCommand(Head(records)))
  /\ manager' = "Awaiting"
  /\ UNCHANGED <<records, restoring>>

(* The write fails: the connection is given up and the manager starts over. *)
ReplayBreaks ==
  /\ Idle
  /\ prepare_replay
  /\ ~ Skipped(Head(records))
  /\ ~ link
  /\ fail_all_inflight
  /\ restoring' = FALSE
  /\ manager' = "Connecting"
  /\ records' = << >>
  /\ UNCHANGED engineVars

(* The terminator came, or the oneshot was closed; which one is ignored.    *)
ReplayResolved ==
  /\ Idle
  /\ manager = "Awaiting"
  /\ ~ Awaited(Len(records))
  /\ manager' = "Replaying"
  /\ records' = Tail(records)
  /\ UNCHANGED <<engineVars, gatewayVars, projection, inflight, channel, journal,
                 handlerVars, connected, restoring, link, faults>>

(* REPLAY_TIMEOUT passed first: the entry stays in flight.                  *)
ReplayTimedOut ==
  /\ Idle
  /\ manager = "Awaiting"
  /\ Awaited(Len(records))
  /\ Timeout
  /\ manager' = "Replaying"
  /\ records' = Tail(records)
  /\ UNCHANGED <<engineVars, gatewayVars, projection, inflight, channel, journal,
                 handlerVars, connected, restoring, link>>

(* Fault: end_restore is forgotten.                                         *)
FaultStayRestoring ==
  /\ Idle
  /\ manager = "Replaying"
  /\ records = << >>
  /\ connected' = TRUE
  /\ manager' = "Serving"
  /\ UNCHANGED <<engineVars, gatewayVars, projection, inflight, channel, journal,
                 handlerVars, records, restoring, link, faults>>

ReplayDone ==
  /\ Idle
  /\ manager = "Replaying"
  /\ records = << >>
  /\ restoring' = FALSE
  /\ connected' = TRUE
  /\ manager' = "Serving"
  /\ UNCHANGED <<engineVars, gatewayVars, projection, inflight, channel, journal,
                 handlerVars, records, link, faults>>

WriteCommand ==
  /\ Idle
  /\ manager = "Serving"
  /\ channel # << >>
  /\ WriteFrame(Head(channel))
  /\ channel' = Tail(channel)
  /\ UNCHANGED <<gatewayVars, projection, inflight, journal, handlerVars, managerVars,
                 link, faults>>

(* The reader ended, or the write of a command failed.  Commands still in   *)
(* the channel stay there.                                                  *)
Disconnect ==
  /\ Idle
  /\ manager = "Serving"
  /\ ~ link
  /\ \/ UNCHANGED channel
     \/ channel # << >> /\ channel' = Tail(channel)
  /\ connected' = FALSE
  /\ fail_all_inflight
  /\ manager' = "Connecting"
  /\ UNCHANGED <<engineVars, gatewayVars, projection, journal, handlerVars, records,
                 restoring, link, faults>>

-----------------------------------------------------------------------------
(* The connection and the two processes.                                    *)

(* The connection is gone, and what either side had not read yet with it.   *)
LinkLost == link' = FALSE /\ ingress' = << >> /\ egress' = << >>

(* The connection breaks; the engine goes on with the book it has.          *)
Break ==
  /\ Idle
  /\ link
  /\ Strikes("Break")
  /\ LinkLost
  /\ UNCHANGED <<coreVars, statVars, operational, gatewayVars, projection, inflight, channel,
                 journal, handlerVars, managerVars>>

(* The engine process ends and a new one starts.                            *)
Restart ==
  /\ Idle
  /\ Strikes("Restart")
  /\ LinkLost
  /\ book' = [side \in Sides |-> << >>]
  /\ retired' = << >> /\ next_exec_seq' = 1
  /\ incoming' = NoOrder /\ remaining' = 0 /\ emitted' = << >>
  /\ processed_count' = 0 /\ error_event_count' = 0 /\ egress_overflow_count' = 0
  /\ UNCHANGED <<operational, gatewayVars, projection, inflight, channel, journal,
                 handlerVars, managerVars>>

(* The reader is about to write a line to the journal.                      *)
Appending ==
  /\ egress # << >> /\ Head(egress).type = "Ack"
  /\ InFlight(Head(egress).order_id)
  /\ ~ restoring

(* The gateway process ends, in the middle of writing a line perhaps, and a *)
(* new one starts with the journal alone.  Its clients see their connection *)
(* close.                                                                   *)
Crash ==
  /\ Idle
  /\ Strikes("Crash")
  /\ LinkLost
  /\ \/ UNCHANGED journal
     \/ Appending /\ journal' = Cut
  /\ in_use' = {} /\ next_auto_id' = 1 /\ next_seq' = 0
  /\ projection' = Proj!Empty
  /\ inflight' = << >> /\ channel' = << >>
  /\ connected' = FALSE /\ restoring' = FALSE
  /\ manager' = "Connecting" /\ records' = << >>
  /\ pc' = [c \in Clients |-> IF pc[c] \in {"Start", "Done"} THEN pc[c] ELSE "Gone"]
  /\ command' = [c \in Clients |-> IF pc[c] = "Done" THEN command[c] ELSE NoCommand]
  /\ reply' = [c \in Clients |-> NoReply]
  /\ UNCHANGED <<coreVars, statVars, operational, answer>>

EngineRuns ==
  /\ Process
  /\ UNCHANGED <<gatewayVars, projection, inflight, channel, journal, handlerVars,
                 managerVars, link, faults>>

-----------------------------------------------------------------------------

SystemInit ==
  /\ ProcInit
  /\ Gw!GatewayInit
  /\ projection = Proj!Empty
  /\ inflight = << >> /\ channel = << >> /\ journal = << >>
  /\ connected = FALSE /\ restoring = FALSE
  /\ pc = [c \in Clients |-> "Start"]
  /\ command = [c \in Clients |-> NoCommand]
  /\ reply = [c \in Clients |-> NoReply]
  /\ answer = [c \in Clients |-> NoAnswer]
  /\ manager = "Connecting" /\ records = << >> /\ link = FALSE
  /\ faults = {}

Begin(c) ==
  \E r \in Requests :
    IF r.type = "Order" THEN post_order(c, r.body) ELSE post_cancel(c, r.order_id)

(* What a request task does once it runs, its timeout apart.                *)
Continue(c) == Admit(c) \/ Register(c) \/ send_command(c) \/ Answered(c) \/ Closed(c)

Manage ==
  \/ Connect
  \/ ReplaySkips \/ ReplaySends \/ ReplayBreaks
  \/ ReplayResolved \/ ReplayTimedOut \/ ReplayDone
  \/ WriteCommand
  \/ Disconnect

SystemNext ==
  \/ \E c \in Clients : Begin(c) \/ Continue(c) \/ TimedOut(c)
  \/ handle_engine_event
  \/ Manage
  \/ Break
  \/ Restart
  \/ Crash
  \/ EngineRuns

SystemSpec == SystemInit /\ [][SystemNext]_systemVars

=============================================================================
