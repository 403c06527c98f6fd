-------------------------- MODULE MCGatewayServer --------------------------
(***************************************************************************)
(* Gateway and engine together, next to what the engine confirmed, in its   *)
(* own order, and the book it had after each confirmation.                  *)
(***************************************************************************)
EXTENDS GatewayServer, TLC

VARIABLES
  confirmed,    \* commands the engine confirmed with an Ack since it started
  ended,        \* those of the engine that ran before, until it is restored
  outlived,     \* the engine has outlived a connection
  early,        \* tasks whose order a new gateway validated before its replay
  displaced     \* a task that gave up has dropped the entry of another command

ghostVars == <<confirmed, ended, outlived, early, displaced>>

mcVars == <<systemVars, ghostVars>>

(* The orders of a book in priority order, without their numbers.           *)
Shape(b) ==
  [side \in Sides |->
     [i \in 1..Len(b[side]) |-> <<b[side][i].order_id, b[side][i].price_ticks,
                                  b[side][i].remaining_qty>>]]

(* The command the engine confirms by this step, if it confirms one.        *)
Confirmation ==
  LET event == Last(egress')
  IN IF Len(egress') <= Len(egress) \/ event.type # "Ack" THEN << >>
     ELSE IF event.kind = "Cancelled"
     THEN << [type |-> "Cancel", order_id |-> event.order_id, after |-> Shape(book')] >>
     ELSE << [type |-> "New", order_id |-> event.order_id, side |-> incoming.side,
              price_ticks |-> incoming.price_ticks, quantity |-> incoming.quantity,
              filled |-> incoming.quantity - remaining, seq |-> incoming.seq,
              after |-> Shape(book')] >>

EngineRestarts == "Restart" \in faults' \ faults

(* Nothing is on its way: no command or event is pending.                   *)
Settled ==
  /\ manager = "Serving" /\ link /\ Idle
  /\ channel = << >> /\ ingress = << >> /\ egress = << >>
  /\ inflight = << >>

MCInit == SystemInit /\ confirmed = << >> /\ ended = << >> /\ outlived = FALSE
          /\ early = {} /\ displaced = FALSE

(* A task gives up and finds in its place the entry of another command.     *)
Displaces(c) ==
  /\ pc[c] = "Waiting" /\ reply[c] = NoReply /\ pc'[c] = "Done"
  /\ InFlight(command[c].order_id) /\ inflight[command[c].order_id].owner # c

(* What a step does to them.                                                *)
GhostNext ==
  /\ early' = {c \in Clients :
                 \/ c \in early /\ (pc[c] = "Validated" => pc'[c] \notin {"Done", "Gone"})
                 \/ /\ pc[c] = "Start" /\ pc'[c] = "Validated"
                    /\ "Crash" \in faults /\ ~ connected}
  /\ displaced' = (displaced \/ \E c \in Clients : Displaces(c))
  /\ IF EngineRestarts
     THEN /\ confirmed' = << >>
          /\ ended' = IF restoring THEN ended ELSE confirmed
          /\ outlived' = FALSE
     ELSE /\ confirmed' = confirmed \o Confirmation
          /\ ended' = IF manager # "Serving" /\ manager' = "Serving" THEN << >> ELSE ended
          /\ outlived' = (outlived \/ (link /\ ~ link'))

MCNext == SystemNext /\ GhostNext

MCSpec == MCInit /\ [][MCNext]_mcVars

(* Tasks, reader, manager and engine are scheduled; the connection manager  *)
(* keeps retrying, and an engine is there to be reached.  Nothing makes a   *)
(* client send a request; of the timers only the replay's is relied on.     *)
MCFairSpec ==
  /\ MCSpec
  /\ \A c \in Clients : WF_mcVars(Continue(c) /\ GhostNext)
  /\ WF_mcVars(handle_engine_event /\ GhostNext)
  /\ WF_mcVars(Manage /\ GhostNext)
  /\ WF_mcVars(EngineRuns /\ GhostNext)

-----------------------------------------------------------------------------

AsRecord(entry) ==
  IF entry.type = "Cancel" THEN [type |-> "Cancel", order_id |-> entry.order_id]
  ELSE [type |-> "New", order_id |-> entry.order_id, side |-> entry.side,
        price_ticks |-> entry.price_ticks, quantity |-> entry.quantity]

Accepted(id) ==
  {i \in 1..Len(confirmed) : confirmed[i].type = "New" /\ confirmed[i].order_id = id}

Cancelled(id) ==
  {i \in 1..Len(confirmed) : confirmed[i].type = "Cancel" /\ confirmed[i].order_id = id}

(* No wait for a connected engine timed out.  After one, an answer that     *)
(* comes late finds no entry, or the entry of another command on the same   *)
(* identifier, and what depends on the pairing of the two is lost.          *)
InTime == "Timeout" \notin faults

(* No line failed to be written.  A line that did is missing from the       *)
(* journal though its command was carried out and answered.                 *)
Persisted == "Disk" \notin faults

(* A response tells the truth about the engine, over every interleaving of  *)
(* request tasks that share identifiers: 200 for an order means the engine  *)
(* accepted it and filled just that much of it on arrival, a rejection      *)
(* means it never did, and 200 for a cancellation means it was cancelled.   *)
TruthfulAnswers ==
  InTime => \A c \in Clients :
    answer[c] # NoAnswer /\ command[c] # NoCommand =>
      LET id == command[c].order_id
      IN CASE command[c].type = "NewOrder" /\ answer[c].status = 200 ->
                \E i \in Accepted(id) : confirmed[i].filled = answer[c].filled
           [] command[c].type = "NewOrder" /\ answer[c].status \in {400, 409} ->
                Accepted(id) = {}
           [] command[c].type = "CancelOrder" /\ answer[c].status = 200 ->
                Cancelled(id) # {}
           [] OTHER -> TRUE

(* The engine's book as a ladder of aggregated levels.                      *)
Ladder(side) ==
  LET at(price) == {i \in 1..Len(book[side]) : book[side][i].price_ticks = price}
      prices == Ranked(Prices(side), LAMBDA a, b : price_ranks_first(side, a, b))
  IN [i \in 1..Len(prices) |->
        [price |-> prices[i], orders |-> Cardinality(at(prices[i])),
         quantity |-> MapThenSumSet(LAMBDA j : book[side][j].remaining_qty,
                                    at(prices[i]))]]

(* Once nothing is on its way, the ladder GET /api/book serves is the       *)
(* engine's book, though it was derived from fills and submitted quantities *)
(* without ever seeing that book.                                           *)
ProjectionAgrees ==
  InTime /\ Settled =>
    \A side \in Sides : Proj!snapshot(projection, side, MaxOrders) = Ladder(side)

(* Once nothing is on its way, and while the disk takes what is appended,   *)
(* the journal is the list of the commands the engine confirmed, in the     *)
(* order in which it did.                                                   *)
JournalAgrees ==
  InTime /\ Persisted /\ Settled => journal = [i \in 1..Len(confirmed) |-> AsRecord(confirmed[i])]

(* Every request is answered, timely or late, unless the gateway itself     *)
(* ends: a disconnect fails the waiting tasks, and a command that missed it *)
(* is written to the next connection.                                       *)
EveryRequestAnswered ==
  \A c \in Clients :
    pc[c] \in {"Validated", "Admitted", "Registered", "Waiting"} ~> pc[c] \in {"Done", "Gone"}

(* No order that was validated before the replay was over is let through    *)
(* after it: a gateway that has just started may have given it an           *)
(* identifier of the journal.                                               *)
NoneEarly == \A c \in early : pc[c] = "Validated"

(* The journal has one line for each order.                                 *)
EachOnce ==
  LET orders == {i \in 1..Len(journal) : journal[i] \notin {Torn, Garbled}
                                         /\ journal[i].type = "New"}
  IN \A i, j \in orders : journal[i].order_id = journal[j].order_id => i = j

(* The engine, which does not look for duplicates itself, never holds two   *)
(* resting orders with one identifier: the gateway forwards each identifier *)
(* once, and replays it once to an engine that has lost it, while the       *)
(* journal has it once.  An engine that outlives its connection has not     *)
(* lost it: see EmptyOnConnect.                                             *)
NoTwins ==
  ~ outlived /\ NoneEarly /\ EachOnce =>
    \A s, t \in Sides : \A i \in 1..Len(book[s]), j \in 1..Len(book[t]) :
      book[s][i].order_id = book[t][j].order_id => s = t /\ i = j

(* No order is journalled twice, over restarts of the engine and broken     *)
(* connections: the terminators of a replay are not recorded again.  Entries*)
(* are kept by identifier alone: a task that gives up may drop the entry    *)
(* the replay waits on, and the terminator then comes after the replay.     *)
JournalledOnce ==
  InTime /\ Readable /\ NoneEarly /\ ~ displaced => EachOnce

(* What a client was told is done is on disk, while the disk takes what is  *)
(* appended: a 200 for an order or for a cancellation is given only after   *)
(* its line was written, so that no crash of the gateway or the engine      *)
(* takes it back.  "Persistence is best-effort": after a failed write the   *)
(* client is told 200 as well, and nothing is on disk.                      *)
AnsweredIsDurable ==
  Readable /\ Persisted => \A c \in Clients :
    answer[c] # NoAnswer /\ answer[c].status = 200 =>
      \E i \in 1..Len(journal) :
        /\ journal[i].order_id = command[c].order_id
        /\ (journal[i].type = "New") = (command[c].type = "NewOrder")

(* README.md: "replaying the accepted-command history reconstructs the      *)
(* identical order book".  When a replay into a restarted engine ends, and  *)
(* the journal lists what the engine before had confirmed up to some point, *)
(* the book is that engine's book at that point, priorities included.  It   *)
(* takes orders that reached the engine in the order of their numbers, and  *)
(* no request in flight for an identifier of the journal: the replay skips  *)
(* that identifier's records.                                               *)
ReplayRebuildsBook ==
  [][LET n == Len(journal)
         past == SubSeq(ended, 1, n)
         InOrder == \A i, j \in 1..n :
           i < j /\ past[i].type = "New" /\ past[j].type = "New" => past[i].seq < past[j].seq
     IN (/\ ReplayDone /\ ingress = << >> /\ InTime /\ ~ outlived
         /\ n <= Len(ended) /\ journal = [i \in 1..n |-> AsRecord(past[i])]
         /\ InOrder
         /\ \A i \in 1..n : ~ InFlight(journal[i].order_id))
        => Shape(book) = past[n].after]_mcVars

(* Each aggregated level of the projection is the sum of the orders tracked *)
(* at its price, and there is a level exactly where there is an order:      *)
(* insert_resting, apply_trade and remove update the two separately, and    *)
(* after a timeout they also see events of orders that are not tracked.     *)
LevelsAggregateOrders ==
  \A side \in Sides :
    LET tracked == projection.orders
        levels == projection.levels[side]
        at(price) == {id \in DOMAIN tracked : tracked[id].side = side
                                              /\ tracked[id].price_ticks = price}
    IN /\ DOMAIN levels = {price \in 0..MaxPriceTicks : at(price) # {}}
       /\ \A price \in DOMAIN levels :
            /\ levels[price].orders = Cardinality(at(price))
            /\ levels[price].quantity =
                 MapThenSumSet(LAMBDA id : tracked[id].remaining, at(price))

(* gateway-server/src/state.rs: "a reconnected engine starts from an empty  *)
(* book".  The engine the gateway is connected to has an empty book when    *)
(* the replay starts.                                                       *)
EmptyOnConnect ==
  manager = "Replaying" /\ records = journal /\ link => book = [side \in Sides |-> << >>]

-----------------------------------------------------------------------------

Body(side, tenths, qty, id) ==
  [side |-> side, price |-> tenths, quantity |-> qty, order_id |-> id]

(* Orders with and without an identifier, one the gateway refuses, one only *)
(* the engine refuses, and a cancellation that may come early or late.      *)
LiveRequests ==
  {OrderRequest(Body("Sell", 10, 1, Absent)), OrderRequest(Body("Buy", 14, 2, Absent)),
   OrderRequest(Body("Sell", 20, 1, 1)), OrderRequest(Body("Buy", 10, 3, 2)),
   OrderRequest(Body("Buy", 9, 1, Absent)), CancelRequest(1)}

(* Orders that trade with each other, one with an identifier of its own,    *)
(* and a cancellation.                                                      *)
RestartRequests ==
  {OrderRequest(Body("Buy", 10, 2, Absent)), OrderRequest(Body("Sell", 10, 1, 1)),
   CancelRequest(1)}

ClientSymmetry == Permutations(Clients)

=============================================================================
