------------------------------ MODULE Console ------------------------------
(***************************************************************************)
(* The web console and the feed it follows: it polls the REST endpoints     *)
(* until its WebSocket is open, and again when the socket drops.  Of what   *)
(* it shows only the order book is modelled.                                *)
(***************************************************************************)
EXTENDS EventFeed

CONSTANTS
  Polls,        \* requests for the book, as many as may be on their way at once
  MaxFailures   \* bound on the polls and sockets that fail

VARIABLES
  ws,          \* the console's WebSocket
  pollTimer,   \* the interval timer of the polls is set
  poll,        \* the polls on their way
  shown,       \* the book on the screen
  failures     \* polls and sockets that have failed

consoleVars == <<ws, pollTimer, poll, shown, failures>>

NoPoll == [stage |-> "None", book |-> 0]

Asked == [stage |-> "Asked", book |-> 0]

Outstanding == {p \in Polls : poll[p] # NoPoll}

Fails == failures < MaxFailures /\ failures' = failures + 1

-----------------------------------------------------------------------------
(* Polling.                                                                 *)

(* The requests leave together; nothing waits for those of an earlier poll. *)
pollOnce ==
  IF Outstanding = Polls THEN UNCHANGED poll
  ELSE poll' = [poll EXCEPT ![CHOOSE p \in Polls \ Outstanding : TRUE] = Asked]

(* Fault: the first poll is made, and no timer set.                         *)
FaultPollOnce == pollOnce /\ UNCHANGED pollTimer

startPolling ==
  IF pollTimer THEN UNCHANGED <<pollTimer, poll>> ELSE pollTimer' = TRUE /\ pollOnce

PollAgain ==
  /\ pollTimer
  /\ pollOnce
  /\ UNCHANGED <<feedVars, ws, pollTimer, shown, failures>>

(* The gateway reads the book for the request.                              *)
get_book(p) ==
  /\ poll[p] = Asked
  /\ poll' = [poll EXCEPT ![p] = [stage |-> "Served", book |-> revision]]
  /\ UNCHANGED <<feedVars, ws, pollTimer, shown, failures>>

(* All answers are in, whatever has been shown since they were asked for.   *)
RenderPoll(p) ==
  /\ poll[p].stage = "Served"
  /\ shown' = poll[p].book
  /\ poll' = [poll EXCEPT ![p] = NoPoll]
  /\ UNCHANGED <<feedVars, ws, pollTimer, failures>>

PollFails(p) ==
  /\ p \in Outstanding
  /\ Fails
  /\ poll' = [poll EXCEPT ![p] = NoPoll]
  /\ UNCHANGED <<feedVars, ws, pollTimer, shown>>

-----------------------------------------------------------------------------
(* The WebSocket.                                                           *)

(* The retry timer has fired.                                               *)
connectWs ==
  /\ ws = "Retrying"
  /\ ws' = "Connecting"
  /\ UNCHANGED <<feedVars, pollTimer, poll, shown, failures>>

Upgrade ==
  /\ ws = "Connecting"
  /\ ws_handler
  /\ UNCHANGED consoleVars

(* Fault: polling goes on.                                                  *)
FaultKeepPolling ==
  /\ ws = "Connecting" /\ task # "None"
  /\ ws' = "Open"
  /\ UNCHANGED <<feedVars, pollTimer, poll, shown, failures>>

(* stopPolling stops the timer, not the polls on their way.                 *)
onopen ==
  /\ ws = "Connecting" /\ task # "None"
  /\ ws' = "Open"
  /\ pollTimer' = FALSE
  /\ UNCHANGED <<feedVars, poll, shown, failures>>

onmessage ==
  /\ ws = "Open" /\ socket # << >>
  /\ shown' = IF Head(socket).type = "book" THEN Head(socket).revision ELSE shown
  /\ socket' = Tail(socket)
  /\ UNCHANGED <<revision, book_dirty, writer, pusher, snapshot, task, events,
                 lagged, ws, pollTimer, poll, failures>>

(* Polling starts and a new connection is scheduled.                        *)
onclose ==
  /\ ws \in {"Connecting", "Open"}
  /\ Fails
  /\ EndSocket
  /\ ws' = "Retrying"
  /\ startPolling
  /\ UNCHANGED shown

-----------------------------------------------------------------------------

(* startPolling and connectWs have run.                                     *)
ConsoleInit ==
  /\ FeedInit
  /\ ws = "Connecting" /\ pollTimer = TRUE
  /\ poll = [p \in Polls |-> IF p = CHOOSE q \in Polls : TRUE THEN Asked ELSE NoPoll]
  /\ shown = 0 /\ failures = 0

(* The steps of the gateway that leave the console alone.                   *)
Serve == Push \/ Notify \/ subscribe \/ handle_socket

ConsoleNext ==
  \/ (Write \/ Serve) /\ UNCHANGED consoleVars
  \/ PollAgain
  \/ \E p \in Polls : get_book(p) \/ RenderPoll(p) \/ PollFails(p)
  \/ connectWs \/ Upgrade \/ onopen \/ onmessage \/ onclose

ConsoleSpec == ConsoleInit /\ [][ConsoleNext]_<<feedVars, consoleVars>>

=============================================================================
