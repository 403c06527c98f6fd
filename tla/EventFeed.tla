----------------------------- MODULE EventFeed -----------------------------
(***************************************************************************)
(* The event feed of the gateway server: a dirty flag on the projected      *)
(* book, the task that pushes snapshots of a changed book, the broadcast    *)
(* channel, and the task of one WebSocket.                                  *)
(*                                                                          *)
(* The book is the number of changes made to it.  Of the other events       *)
(* (trades, acceptances, rejections, cancellations, statistics) only the    *)
(* room they take in the channel matters here.                              *)
(***************************************************************************)
EXTENDS Naturals, Sequences

CONSTANTS
  EventCapacity,    \* EVENT_CHANNEL_CAPACITY
  SocketRoom,       \* messages on their way before a send has to wait
  MaxChanges        \* bound on the changes of the book

ASSUME FeedAssumption == EventCapacity \in Nat \ {0}

VARIABLES
  revision,      \* AppState::book
  book_dirty,    \* AppState::book_dirty
  writer,        \* where the reader's and the manager's change stands
  pusher,        \* where book_broadcaster stands
  snapshot,      \* the book it has read
  task,          \* where the task of the WebSocket stands
  events,        \* what its receiver has yet to see of the broadcast channel
  lagged,        \* some of it was overwritten
  socket         \* messages written to the WebSocket and not yet handled

feedVars == <<revision, book_dirty, writer, pusher, snapshot, task, events,
              lagged, socket>>

Notice == [type |-> "other"]

BookEvent(r) == [type |-> "book", revision |-> r]

-----------------------------------------------------------------------------
(* tokio's broadcast channel keeps the latest events: a receiver that has   *)
(* fallen behind further than that loses the oldest.                        *)

broadcast(event) ==
  IF task # "Receiving" THEN UNCHANGED <<events, lagged>>
  ELSE IF Len(events) < EventCapacity
  THEN events' = Append(events, event) /\ UNCHANGED lagged
  ELSE events' = Append(Tail(events), event) /\ lagged' = TRUE

-----------------------------------------------------------------------------
(* The two tasks that change the book: the reader with an engine event, the *)
(* manager with reset_book on a new connection.                             *)

Change(w) ==
  /\ writer[w] = "Idle"
  /\ revision < MaxChanges
  /\ revision' = revision + 1
  /\ writer' = [writer EXCEPT ![w] = "Changed"]
  /\ UNCHANGED <<book_dirty, pusher, snapshot, task, events, lagged, socket>>

mark_book_dirty(w) ==
  /\ writer[w] = "Changed"
  /\ book_dirty' = TRUE
  /\ writer' = [writer EXCEPT ![w] = "Idle"]
  /\ UNCHANGED <<revision, pusher, snapshot, task, events, lagged, socket>>

(* Another event at any time: of the reader, which fans out every event of  *)
(* the engine but those of a replay, or of stats_broadcaster.               *)
Notify ==
  /\ broadcast(Notice)
  /\ UNCHANGED <<revision, book_dirty, writer, pusher, snapshot, task, socket>>

-----------------------------------------------------------------------------
(* book_broadcaster: a tick takes the flag, then reads the book, then sends.*)

take_book_dirty ==
  /\ pusher = "Waiting"
  /\ book_dirty
  /\ book_dirty' = FALSE
  /\ pusher' = "Taken"
  /\ UNCHANGED <<revision, writer, snapshot, task, events, lagged, socket>>

ReadBook ==
  /\ pusher = "Taken"
  /\ snapshot' = revision
  /\ pusher' = "Read"
  /\ UNCHANGED <<revision, book_dirty, writer, task, events, lagged, socket>>

(* Fault: the flag is cleared when the snapshot has been sent.              *)
FaultClearLate ==
  /\ pusher = "Read"
  /\ broadcast(BookEvent(snapshot))
  /\ book_dirty' = FALSE
  /\ snapshot' = 0
  /\ pusher' = "Waiting"
  /\ UNCHANGED <<revision, writer, task, socket>>

PushBook ==
  /\ pusher = "Read"
  /\ broadcast(BookEvent(snapshot))
  /\ snapshot' = 0
  /\ pusher' = "Waiting"
  /\ UNCHANGED <<revision, book_dirty, writer, task, socket>>

-----------------------------------------------------------------------------
(* The task of the WebSocket.                                               *)

(* The upgrade is answered; handle_socket starts after that.                *)
ws_handler ==
  /\ task = "None"
  /\ task' = "Upgraded"
  /\ UNCHANGED <<revision, book_dirty, writer, pusher, snapshot, events, lagged,
                 socket>>

(* The receiver sees what is sent from now on.                              *)
subscribe ==
  /\ task = "Upgraded"
  /\ task' = "Receiving"
  /\ UNCHANGED <<revision, book_dirty, writer, pusher, snapshot, events, lagged,
                 socket>>

(* Lagged: what was overwritten is skipped.                                 *)
SkipLost ==
  /\ lagged
  /\ lagged' = FALSE
  /\ UNCHANGED <<events, socket>>

SendNext ==
  /\ ~ lagged /\ events # << >>
  /\ Len(socket) < SocketRoom
  /\ socket' = Append(socket, Head(events))
  /\ events' = Tail(events)
  /\ UNCHANGED lagged

handle_socket ==
  /\ task = "Receiving"
  /\ SkipLost \/ SendNext
  /\ UNCHANGED <<revision, book_dirty, writer, pusher, snapshot, task>>

(* The connection ends, and with it the task and what was on its way.       *)
EndSocket ==
  /\ task' = "None" /\ events' = << >> /\ lagged' = FALSE /\ socket' = << >>
  /\ UNCHANGED <<revision, book_dirty, writer, pusher, snapshot>>

FeedInit ==
  /\ revision = 0 /\ book_dirty = FALSE
  /\ writer = [w \in {"reader", "manager"} |-> "Idle"]
  /\ pusher = "Waiting" /\ snapshot = 0
  /\ task = "None" /\ events = << >> /\ lagged = FALSE /\ socket = << >>

Write == \E w \in {"reader", "manager"} : Change(w) \/ mark_book_dirty(w)

Push == take_book_dirty \/ ReadBook \/ PushBook

=============================================================================
