----------------------------- MODULE MCConsole -----------------------------
(***************************************************************************)
(* The console and its feed, with a note of snapshots the socket's task was *)
(* too slow for, and of whether the screen follows the socket alone.        *)
(***************************************************************************)
EXTENDS Console

VARIABLES
  missed,       \* a snapshot was overwritten before this socket's task saw it
  following     \* a snapshot from this socket was shown with no poll on its way

mcVars == <<feedVars, consoleVars, missed, following>>

GhostNext ==
  /\ following' = /\ ws' = "Open"
                  /\ \/ following
                     \/ /\ Outstanding = {} /\ Len(socket') < Len(socket)
                        /\ Head(socket).type = "book"
  /\ missed' = /\ task' = "Receiving"
               /\ \/ missed
                  \/ lagged' /\ events' # events /\ Head(events).type = "book"

MCInit == ConsoleInit /\ missed = FALSE /\ following = FALSE

MCNext == ConsoleNext /\ GhostNext

(* The gateway's tasks and the browser's event loop are scheduled, timers   *)
(* fire and requests are answered.  Nothing makes the book change or sends  *)
(* an event that is about something else.                                   *)
MCSpec ==
  /\ MCInit /\ [][MCNext]_mcVars
  /\ \A w \in {"reader", "manager"} :
       WF_mcVars(mark_book_dirty(w) /\ UNCHANGED consoleVars /\ GhostNext)
  /\ WF_mcVars(Push /\ UNCHANGED consoleVars /\ GhostNext)
  /\ WF_mcVars((subscribe \/ handle_socket) /\ UNCHANGED consoleVars /\ GhostNext)
  /\ WF_mcVars(onmessage /\ GhostNext)
  /\ WF_mcVars(PollAgain /\ GhostNext)
  /\ \A p \in Polls : WF_mcVars((get_book(p) \/ RenderPoll(p)) /\ GhostNext)

Streaming == ws = "Open" /\ task = "Receiving"

Changing == book_dirty \/ \E w \in DOMAIN writer : writer[w] = "Changed"

(* A change of the book reaches a console whose socket is up: the pusher    *)
(* clears the flag before it reads the book, so a change it does not see    *)
(* sets the flag again.  A snapshot the socket's task was too slow for is   *)
(* not sent again, and neither is one from before the subscription.         *)
EveryChangeIsStreamed ==
  \A r \in 1..MaxChanges :
    (Streaming /\ Changing /\ revision = r) ~> (shown >= r \/ ~ Streaming \/ missed)

(* Once a snapshot from the socket was shown with no poll on its way, the   *)
(* book on the screen does not go back until the socket drops: snapshots    *)
(* are pushed in order, and onopen has stopped the polls.                   *)
NeverShowsOlder == [][following /\ following' => shown' >= shown]_mcVars

(* README.md: the console "falls back to REST polling if the socket drops". *)
(* While the socket is down the screen catches up with the book, though     *)
(* answers of overlapping polls may be rendered in any order.               *)
PollingCatchesUp ==
  \A r \in 1..MaxChanges : (ws # "Open" /\ revision = r) ~> (shown >= r \/ ws = "Open")

=============================================================================
