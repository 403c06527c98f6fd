---------------------------- MODULE BoundedQueue ----------------------------
(***************************************************************************)
(* What RingBuffer promises: a FIFO of at most Capacity elements that        *)
(* refuses a push when it is full and leaves the output alone when it is     *)
(* empty.                                                                    *)
(***************************************************************************)
EXTENDS Naturals, Sequences

CONSTANTS
  Values,      \* the elements
  Capacity,    \* the fixed capacity
  NoValue      \* what the output parameter holds before the first pop

VARIABLES
  queue,       \* the buffered elements, oldest first
  out          \* the output parameter of the latest successful try_pop

try_push(v) ==
  /\ queue' = IF Len(queue) = Capacity THEN queue ELSE Append(queue, v)
  /\ UNCHANGED out

try_pop ==
  /\ queue # << >>
  /\ queue' = Tail(queue)
  /\ out' = Head(queue)

Init == queue = << >> /\ out = NoValue

Next == try_pop \/ \E v \in Values : try_push(v)

Spec == Init /\ [][Next]_<<queue, out>>

=============================================================================
