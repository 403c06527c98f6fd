----------------------------- MODULE RingBuffer -----------------------------
(***************************************************************************)
(* The circular array behind the ingress and egress rings.  It implements   *)
(* BoundedQueue.                                                            *)
(***************************************************************************)
EXTENDS Integers, Sequences

CONSTANTS Values, Capacity, NoValue

ASSUME RingAssumption == Capacity \in Nat \ {0}

VARIABLES
  slots,    \* slots_, the inline storage
  head,     \* head_, index of the oldest element
  tail,     \* tail_, index of the next free slot
  count,    \* count_, number of buffered elements
  out       \* the output parameter of the latest successful try_pop

vars == <<slots, head, tail, count, out>>

(* Fault: the index wraps one place late.                                   *)
FaultWrapLate(index) == IF index = Capacity THEN 0 ELSE index + 1

advance(index) == IF index + 1 = Capacity THEN 0 ELSE index + 1

(* Fault: the ring takes one element too many.                              *)
FaultFullLate == count > Capacity

full == count = Capacity

Init ==
  /\ slots = [i \in 0..(Capacity - 1) |-> NoValue]
  /\ head = 0
  /\ tail = 0
  /\ count = 0
  /\ out = NoValue

try_push(v) ==
  IF full THEN UNCHANGED vars
  ELSE /\ slots' = [slots EXCEPT ![tail] = v]
       /\ tail' = advance(tail)
       /\ count' = count + 1
       /\ UNCHANGED <<head, out>>

(* The element moved out is a plain value: its slot keeps it.               *)
try_pop ==
  /\ count # 0
  /\ out' = slots[head]
  /\ head' = advance(head)
  /\ count' = count - 1
  /\ UNCHANGED <<slots, tail>>

Next == try_pop \/ \E v \in Values : try_push(v)

Spec == Init /\ [][Next]_vars

-----------------------------------------------------------------------------

(* Index `k` places after `start` on the circle, for k up to Capacity.      *)
Wrap(start, k) == IF start + k >= Capacity THEN start + k - Capacity ELSE start + k

(* The three indices try_push and try_pop maintain one at a time always     *)
(* describe one window: tail_ is count_ places after head_, which also      *)
(* tells a full ring (head_ = tail_) from an empty one.                     *)
WindowConsistent ==
  /\ slots \in [0..(Capacity - 1) -> Values \cup {NoValue}]
  /\ head \in 0..(Capacity - 1)
  /\ tail \in 0..(Capacity - 1)
  /\ count \in 0..Capacity
  /\ out \in Values \cup {NoValue}
  /\ tail = Wrap(head, count)
  /\ \A k \in 0..(count - 1) : slots[Wrap(head, k)] \in Values

Contents == [i \in 1..count |-> slots[Wrap(head, i - 1)]]

Queue == INSTANCE BoundedQueue WITH queue <- Contents

(* try_push and try_pop are those of a bounded FIFO, whatever the number of *)
(* times the indices have wrapped: nothing buffered is overwritten, lost,   *)
(* repeated or reordered, and a refused push changes nothing.               *)
ImplementsBoundedQueue == Queue!Spec

=============================================================================
