------------------------- MODULE MeasurementProofs -------------------------
(***************************************************************************)
(* Theorems about the parts a measured run is made of, each for every value *)
(* of its constants: the ring buffer, the allocation counter, the benchmark *)
(* that reads the counter around the orders it records, and the ranks its   *)
(* percentiles are taken at.                                                *)
(***************************************************************************)
EXTENDS MCMeasurement, SequenceTheorems, FiniteSetTheorems, TLAPS

-----------------------------------------------------------------------------
(* The ring buffer: the circular array implements the bounded FIFO.         *)
(*                                                                          *)
(* WindowConsistent is inductive as it stands.  It makes Contents the       *)
(* count_ slots from head_ onwards, so a push appends to it and a pop takes *)
(* its head; both facts are arithmetic on Wrap.                             *)

(* Moving both ends of an offset by one place, before and after the wrap.   *)
LEMMA WrapFacts ==
  ASSUME NEW h \in 0..(Capacity - 1)
  PROVE  /\ \A k \in 0..Capacity : Wrap(h, k) \in 0..(Capacity - 1)
         /\ Wrap(h, 0) = h
         /\ \A k \in 0..(Capacity - 1) : Wrap(h, k + 1) = advance(Wrap(h, k))
         /\ \A k \in 0..(Capacity - 1) : Wrap(advance(h), k) = Wrap(h, k + 1)
         /\ \A j, k \in 0..(Capacity - 1) : Wrap(h, j) = Wrap(h, k) => j = k
BY RingAssumption DEF Wrap, advance

LEMMA FunctionIsSeq ==
  ASSUME NEW n \in Nat, NEW f \in [1..n -> Values]
  PROVE  f \in Seq(Values) /\ Len(f) = n
<1>1. f \in Seq(Values)
  BY SeqDef
<1>2. 1..Len(f) = 1..n /\ Len(f) \in Nat
  BY <1>1, LenProperties
<1>3. n \in 1..n \/ n = 0
  OBVIOUS
<1>4. Len(f) \in 1..Len(f) \/ Len(f) = 0
  BY <1>2
<1> QED
  BY <1>1, <1>2, <1>3, <1>4

(* Contents is a sequence of count_ elements, and so it is after a step.    *)
LEMMA ContentsIsSeq ==
  /\ WindowConsistent =>
       /\ Contents \in Seq(Values) /\ Len(Contents) = count
       /\ \A i \in 1..count : Contents[i] = slots[Wrap(head, i - 1)]
  /\ WindowConsistent' =>
       /\ Contents' \in Seq(Values) /\ Len(Contents') = count'
       /\ \A i \in 1..count' : Contents'[i] = slots'[Wrap(head', i - 1)]
<1>1. ASSUME WindowConsistent
      PROVE  /\ Contents \in Seq(Values) /\ Len(Contents) = count
             /\ \A i \in 1..count : Contents[i] = slots[Wrap(head, i - 1)]
  <2>1. count \in Nat /\ \A i \in 1..count : i - 1 \in 0..(count - 1)
    BY <1>1, RingAssumption DEF WindowConsistent
  <2>2. Contents \in [1..count -> Values]
    BY <1>1, <2>1 DEF WindowConsistent, Contents
  <2> QED
    BY <2>1, <2>2, FunctionIsSeq DEF Contents
<1>2. ASSUME WindowConsistent'
      PROVE  /\ Contents' \in Seq(Values) /\ Len(Contents') = count'
             /\ \A i \in 1..count' : Contents'[i] = slots'[Wrap(head', i - 1)]
  <2>1. count' \in Nat /\ \A i \in 1..count' : i - 1 \in 0..(count' - 1)
    <3>1. count' \in 0..Capacity
      BY <1>2 DEF WindowConsistent
    <3>2. count' \in Nat
      BY <3>1, RingAssumption
    <3>3. \A n \in Nat : \A i \in 1..n : i - 1 \in 0..(n - 1)
      OBVIOUS
    <3> QED
      BY <3>2, <3>3
  <2>2. Contents' \in [1..count' -> Values]
    BY <1>2, <2>1 DEF WindowConsistent, Contents
  <2> QED
    BY <2>1, <2>2, FunctionIsSeq DEF Contents
<1> QED
  BY <1>1, <1>2

LEMMA PushKeeps ==
  ASSUME WindowConsistent, NEW v \in Values, ~ full, try_push(v)
  PROVE  /\ WindowConsistent'
         /\ Contents' = Append(Contents, v)
<1>1. count \in 0..(Capacity - 1) /\ count' = count + 1 /\ count' \in 0..Capacity
  BY RingAssumption DEF WindowConsistent, full, try_push
<1>2. /\ head' = head /\ out' = out
      /\ tail' = advance(tail) /\ tail = Wrap(head, count)
      /\ slots' = [slots EXCEPT ![tail] = v]
      /\ slots \in [0..(Capacity - 1) -> Values \cup {NoValue}]
      /\ head \in 0..(Capacity - 1) /\ tail \in 0..(Capacity - 1)
  BY DEF WindowConsistent, full, try_push
<1>3. tail' = Wrap(head', count') /\ tail' \in 0..(Capacity - 1)
  BY <1>1, <1>2, WrapFacts
<1>4. \A k \in 0..(count - 1) :
        /\ k \in 0..(Capacity - 1)
        /\ Wrap(head, k) \in 0..(Capacity - 1) /\ Wrap(head, k) # tail
        /\ slots'[Wrap(head, k)] = slots[Wrap(head, k)]
        /\ slots[Wrap(head, k)] \in Values
  <2> SUFFICES ASSUME NEW k \in 0..(count - 1)
               PROVE  /\ k \in 0..(Capacity - 1)
                      /\ Wrap(head, k) \in 0..(Capacity - 1) /\ Wrap(head, k) # tail
                      /\ slots'[Wrap(head, k)] = slots[Wrap(head, k)]
                      /\ slots[Wrap(head, k)] \in Values
    OBVIOUS
  <2>1. k \in 0..(Capacity - 1) /\ k \in 0..Capacity /\ k # count
    BY <1>1, RingAssumption
  <2>2. Wrap(head, k) \in 0..(Capacity - 1) /\ Wrap(head, k) # tail
    BY <1>1, <1>2, <2>1, WrapFacts
  <2>3. slots[Wrap(head, k)] \in Values
    BY DEF WindowConsistent
  <2> QED
    BY <1>2, <2>1, <2>2, <2>3
<1>5. slots'[Wrap(head, count)] = v
  BY <1>2
<1>6. \A k \in 0..(count' - 1) : slots'[Wrap(head', k)] \in Values
  <2>1. \A k \in 0..(count' - 1) : k \in 0..(count - 1) \/ k = count
    BY <1>1
  <2> QED
    BY <1>2, <1>4, <1>5, <2>1
<1>7. WindowConsistent'
  <2>1. slots' \in [0..(Capacity - 1) -> Values \cup {NoValue}]
    BY <1>2
  <2>2. out' \in Values \cup {NoValue}
    BY <1>2 DEF WindowConsistent
  <2> QED
    BY <1>1, <1>2, <1>3, <1>6, <2>1, <2>2 DEF WindowConsistent
<1>8. Contents' = Append(Contents, v)
  <2>1. /\ Contents \in Seq(Values) /\ Len(Contents) = count
        /\ \A i \in 1..count : Contents[i] = slots[Wrap(head, i - 1)]
    BY ContentsIsSeq
  <2>2. /\ Contents' \in Seq(Values) /\ Len(Contents') = count + 1
        /\ \A i \in 1..(count + 1) : Contents'[i] = slots'[Wrap(head, i - 1)]
    BY <1>1, <1>2, <1>7, ContentsIsSeq
  <2>3. /\ Append(Contents, v) \in Seq(Values)
        /\ Len(Append(Contents, v)) = count + 1
        /\ \A i \in 1..count : Append(Contents, v)[i] = Contents[i]
        /\ Append(Contents, v)[count + 1] = v
    BY <2>1, AppendProperties
  <2>4. \A i \in 1..(count + 1) :
          \/ i = count + 1 /\ i - 1 = count
          \/ i \in 1..count /\ i - 1 \in 0..(count - 1)
    BY <1>1
  <2>5. \A i \in 1..(count + 1) : Contents'[i] = Append(Contents, v)[i]
    BY <1>4, <1>5, <2>1, <2>2, <2>3, <2>4
  <2> QED
    BY <2>2, <2>3, <2>5, SeqEqual
<1> QED
  BY <1>7, <1>8

LEMMA PopKeeps ==
  ASSUME WindowConsistent, try_pop
  PROVE  /\ WindowConsistent'
         /\ Contents # << >>
         /\ Contents' = Tail(Contents)
         /\ out' = Head(Contents)
<1>1. /\ count \in 1..Capacity /\ count' = count - 1 /\ count' \in 0..Capacity
      /\ count' \in 0..(Capacity - 1) /\ count = count' + 1
  BY RingAssumption DEF WindowConsistent, try_pop
<1>2. /\ head' = advance(head) /\ out' = slots[head]
      /\ tail' = tail /\ tail = Wrap(head, count) /\ slots' = slots
      /\ head \in 0..(Capacity - 1) /\ tail \in 0..(Capacity - 1)
  BY DEF WindowConsistent, try_pop
<1>3. \A k \in 0..(Capacity - 1) : Wrap(head', k) = Wrap(head, k + 1)
  BY <1>2, WrapFacts
<1>4. tail' = Wrap(head', count') /\ head' \in 0..(Capacity - 1)
  <2>1. advance(head) \in 0..(Capacity - 1)
    BY <1>2, RingAssumption DEF advance
  <2> QED
    BY <1>1, <1>2, <1>3, <2>1
<1>5. \A k \in 0..(count' - 1) : k \in 0..(Capacity - 1) /\ k + 1 \in 0..(count - 1)
  BY <1>1, RingAssumption
<1>6. \A k \in 0..(count' - 1) : slots'[Wrap(head', k)] \in Values
  BY <1>2, <1>3, <1>5 DEF WindowConsistent
<1>7. Wrap(head, 0) = head /\ slots[head] \in Values
  <2>1. 0 \in 0..(count - 1)
    BY <1>1
  <2>2. Wrap(head, 0) = head
    BY <1>2, WrapFacts
  <2> QED
    BY <2>1, <2>2 DEF WindowConsistent
<1>8. WindowConsistent'
  BY <1>1, <1>2, <1>4, <1>6, <1>7 DEF WindowConsistent
<1>9. /\ Contents \in Seq(Values) /\ Len(Contents) = count
      /\ \A i \in 1..count : Contents[i] = slots[Wrap(head, i - 1)]
  BY ContentsIsSeq
<1>10. Contents # << >>
  BY <1>1, <1>9, EmptySeq
<1>11. out' = Head(Contents)
  <2>1. 1 \in 1..count /\ 1 - 1 = 0
    BY <1>1
  <2>2. Contents[1] = slots[head]
    BY <1>7, <1>9, <2>1
  <2> QED
    BY <1>2, <1>9, <2>2
<1>12. Contents' = Tail(Contents)
  <2>1. /\ Contents' \in Seq(Values) /\ Len(Contents') = count'
        /\ \A i \in 1..count' : Contents'[i] = slots'[Wrap(head', i - 1)]
    BY <1>8, ContentsIsSeq
  <2>2. /\ Tail(Contents) \in Seq(Values) /\ Len(Tail(Contents)) = count'
        /\ \A i \in 1..count' : Tail(Contents)[i] = Contents[i + 1]
    BY <1>1, <1>9, <1>10, HeadTailProperties
  <2>3. \A i \in 1..count' :
          /\ i - 1 \in 0..(Capacity - 1) /\ i + 1 \in 1..count
          /\ (i - 1) + 1 = (i + 1) - 1
    BY <1>1, RingAssumption
  <2>4. \A i \in 1..count' : Contents'[i] = Tail(Contents)[i]
    <3> SUFFICES ASSUME NEW i \in 1..count' PROVE Contents'[i] = Tail(Contents)[i]
      OBVIOUS
    <3>1. Contents'[i] = slots[Wrap(head, (i - 1) + 1)]
      BY <1>2, <1>3, <2>1, <2>3
    <3>2. Tail(Contents)[i] = slots[Wrap(head, (i + 1) - 1)]
      BY <1>9, <2>2, <2>3
    <3> QED
      BY <2>3, <3>1, <3>2
  <2> QED
    BY <2>1, <2>2, <2>4, SeqEqual
<1> QED
  BY <1>8, <1>10, <1>11, <1>12

-----------------------------------------------------------------------------

LEMMA StepKeeps ==
  ASSUME WindowConsistent, [Next]_vars
  PROVE  WindowConsistent' /\ [Queue!Next]_<<Contents, out>>
<1>1. CASE UNCHANGED vars
  BY <1>1 DEF vars, WindowConsistent, Contents
<1>2. CASE try_pop
  <2>1. Queue!try_pop
    BY <1>2, PopKeeps DEF Queue!try_pop
  <2> QED
    BY <1>2, <2>1, PopKeeps DEF Queue!Next
<1>3. ASSUME NEW v \in Values, try_push(v), full
      PROVE  WindowConsistent' /\ [Queue!Next]_<<Contents, out>>
  BY <1>1, <1>3 DEF try_push
<1>4. ASSUME NEW v \in Values, try_push(v), ~ full
      PROVE  WindowConsistent' /\ [Queue!Next]_<<Contents, out>>
  <2>1. Len(Contents) # Capacity
    BY <1>4, ContentsIsSeq DEF full
  <2>2. Queue!try_push(v)
    BY <1>4, <2>1, PushKeeps DEF Queue!try_push, try_push, vars
  <2> QED
    BY <1>4, <2>2, PushKeeps DEF Queue!Next
<1> QED
  BY <1>1, <1>2, <1>3, <1>4 DEF Next

LEMMA InitConsistent ==
  ASSUME Init
  PROVE  WindowConsistent /\ Queue!Init
<1>1. /\ 0 \in 0..(Capacity - 1) /\ count \in 0..Capacity
      /\ \A k \in 0..(count - 1) : FALSE
  BY RingAssumption DEF Init
<1>2. tail = Wrap(head, count)
  BY RingAssumption DEF Init, Wrap
<1>3. WindowConsistent
  BY <1>1, <1>2 DEF Init, WindowConsistent
<1>4. Contents = << >>
  BY <1>3, ContentsIsSeq, EmptySeq DEF Init
<1> QED
  BY <1>3, <1>4 DEF Init, Queue!Init

(* After any number of wraps tail_ is count_ places after head_, and every  *)
(* slot between them holds a pushed element.                                *)
THEOREM RingWindow == Spec => []WindowConsistent
<1>1. Init => WindowConsistent
  BY InitConsistent
<1>2. WindowConsistent /\ [Next]_vars => WindowConsistent'
  BY StepKeeps
<1> QED
  BY <1>1, <1>2, PTL DEF Spec

(* try_push and try_pop on the circular array are those of a bounded FIFO.  *)
THEOREM RingRefinesQueue == Spec => ImplementsBoundedQueue
<1>1. Init => Queue!Init
  BY InitConsistent
<1>2. WindowConsistent /\ [Next]_vars => [Queue!Next]_<<Contents, out>>
  BY StepKeeps
<1> QED
  BY <1>1, <1>2, RingWindow, PTL DEF Spec, Queue!Spec, ImplementsBoundedQueue

-----------------------------------------------------------------------------
(* The allocation counter: the counts stay paired, whatever the threads do. *)

Places == {"Program", "Malloc", "Allocations", "Bytes", "Returned", "Threw", "Free"}

AllocInv ==
  /\ g_allocations \in Int /\ g_deallocations \in Int /\ g_bytes_allocated \in Int
  /\ heap \in Int /\ live \in Int
  /\ call \in [Threads -> Places]
  /\ CountsArePaired

OneIf(condition) == IF condition THEN 1 ELSE 0

(* One thread moves: the places it leaves lose one, those it enters gain    *)
(* one.                                                                     *)
LEMMA ThreadMoves ==
  ASSUME call \in [Threads -> Places], NEW t \in Threads, NEW p,
         call' = [call EXCEPT ![t] = p], NEW places
  PROVE  /\ At(places) \in Nat
         /\ At(places)' = At(places) - OneIf(call[t] \in places) + OneIf(p \in places)
<1> DEFINE S == {u \in Threads : call[u] \in places}
           S2 == {u \in Threads : call'[u] \in places}
           R == S \ {t}
<1>1. IsFiniteSet(S) /\ IsFiniteSet(S2) /\ IsFiniteSet(R)
  BY ThreadsAssumption, FS_Subset
<1>2. Cardinality(S) \in Nat /\ Cardinality(S2) \in Nat /\ Cardinality(R) \in Nat
  BY <1>1, FS_CardinalityType
<1>3. /\ S = IF call[t] \in places THEN R \cup {t} ELSE R
      /\ S2 = IF p \in places THEN R \cup {t} ELSE R
      /\ t \notin R
  OBVIOUS
<1>4. At(places) = Cardinality(S) /\ At(places)' = Cardinality(S2)
  BY DEF At
<1> HIDE DEF S, S2, R
<1>5. Cardinality(R \cup {t}) = Cardinality(R) + 1
  BY <1>1, <1>3, FS_AddElement
<1> QED
  BY <1>2, <1>3, <1>4, <1>5 DEF OneIf

(* Back in the program after operator new returned or threw.                *)
Settle(t) ==
  /\ call[t] \in {"Returned", "Threw"}
  /\ call' = [call EXCEPT ![t] = "Program"]
  /\ UNCHANGED <<counterVars, heap, live>>

HeapStep(t) ==
  \/ StartNew(t) \/ Malloc(t) \/ CountAllocation(t) \/ CountBytes(t)
  \/ note_deallocation(t) \/ Free(t) \/ Settle(t)

LEMMA HeapStepKeeps ==
  ASSUME AllocInv, NEW t \in Threads, HeapStep(t)
  PROVE  AllocInv'
<1>1. call \in [Threads -> Places] /\ call[t] \in Places
  BY DEF AllocInv
<1>2. PICK p \in Places : call' = [call EXCEPT ![t] = p]
  BY DEF HeapStep, StartNew, Malloc, CountAllocation, CountBytes, note_deallocation, Free,
         Settle, Places
<1>3. call' \in [Threads -> Places] /\ call'[t] = p
  BY <1>1, <1>2
<1>4. /\ At({"Bytes"}) \in Nat
      /\ At({"Bytes"})' =
           At({"Bytes"}) - OneIf(call[t] \in {"Bytes"}) + OneIf(p \in {"Bytes"})
  BY <1>1, <1>2, ThreadMoves
<1>5. /\ At({"Allocations", "Bytes", "Free"}) \in Nat
      /\ At({"Allocations", "Bytes", "Free"})' =
           At({"Allocations", "Bytes", "Free"})
             - OneIf(call[t] \in {"Allocations", "Bytes", "Free"})
             + OneIf(p \in {"Allocations", "Bytes", "Free"})
  BY <1>1, <1>2, ThreadMoves
<1>6. /\ g_allocations \in Int /\ g_deallocations \in Int /\ g_bytes_allocated \in Int
      /\ heap \in Int /\ live \in Int
      /\ g_allocations - g_deallocations = live + At({"Bytes"})
      /\ heap = live + At({"Allocations", "Bytes", "Free"})
      /\ g_allocations = g_bytes_allocated + At({"Bytes"})
  BY DEF AllocInv, CountsArePaired
<1>7. SUFFICES
        /\ g_allocations' \in Int /\ g_deallocations' \in Int /\ g_bytes_allocated' \in Int
        /\ heap' \in Int /\ live' \in Int
        /\ g_allocations' - g_deallocations' = live' + At({"Bytes"})'
        /\ heap' = live' + At({"Allocations", "Bytes", "Free"})'
        /\ g_allocations' = g_bytes_allocated' + At({"Bytes"})'
  BY <1>3 DEF AllocInv, CountsArePaired
<1>8. CASE StartNew(t)
  <2>1. /\ call[t] \in {"Program", "Returned", "Threw"} /\ p = "Malloc"
        /\ UNCHANGED <<counterVars, heap, live>>
    BY <1>1, <1>3, <1>8 DEF StartNew, InProgram
  <2> QED
    BY <1>4, <1>5, <1>6, <2>1 DEF OneIf, counterVars
<1>9. CASE Malloc(t)
  <2>1. /\ call[t] = "Malloc" /\ UNCHANGED <<counterVars, live>>
        /\ \/ p = "Allocations" /\ heap' = heap + 1
           \/ p = "Threw" /\ heap' = heap
    BY <1>1, <1>3, <1>9 DEF Malloc
  <2> QED
    BY <1>4, <1>5, <1>6, <2>1 DEF OneIf, counterVars
<1>10. CASE CountAllocation(t)
  <2>1. /\ call[t] = "Allocations" /\ p = "Bytes" /\ g_allocations' = g_allocations + 1
        /\ UNCHANGED <<g_deallocations, g_bytes_allocated, heap, live>>
    BY <1>1, <1>3, <1>10 DEF CountAllocation, fetch_add
  <2> QED
    BY <1>4, <1>5, <1>6, <2>1 DEF OneIf
<1>11. CASE CountBytes(t)
  <2>1. /\ call[t] = "Bytes" /\ p = "Returned" /\ live' = live + 1
        /\ g_bytes_allocated' = g_bytes_allocated + 1
        /\ UNCHANGED <<g_allocations, g_deallocations, heap>>
    BY <1>1, <1>3, <1>11 DEF CountBytes
  <2>2. At({"Bytes"})' = At({"Bytes"}) - 1
    BY <1>4, <2>1 DEF OneIf
  <2>3. At({"Allocations", "Bytes", "Free"})' = At({"Allocations", "Bytes", "Free"}) - 1
    BY <1>5, <2>1 DEF OneIf
  <2>4. /\ g_allocations' - g_deallocations' = live' + At({"Bytes"})'
        /\ g_allocations' = g_bytes_allocated' + At({"Bytes"})'
    BY <1>4, <1>6, <2>1, <2>2
  <2>5. heap' = live' + At({"Allocations", "Bytes", "Free"})'
    BY <1>5, <1>6, <2>1, <2>3
  <2> QED
    BY <1>6, <2>1, <2>4, <2>5
<1>12. CASE note_deallocation(t)
  <2>1. /\ call[t] \in {"Program", "Returned", "Threw"} /\ p = "Free" /\ live' = live - 1
        /\ g_deallocations' = g_deallocations + 1
        /\ UNCHANGED <<g_allocations, g_bytes_allocated, heap>>
    BY <1>1, <1>3, <1>12 DEF note_deallocation, InProgram
  <2> QED
    BY <1>4, <1>5, <1>6, <2>1 DEF OneIf
<1>13. CASE Free(t)
  <2>1. /\ call[t] = "Free" /\ p = "Program" /\ heap' = heap - 1
        /\ UNCHANGED <<counterVars, live>>
    BY <1>1, <1>3, <1>13 DEF Free
  <2> QED
    BY <1>4, <1>5, <1>6, <2>1 DEF OneIf, counterVars
<1>14. CASE Settle(t)
  <2>1. /\ call[t] \in {"Returned", "Threw"} /\ p = "Program"
        /\ UNCHANGED <<counterVars, heap, live>>
    BY <1>1, <1>3, <1>14 DEF Settle
  <2> QED
    BY <1>4, <1>5, <1>6, <2>1 DEF OneIf, counterVars
<1> QED
  BY <1>8, <1>9, <1>10, <1>11, <1>12, <1>13, <1>14 DEF HeapStep

(* Of what the counter keeps, a step of the measured run changes nothing or *)
(* makes one of the steps above.                                            *)
LEMMA ResumeIsHeapStep ==
  ASSUME NEW op, NEW room, Resume(op, room)
  PROVE  note_deallocation(Driver) \/ Settle(Driver)
BY DEF Resume, Settle

LEMMA DriverHeapStep ==
  ASSUME DriverStep
  PROVE  UNCHANGED heapVars \/ HeapStep(Driver)
<1>1. ASSUME NEW volume \in Volumes, Construct(volume)
      PROVE  UNCHANGED heapVars \/ HeapStep(Driver)
  BY <1>1 DEF Construct, Ask, HeapStep, allocVars
<1>2. CASE EndConstruct \/ EndRecord \/ EndSort
  BY <1>2, ResumeIsHeapStep DEF EndConstruct, EndRecord, EndSort, HeapStep
<1>3. ASSUME NEW p \in Percentages, Query(p)
      PROVE  UNCHANGED heapVars \/ HeapStep(Driver)
  BY <1>3 DEF Query, percentile, Ask, HeapStep, allocVars
<1>4. ASSUME NEW elapsed, finalize(elapsed) PROVE UNCHANGED heapVars
  BY <1>4 DEF finalize, allocVars
<1>5. CASE Inside(Driver)
  BY <1>5 DEF Inside, HeapStep
<1>6. CASE Observe
  BY <1>6 DEF Observe, LoadAllocations, LoadDeallocations, LoadBytes
<1> QED
  BY <1>1, <1>2, <1>3, <1>4, <1>5, <1>6 DEF DriverStep

LEMMA MeasureHeapStep ==
  ASSUME [MeasureNext]_measureVars
  PROVE  UNCHANGED heapVars \/ \E t \in Threads : HeapStep(t)
<1>1. CASE UNCHANGED measureVars
  BY <1>1 DEF measureVars, allocVars
<1>2. ASSUME NEW v \in Values, Submit(v) PROVE UNCHANGED heapVars \/ HeapStep(Driver)
  BY <1>2 DEF Submit, record, record_success, record_failure, Ask, HeapStep, allocVars
<1>3. CASE DriverStep
  BY <1>3, DriverHeapStep, DriverAssumption
<1>4. CASE Abandon
  <2>1. Settle(Driver)
    BY <1>4 DEF Abandon, Settle
  <2> QED
    BY <2>1, DriverAssumption DEF HeapStep
<1>5. CASE UNCHANGED allocVars
  BY <1>5 DEF allocVars
<1>6. ASSUME NEW t \in Threads \ {Driver}, ThreadStep(t) PROVE HeapStep(t)
  BY <1>6 DEF ThreadStep, Inside, HeapStep
<1> QED
  BY <1>1, <1>2, <1>3, <1>4, <1>5, <1>6, DriverAssumption DEF MeasureNext

LEMMA AllocInvHolds == MeasureSpec => []AllocInv
<1>1. MeasureInit => AllocInv
  <2> SUFFICES ASSUME MeasureInit PROVE AllocInv
    OBVIOUS
  <2>1. /\ g_allocations = 0 /\ g_deallocations = 0 /\ g_bytes_allocated = 0
        /\ heap = 0 /\ live = 0 /\ call = [t \in Threads |-> "Program"]
    BY DEF MeasureInit, AllocInit
  <2>2. call \in [Threads -> Places]
    BY <2>1 DEF Places
  <2>3. /\ {t \in Threads : call[t] \in {"Bytes"}} = {}
        /\ {t \in Threads : call[t] \in {"Allocations", "Bytes", "Free"}} = {}
    BY <2>1
  <2>4. At({"Bytes"}) = 0 /\ At({"Allocations", "Bytes", "Free"}) = 0
    BY <2>3, FS_EmptySet DEF At
  <2> QED
    BY <2>1, <2>2, <2>4 DEF AllocInv, CountsArePaired
<1>2. AllocInv /\ [MeasureNext]_measureVars => AllocInv'
  <2> SUFFICES ASSUME AllocInv, [MeasureNext]_measureVars PROVE AllocInv'
    OBVIOUS
  <2>1. CASE UNCHANGED heapVars
    BY <2>1 DEF heapVars, counterVars, AllocInv, CountsArePaired, At
  <2>2. ASSUME NEW t \in Threads, HeapStep(t) PROVE AllocInv'
    BY <2>2, HeapStepKeeps
  <2> QED
    BY <2>1, <2>2, MeasureHeapStep
<1> QED
  BY <1>1, <1>2, PTL DEF MeasureSpec

(* The counters differ by the blocks held and handed out at every moment,   *)
(* for any number of threads and blocks, and when malloc fails.             *)
THEOREM CounterPaired == MeasureSpec => []CountsArePaired
<1>1. AllocInv => CountsArePaired
  BY DEF AllocInv
<1> QED
  BY <1>1, AllocInvHolds, PTL

-----------------------------------------------------------------------------
(* The measured run: recording orders allocates nothing.                    *)
(*                                                                          *)
(* The driver is inside operator new only for an operation that waits in    *)
(* doing; a record waits only when more orders were submitted than          *)
(* configured, since the vector has room for those.  A sort that fails      *)
(* counts nothing, one that succeeds leaves room in sorted_ for good.       *)

DriverTypes ==
  /\ order_volume \in Nat /\ capacity \in Nat /\ samples \in Seq(Nat)
  /\ sorted_capacity \in Nat /\ accepted \in Nat /\ refused \in Nat /\ theirs \in Int
  /\ before \in [allocations : Int, deallocations : Int, bytes_allocated : Int]
  /\ doing.op = "Record" => doing.arg \in Nat

(* The recorded orders fit, and no statistic was asked for.                 *)
Bracketed ==
  /\ before.allocations # -1
  /\ accepted + refused <= order_volume
  /\ sorted_capacity = 0

(* The allocation of a sort that is not over has been counted.              *)
SortCounted == doing.op = "Sort" /\ call[Driver] \in {"Bytes", "Returned"}

(* No sample without an accepted order, the one being recorded included.    *)
RoomTaken == Len(samples) + OneIf(doing.op = "Record") <= accepted

(* While it is bracketed, what it shows is of other threads or of a sort.   *)
Attributed == Bracketed => allocations_since = theirs + OneIf(SortCounted)

DriverInv ==
  /\ DriverTypes
  /\ call[Driver] \in {"Malloc", "Allocations", "Bytes"} => doing.op # "None"
  /\ doing.op \in {"None", "Reserve", "Record", "Sort"}
  /\ doing.op = "Reserve" => stage = "Unbuilt"
  /\ stage = "Unbuilt" => before.allocations = -1
  /\ before.allocations = -1 => theirs = 0
  /\ stage = "Running" => order_volume <= capacity
  /\ RoomTaken
  /\ doing.op = "Record" => accepted > order_volume
  /\ doing.op = "Sort" => samples # << >>
  /\ Attributed

LEMMA DriverInvInit ==
  ASSUME MeasureInit
  PROVE  DriverInv
<1>1. /\ order_volume = 0 /\ stage = "Unbuilt" /\ samples = << >> /\ capacity = 0
      /\ sorted_capacity = 0 /\ doing = Nothing /\ accepted = 0 /\ refused = 0 /\ theirs = 0
      /\ before = [allocations |-> -1, deallocations |-> -1, bytes_allocated |-> -1]
      /\ call = [t \in Threads |-> "Program"]
  BY DEF MeasureInit, BenchInit, AllocInit
<1>2. doing.op = "None" /\ before.allocations = -1 /\ call[Driver] = "Program"
  BY <1>1, DriverAssumption DEF Nothing
<1>3. /\ before \in [allocations : Int, deallocations : Int, bytes_allocated : Int]
      /\ << >> \in Seq(Nat) /\ Len(<< >>) = 0
  BY <1>1
<1>4. DriverTypes
  BY <1>1, <1>2, <1>3 DEF DriverTypes
<1> QED
  BY <1>1, <1>2, <1>3, <1>4 DEF DriverInv, RoomTaken, Attributed, Bracketed, OneIf

(* Another thread's allocations are all in theirs.                          *)
LEMMA ThreadKeepsDriver ==
  ASSUME AllocInv, DriverInv, NEW t \in Threads \ {Driver}, ThreadStep(t)
  PROVE  DriverInv'
<1>1. /\ UNCHANGED <<benchVars, accepted, refused>>
      /\ theirs' = IF before.allocations = -1 THEN 0
                   ELSE theirs + (g_allocations' - g_allocations)
      /\ before' = before
  BY DEF ThreadStep, Inside
<1>2. PICK p : call' = [call EXCEPT ![t] = p]
  BY DEF ThreadStep, Inside, StartNew, Malloc, CountAllocation, CountBytes,
         note_deallocation, Free
<1>3. call'[Driver] = call[Driver]
  BY <1>2, DriverAssumption DEF AllocInv
<1>4. g_allocations \in Int /\ g_allocations' \in Int
  <2>1. g_allocations' = g_allocations \/ g_allocations' = g_allocations + 1
    BY DEF ThreadStep, Inside, StartNew, Malloc, CountAllocation, CountBytes,
           note_deallocation, Free, fetch_add, counterVars
  <2> QED
    BY <2>1 DEF AllocInv
<1>5. /\ order_volume' = order_volume /\ stage' = stage /\ samples' = samples
      /\ capacity' = capacity /\ sorted_capacity' = sorted_capacity /\ doing' = doing
      /\ accepted' = accepted /\ refused' = refused
  BY <1>1 DEF benchVars, statVars
<1>6. DriverTypes'
  BY <1>1, <1>4, <1>5 DEF DriverInv, DriverTypes
<1>7. before.allocations \in Int /\ theirs \in Int /\ OneIf(SortCounted) \in Int
  BY DEF DriverInv, DriverTypes, OneIf
<1>8. Attributed'
  <2>1. Bracketed' = Bracketed /\ SortCounted' = SortCounted
    BY <1>1, <1>3, <1>5 DEF Bracketed, SortCounted
  <2>2. Bracketed => /\ before.allocations # -1
                     /\ g_allocations - before.allocations = theirs + OneIf(SortCounted)
    BY DEF DriverInv, Attributed, Bracketed, allocations_since
  <2> QED
    BY <1>1, <1>4, <1>7, <2>1, <2>2 DEF Attributed, allocations_since
<1>9. RoomTaken'
  BY <1>5 DEF DriverInv, RoomTaken
<1> QED
  BY <1>1, <1>3, <1>5, <1>6, <1>8, <1>9 DEF DriverInv

LEMMA SampleAdded ==
  ASSUME NEW s \in Seq(Nat), NEW e \in Nat
  PROVE  Append(s, e) \in Seq(Nat) /\ Len(Append(s, e)) = Len(s) + 1
BY AppendProperties

LEMMA SumsGrow ==
  \A a, b, c, d, v \in Nat : c >= a /\ d >= b /\ c + d <= v => a + b <= v
OBVIOUS

(* A step of the driver that counts no allocation and neither takes nor     *)
(* leaves an operation that needs memory.                                   *)
LEMMA IdleKeepsDriver ==
  ASSUME AllocInv, DriverInv, doing.op = "None", doing'.op = "None",
         call'[Driver] \notin {"Malloc", "Allocations", "Bytes"},
         g_allocations' = g_allocations, before' = before, theirs' = theirs,
         order_volume' = order_volume, stage' = stage, capacity' = capacity,
         sorted_capacity' = sorted_capacity,
         samples' \in Seq(Nat), accepted' \in Nat, refused' \in Nat,
         accepted' >= accepted, refused' >= refused, Len(samples') <= accepted'
  PROVE  DriverInv'
<1>1. DriverTypes'
  BY DEF DriverInv, DriverTypes
<1>2. /\ accepted \in Nat /\ refused \in Nat /\ order_volume \in Nat
      /\ Len(samples') \in Nat
  BY LenProperties DEF DriverInv, DriverTypes
<1>3. Bracketed' => Bracketed
  <2>1. accepted' + refused' <= order_volume => accepted + refused <= order_volume
    BY <1>2, SumsGrow
  <2> QED
    BY <2>1 DEF Bracketed
<1>4. ~ SortCounted /\ ~ SortCounted'
  BY DEF SortCounted
<1>5. Attributed'
  BY <1>3, <1>4 DEF DriverInv, Attributed, allocations_since, OneIf
<1>6. RoomTaken'
  BY <1>2 DEF RoomTaken, OneIf
<1> QED
  BY <1>1, <1>5, <1>6 DEF DriverInv

(* Of an operation that waits for memory only a sort can be bracketed.      *)
LEMMA OnlySortsBracketed ==
  ASSUME DriverInv, Bracketed
  PROVE  doing.op # "Reserve" /\ doing.op # "Record"
<1>1. accepted \in Nat /\ refused \in Nat /\ order_volume \in Nat
  BY DEF DriverInv, DriverTypes
<1>2. accepted <= order_volume
  BY <1>1 DEF Bracketed
<1> QED
  BY <1>1, <1>2 DEF DriverInv, Bracketed

(* The driver inside operator new or delete.                                *)
LEMMA InsideKeepsDriver ==
  ASSUME AllocInv, DriverInv, Inside(Driver), UNCHANGED benchVars, UNCHANGED ghostVars
  PROVE  DriverInv'
<1>1. /\ order_volume' = order_volume /\ stage' = stage /\ samples' = samples
      /\ capacity' = capacity /\ sorted_capacity' = sorted_capacity /\ doing' = doing
      /\ accepted' = accepted /\ refused' = refused /\ theirs' = theirs
      /\ before' = before
  BY DEF benchVars, statVars, ghostVars, Inside
<1>2. /\ call \in [Threads -> Places] /\ Driver \in Threads /\ g_allocations \in Int
      /\ before.allocations \in Int /\ theirs \in Int
  BY DriverAssumption DEF AllocInv, DriverInv, DriverTypes
<1>3. DriverTypes'
  BY <1>1 DEF DriverInv, DriverTypes
<1>4. Bracketed' = Bracketed
  BY <1>1 DEF Bracketed
<1>5. /\ call'[Driver] \in {"Malloc", "Allocations", "Bytes"} =>
           call[Driver] \in {"Malloc", "Allocations", "Bytes"}
      /\ \/ /\ g_allocations' = g_allocations
            /\ call[Driver] \in {"Bytes", "Returned"} <=> call'[Driver] \in {"Bytes", "Returned"}
         \/ /\ g_allocations' = g_allocations + 1
            /\ call[Driver] = "Allocations" /\ call'[Driver] = "Bytes"
  <2>1. CASE Malloc(Driver)
    BY <1>2, <2>1 DEF Malloc, counterVars
  <2>2. CASE CountAllocation(Driver)
    BY <1>2, <2>2 DEF CountAllocation, fetch_add
  <2>3. CASE CountBytes(Driver)
    BY <1>2, <2>3 DEF CountBytes
  <2>4. CASE Free(Driver)
    BY <1>2, <2>4 DEF Free, counterVars
  <2> QED
    BY <2>1, <2>2, <2>3, <2>4 DEF Inside
<1>6. ASSUME Bracketed
      PROVE  allocations_since' = theirs + OneIf(SortCounted')
  <2>1. g_allocations - before.allocations = theirs + OneIf(SortCounted)
    BY <1>6 DEF DriverInv, Attributed, allocations_since
  <2>2. CASE /\ g_allocations' = g_allocations
             /\ call[Driver] \in {"Bytes", "Returned"} <=> call'[Driver] \in {"Bytes", "Returned"}
    <3>1. SortCounted' <=> SortCounted
      BY <1>1, <2>2 DEF SortCounted
    <3> QED
      BY <1>1, <2>1, <2>2, <3>1 DEF allocations_since, OneIf
  <2>3. CASE /\ g_allocations' = g_allocations + 1
             /\ call[Driver] = "Allocations" /\ call'[Driver] = "Bytes"
    <3>1. doing.op = "Sort"
      BY <1>6, <2>3, OnlySortsBracketed DEF DriverInv
    <3>2. ~ SortCounted /\ SortCounted'
      BY <1>1, <2>3, <3>1 DEF SortCounted
    <3> QED
      BY <1>1, <1>2, <2>1, <2>3, <3>2 DEF allocations_since, OneIf
  <2> QED
    BY <1>5, <2>2, <2>3
<1>7. Attributed'
  BY <1>1, <1>4, <1>6 DEF Attributed
<1>8. RoomTaken'
  BY <1>1 DEF DriverInv, RoomTaken
<1> QED
  BY <1>1, <1>3, <1>5, <1>7, <1>8 DEF DriverInv

(* The vector of the driver has asked for memory.                           *)
LEMMA AskKeepsDriver ==
  ASSUME AllocInv, DriverInv, NEW op \in {"Reserve", "Record", "Sort"}, NEW arg, Ask(op, arg),
         doing.op = "None", theirs' = theirs, stage' = stage, capacity' = capacity,
         sorted_capacity' = sorted_capacity, samples' = samples,
         order_volume' \in Nat, stage = "Unbuilt" \/ order_volume' = order_volume,
         accepted' \in Nat, refused' \in Nat, accepted' >= accepted, refused' >= refused,
         op = "Reserve" => stage = "Unbuilt",
         op = "Record" => /\ arg \in Nat /\ accepted' > order_volume
                          /\ Len(samples) + 1 <= accepted' /\ stage = "Running",
         op = "Sort" => samples # << >>,
         stage = "Running" => order_volume' = order_volume
  PROVE  DriverInv'
<1>1. /\ g_allocations' = g_allocations /\ before' = before
      /\ doing' = [op |-> op, arg |-> arg] /\ call' = [call EXCEPT ![Driver] = "Malloc"]
  BY DEF Ask, StartNew, counterVars
<1>2. doing'.op = op /\ doing'.arg = arg /\ call'[Driver] = "Malloc"
  BY <1>1, DriverAssumption DEF AllocInv
<1>3. /\ accepted \in Nat /\ refused \in Nat /\ order_volume \in Nat
      /\ samples \in Seq(Nat) /\ Len(samples) \in Nat
      /\ Len(samples) <= accepted
  BY LenProperties DEF DriverInv, DriverTypes, RoomTaken, OneIf
<1>4. DriverTypes'
  BY <1>1, <1>2 DEF DriverInv, DriverTypes
<1>5. Bracketed' => Bracketed
  <2>1. accepted' + refused' <= order_volume => accepted + refused <= order_volume
    BY <1>3, SumsGrow
  <2> QED
    BY <1>1, <2>1 DEF Bracketed, DriverInv
<1>6. ~ SortCounted /\ ~ SortCounted'
  BY <1>2 DEF SortCounted
<1>7. Attributed'
  BY <1>1, <1>5, <1>6 DEF DriverInv, Attributed, allocations_since, OneIf
<1>8. RoomTaken'
  BY <1>2, <1>3 DEF RoomTaken, OneIf
<1>9. doing'.op = "Record" => accepted' > order_volume'
  BY <1>2
<1> QED
  BY <1>1, <1>2, <1>4, <1>7, <1>8, <1>9 DEF DriverInv

LEMMA ReadyFacts ==
  ASSUME AllocInv, DriverInv, Ready
  PROVE  /\ stage = "Running" /\ doing.op = "None"
         /\ call[Driver] \notin {"Malloc", "Allocations", "Bytes"}
         /\ order_volume <= capacity
         /\ samples \in Seq(Nat) /\ Len(samples) \in Nat /\ Len(samples) <= accepted
         /\ accepted \in Nat /\ refused \in Nat /\ order_volume \in Nat /\ capacity \in Nat
<1>1. stage = "Running" /\ doing.op = "None"
  BY DEF Ready, Nothing
<1>2. call[Driver] \notin {"Malloc", "Allocations", "Bytes"}
  BY DEF Ready, InProgram
<1>3. /\ samples \in Seq(Nat) /\ Len(samples) \in Nat
      /\ accepted \in Nat /\ refused \in Nat /\ order_volume \in Nat /\ capacity \in Nat
  BY LenProperties DEF DriverInv, DriverTypes
<1>4. Len(samples) <= accepted
  BY <1>1, <1>3 DEF DriverInv, RoomTaken, OneIf
<1> QED
  BY <1>1, <1>2, <1>3, <1>4 DEF DriverInv

(* An order is recorded in the room there is; when there is none, more      *)
(* orders were submitted than the room was made for.                        *)
LEMMA SubmitKeepsDriver ==
  ASSUME AllocInv, DriverInv, NEW v \in Values, Submit(v)
  PROVE  DriverInv'
<1>1. /\ Ready /\ theirs' = theirs /\ record(~ full, Latency(v)) /\ Latency(v) \in Nat
      /\ accepted' = accepted + (IF full THEN 0 ELSE 1)
      /\ refused' = refused + (IF full THEN 1 ELSE 0)
  BY DEF Submit, record, record_success, record_failure, Latency
<1>2. PICK latency \in Nat : latency = Latency(v)
  BY <1>1
<1>3. /\ stage = "Running" /\ doing.op = "None"
      /\ call[Driver] \notin {"Malloc", "Allocations", "Bytes"}
      /\ order_volume <= capacity
      /\ samples \in Seq(Nat) /\ Len(samples) \in Nat /\ Len(samples) <= accepted
      /\ accepted \in Nat /\ refused \in Nat /\ order_volume \in Nat /\ capacity \in Nat
  BY <1>1, ReadyFacts
<1>4. /\ accepted' \in Nat /\ refused' \in Nat /\ accepted' >= accepted /\ refused' >= refused
  BY <1>1, <1>3
<1>5. CASE full
  <2>1. /\ order_volume' = order_volume /\ stage' = stage /\ samples' = samples
        /\ capacity' = capacity /\ sorted_capacity' = sorted_capacity /\ doing' = doing
        /\ call' = call /\ g_allocations' = g_allocations /\ before' = before
    BY <1>1, <1>5 DEF record, record_failure, statVars, allocVars, heapVars, counterVars
  <2>2. Len(samples') <= accepted'
    BY <1>3, <1>4, <2>1
  <2> QED
    BY <1>1, <1>3, <1>4, <2>1, <2>2, IdleKeepsDriver
<1>6. CASE ~ full /\ Len(samples) < capacity
  <2>1. /\ order_volume' = order_volume /\ stage' = stage
        /\ samples' = Append(samples, latency)
        /\ capacity' = capacity /\ sorted_capacity' = sorted_capacity /\ doing' = doing
        /\ call' = call /\ g_allocations' = g_allocations /\ before' = before
    BY <1>1, <1>2, <1>6 DEF record, record_success, AddSample, allocVars, heapVars, counterVars
  <2>2. samples' \in Seq(Nat) /\ Len(samples') = Len(samples) + 1
    BY <1>3, <2>1, SampleAdded
  <2>3. Len(samples') <= accepted'
    BY <1>1, <1>3, <1>6, <2>2
  <2> QED
    BY <1>1, <1>3, <1>4, <2>1, <2>2, <2>3, IdleKeepsDriver
<1>7. CASE ~ full /\ ~ (Len(samples) < capacity)
  <2>1. /\ Ask("Record", latency) /\ order_volume' = order_volume /\ stage' = stage
        /\ samples' = samples /\ capacity' = capacity /\ sorted_capacity' = sorted_capacity
    BY <1>1, <1>2, <1>7 DEF record, record_success
  <2>2. accepted' > order_volume /\ Len(samples) + 1 <= accepted'
    BY <1>1, <1>3, <1>7
  <2> QED
    BY <1>1, <1>3, <1>4, <2>1, <2>2, AskKeepsDriver
<1> QED
  BY <1>5, <1>6, <1>7

LEMMA QueryKeepsDriver ==
  ASSUME AllocInv, DriverInv, NEW p \in Percentages, Query(p), UNCHANGED ghostVars
  PROVE  DriverInv'
<1>1. /\ Ready /\ samples # << >> /\ theirs' = theirs /\ accepted' = accepted
      /\ refused' = refused /\ order_volume' = order_volume /\ stage' = stage
      /\ samples' = samples /\ capacity' = capacity /\ sorted_capacity' = sorted_capacity
      /\ UNCHANGED <<doing, allocVars>> \/ Ask("Sort", p)
  BY DEF Query, percentile, ghostVars
<1>2. /\ stage = "Running" /\ doing.op = "None"
      /\ call[Driver] \notin {"Malloc", "Allocations", "Bytes"}
      /\ samples \in Seq(Nat) /\ Len(samples) \in Nat /\ Len(samples) <= accepted
      /\ accepted \in Nat /\ refused \in Nat /\ order_volume \in Nat
  BY <1>1, ReadyFacts
<1>3. CASE UNCHANGED <<doing, allocVars>>
  <2>1. doing' = doing /\ call' = call /\ g_allocations' = g_allocations /\ before' = before
    BY <1>3 DEF allocVars, heapVars, counterVars
  <2> QED
    BY <1>1, <1>2, <2>1, IdleKeepsDriver
<1>4. CASE Ask("Sort", p)
  BY <1>1, <1>2, <1>4, AskKeepsDriver
<1> QED
  BY <1>1, <1>3, <1>4

LEMMA ConstructKeepsDriver ==
  ASSUME AllocInv, DriverInv, NEW volume \in Volumes, Construct(volume), UNCHANGED ghostVars
  PROVE  DriverInv'
<1>1. /\ stage = "Unbuilt" /\ doing.op = "None" /\ theirs' = theirs /\ accepted' = accepted
      /\ refused' = refused /\ samples' = samples /\ capacity' = capacity
      /\ sorted_capacity' = sorted_capacity /\ volume \in Nat
  BY VolumesAssumption DEF Construct, Nothing, ghostVars, statVars
<1>2. /\ accepted \in Nat /\ refused \in Nat
  BY DEF DriverInv, DriverTypes
<1>3. CASE valid(volume)
  <2>1. Ask("Reserve", volume) /\ order_volume' = volume /\ stage' = stage
    BY <1>3 DEF Construct
  <2> QED
    BY <1>1, <1>2, <2>1, AskKeepsDriver
<1>4. CASE ~ valid(volume)
  <2>1. /\ stage' = "Thrown" /\ order_volume' = order_volume /\ doing' = doing
        /\ call' = call /\ g_allocations' = g_allocations /\ before' = before
    BY <1>4 DEF Construct, allocVars, heapVars, counterVars
  <2>2. ~ Bracketed'
    BY <1>1, <2>1 DEF DriverInv, Bracketed
  <2> QED
    BY <1>1, <2>1, <2>2 DEF DriverInv, DriverTypes, RoomTaken, Attributed
<1> QED
  BY <1>3, <1>4

(* An operation has its memory: it was not bracketed, or it is a sort, of   *)
(* at least one sample, after which sorted_ has room.                       *)
LEMMA EndKeepsDriver ==
  ASSUME AllocInv, DriverInv, EndConstruct \/ EndRecord \/ EndSort, UNCHANGED ghostVars
  PROVE  DriverInv'
<1>1. PICK op, room : Resume(op, room)
  BY DEF EndConstruct, EndRecord, EndSort
<1>2. /\ doing' = Nothing /\ before' = before /\ g_allocations' = g_allocations
      /\ theirs' = theirs /\ accepted' = accepted /\ refused' = refused
      /\ order_volume' = order_volume
  BY <1>1 DEF Resume, note_deallocation, counterVars, ghostVars, EndConstruct, EndRecord, EndSort
<1>3. doing'.op = "None"
  BY <1>2 DEF Nothing
<1>4. call'[Driver] \in {"Free", "Program"}
  BY <1>1, DriverAssumption DEF AllocInv, Resume, note_deallocation
<1>5. /\ accepted \in Nat /\ samples \in Seq(Nat) /\ Len(samples) \in Nat
      /\ order_volume \in Nat /\ capacity \in Nat
  BY LenProperties DEF DriverInv, DriverTypes
<1>6. CASE EndConstruct
  <2>1. /\ doing.op = "Reserve" /\ stage' = "Running" /\ capacity' = order_volume
        /\ samples' = samples /\ sorted_capacity' = sorted_capacity
    BY <1>6 DEF EndConstruct, Resume, Reserved
  <2>2. ~ Bracketed'
    BY <1>2, <2>1 DEF DriverInv, Bracketed
  <2>3. DriverTypes'
    BY <1>2, <1>3, <2>1 DEF DriverInv, DriverTypes
  <2>4. RoomTaken'
    BY <1>2, <1>3, <1>5, <2>1 DEF DriverInv, RoomTaken, OneIf
  <2> QED
    BY <1>2, <1>3, <1>4, <1>5, <2>1, <2>2, <2>3, <2>4 DEF DriverInv, Attributed
<1>7. CASE EndRecord
  <2>1. /\ doing.op = "Record" /\ stage' = stage /\ capacity' = 2 * capacity
        /\ samples' = Append(samples, doing.arg) /\ sorted_capacity' = sorted_capacity
    BY <1>7 DEF EndRecord, Resume, AddSample
  <2>2. ~ Bracketed'
    <3>1. Bracketed' <=> Bracketed
      BY <1>2, <2>1 DEF Bracketed
    <3> QED
      BY <2>1, <3>1, OnlySortsBracketed
  <2>3. doing.arg \in Nat
    BY <2>1 DEF DriverInv, DriverTypes
  <2>4. samples' \in Seq(Nat) /\ Len(samples') = Len(samples) + 1
    BY <1>5, <2>1, <2>3, SampleAdded
  <2>5. capacity' \in Nat /\ capacity <= capacity'
    BY <1>5, <2>1
  <2>6. DriverTypes'
    BY <1>2, <1>3, <2>1, <2>4, <2>5 DEF DriverInv, DriverTypes
  <2>7. RoomTaken'
    BY <1>2, <1>3, <1>5, <2>1, <2>4 DEF DriverInv, RoomTaken, OneIf
  <2>8. stage' = "Running" => order_volume' <= capacity'
    BY <1>2, <1>5, <2>1, <2>5 DEF DriverInv
  <2> QED
    BY <1>2, <1>3, <1>4, <2>1, <2>2, <2>6, <2>7, <2>8 DEF DriverInv, Attributed
<1>8. CASE EndSort
  <2>1. /\ doing.op = "Sort" /\ stage' = stage /\ capacity' = capacity
        /\ samples' = samples /\ sorted_capacity' = Len(samples)
    BY <1>8 DEF EndSort, Resume
  <2>2. Len(samples) # 0
    BY <1>5, <2>1, EmptySeq DEF DriverInv
  <2>3. ~ Bracketed'
    BY <2>1, <2>2 DEF Bracketed
  <2>4. DriverTypes'
    BY <1>2, <1>3, <1>5, <2>1 DEF DriverInv, DriverTypes
  <2>5. RoomTaken'
    BY <1>2, <1>3, <1>5, <2>1 DEF DriverInv, RoomTaken, OneIf
  <2> QED
    BY <1>2, <1>3, <1>4, <2>1, <2>3, <2>4, <2>5 DEF DriverInv, Attributed
<1> QED
  BY <1>6, <1>7, <1>8

(* operator new threw: nothing was counted.                                 *)
LEMMA AbandonKeepsDriver ==
  ASSUME AllocInv, DriverInv, Abandon, UNCHANGED ghostVars
  PROVE  DriverInv'
<1>1. /\ doing' = Nothing /\ before' = before /\ g_allocations' = g_allocations
      /\ theirs' = theirs /\ accepted' = accepted /\ refused' = refused
      /\ order_volume' = order_volume /\ samples' = samples /\ capacity' = capacity
      /\ sorted_capacity' = sorted_capacity /\ call[Driver] = "Threw"
      /\ stage' = IF doing.op = "Reserve" THEN "Thrown" ELSE stage
  BY DEF Abandon, ghostVars, statVars, counterVars
<1>2. doing'.op = "None" /\ call'[Driver] = "Program"
  BY <1>1, DriverAssumption DEF Nothing, Abandon, AllocInv
<1>3. DriverTypes'
  BY <1>1, <1>2 DEF DriverInv, DriverTypes
<1>4. Bracketed' <=> Bracketed
  BY <1>1 DEF Bracketed
<1>5. ~ SortCounted /\ ~ SortCounted'
  BY <1>1, <1>2 DEF SortCounted
<1>6. Attributed'
  BY <1>1, <1>4, <1>5 DEF DriverInv, Attributed, allocations_since, OneIf
<1>7. accepted \in Nat /\ Len(samples) \in Nat
  BY LenProperties DEF DriverInv, DriverTypes
<1>8. RoomTaken'
  BY <1>1, <1>2, <1>7 DEF DriverInv, RoomTaken, OneIf
<1> QED
  BY <1>1, <1>2, <1>3, <1>6, <1>8 DEF DriverInv

(* The snapshot is taken while the driver waits for nothing.                *)
LEMMA ObserveKeepsDriver ==
  ASSUME AllocInv, DriverInv, Ready, Observe, UNCHANGED benchVars, UNCHANGED ghostVars
  PROVE  DriverInv'
<1>1. /\ order_volume' = order_volume /\ stage' = stage /\ samples' = samples
      /\ capacity' = capacity /\ sorted_capacity' = sorted_capacity /\ doing' = doing
      /\ accepted' = accepted /\ refused' = refused /\ theirs' = theirs
      /\ call' = call /\ g_allocations' = g_allocations
  BY DEF benchVars, statVars, ghostVars, Observe, LoadAllocations, LoadDeallocations, LoadBytes,
         heapVars, counterVars
<1>2. stage = "Running" /\ doing.op = "None"
  BY ReadyFacts
<1>3. /\ before \in [allocations : Int, deallocations : Int, bytes_allocated : Int]
      /\ g_allocations \in Int /\ g_deallocations \in Int /\ g_bytes_allocated \in Int
  BY DEF AllocInv, DriverInv, DriverTypes
<1>4. /\ before' \in [allocations : Int, deallocations : Int, bytes_allocated : Int]
      /\ \/ before'.allocations = before.allocations
         \/ before.allocations = -1 /\ before'.allocations = g_allocations
  BY <1>3 DEF Observe, LoadAllocations, LoadDeallocations, LoadBytes
<1>5. DriverTypes'
  BY <1>1, <1>4 DEF DriverInv, DriverTypes
<1>6. ~ SortCounted /\ ~ SortCounted'
  BY <1>1, <1>2 DEF SortCounted
<1>7. before'.allocations = -1 => theirs' = 0
  BY <1>1, <1>4 DEF DriverInv
<1>8. Attributed'
  <2>1. CASE before'.allocations = before.allocations
    <3>1. Bracketed' <=> Bracketed
      BY <1>1, <2>1 DEF Bracketed
    <3> QED
      BY <1>1, <1>6, <2>1, <3>1 DEF DriverInv, Attributed, allocations_since, OneIf
  <2>2. CASE before.allocations = -1 /\ before'.allocations = g_allocations
    <3>1. theirs' = 0
      BY <1>1, <2>2 DEF DriverInv
    <3> QED
      BY <1>1, <1>3, <1>6, <2>2, <3>1 DEF Attributed, allocations_since, OneIf
  <2> QED
    BY <1>4, <2>1, <2>2
<1>9. RoomTaken'
  BY <1>1 DEF DriverInv, RoomTaken
<1> QED
  BY <1>1, <1>2, <1>5, <1>7, <1>8, <1>9 DEF DriverInv

LEMMA DriverUnmoved ==
  ASSUME DriverInv, UNCHANGED <<order_volume, stage, samples, capacity, sorted_capacity, doing>>,
         UNCHANGED allocVars, UNCHANGED ghostVars
  PROVE  DriverInv'
<1>1. UNCHANGED <<g_allocations, call, before, accepted, refused, theirs>>
  BY DEF allocVars, heapVars, counterVars, ghostVars
<1>2. DriverTypes' /\ Bracketed' = Bracketed /\ SortCounted' = SortCounted
  BY <1>1 DEF DriverInv, DriverTypes, Bracketed, SortCounted
<1> QED
  BY <1>1, <1>2 DEF DriverInv, RoomTaken, Attributed, allocations_since

LEMMA DriverInvNext ==
  ASSUME AllocInv, DriverInv, [MeasureNext]_measureVars
  PROVE  DriverInv'
<1>1. CASE UNCHANGED measureVars \/ (try_pop /\ UNCHANGED <<benchVars, allocVars, ghostVars>>)
  BY <1>1, DriverUnmoved DEF measureVars, benchVars, statVars
<1>2. ASSUME NEW v \in Values, Submit(v) PROVE DriverInv'
  BY <1>2, SubmitKeepsDriver
<1>3. CASE DriverStep /\ UNCHANGED ghostVars
  <2>1. ASSUME NEW elapsed, finalize(elapsed) PROVE DriverInv'
    BY <1>3, <2>1, DriverUnmoved DEF finalize, statVars
  <2>2. ASSUME NEW volume \in Volumes, Construct(volume) PROVE DriverInv'
    BY <1>3, <2>2, ConstructKeepsDriver
  <2>3. ASSUME NEW p \in Percentages, Query(p) PROVE DriverInv'
    BY <1>3, <2>3, QueryKeepsDriver
  <2>4. CASE EndConstruct \/ EndRecord \/ EndSort
    BY <1>3, <2>4, EndKeepsDriver
  <2>5. CASE Inside(Driver) /\ UNCHANGED benchVars
    BY <1>3, <2>5, InsideKeepsDriver
  <2>6. CASE Ready /\ Observe /\ UNCHANGED benchVars
    BY <1>3, <2>6, ObserveKeepsDriver
  <2> QED
    BY <1>3, <2>1, <2>2, <2>3, <2>4, <2>5, <2>6 DEF DriverStep
<1>4. CASE Abandon /\ UNCHANGED ghostVars
  BY <1>4, AbandonKeepsDriver
<1>5. ASSUME NEW t \in Threads \ {Driver}, ThreadStep(t) PROVE DriverInv'
  BY <1>5, ThreadKeepsDriver
<1> QED
  BY <1>1, <1>2, <1>3, <1>4, <1>5 DEF MeasureNext

(* Until more orders are recorded than configured or a statistic is asked   *)
(* for, every allocation the bracket shows is another thread's, for any     *)
(* volume, any number of threads and any interleaving with them.            *)
THEOREM RecordingIsFree == MeasureSpec => []RecordingAllocatesNothing
<1>1. MeasureInit => DriverInv
  BY DriverInvInit
<1>2. AllocInv /\ DriverInv /\ [MeasureNext]_measureVars => DriverInv'
  BY DriverInvNext
<1>3. DriverInv => RecordingAllocatesNothing
  <2>1. DriverInv => theirs \in Int
    BY DEF DriverInv, DriverTypes
  <2> QED
    BY <2>1 DEF DriverInv, Attributed, RecordingAllocatesNothing, Bracketed, SortCounted, OneIf
<1> QED
  BY <1>1, <1>2, <1>3, AllocInvHolds, PTL DEF MeasureSpec

-----------------------------------------------------------------------------
(* Ranks: how far the rounding of doubles can move them.                    *)

(* The rank is one of the n, enough of them are not above it, and no lower  *)
(* rank would do.                                                           *)
NearestRank(p, n, rank) ==
  /\ 1 <= rank /\ rank <= n
  /\ 100 * rank >= p * n
  /\ rank > 1 => 100 * (rank - 1) < p * n

LEMMA HundredthsValues ==
  Hundredths(50) = 100 /\ Hundredths(99) = 198 /\ Hundredths(56) = 112
<1>1. Hundredths(50) = 100
  BY SMT DEF Hundredths
<1>2. Hundredths(99) = 198
  BY SMT DEF Hundredths
<1>3. Hundredths(56) = 112
  BY SMT DEF Hundredths
<1> QED
  BY <1>1, <1>2, <1>3

LEMMA NeverExceeds ==
  ASSUME NEW p \in 0..100, NEW n \in Nat, ExactRank(p, n), NEW r \in Nat, r <= n
  PROVE  ~ Exceeds(p, r)
<1>1. CASE n < 2^23
  BY <1>1, SMT DEF Exceeds
<1>2. CASE p \in {50, 99}
  <2>1. RoundingError(100) = 0
    BY SMT DEF RoundingError
  <2>2. RoundingError(198) = -8
    BY SMT DEF RoundingError
  <2>3. CASE p = 50
    BY <2>1, <2>3, HundredthsValues, SMT DEF Exceeds
  <2>4. CASE p = 99
    BY <2>2, <2>4, HundredthsValues, SMT DEF Exceeds
  <2> QED
    BY <1>2, <2>3, <2>4
<1> QED
  BY <1>1, <1>2 DEF ExactRank

(* percentile() takes the nearest rank for every whole p of fewer than 2^23 *)
(* samples, and median() and p99() take it of any number of samples:        *)
(* ceil_div_pct adds one to no rank that is whole already.                  *)
THEOREM RanksAreNearest ==
  \A p \in 0..100, n \in Nat \ {0} : ExactRank(p, n) => NearestRank(p, n, RankOf(p, n))
<1> SUFFICES ASSUME NEW p \in 0..100, NEW n \in Nat \ {0}, ExactRank(p, n)
             PROVE  NearestRank(p, n, RankOf(p, n))
  OBVIOUS
<1>1. PICK product \in Nat : product = p * n /\ product <= 100 * n
  BY SMT
<1>2. PICK r \in Nat : r = product \div 100
  BY <1>1
<1>3. r <= n
  BY <1>1, <1>2
<1>4. ceil_div_pct(p, n) = IF product % 100 # 0 THEN r + 1 ELSE r
  BY <1>1, <1>2, <1>3, NeverExceeds DEF ceil_div_pct
<1>5. RankOf(p, n) = Clamp(1, IF product % 100 # 0 THEN r + 1 ELSE r, n)
  BY <1>4 DEF RankOf, Clamp
<1> QED
  BY <1>1, <1>2, <1>5 DEF NearestRank, Clamp

(* The bound of RanksAreNearest is needed: of 25 million samples, which the *)
(* harness accepts, percentile(56) takes the one after the nearest rank.    *)
(* The guard of ceil_div_pct against "tiny FP error" is too narrow there.   *)
THEOREM RankOneTooHigh ==
  /\ NearestRank(56, 25000000, 14000000)
  /\ RankOf(56, 25000000) = 14000001
<1>1. NearestRank(56, 25000000, 14000000)
  BY SMT DEF NearestRank
<1>2. Exceeds(56, 14000000)
  <2>1. RoundingError(112) = 48
    BY SMT DEF RoundingError
  <2> QED
    BY <2>1, HundredthsValues, SMT DEF Exceeds
<1>3. ceil_div_pct(56, 25000000) = 14000001
  BY <1>2, SMT DEF ceil_div_pct
<1> QED
  BY <1>1, <1>3, SMT DEF RankOf, Clamp

=============================================================================
