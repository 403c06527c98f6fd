------------------------- MODULE AllocationCounter -------------------------
(***************************************************************************)
(* alloc_counter.cpp: the replaced operator new and operator delete, which  *)
(* several threads call, the counters they keep and the observer that       *)
(* brackets a piece of code with them.  Every atomic access is a step.  A   *)
(* block has size one: only the number of blocks matters.                   *)
(***************************************************************************)
EXTENDS Integers, FiniteSets

CONSTANTS
  Threads,          \* the threads of the program
  HeapBlocks,       \* blocks malloc can hand out at a time
  MaxAllocations    \* bound on the allocations counted

ASSUME ThreadsAssumption == IsFiniteSet(Threads)

VARIABLES
  g_allocations, g_deallocations, g_bytes_allocated,
  heap,             \* blocks malloc has handed out and free has not got back
  live,             \* blocks the program holds
  call,             \* [Threads -> where the thread is in new or delete]
  before            \* the observer's Snapshot, -1 in a field not read yet

counterVars == <<g_allocations, g_deallocations, g_bytes_allocated>>
heapVars == <<counterVars, heap, live, call>>
allocVars == <<heapVars, before>>

InProgram(t) == call[t] \in {"Program", "Returned", "Threw"}

(* operator new is called.                                                  *)
StartNew(t) ==
  /\ InProgram(t)
  /\ g_allocations < MaxAllocations
  /\ call' = [call EXCEPT ![t] = "Malloc"]
  /\ UNCHANGED <<counterVars, heap, live>>

(* malloc finds a block, or the call ends in std::bad_alloc, and is not     *)
(* counted.  A new-handler that returns leads back to the call of malloc.   *)
Malloc(t) ==
  /\ call[t] = "Malloc"
  /\ IF heap < HeapBlocks
     THEN heap' = heap + 1 /\ call' = [call EXCEPT ![t] = "Allocations"]
     ELSE UNCHANGED heap /\ call' = [call EXCEPT ![t] = "Threw"]
  /\ UNCHANGED <<counterVars, live>>

(* Fault: a load and a store, between which another thread may store.       *)
FaultLostUpdate(n) == {n, n + 1}

fetch_add(n) == {n + 1}

(* note_allocation, the first counter and then the second.                  *)
CountAllocation(t) ==
  /\ call[t] = "Allocations"
  /\ g_allocations' \in fetch_add(g_allocations)
  /\ call' = [call EXCEPT ![t] = "Bytes"]
  /\ UNCHANGED <<g_deallocations, g_bytes_allocated, heap, live>>

CountBytes(t) ==
  /\ call[t] = "Bytes"
  /\ g_bytes_allocated' = g_bytes_allocated + 1
  /\ live' = live + 1
  /\ call' = [call EXCEPT ![t] = "Returned"]
  /\ UNCHANGED <<g_allocations, g_deallocations, heap>>

(* operator delete of a block, by any thread; a null pointer does nothing.  *)
note_deallocation(t) ==
  /\ InProgram(t)
  /\ live > 0
  /\ live' = live - 1
  /\ g_deallocations' = g_deallocations + 1
  /\ call' = [call EXCEPT ![t] = "Free"]
  /\ UNCHANGED <<g_allocations, g_bytes_allocated, heap>>

Free(t) ==
  /\ call[t] = "Free"
  /\ heap' = heap - 1
  /\ call' = [call EXCEPT ![t] = "Program"]
  /\ UNCHANGED <<counterVars, live>>

(* snapshot(): three loads.                                                 *)
LoadAllocations ==
  /\ before.allocations = -1
  /\ before' = [before EXCEPT !.allocations = g_allocations]
  /\ UNCHANGED heapVars

LoadDeallocations ==
  /\ before.allocations # -1 /\ before.deallocations = -1
  /\ before' = [before EXCEPT !.deallocations = g_deallocations]
  /\ UNCHANGED heapVars

LoadBytes ==
  /\ before.deallocations # -1 /\ before.bytes_allocated = -1
  /\ before' = [before EXCEPT !.bytes_allocated = g_bytes_allocated]
  /\ UNCHANGED heapVars

SnapshotTaken == before.bytes_allocated # -1

allocations_since == g_allocations - before.allocations

(* A step of a thread inside new or delete.                                 *)
Inside(t) ==
  /\ Malloc(t) \/ CountAllocation(t) \/ CountBytes(t) \/ Free(t)
  /\ UNCHANGED before

Observe == LoadAllocations \/ LoadDeallocations \/ LoadBytes

AllocInit ==
  /\ g_allocations = 0 /\ g_deallocations = 0 /\ g_bytes_allocated = 0
  /\ heap = 0 /\ live = 0
  /\ call = [t \in Threads |-> "Program"]
  /\ before = [allocations |-> -1, deallocations |-> -1, bytes_allocated |-> -1]

-----------------------------------------------------------------------------

At(places) == Cardinality({t \in Threads : call[t] \in places})

(* "allocation / deallocation counts stay paired for real blocks": at every *)
(* moment the counters differ by the blocks the program holds and the one   *)
(* being handed to each thread that has counted it and not returned; what   *)
(* malloc has out is that, and one block for each thread that has not yet   *)
(* counted its own or not yet freed it.                                     *)
CountsArePaired ==
  /\ g_allocations - g_deallocations = live + At({"Bytes"})
  /\ heap = live + At({"Allocations", "Bytes", "Free"})
  /\ g_allocations = g_bytes_allocated + At({"Bytes"})

=============================================================================
