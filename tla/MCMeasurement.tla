--------------------------- MODULE MCMeasurement ---------------------------
(***************************************************************************)
(* A measured run: a driver that is not part of the sources submits orders  *)
(* to a ring which the engine empties, records what became of each, asks    *)
(* for statistics, and brackets the run with the allocation counter while   *)
(* other threads allocate and free.                                         *)
(***************************************************************************)
EXTENDS RingBuffer, Benchmark

CONSTANTS
  Volumes,          \* order volumes asked for, valid or not
  Percentages,      \* percentiles asked for
  Slow,             \* the order that takes longer than the others
  MaxSubmissions    \* bound on the orders submitted

ASSUME VolumesAssumption == Volumes \subseteq Nat

VARIABLES
  accepted, refused,     \* orders the ring took and refused
  theirs                 \* allocations of other threads since the snapshot

ghostVars == <<accepted, refused, theirs>>
measureVars == <<vars, benchVars, allocVars, ghostVars>>

Latency(v) == IF v = Slow THEN 2 ELSE 1

Submit(v) ==
  /\ SnapshotTaken
  /\ accepted + refused < MaxSubmissions
  /\ try_push(v)
  /\ record(~ full, Latency(v))
  /\ accepted' = accepted + (IF full THEN 0 ELSE 1)
  /\ refused' = refused + (IF full THEN 1 ELSE 0)
  /\ UNCHANGED theirs

Query(p) == SnapshotTaken /\ percentile(p)

(* The driver's steps that touch neither the ring nor the ghosts.           *)
DriverStep ==
  \/ \E volume \in Volumes : Construct(volume)
  \/ EndConstruct
  \/ EndRecord
  \/ \E p \in Percentages : Query(p)
  \/ EndSort
  \/ /\ accepted + refused = MaxSubmissions
     /\ \E elapsed \in {0, 1, 2} : finalize(elapsed)
  \/ Inside(Driver) /\ UNCHANGED benchVars
  \/ Ready /\ Observe /\ UNCHANGED benchVars

(* Blocks the driver holds: the buffers of the two vectors, and a new one.  *)
Held ==
  Cardinality({room \in {"samples", "sorted", "new"} :
                 \/ room = "samples" /\ capacity > 0
                 \/ room = "sorted" /\ sorted_capacity > 0
                 \/ room = "new" /\ doing # Nothing /\ call[Driver] = "Returned"})

(* Another thread: it frees only blocks of its own.                         *)
ThreadStep(t) ==
  /\ \/ StartNew(t) /\ UNCHANGED before
     \/ live > Held /\ note_deallocation(t) /\ UNCHANGED before
     \/ Inside(t)
  /\ theirs' = IF before.allocations = -1 THEN 0 ELSE theirs + (g_allocations' - g_allocations)
  /\ UNCHANGED <<benchVars, vars, accepted, refused>>

MeasureNext ==
  \/ \E v \in Values : Submit(v)
  \/ DriverStep /\ UNCHANGED <<vars, ghostVars>>
  \/ Abandon /\ UNCHANGED <<vars, ghostVars>>
  \/ try_pop /\ UNCHANGED <<benchVars, allocVars, ghostVars>>
  \/ \E t \in Threads \ {Driver} : ThreadStep(t)

MeasureInit ==
  /\ Init /\ AllocInit /\ BenchInit
  /\ accepted = 0 /\ refused = 0 /\ theirs = 0

MeasureSpec == MeasureInit /\ [][MeasureNext]_measureVars

-----------------------------------------------------------------------------

(* "pre-sized to the configured volume so record_success() does not grow    *)
(* its buffer mid-run": until more orders are submitted than configured or  *)
(* a statistic is asked for, all the allocations the bracket shows are      *)
(* those of other threads.                                                  *)
RecordingAllocatesNothing ==
  (/\ before.allocations # -1
   /\ accepted + refused <= order_volume
   /\ sorted_capacity = 0 /\ doing.op # "Sort") => allocations_since = theirs

=============================================================================
