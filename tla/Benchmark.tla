----------------------------- MODULE Benchmark -----------------------------
(***************************************************************************)
(* benchmark.hpp and latency_stats.hpp: what one driver thread records of a *)
(* run, the statistics asked of it, and the memory its two vectors take.    *)
(*                                                                          *)
(* An operation whose vector must grow waits in `doing` for operator new,   *)
(* and ends when it has returned or thrown.  Percentages and elapsed times  *)
(* are whole numbers, and there are fewer than 2^30 samples.                *)
(***************************************************************************)
EXTENDS AllocationCounter, Sequences, TLC

CONSTANTS
  Driver,           \* the submitting thread
  kMinOrderVolume, kMaxOrderVolume,
  Target            \* target_throughput

ASSUME DriverAssumption == Driver \in Threads

VARIABLES
  order_volume,     \* of config_; 0 before the construction
  stage,            \* "Unbuilt", "Running" or "Thrown"
  successful_orders, failed_orders,
  samples, capacity,          \* samples_ and the room it has
  sorted, sorted_capacity,    \* sorted_ and the room it has
  sorted_valid,
  doing,            \* the operation that waits for memory
  answer,           \* the answer of percentile(), until the next record
  outcome           \* the BenchmarkResult, once finalize() was called

statVars == <<samples, capacity, sorted, sorted_capacity, sorted_valid>>
orderVars == <<successful_orders, failed_orders>>
benchVars == <<order_volume, stage, orderVars, statVars, doing, answer, outcome>>

Nothing == [op |-> "None", arg |-> 0]

Ready == stage = "Running" /\ doing = Nothing /\ InProgram(Driver)

valid(volume) ==
  /\ volume >= kMinOrderVolume /\ volume <= kMaxOrderVolume
  /\ Target > 0

(* The vector asks operator new for room.                                   *)
Ask(op, arg) ==
  /\ StartNew(Driver)
  /\ doing' = [op |-> op, arg |-> arg]
  /\ UNCHANGED before

(* Back from operator new: with memory, the old buffer of a vector that had *)
(* one is deleted; with an exception, the operation is abandoned.           *)
Resume(op, room) ==
  /\ doing.op = op
  /\ call[Driver] = "Returned"
  /\ IF room > 0 THEN note_deallocation(Driver)
     ELSE UNCHANGED <<counterVars, heap, live>> /\ call' = [call EXCEPT ![Driver] = "Program"]
  /\ doing' = Nothing
  /\ UNCHANGED before

-----------------------------------------------------------------------------

Construct(volume) ==
  /\ stage = "Unbuilt" /\ doing = Nothing
  /\ IF valid(volume)
     THEN /\ Ask("Reserve", volume)
          /\ order_volume' = volume
          /\ UNCHANGED stage
     ELSE /\ stage' = "Thrown"
          /\ UNCHANGED <<order_volume, doing, allocVars>>
  /\ UNCHANGED <<orderVars, statVars, answer, outcome>>

(* Fault: nothing is reserved beyond the first sample.                      *)
FaultReserveOne(volume) == 1

(* The room samples_.reserve() leaves.                                      *)
Reserved(volume) == volume

EndConstruct ==
  /\ Resume("Reserve", 0)
  /\ capacity' = Reserved(order_volume)
  /\ stage' = "Running"
  /\ UNCHANGED <<order_volume, orderVars, samples, sorted, sorted_capacity, sorted_valid,
                 answer, outcome>>

(* Fault: the sorted view is taken to be up to date.                        *)
FaultStaleView(latency) ==
  /\ samples' = Append(samples, latency)
  /\ UNCHANGED sorted_valid

(* LatencyStats::record.                                                    *)
AddSample(latency) ==
  /\ samples' = Append(samples, latency)
  /\ sorted_valid' = FALSE

(* Counted as a success before the sample is stored.                        *)
record_success(latency) ==
  /\ Ready
  /\ successful_orders' = successful_orders + 1
  /\ IF Len(samples) < capacity
     THEN /\ AddSample(latency)
          /\ UNCHANGED <<doing, allocVars>>
     ELSE /\ Ask("Record", latency)
          /\ UNCHANGED <<samples, sorted_valid>>
  /\ answer' = Nothing
  /\ UNCHANGED <<order_volume, stage, failed_orders, capacity, sorted, sorted_capacity, outcome>>

(* push_back into the grown vector (its growth factor is the library's).    *)
EndRecord ==
  /\ Resume("Record", capacity)
  /\ AddSample(doing.arg)
  /\ capacity' = 2 * capacity
  /\ UNCHANGED <<order_volume, stage, orderVars, sorted, sorted_capacity, answer, outcome>>

record_failure ==
  /\ Ready
  /\ failed_orders' = failed_orders + 1
  /\ answer' = Nothing
  /\ UNCHANGED <<order_volume, stage, successful_orders, statVars, doing, outcome, allocVars>>

record(success, latency) == IF success THEN record_success(latency) ELSE record_failure

(* p / 100 is a significand of m / 100, in [1, 2), times a power of two.    *)
Hundredths(p) ==
  CHOOSE m \in {p, 2 * p, 4 * p, 8 * p, 16 * p, 32 * p, 64 * p, 128 * p} : m \in 100..199

(* What rounding m / 100 to a double's 52 fraction bits adds to it, in      *)
(* hundredths of the last bit (2^52 is 96 modulo 100).                      *)
RoundingError(m) ==
  LET over == (m * 96) % 100
  IN IF over < 50 THEN 0 - over ELSE 100 - over

(* The product of the rounded p / 100 and n, which should be the whole      *)
(* number r, is rounded to the double after r.  The two differ by more than *)
(* eps, 10^-9, when r is 2^23 or more.                                      *)
Exceeds(p, r) ==
  \E power \in {2^23, 2^24, 2^25, 2^26, 2^27, 2^28, 2^29} :
    /\ power <= r /\ r < 2 * power
    /\ 2 * RoundingError(Hundredths(p)) * r > Hundredths(p) * power

(* (p / 100) * n in doubles, rounded up when its fraction exceeds eps.  The *)
(* fraction of a product that should not be whole is off by far less than   *)
(* the hundredth it is away from 0 and 1, and a whole one that comes out    *)
(* too small is rounded up to what it should be.                            *)
ceil_div_pct(p, n) ==
  LET r == (p * n) \div 100
  IN IF (p * n) % 100 # 0 \/ Exceeds(p, r) THEN r + 1 ELSE r

Clamp(low, x, high) == IF x < low THEN low ELSE IF x > high THEN high ELSE x

RankOf(p, n) == Clamp(1, ceil_div_pct(Clamp(0, p, 100), n), n)

Sorted == SortSeq(samples, LAMBDA a, b : a < b)

(* percentile(), and min(), max(), median() and p99(): they sort again only *)
(* when a sample came since.                                                *)
percentile(p) ==
  /\ Ready
  /\ samples # << >>
  /\ IF sorted_valid \/ Len(samples) <= sorted_capacity
     THEN /\ sorted' = IF sorted_valid THEN sorted ELSE Sorted
          /\ sorted_valid' = TRUE
          /\ answer' = [op |-> "Percentile", arg |-> p, value |-> sorted'[RankOf(p, Len(sorted'))]]
          /\ UNCHANGED <<doing, allocVars>>
     ELSE /\ Ask("Sort", p)
          /\ UNCHANGED <<sorted, sorted_valid, answer>>
  /\ UNCHANGED <<order_volume, stage, orderVars, samples, capacity, sorted_capacity, outcome>>

EndSort ==
  /\ Resume("Sort", sorted_capacity)
  /\ sorted' = Sorted
  /\ sorted_capacity' = Len(samples)
  /\ sorted_valid' = TRUE
  /\ answer' = [op |-> "Percentile", arg |-> doing.arg,
                value |-> sorted'[RankOf(doing.arg, Len(samples))]]
  /\ UNCHANGED <<order_volume, stage, orderVars, samples, capacity, outcome>>

(* std::bad_alloc reaches the driver.                                       *)
Abandon ==
  /\ doing # Nothing
  /\ call[Driver] = "Threw"
  /\ call' = [call EXCEPT ![Driver] = "Program"]
  /\ doing' = Nothing
  /\ stage' = IF doing.op = "Reserve" THEN "Thrown" ELSE stage
  /\ UNCHANGED <<counterVars, heap, live, before, order_volume, orderVars, statVars, answer,
                 outcome>>

processed_orders == successful_orders + failed_orders

(* The throughput processed_orders / elapsed is compared with the target;   *)
(* no time is no throughput.                                                *)
finalize(elapsed) ==
  /\ Ready
  /\ outcome' = [total_orders |-> processed_orders,
                 met_target |-> elapsed > 0 /\ processed_orders >= Target * elapsed]
  /\ UNCHANGED <<order_volume, stage, orderVars, statVars, doing, answer, allocVars>>

BenchInit ==
  /\ order_volume = 0 /\ stage = "Unbuilt"
  /\ successful_orders = 0 /\ failed_orders = 0
  /\ samples = << >> /\ capacity = 0
  /\ sorted = << >> /\ sorted_capacity = 0 /\ sorted_valid = FALSE
  /\ doing = Nothing /\ answer = Nothing
  /\ outcome = Nothing

-----------------------------------------------------------------------------

(* The rank of the p-th percentile of n samples is not affected by rounding *)
(* in ceil_div_pct; 50 and 99 are what median() and p99() ask for.          *)
ExactRank(p, n) == n < 2^23 \/ p \in {50, 99}

(* An answer of percentile() is about every sample recorded before it, also *)
(* after earlier questions and across a failed growth: it is a sample such  *)
(* that p percent of all samples are not above it, and the least such       *)
(* sample, unless the rank of one of over eight million is taken for a p    *)
(* that is neither the median's nor p99's (see ExactRank).                  *)
PercentileIsNearestRank ==
  answer.op = "Percentile" =>
    LET Enough(v) == 100 * Cardinality({i \in 1..Len(samples) : samples[i] <= v})
                       >= Clamp(0, answer.arg, 100) * Len(samples)
    IN /\ \E i \in 1..Len(samples) : samples[i] = answer.value
       /\ Enough(answer.value)
       /\ ExactRank(answer.arg, Len(samples)) =>
            \A i \in 1..Len(samples) : Enough(samples[i]) => answer.value <= samples[i]

=============================================================================
