----------------------------- MODULE Histogram -----------------------------
(***************************************************************************)
(* The latency histogram of the benchmarks                                 *)
(* (crates/im-bench/src/histogram.rs): logarithmic buckets of SLOTS linear *)
(* slots, with the number of significant bits and the width of a sample as *)
(* parameters (8 and 64 in the code).                                      *)
(***************************************************************************)
EXTENDS Naturals, Shift

CONSTANTS
  SIGNIFICANT_BITS,
  SampleBits,   \* width of a sample, 64
  Percents,     \* percentiles asked for
  MaxSamples    \* bound: samples recorded

ASSUME HistogramAssumption ==
  /\ SIGNIFICANT_BITS \in Nat /\ SampleBits \in Nat
  /\ SIGNIFICANT_BITS < SampleBits
  /\ Percents \subseteq 1..100 /\ MaxSamples \in Nat

SLOTS == ShiftLeft(1, SIGNIFICANT_BITS)
MAX_BUCKET == SampleBits - SIGNIFICANT_BITS
Samples == 0..(ShiftLeft(1, SampleBits) - 1)
Slots == 0..((MAX_BUCKET + 1) * SLOTS - 1)

VARIABLES
  counts,  \* LatencyHist.counts, flat
  total, least, most, sum_ns,
  taken    \* history: how often each value was recorded

histVars == <<counts, total, least, most, sum_ns, taken>>

HistInit ==
  /\ counts = [i \in Slots |-> 0]
  /\ total = 0 /\ least = ShiftLeft(1, SampleBits) - 1 /\ most = 0 /\ sum_ns = 0
  /\ taken = [v \in Samples |-> 0]

ilog2(v) == CHOOSE b \in 0..(SampleBits - 1) : ShiftLeft(1, b) <= v /\ v < ShiftLeft(1, b + 1)

\* The bucket of a magnitude counted one too high.
locate_Off(v) ==
  IF v < SLOTS THEN <<0, v>>
  ELSE LET bucket == ilog2(v) - SIGNIFICANT_BITS + 1
       IN <<bucket, ShiftRight(v, bucket) % SLOTS>>

\* The bucket and the slot of a value.
locate(v) ==
  IF v < SLOTS THEN <<0, v>>
  ELSE LET bucket == ilog2(v) - SIGNIFICANT_BITS + 1
       IN <<bucket, ShiftRight(v, bucket - 1) - SLOTS>>

\* The smallest value of a slot.
bucket_value(bucket, slot) ==
  IF bucket = 0 THEN slot ELSE ShiftLeft(slot + SLOTS, bucket - 1)

record_ns(v) ==
  /\ LET p == locate(v) IN counts' = [counts EXCEPT ![p[1] * SLOTS + p[2]] = @ + 1]
  /\ total' = total + 1
  /\ least' = IF v < least THEN v ELSE least
  /\ most' = IF v > most THEN v ELSE most
  /\ sum_ns' = sum_ns + v
  /\ taken' = [taken EXCEPT ![v] = @ + 1]

\* ceil(pct% * n), at most n.
Rank(pct) == LET r == (total * pct + 99) \div 100 IN IF r < total THEN r ELSE total

\* The running sum of the loop over the slots.
SumTo(f, i) ==
  LET seen[j \in 0..i] == IF j = 0 THEN f[0] ELSE seen[j - 1] + f[j]
  IN  seen[i]

\* The samples in the slots up to slot i.
CountedTo(i) == SumTo(counts, i)

\* The first slot in which the rank falls.
percentile_ns(pct) ==
  IF total = 0 THEN 0
  ELSE LET i == CHOOSE j \in Slots :
                  CountedTo(j) >= Rank(pct) /\ (j > 0 => CountedTo(j - 1) < Rank(pct))
       IN bucket_value(i \div SLOTS, i % SLOTS)

\* mean; the average of the exact samples, rounded down.
mean == sum_ns \div total

HistNext == total < MaxSamples /\ \E v \in Samples : record_ns(v)

HistSpec == HistInit /\ [][HistNext]_histVars
-----------------------------------------------------------------------------
\* How many samples are at most v.
Below(v) == SumTo(taken, v)

\* The sample of that rank, from the samples themselves.
Exact(pct) ==
  CHOOSE v \in Samples : Below(v) >= Rank(pct) /\ (v > 0 => Below(v - 1) < Rank(pct))

(***************************************************************************)
(* What the histogram reports of a percentile, against the sorted samples: *)
(* never more than the sample of that rank ("the true percentile is at     *)
(* least the reported value") and less by at most one part in SLOTS ("the  *)
(* relative error is at most 2^-8"), whatever buckets the samples share;   *)
(* and minimum, maximum and mean lie in the order they must.               *)
(***************************************************************************)
PercentilesSound ==
  total > 0 =>
    /\ \A pct \in Percents :
         /\ percentile_ns(pct) <= Exact(pct)
         /\ (Exact(pct) - percentile_ns(pct)) * SLOTS <= Exact(pct)
    /\ least <= mean /\ mean <= most
=============================================================================
