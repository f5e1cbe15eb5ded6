----------------------------- MODULE Histogram -----------------------------
(***************************************************************************)
(* The latency histogram (driver/dmaplane_histogram.c) and its readers,    *)
(* GET_HISTOGRAM (driver/main.c) and the debugfs file.  Nothing is locked: *)
(* benchmarks and streams record, one atomic operation after the other,    *)
(* while a reader adds up the buckets and may reset them.  Every atomic    *)
(* operation is a step.                                                    *)
(***************************************************************************)
EXTENDS Integers, FiniteSets, FiniteSetsExt, Functions

CONSTANTS Recorders,   \* threads inside a benchmark or a stream
          NBuckets,    \* DMAPLANE_HIST_BUCKETS
          NsPerUs,     \* nanoseconds in a microsecond
          Latencies,   \* the latencies that occur, in ns
          MaxSamples,  \* bound on the samples since a reset
          Top          \* U64_MAX: more than any latency

\* What the constants are; a latency is a 64-bit number, so there are finitely many.
ASSUME HistogramAssumption ==
    /\ NBuckets \in Nat \ {0, 1} /\ NsPerUs \in Nat \ {0} /\ MaxSamples \in Nat \ {0}
    /\ IsFiniteSet(Recorders) /\ Recorders # {}
    /\ IsFiniteSet(Latencies) /\ Latencies \subseteq Nat
    /\ Top \in Nat /\ \A l \in Latencies : l < Top

Buckets == 0..NBuckets - 1
MaxCount == MaxSamples + Cardinality(Recorders)
Percentiles == {"p50", "p99", "p999"}

VARIABLES
    buckets, count, sum_ns, min_ns, max_ns,   \* struct dmaplane_histogram
    rec_pc, lat, old,     \* a recorder: where it is, its latency, the value it compares with
    rpc, at, total, cumulative, found_at,        \* the reader and its locals
    samples,          \* how often each latency has been recorded since the last reset
    clean,            \* no reset has overlapped a recording since the last clean one
    alone             \* nothing has been recorded since the summary began

hist == <<buckets, count, sum_ns, min_ns, max_ns>>
rec == <<rec_pc, lat, old>>
reader == <<rpc, at, total, cumulative, found_at>>
histogramvars == <<hist, rec, reader, samples, clean, alone>>

HistogramTypeOK ==
    /\ buckets \in [Buckets -> 0..MaxCount]
    /\ count \in 0..MaxCount
    /\ sum_ns \in Nat /\ min_ns \in Latencies \cup {Top} /\ max_ns \in Latencies \cup {0}
    /\ rec_pc \in [Recorders -> {"idle", "count", "sum", "readmin", "min", "readmax", "max"}]
    /\ lat \in [Recorders -> Latencies \cup {0}]
    /\ old \in [Recorders -> Latencies \cup {0, Top}]
    /\ rpc \in {"idle", "walk", "summarized", "clear", "fields"}
    /\ at \in 0..NBuckets /\ total \in 0..MaxCount /\ cumulative \in 0..MaxCount
    /\ found_at \in [Percentiles -> Buckets \cup {-1}]
    /\ samples \in [Latencies -> 0..MaxSamples]
    /\ clean \in BOOLEAN /\ alone \in BOOLEAN

HistogramInit ==
    /\ buckets = [b \in Buckets |-> 0]
    /\ count = 0 /\ sum_ns = 0 /\ min_ns = Top /\ max_ns = 0
    /\ rec_pc = [r \in Recorders |-> "idle"]
    /\ lat = [r \in Recorders |-> 0] /\ old = [r \in Recorders |-> 0]
    /\ rpc = "idle" /\ at = 0 /\ total = 0 /\ cumulative = 0
    /\ found_at = [p \in Percentiles |-> -1]
    /\ samples = [l \in Latencies |-> 0]
    /\ clean = TRUE /\ alone = FALSE

Recording == \E r \in Recorders : rec_pc[r] # "idle"
\* The bounds: MaxSamples, and no new sample after a reset raced with a recording until the
\* next reset (the properties say nothing of what such a race leaves).
Room == clean /\ SumFunction(samples) < MaxSamples
Resetting == rpc \in {"clear", "fields"}

-----------------------------------------------------------------------------
(* dmaplane_histogram_record                                               *)

Pow2[b \in 0..NBuckets] == IF b = 0 THEN 1 ELSE 2 * Pow2[b - 1]

\* ilog2 of the microseconds, the last bucket taking the rest.
BucketOf(ns) ==
    LET us == ns \div NsPerUs IN
    IF us = 0 THEN 0
    ELSE CHOOSE b \in Buckets : Pow2[b] <= us /\ (b = NBuckets - 1 \/ us < Pow2[b + 1])

Record(r, l) ==
    /\ rec_pc[r] = "idle" /\ Room
    /\ buckets' = [buckets EXCEPT ![BucketOf(l)] = @ + 1]
    /\ lat' = [lat EXCEPT ![r] = l]
    /\ rec_pc' = [rec_pc EXCEPT ![r] = "count"]
    /\ samples' = [samples EXCEPT ![l] = @ + 1]
    /\ clean' = (clean /\ ~Resetting) /\ alone' = FALSE
    /\ UNCHANGED <<count, sum_ns, min_ns, max_ns, old, reader>>

Count(r) ==
    /\ rec_pc[r] = "count"
    /\ count' = count + 1
    /\ rec_pc' = [rec_pc EXCEPT ![r] = "sum"]
    /\ UNCHANGED <<buckets, sum_ns, min_ns, max_ns, lat, old, reader, samples, clean, alone>>

Add(r) ==
    /\ rec_pc[r] = "sum"
    /\ sum_ns' = sum_ns + lat[r]
    /\ rec_pc' = [rec_pc EXCEPT ![r] = "readmin"]
    /\ UNCHANGED <<buckets, count, min_ns, max_ns, lat, old, reader, samples, clean, alone>>

ReadMin(r) ==
    /\ rec_pc[r] = "readmin"
    /\ old' = [old EXCEPT ![r] = min_ns]
    /\ rec_pc' = [rec_pc EXCEPT ![r] = "min"]
    /\ UNCHANGED <<hist, lat, reader, samples, clean, alone>>

\* Mutant: the minimum is stored without looking whether it is still the one compared.
UpdateMinBlindly(r) ==
    /\ rec_pc[r] = "min"
    /\ min_ns' = IF lat[r] < old[r] THEN lat[r] ELSE min_ns
    /\ rec_pc' = [rec_pc EXCEPT ![r] = "readmax"]
    /\ UNCHANGED <<buckets, count, sum_ns, max_ns, lat, old, reader, samples, clean, alone>>

\* A round of the cmpxchg loop: a failure leaves the current value in old_min.
UpdateMin(r) ==
    /\ rec_pc[r] = "min"
    /\ IF lat[r] < old[r] /\ min_ns # old[r]
       THEN old' = [old EXCEPT ![r] = min_ns] /\ UNCHANGED <<min_ns, rec_pc>>
       ELSE /\ min_ns' = IF lat[r] < old[r] THEN lat[r] ELSE min_ns
            /\ rec_pc' = [rec_pc EXCEPT ![r] = "readmax"]
            /\ UNCHANGED old
    /\ UNCHANGED <<buckets, count, sum_ns, max_ns, lat, reader, samples, clean, alone>>

ReadMax(r) ==
    /\ rec_pc[r] = "readmax"
    /\ old' = [old EXCEPT ![r] = max_ns]
    /\ rec_pc' = [rec_pc EXCEPT ![r] = "max"]
    /\ UNCHANGED <<hist, lat, reader, samples, clean, alone>>

UpdateMax(r) ==
    /\ rec_pc[r] = "max"
    /\ IF lat[r] > old[r] /\ max_ns # old[r]
       THEN old' = [old EXCEPT ![r] = max_ns] /\ UNCHANGED <<max_ns, rec_pc, lat>>
       ELSE /\ max_ns' = IF lat[r] > old[r] THEN lat[r] ELSE max_ns
            /\ rec_pc' = [rec_pc EXCEPT ![r] = "idle"]
            /\ lat' = [lat EXCEPT ![r] = 0] /\ old' = [old EXCEPT ![r] = 0]
    /\ UNCHANGED <<buckets, count, sum_ns, min_ns, reader, samples, clean, alone>>

-----------------------------------------------------------------------------
(* dmaplane_histogram_summarize                                            *)

\* cumulative * d >= total * n
Crosses(p, c, t) ==
    CASE p = "p50" -> c * 1000 >= t * 500
      [] p = "p99" -> c * 1000 >= t * 990
      [] p = "p999" -> c * 10000 >= t * 9990

\* sum_ns, min_ns and max_ns, read here as well, are left out of the summary.
Summarize ==
    /\ rpc = "idle"
    /\ total' = count
    /\ cumulative' = 0 /\ at' = 0
    /\ found_at' = [p \in Percentiles |-> -1]
    /\ rpc' = IF count = 0 THEN "summarized" ELSE "walk"
    /\ alone' = ~Recording
    /\ UNCHANGED <<hist, rec, samples, clean>>

\* Mutant: the count is read anew for every bucket.
WalkRereadsCount ==
    /\ rpc = "walk"
    /\ cumulative' = cumulative + buckets[at]
    /\ found_at' = [p \in Percentiles |->
                   IF found_at[p] = -1 /\ Crosses(p, cumulative', count) THEN at ELSE found_at[p]]
    /\ at' = at + 1
    /\ rpc' = IF at = NBuckets - 1 THEN "summarized" ELSE "walk"
    /\ UNCHANGED <<hist, rec, total, samples, clean, alone>>

Walk ==
    /\ rpc = "walk"
    /\ cumulative' = cumulative + buckets[at]
    /\ found_at' = [p \in Percentiles |->
                   IF found_at[p] = -1 /\ Crosses(p, cumulative', total) THEN at ELSE found_at[p]]
    /\ at' = at + 1
    /\ rpc' = IF at = NBuckets - 1 THEN "summarized" ELSE "walk"
    /\ UNCHANGED <<hist, rec, total, samples, clean, alone>>

Forget ==
    /\ at' = 0 /\ total' = 0 /\ cumulative' = 0
    /\ found_at' = [p \in Percentiles |-> -1]

\* GET_HISTOGRAM without reset, or the debugfs file.
ReadEnds ==
    /\ rpc = "summarized"
    /\ rpc' = "idle" /\ Forget /\ alone' = FALSE
    /\ UNCHANGED <<hist, rec, samples, clean>>

-----------------------------------------------------------------------------
(* dmaplane_histogram_reset                                                *)

ResetBegins ==
    /\ rpc = "summarized"
    /\ rpc' = "clear" /\ Forget /\ alone' = FALSE
    /\ samples' = [l \in Latencies |-> 0]
    /\ clean' = ~Recording
    /\ UNCHANGED <<hist, rec>>

ClearBucket ==
    /\ rpc = "clear"
    /\ buckets' = [buckets EXCEPT ![at] = 0]
    /\ at' = at + 1
    /\ rpc' = IF at = NBuckets - 1 THEN "fields" ELSE "clear"
    /\ UNCHANGED <<count, sum_ns, min_ns, max_ns, rec, total, cumulative, found_at, samples,
                   clean, alone>>

\* Four more stores; that they are one step hides no state the properties speak of.
ClearFields ==
    /\ rpc = "fields"
    /\ count' = 0 /\ sum_ns' = 0 /\ min_ns' = Top /\ max_ns' = 0
    /\ rpc' = "idle" /\ at' = 0
    /\ UNCHANGED <<buckets, rec, total, cumulative, found_at, samples, clean, alone>>

-----------------------------------------------------------------------------
Steps(r) == Count(r) \/ Add(r) \/ ReadMin(r) \/ UpdateMin(r) \/ ReadMax(r) \/ UpdateMax(r)

HistogramNext ==
    \/ \E r \in Recorders : Steps(r) \/ \E l \in Latencies : Record(r, l)
    \/ Summarize \/ Walk \/ ReadEnds \/ ResetBegins \/ ClearBucket \/ ClearFields

HistogramSpec == HistogramInit /\ [][HistogramNext]_histogramvars

-----------------------------------------------------------------------------
(* Properties.                                                             *)

\* Once every recording has ended the counters describe exactly the samples, whichever way
\* the recorders' updates and cmpxchg loops interleaved, unless a reset overlapped one of
\* them ("callers should avoid concurrent reset + record").
QuietIsExact ==
    clean /\ ~Recording /\ ~Resetting =>
        LET seen == {l \in Latencies : samples[l] > 0} IN
        /\ \A b \in Buckets :
             buckets[b] = SumFunctionOnSet(samples, {l \in Latencies : BucketOf(l) = b})
        /\ count = SumFunction(samples)
        /\ sum_ns = SumFunction([l \in Latencies |-> l * samples[l]])
        /\ \A l \in seen : min_ns <= l /\ l <= max_ns
        /\ seen # {} => min_ns \in seen /\ max_ns \in seen
        /\ seen = {} => min_ns = Top /\ max_ns = 0

\* A summary made while samples are recorded finds all its percentiles, in order: the
\* total is read before the buckets, and a sample is in its bucket before it is counted.
PercentilesFound ==
    rpc = "summarized" /\ clean /\ total > 0 =>
        /\ \A p \in Percentiles : found_at[p] # -1
        /\ found_at["p50"] <= found_at["p99"] /\ found_at["p99"] <= found_at["p999"]

\* The upper end of a bucket, and the samples below a latency.
Upper(b) == IF b = NBuckets - 1 THEN Top ELSE Pow2[b + 1] * NsPerUs
Below(ns) == SumFunctionOnSet(samples, {l \in Latencies : l < ns})

\* The bound a summary reports for a percentile is the upper end, in ns, of the first
\* bucket below which that share of the samples lies: the true percentile is under it and
\* not under the bound of the bucket before.
PercentilesExact ==
    rpc = "summarized" /\ clean /\ alone /\ total > 0 =>
        \A p \in Percentiles :
            /\ Crosses(p, Below(Upper(found_at[p])), total)
            /\ found_at[p] > 0 => ~Crosses(p, Below(Upper(found_at[p] - 1)), total)

\* What a summary reports: with samples coming in no percentile is missed, and without
\* them each one is exact.
SummarySound == PercentilesFound /\ PercentilesExact

\* The counters of the histogram: in range while recordings and resets run, exact when the
\* recordings have ended.
HistogramSafe == HistogramTypeOK /\ QuietIsExact
=============================================================================
