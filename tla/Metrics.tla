------------------------------ MODULE Metrics ------------------------------
(***************************************************************************)
(* The collectors whose writers and readers are not under one lock: the    *)
(* counters of the shards and the SMT solver metrics.                      *)
(***************************************************************************)
EXTENDS Integers

CONSTANTS
    Shard, Recorder, MaxRequests, Slow,
    Solver, Duration, Constraints, MaxResults

VARIABLES
    metrics, counts, recorder, observer,
    counter, durations, complexity, solver, snap

H == INSTANCE ShardMetrics
S == INSTANCE SolverMetrics

\* LeastLoaded returns a shard that was no more loaded than any is at the return.
LeastLoadedMinimal == H!LeastLoadedMinimal

\* A scrape never shows more samples than results.
SamplesWithinCounts == S!SamplesWithinCounts
=============================================================================
