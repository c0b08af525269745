----------------------------- MODULE MCMetrics -----------------------------
(***************************************************************************)
(* The three collectors of metrics for TLC.  They share no state, so each  *)
(* is explored on its own: part, chosen in Init, names the one that runs   *)
(* and the others stay in their initial states.                            *)
(***************************************************************************)
EXTENDS Metrics, Sequences

CONSTANTS
    Part,
    Policy, Obs, MaxObs, SampleScale

VARIABLES
    part,
    series, reader, fatal, seen

P == INSTANCE PolicyMetrics

shards == <<metrics, counts, recorder, observer>>
policies == <<series, reader, fatal, seen>>
solvers == <<counter, durations, complexity, solver, snap>>
vars == <<part, shards, policies, solvers>>

\* Fast, slow and overflowing latencies on and between the bucket bounds.
obs(p, l, ok, c, m) ==
    [policy |-> p, tier |-> IF l > 100 THEN "z3" ELSE "cel", latency |-> l, success |-> ok, code |-> c, memory |-> m]
MCObs == {obs(1, 5, TRUE, "", 0), obs(1, 600, FALSE, "timeout", 600), obs(1, 12000, FALSE, "", 1),
          obs(2, 20, TRUE, "", 0), obs(2, 3000, FALSE, "trap", 1)}

\* Balanced scripts and some that are not.
MCConstraints == {<<>>, <<"(", ")">>, <<"(", "(", ")", ")", "(", ")">>, <<"(", "(", ")">>, <<")", "(", ")">>}

Init == part \in Part /\ H!Init /\ P!Init /\ S!Init

Next ==
    /\ part' = part
    /\ \/ part = "shards" /\ H!Next /\ UNCHANGED <<policies, solvers>>
       \/ part = "policies" /\ P!Next /\ UNCHANGED <<shards, solvers>>
       \/ part = "solvers" /\ S!Next /\ UNCHANGED <<shards, policies>>

Spec == Init /\ [][Next]_vars

\* The state of every collector keeps its type.
TypeOK == H!TypeOK /\ P!TypeOK /\ S!TypeOK

\* A shard never counts more errors or samples than requests.
CountsOrdered == H!CountsOrdered

\* Every series is the sum of its policy's observations.
SeriesExact == part = "policies" => P!SeriesExact

\* The merged rollup is the one all observations would have made.
OverallExact == part = "policies" => P!OverallExact

\* Percentiles are ordered and lie in the bucket of the sample they stand for.
PercentileNearSample == part = "policies" => P!PercentileNearSample

\* Alerts are those the rules call for, critical ones first.
AlertsExact == part = "policies" => P!AlertsExact

\* The quantiles of a scrape are ordered and cover their share of the samples.
QuantilesCover == S!QuantilesCover

\* The complexity score of a balanced script is the number of its forms.
ScoreCountsForms == part = "solvers" => S!ScoreCountsForms

\* Claims of the code's comments that do not hold.

\* ShardMetrics: "Snapshot returns a point-in-time copy of the metrics".
SnapshotConsistent == H!SnapshotConsistent

\* PrometheusText: "+Inf bucket equals the total count".
ExpositionCumulative == P!ExpositionCumulative

\* Collector: "safe for concurrent use".
NoFatal == P!NoFatal

\* SMTMetrics: "a consistent point-in-time snapshot".
SnapshotPointInTime == S!SnapshotPointInTime

\* SMTMetrics.durations: "unbounded; reset on Snapshot".
SamplesReset == S!SamplesReset
=============================================================================
