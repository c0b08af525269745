---------------------------- MODULE SolverMetrics ----------------------------
(***************************************************************************)
(* internal/otel/metrics.go: the SMT solver counters.  A solver goroutine  *)
(* adds to an atomic counter and then appends its samples under m.mu; a    *)
(* scrape copies the samples under m.mu and then loads the counters, one   *)
(* after the other.                                                        *)
(***************************************************************************)
EXTENDS Integers, Sequences, FiniteSets, TLC

CONSTANTS
    Solver,              \* goroutines that record results
    Duration,            \* solver durations
    Constraints,         \* scripts, as sequences of "(" and ")"
    MaxResults           \* bound: results recorded

VARIABLES
    counter,             \* satCount, unsatCount, unknownCount
    durations, complexity,
    solver,              \* solver[g]: the sample still to append, << >> for none
    snap                 \* the Snapshot in progress: its copied samples and the counters loaded

vars == <<counter, durations, complexity, solver, snap>>

Result == {"sat", "unsat", "unknown"}
total(count) == count["sat"] + count["unsat"] + count["unknown"]
NoSnap == [durs |-> << >>, loaded |-> << >>, at |-> "none"]

TypeOK ==
    /\ counter \in [Result -> 0 .. MaxResults]
    /\ durations \in Seq(Duration) /\ complexity \in Seq(Nat)
    /\ \A g \in Solver : solver[g] = << >> \/ solver[g] \in Duration \X Nat
    /\ snap.durs \in Seq(Duration) /\ DOMAIN snap.loaded \subseteq Result

Init ==
    /\ counter = [r \in Result |-> 0]
    /\ durations = << >> /\ complexity = << >>
    /\ solver = [g \in Solver |-> << >>]
    /\ snap = NoSnap

-----------------------------------------------------------------------------

\* The scan of ConstraintComplexityScore: depth, topLevel and count.
ConstraintComplexityScore(script) ==
    LET step(s, ch) ==
            IF ch = "(" THEN [s EXCEPT !.depth = @ + 1, !.topLevel = @ \/ s.depth = 0]
            ELSE [s EXCEPT !.depth = @ - 1,
                           !.count = IF s.depth = 1 /\ s.topLevel THEN @ + 1 ELSE @,
                           !.topLevel = @ /\ s.depth # 1]
        scan[i \in 0 .. Len(script)] ==
            IF i = 0 THEN [depth |-> 0, topLevel |-> FALSE, count |-> 0] ELSE step(scan[i - 1], script[i])
    IN  scan[Len(script)].count

\* RecordSolverResult: the counter, ...
RecordResult(g, sat, d, script) ==
    LET r == IF sat \in {"sat", "unsat"} THEN sat ELSE "unknown"
    IN  /\ solver[g] = << >>
        /\ total(counter) < MaxResults
        /\ counter' = [counter EXCEPT ![r] = @ + 1]
        /\ solver' = [solver EXCEPT ![g] = <<d, ConstraintComplexityScore(script)>>]
        /\ UNCHANGED <<durations, complexity, snap>>

\* ... then record.
record(g) ==
    /\ solver[g] # << >>
    /\ durations' = Append(durations, solver[g][1])
    /\ complexity' = Append(complexity, solver[g][2])
    /\ solver' = [solver EXCEPT ![g] = << >>]
    /\ UNCHANGED <<counter, snap>>

SnapshotSamples ==
    /\ snap.at = "none"
    /\ snap' = [at |-> "counters", durs |-> durations, loaded |-> << >>]
    /\ UNCHANGED <<counter, durations, complexity, solver>>

\* Mutant: the samples are copied again with the last counter.
SnapshotLoadLate(r) ==
    LET order == [sat |-> {}, unsat |-> {"sat"}, unknown |-> {"sat", "unsat"}]
    IN  /\ snap.at = "counters" /\ DOMAIN snap.loaded = order[r]
        /\ snap' = [at |-> IF r = "unknown" THEN "done" ELSE "counters",
                    durs |-> durations,
                    loaded |-> [q \in DOMAIN snap.loaded \cup {r} |-> IF q = r THEN counter[r] ELSE snap.loaded[q]]]
        /\ UNCHANGED <<counter, durations, complexity, solver>>

SnapshotLoad(r) ==
    LET order == [sat |-> {}, unsat |-> {"sat"}, unknown |-> {"sat", "unsat"}]
    IN  /\ snap.at = "counters" /\ DOMAIN snap.loaded = order[r]
        /\ snap' = [snap EXCEPT !.at = IF r = "unknown" THEN "done" ELSE @,
                                !.loaded = [q \in DOMAIN @ \cup {r} |-> IF q = r THEN counter[r] ELSE @[q]]]
        /\ UNCHANGED <<counter, durations, complexity, solver>>

SnapshotReturn == snap.at = "done" /\ snap' = NoSnap /\ UNCHANGED <<counter, durations, complexity, solver>>

Next ==
    \/ \E g \in Solver :
          \/ record(g)
          \/ \E sat \in {"sat", "unsat", "error"}, d \in Duration, script \in Constraints : RecordResult(g, sat, d, script)
    \/ SnapshotSamples \/ SnapshotReturn
    \/ \E r \in Result : SnapshotLoad(r)

Spec == Init /\ [][Next]_vars

\* percentile of the sorted samples.
percentile(sample, p) ==
    LET sorted == SortSeq(sample, <)
        idx == (p * Len(sorted)) \div 100
    IN  sorted[IF idx >= Len(sorted) THEN Len(sorted) ELSE idx + 1]

-----------------------------------------------------------------------------
\* A scrape never shows more samples than results, whatever was recorded while
\* it was taken: a result is counted before it is sampled and the samples are
\* copied before the counters are loaded.
SamplesWithinCounts == snap.at = "done" => Len(snap.durs) <= total(snap.loaded)

\* The duration quantiles of a scrape are ordered, and p of every hundred
\* samples are at or below the p-th: none is below its share.
QuantilesCover ==
    snap.durs # << >> =>
       /\ percentile(snap.durs, 50) <= percentile(snap.durs, 95)
       /\ percentile(snap.durs, 95) <= percentile(snap.durs, 99)
       /\ \A p \in {50, 95, 99} :
             100 * Cardinality({i \in DOMAIN snap.durs : snap.durs[i] <= percentile(snap.durs, p)}) >= p * Len(snap.durs)

\* On a balanced script the score is the number of its top-level forms.
ScoreCountsForms ==
    \A script \in Constraints :
       LET depth(i) == 2 * Cardinality({j \in 1 .. i : script[j] = "("}) - i
       IN  (\A i \in DOMAIN script : depth(i) >= 0) /\ depth(Len(script)) = 0 =>
              ConstraintComplexityScore(script) = Cardinality({i \in DOMAIN script : depth(i) = 0})

\* "Snapshot returns a consistent point-in-time snapshot of current counters and
\* duration percentiles": every counted result has its sample.
SnapshotPointInTime == snap.at = "done" => Len(snap.durs) = total(snap.loaded)

\* "solver_duration_ms samples (unbounded; reset on Snapshot)"
SamplesReset == [][SnapshotSamples => durations' = << >>]_vars
=============================================================================
