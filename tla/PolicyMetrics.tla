---------------------------- MODULE PolicyMetrics ----------------------------
(***************************************************************************)
(* internal/observability: the Collector of per-policy metrics, the        *)
(* Prometheus exposition, the dashboard and the alert engine.  Record      *)
(* holds c.mu.  A reader copies the series under c.mu and renders them     *)
(* after it is released; the copy shares the bucket slice and the map of   *)
(* error codes with the live series, so a Record in between shows in the   *)
(* rendering, and a write to the map while it is iterated over may end the *)
(* process.  Latencies are in milliseconds, error rates in percent.        *)
(***************************************************************************)
EXTENDS Integers, Sequences, FiniteSets, FiniteSetsExt, SequencesExt

CONSTANTS
    Policy,              \* numbers, ordered like the IDs they stand for
    Obs,                 \* observations [policy, tier, latency, success, code, memory]
    MaxObs,              \* bound: observations recorded
    SampleScale          \* scale: the MinSamples of the rules are divided by it

VARIABLES
    series,              \* Collector.series
    reader,              \* the series a rendering in progress has copied
    fatal,               \* the runtime found a concurrent map iteration and map write
    seen                 \* history: how often each observation was recorded

vars == <<series, reader, fatal, seen>>

latencyBuckets == <<5, 10, 25, 50, 100, 250, 500, 1000, 2500, 5000, 10000>>
numLatencyBuckets == Len(latencyBuckets) + 1
Bucket == 1 .. numLatencyBuckets
Code == {o.code : o \in Obs} \cup {"unknown"}

newSeries(tier) ==
    [tier |-> tier, count |-> 0, sum |-> 0, min |-> 0, max |-> 0, buckets |-> [i \in Bucket |-> 0],
     total |-> 0, successes |-> 0, failures |-> 0, errorsByCode |-> [c \in Code |-> 0], maxMemory |-> 0]

TypeOK ==
    /\ DOMAIN series \subseteq Policy
    /\ \A p \in DOMAIN series : DOMAIN series[p].buckets = Bucket /\ DOMAIN series[p].errorsByCode = Code
    /\ \A p \in DOMAIN series : series[p].total \in 0 .. MaxObs
    /\ DOMAIN reader \subseteq DOMAIN series
    /\ fatal \in BOOLEAN
    /\ seen \in [Obs -> 0 .. MaxObs]

Init == series = << >> /\ reader = << >> /\ fatal = FALSE /\ seen = [o \in Obs |-> 0]

-----------------------------------------------------------------------------
latencyBucketIndex(d) ==
    LET below == {i \in DOMAIN latencyBuckets : d <= latencyBuckets[i]}
    IN  IF below = {} THEN numLatencyBuckets ELSE Min(below)

\* latencyAgg.record
recordLatency(s, d) ==
    [s EXCEPT !.min = IF s.count = 0 \/ d < @ THEN d ELSE @,
              !.max = IF d > @ THEN d ELSE @,
              !.count = @ + 1, !.sum = @ + d,
              !.buckets[latencyBucketIndex(d)] = @ + 1]

recordOutcome(s, o) ==
    IF o.success THEN [s EXCEPT !.total = @ + 1, !.successes = @ + 1]
    ELSE [s EXCEPT !.total = @ + 1, !.failures = @ + 1,
                   !.errorsByCode[IF o.code = "" THEN "unknown" ELSE o.code] = @ + 1]

recorded(s, o) ==
    LET t == recordOutcome(recordLatency(s, o.latency), o)
    IN  [t EXCEPT !.tier = o.tier, !.maxMemory = IF o.memory > @ THEN o.memory ELSE @]

\* A failure writes the map; if a rendering holds it the process may die.
Record(o) ==
    LET old == IF o.policy \in DOMAIN series THEN series[o.policy] ELSE newSeries(o.tier)
    IN  /\ ~fatal
        /\ FoldFunction(+, 0, seen) < MaxObs
        /\ series' = [p \in DOMAIN series \cup {o.policy} |-> IF p = o.policy THEN recorded(old, o) ELSE series[p]]
        /\ seen' = [seen EXCEPT ![o] = @ + 1]
        /\ fatal' \in IF ~o.success /\ o.policy \in DOMAIN reader THEN BOOLEAN ELSE {FALSE}
        /\ UNCHANGED reader

\* allSeries, by a rendering that begins.
allSeries ==
    /\ ~fatal
    /\ reader = << >>
    /\ reader' = series
    /\ UNCHANGED <<series, fatal, seen>>

\* The rendering ends.
Rendered == ~fatal /\ reader # << >> /\ reader' = << >> /\ UNCHANGED <<series, fatal, seen>>

Next == (\E o \in Obs : Record(o)) \/ allSeries \/ Rendered

Spec == Init /\ [][Next]_vars

-----------------------------------------------------------------------------
\* What a rendering sees of a series it copied: the buckets and the codes are
\* those of now.
View(p) == [reader[p] EXCEPT !.buckets = series[p].buckets, !.errorsByCode = series[p].errorsByCode]

sumTo(buckets, i) == FoldFunctionOnSet(+, 0, buckets, 1 .. i)

\* PrometheusText: the cumulative buckets, +Inf from the copied count.
exposition(s) == [i \in Bucket |-> IF i = numLatencyBuckets THEN s.count ELSE sumTo(s.buckets, i)]

\* cumulativeBuckets of the dashboard: +Inf from the buckets.
cumulativeBuckets(s) == [i \in Bucket |-> sumTo(s.buckets, i)]

\* The first bucket at which the cumulative count reaches the target q * count.
percentileBucket(s, q) ==
    LET reached == {i \in DOMAIN latencyBuckets : 100 * sumTo(s.buckets, i) >= q * s.count}
    IN  IF reached = {} THEN numLatencyBuckets ELSE Min(reached)

\* Mutant: the fraction is of all samples.
percentileOfAll(s, q) ==
    LET i == percentileBucket(s, q)
        prevBound == IF i = 1 THEN 0 ELSE latencyBuckets[i - 1]
    IN  CASE s.count = 0 -> 0
          [] s.count > 0 /\ i = numLatencyBuckets -> s.max
          [] OTHER -> prevBound + (q * s.count * (latencyBuckets[i] - prevBound)) \div (100 * s.buckets[i])

\* percentile, for 0 < q < 100: interpolation within that bucket.
percentile(s, q) ==
    LET i == percentileBucket(s, q)
        prevBound == IF i = 1 THEN 0 ELSE latencyBuckets[i - 1]
        rank == q * s.count - 100 * (sumTo(s.buckets, i) - s.buckets[i])
    IN  CASE s.count = 0 -> 0
          [] s.count > 0 /\ i = numLatencyBuckets -> s.max
          [] OTHER -> prevBound + (rank * (latencyBuckets[i] - prevBound)) \div (100 * s.buckets[i])

-----------------------------------------------------------------------------

mergeSeries(dst, src) ==
    [dst EXCEPT !.min = IF src.count > 0 /\ (dst.count = 0 \/ src.min < dst.min) THEN src.min ELSE @,
                !.max = IF src.max > dst.max THEN src.max ELSE @,
                !.count = @ + src.count, !.sum = @ + src.sum,
                !.buckets = [i \in Bucket |-> @[i] + src.buckets[i]],
                !.total = @ + src.total, !.successes = @ + src.successes, !.failures = @ + src.failures,
                !.errorsByCode = [c \in Code |-> @[c] + src.errorsByCode[c]],
                !.maxMemory = IF src.maxMemory > @ THEN src.maxMemory ELSE @]

\* The overall rollup of Render.
Overall == FoldSet(LAMBDA p, dst : mergeSeries(dst, series[p]), newSeries("unknown"), DOMAIN series)

-----------------------------------------------------------------------------
\* The standard rules.  IDs are numbers in the order of the rules' names.
DefaultRules ==
    <<[id |-> 4, metric |-> "p95", threshold |-> 500,  severity |-> "warning",  minSamples |-> 20],
      [id |-> 3, metric |-> "p95", threshold |-> 1000, severity |-> "critical", minSamples |-> 10],
      [id |-> 2, metric |-> "errorRate", threshold |-> 5,  severity |-> "warning",  minSamples |-> 50],
      [id |-> 1, metric |-> "errorRate", threshold |-> 10, severity |-> "critical", minSamples |-> 50],
      [id |-> 5, metric |-> "memory", threshold |-> 512, severity |-> "critical", minSamples |-> 1]>>

\* AlertEngine.rules
Rules == [i \in DOMAIN DefaultRules |-> [DefaultRules[i] EXCEPT !.minSamples = @ \div SampleScale]]

\* metricValue and compare: the metric is above the threshold.
exceeds(s, r) ==
    CASE r.metric = "p95" -> percentile(s, 95) > r.threshold
      [] r.metric = "errorRate" -> 100 * s.failures > r.threshold * s.total
      [] r.metric = "memory" -> s.maxMemory > r.threshold

fires(p, r) == series[p].count >= r.minSamples /\ exceeds(series[p], r)

alertOrder == [critical |-> 0, warning |-> 1]

\* Mutant: the policy is compared first.
alertLessByPolicy(x, y) ==
    IF x.policy # y.policy THEN x.policy < y.policy ELSE alertOrder[x.severity] < alertOrder[y.severity]

alertLess(x, y) ==
    IF x.severity # y.severity THEN alertOrder[x.severity] < alertOrder[y.severity]
    ELSE IF x.policy # y.policy THEN x.policy < y.policy ELSE x.rule < y.rule

\* Insertion sort: a[j] moves down past the greater ones.
sortAlerts(a) ==
    FoldLeft(LAMBDA sorted, x :
                LET at == Cardinality({j \in DOMAIN sorted : ~alertLess(x, sorted[j])})
                IN  InsertAt(sorted, at + 1, x),
             << >>, a)

\* Evaluate: by policy, then by rule, then sorted.
Evaluate ==
    LET alert(p, r) == [policy |-> p, rule |-> r.id, severity |-> r.severity]
        crossed(p) == SelectSeq(Rules, LAMBDA r : fires(p, r))
        ofPolicy(p) == [i \in DOMAIN crossed(p) |-> alert(p, crossed(p)[i])]
        byId == SelectSeq([i \in 1 .. Max(Policy) |-> i], LAMBDA p : p \in DOMAIN series)
    IN  sortAlerts(FoldLeft(LAMBDA as, p : as \o ofPolicy(p), << >>, byId))

-----------------------------------------------------------------------------
\* The series that observations of the set O, taken as often as they were seen,
\* amount to, whatever their order.
Times(O) == MapThenSumSet(LAMBDA o : seen[o], O)
Amounts(s, O) ==
    LET some == {o \in O : seen[o] > 0}
    IN  /\ s.count = Times(O) /\ s.total = Times(O)
        /\ s.sum = MapThenSumSet(LAMBDA o : seen[o] * o.latency, O)
        /\ s.successes = Times({o \in O : o.success})
        /\ s.failures = Times({o \in O : ~o.success})
        /\ s.failures = FoldFunction(+, 0, s.errorsByCode)
        /\ some # {} => /\ s.min = Min({o.latency : o \in some})
                        /\ s.max = Max({o.latency : o \in some})
                        /\ s.maxMemory = Max({o.memory : o \in some})
        /\ \A i \in Bucket :
              s.buckets[i] = Times({o \in O : /\ i < numLatencyBuckets => o.latency <= latencyBuckets[i]
                                              /\ i > 1 => o.latency > latencyBuckets[i - 1]})

\* Every series is the sum of its own policy's observations: none is lost,
\* counted twice or put into another policy's series, and every failure has a
\* code.
SeriesExact == \A p \in DOMAIN series : Amounts(series[p], {o \in Obs : o.policy = p})

\* The overall rollup, merged from aggregates, is the one the observations of
\* all policies would have made.
OverallExact == Amounts(Overall, Obs)

\* The percentiles that are shown never decrease from p50 to p95 to p99, and
\* each lies in the bucket of the sample it approximates, the one of rank
\* q * count: interpolation never leaves it.
PercentileNearSample ==
    \A p \in DOMAIN series :
       LET s == series[p]
           upTo(d) == Times({o \in Obs : o.policy = p /\ o.latency <= d})
           sample(q) == Min({o.latency : o \in {o \in Obs : o.policy = p /\ 100 * upTo(o.latency) >= q * s.count}})
       IN  /\ percentile(s, 50) <= percentile(s, 95) /\ percentile(s, 95) <= percentile(s, 99)
           /\ \A q \in {50, 95, 99} :
                 LET i == latencyBucketIndex(sample(q))
                 IN  /\ i > 1 => percentile(s, q) >= latencyBuckets[i - 1]
                     /\ i < numLatencyBuckets => percentile(s, q) <= latencyBuckets[i]

\* Evaluate returns an alert for each rule that a policy with enough samples
\* crosses, and for no other, "sorted by severity (critical first) then policy
\* id".
AlertsExact ==
    LET as == Evaluate
        due == {d \in (DOMAIN series) \X (DOMAIN Rules) :
                   /\ Times({o \in Obs : o.policy = d[1]}) >= Rules[d[2]].minSamples
                   /\ exceeds(series[d[1]], Rules[d[2]])}
    IN  /\ {<<as[i].policy, as[i].rule>> : i \in DOMAIN as} = {<<d[1], Rules[d[2]].id>> : d \in due}
        /\ Len(as) = Cardinality(due)
        /\ \A i, j \in DOMAIN as : i < j =>
              /\ alertOrder[as[i].severity] <= alertOrder[as[j].severity]
              /\ as[i].severity = as[j].severity => as[i].policy <= as[j].policy

\* "+Inf bucket equals the total count", and no bucket is above it.
ExpositionCumulative ==
    \A p \in DOMAIN reader : \A i \in 2 .. numLatencyBuckets : exposition(View(p))[i - 1] <= exposition(View(p))[i]

\* "Record may be called from many goroutines ... while Snapshot/PrometheusText
\* are read concurrently."
NoFatal == ~fatal
=============================================================================
