---------------------------- MODULE ShardMetrics ----------------------------
(***************************************************************************)
(* internal/distributed/sharding/metrics.go: the per-shard counters and    *)
(* the Collector over them.  Record and Snapshot hold no lock: every       *)
(* atomic operation of theirs is a step of its own, and the calls of the   *)
(* request goroutines and of an observer interleave between them.          *)
(* Register, Collector.Snapshot and LeastLoaded hold c.mu.                 *)
(***************************************************************************)
EXTENDS Integers, FiniteSets

CONSTANTS
    Shard,               \* the nodes, each with its ShardMetrics
    Recorder,            \* goroutines that serve requests
    MaxRequests,         \* bound: requests that a shard counts
    Slow                 \* the latency of a request that is measured

VARIABLES
    metrics,             \* Collector.metrics: the registered shards
    counts,              \* counts[s]: requestCount, errorCount, totalLatency, sampleCount
    recorder,            \* recorder[g]: where the goroutine is in Record
    observer             \* the observer's Snapshot or LeastLoaded call in progress

vars == <<metrics, counts, recorder, observer>>

Zero == [requests |-> 0, errors |-> 0, latency |-> 0, samples |-> 0]
Idle == [at |-> "idle"]
maxCount == MaxRequests + 1       \* stands for 1<<63 - 1: more than any count

TypeOK ==
    /\ metrics \subseteq Shard
    /\ counts \in [Shard -> [requests : 0 .. MaxRequests, errors : 0 .. MaxRequests,
                             latency : 0 .. Slow * MaxRequests, samples : 0 .. MaxRequests]]
    /\ \A g \in Recorder :
          \/ recorder[g] = Idle
          \/ recorder[g] \in [at : {"errors", "latency", "samples"}, shard : Shard, took : {-1, Slow}]
    /\ observer.at \in {"idle", "errors", "latency", "samples", "done", "scan"}

Init ==
    /\ metrics = {}
    /\ counts = [s \in Shard |-> Zero]
    /\ recorder = [g \in Recorder |-> Idle]
    /\ observer = Idle

Bump(s, field, by) == counts' = [counts EXCEPT ![s][field] = @ + by]
Goto(g, at) == recorder' = [recorder EXCEPT ![g].at = at]

-----------------------------------------------------------------------------
\* Record, one atomic add at a time.  A negative latency is not a sample.

RecordRequest(g) ==
    \E s \in Shard, isError \in BOOLEAN, took \in {-1, Slow} :
       /\ recorder[g] = Idle /\ counts[s].requests < MaxRequests
       /\ Bump(s, "requests", 1)
       /\ recorder' = [recorder EXCEPT ![g] = [at |-> IF isError THEN "errors" ELSE "latency",
                                               shard |-> s, took |-> took]]
       /\ UNCHANGED <<metrics, observer>>

RecordError(g) ==
    /\ recorder[g].at = "errors"
    /\ Bump(recorder[g].shard, "errors", 1)
    /\ Goto(g, "latency")
    /\ UNCHANGED <<metrics, observer>>

RecordLatency(g) ==
    /\ recorder[g].at = "latency"
    /\ IF recorder[g].took >= 0
       THEN Bump(recorder[g].shard, "latency", recorder[g].took) /\ Goto(g, "samples")
       ELSE UNCHANGED counts /\ recorder' = [recorder EXCEPT ![g] = Idle]
    /\ UNCHANGED <<metrics, observer>>

RecordSample(g) ==
    /\ recorder[g].at = "samples"
    /\ Bump(recorder[g].shard, "samples", 1)
    /\ recorder' = [recorder EXCEPT ![g] = Idle]
    /\ UNCHANGED <<metrics, observer>>

\* Reset is meant for a time when nothing is recorded or read.
Reset(s) ==
    /\ \A g \in Recorder : recorder[g] = Idle
    /\ observer = Idle
    /\ counts' = [counts EXCEPT ![s] = Zero]
    /\ UNCHANGED <<metrics, recorder, observer>>

-----------------------------------------------------------------------------
\* Snapshot: four loads, one after the other.
Snapshot(s) ==
    /\ observer = Idle
    /\ observer' = [at |-> "errors", shard |-> s, requests |-> counts[s].requests]
    /\ UNCHANGED <<metrics, counts, recorder>>

errorRateAbove1(r) == r.requests > 0 /\ r.errors > r.requests
avgLatency(r) == IF r.samples = 0 THEN 0 ELSE r.latency \div r.samples

SnapshotLoad ==
    LET next == [errors |-> "latency", latency |-> "samples", samples |-> "done"]
    IN  /\ observer.at \in DOMAIN next
        /\ observer' = [f \in DOMAIN observer \cup {observer.at} |->
                       IF f = "at" THEN next[observer.at]
                       ELSE IF f = observer.at THEN counts[observer.shard][f] ELSE observer[f]]
        /\ UNCHANGED <<metrics, counts, recorder>>

SnapshotReturn == observer.at = "done" /\ observer' = Idle /\ UNCHANGED <<metrics, counts, recorder>>

\* The collector.  LeastLoaded holds c.mu for reading while it scans.
Register(s, isNil) ==
    /\ observer = Idle
    /\ metrics' = IF isNil THEN metrics \ {s} ELSE metrics \cup {s}
    /\ UNCHANGED <<counts, recorder, observer>>

LeastLoaded ==
    /\ observer = Idle /\ metrics # {}
    /\ observer' = [at |-> "scan", left |-> metrics, best |-> {}, bestCount |-> maxCount]
    /\ UNCHANGED <<metrics, counts, recorder>>

\* Mutant: the last shard scanned wins.
LeastLoadedScanLast(s) ==
    /\ observer.at = "scan" /\ s \in observer.left
    /\ observer' = [observer EXCEPT !.left = @ \ {s}, !.best = {s}, !.bestCount = counts[s].requests]
    /\ UNCHANGED <<metrics, counts, recorder>>

LeastLoadedScan(s) ==
    /\ observer.at = "scan" /\ s \in observer.left
    /\ observer' = IF counts[s].requests < observer.bestCount
               THEN [observer EXCEPT !.left = @ \ {s}, !.best = {s}, !.bestCount = counts[s].requests]
               ELSE [observer EXCEPT !.left = @ \ {s}]
    /\ UNCHANGED <<metrics, counts, recorder>>

LeastLoadedReturn ==
    /\ observer.at = "scan" /\ observer.left = {}
    /\ observer' = Idle
    /\ UNCHANGED <<metrics, counts, recorder>>

Next ==
    \/ \E g \in Recorder : RecordRequest(g) \/ RecordError(g) \/ RecordLatency(g) \/ RecordSample(g)
    \/ \E s \in Shard : Reset(s) \/ Snapshot(s) \/ LeastLoadedScan(s) \/ \E isNil \in BOOLEAN : Register(s, isNil)
    \/ SnapshotLoad \/ SnapshotReturn \/ LeastLoaded \/ LeastLoadedReturn

Spec == Init /\ [][Next]_vars

-----------------------------------------------------------------------------
\* Whatever Record calls are half done, a shard never counts more errors, or
\* more latency samples, than requests, and samples account for all latency but
\* that of the calls between their last two adds.
CountsOrdered ==
    \A s \in Shard :
       /\ counts[s].errors <= counts[s].requests
       /\ counts[s].samples <= counts[s].requests
       /\ 0 <= counts[s].latency
       /\ counts[s].latency <= Slow * (counts[s].samples
             + Cardinality({g \in Recorder : recorder[g].at = "samples" /\ recorder[g].shard = s}))

\* The shard that LeastLoaded returns was, when it was loaded, at or below every
\* registered shard as it is at the return, although requests are recorded
\* during the scan; and some shard is returned.
LeastLoadedMinimal ==
    observer.at = "scan" /\ observer.left = {} =>
       /\ observer.best # {} /\ observer.best \subseteq metrics
       /\ \A s \in metrics : observer.bestCount <= counts[s].requests

\* "Snapshot returns a point-in-time copy of the metrics": its error rate is at
\* most one and its average latency at most that of the slowest request.
SnapshotConsistent ==
    observer.at = "done" => ~errorRateAbove1(observer) /\ avgLatency(observer) <= Slow
=============================================================================
