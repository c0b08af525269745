------------------------------ MODULE AuditLog ------------------------------
(***************************************************************************)
(* internal/audit/audit.go: the append-only audit trail.  Record takes its *)
(* timestamp before it takes l.mu, so that the calls of two goroutines may *)
(* append in the other order; Rotate and Export hold l.mu throughout.      *)
(***************************************************************************)
EXTENDS Integers, Sequences, FiniteSets, FiniteSetsExt

CONSTANTS
    Tier,
    Recorder,            \* goroutines that record decisions
    maxLen,              \* Log.maxLen
    MaxTime,             \* bound: the wall clock
    MaxRecords           \* bound: entries recorded

VARIABLES
    entries,             \* Log.entries: records [id, tier, timestamp]
    rotationCount,
    now,                 \* the wall clock
    recorder,            \* recorder[r]: the timestamp taken by the Record call in progress, -1 for none
    trail                \* history: every entry ever appended, in order

vars == <<entries, rotationCount, now, recorder, trail>>

Entry == [id : 1 .. MaxRecords, tier : Tier, timestamp : 0 .. MaxTime]

TypeOK ==
    /\ entries \in Seq(Entry)
    /\ rotationCount \in 0 .. MaxRecords
    /\ now \in 0 .. MaxTime
    /\ recorder \in [Recorder -> -1 .. MaxTime]
    /\ trail \in Seq(Entry)

Init ==
    /\ entries = << >> /\ trail = << >>
    /\ rotationCount = 0
    /\ now = 0
    /\ recorder = [r \in Recorder |-> -1]

Drop(n) == SubSeq(entries, n + 1, Len(entries))

Tick == now < MaxTime /\ now' = now + 1 /\ UNCHANGED <<entries, rotationCount, recorder, trail>>

RecordStamp(r) ==
    /\ recorder[r] = -1
    /\ recorder' = [recorder EXCEPT ![r] = now]
    /\ UNCHANGED <<entries, rotationCount, now, trail>>

dropFull == IF Len(entries) >= maxLen THEN Len(entries) - maxLen + 1 ELSE 0

\* Mutant: a rotation is counted, and not the entries it evicts.
RecordAppendCountsOne(r, tier) ==
    LET e == [id |-> Len(trail) + 1, tier |-> tier, timestamp |-> recorder[r]]
    IN  /\ recorder[r] # -1 /\ Len(trail) < MaxRecords
        /\ entries' = Append(Drop(dropFull), e)
        /\ rotationCount' = rotationCount
        /\ trail' = Append(trail, e)
        /\ recorder' = [recorder EXCEPT ![r] = -1]
        /\ UNCHANGED now

RecordAppend(r, tier) ==
    LET e == [id |-> Len(trail) + 1, tier |-> tier, timestamp |-> recorder[r]]
    IN  /\ recorder[r] # -1 /\ Len(trail) < MaxRecords
        /\ entries' = Append(Drop(dropFull), e)
        /\ rotationCount' = rotationCount + dropFull
        /\ trail' = Append(trail, e)
        /\ recorder' = [recorder EXCEPT ![r] = -1]
        /\ UNCHANGED now

\* The entries before the first that is not older than the cutoff.
cut(cutoff) ==
    Max({i \in 0 .. Len(entries) : \A j \in 1 .. i : entries[j].timestamp < cutoff})

Rotate(age) ==
    /\ entries' = Drop(cut(now - age))
    /\ rotationCount' = rotationCount + cut(now - age)
    /\ UNCHANGED <<now, recorder, trail>>

Next ==
    \/ Tick
    \/ \E r \in Recorder : RecordStamp(r) \/ \E tier \in Tier : RecordAppend(r, tier)
    \/ \E age \in 0 .. MaxTime : Rotate(age)

Spec == Init /\ [][Next]_vars

Export(from) == SelectSeq(entries, LAMBDA e : e.timestamp >= from)

Stats ==
    [total |-> Len(entries), rotations |-> rotationCount,
     tiers |-> [t \in Tier |-> Cardinality({i \in DOMAIN entries : entries[i].tier = t})]]

-----------------------------------------------------------------------------
\* The log is the trail without its rotationCount oldest entries: nothing is
\* lost, reordered or altered between two rotations, and Stats accounts for
\* every entry ever recorded.
TrailIsSuffix == entries = SubSeq(trail, rotationCount + 1, Len(trail))

\* "Entries are stored in a bounded ring buffer": and it is full before anything
\* recent is evicted.
KeepsMaxLen ==
    /\ [](Len(entries) <= maxLen)
    /\ [][Len(trail') > Len(trail) => Len(entries') >= Min({Len(entries) + 1, maxLen})]_vars

\* The tiers of Stats add up to its total.
StatsAddUp == Stats.total = FoldSet(LAMBDA t, n : n + Stats.tiers[t], 0, Tier)

\* Rotate spares every entry that is not older than the age, although entries
\* may be out of order.
RotateSparesRecent ==
    [][\A age \in 0 .. MaxTime :
          Rotate(age) => \A i \in DOMAIN entries :
                            (\A j \in DOMAIN entries' : entries'[j] # entries[i]) => entries[i].timestamp < now - age]_vars

\* "Export returns entries with timestamps >= from, sorted chronologically."
ExportChronological ==
    \A i, j \in DOMAIN Export(0) : i < j => Export(0)[i].timestamp <= Export(0)[j].timestamp

\* "Rotate forces an immediate rotation: discards entries older than age."
RotateDiscardsOld ==
    \A age \in 0 .. MaxTime :
       LET left == Drop(cut(now - age)) IN \A i \in DOMAIN left : left[i].timestamp >= now - age
=============================================================================
