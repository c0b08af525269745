--------------------------- MODULE DecisionCache ---------------------------
(***************************************************************************)
(* internal/symbolic/cache, the LRU cache of Z3 decisions, and the two     *)
(* solver front ends that use one each: SolveConstraintsCtx of internal/z3 *)
(* and Solve of internal/verify.  A caller looks its query up, runs z3 as  *)
(* a subprocess on a miss, and stores what it considers a decision; other  *)
(* callers do the same with the same queries in the meantime.              *)
(*                                                                         *)
(* The subprocess prints the result and then the model.  It may run into   *)
(* the caller's deadline, give up ("unknown"), or die after printing any   *)
(* part of its output.                                                     *)
(***************************************************************************)
EXTENDS Naturals, Sequences

CONSTANTS
    Query,            \* assertion programs, identified with their hashes
    Satisfiable,      \* the queries z3 answers "sat" to, when it answers
    Caller,
    MaxEntries,       \* c.maxEntries; 0 disables the cache
    FrontEnd          \* "z3" or "verify": whose callers these are

VARIABLES
    lru,              \* c.lru, most recent first: records [hash, decision]
    entries,          \* the keys of c.entries
    solving,          \* solving[c]: the query c runs z3 on, or Idle
    used              \* history: every query that was ever stored, by last use

vars == <<lru, entries, solving, used>>

Idle == "idle"

\* What stdout holds when the subprocess is gone.  "sat" is a result line
\* without the model that follows it.
Complete(q) == IF q \in Satisfiable THEN "sat+model" ELSE "unsat"
Decision == {"sat", "sat+model", "unsat"}

Hashes == [i \in DOMAIN lru |-> lru[i].hash]
Distinct(s) == \A i, j \in DOMAIN s : s[i] = s[j] => i = j

\* container/list: the element at i moves to the front, or x is pushed there.
MoveToFront(s, i) == [j \in DOMAIN s |-> IF j = 1 THEN s[i] ELSE IF j <= i THEN s[j - 1] ELSE s[j]]
PushFront(s, x) == <<x>> \o s

\* The element that c.entries holds for the hash.
element(hash) == CHOOSE i \in DOMAIN lru : lru[i].hash = hash

\* The history after a use of the hash.
Touch(hash) ==
    used' = IF \E i \in DOMAIN used : used[i] = hash
            THEN MoveToFront(used, CHOOSE i \in DOMAIN used : used[i] = hash)
            ELSE PushFront(used, hash)

TypeOK ==
    /\ lru \in Seq([hash : Query, decision : Decision])
    /\ entries \subseteq Query
    /\ solving \in [Caller -> Query \cup {Idle}]
    /\ used \in Seq(Query) /\ Distinct(used)

Init ==
    /\ lru = << >> /\ entries = {}
    /\ solving = [c \in Caller |-> Idle]
    /\ used = << >>

-----------------------------------------------------------------------------
\* Mutant: a hit leaves the entry where it is.
GetByHashNoPromote(hash) ==
    /\ Touch(hash)
    /\ UNCHANGED <<lru, entries>>

\* The hit; a miss changes nothing.
GetByHash(hash) ==
    /\ lru' = MoveToFront(lru, element(hash))
    /\ Touch(hash)
    /\ UNCHANGED entries

SetByHash(hash, decision) ==
    LET new == [hash |-> hash, decision |-> decision]
        replaced == [lru EXCEPT ![element(hash)] = new]
        pushed == PushFront(lru, new)
        size == Len(pushed)
    IN  IF MaxEntries = 0 THEN UNCHANGED <<lru, entries, used>>
        ELSE /\ Touch(hash)
             /\ IF hash \in entries
                THEN lru' = MoveToFront(replaced, element(hash)) /\ UNCHANGED entries
                ELSE IF size <= MaxEntries
                THEN lru' = pushed /\ entries' = entries \cup {hash}
                ELSE /\ lru' = SubSeq(pushed, 1, size - 1)
                     /\ entries' = (entries \cup {hash}) \ {pushed[size].hash}

\* Both front ends: ctx.Err, the lookup, and on a miss the start of z3.  A
\* caller whose context is already done returns without touching the cache.
Lookup(c, q) ==
    /\ solving[c] = Idle
    /\ IF q \in entries
       THEN GetByHash(q) /\ UNCHANGED solving
       ELSE solving' = [solving EXCEPT ![c] = q] /\ UNCHANGED <<lru, entries, used>>

\* Mutant: the exit status is not looked at.
StoredDespiteError(out, died, expired) == out \notin {"nothing", "unknown"}

\* Whether the front end stores the parsed output: died says that the process
\* ended with an error, expired that the caller's context did.  z3 ends with
\* an error also when it refuses the (get-model) after "unsat", which is why
\* SolveConstraintsCtx parses the output of a failed process.
Stored(out, died, expired) ==
    /\ out \notin {"nothing", "unknown"}
    /\ died => FrontEnd = "z3" /\ ~expired

\* The subprocess ends, and the front end stores its decision or not.
Finish(c, out, died, expired) ==
    LET q == solving[c]
    IN  /\ q # Idle
        /\ IF died THEN out \in {"nothing", Complete(q)} \cup (IF q \in Satisfiable THEN {"sat"} ELSE {})
                   ELSE out \in {"unknown", Complete(q)}
        /\ solving' = [solving EXCEPT ![c] = Idle]
        /\ IF Stored(out, died, expired) THEN SetByHash(q, out) ELSE UNCHANGED <<lru, entries, used>>

Next ==
    \/ \E c \in Caller, q \in Query : Lookup(c, q)
    \/ \E c \in Caller, out \in Decision \cup {"unknown", "nothing"}, died, expired \in BOOLEAN :
          Finish(c, out, died, expired)

Spec == Init /\ [][Next]_vars

-----------------------------------------------------------------------------
\* The map and the list of the cache hold the same entries, once each, however
\* many callers store the same query.
MapMatchesList == Distinct(Hashes) /\ {Hashes[i] : i \in DOMAIN Hashes} = entries

\* The cache holds the MaxEntries most recently used of all the queries ever
\* stored, in that order: a hit and a repeated store count as use, and nothing
\* is evicted early or late.
HoldsMostRecent ==
    Hashes = SubSeq(used, 1, IF Len(used) <= MaxEntries THEN Len(used) ELSE MaxEntries)

\* "Decision is a completed Z3 query result.  Errors and timeout-driven unknown
\* results are intentionally not cached by callers": an entry is z3's whole
\* answer to its query.
OnlyCompletedCached == \A i \in DOMAIN lru : lru[i].decision = Complete(lru[i].hash)
=============================================================================
