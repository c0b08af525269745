--------------------------- MODULE SchemaRegistry ---------------------------
(***************************************************************************)
(* internal/governance/schema.go.  The registry is a Go map without a      *)
(* mutex: Register reads it and writes it in two steps.  The queries       *)
(* iterate over the map in an order Go leaves open; what they return is    *)
(* compared with its specification for every such order.                   *)
(***************************************************************************)
EXTENDS Integers, Sequences, FiniteSets, FiniteSetsExt

CONSTANTS
    Id,                  \* schema IDs
    Version,             \* triples <<major, minor, patch>>
    Registrar,           \* goroutines that register
    MaxSchemas           \* bound: schemas registered

VARIABLES
    schemas,             \* SchemaRegistry.schemas: by <<id, version>>, PreviousVersion; NoVersion is nil
    registrar            \* registrar[r]: the Register call that found its key free, or Idle

vars == <<schemas, registrar>>

NoVersion == << >>
Idle == << >>

TypeOK ==
    /\ DOMAIN schemas \subseteq Id \X Version
    /\ \A k \in DOMAIN schemas : schemas[k] \in Version \cup {NoVersion}
    /\ registrar \in [Registrar -> {Idle} \cup ((Id \X Version) \X (Version \cup {NoVersion}))]

Init == schemas = << >> /\ registrar = [r \in Registrar |-> Idle]

RegisterCheck(r, id, v, prev) ==
    /\ registrar[r] = Idle
    /\ Cardinality(DOMAIN schemas) < MaxSchemas
    /\ <<id, v>> \notin DOMAIN schemas
    /\ registrar' = [registrar EXCEPT ![r] = <<<<id, v>>, prev>>]
    /\ UNCHANGED schemas

RegisterWrite(r) ==
    LET key == registrar[r][1]
    IN  /\ registrar[r] # Idle
        /\ schemas' = [k \in DOMAIN schemas \cup {key} |-> IF k = key THEN registrar[r][2] ELSE schemas[k]]
        /\ registrar' = [registrar EXCEPT ![r] = Idle]

Next ==
    \E r \in Registrar :
       \/ RegisterWrite(r)
       \/ \E id \in Id, v \in Version, prev \in Version \cup {NoVersion} : RegisterCheck(r, id, v, prev)

Spec == Init /\ [][Next]_vars

-----------------------------------------------------------------------------
versionGt(a, b) == \E i \in 1 .. 3 : a[i] > b[i] /\ \A j \in 1 .. i - 1 : a[j] = b[j]

SwapAt(t, i, j) == [t EXCEPT ![i] = t[j], ![j] = t[i]]

\* The inner loop at i, up to j: every later element that is newer is exchanged
\* with the one at i.
exchange(s, i) ==
    LET upto[j \in i .. Len(s)] ==
            IF j = i THEN s
            ELSE LET u == upto[j - 1] IN IF versionGt(u[j][2], u[i][2]) THEN SwapAt(u, i, j) ELSE u
    IN  upto[Len(s)]

sortSchemas(s) ==
    LET upto[i \in 0 .. Len(s)] == IF i = 0 THEN s ELSE exchange(upto[i - 1], i)
    IN  upto[Len(s)]

\* "" stands for every ID.
List(order, id) == sortSchemas(SelectSeq(order, LAMBDA k : id = "" \/ k[1] = id))

Latest(order, id) ==
    LET best[i \in 0 .. Len(order)] ==
            IF i = 0 THEN NoVersion
            ELSE LET k == order[i]
                 IN  IF k[1] = id /\ (best[i - 1] = NoVersion \/ versionGt(k[2], best[i - 1])) THEN k[2] ELSE best[i - 1]
    IN  best[Len(order)]

Last(chain) == chain[Len(chain)]

\* Mutant: current stays where it was.
MigrationChainStuck(id, v, rounds) ==
    FoldSet(LAMBDA i, chain : LET prev == schemas[<<id, v>>]
                              IN  IF prev # NoVersion /\ <<id, prev>> \in DOMAIN schemas
                                  THEN Append(chain, prev) ELSE chain,
            <<v>>, 1 .. rounds)

\* A round of the loop in MigrationChain: current moves to its predecessor, if
\* that is registered.
follow(id, chain) ==
    LET prev == schemas[<<id, Last(chain)>>]
    IN  IF prev # NoVersion /\ <<id, prev>> \in DOMAIN schemas THEN Append(chain, prev) ELSE chain

\* The versions MigrationChain has appended after the given number of rounds;
\* without a bound the loop ends where there is no predecessor.
MigrationChain(id, v, rounds) == FoldSet(LAMBDA i, chain : follow(id, chain), <<v>>, 1 .. rounds)

ToSet(s) == {s[i] : i \in DOMAIN s}
Orders == {o \in [1 .. Cardinality(DOMAIN schemas) -> DOMAIN schemas] : \A i, j \in DOMAIN o : o[i] = o[j] => i = j}
IdsListed == Id \cup {""}

-----------------------------------------------------------------------------
\* List is "sorted by version descending (newest first)" and complete, in
\* whatever order the map is iterated and however the loops exchange elements.
ListDescending ==
    \A order \in Orders, id \in IdsListed :
       LET l == List(order, id)
       IN  /\ ToSet(l) = {k \in DOMAIN schemas : id = "" \/ k[1] = id}
           /\ \A i, j \in DOMAIN l : i < j => ~versionGt(l[j][2], l[i][2])

\* Latest does not depend on the iteration order and is what List puts first.
LatestHeadsList ==
    \A order \in Orders, id \in Id :
       LET l == List(order, id)
       IN  Latest(order, id) = IF l = << >> THEN NoVersion ELSE l[1][2]

\* When every schema supersedes an older version, each migration chain ends, at
\* a schema with no registered predecessor.
ChainEndsAtOldest ==
    (\A k \in DOMAIN schemas : schemas[k] # NoVersion => versionGt(k[2], schemas[k])) =>
       \A k \in DOMAIN schemas :
          LET chain == MigrationChain(k[1], k[2], Cardinality(DOMAIN schemas))
          IN  /\ Cardinality(ToSet(chain)) = Len(chain)
              /\ <<k[1], schemas[<<k[1], Last(chain)>>]>> \notin DOMAIN schemas

\* "Register returns an error if a schema with the same ID and version already
\* exists": a registered schema is never replaced.
RegisteredIsKept == [][\A k \in DOMAIN schemas : schemas'[k] = schemas[k]]_vars

\* "MigrationChain returns the ordered list of schemas from the given version
\* back to the earliest registered predecessor": it returns.
ChainReturns ==
    \A k \in DOMAIN schemas :
       LET n == Cardinality(DOMAIN schemas) IN MigrationChain(k[1], k[2], n) = MigrationChain(k[1], k[2], n + 1)
=============================================================================
