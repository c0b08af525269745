-------------------------- MODULE LocalCachesProofs --------------------------
(***************************************************************************)
(* Proofs about the two caches of a process.  The cache of Z3 decisions,   *)
(* for any queries, callers and capacity: it is least-recently-used in the *)
(* exact sense, and behind the front end of internal/verify it holds whole *)
(* answers only.  The cache of CEL results: its tag index is exact.        *)
(***************************************************************************)
EXTENDS MCLocalCaches, Folding, SequenceTheorems

Stored == [hash : Query, decision : D!Decision]

\* The inductive invariant.  The list is as long as the capacity allows and has
\* the hashes of the most recent queries; the map has the keys of the list.
DecisionInv ==
  /\ lru \in Seq(Stored)
  /\ \A i \in 1..Len(lru) : used[i] \in entries
  /\ \A q \in entries : \E i \in 1..Len(lru) : used[i] = q
  /\ solving \in [Caller -> Query \cup {D!Idle}]
  /\ used \in Seq(Query) /\ D!Distinct(used)
  /\ Len(lru) <= Len(used) /\ Len(lru) <= MaxEntries
  /\ Len(lru) < MaxEntries => Len(lru) = Len(used)
  /\ \A i \in 1..Len(lru) : lru[i].hash = used[i]

\* MoveToFront of container/list.
LEMMA Moved ==
  ASSUME NEW S, NEW s \in Seq(S), NEW i \in 1..Len(s)
  PROVE  /\ D!MoveToFront(s, i) \in Seq(S) /\ Len(D!MoveToFront(s, i)) = Len(s)
         /\ D!MoveToFront(s, i)[1] = s[i]
         /\ \A j \in 2..Len(s) : D!MoveToFront(s, i)[j] = IF j <= i THEN s[j - 1] ELSE s[j]
<1> DEFINE m == D!MoveToFront(s, i)
<1>1. m = [j \in 1..Len(s) |-> IF j = 1 THEN s[i] ELSE IF j <= i THEN s[j - 1] ELSE s[j]]
  BY DEF D!MoveToFront
<1> HIDE DEF m
<1>2. \A j \in 1..Len(s) : (IF j = 1 THEN s[i] ELSE IF j <= i THEN s[j - 1] ELSE s[j]) \in S
  OBVIOUS
<1>3. m \in [1..Len(s) -> S]
  BY <1>1, <1>2
<1>4. Len(s) \in Nat
  OBVIOUS
<1>5. m \in Seq(S) /\ Len(m) = Len(s)
  BY <1>3, <1>4
<1>6. m[1] = s[i] /\ \A j \in 2..Len(s) : m[j] = IF j <= i THEN s[j - 1] ELSE s[j]
  BY <1>1, <1>4
<1> QED BY <1>5, <1>6 DEF m

\* The i-th query of the history has become the first.
MovedUp(i) ==
  /\ Len(used') = Len(used) /\ used'[1] = used[i]
  /\ \A j \in 2..Len(used) : used'[j] = IF j <= i THEN used[j - 1] ELSE used[j]

\* A used decision moves to the front and nothing is forgotten.
LEMMA Touched ==
  ASSUME used \in Seq(Query), D!Distinct(used), NEW hash \in Query, D!Touch(hash)
  PROVE  /\ used' \in Seq(Query) /\ D!Distinct(used)'
         /\ \/ \E i \in 1..Len(used) : used[i] = hash /\ MovedUp(i)
            \/ /\ \A i \in 1..Len(used) : used[i] # hash
               /\ Len(used') = Len(used) + 1 /\ used'[1] = hash
               /\ \A j \in 2..(Len(used) + 1) : used'[j] = used[j - 1]
<1>1. CASE \E i \in DOMAIN used : used[i] = hash
  <2>1. PICK i \in 1..Len(used) : used[i] = hash /\ used' = D!MoveToFront(used, i)
    <3> DEFINE at == CHOOSE i \in DOMAIN used : used[i] = hash
    <3>1. at \in 1..Len(used) /\ used[at] = hash
      BY <1>1
    <3>2. used' = D!MoveToFront(used, at)
      BY <1>1 DEF D!Touch
    <3> HIDE DEF at
    <3> QED BY <3>1, <3>2, Zenon
  <2>2. /\ used' \in Seq(Query) /\ Len(used') = Len(used) /\ used'[1] = used[i]
        /\ \A j \in 2..Len(used) : used'[j] = IF j <= i THEN used[j - 1] ELSE used[j]
    BY <2>1, Moved
  <2>3. \A j \in 1..Len(used) : used'[j] = used[IF j = 1 THEN i ELSE IF j <= i THEN j - 1 ELSE j]
    BY <2>1, <2>2
  <2>4. \A j, k \in 1..Len(used) : used'[j] = used'[k] => j = k
    <3> SUFFICES ASSUME NEW j \in 1..Len(used), NEW k \in 1..Len(used), used'[j] = used'[k]
                 PROVE  j = k
      OBVIOUS
    <3> DEFINE old(n) == IF n = 1 THEN i ELSE IF n <= i THEN n - 1 ELSE n
    <3>1. old(j) \in 1..Len(used) /\ old(k) \in 1..Len(used)
      OBVIOUS
    <3>2. used[old(j)] = used[old(k)]
      BY <2>3
    <3>3. old(j) = old(k)
      BY <3>1, <3>2 DEF D!Distinct
    <3> QED BY <3>3
  <2>5. MovedUp(i)
    BY <2>2 DEF MovedUp
  <2> QED BY <2>1, <2>2, <2>4, <2>5 DEF D!Distinct
<1>2. CASE \A i \in DOMAIN used : used[i] # hash
  <2>1. used' = D!PushFront(used, hash)
    BY <1>2 DEF D!Touch
  <2>2. /\ used' \in Seq(Query) /\ Len(used') = Len(used) + 1 /\ used'[1] = hash
        /\ \A j \in 2..(Len(used) + 1) : used'[j] = used[j - 1]
    <3>1. used' = <<hash>> \o used
      BY <2>1 DEF D!PushFront
    <3>2. used' \in Seq(Query) /\ Len(used') = Len(used) + 1 /\ used'[1] = hash
      BY <3>1
    <3>3. \A j \in 2..(Len(used) + 1) : used'[j] = used[j - 1]
      BY <3>1
    <3> QED BY <3>2, <3>3
  <2>3. \A j, k \in 1..(Len(used) + 1) : used'[j] = used'[k] => j = k
    <3> SUFFICES ASSUME NEW j \in 1..(Len(used) + 1), NEW k \in 1..(Len(used) + 1), used'[j] = used'[k]
                 PROVE  j = k
      OBVIOUS
    <3>1. CASE j = 1
      BY <1>2, <2>2, <3>1
    <3>2. CASE k = 1
      BY <1>2, <2>2, <3>2
    <3>3. CASE j # 1 /\ k # 1
      <4>1. used[j - 1] = used[k - 1] /\ j - 1 \in 1..Len(used) /\ k - 1 \in 1..Len(used)
        BY <2>2, <3>3
      <4>2. j - 1 = k - 1
        BY <4>1 DEF D!Distinct
      <4> QED BY <4>2
    <3> QED BY <3>1, <3>2, <3>3
  <2> QED BY <1>2, <2>1, <2>2, <2>3 DEF D!Distinct
<1> QED BY <1>1, <1>2

\* An entry that is hit, or stored again, comes to the front of both lists.
LEMMA Promoted ==
  ASSUME DecisionInv, NEW hash \in Query, NEW e \in 1..Len(lru), lru[e].hash = hash, D!Touch(hash),
         entries' = entries, solving' \in [Caller -> Query \cup {D!Idle}],
         lru' \in Seq(Stored), Len(lru') = Len(lru), lru'[1].hash = hash,
         \A j \in 2..Len(lru) : lru'[j] = lru[IF j <= e THEN j - 1 ELSE j]
  PROVE  DecisionInv'
<1> DEFINE n == Len(lru)
           at(j) == IF j = 1 THEN e ELSE IF j <= e THEN j - 1 ELSE j
<1>1. /\ used \in Seq(Query) /\ n \in Nat /\ Len(used) \in Nat
      /\ D!Distinct(used) /\ n <= Len(used) /\ \A i \in 1..n : lru[i].hash = used[i]
  BY DEF DecisionInv
<1>2. used[e] = hash /\ e \in 1..Len(used)
  BY <1>1
<1>3. used' \in Seq(Query) /\ D!Distinct(used)' /\ MovedUp(e)
  <2>1. \A i \in 1..Len(used) : used[i] = hash => i = e
    BY <1>1, <1>2 DEF D!Distinct
  <2> QED BY <1>1, <1>2, <2>1, Touched
<1>4. /\ Len(used') = Len(used) /\ used'[1] = used[e]
      /\ \A j \in 2..Len(used) : used'[j] = IF j <= e THEN used[j - 1] ELSE used[j]
  BY <1>3 DEF MovedUp
<1>5. \A j \in 1..n : at(j) \in 1..n
  BY <1>1
<1>6. \A j \in 1..n : used'[j] = used[at(j)]
  <2> SUFFICES ASSUME NEW j \in 1..n PROVE used'[j] = used[at(j)]
    OBVIOUS
  <2>1. CASE j = 1
    BY <2>1, <1>4
  <2>2. CASE j # 1
    <3>1. j \in 2..Len(used)
      BY <2>2, <1>1
    <3> QED BY <2>2, <3>1, <1>4
  <2> QED BY <2>1, <2>2
<1>7. \A j \in 1..n : lru'[j].hash = used[at(j)]
  <2> SUFFICES ASSUME NEW j \in 1..n PROVE lru'[j].hash = used[at(j)]
    OBVIOUS
  <2>1. CASE j = 1
    BY <2>1, <1>2
  <2>2. CASE j # 1
    <3>1. lru'[j] = lru[at(j)] /\ at(j) \in 1..n
      BY <2>2, <1>5
    <3> HIDE DEF at
    <3> QED BY <3>1, <1>1
  <2> QED BY <2>1, <2>2
<1>8. \A i \in 1..n : \E j \in 1..n : at(j) = i
  <2> SUFFICES ASSUME NEW i \in 1..n PROVE \E j \in 1..n : at(j) = i
    OBVIOUS
  <2>1. CASE i = e
    <3>1. 1 \in 1..n /\ at(1) = i
      BY <2>1, <1>1
    <3> QED BY <3>1
  <2>2. CASE i < e
    <3>1. i + 1 \in 1..n /\ at(i + 1) = i
      BY <2>2, <1>1
    <3> QED BY <3>1
  <2>3. CASE i > e
    <3>1. at(i) = i
      BY <2>3, <1>1
    <3> QED BY <3>1
  <2> QED BY <2>1, <2>2, <2>3, <1>1
<1> HIDE DEF at
<1>9. /\ \A j \in 1..n : used'[j] \in entries
      /\ \A q \in entries : \E j \in 1..n : used'[j] = q
  <2>1. /\ \A i \in 1..n : used[i] \in entries
        /\ \A q \in entries : \E i \in 1..n : used[i] = q
    BY DEF DecisionInv
  <2>2. \A j \in 1..n : used'[j] \in entries
    BY <2>1, <1>5, <1>6, Zenon
  <2>3. ASSUME NEW q \in entries PROVE \E j \in 1..n : used'[j] = q
    <3>1. PICK i \in 1..n : used[i] = q
      BY <2>1
    <3>2. PICK j \in 1..n : at(j) = i
      BY <1>8
    <3> QED BY <1>6, <3>1, <3>2
  <2> QED BY <2>2, <2>3
<1>10. \A j \in 1..n : lru'[j].hash = used'[j]
  BY <1>6, <1>7
<1> QED BY <1>1, <1>3, <1>4, <1>9, <1>10 DEF DecisionInv

\* A new entry is pushed, and the oldest falls off a full list.
LEMMA Inserted ==
  ASSUME MaxEntries \in Nat \ {0}, DecisionInv, NEW hash \in Query, hash \notin entries, D!Touch(hash),
         solving' \in [Caller -> Query \cup {D!Idle}],
         NEW p \in Seq(Stored), Len(p) = Len(lru) + 1, p[1].hash = hash,
         \A j \in 2..(Len(lru) + 1) : p[j] = lru[j - 1],
         IF Len(p) <= MaxEntries THEN lru' = p /\ entries' = entries \cup {hash}
         ELSE /\ lru' = SubSeq(p, 1, Len(p) - 1)
              /\ entries' = (entries \cup {hash}) \ {p[Len(p)].hash}
  PROVE  DecisionInv'
<1> DEFINE n == Len(lru)
<1>1. /\ used \in Seq(Query) /\ n \in Nat /\ Len(used) \in Nat
      /\ n <= Len(used) /\ n <= MaxEntries /\ (n < MaxEntries => n = Len(used))
      /\ \A i \in 1..n : lru[i].hash = used[i]
      /\ D!Distinct(used)
      /\ \A i \in 1..n : used[i] \in entries
      /\ \A q \in entries : \E i \in 1..n : used[i] = q
  BY DEF DecisionInv
<1>2. \A i \in 1..n : used[i] # hash
  BY <1>1
<1>3. /\ used' \in Seq(Query) /\ D!Distinct(used)' /\ Len(used') \in Nat /\ used'[1] = hash
      /\ Len(used') >= n /\ (n < MaxEntries => Len(used') = n + 1)
      /\ \A j \in 2..(n + 1) : j <= Len(used') => used'[j] = used[j - 1]
  <2>1. /\ used' \in Seq(Query) /\ D!Distinct(used)'
        /\ \/ \E i \in 1..Len(used) : used[i] = hash /\ MovedUp(i)
           \/ /\ \A i \in 1..Len(used) : used[i] # hash
              /\ Len(used') = Len(used) + 1 /\ used'[1] = hash
              /\ \A j \in 2..(Len(used) + 1) : used'[j] = used[j - 1]
    BY <1>1, Touched
  <2>2. CASE \E i \in 1..Len(used) : used[i] = hash /\ MovedUp(i)
    <3>1. PICK i \in 1..Len(used) : used[i] = hash /\ MovedUp(i)
      BY <2>2
    <3>2. i > n /\ n = MaxEntries
      BY <1>1, <1>2, <3>1
    <3>3. /\ Len(used') = Len(used) /\ used'[1] = used[i]
          /\ \A j \in 2..Len(used) : used'[j] = IF j <= i THEN used[j - 1] ELSE used[j]
      BY <3>1 DEF MovedUp
    <3>4. \A j \in 2..(n + 1) : j <= Len(used') => used'[j] = used[j - 1]
      BY <1>1, <3>2, <3>3
    <3> QED BY <1>1, <2>1, <3>1, <3>2, <3>3, <3>4
  <2>3. CASE /\ Len(used') = Len(used) + 1 /\ used'[1] = hash
             /\ \A j \in 2..(Len(used) + 1) : used'[j] = used[j - 1]
    <3>1. \A j \in 2..(n + 1) : j <= Len(used') => used'[j] = used[j - 1]
      BY <1>1, <2>3
    <3> QED BY <1>1, <2>1, <2>3, <3>1
  <2> QED BY <2>1, <2>2, <2>3
<1>a. n \in Nat /\ Len(used') \in Nat /\ Len(used') >= n
  BY <1>1, <1>3
<1>b. \A j \in 2..(n + 1) : j <= Len(used') => used'[j] = used[j - 1]
  BY <1>3, Zenon
<1>4. \A j \in 1..(n + 1) : j <= Len(used') => p[j].hash = used'[j]
  <2> SUFFICES ASSUME NEW j \in 1..(n + 1), j <= Len(used') PROVE p[j].hash = used'[j]
    OBVIOUS
  <2>1. CASE j = 1
    BY <2>1, <1>3
  <2>2. CASE j # 1
    <3>1. p[j] = lru[j - 1] /\ used'[j] = used[j - 1] /\ j - 1 \in 1..n
      BY <2>2, <1>1, <1>3
    <3> QED BY <3>1, <1>1
  <2> QED BY <2>1, <2>2
<1>5. CASE n < MaxEntries
  <2>1. lru' = p /\ entries' = entries \cup {hash} /\ Len(used') = n + 1 /\ Len(lru') = n + 1
    BY <1>1, <1>3, <1>5
  <2>2. ASSUME NEW i \in 1..(n + 1) PROVE used'[i] \in entries'
    <3>1. CASE i = 1
      BY <1>3, <2>1, <3>1
    <3>2. CASE i # 1
      <4>1. used'[i] = used[i - 1] /\ i - 1 \in 1..n
        BY <1>1, <1>3, <2>1, <3>2
      <4> QED BY <1>1, <2>1, <4>1
    <3> QED BY <3>1, <3>2
  <2>3. \A q \in entries' : \E i \in 1..(n + 1) : used'[i] = q
    <3> SUFFICES ASSUME NEW q \in entries' PROVE \E i \in 1..(n + 1) : used'[i] = q
      OBVIOUS
    <3>1. CASE q = hash
      BY <1>1, <1>3, <3>1
    <3>2. CASE q \in entries
      <4>1. PICK i \in 1..n : used[i] = q
        BY <1>1, <3>2
      <4>2. i + 1 \in 2..(n + 1) /\ i + 1 <= Len(used') /\ used'[i + 1] = used[i]
        BY <1>1, <1>3, <2>1
      <4> QED BY <4>1, <4>2
    <3> QED BY <2>1, <3>1, <3>2
  <2>4. \A i \in 1..(n + 1) : lru'[i].hash = used'[i]
    BY <1>4, <2>1
  <2> QED BY <1>1, <1>3, <1>5, <2>1, <2>2, <2>3, <2>4 DEF DecisionInv
<1>6. CASE n = MaxEntries
  <2>1. /\ lru' = SubSeq(p, 1, n) /\ n \in Nat \ {0}
        /\ entries' = (entries \cup {hash}) \ {p[n + 1].hash}
    BY <1>1, <1>6
  <2>2. lru' \in Seq(Stored) /\ Len(lru') = n /\ \A i \in 1..n : lru'[i] = p[i]
    BY <1>1, <2>1
  <2>3. p[n + 1].hash = used[n] /\ used[n] # hash
    BY <1>1, <1>2, <2>1
  <2>4. ASSUME NEW i \in 1..n PROVE used'[i] \in entries'
    <3>1. CASE i = 1
      BY <1>3, <2>1, <2>3, <3>1
    <3>2. CASE i # 1
      <4>1. i - 1 \in 1..n /\ i - 1 # n /\ i \in 2..(n + 1) /\ i <= Len(used')
        BY <1>a, <3>2
      <4>2. used'[i] = used[i - 1]
        BY <1>b, <4>1
      <4>3. used[i - 1] # used[n]
        BY <1>1, <2>1, <4>1 DEF D!Distinct
      <4> QED BY <1>1, <2>1, <2>3, <4>1, <4>2, <4>3
    <3> QED BY <3>1, <3>2
  <2>5. ASSUME NEW q \in entries' PROVE \E i \in 1..n : used'[i] = q
    <3>1. CASE q = hash
      BY <1>3, <2>1, <3>1
    <3>2. CASE q # hash
      <4>1. PICK i \in 1..n : used[i] = q /\ i # n
        BY <1>1, <2>1, <2>3, <3>2
      <4>2. i + 1 \in 2..n /\ i + 1 \in 2..(n + 1) /\ i + 1 <= Len(used') /\ (i + 1) - 1 = i
        BY <1>a, <4>1
      <4>3. used'[i + 1] = used[i]
        BY <1>b, <4>2
      <4> QED BY <4>1, <4>2, <4>3
    <3> QED BY <3>1, <3>2
  <2>6. ASSUME NEW i \in 1..n PROVE lru'[i].hash = used'[i]
    <3>1. i \in 1..(n + 1) /\ i <= Len(used') /\ lru'[i] = p[i]
      BY <1>a, <2>2
    <3> QED BY <1>4, <3>1
  <2>7. Len(lru') <= Len(used') /\ Len(lru') <= MaxEntries /\ ~(Len(lru') < MaxEntries)
    BY <1>1, <1>3, <1>6, <2>2
  <2> QED BY <1>3, <2>2, <2>4, <2>5, <2>6, <2>7 DEF DecisionInv
<1> QED BY <1>1, <1>5, <1>6

\* An entry of the map has one element of the list.
LEMMA Found == ASSUME DecisionInv, NEW hash \in entries
  PROVE  D!element(hash) \in 1..Len(lru) /\ lru[D!element(hash)].hash = hash
<1>1. DOMAIN lru = 1..Len(lru)
  BY DEF DecisionInv
<1>2. \E i \in 1..Len(lru) : lru[i].hash = hash
  BY DEF DecisionInv
<1> QED BY <1>1, <1>2 DEF D!element

\* Storing a decision again replaces the one of its query.
LEMMA Replaced ==
  ASSUME DecisionInv, NEW hash \in entries, hash \in Query, D!Touch(hash), entries' = entries,
         solving' \in [Caller -> Query \cup {D!Idle}], NEW x \in Stored, x.hash = hash
  PROVE  lru' = D!MoveToFront([lru EXCEPT ![D!element(hash)] = x], D!element(hash)) => DecisionInv'
<1>1. PICK e \in 1..Len(lru) : e = D!element(hash) /\ lru[e].hash = hash
  BY Found
<1>2. lru \in Seq(Stored) /\ Len(lru) \in Nat
  BY DEF DecisionInv
<1>3. PICK s : s = [lru EXCEPT ![e] = x]
  BY Zenon
<1>4. s \in [1..Len(lru) -> Stored] /\ s[e] = x /\ \A i \in 1..Len(lru) : i # e => s[i] = lru[i]
  BY <1>2, <1>3
<1>5. s \in Seq(Stored) /\ Len(s) = Len(lru)
  BY <1>2, <1>4
<1>6. ASSUME lru' = D!MoveToFront(s, e) PROVE DecisionInv'
  <2>1. /\ lru' \in Seq(Stored) /\ Len(lru') = Len(lru) /\ lru'[1] = x
        /\ \A j \in 2..Len(lru) : lru'[j] = IF j <= e THEN s[j - 1] ELSE s[j]
    <3>1. e \in 1..Len(s)
      BY <1>5
    <3>2. /\ lru' \in Seq(Stored) /\ Len(lru') = Len(s) /\ lru'[1] = s[e]
          /\ \A j \in 2..Len(s) : lru'[j] = IF j <= e THEN s[j - 1] ELSE s[j]
      <4>1. s \in Seq(Stored)
        BY <1>5
      <4>2. /\ D!MoveToFront(s, e) \in Seq(Stored) /\ Len(D!MoveToFront(s, e)) = Len(s)
            /\ D!MoveToFront(s, e)[1] = s[e]
            /\ \A j \in 2..Len(s) : D!MoveToFront(s, e)[j] = IF j <= e THEN s[j - 1] ELSE s[j]
        BY <3>1, <4>1, Moved, Zenon
      <4> QED BY <1>6, <4>2
    <3> QED BY <1>4, <1>5, <3>2
  <2>2. \A j \in 2..Len(lru) : lru'[j] = lru[IF j <= e THEN j - 1 ELSE j]
    <3> SUFFICES ASSUME NEW j \in 2..Len(lru) PROVE lru'[j] = lru[IF j <= e THEN j - 1 ELSE j]
      OBVIOUS
    <3>1. CASE j <= e
      <4>1. j - 1 \in 1..Len(lru) /\ j - 1 # e
        BY <1>2, <3>1
      <4> QED BY <1>4, <2>1, <3>1, <4>1
    <3>2. CASE ~(j <= e)
      <4>1. j \in 1..Len(lru) /\ j # e
        BY <1>2, <3>2
      <4> QED BY <1>4, <2>1, <3>2, <4>1
    <3> QED BY <3>1, <3>2
  <2> QED BY <1>1, <2>1, <2>2, Promoted
<1> QED BY <1>1, <1>3, <1>6

\* SetByHash stores, or replaces and promotes, and evicts the oldest.
LEMMA SetStep ==
  ASSUME MaxEntries \in Nat, DecisionInv, NEW hash \in Query, NEW d \in D!Decision, D!SetByHash(hash, d),
         solving' \in [Caller -> Query \cup {D!Idle}]
  PROVE  DecisionInv'
<1> DEFINE x == [hash |-> hash, decision |-> d]
           p == D!PushFront(lru, x)
<1>1. x \in Stored /\ x.hash = hash
  BY DEF Stored
<1>2. CASE MaxEntries = 0
  <2>1. UNCHANGED <<lru, entries, used>>
    BY <1>2 DEF D!SetByHash
  <2> QED BY <2>1 DEF DecisionInv, D!Distinct
<1>3. CASE MaxEntries # 0 /\ hash \in entries
  <2>1. /\ lru' = D!MoveToFront([lru EXCEPT ![D!element(hash)] = x], D!element(hash))
        /\ entries' = entries /\ D!Touch(hash)
    BY <1>3 DEF D!SetByHash
  <2> HIDE DEF x
  <2> QED BY <1>1, <1>3, <2>1, Replaced
<1>4. CASE MaxEntries # 0 /\ hash \notin entries
  <2>1. /\ D!Touch(hash)
        /\ IF Len(p) <= MaxEntries THEN lru' = p /\ entries' = entries \cup {hash}
           ELSE /\ lru' = SubSeq(p, 1, Len(p) - 1)
                /\ entries' = (entries \cup {hash}) \ {p[Len(p)].hash}
    BY <1>4 DEF D!SetByHash
  <2> HIDE DEF x
  <2>2. p = <<x>> \o lru
    BY DEF D!PushFront
  <2>3. lru \in Seq(Stored)
    BY DEF DecisionInv
  <2> HIDE DEF p
  <2>4. p \in Seq(Stored) /\ Len(p) = Len(lru) + 1 /\ p[1] = x
    BY <1>1, <2>2, <2>3
  <2>5. \A j \in 2..(Len(lru) + 1) : p[j] = lru[j - 1]
    BY <1>1, <2>2, <2>3
  <2> QED BY <1>1, <1>4, <2>1, <2>4, <2>5, Inserted, Zenon
<1> QED BY <1>2, <1>3, <1>4

\* Every step of the decision cache keeps the invariant.
LEMMA NextDecisions ==
  ASSUME MaxEntries \in Nat, DecisionInv, [D!Next]_(D!vars)
  PROVE  DecisionInv'
<1>1. CASE UNCHANGED D!vars
  BY <1>1 DEF D!vars, DecisionInv, D!Distinct
<1>2. ASSUME NEW c \in Caller, NEW q \in Query, D!Lookup(c, q) PROVE DecisionInv'
  <2>1. CASE q \in entries
    <3>1. D!GetByHash(q) /\ solving' = solving
      BY <1>2, <2>1 DEF D!Lookup
    <3>2. lru' = D!MoveToFront(lru, D!element(q)) /\ D!Touch(q) /\ entries' = entries
      BY <3>1 DEF D!GetByHash
    <3>3. PICK e \in 1..Len(lru) : e = D!element(q) /\ lru[e].hash = q
      BY <2>1, Found
    <3>4. lru \in Seq(Stored) /\ solving' \in [Caller -> Query \cup {D!Idle}]
      BY <3>1 DEF DecisionInv
    <3>5. lru[e] \in Stored /\ [lru EXCEPT ![e] = lru[e]] = lru
      BY <3>4
    <3> QED BY <2>1, <3>2, <3>3, <3>4, <3>5, Replaced
  <2>2. CASE q \notin entries
    <3>1. /\ solving' = [solving EXCEPT ![c] = q] /\ UNCHANGED <<lru, entries, used>>
      BY <1>2, <2>2 DEF D!Lookup
    <3> QED BY <3>1 DEF DecisionInv, D!Distinct
  <2> QED BY <2>1, <2>2
<1>3. ASSUME NEW c \in Caller, NEW out \in D!Decision \cup {"unknown", "nothing"},
             NEW died \in BOOLEAN, NEW expired \in BOOLEAN, D!Finish(c, out, died, expired)
      PROVE  DecisionInv'
  <2>1. /\ solving[c] # D!Idle /\ solving' = [solving EXCEPT ![c] = D!Idle]
        /\ IF D!Stored(out, died, expired) THEN D!SetByHash(solving[c], out)
           ELSE UNCHANGED <<lru, entries, used>>
    BY <1>3 DEF D!Finish
  <2>2. solving[c] \in Query /\ solving' \in [Caller -> Query \cup {D!Idle}]
    BY <2>1 DEF DecisionInv
  <2>3. CASE D!Stored(out, died, expired)
    <3>1. out \in D!Decision
      BY <2>3 DEF D!Stored
    <3> QED BY <2>1, <2>2, <2>3, <3>1, SetStep
  <2>4. CASE ~D!Stored(out, died, expired)
    BY <2>1, <2>2, <2>4 DEF DecisionInv, D!Distinct
  <2> QED BY <2>3, <2>4
<1> QED BY <1>1, <1>2, <1>3 DEF D!Next

\* The cache holds the MaxEntries most recently used of all queries ever stored,
\* in the order of their use, however many callers look up, solve and store the
\* same queries in the meantime (cache.go, GetByHash and SetByHash).
THEOREM CacheHoldsMostRecent ==
  ASSUME MaxEntries \in Nat
  PROVE  D!Spec => []HoldsMostRecent
<1>1. D!Init => DecisionInv
  BY DEF D!Init, DecisionInv, D!Distinct
<1>2. DecisionInv => HoldsMostRecent
  <2> SUFFICES ASSUME DecisionInv PROVE HoldsMostRecent
    OBVIOUS
  <2> DEFINE n == IF Len(used) <= MaxEntries THEN Len(used) ELSE MaxEntries
  <2>1. lru \in Seq(Stored) /\ used \in Seq(Query) /\ Len(lru) = n
    BY DEF DecisionInv
  <2>2. DOMAIN D!Hashes = 1..n /\ \A i \in 1..n : D!Hashes[i] = used[i]
    BY <2>1 DEF D!Hashes, DecisionInv
  <2>3. D!Hashes = [i \in 1..n |-> used[i]]
    BY <2>2, Zenon DEF D!Hashes
  <2>4. SubSeq(used, 1, n) = [i \in 1..n |-> used[i]]
    BY <2>1
  <2> QED BY <2>3, <2>4 DEF HoldsMostRecent, D!HoldsMostRecent
<1> QED BY <1>1, <1>2, NextDecisions, PTL DEF D!Spec

\* Every entry of the list was there before, or is the decision just stored.
LEMMA NothingElseStored ==
  ASSUME DecisionInv, NEW hash \in Query, NEW d \in D!Decision, D!SetByHash(hash, d)
  PROVE  \A i \in DOMAIN lru' : \/ lru'[i] = [hash |-> hash, decision |-> d]
                                \/ \E j \in DOMAIN lru : lru'[i] = lru[j]
<1> DEFINE x == [hash |-> hash, decision |-> d]
           p == D!PushFront(lru, x)
           e == D!element(hash)
           r == [lru EXCEPT ![e] = x]
<1>1. lru \in Seq(Stored) /\ x \in Stored
  BY DEF DecisionInv, Stored
<1> HIDE DEF x
<1>2. p = <<x>> \o lru
  BY DEF D!PushFront
<1>3. p \in Seq(Stored) /\ Len(p) = Len(lru) + 1 /\ p[1] = x
  BY <1>1, <1>2 DEF p
<1>4. \A j \in 2..(Len(lru) + 1) : p[j] = lru[j - 1]
  BY <1>1, <1>2 DEF p
<1> HIDE DEF p
<1>5. \A i \in 1..Len(p) : p[i] = x \/ \E j \in DOMAIN lru : p[i] = lru[j]
  <2> SUFFICES ASSUME NEW i \in 1..Len(p), i # 1 PROVE \E j \in DOMAIN lru : p[i] = lru[j]
    BY <1>3
  <2>1. i - 1 \in DOMAIN lru /\ p[i] = lru[i - 1]
    BY <1>1, <1>3, <1>4
  <2> QED BY <2>1
<1>6. \/ UNCHANGED lru
      \/ hash \in entries /\ lru' = D!MoveToFront(r, e)
      \/ lru' = p
      \/ lru' = SubSeq(p, 1, Len(p) - 1)
  BY DEF D!SetByHash, x, p
<1>7. CASE hash \in entries /\ lru' = D!MoveToFront(r, e)
  <2>1. e \in 1..Len(lru) /\ DOMAIN r = 1..Len(lru) /\ r[e] = x /\ \A i \in 1..Len(lru) : i # e => r[i] = lru[i]
    BY <1>1, <1>7, Found
  <2> HIDE DEF r, e
  <2>2. \A i \in DOMAIN lru' : \E j \in 1..Len(lru) : lru'[i] = r[j]
    BY <1>1, <1>7, <2>1 DEF D!MoveToFront
  <2>3. \A j \in 1..Len(lru) : r[j] = x \/ r[j] = lru[j]
    BY <2>1
  <2>4. DOMAIN lru = 1..Len(lru)
    BY <1>1
  <2> QED BY <2>2, <2>3, <2>4 DEF x
<1>8. CASE lru' = SubSeq(p, 1, Len(p) - 1)
  <2>1. Len(lru) \in Nat /\ DOMAIN lru' = 1..Len(lru) /\ \A i \in 1..Len(lru) : lru'[i] = p[i]
    BY <1>1, <1>3, <1>8
  <2> QED BY <1>3, <1>5, <2>1 DEF x
<1>9. CASE lru' = p
  BY <1>3, <1>5, <1>9 DEF x
<1> QED BY <1>6, <1>7, <1>8, <1>9

\* Behind Solve of internal/verify, an entry is z3's whole answer to its query:
\* what a process left behind that died or ran out of time is never stored.
THEOREM CacheHoldsCompletedOnly ==
  ASSUME MaxEntries \in Nat, FrontEnd # "z3"
  PROVE  D!Spec => []OnlyCompletedCached
<1>1. D!Init => DecisionInv /\ OnlyCompletedCached
  BY DEF D!Init, DecisionInv, D!Distinct, OnlyCompletedCached, D!OnlyCompletedCached
<1>2. ASSUME DecisionInv, OnlyCompletedCached, [D!Next]_(D!vars) PROVE OnlyCompletedCached'
  <2>1. ASSUME UNCHANGED lru PROVE OnlyCompletedCached'
    BY <1>2, <2>1 DEF OnlyCompletedCached, D!OnlyCompletedCached, D!Complete
  <2>2. ASSUME NEW c \in Caller, NEW q \in Query, D!Lookup(c, q) PROVE OnlyCompletedCached'
    <3>1. CASE q \in entries
      <4>1. lru' = D!MoveToFront(lru, D!element(q))
        BY <2>2, <3>1 DEF D!Lookup, D!GetByHash
      <4>2. D!element(q) \in 1..Len(lru) /\ DOMAIN lru = 1..Len(lru)
        BY <1>2, <3>1, Found DEF DecisionInv
      <4>3. DOMAIN lru' = DOMAIN lru /\ \A i \in DOMAIN lru : \E j \in DOMAIN lru : lru'[i] = lru[j]
        BY <4>1, <4>2 DEF D!MoveToFront
      <4> QED BY <1>2, <4>3 DEF OnlyCompletedCached, D!OnlyCompletedCached, D!Complete
    <3>2. CASE q \notin entries
      BY <2>1, <2>2, <3>2 DEF D!Lookup
    <3> QED BY <3>1, <3>2
  <2>3. ASSUME NEW c \in Caller, NEW out \in D!Decision \cup {"unknown", "nothing"},
               NEW died \in BOOLEAN, NEW expired \in BOOLEAN, D!Finish(c, out, died, expired)
        PROVE  OnlyCompletedCached'
    <3>1. CASE D!Stored(out, died, expired)
      <4>1. /\ ~died /\ out \in D!Decision /\ out # "unknown"
        BY <3>1 DEF D!Stored
      <4>2. /\ solving[c] # D!Idle /\ out \in {"unknown", D!Complete(solving[c])}
            /\ D!SetByHash(solving[c], out)
        BY <2>3, <3>1, <4>1 DEF D!Finish
      <4>3. solving[c] \in Query /\ out = D!Complete(solving[c])
        BY <1>2, <4>1, <4>2 DEF DecisionInv
      <4>4. \A i \in DOMAIN lru' : \/ lru'[i] = [hash |-> solving[c], decision |-> out]
                                  \/ \E j \in DOMAIN lru : lru'[i] = lru[j]
        BY <1>2, <4>1, <4>2, <4>3, NothingElseStored
      <4> QED BY <1>2, <4>3, <4>4 DEF OnlyCompletedCached, D!OnlyCompletedCached, D!Complete
    <3>2. CASE ~D!Stored(out, died, expired)
      BY <2>1, <2>3, <3>2 DEF D!Finish
    <3> QED BY <3>1, <3>2
  <2> QED BY <1>2, <2>1, <2>2, <2>3 DEF D!Next, D!vars
<1> QED BY <1>1, <1>2, NextDecisions, PTL DEF D!Spec

-----------------------------------------------------------------------------
(* The cache of CEL results.                                               *)

\* The entries of the result cache; tables of them; a tag index that lists
\* exactly the keys of a table that carry each tag; and the caches whose index is
\* exact, which is the loop invariant of everything below.
Item == [tags : SUBSET Tag, left : Int]
Table == {e \in UNION {[K -> Item] : K \in SUBSET Key} : IsFiniteSet(DOMAIN e)}
Indexed(e, x) == \A t \in Tag : x[t] = {k \in DOMAIN e : t \in e[k].tags}
Fields(E, A, X) == [entries : E, accessOrder : A, tagIndex : X, panicked : BOOLEAN]
Caches == {c \in Fields(Table, Seq(Key), [Tag -> SUBSET Key]) : Indexed(c.entries, c.tagIndex)}

\* The fields of such a cache.
LEMMA CacheParts ==
  ASSUME NEW c \in Caches
  PROVE  /\ c \in Fields(Table, Seq(Key), [Tag -> SUBSET Key])
         /\ c.entries \in Table /\ c.accessOrder \in Seq(Key) /\ c.tagIndex \in [Tag -> SUBSET Key]
         /\ Indexed(c.entries, c.tagIndex)
BY DEF Caches, Fields

\* The least element that RemoveFirst looks for.
LEMMA MinExists ==
  ASSUME NEW T \in SUBSET Nat, T # {}
  PROVE  Min(T) \in T
BY LeastNat, Zenon DEF Min

\* Taking a key off accessOrder leaves an order of keys.
LEMMA RemoveFirstType ==
  ASSUME NEW S, NEW s \in Seq(S), NEW e
  PROVE  RemoveFirst(s, e) \in Seq(S)
<1> DEFINE I == {i \in 1 .. Len(s) : s[i] = e}
           m == Min(I)
<1>1. CASE \E i \in 1 .. Len(s) : s[i] = e
  <2>1. I \in SUBSET Nat /\ I # {}
    BY <1>1
  <2>2. m \in 1 .. Len(s)
    <3>1. m \in I
      BY <2>1, MinExists, Zenon
    <3> QED
      BY <3>1
  <2>3. RemoveFirst(s, e) = SubSeq(s, 1, m - 1) \o SubSeq(s, m + 1, Len(s))
    BY <1>1, <2>1, Zenon DEF RemoveFirst, RemoveAt, SelectInSeq
  <2> HIDE DEF m
  <2>4. SubSeq(s, 1, m - 1) \in Seq(S) /\ SubSeq(s, m + 1, Len(s)) \in Seq(S)
    BY <2>2, SubSeqProperties
  <2> QED
    BY <2>3, <2>4
<1>2. CASE ~\E i \in 1 .. Len(s) : s[i] = e
  BY <1>2, Zenon DEF RemoveFirst
<1> QED
  BY <1>1, <1>2

\* The table without a key, and the index without it.
TableWithout(e, key) == [k \in DOMAIN e \ {key} |-> e[k]]
IndexWithout(e, x, key) == [t \in Tag |-> IF t \in e[key].tags THEN x[t] \ {key} ELSE x[t]]

\* Both stay exact.
LEMMA Without ==
  ASSUME NEW e \in Table, NEW x \in [Tag -> SUBSET Key], Indexed(e, x), NEW key \in DOMAIN e
  PROVE  /\ TableWithout(e, key) \in Table
         /\ IndexWithout(e, x, key) \in [Tag -> SUBSET Key]
         /\ Indexed(TableWithout(e, key), IndexWithout(e, x, key))
<1> DEFINE f == TableWithout(e, key)
           y == IndexWithout(e, x, key)
<1>1. PICK K \in SUBSET Key : e \in [K -> Item] /\ IsFiniteSet(K) /\ DOMAIN e = K
  BY DEF Table
<1>2. f \in [K \ {key} -> Item] /\ K \ {key} \in SUBSET Key /\ DOMAIN f = K \ {key}
  BY <1>1 DEF TableWithout
<1>3. IsFiniteSet(K \ {key})
  BY <1>1, FS_Subset
<1>4. f \in Table
  BY <1>2, <1>3 DEF Table
<1>5. y \in [Tag -> SUBSET Key]
  BY DEF IndexWithout
<1>6. \A t \in Tag : y[t] = {k \in DOMAIN f : t \in f[k].tags}
  BY <1>1 DEF Indexed, TableWithout, IndexWithout
<1> QED
  BY <1>4, <1>5, <1>6, Zenon DEF Indexed

\* removeEntryLocked takes the key out of the table and out of every tag's set.
LEMMA RemoveStays ==
  ASSUME NEW c \in Caches, NEW key
  PROVE  removeEntryLocked(c, key) \in Caches
<1> DEFINE f == TableWithout(c.entries, key)
           y == IndexWithout(c.entries, c.tagIndex, key)
           a == RemoveFirst(c.accessOrder, key)
           d == [c EXCEPT !.tagIndex = y, !.entries = f, !.accessOrder = a]
<1>1. CASE key \notin DOMAIN c.entries
  BY <1>1, Zenon DEF removeEntryLocked
<1>2. CASE key \in DOMAIN c.entries
  <2>1. removeEntryLocked(c, key) = d
    BY <1>2, Zenon DEF removeEntryLocked, TableWithout, IndexWithout
  <2>2. f \in Table /\ y \in [Tag -> SUBSET Key] /\ Indexed(f, y)
    BY <1>2, CacheParts, Without, Zenon
  <2>3. a \in Seq(Key)
    BY CacheParts, RemoveFirstType, Zenon
  <2> HIDE DEF f, y, a
  <2>4. d \in Fields(Table, Seq(Key), [Tag -> SUBSET Key]) /\ d.entries = f /\ d.tagIndex = y
    BY <2>2, <2>3, CacheParts, Zenon DEF Fields
  <2> QED
    BY <2>1, <2>2, <2>4, Zenon DEF Caches
<1> QED
  BY <1>1, <1>2

\* A change of the other two fields.
LEMMA ReorderStays ==
  ASSUME NEW c \in Caches, NEW a \in Seq(Key)
  PROVE  [c EXCEPT !.accessOrder = a] \in Caches /\ [c EXCEPT !.panicked = TRUE] \in Caches
<1> DEFINE d == [c EXCEPT !.accessOrder = a]
           g == [c EXCEPT !.panicked = TRUE]
<1>1. /\ d \in Fields(Table, Seq(Key), [Tag -> SUBSET Key]) /\ d.entries = c.entries /\ d.tagIndex = c.tagIndex
      /\ g \in Fields(Table, Seq(Key), [Tag -> SUBSET Key]) /\ g.entries = c.entries /\ g.tagIndex = c.tagIndex
  BY CacheParts, Zenon DEF Fields
<1> QED
  BY <1>1, CacheParts, Zenon DEF Caches

\* promoteLocked moves a key in accessOrder only.
LEMMA PromoteStays ==
  ASSUME NEW c \in Caches, NEW key \in Key
  PROVE  promoteLocked(c, key) \in Caches
<1>1. c.accessOrder \in Seq(Key) /\ RemoveFirst(c.accessOrder, key) \in Seq(Key)
  BY CacheParts, RemoveFirstType
<1>2. Append(RemoveFirst(c.accessOrder, key), key) \in Seq(Key)
  BY <1>1
<1> QED
  BY <1>2, ReorderStays, Zenon DEF promoteLocked

-----------------------------------------------------------------------------
\* The states of the first loop of evictLocked.
Passes == [c : Caches, array : Seq(Key), fresh : Seq(Key)]

\* One round of the loop that drops expired entries.
LEMMA FirstStepStays ==
  ASSUME NEW s \in Passes, NEW i
  PROVE  firstPassStep(s, i) \in Passes
<1> DEFINE key == s.array[i]
           d == removeEntryLocked(s.c, key)
           len == Len(d.accessOrder)
<1>1. s.c \in Caches /\ s.array \in Seq(Key) /\ s.fresh \in Seq(Key)
  BY DEF Passes
<1>2. d \in Caches /\ d.accessOrder \in Seq(Key) /\ len \in Nat
  <2>1. d \in Caches
    BY <1>1, RemoveStays
  <2> HIDE DEF d
  <2> QED
    BY <2>1, CacheParts
<1>3. d.accessOrder \o SubSeq(s.array, len + 1, Len(s.array)) \in Seq(Key)
  <2> HIDE DEF d, len
  <2>1. SubSeq(s.array, len + 1, Len(s.array)) \in Seq(Key)
    BY <1>1, <1>2, SubSeqProperties
  <2> QED
    BY <1>2, <2>1
<1>4. DOMAIN s.c.entries \in SUBSET Key
  BY <1>1, CacheParts, Zenon DEF Table
<1>5. [s.c EXCEPT !.panicked = TRUE] \in Caches
  BY <1>1, CacheParts, ReorderStays, Zenon
<1> DEFINE pc == [s.c EXCEPT !.panicked = TRUE]
           arr == d.accessOrder \o SubSeq(s.array, len + 1, Len(s.array))
<1>6. \/ firstPassStep(s, i) = s
      \/ firstPassStep(s, i) = [s EXCEPT !.c = pc]
      \/ key \in DOMAIN s.c.entries /\ firstPassStep(s, i) = [s EXCEPT !.fresh = Append(s.fresh, key)]
      \/ firstPassStep(s, i) = [s EXCEPT !.c = d, !.array = arr]
  BY Zenon DEF firstPassStep
<1> HIDE DEF d, key, len, pc, arr
<1>7. key \in DOMAIN s.c.entries => Append(s.fresh, key) \in Seq(Key)
  BY <1>1, <1>4
<1> QED
  BY <1>1, <1>2, <1>3, <1>5, <1>6, <1>7, Zenon DEF Passes, pc, arr

\* The loop of InvalidateByTag, in whichever order the tag's keys are taken.
LEMMA InvalidateStays ==
  ASSUME NEW c0 \in Caches, NEW K, IsFiniteSet(K)
  PROVE  FoldSet(LAMBDA key, c : removeEntryLocked(c, key), c0, K) \in Caches
<1> DEFINE first(s) == CHOOSE x \in s : TRUE
           pick == [s \in SUBSET K |-> first(s)]
           F == [x \in K |-> [c \in Caches |-> removeEntryLocked(c, x)]]
           Eq(i) == i = [s \in SUBSET K |-> IF s = {} THEN c0
                                            ELSE removeEntryLocked(i[s \ {first(s)}], first(s))]
           it == CHOOSE i : Eq(i)
<1>1. FoldSet(LAMBDA key, c : removeEntryLocked(c, key), c0, K) = it[K]
  BY Zenon DEF FoldSet, MapThenFoldSet
<1>2. Picks(pick, K)
  BY DEF Picks
<1>3. F \in [K -> [Caches -> Caches]]
  BY RemoveStays
<1> HIDE DEF first
<1>4. PICK h : Folds(h, K, Caches, c0, pick, F)
  <2> HIDE DEF pick, F
  <2> QED
    BY <1>2, <1>3, FoldExists
<1>5. Eq(h)
  BY <1>2, <1>4, Zenon DEF Folds, Picks
<1>6. Eq(it)
  BY <1>5, Zenon
<1> HIDE DEF it
<1>7. it[K] \in Caches
  <2>1. Follows(it, h, K, pick)
    BY <1>5, <1>6, Zenon DEF Follows
  <2> HIDE DEF pick, F
  <2> QED
    BY <1>2, <1>4, <2>1, FoldStays
<1> QED
  BY <1>1, <1>7, Zenon

\* One round of the loop that evicts from the front.
LEMMA SecondStepStays ==
  ASSUME NEW c \in Caches
  PROVE  secondPassStep(c) \in Caches
<1> DEFINE d == removeEntryLocked(c, c.accessOrder[1])
<1>1. d \in Caches
  BY RemoveStays
<1>2. \/ secondPassStep(c) = c
      \/ secondPassStep(c) = [d EXCEPT !.panicked = TRUE]
      \/ d.accessOrder # << >> /\ secondPassStep(c) = [d EXCEPT !.accessOrder = Tail(d.accessOrder)]
  BY Zenon DEF secondPassStep
<1> HIDE DEF d
<1>3. d.accessOrder \in Seq(Key)
  BY <1>1, CacheParts
<1>4. d.accessOrder # << >> => Tail(d.accessOrder) \in Seq(Key)
  BY <1>3
<1> QED
  BY <1>1, <1>2, <1>3, <1>4, ReorderStays, Zenon

\* The whole of that loop.
LEMMA SecondPassStays ==
  ASSUME NEW c0 \in Caches
  PROVE  secondPass(c0) \in Caches
<1> DEFINE Dom == DOMAIN c0.accessOrder
           pick == [s \in SUBSET Dom |-> Max(s)]
           F == [x \in Dom |-> [c \in Caches |-> secondPassStep(c)]]
           Eq(i) == i = [s \in SUBSET Dom |-> IF s = {} THEN c0 ELSE secondPassStep(i[s \ {Max(s)}])]
           it == CHOOSE i : Eq(i)
<1>1. secondPass(c0) = it[Dom]
  BY Zenon DEF secondPass, FoldLeft, MapThenFoldSet
<1>2. PICK n \in Nat : Dom = 1 .. n /\ IsFiniteSet(Dom)
  BY CacheParts, FS_Interval
<1>3. Picks(pick, Dom)
  BY <1>2, MaxOf, Zenon DEF Picks
<1>4. F \in [Dom -> [Caches -> Caches]]
  BY SecondStepStays
<1> HIDE DEF Dom
<1>5. PICK h : Folds(h, Dom, Caches, c0, pick, F)
  <2> HIDE DEF pick, F
  <2> QED
    BY <1>2, <1>3, <1>4, FoldExists
<1>6. Eq(h)
  BY <1>3, <1>5, Zenon DEF Folds, Picks
<1>7. Eq(it)
  BY <1>6, Zenon
<1> HIDE DEF it
<1>8. it[Dom] \in Caches
  <2>1. Follows(it, h, Dom, pick)
    BY <1>6, <1>7, Zenon DEF Follows
  <2> HIDE DEF pick, F
  <2> QED
    BY <1>2, <1>3, <1>5, <2>1, FoldStays
<1> QED
  BY <1>1, <1>8, Zenon

\* The whole of the first loop, run off its end or left by a panic.
LEMMA FirstPassStays ==
  ASSUME NEW c0 \in Caches
  PROVE  firstPass(c0) \in Caches
<1> DEFINE start == [c |-> c0, array |-> c0.accessOrder, fresh |-> << >>]
           idx == [i \in DOMAIN c0.accessOrder |-> i]
           Dom == DOMAIN idx
           pick == [s \in SUBSET Dom |-> Max(s)]
           F == [x \in Dom |-> [c \in Passes |-> firstPassStep(c, idx[x])]]
           Eq(i) == i = [s \in SUBSET Dom |-> IF s = {} THEN start ELSE firstPassStep(i[s \ {Max(s)}], idx[Max(s)])]
           it == CHOOSE i : Eq(i)
           end == it[Dom]
<1>1. firstPass(c0) = IF end.c.panicked THEN end.c ELSE [end.c EXCEPT !.accessOrder = end.fresh]
  BY Zenon DEF firstPass, FoldLeftDomain, FoldLeft, MapThenFoldSet
<1>2. PICK n \in Nat : Dom = 1 .. n /\ IsFiniteSet(Dom)
  BY CacheParts, FS_Interval
<1>3. Picks(pick, Dom)
  BY <1>2, MaxOf, Zenon DEF Picks
<1>4. F \in [Dom -> [Passes -> Passes]]
  BY FirstStepStays
<1>5. start \in Passes
  BY CacheParts DEF Passes
<1> HIDE DEF Dom, start, idx
<1>6. PICK h : Folds(h, Dom, Passes, start, pick, F)
  <2> HIDE DEF pick, F
  <2> QED
    BY <1>2, <1>3, <1>4, <1>5, FoldExists
<1>7. Eq(h)
  BY <1>3, <1>6, Zenon DEF Folds, Picks
<1>8. Eq(it)
  BY <1>7, Zenon
<1> HIDE DEF it
<1>9. it[Dom] \in Passes
  <2>1. Follows(it, h, Dom, pick)
    BY <1>7, <1>8, Zenon DEF Follows
  <2> HIDE DEF pick, F
  <2> QED
    BY <1>2, <1>3, <1>6, <2>1, FoldStays
<1>10. end \in Passes
  BY <1>9
<1> HIDE DEF end
<1>11. end.c \in Caches /\ end.fresh \in Seq(Key)
  BY <1>10 DEF Passes
<1> QED
  BY <1>1, <1>11, ReorderStays, Zenon

-----------------------------------------------------------------------------
\* The inductive invariant: the cache is one whose index is exact.
TagInv == cache \in Caches

\* The table of a new cache.
LEMMA EmptyTable == << >> \in Table
<1>1. << >> \in [{} -> Item] /\ DOMAIN << >> = {}
  OBVIOUS
<1> QED
  BY <1>1, FS_EmptySet DEF Table

\* A new cache.
LEMMA InitialTags == Init => TagInv
<1> SUFFICES ASSUME Init PROVE cache \in Caches
  BY DEF TagInv
<1>1. cache \in Fields(Table, Seq(Key), [Tag -> SUBSET Key]) /\ cache.entries = << >> /\ cache.tagIndex = [t \in Tag |-> {}]
  BY EmptyTable DEF Init, Fields
<1>2. Indexed(<< >>, [t \in Tag |-> {}])
  BY DEF Indexed
<1> QED
  BY <1>1, <1>2 DEF Caches

\* The table with an entry for a key it does not hold, and its index.
TableWith(e, key, entry) == [k \in DOMAIN e \cup {key} |-> IF k = key THEN entry ELSE e[k]]
IndexWith(x, key, tags) == [t \in Tag |-> IF t \in tags THEN x[t] \cup {key} ELSE x[t]]

\* A key that the table did not hold is added to both.
LEMMA With ==
  ASSUME NEW e \in Table, NEW x \in [Tag -> SUBSET Key], Indexed(e, x), NEW key \in Key \ DOMAIN e,
         NEW entry \in Item
  PROVE  /\ TableWith(e, key, entry) \in Table
         /\ IndexWith(x, key, entry.tags) \in [Tag -> SUBSET Key]
         /\ Indexed(TableWith(e, key, entry), IndexWith(x, key, entry.tags))
<1> DEFINE f == TableWith(e, key, entry)
           y == IndexWith(x, key, entry.tags)
<1>1. PICK K \in SUBSET Key : e \in [K -> Item] /\ IsFiniteSet(K) /\ DOMAIN e = K
  BY DEF Table
<1>2. f \in [K \cup {key} -> Item] /\ K \cup {key} \in SUBSET Key /\ DOMAIN f = K \cup {key}
  BY <1>1 DEF TableWith
<1>3. IsFiniteSet(K \cup {key})
  BY <1>1, FS_AddElement
<1>4. f \in Table
  BY <1>2, <1>3 DEF Table
<1>5. y \in [Tag -> SUBSET Key]
  BY DEF IndexWith
<1>6. \A t \in Tag : y[t] = {k \in DOMAIN f : t \in f[k].tags}
  BY <1>1 DEF Indexed, TableWith, IndexWith
<1> QED
  BY <1>4, <1>5, <1>6, Zenon DEF Indexed

\* removeEntryLocked leaves no entry under the key.
LEMMA Removed ==
  ASSUME NEW c \in Caches, NEW key
  PROVE  key \notin DOMAIN removeEntryLocked(c, key).entries
<1>1. CASE key \notin DOMAIN c.entries
  BY <1>1, Zenon DEF removeEntryLocked
<1>2. CASE key \in DOMAIN c.entries
  <2> DEFINE f == TableWithout(c.entries, key)
             y == IndexWithout(c.entries, c.tagIndex, key)
             a == RemoveFirst(c.accessOrder, key)
  <2>1. removeEntryLocked(c, key) = [c EXCEPT !.tagIndex = y, !.entries = f, !.accessOrder = a]
    BY <1>2, Zenon DEF removeEntryLocked, TableWithout, IndexWithout
  <2>2. key \notin DOMAIN f
    BY DEF TableWithout
  <2> HIDE DEF f, y, a
  <2>3. removeEntryLocked(c, key).entries = f
    BY <2>1, CacheParts DEF Fields
  <2> QED
    BY <2>2, <2>3
<1> QED
  BY <1>1, <1>2

\* Set replaces the entry, then evicts.
LEMMA StoreStep ==
  ASSUME TagInv, NEW key \in Key, NEW tags \in SUBSET Tag, NEW ttl \in TTLs, Set(key, tags, ttl)
  PROVE  TagInv'
<1> DEFINE r == removeEntryLocked(cache, key)
           entry == newEntry(tags, ttl)
           f == TableWith(r.entries, key, entry)
           y == IndexWith(r.tagIndex, key, tags)
           a == Append(r.accessOrder, key)
           d == [r EXCEPT !.entries = f, !.accessOrder = a, !.tagIndex = y]
<1>1. cache' = evictLocked(d)
  BY Zenon DEF Set, TableWith, IndexWith
<1>2. r \in Caches /\ key \notin DOMAIN r.entries
  BY RemoveStays, Removed DEF TagInv
<1>3. entry \in Item /\ entry.tags = tags
  BY CacheAssumption DEF newEntry, Item
<1> HIDE DEF r, entry
<1>4. f \in Table /\ y \in [Tag -> SUBSET Key] /\ Indexed(f, y)
  BY <1>2, <1>3, CacheParts, With
<1>5. a \in Seq(Key)
  BY <1>2, CacheParts
<1> HIDE DEF f, y, a
<1>6. d \in Fields(Table, Seq(Key), [Tag -> SUBSET Key]) /\ d.entries = f /\ d.tagIndex = y
  BY <1>2, <1>4, <1>5, CacheParts, Zenon DEF Fields
<1>7. d \in Caches
  BY <1>4, <1>6, Zenon DEF Caches
<1> HIDE DEF d
<1> QED
  BY <1>1, <1>7, FirstPassStays, SecondPassStays DEF evictLocked, TagInv

\* Time passes: the entries keep their tags.
LEMMA TickStep ==
  ASSUME TagInv, Tick
  PROVE  TagInv'
<1> DEFINE e == cache.entries
           f == [k \in DOMAIN e |-> Older(e[k])]
<1>1. cache' = [cache EXCEPT !.entries = f]
  BY Zenon DEF Tick
<1>2. \A i \in Item : Older(i) \in Item /\ Older(i).tags = i.tags
  BY DEF Item, Expired, Older
<1>3. cache \in Caches /\ e \in Table /\ Indexed(e, cache.tagIndex)
  BY CacheParts DEF TagInv
<1> HIDE DEF e
<1>4. f \in Table /\ DOMAIN f = DOMAIN e /\ \A k \in DOMAIN e : f[k].tags = e[k].tags
  BY <1>2, <1>3 DEF Table
<1> HIDE DEF f
<1>5. Indexed(f, cache.tagIndex)
  BY <1>3, <1>4 DEF Indexed
<1>6. cache' \in Fields(Table, Seq(Key), [Tag -> SUBSET Key]) /\ cache'.entries = f /\ cache'.tagIndex = cache.tagIndex
  BY <1>1, <1>3, <1>4, CacheParts DEF Fields
<1> QED
  BY <1>5, <1>6 DEF Caches, TagInv

\* Every operation of the cache keeps the index exact.
LEMMA TagStep == TagInv /\ [Next]_vars => TagInv'
<1> SUFFICES ASSUME TagInv, [Next]_vars PROVE TagInv'
  OBVIOUS
<1>1. ASSUME NEW key \in Key, Get(key) PROVE TagInv'
  BY <1>1, RemoveStays, PromoteStays DEF Get, TagInv
<1>2. ASSUME NEW tag \in Tag, InvalidateByTag(tag) PROVE TagInv'
  <2>1. IsFiniteSet(cache.tagIndex[tag])
    <3>1. IsFiniteSet(DOMAIN cache.entries) /\ cache.tagIndex[tag] \subseteq DOMAIN cache.entries
      BY CacheParts, Zenon DEF TagInv, Table, Indexed
    <3> QED
      BY <3>1, FS_Subset
  <2>2. FoldSet(LAMBDA key, c : removeEntryLocked(c, key), cache, cache.tagIndex[tag]) \in Caches
    BY <2>1, InvalidateStays, Zenon DEF TagInv
  <2> QED
    BY <1>2, <2>2, Zenon DEF InvalidateByTag, TagInv
<1>3. ASSUME InvalidateAll PROVE TagInv'
  <2>1. cache' \in Fields(Table, Seq(Key), [Tag -> SUBSET Key]) /\ cache'.entries = << >> /\ cache'.tagIndex = [t \in Tag |-> {}]
    <3>1. PICK e \in Table, a \in Seq(Key), x \in [Tag -> SUBSET Key] :
             e = << >> /\ a = << >> /\ x = [t \in Tag |-> {}]
      <4>1. << >> \in Seq(Key) /\ [t \in Tag |-> {}] \in [Tag -> SUBSET Key]
        OBVIOUS
      <4> QED
        BY <4>1, EmptyTable, Zenon
    <3>2. cache' = [cache EXCEPT !.entries = e, !.accessOrder = a, !.tagIndex = x]
      BY <1>3, <3>1, Zenon DEF InvalidateAll
    <3>3. cache' \in Fields(Table, Seq(Key), [Tag -> SUBSET Key]) /\ cache'.entries = e /\ cache'.tagIndex = x
      BY <3>2, CacheParts, Zenon DEF Fields, TagInv
    <3> QED
      BY <3>1, <3>3, Zenon
  <2>2. Indexed(<< >>, [t \in Tag |-> {}])
    BY DEF Indexed
  <2> QED
    BY <2>1, <2>2 DEF Caches, TagInv
<1>4. ASSUME UNCHANGED vars PROVE TagInv'
  BY <1>4 DEF vars, TagInv
<1> QED
  BY <1>1, <1>2, <1>3, <1>4, StoreStep, TickStep DEF Next

\* InvalidateByTag finds every tagged entry and nothing else: through any sequence
\* of Get, Set, invalidations and expiries, of any keys, tags, capacity and times
\* to live, the tag index lists exactly the entries that carry each tag.
THEOREM TagsStayExact == Spec => []TagIndexExact
<1>1. TagInv => TagIndexExact
  BY CacheParts DEF TagInv, Indexed, TagIndexExact
<1> QED
  BY <1>1, InitialTags, TagStep, PTL DEF Spec
=============================================================================
