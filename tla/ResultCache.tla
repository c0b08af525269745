---------------------------- MODULE ResultCache ----------------------------
(***************************************************************************)
(* internal/cache: the in-process LRU cache of CEL results with time to    *)
(* live and tags.  Every operation runs under c.mu and is one action.  A   *)
(* cached value plays no part in what the cache does and is left out; a    *)
(* key stands for the pair of hashes.  The operators take and return the   *)
(* whole cache, a record c of the fields of the Go struct.                 *)
(*                                                                         *)
(* accessOrder is a slice: removeEntryLocked shifts it in place, and the   *)
(* first loop of evictLocked ranges over the same backing array while it   *)
(* does.  firstPass models that array.                                     *)
(***************************************************************************)
EXTENDS Integers, Sequences, FiniteSets, SequencesExt

CONSTANTS
    Key, Tag,
    Capacity,
    TTLs,             \* the times to live that Set is called with, in ticks
    MaxOrder          \* bound: length of accessOrder, which duplicates can make
                      \* longer than the cache, beyond which Set is not called

ASSUME CacheAssumption ==
    /\ Capacity \in Nat \ {0} /\ MaxOrder \in Nat
    /\ IsFiniteSet(TTLs) /\ TTLs # {} /\ TTLs \subseteq Nat \ {0}

VARIABLES
    cache,            \* [entries, accessOrder, tagIndex, panicked]
    recency           \* history: the keys of entries, least recently used first

vars == <<cache, recency>>

Expired == -1
MaxTTL == CHOOSE t \in TTLs : \A u \in TTLs : u <= t

\* An entry's left is the time until ExpiresAt, Expired once that is past.
Entry == [tags : SUBSET Tag, left : Expired .. MaxTTL]

\* Mutant: the index keeps the tags of the entry.
removeEntryLockedKeepsTags(c, key) ==
    IF key \notin DOMAIN c.entries THEN c
    ELSE [c EXCEPT !.entries = [k \in DOMAIN c.entries \ {key} |-> c.entries[k]],
                   !.accessOrder = IF key \in ToSet(@) THEN RemoveFirst(@, key) ELSE @]

removeEntryLocked(c, key) ==
    IF key \notin DOMAIN c.entries THEN c
    ELSE [c EXCEPT !.tagIndex = [t \in Tag |-> IF t \in c.entries[key].tags
                                               THEN @[t] \ {key} ELSE @[t]],
                   !.entries = [k \in DOMAIN c.entries \ {key} |-> c.entries[k]],
                   !.accessOrder = RemoveFirst(@, key)]

promoteLocked(c, key) == [c EXCEPT !.accessOrder = Append(RemoveFirst(@, key), key)]

-----------------------------------------------------------------------------
\* The loop over accessOrder that removes expired entries.  array is the
\* backing array, of which accessOrder is the front part; the range clause
\* fixed its length when the loop began.  Reading the fields of an absent
\* entry panics.
firstPassStep(s, i) ==
    LET key == s.array[i]
        c == removeEntryLocked(s.c, key)
        len == Len(c.accessOrder)
    IN  IF s.c.panicked THEN s
        ELSE IF key \notin DOMAIN s.c.entries THEN [s EXCEPT !.c.panicked = TRUE]
        ELSE IF s.c.entries[key].left # Expired THEN [s EXCEPT !.fresh = Append(@, key)]
        ELSE [s EXCEPT !.c = c,
                       !.array = c.accessOrder \o SubSeq(@, len + 1, Len(@))]

firstPass(c) ==
    LET end == FoldLeftDomain(firstPassStep, [c |-> c, array |-> c.accessOrder, fresh |-> << >>],
                              c.accessOrder)
    IN  IF end.c.panicked THEN end.c ELSE [end.c EXCEPT !.accessOrder = end.fresh]

\* The loop that evicts from the front of accessOrder.  removeEntryLocked has
\* taken the key off accessOrder already when accessOrder[1:] is formed, which
\* panics when that leaves nothing.
secondPassStep(c) ==
    LET removed == removeEntryLocked(c, c.accessOrder[1])
    IN  IF c.panicked \/ Cardinality(DOMAIN c.entries) <= Capacity \/ c.accessOrder = << >>
        THEN c
        ELSE IF removed.accessOrder = << >> THEN [removed EXCEPT !.panicked = TRUE]
        ELSE [removed EXCEPT !.accessOrder = Tail(@)]

\* Every round shortens accessOrder, so that its length bounds their number.
secondPass(cache0) == FoldLeft(LAMBDA c, ignored : secondPassStep(c), cache0, cache0.accessOrder)

evictLocked(c) == secondPass(firstPass(c))

-----------------------------------------------------------------------------
TypeOK ==
    /\ DOMAIN cache.entries \subseteq Key
    /\ \A k \in DOMAIN cache.entries : cache.entries[k] \in Entry
    /\ cache.accessOrder \in Seq(Key)
    /\ cache.tagIndex \in [Tag -> SUBSET Key]
    /\ cache.panicked \in BOOLEAN
    /\ ToSet(recency) = DOMAIN cache.entries /\ IsInjective(recency)

Init ==
    /\ cache = [entries |-> << >>, accessOrder |-> << >>,
                tagIndex |-> [t \in Tag |-> {}], panicked |-> FALSE]
    /\ recency = << >>

\* The history of use, restricted to the keys the step leaves in the cache.
Recent(order) == recency' = SelectSeq(order, LAMBDA k : k \in DOMAIN cache'.entries)

\* Get and GetByKey: an expired entry is removed, a live one promoted.
Get(key) ==
    /\ ~cache.panicked
    /\ key \in DOMAIN cache.entries
    /\ IF cache.entries[key].left = Expired
       THEN cache' = removeEntryLocked(cache, key) /\ Recent(recency)
       ELSE cache' = promoteLocked(cache, key) /\ Recent(Append(RemoveFirst(recency, key), key))

newEntry(tags, ttl) == [tags |-> tags, left |-> ttl]

Set(key, tags, ttl) ==
    LET replaced == removeEntryLocked(cache, key)
        entry == newEntry(tags, ttl)
    IN  /\ ~cache.panicked /\ Len(cache.accessOrder) < MaxOrder
        /\ cache' = evictLocked(
               [replaced EXCEPT !.entries = [k \in DOMAIN @ \cup {key} |-> IF k = key THEN entry ELSE @[k]],
                                !.accessOrder = Append(@, key),
                                !.tagIndex = [t \in Tag |-> IF t \in tags THEN @[t] \cup {key} ELSE @[t]]])
        /\ Recent(Append(RemoveFirst(recency, key), key))

InvalidateByTag(tag) ==
    /\ ~cache.panicked
    /\ cache' = FoldSet(LAMBDA key, c : removeEntryLocked(c, key), cache, cache.tagIndex[tag])
    /\ Recent(recency)

InvalidateAll ==
    /\ ~cache.panicked
    /\ cache' = [cache EXCEPT !.entries = << >>, !.accessOrder = << >>,
                              !.tagIndex = [t \in Tag |-> {}]]
    /\ Recent(recency)

Older(entry) == [entry EXCEPT !.left = IF @ = Expired THEN @ ELSE @ - 1]

Tick ==
    /\ ~cache.panicked
    /\ cache' = [cache EXCEPT !.entries = [k \in DOMAIN @ |-> Older(@[k])]]
    /\ UNCHANGED recency

Next ==
    \/ \E key \in Key : Get(key)
    \/ \E key \in Key, tags \in SUBSET Tag, ttl \in TTLs : Set(key, tags, ttl)
    \/ \E tag \in Tag : InvalidateByTag(tag)
    \/ InvalidateAll
    \/ Tick

Spec == Init /\ [][Next]_vars

\* Keys are interchangeable, and so are tags.
Symmetry == Permutations(Key) \cup Permutations(Tag)

-----------------------------------------------------------------------------
\* Whatever was set, replaced, expired, evicted or invalidated in between, and
\* also when an eviction panics half way, InvalidateByTag finds exactly the
\* entries that carry the tag.
TagIndexExact ==
    \A t \in Tag : cache.tagIndex[t] = {k \in DOMAIN cache.entries : t \in cache.entries[k].tags}

\* "capacity is the maximum number of live entries."
WithinCapacity == ~cache.panicked => Cardinality(DOMAIN cache.entries) <= Capacity

\* "evictLocked removes expired and LRU entries until size <= capacity": it
\* returns, for every sequence of calls.
EvictionReturns == ~cache.panicked

\* "Evict LRU entries if over capacity": an entry that eviction drops before
\* its time was used less recently than every entry that stays.
EvictsLeastRecent ==
    [][\A i, j \in DOMAIN recency :
          /\ i < j
          /\ recency[i] \in DOMAIN cache'.entries
          /\ recency[j] \notin DOMAIN cache'.entries
          /\ cache.entries[recency[j]].left # Expired
          => ~\E key \in Key, tags \in SUBSET Tag, ttl \in TTLs : Set(key, tags, ttl)]_vars

\* "First pass: remove all expired entries": none is left when Set returns.
ExpiredRemoved ==
    [][(\E key \in Key, tags \in SUBSET Tag, ttl \in TTLs : Set(key, tags, ttl)) /\ ~cache'.panicked
          => \A k \in DOMAIN cache'.entries : cache'.entries[k].left # Expired]_vars
=============================================================================
