-------------------------- MODULE DistributedCache --------------------------
(***************************************************************************)
(* internal/cache/distributed: the result cache that the nodes of a        *)
(* cluster share through a key-value backend.  Every backend call is       *)
(* atomic and one action; what the cache makes of several calls is not:    *)
(*   SetByKey         stores the entry, and then for each tag              *)
(*   addTagKey        reads the tag's member list and writes it back, and  *)
(*   InvalidateByTag  reads it and deletes the members together with it.   *)
(* tagMu serialises the last two within a process, nothing across them.    *)
(*                                                                         *)
(* A call to the backend may fail, and over the network it may fail after  *)
(* it took effect: ok says that it succeeded, applied that it took effect. *)
(***************************************************************************)
EXTENDS Naturals, FiniteSets

CONSTANTS Process, Slot, Key, Tag

\* A thread is a request that some process is serving.
Thread == Process \X Slot
Nobody == << >>

VARIABLES
    data,         \* the keys that hold an entry
    index,        \* index[t]: the member list under tagKey(t), {} when absent
    tagMu,        \* tagMu[p]: the thread that holds p's lock, or Nobody
    op,           \* op[th]: what th is doing
    writer,       \* history: the thread whose unfinished Set wrote k's entry
    asked,        \* history: asked[k]: the tags the Set of k's entry was given
    indexed       \* history: indexed[k]: the tags that Set has indexed without error

cacheVars == <<data, index, tagMu, op, writer, asked, indexed>>

Idle == [pc |-> "idle"]

CacheTypeOK ==
    /\ data \subseteq Key
    /\ index \in [Tag -> SUBSET Key]
    /\ tagMu \in [Process -> Thread \cup {Nobody}]
    /\ \A th \in Thread :
          op[th] \in {Idle} \cup [pc : {"tagging"}, key : Key, todo : SUBSET Tag]
                     \cup [pc : {"write"}, key : Key, todo : SUBSET Tag, tag : Tag, members : SUBSET Key]
                     \cup [pc : {"delete"}, tag : Tag, members : SUBSET Key]
    /\ writer \in [Key -> Thread \cup {Nobody}]
    /\ asked \in [Key -> SUBSET Tag] /\ indexed \in [Key -> SUBSET Tag]

CacheInit ==
    /\ data = {} /\ index = [t \in Tag |-> {}]
    /\ tagMu = [p \in Process |-> Nobody]
    /\ op = [th \in Thread |-> Idle]
    /\ writer = [k \in Key |-> Nobody]
    /\ asked = [k \in Key |-> {}] /\ indexed = [k \in Key |-> {}]

-----------------------------------------------------------------------------
Lock(th) == tagMu[th[1]] = Nobody /\ tagMu' = [tagMu EXCEPT ![th[1]] = th]
Unlock(th) == tagMu' = [tagMu EXCEPT ![th[1]] = Nobody]

\* The entries of K are gone.
Drop(K) ==
    /\ data' = data \ K
    /\ writer' = [k \in Key |-> IF k \in K THEN Nobody ELSE writer[k]]
    /\ asked' = [k \in Key |-> IF k \in K THEN {} ELSE asked[k]]
    /\ indexed' = [k \in Key |-> IF k \in K THEN {} ELSE indexed[k]]

\* Where SetByKey goes on when the tags in todo are left.
Resume(key, todo) == IF todo = {} THEN Idle ELSE [pc |-> "tagging", key |-> key, todo |-> todo]

\* th is done with one tag of its Set, having indexed it or not; with the last
\* one SetByKey returns.
TagDone(th, tag, done) ==
    LET key == op[th].key
        todo == op[th].todo \ {tag}
    IN  /\ op' = [op EXCEPT ![th] = Resume(key, todo)]
        /\ indexed' = IF done /\ writer[key] = th
                      THEN [indexed EXCEPT ![key] = @ \cup {tag}] ELSE indexed
        /\ writer' = IF todo = {} /\ writer[key] = th
                     THEN [writer EXCEPT ![key] = Nobody] ELSE writer
        /\ UNCHANGED <<data, asked>>

\* SetByKey up to its first tag.
SetByKey(th, key, tags, ok, applied) ==
    /\ op[th] = Idle
    /\ ok => applied
    /\ op' = [op EXCEPT ![th] = IF ok THEN Resume(key, tags) ELSE Idle]
    /\ IF applied
       THEN /\ data' = data \cup {key}
            /\ writer' = [writer EXCEPT ![key] = IF ok /\ tags # {} THEN th ELSE Nobody]
            /\ asked' = [asked EXCEPT ![key] = tags]
            /\ indexed' = [indexed EXCEPT ![key] = {}]
       ELSE UNCHANGED <<data, writer, asked, indexed>>
    /\ UNCHANGED <<index, tagMu>>

\* addTagKey up to its write: it returns early when the read fails and when
\* the key is a member already.
addTagKeyRead(th, tag, ok) ==
    /\ op[th].pc = "tagging" /\ tag \in op[th].todo
    /\ tagMu[th[1]] = Nobody
    /\ IF ~ok \/ op[th].key \in index[tag]
       THEN TagDone(th, tag, ok) /\ UNCHANGED tagMu
       ELSE /\ Lock(th)
            /\ op' = [op EXCEPT ![th] = [pc |-> "write", key |-> op[th].key, todo |-> op[th].todo,
                                         tag |-> tag, members |-> index[tag]]]
            /\ UNCHANGED <<data, writer, asked, indexed>>
    /\ UNCHANGED index

\* Mutant: the error path forgets the lock.
addTagKeyWriteKeepsLock(th, ok, applied) ==
    /\ op[th].pc = "write"
    /\ ok => applied
    /\ index' = IF applied THEN [index EXCEPT ![op[th].tag] = op[th].members \cup {op[th].key}]
                ELSE index
    /\ TagDone(th, op[th].tag, ok)
    /\ IF ok THEN Unlock(th) ELSE UNCHANGED tagMu

addTagKeyWrite(th, ok, applied) ==
    /\ op[th].pc = "write"
    /\ ok => applied
    /\ index' = IF applied THEN [index EXCEPT ![op[th].tag] = op[th].members \cup {op[th].key}]
                ELSE index
    /\ TagDone(th, op[th].tag, ok)
    /\ Unlock(th)

\* Mutant: the index is read before the lock is taken.
InvalidateByTagReadUnlocked(th, tag) ==
    /\ op[th] = Idle
    /\ index[tag] # {}
    /\ op' = [op EXCEPT ![th] = [pc |-> "delete", tag |-> tag, members |-> index[tag]]]
    /\ UNCHANGED <<data, index, tagMu, writer, asked, indexed>>

\* InvalidateByTag up to its Del.  An absent list and a failed read end the
\* call with nothing changed.
InvalidateByTagRead(th, tag) ==
    /\ op[th] = Idle
    /\ Lock(th)
    /\ index[tag] # {}
    /\ op' = [op EXCEPT ![th] = [pc |-> "delete", tag |-> tag, members |-> index[tag]]]
    /\ UNCHANGED <<data, index, writer, asked, indexed>>

\* Its bulk Del.
InvalidateByTagDel(th, applied) ==
    /\ op[th].pc = "delete"
    /\ op' = [op EXCEPT ![th] = Idle]
    /\ IF applied
       THEN Drop(op[th].members) /\ index' = [index EXCEPT ![op[th].tag] = {}]
       ELSE UNCHANGED <<data, index, writer, asked, indexed>>
    /\ Unlock(th)

\* Delete is a single call.
Delete(th, key) ==
    /\ op[th] = Idle
    /\ key \in data
    /\ Drop({key})
    /\ UNCHANGED <<index, tagMu, op>>

\* The backend expires an entry; member lists are stored with ttl 0.
Expire(key) ==
    /\ key \in data
    /\ Drop({key})
    /\ UNCHANGED <<index, tagMu, op>>

Step(th) ==
    \/ \E tag \in Tag, ok \in BOOLEAN : addTagKeyRead(th, tag, ok)
    \/ \E ok, applied \in BOOLEAN : addTagKeyWrite(th, ok, applied)
    \/ \E applied \in BOOLEAN : InvalidateByTagDel(th, applied)

CacheNext ==
    \/ \E th \in Thread : Step(th)
    \/ \E th \in Thread, key \in Key, tags \in SUBSET Tag, ok, applied \in BOOLEAN :
          SetByKey(th, key, tags, ok, applied)
    \/ \E th \in Thread, tag \in Tag : InvalidateByTagRead(th, tag)
    \/ \E th \in Thread, key \in Key : Delete(th, key)
    \/ \E key \in Key : Expire(key)

\* A call that was begun goes on: backend calls end by their deadline, and
\* sync.Mutex hands the lock to a waiter that has waited long.
CacheFairness == \A th \in Thread : SF_cacheVars(Step(th))

CacheSpec == CacheInit /\ [][CacheNext]_cacheVars /\ CacheFairness

-----------------------------------------------------------------------------
\* "InvalidateByTag removes every entry associated with tag": an entry is in
\* the member list of every tag its Set indexed without error, whatever ran
\* between its backend calls.
ReachableByTag == \A k \in data : \A t \in indexed[k] : k \in index[t]

\* Every call that was begun ends, also when backend calls fail under tagMu.
CallsEnd == \A th \in Thread : op[th] # Idle ~> op[th] = Idle

\* "Stale index entries are no-ops": an invalidation removes only entries that
\* were set with the tag.
InvalidatesOnlyTagged ==
    [][\A th \in Thread, k \in Key :
          op[th].pc = "delete" /\ op'[th] = Idle /\ k \in data \ data' => op[th].tag \in asked[k]]_cacheVars
=============================================================================
