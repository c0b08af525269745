----------------------------- MODULE Federation -----------------------------
(***************************************************************************)
(* internal/federation: the regions of a fleet, each with a store of       *)
(* policy revisions, the writers that author revisions with Put, and the   *)
(* replicators that compare their region's store with every target.  The   *)
(* revisions of one policy id are modelled: policies share only the        *)
(* listings a replicator takes of the two stores.                          *)
(*                                                                         *)
(* Each store call is atomic; Put and reconcileRegion make several, and    *)
(* act on what an earlier one returned.  A revision's body is told apart   *)
(* by its OriginRegion, which the code never compares either.              *)
(***************************************************************************)
EXTENDS Integers, FiniteSets

CONSTANTS
    Region,
    Fleets,           \* the deployments considered: records [regions, allowlist], where
                      \* allowlist is cfg.Regions, {} when replication discovers its peers
    Writer,           \* the goroutines that call Put, as pairs <<region, slot>>
    Mode,             \* cfg.Mode: "async" or "sync"
    SkewedClocks,     \* TRUE: two Puts may read the same wall-clock time
    MaxPuts,          \* bound: revisions authored
    MaxDeletes,       \* bound: policies deleted
    MaxHealth,        \* bound: health reports
    MaxFailures       \* bound: calls to a peer that fail

ASSUME FleetAssumption ==
    /\ Mode \in {"async", "sync"}
    /\ Fleets \subseteq [regions : SUBSET Region, allowlist : SUBSET Region]
    /\ SkewedClocks \in BOOLEAN
    /\ {MaxPuts, MaxDeletes, MaxHealth, MaxFailures} \subseteq Nat

VARIABLES
    fleet,            \* the deployment this is
    store,            \* store[r]: the revision r holds, or None
    healthy,          \* healthy[r]: the peers r's registry calls healthy
    put,              \* put[w]: where w is in Put
    scan,             \* scan[r]: where r's replicator is in Reconcile
    puts,             \* revisions authored so far
    times,            \* the wall-clock times they were given
    deletes, reports, failures    \* how much of each bound is used up

vars == <<fleet, store, healthy, put, scan, puts, times, deletes, reports, failures>>
bounds == <<puts, times, deletes, reports, failures>>

None == [version |-> 0, at |-> 0, origin |-> 0]
Time == 1 .. MaxPuts
Revision == [version : 1 .. MaxPuts, at : Time, origin : Region]
Held == Revision \cup {None}

Idle == [pc |-> "idle"]

TypeOK ==
    /\ fleet \in Fleets
    /\ store \in [Region -> Held]
    /\ \A r \in Region : healthy[r] \subseteq Region \ {r}
    /\ \A w \in Writer :
          put[w] \in {Idle} \cup [pc : {"write"}, cur : Held]
                     \cup [pc : {"push"}, p : Revision, todo : SUBSET (Region \ {w[1]})]
    /\ \A r \in Region :
          scan[r] \in {Idle} \cup [pc : {"scan"}, todo : SUBSET (Region \ {r})]
                      \cup [pc : {"listed"}, todo : SUBSET (Region \ {r}), peer : Region, local : Held]
                      \cup [pc : {"both"}, todo : SUBSET (Region \ {r}), peer : Region,
                            local : Held, remote : Held]
    /\ puts \in 0 .. MaxPuts /\ times \subseteq Time
    /\ deletes \in 0 .. MaxDeletes /\ reports \in 0 .. MaxHealth /\ failures \in 0 .. MaxFailures

Init ==
    /\ fleet \in Fleets
    /\ store = [r \in Region |-> None]
    /\ healthy = [r \in Region |-> fleet.regions \ {r}]
    /\ put = [w \in Writer |-> Idle]
    /\ scan = [r \in Region |-> Idle]
    /\ puts = 0 /\ times = {} /\ deletes = 0 /\ reports = 0 /\ failures = 0

-----------------------------------------------------------------------------
Targets(r) == (IF fleet.allowlist # {} THEN fleet.allowlist ELSE healthy[r]) \ {r}

\* Mutant: versions alone are compared.
compareRevisionVersionOnly(a, b) ==
    IF a.version > b.version THEN 1 ELSE IF a.version < b.version THEN -1 ELSE 0

compareRevision(a, b) ==
    IF a.version > b.version \/ (a.version = b.version /\ a.at > b.at) THEN 1
    ELSE IF a.version < b.version \/ a.at < b.at THEN -1
    ELSE 0

\* A call to a peer succeeds, or fails with nothing done.
CallOK == UNCHANGED failures
CallFails == failures < MaxFailures /\ failures' = failures + 1

\* Put reads the current revision...
PutRead(w) ==
    /\ put[w] = Idle /\ w[1] \in fleet.regions
    /\ puts + Cardinality({v \in Writer : put[v].pc = "write"}) < MaxPuts
    /\ put' = [put EXCEPT ![w] = [pc |-> "write", cur |-> store[w[1]]]]
    /\ UNCHANGED <<store, fleet, healthy, scan, bounds>>

\* ... and stores the next one, which sync mode then pushes.
PutWrite(w, at) ==
    LET r == w[1]
        p == [version |-> put[w].cur.version + 1, at |-> at, origin |-> r]
    IN  /\ put[w].pc = "write"
        /\ SkewedClocks \/ at \notin times
        /\ store' = [store EXCEPT ![r] = p]
        /\ put' = [put EXCEPT ![w] = IF Mode = "sync" /\ Targets(r) # {}
                                     THEN [pc |-> "push", p |-> p, todo |-> Targets(r)] ELSE Idle]
        /\ puts' = puts + 1 /\ times' = times \cup {at}
        /\ UNCHANGED <<fleet, healthy, scan, deletes, reports, failures>>

\* One PutPolicy of pushNow.
pushNow(w, peer) ==
    /\ put[w].pc = "push" /\ peer \in put[w].todo
    /\ \/ CallOK /\ store' = [store EXCEPT ![peer] = put[w].p]
       \/ CallFails /\ UNCHANGED store
    /\ put' = [put EXCEPT ![w] = IF put[w].todo = {peer} THEN Idle ELSE [@ EXCEPT !.todo = @ \ {peer}]]
    /\ UNCHANGED <<fleet, healthy, scan, puts, times, deletes, reports>>

Delete(r) ==
    /\ deletes < MaxDeletes /\ store[r] # None
    /\ deletes' = deletes + 1
    /\ store' = [store EXCEPT ![r] = None]
    /\ UNCHANGED <<fleet, healthy, put, scan, puts, times, reports, failures>>

\* RegionRegistry.SetHealth; Register and Unregister change the set alike.  The
\* replicator looks at it only when there is no allowlist.
SetHealth(r, peer) ==
    /\ reports < MaxHealth /\ fleet.allowlist = {}
    /\ {r, peer} \subseteq fleet.regions /\ peer # r
    /\ reports' = reports + 1
    /\ healthy' = [healthy EXCEPT ![r] = IF peer \in @ THEN @ \ {peer} ELSE @ \cup {peer}]
    /\ UNCHANGED <<fleet, store, put, scan, puts, times, deletes, failures>>

-----------------------------------------------------------------------------
\* The replicator is done with the peer it was at; todo is what is left.
NextPeer(r, todo) ==
    scan' = [scan EXCEPT ![r] = IF todo = {} THEN Idle ELSE [pc |-> "scan", todo |-> todo]]

\* A tick of the loop, or a call of Reconcile.
Reconcile(r) ==
    /\ scan[r] = Idle /\ r \in fleet.regions
    /\ Targets(r) # {}
    /\ NextPeer(r, Targets(r))
    /\ UNCHANGED <<store, fleet, healthy, put, bounds>>

\* reconcileRegion lists the local store,
ListLocal(r, peer) ==
    /\ scan[r].pc = "scan" /\ peer \in scan[r].todo
    /\ scan' = [scan EXCEPT ![r] = [pc |-> "listed", todo |-> scan[r].todo \ {peer}, peer |-> peer,
                                    local |-> store[r]]]
    /\ UNCHANGED <<store, fleet, healthy, put, bounds>>

\* then the peer's,
ListRemote(r) ==
    /\ scan[r].pc = "listed"
    /\ LET s == scan[r]
       IN  \/ /\ CallOK
              /\ scan' = [scan EXCEPT ![r] = [pc |-> "both", todo |-> s.todo, peer |-> s.peer,
                                              local |-> s.local, remote |-> store[s.peer]]]
           \/ CallFails /\ NextPeer(r, s.todo)
    /\ UNCHANGED <<store, fleet, healthy, put, puts, times, deletes, reports>>

\* and copies the newer revision over the other.  An absent revision is older
\* than any other (None has version 0).
reconcilePolicy(r) ==
    LET s == scan[r]
        c == compareRevision(s.local, s.remote)
    IN  /\ s.pc = "both"
        /\ \/ c = 1 /\ CallOK /\ store' = [store EXCEPT ![s.peer] = s.local]
           \/ c = 1 /\ CallFails /\ UNCHANGED store
           \/ c = -1 /\ CallOK /\ store' = [store EXCEPT ![r] = s.remote]
           \/ c = 0 /\ CallOK /\ UNCHANGED store
        /\ NextPeer(r, s.todo)
        /\ UNCHANGED <<fleet, healthy, put, puts, times, deletes, reports>>

Replicate(r) ==
    \/ Reconcile(r)
    \/ \E peer \in Region : ListLocal(r, peer)
    \/ ListRemote(r)
    \/ reconcilePolicy(r)

Next ==
    \/ \E w \in Writer : PutRead(w) \/ \E at \in Time : PutWrite(w, at)
    \/ \E w \in Writer, peer \in Region : pushNow(w, peer)
    \/ \E r \in Region : Delete(r) \/ \E peer \in Region : SetHealth(r, peer)
    \/ \E r \in Region : Replicate(r)

\* The background loops were started and keep running, and a Put that was
\* begun goes on.  Peers fail only finitely often (MaxFailures).
Fairness ==
    /\ \A r \in Region : WF_vars(Replicate(r))
    /\ \A w \in Writer : WF_vars(\E at \in Time : PutWrite(w, at)) /\ WF_vars(\E peer \in Region : pushNow(w, peer))

Spec == Init /\ [][Next]_vars /\ Fairness

-----------------------------------------------------------------------------
Agree == \A r, s \in fleet.regions : store[r] = store[s]

\* Along the targets of the replicators every region hears of every other.
Connected ==
    \A S \in SUBSET fleet.regions \ {{}, fleet.regions} :
        \E r \in S, t \in fleet.regions \ S : t \in Targets(r) \/ r \in Targets(t)

\* "Repeated scans converge the fleet to the same view": once nothing is
\* authored or deleted any more, all stores come to hold the same revision and
\* stay so, although every copy acts on listings that may be stale.
Converges == <>[]Connected => <>[]Agree

\* "The newer revision (by Version, ties by UpdatedAt) wins": replication, the
\* author's own Put aside, never replaces a revision by an older one.
NewerWins ==
    [][\A r \in Region :
          /\ UNCHANGED <<puts, deletes>>
          => compareRevision(store'[r], store[r]) # -1]_vars
=============================================================================
