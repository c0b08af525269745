--------------------------- MODULE CircuitBreaker ---------------------------
(***************************************************************************)
(* internal/circuitbreaker: the three-state breaker in front of Z3, and    *)
(* the requests that go through it.  Allow, RecordTimeout and              *)
(* RecordSuccess each run under cb.mu and are one action each; a request   *)
(* is anywhere between its Allow and its Record call while the breaker     *)
(* changes state under it.  Record calls do not say which request they     *)
(* are for, and the model keeps it that way: probe is history only.        *)
(*                                                                         *)
(* Time is kept as ages in ticks.  Each age saturates one past the largest *)
(* value the code compares it with, so no bound on time is needed.         *)
(***************************************************************************)
EXTENDS Naturals, Sequences, FiniteSets, FiniteSetsExt

CONSTANTS
    Request,             \* the requests that may be under way at once
    TimeoutThreshold, WindowDuration, FailureThreshold, OpenDuration

\* New replaces every value that is not positive by a default.
ASSUME ConfigAssumption ==
    {TimeoutThreshold, WindowDuration, FailureThreshold, OpenDuration} \subseteq Nat \ {0}

VARIABLES
    state,               \* cb.state
    timeoutStamps,       \* cb.timeoutStamps, as ages, oldest first
    openAge,             \* time.Since(cb.openedAt)
    probeInFlight,       \* cb.probeInFlight
    running,             \* the requests that were admitted and have not reported
    elapsed,             \* elapsed[r]: how long r has been running
    probe,               \* history: the running requests that were admitted as probes
    recent               \* history: ages, all within the window, of the qualifying
                         \* timeouts reported since the circuit last closed or a
                         \* success was reported to the closed circuit

breaker == <<state, timeoutStamps, openAge, probeInFlight>>
vars == <<breaker, running, elapsed, probe, recent>>

Closed == "closed"
Open == "open"
HalfOpen == "half-open"

TypeOK ==
    /\ state \in {Closed, Open, HalfOpen}
    /\ timeoutStamps \in Seq(0 .. WindowDuration + 1) /\ Len(timeoutStamps) < FailureThreshold
    /\ openAge \in 0 .. OpenDuration
    /\ probeInFlight \in BOOLEAN
    /\ running \subseteq Request /\ probe \subseteq running
    /\ elapsed \in [Request -> 0 .. TimeoutThreshold]
    /\ recent \in Seq(0 .. WindowDuration)

Init ==
    /\ state = Closed
    /\ timeoutStamps = << >>
    /\ openAge = 0
    /\ probeInFlight = FALSE
    /\ running = {} /\ probe = {}
    /\ elapsed = [r \in Request |-> 0]
    /\ recent = << >>

-----------------------------------------------------------------------------
\* Mutant: a refused request restarts the cool-down.
AllowRestartsCoolDown(r) ==
    LET CooledDown == state = Open /\ openAge >= OpenDuration
        Admitted == state = Closed \/ CooledDown
    IN  /\ r \notin running
        /\ running' = IF Admitted THEN running \cup {r} ELSE running
        /\ elapsed' = [elapsed EXCEPT ![r] = 0]
        /\ state' = IF CooledDown THEN HalfOpen ELSE state
        /\ probeInFlight' = (probeInFlight \/ CooledDown)
        /\ openAge' = IF state = Open /\ ~CooledDown THEN 0 ELSE openAge
        /\ probe' = IF CooledDown THEN probe \cup {r} ELSE probe
        /\ UNCHANGED <<timeoutStamps, recent>>

\* A refused request changes nothing: its caller answers 503 (WriteOpen).
Allow(r) ==
    LET CooledDown == state = Open /\ openAge >= OpenDuration
        AsProbe == CooledDown \/ (state = HalfOpen /\ ~probeInFlight)
    IN  /\ r \notin running
        /\ state = Closed \/ AsProbe
        /\ running' = running \cup {r}
        /\ elapsed' = [elapsed EXCEPT ![r] = 0]
        /\ state' = IF CooledDown THEN HalfOpen ELSE state
        /\ probeInFlight' = (probeInFlight \/ AsProbe)
        /\ probe' = IF AsProbe THEN probe \cup {r} ELSE probe
        /\ UNCHANGED <<timeoutStamps, openAge, recent>>

trip ==
    /\ state' = Open
    /\ openAge' = 0
    /\ probeInFlight' = FALSE
    /\ timeoutStamps' = << >>

\* The first stamp that is not before the cut-off, and all after it, stay.
pruneStamps(stamps) ==
    LET kept == {i \in DOMAIN stamps : stamps[i] <= WindowDuration}
    IN  IF kept = {} THEN << >> ELSE SubSeq(stamps, Min(kept), Len(stamps))

Leave(r) ==
    /\ running' = running \ {r}
    /\ probe' = probe \ {r}
    /\ UNCHANGED elapsed

RecordTimeout(r) ==
    /\ r \in running
    /\ Leave(r)
    /\ IF elapsed[r] < TimeoutThreshold \/ state = Open
       THEN UNCHANGED <<breaker, recent>>
       ELSE LET stamps == Append(pruneStamps(timeoutStamps), 0)
            IN  /\ IF state = HalfOpen \/ Len(stamps) >= FailureThreshold
                   THEN trip
                   ELSE timeoutStamps' = stamps /\ UNCHANGED <<state, openAge, probeInFlight>>
                /\ recent' = IF state = Closed THEN Append(recent, 0) ELSE recent

\* Mutant: any success closes the circuit.
RecordSuccessCloses(r) ==
    /\ r \in running
    /\ Leave(r)
    /\ state' = Closed /\ timeoutStamps' = << >> /\ probeInFlight' = FALSE /\ recent' = << >>
    /\ UNCHANGED openAge

RecordSuccess(r) ==
    /\ r \in running
    /\ Leave(r)
    /\ IF state = Open
       THEN UNCHANGED <<breaker, recent>>
       ELSE /\ state' = Closed
            /\ timeoutStamps' = << >>
            /\ probeInFlight' = IF state = HalfOpen THEN FALSE ELSE probeInFlight
            /\ recent' = << >>
            /\ UNCHANGED openAge

\* The clock advances.
Tick ==
    /\ timeoutStamps' = [i \in DOMAIN timeoutStamps |-> Min({timeoutStamps[i] + 1, WindowDuration + 1})]
    /\ openAge' = Min({openAge + 1, OpenDuration})
    /\ elapsed' = [r \in Request |-> Min({elapsed[r] + 1, TimeoutThreshold})]
    /\ recent' = LET aged == [i \in DOMAIN recent |-> recent[i] + 1]
                 IN  SelectSeq(aged, LAMBDA age : age <= WindowDuration)
    /\ UNCHANGED <<state, probeInFlight, running, probe>>

Next ==
    \/ \E r \in Request : Allow(r) \/ RecordTimeout(r) \/ RecordSuccess(r)
    \/ Tick

\* Time passes, every admitted request reports in the end, and requests keep
\* arriving.
Fairness ==
    /\ WF_vars(Tick)
    /\ \A r \in Request : WF_vars(RecordTimeout(r) \/ RecordSuccess(r))
    /\ WF_vars(\E r \in Request : Allow(r))

Spec == Init /\ [][Next]_vars /\ Fairness

-----------------------------------------------------------------------------
\* The circuit is closed only while fewer than FailureThreshold qualifying
\* timeouts lie in the window, although pruneStamps runs only when the next
\* one arrives.
ClosedBelowThreshold == state = Closed => Len(recent) < FailureThreshold

\* A closed circuit opens only when that many lie in the window, with no
\* success between them ("consecutive timeouts ... within a sliding window").
OpensOnThreshold == [][state = Closed /\ state' = Open => Len(recent') >= FailureThreshold]_vars

\* Once open, the circuit stays open for the whole cool-down, whatever the
\* requests admitted before it tripped report in the meantime.
CoolDownHolds == [][state = Open /\ openAge < OpenDuration => state' = Open]_vars

\* probeInFlight is set exactly while the circuit is half-open: no path leaves
\* a flag behind that would refuse the first probe of a later half-open state.
FlagMatchesState == probeInFlight <=> state = HalfOpen

\* While requests keep arriving an open circuit is probed again: no report and
\* no refused request prolongs the cool-down for ever.
OpenIsProbed == state = Open ~> state = HalfOpen

\* "HalfOpen permits a single probe request to test recovery."
SingleProbe == Cardinality(probe) <= 1

\* probeInFlight says "whether a half-open probe is in progress".
ProbeInProgress == probeInFlight => probe # {}
=============================================================================
