----------------------------- MODULE NodeDriver -----------------------------
(***************************************************************************)
(* The background driver of a coordination.Node: Start, Stop and the       *)
(* goroutines running Node.run.  Channels are numbered by the Start that   *)
(* made them, and so are goroutines: Start number k launches goroutine k.  *)
(* A goroutine evaluates n.stopCh anew each time it enters its select.     *)
(***************************************************************************)
EXTENDS Naturals

CONSTANT MaxStarts    \* bound: number of times the node is started

VARIABLES
    running,      \* Node.running
    starts,       \* number of goroutines launched
    stopCh,       \* Node.stopCh, 0 for nil
    closed,       \* the channels that Stop closed
    pc,           \* pc[d]: where goroutine d is: about to select, blocked in it, in Tick, or gone
    waitsOn,      \* waitsOn[d]: the channel d's select was entered with
    stopped       \* history: the goroutines that were launched before some Stop

vars == <<running, starts, stopCh, closed, pc, waitsOn, stopped>>

Driver == 1 .. MaxStarts

TypeOK ==
    /\ running \in BOOLEAN
    /\ starts \in 0 .. MaxStarts /\ stopCh \in 0 .. MaxStarts
    /\ closed \subseteq Driver
    /\ pc \in [Driver -> {"none", "loop", "select", "tick", "gone"}]
    /\ waitsOn \in [Driver -> 0 .. MaxStarts]
    /\ stopped \subseteq Driver

Init ==
    /\ running = FALSE
    /\ starts = 0 /\ stopCh = 0
    /\ closed = {}
    /\ pc = [d \in Driver |-> "none"]
    /\ waitsOn = [d \in Driver |-> 0]
    /\ stopped = {}

Start ==
    /\ ~running
    /\ starts < MaxStarts
    /\ running' = TRUE
    /\ starts' = starts + 1
    /\ stopCh' = starts + 1
    /\ pc' = [pc EXCEPT ![starts + 1] = "loop"]
    /\ UNCHANGED <<closed, waitsOn, stopped>>

\* Mutant: the channel is not closed.
StopLeavesOpen ==
    /\ running
    /\ running' = FALSE
    /\ stopped' = 1 .. starts
    /\ UNCHANGED <<starts, stopCh, closed, pc, waitsOn>>

Stop ==
    /\ running
    /\ running' = FALSE
    /\ closed' = closed \cup {stopCh}
    /\ stopped' = 1 .. starts
    /\ UNCHANGED <<starts, stopCh, pc, waitsOn>>

\* run: enter the select, with the channel that n.stopCh holds now.
Select(d) ==
    /\ pc[d] = "loop"
    /\ pc' = [pc EXCEPT ![d] = "select"]
    /\ waitsOn' = [waitsOn EXCEPT ![d] = stopCh]
    /\ UNCHANGED <<running, starts, stopCh, closed, stopped>>

\* run: case <-n.stopCh.
Exit(d) ==
    /\ pc[d] = "select"
    /\ waitsOn[d] \in closed
    /\ pc' = [pc EXCEPT ![d] = "gone"]
    /\ UNCHANGED <<running, starts, stopCh, closed, waitsOn, stopped>>

\* run: case <-t.C, and n.Tick().
BeginTick(d) ==
    /\ pc[d] = "select"
    /\ pc' = [pc EXCEPT ![d] = "tick"]
    /\ UNCHANGED <<running, starts, stopCh, closed, waitsOn, stopped>>

EndTick(d) ==
    /\ pc[d] = "tick"
    /\ pc' = [pc EXCEPT ![d] = "loop"]
    /\ UNCHANGED <<running, starts, stopCh, closed, waitsOn, stopped>>

Next ==
    \/ Start
    \/ Stop
    \/ \E d \in Driver : Select(d) \/ Exit(d) \/ BeginTick(d) \/ EndTick(d)

\* A goroutine keeps running, the ticker keeps firing, and a select that finds
\* both cases ready again and again does not choose the same one for ever.
Fairness ==
    \A d \in Driver : /\ WF_vars(Select(d)) /\ WF_vars(BeginTick(d)) /\ WF_vars(EndTick(d))
                      /\ SF_vars(Exit(d))

Spec == Init /\ [][Next]_vars /\ Fairness

-----------------------------------------------------------------------------
Live == {d \in Driver : pc[d] \in {"loop", "select", "tick"}}

\* Stop never closes a channel a second time, which would panic.
NoDoubleClose == running => stopCh \notin closed

\* After the last Stop every goroutine ends, the ones included that an earlier
\* Stop failed to reach.
LastStopHaltsAll == <>[](~running) => <>[](Live = {})

\* "Stop halts the background goroutine started by Start."
StopHalts == \A d \in Driver : (d \in stopped) ~> (pc[d] = "gone")
=============================================================================
