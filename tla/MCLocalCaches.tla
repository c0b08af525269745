--------------------------- MODULE MCLocalCaches ---------------------------
(***************************************************************************)
(* The two caches of a process, of CEL results and of Z3 decisions, for    *)
(* TLC: part, chosen at the start, names the one that is used.             *)
(***************************************************************************)
EXTENDS ResultCache

CONSTANTS Query, Satisfiable, Caller, MaxEntries, FrontEnd, Part

VARIABLES part, lru, entries, solving, used

D == INSTANCE DecisionCache

decisions == <<lru, entries, solving, used>>
cachesVars == <<part, vars, decisions>>

CachesInit == part \in Part /\ Init /\ D!Init

CachesNext ==
    /\ part' = part
    /\ \/ part = "results" /\ Next /\ UNCHANGED decisions
       \/ part = "decisions" /\ D!Next /\ UNCHANGED vars

CachesSpec == CachesInit /\ [][CachesNext]_cachesVars

\* The state of both caches keeps its type, "unknown" among the decisions that
\* are never stored.
CachesTypeOK == TypeOK /\ D!TypeOK

\* The map and the list of the decision cache hold the same entries.
MapMatchesList == D!MapMatchesList

\* The decision cache holds exactly the most recently used decisions.
HoldsMostRecent == D!HoldsMostRecent

\* Only complete answers of z3 are cached.
OnlyCompletedCached == D!OnlyCompletedCached
=============================================================================
