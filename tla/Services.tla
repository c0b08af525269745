------------------------------ MODULE Services ------------------------------
(***************************************************************************)
(* The services that share no state with each other: the rule registry,    *)
(* the verification router, the composed policies and the sandbox.         *)
(***************************************************************************)
EXTENDS PolicyRegistry

CONSTANTS Caller, Queries, MaxRoutes, Stages, MaxStages,
          MegaBits, PageBits, WordBits, Megabytes, Caps, MaxWritten

VARIABLES counters, caller, stats, request, reports, response, run, guest, out, outcome

O == INSTANCE Orchestrator
C == INSTANCE ComposedPolicy
B == INSTANCE Sandbox WITH result <- outcome

\* A reported average is never below the cost of its tier.
AverageNeverUnder == O!AverageNeverUnder

\* A composed policy passes when all its stages do.
VerdictIsConjunction == C!VerdictIsConjunction

\* A run closed by its deadline, and no other, is a timeout.
TimeoutReported == B!TimeoutReported
=============================================================================
