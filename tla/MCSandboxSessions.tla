------------------------- MODULE MCSandboxSessions -------------------------
(* Instances of SandboxSessions for TLC.                                   *)
EXTENDS SandboxSessionsInv

CONSTANTS c1, c2, c3, f1, r1, r2, s1, s2

OneRun  == [c \in Calls |-> r1]
TwoRuns == [c \in Calls |-> IF c = c3 THEN r2 ELSE r1]
=============================================================================
