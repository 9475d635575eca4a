----------------------------- MODULE MCJobQueue -----------------------------
(* The instances of JobQueue that TLC checks.                              *)
EXTENDS JobQueue, TLC

CONSTANTS j1, j2, w1, w2

\* j2 is of an MDI type, j1 is not.
MCRank == [j \in Jobs |-> IF j = j2 THEN 0 ELSE 4]
=============================================================================
