-------------------------- MODULE MCRepairSchedule --------------------------
EXTENDS RepairSchedule, TLC

CONSTANTS k1, k2, h1

\* Two recovery sets of one release.
SetsOfOneRelease == k1 :> h1 @@ k2 :> h1
=============================================================================
