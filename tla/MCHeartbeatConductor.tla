------------------------ MODULE MCHeartbeatConductor ------------------------
(* Model-checking instances of HeartbeatConductor.                           *)
EXTENDS HeartbeatConductor
FewJitters == {-20, 0}
NoJitter == {0}
IdleOnly == {FALSE}
OnTime == {0}
SometimesLate == {0, 1}
=============================================================================
