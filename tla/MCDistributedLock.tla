------------------------ MODULE MCDistributedLock ------------------------
(* Three calls with autoRenew, as the NAS workers make, and one without, as  *)
(* the cache restore worker makes.                                         *)
EXTENDS DistributedLock
CONSTANTS p1, p2, p3, p4
FourCalls == {p1, p2, p3, p4}
ThreeRenewing == {p1, p2, p3}
==========================================================================
