--------------------------- MODULE MCUploadQueue ---------------------------
(* Three requests of two users, of which one fills the byte limit alone; *)
(* two promotions under way.                                              *)
EXTENDS UploadQueue
CONSTANTS r1, r2, r3, k1, k2
TwoUsers == (r1 :> "ann") @@ (r2 :> "bob") @@ (r3 :> "ann")
Sizes == (r1 :> 1) @@ (r2 :> 2) @@ (r3 :> 1)
=============================================================================
