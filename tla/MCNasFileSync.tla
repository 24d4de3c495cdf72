--------------------------- MODULE MCNasFileSync ---------------------------
(* Instances of NasFileSync for TLC.                                        *)
EXTENDS NasFileSync
=============================================================================
