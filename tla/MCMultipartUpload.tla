------------------------- MODULE MCMultipartUpload -------------------------
(* A session of two parts, the first of which has been sent. *)
EXTENDS MultipartUpload
TwoParts == {1, 2}
FirstPart == {1}
=============================================================================
