--------------------------- MODULE MCMemoryStream ---------------------------
(* Small instances of MemoryStream. *)
EXTENDS MemoryStream, TLC
=============================================================================
