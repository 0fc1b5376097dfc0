--------------------------- MODULE MCFileLibrary ---------------------------
(* Small instances of FileLibrary for TLC. *)
EXTENDS FileLibrary
=============================================================================
