-------------------------- MODULE MCUploadProgress --------------------------
(* Small instances of UploadProgress for TLC. *)
EXTENDS UploadProgress, TLC

\* Requests are interchangeable; only for safety runs.
Symmetry == Permutations(Chunks) \cup Permutations(Requests)
=============================================================================
