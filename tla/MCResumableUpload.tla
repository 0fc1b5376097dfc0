------------------------- MODULE MCResumableUpload -------------------------
(* Small instances of ResumableUpload for TLC. *)
EXTENDS ResumableUpload, TLC

\* Chunks, contents and requests are interchangeable; only for safety runs.
Symmetry == Permutations(Parts) \cup Permutations(Content)
            \cup Permutations(Writers) \cup Permutations(Completers)
=============================================================================
