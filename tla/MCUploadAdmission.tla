------------------------- MODULE MCUploadAdmission -------------------------
(* Small instances of UploadAdmission for TLC. *)
EXTENDS UploadAdmission, TLC

\* Only for safety runs.
Symmetry == Permutations(Requests) \cup Permutations(Keys)
            \cup Permutations(Entries) \cup Permutations(Writers)
=============================================================================
