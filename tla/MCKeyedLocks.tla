---------------------------- MODULE MCKeyedLocks ----------------------------
(* Small instances of KeyedLocks for TLC. *)
EXTENDS KeyedLocks
=============================================================================
