----------------------------- MODULE FilePurge -----------------------------
(***************************************************************************)
(* Deletion, restoration and purge of downloadable files: soft_delete,     *)
(* restore and the purge claims of src/app/repository.py, purge_file of    *)
(* src/app/storage.py, and the two callers of the purge in                 *)
(* src/app/main.py, POST /api/maintenance/purge and the maintenance        *)
(* worker, which may run at the same time.                                 *)
(*                                                                         *)
(* Every transaction is BEGIN IMMEDIATE, so it is one action; the unlink   *)
(* between two transactions is another.  A purge treats its files one      *)
(* after the other; here in any order, which is more than it does.         *)
(***************************************************************************)
EXTENDS Naturals

CONSTANTS Files,       \* file ids
          Purgers,     \* running calls of purge_expired_files
          Worker,      \* the maintenance worker, which also recovers claims
          MaxDeletes,  \* bound: deletions by users
          MaxFaults,   \* bound: transient OSError / sqlite3.Error
          MaxCrashes   \* bound: process crashes

ASSUME PurgersAssumption == Worker \in Purgers
ASSUME PurgeBoundsAssumption == {MaxDeletes, MaxFaults, MaxCrashes} \subseteq Nat

VARIABLES
  row,     \* files: "none", or its purge_state: "active", "claimed", "purged"
  shown,   \* its message: "none", "visible", "deleted", or "expired" when it
           \* was deleted longer ago than the undo window
  final,   \* files present in the upload directory
  stale,   \* claims older than the lease
  job,     \* what each purger is about to do with each file
  knows,   \* purgers whose claim token is the one in the row
  budget   \* deletions, faults and crashes still allowed

purge == <<row, shown, final, stale, job, knows, budget>>

Spend(kind) == /\ budget[kind] > 0
               /\ budget' = [budget EXCEPT ![kind] = @ - 1]

Budget == [delete |-> MaxDeletes, fault |-> MaxFaults, crash |-> MaxCrashes]
Idle   == [p \in Purgers |-> [f \in Files |-> "idle"]]

----------------------------------------------------------------------------
(* Users.  X_Y before X: X with a plausible bug.                           *)

\* soft_delete, batch_soft_delete, DELETE /api/files
Delete(f) ==
  /\ shown[f] = "visible" /\ Spend("delete")
  /\ shown' = [shown EXCEPT ![f] = "deleted"]
  /\ UNCHANGED <<row, final, stale, job, knows>>

UndoElapses(f) ==
  /\ shown[f] = "deleted"
  /\ shown' = [shown EXCEPT ![f] = "expired"]
  /\ UNCHANGED <<row, final, stale, job, knows, budget>>

\* restore reads the clock before its transaction: the window may have
\* closed meanwhile, so only the purge state protects the file.
Restorable_WindowOnly(f) == shown[f] \in {"deleted", "expired"}
Restorable(f) == shown[f] \in {"deleted", "expired"} /\ row[f] = "active"

Restore(f) ==
  /\ Restorable(f)
  /\ shown' = [shown EXCEPT ![f] = "visible"]
  /\ UNCHANGED <<row, final, stale, job, knows, budget>>

----------------------------------------------------------------------------
(* One purge.                                                              *)

SetJob(p, f, step) == job' = [job EXCEPT ![p][f] = step]

\* _claim_expired_files gives the row a fresh token, which only this purge
\* knows.
Claim(p, f) ==
  /\ job[p][f] = "idle" /\ row[f] = "active" /\ shown[f] = "expired"
  /\ row' = [row EXCEPT ![f] = "claimed"]
  /\ knows' = [knows EXCEPT ![f] = {p}] /\ stale' = stale \ {f}
  /\ SetJob(p, f, "claimed")
  /\ UNCHANGED <<shown, final, budget>>

\* purge_file: unlink(missing_ok=True)
Unlink(p, f) ==
  /\ job[p][f] \in {"claimed", "taken"}
  /\ final' = final \ {f} /\ SetJob(p, f, "unlinked")
  /\ UNCHANGED <<row, shown, stale, knows, budget>>

\* _release_purge_claim after a failed unlink, unless the claim was taken
\* over meanwhile.
Owns_AnyToken(p, f) == row[f] = "claimed"
Owns(p, f) == row[f] = "claimed" /\ p \in knows[f]

Release(p, f) ==
  /\ job[p][f] = "claimed" /\ Spend("fault")
  /\ IF Owns(p, f)
     THEN /\ row' = [row EXCEPT ![f] = "active"]
          /\ knows' = [knows EXCEPT ![f] = {}] /\ stale' = stale \ {f}
     ELSE UNCHANGED <<row, knows, stale>>
  /\ SetJob(p, f, "idle")
  /\ UNCHANGED <<shown, final>>

\* recover_purge_claims only records that its unlink failed, and so does
\* everybody whose last transaction fails.
GiveUp(p, f) ==
  /\ job[p][f] \in {"claimed", "taken", "unlinked"} /\ Spend("fault")
  /\ SetJob(p, f, "idle")
  /\ UNCHANGED <<row, shown, final, stale, knows>>

\* _finalize_purge_claim
Finalize(p, f) ==
  /\ job[p][f] = "unlinked"
  /\ IF Owns(p, f)
     THEN /\ row' = [row EXCEPT ![f] = "purged"]
          /\ knows' = [knows EXCEPT ![f] = {}] /\ stale' = stale \ {f}
     ELSE UNCHANGED <<row, knows, stale>>
  /\ SetJob(p, f, "idle")
  /\ UNCHANGED <<shown, final, budget>>

----------------------------------------------------------------------------
(* Claims whose purge died or takes too long.                              *)

LeaseElapses(f) ==
  /\ row[f] = "claimed" /\ f \notin stale /\ stale' = stale \cup {f}
  /\ UNCHANGED <<row, shown, final, job, knows, budget>>

\* recover_purge_claims lists the rows with their tokens ...
Recoverable_Never(f) == FALSE
Recoverable_AnyState(f) == row[f] # "none"
Recoverable(f) == row[f] = "claimed" /\ f \in stale

ListStale(f) ==
  /\ job[Worker][f] = "idle" /\ Recoverable(f)
  /\ knows' = [knows EXCEPT ![f] = @ \cup {Worker}]
  /\ SetJob(Worker, f, "listed")
  /\ UNCHANGED <<row, shown, final, stale, budget>>

\* ... and _take_over_stale_purge_claim replaces a token that is still there.
TakeOver(f) ==
  /\ job[Worker][f] = "listed"
  /\ IF Owns(Worker, f) /\ f \in stale
     THEN /\ knows' = [knows EXCEPT ![f] = {Worker}] /\ stale' = stale \ {f}
          /\ SetJob(Worker, f, "taken")
     ELSE SetJob(Worker, f, "idle") /\ UNCHANGED <<knows, stale>>
  /\ UNCHANGED <<row, shown, final, budget>>

\* The process dies: claims stay in the database, nobody knows their tokens.
PurgersDie == job' = Idle /\ knows' = [f \in Files |-> {}]

----------------------------------------------------------------------------
PurgeStep(p, f) == Claim(p, f) \/ Unlink(p, f) \/ Release(p, f)
                   \/ GiveUp(p, f) \/ Finalize(p, f)
PurgeNext == \E f \in Files :
  \/ Delete(f) \/ UndoElapses(f) \/ Restore(f)
  \/ LeaseElapses(f) \/ ListStale(f) \/ TakeOver(f)
  \/ \E p \in Purgers : PurgeStep(p, f)

PurgeTypeOK ==
  /\ row \in [Files -> {"none", "active", "claimed", "purged"}]
  /\ shown \in [Files -> {"none", "visible", "deleted", "expired"}]
  /\ final \subseteq Files /\ stale \subseteq Files
  /\ job \in [Purgers -> [Files -> {"idle", "listed", "claimed", "taken",
                                     "unlinked"}]]
  /\ knows \in [Files -> SUBSET Purgers]
  /\ \A f \in Files : row[f] # "claimed" => knows[f] = {} /\ f \notin stale
  /\ budget \in [{"delete", "fault", "crash"} -> Nat]

----------------------------------------------------------------------------
(* Properties.                                                             *)

\* A file whose row is active, so that its message is shown or may be
\* restored, is on disk: two purges and the recovery of a claim never unlink
\* it and then give it back (repository.py, purge claims).
RestorableOnDisk == \A f \in Files : row[f] = "active" => f \in final

\* What a device sees as a file can be downloaded, even if the restoration
\* read the clock before the purge did (repository.py, restore).
VisibleDownloadable ==
  \A f \in Files : shown[f] = "visible" => row[f] = "active" /\ f \in final

\* A file deleted longer ago than the undo window is purged in the end, or
\* restored by a request that read the clock in time, over failed unlinks,
\* failed transactions and a dead purge.
ExpiredPurged ==
  \A f \in Files :
    shown[f] = "expired" ~> row[f] = "purged" \/ shown[f] = "visible"
=============================================================================
