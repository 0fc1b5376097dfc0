-------------------------- MODULE FileLibraryProofs --------------------------
(***************************************************************************)
(* Proofs about FileLibrary for every number of attempts, purges,          *)
(* deletions, faults and crashes.                                          *)
(***************************************************************************)
EXTENDS FileLibrary, TLAPS

\* A purge is between its claim and the end of it.
Busy(p, f) == job[p][f] \in {"claimed", "taken", "unlinked"}

\* Who works on a file, and who may still give it back: only a purge that
\* owns its claim, before any unlink.
ClaimInv ==
  \A f \in Files :
    /\ row[f] = "active" => f \in final
    /\ row[f] = "none" <=> shown[f] = "none"
    /\ shown[f] = "visible" => row[f] = "active"
    /\ \A p \in Purgers :
         /\ Busy(p, f) => row[f] \in {"claimed", "purged"}
         /\ job[p][f] = "claimed" /\ p \in knows[f] =>
              f \in final /\ \A q \in Purgers : Busy(q, f) => q = p

\* An attempt, or the recovery of one, works on its own reservation.
AttemptInv ==
  /\ phase \in {"down", "import"} => attempt = Resting
  /\ attempt # Resting =>
       /\ owner = None
       /\ phase = IF attempt.pc = "recover" THEN "recovery" ELSE "up"
       /\ IF attempt.pc = "reserve" THEN reservation = None
          ELSE reservation # None /\ reservation.file = attempt.file
       /\ attempt.pc = "index" => attempt.file \in final

\* The bytes of the request: reserved until it is answered, and then in one
\* file at most.
Known(f) == f \in final \/ row[f] # "none"
RequestInv ==
  /\ owner = None => final \subseteq Reserved /\ \A f \in Files : row[f] = "none"
  /\ owner \in Files =>
       /\ reservation = None /\ row[owner] # "none"
       /\ \A f \in Files : Known(f) => f = owner
  /\ \A f, g \in Files : Known(f) /\ Known(g) => f = g
  /\ ImportedOnlyAfterText

\* Staged bytes, once the recovery has looked at them.
TempInv ==
  /\ temp \cap final = {}
  /\ phase = "import" => temp \subseteq Reserved
  /\ phase = "up" => temp \subseteq Reserved \cup {attempt.file}

LibraryInv == TypeOK /\ ClaimInv /\ AttemptInv /\ RequestInv /\ TempInv

----------------------------------------------------------------------------
USE NoneAssumption, PurgersAssumption, PurgeBoundsAssumption

LEMMA InitLibrary == Init => LibraryInv
BY DEF Init, LibraryInv, TypeOK, PurgeTypeOK, Idle, Budget, Resting, At, ClaimInv,
     Busy, AttemptInv, RequestInv, Known, ImportedOnlyAfterText, Reserved, TempInv

\* Deletion, restoration and the passage of time.
LEMMA UserStep ==
  ASSUME LibraryInv, Serving, UNCHANGED upload, NEW f \in Files,
         Delete(f) \/ UndoElapses(f) \/ Restore(f) \/ LeaseElapses(f)
  PROVE  LibraryInv'
<1> USE DEF LibraryInv, upload
<1>1. TypeOK'
  BY DEF TypeOK, PurgeTypeOK, Delete, UndoElapses, Restore, Restorable, LeaseElapses,
     Spend, Resting, At
<1>2. ClaimInv'
  BY DEF ClaimInv, Busy, Delete, UndoElapses, Restore, Restorable, LeaseElapses,
     TypeOK, PurgeTypeOK
<1>3. row' = row /\ final' = final
  BY DEF Delete, UndoElapses, Restore, LeaseElapses
<1>4. AttemptInv' /\ RequestInv' /\ TempInv'
  BY <1>3 DEF AttemptInv, RequestInv, Known, ImportedOnlyAfterText, Reserved, TempInv,
     Resting, At
<1> QED
  BY <1>1, <1>2, <1>4

\* Purges and the recovery of their claims.
LEMMA PurgerStep ==
  ASSUME LibraryInv, Serving, UNCHANGED upload, NEW f \in Files, NEW p \in Purgers,
         \/ Claim(p, f) \/ Unlink(p, f) \/ Release(p, f) \/ GiveUp(p, f)
         \/ Finalize(p, f) \/ ListStale(f) \/ TakeOver(f)
  PROVE  LibraryInv'
<1> USE DEF LibraryInv, upload
<1>1. TypeOK'
  <2>1. PurgeTypeOK' /\ final' \subseteq final
    <3> USE DEF TypeOK, PurgeTypeOK, SetJob
    <3>1. job' \in [Purgers -> [Files -> {"idle", "listed", "claimed", "taken",
                                         "unlinked"}]]
      <4> DEFINE J == {"idle", "listed", "claimed", "taken", "unlinked"}
      <4>1. ASSUME NEW q \in Purgers, NEW step \in J, SetJob(q, f, step)
            PROVE  job' \in [Purgers -> [Files -> J]]
        <5>1. [job[q] EXCEPT ![f] = step] \in [Files -> J]
          OBVIOUS
        <5> QED
          BY <4>1, <5>1
      <4>2. \E q \in Purgers, step \in J : SetJob(q, f, step)
        BY DEF Claim, Unlink, Release, GiveUp, Finalize, ListStale, TakeOver
      <4> QED
        BY <4>1, <4>2
    <3>2. budget' \in [{"delete", "fault", "crash"} -> Nat]
      BY DEF Claim, Unlink, Release, GiveUp, Finalize, ListStale, TakeOver, Spend
    <3>3. /\ row' \in [Files -> {"none", "active", "claimed", "purged"}]
          /\ shown' = shown /\ final' \subseteq final
      BY DEF Claim, Unlink, Release, GiveUp, Finalize, ListStale, TakeOver
    <3>4. knows' \in [Files -> SUBSET Purgers] /\ stale' \subseteq stale
      BY SMTT(40) DEF Claim, Unlink, Release, GiveUp, Finalize, ListStale, TakeOver
    <3>5. \A g \in Files : row'[g] # "claimed" => knows'[g] = {} /\ g \notin stale'
      BY DEF Claim, Unlink, Release, GiveUp, Finalize, ListStale, TakeOver, Owns,
         Recoverable
    <3> QED
      BY <3>1, <3>2, <3>3, <3>4, <3>5
  <2> QED
    BY <2>1 DEF TypeOK, Resting, At
<1>2. ClaimInv'
  <2> USE DEF ClaimInv, Busy, TypeOK, PurgeTypeOK, SetJob
  <2>1. CASE Claim(p, f)
    BY <2>1 DEF Claim
  <2>2. CASE Unlink(p, f)
    BY <2>2 DEF Unlink
  <2>3. CASE Release(p, f)
    BY <2>3 DEF Release, Owns
  <2>4. CASE GiveUp(p, f)
    BY <2>4 DEF GiveUp
  <2>5. CASE Finalize(p, f)
    BY <2>5 DEF Finalize, Owns
  <2>6. CASE ListStale(f)
    BY <2>6 DEF ListStale, Recoverable
  <2>7. CASE TakeOver(f)
    BY SMTT(40), <2>7 DEF TakeOver, Owns
  <2> QED
    BY <2>1, <2>2, <2>3, <2>4, <2>5, <2>6, <2>7
<1>3. /\ \A g \in Files : row'[g] = "none" <=> row[g] = "none"
      /\ final' \subseteq final
      /\ \A g \in final : row[g] = "none" => g \in final'
  BY DEF Claim, Unlink, Release, GiveUp, Finalize, ListStale, TakeOver, Owns,
     ClaimInv, Busy, TypeOK, PurgeTypeOK
<1>4. AttemptInv' /\ RequestInv' /\ TempInv'
  BY <1>3 DEF AttemptInv, RequestInv, Known, ImportedOnlyAfterText, Reserved, TempInv,
     Resting, At, TypeOK
<1> QED
  BY <1>1, <1>2, <1>4

\* process_upload, and a text with its client_request_id.
LEMMA AttemptStep ==
  ASSUME LibraryInv, UploadStep
  PROVE  LibraryInv'
<1> USE DEF LibraryInv, Serving, Resting, At, purge
<1>1. TypeOK'
  <2> USE DEF TypeOK, PurgeTypeOK
  <2>1. CASE Replay \/ Discard
    BY <2>1 DEF Replay, Discard
  <2>2. ASSUME NEW f \in Files, Stage(f) PROVE TypeOK'
    BY <2>2 DEF Stage
  <2>3. CASE Reserve \/ Publish
    BY <2>3 DEF Reserve, Publish
  <2>6. ASSUME NEW f \in used, Index(f), attempt' = Resting,
               UNCHANGED <<final, stale, job, knows, budget, temp, legacy, used, phase>>,
               row[f] = "none"
        PROVE  TypeOK'
    BY <2>6 DEF Index
  <2>7. CASE Resume
    BY <2>6, <2>7 DEF Resume, RequestInv
  <2>8. CASE Finish
    BY <2>6, <2>8 DEF Finish, AttemptInv, RequestInv
  <2>4. CASE Fail
    BY <2>4 DEF Fail, Fault, Spend, Leftover
  <2>5. CASE Text
    BY <2>5 DEF Text
  <2> QED
    BY <2>1, <2>2, <2>3, <2>4, <2>5, <2>7, <2>8 DEF UploadStep
<1>2. ASSUME NEW f \in used, Index(f), f \in final, owner = None,
             UNCHANGED <<final, job, knows, temp, legacy, phase>>,
             phase \in {"up", "recovery"}, temp = {} \/ phase = "recovery",
             attempt' = Resting
      PROVE  ClaimInv' /\ AttemptInv' /\ RequestInv' /\ TempInv'
  BY <1>2 DEF Index, ClaimInv, Busy, AttemptInv, RequestInv, Known,
     ImportedOnlyAfterText, Reserved, TempInv, TypeOK, PurgeTypeOK
<1>3. CASE Resume \/ Finish
  <2>1. PICK f \in used : /\ Index(f) /\ f \in final /\ attempt' = Resting
                          /\ f = IF attempt = Resting THEN reservation.file
                                 ELSE attempt.file
    BY <1>3 DEF Resume, Finish, AttemptInv, TypeOK
  <2>2. temp = {} /\ owner = None /\ phase = "up"
    BY <1>3, <2>1 DEF Resume, Finish, AttemptInv, TempInv, Reserved, TypeOK
  <2> QED
    BY <1>1, <1>2, <1>3, <2>1, <2>2 DEF Resume, Finish
<1>4. CASE ~(Resume \/ Finish)
  <2>1. /\ UNCHANGED <<row, shown, job, knows, legacy, phase>>
        /\ final \subseteq final' /\ phase = "up"
    <3>1. CASE Replay \/ Discard \/ Text \/ \E f \in Files : Stage(f)
      BY <3>1 DEF Replay, Discard, Text, Stage
    <3>2. CASE Reserve \/ Publish \/ Fail
      BY <3>2 DEF Reserve, Publish, Fail, AttemptInv, TypeOK
    <3> QED
      BY <1>4, <3>1, <3>2 DEF UploadStep
  <2>2. ClaimInv'
    BY <2>1 DEF ClaimInv, Busy
  <2>3. CASE Replay \/ Discard \/ Text
    BY <2>1, <2>2, <2>3, <1>1 DEF Replay, Discard, Text, AttemptInv, RequestInv, Known,
       ImportedOnlyAfterText, Reserved, TempInv, TypeOK
  <2>4. ASSUME NEW f \in Files, Stage(f)
        PROVE  AttemptInv' /\ RequestInv' /\ TempInv'
    BY <2>1, <2>4 DEF Stage, Unpublished, AttemptInv, RequestInv, Known,
       ImportedOnlyAfterText, Reserved, TempInv, TypeOK
  <2>5. CASE Reserve
    BY <2>1, <2>2, <2>5, <1>1 DEF Reserve, AttemptInv, RequestInv, Known,
       ImportedOnlyAfterText, Reserved, TempInv, TypeOK
  <2>6. CASE Publish
    BY <2>1, <2>2, <2>6, <1>1 DEF Publish, AttemptInv, RequestInv, Known,
       ImportedOnlyAfterText, Reserved, TempInv, TypeOK
  <2>7. CASE Fail
    BY <2>1, <2>2, <2>7, <1>1 DEF Fail, Leftover, AttemptInv, RequestInv, Known,
       ImportedOnlyAfterText, Reserved, TempInv, TypeOK
  <2> QED
    BY <1>1, <1>4, <2>2, <2>3, <2>4, <2>5, <2>6, <2>7 DEF UploadStep
<1> QED
  BY <1>3, <1>4

\* recover_upload_reservations
LEMMA RecoverStep ==
  ASSUME LibraryInv, RecoveryStep
  PROVE  LibraryInv'
<1> USE DEF LibraryInv, Resting, At, purge
<1>1. TypeOK'
  <2> USE DEF TypeOK, PurgeTypeOK
  <2>1. CASE RecoverAnswered \/ RecoverClaim
    BY <2>1 DEF RecoverAnswered, RecoverClaim, Listed
  <2>2. CASE RecoverPublish \/ RecoverMissing
    BY <2>2 DEF RecoverPublish, RecoverMissing
  <2>5. CASE RecoverIndex
    BY <2>5 DEF RecoverIndex, Index, AttemptInv, RequestInv
  <2>3. CASE RecoverFail
    BY <2>3 DEF RecoverFail, Fault, Spend
  <2>4. CASE RecoverEnd
    BY <2>4 DEF RecoverEnd
  <2> QED
    BY <2>1, <2>2, <2>3, <2>4, <2>5 DEF RecoveryStep
<1>2. phase = "recovery"
  BY DEF RecoveryStep, RecoverAnswered, RecoverClaim, RecoverPublish, RecoverIndex,
     RecoverMissing, RecoverFail, RecoverEnd, AttemptInv
<1>3. ClaimInv'
  <2>1. CASE RecoverIndex
    BY <2>1, <1>2 DEF RecoverIndex, Index, ClaimInv, Busy, AttemptInv, RequestInv,
       TypeOK, PurgeTypeOK
  <2>2. CASE ~RecoverIndex
    <3>1. UNCHANGED <<row, shown, job, knows>> /\ final \subseteq final'
      BY <2>2 DEF RecoveryStep, RecoverAnswered, RecoverClaim, RecoverPublish,
         RecoverMissing, RecoverFail, RecoverEnd
    <3> QED
      BY <3>1 DEF ClaimInv, Busy
  <2> QED
    BY <2>1, <2>2
<1>4. AttemptInv' /\ RequestInv' /\ TempInv'
  <2> USE <1>2 DEF AttemptInv, RequestInv, Known, ImportedOnlyAfterText, Reserved,
                   TempInv, TypeOK
  <2>1. CASE RecoverAnswered
    BY <2>1 DEF RecoverAnswered, Listed
  <2>2. CASE RecoverClaim
    BY <2>2 DEF RecoverClaim, Listed
  <2>3. CASE RecoverPublish
    BY <2>3 DEF RecoverPublish
  <2>4. CASE RecoverIndex
    BY <2>4 DEF RecoverIndex, Index, PurgeTypeOK
  <2>5. CASE RecoverMissing \/ RecoverFail
    BY <2>5 DEF RecoverMissing, RecoverFail
  <2>6. CASE RecoverEnd
    BY <2>6 DEF RecoverEnd
  <2> QED
    BY <2>1, <2>2, <2>3, <2>4, <2>5, <2>6 DEF RecoveryStep
<1> QED
  BY <1>1, <1>3, <1>4

\* import_legacy_files, a crash, a start.
LEMMA ImportStep ==
  ASSUME LibraryInv, (\E f \in Files : Import(f)) \/ ImportEnd \/ Crash \/ Start
  PROVE  LibraryInv'
<1> USE DEF LibraryInv, Resting, At, purge, TypeOK, PurgeTypeOK
<1>1. ASSUME NEW f \in Files, Import(f) PROVE LibraryInv'
  <2>1. owner = "text"
    BY <1>1 DEF Import, Importable, RequestInv, Known
  <2>2. TypeOK' /\ ClaimInv'
    BY <1>1 DEF Import, Importable, ClaimInv, Busy
  <2>3. AttemptInv' /\ RequestInv' /\ TempInv'
    BY <1>1, <2>1 DEF Import, Importable, AttemptInv, RequestInv, Known,
       ImportedOnlyAfterText, Reserved, TempInv
  <2> QED
    BY <2>2, <2>3
<1>2. CASE ImportEnd
  <2>1. TypeOK'
    BY <1>2 DEF ImportEnd, Fault, Spend, NoFault
  <2>2. ClaimInv' /\ AttemptInv' /\ RequestInv' /\ TempInv'
    BY <1>2 DEF ImportEnd, ClaimInv, Busy, AttemptInv, RequestInv, Known,
       ImportedOnlyAfterText, Reserved, TempInv
  <2> QED
    BY <2>1, <2>2
<1>3. CASE Crash
  <2>1. TypeOK'
    BY <1>3 DEF Crash, PurgersDie, Idle, Spend
  <2>2. ClaimInv'
    BY <1>3 DEF Crash, PurgersDie, Idle, ClaimInv, Busy
  <2>3. AttemptInv' /\ RequestInv' /\ TempInv'
    BY <1>3 DEF Crash, AttemptInv, RequestInv, Known, ImportedOnlyAfterText,
       Reserved, TempInv
  <2> QED
    BY <2>1, <2>2, <2>3
<1>4. CASE Start
  BY <1>4 DEF Start, ClaimInv, Busy, AttemptInv, RequestInv, Known,
     ImportedOnlyAfterText, Reserved, TempInv
<1> QED
  BY <1>1, <1>2, <1>3, <1>4

\* Every step of the library preserves the invariant.
LEMMA LibraryInvariant == Spec => []LibraryInv
<1>1. LibraryInv /\ [Next]_vars => LibraryInv'
  <2> SUFFICES ASSUME LibraryInv, [Next]_vars PROVE LibraryInv'
    OBVIOUS
  <2>1. CASE PurgeWhileUp
    BY <2>1, UserStep, PurgerStep DEF PurgeWhileUp, PurgeNext, PurgeStep
  <2>2. CASE UNCHANGED vars
    BY <2>2 DEF vars, purge, upload, LibraryInv, TypeOK, PurgeTypeOK, ClaimInv, Busy,
       AttemptInv, RequestInv, Known, ImportedOnlyAfterText, Reserved, TempInv, Resting, At
  <2> QED
    BY <2>1, <2>2, AttemptStep, RecoverStep, ImportStep DEF Next
<1> QED
  BY <1>1, InitLibrary, PTL DEF Spec

----------------------------------------------------------------------------
\* Every variable keeps its type, through uploads, purges, faults and crashes.
THEOREM LibraryTypeCorrect == Spec => []TypeOK
BY LibraryInvariant, PTL DEF LibraryInv

\* No purge unlinks a file that its row still gives out, for any number of
\* purges at once (purge claims).
THEOREM RestorableStaysOnDisk == Spec => []RestorableOnDisk
<1>1. LibraryInv => RestorableOnDisk
  BY DEF LibraryInv, ClaimInv, RestorableOnDisk
<1> QED
  BY <1>1, LibraryInvariant, PTL

\* A visible file is downloadable, whenever its restoration read the clock.
THEOREM VisibleIsDownloadable == Spec => []VisibleDownloadable
<1>1. LibraryInv => VisibleDownloadable
  BY DEF LibraryInv, ClaimInv, VisibleDownloadable
<1> QED
  BY <1>1, LibraryInvariant, PTL

\* The startup imports nothing that a request may still claim as its own.
THEOREM ImportsNoReservedFile == Spec => []ImportedOnlyAfterText
<1>1. LibraryInv => ImportedOnlyAfterText
  BY DEF LibraryInv, RequestInv
<1> QED
  BY <1>1, LibraryInvariant, PTL

\* Once the server is up, staged bytes belong to somebody.
THEOREM NothingIsLeftOver == Spec => []NoLeftovers
<1>1. LibraryInv => NoLeftovers
  BY DEF LibraryInv, TempInv, NoLeftovers, Serving
<1> QED
  BY <1>1, LibraryInvariant, PTL

\* A client_request_id gives one file, however often it is tried and however
\* often the server dies.
THEOREM OneFileForOneRequest == Spec => []OneFilePerRequest
<1>1. LibraryInv => OneFilePerRequest
  BY DEF LibraryInv, RequestInv, Known, OneFilePerRequest
<1> QED
  BY <1>1, LibraryInvariant, PTL
=============================================================================
