------------------------ MODULE UploadAdmissionProofs ------------------------
(***************************************************************************)
(* Proofs about UploadAdmission for every number of requests, ids,         *)
(* sessions and locks.                                                     *)
(***************************************************************************)
EXTENDS UploadAdmission, KeyedLocksProofs

RowsTyped ==
  /\ session \in [Keys -> {"none", "uploading", "verifying", "assembled",
                           "failed", "complete", "withdrawn"}]
  /\ message \in [Keys -> {None, "text", "file"}]
  /\ job \in [Requests -> Kinds \cup {"none", "admit", "reserve", "index"}]

\* The admitted sessions, counted.
CountInv == /\ RowsTyped
            /\ IsFiniteSet(Active) /\ Cardinality(Active) <= MaxActive

\* A whole-file upload that goes on to its message has reserved its id.
IndexInv == \A p \in Requests : Running(p, "index") => key[p] \in reserved

AdmissionInv == LocksInv /\ RowsTyped /\ OneOperation /\ IndexInv

----------------------------------------------------------------------------
USE SpaceAssumption

LEMMA RowsStep == RowsTyped /\ [Next]_vars => RowsTyped'
<1> SUFFICES ASSUME RowsTyped, [Next]_vars PROVE RowsTyped'
  OBVIOUS
<1> USE DEF RowsTyped
<1>1. ASSUME NEW p \in Requests, LockStep(p) \/ \E kind \in Kinds : Start(p, kind)
      PROVE  RowsTyped'
  BY <1>1 DEF LockStep, Calm, Start, Kinds, ids
<1>2. ASSUME NEW p \in Requests, ThreadStep(p) PROVE RowsTyped'
  <2>1. CASE CreateLook(p) \/ CreateCommit(p)
    BY <2>1 DEF CreateLook, CreateCommit, End, GoOn, ids
  <2>2. CASE TextCommit(p)
    BY <2>2 DEF TextCommit, End
  <2>3. CASE UploadLook(p) \/ UploadReserve(p) \/ UploadIndex(p)
    BY <2>3 DEF UploadLook, UploadReserve, UploadIndex, End, GoOn
  <2> QED
    BY <1>2, <2>1, <2>2, <2>3 DEF ThreadStep
<1>3. ASSUME NEW k \in Keys, SessionStep(k) PROVE RowsTyped'
  BY <1>3 DEF SessionStep, Becomes, Verify, Assemble, AssembleStops, Publish,
       PublishFails, Restart, Resume, Finalize, Withdraw, Cleanup, files
<1>4. ASSUME NEW w \in Writers, WriterStep(w) PROVE RowsTyped'
  BY <1>4 DEF WriterStep, PutBegin, PutReceive, PutEnd, PutFail
<1>5. CASE UNCHANGED vars
  BY <1>5 DEF vars, ids
<1> QED
  BY <1>1, <1>2, <1>3, <1>4, <1>5 DEF Next

\* Only a creation makes a session active, and only below the bound.
LEMMA ActiveStep ==
  ASSUME RowsTyped, [Next]_vars
  PROVE  \/ Active' \subseteq Active
         \/ /\ Cardinality(Active) < MaxActive
            /\ \E k : Active' \subseteq Active \cup {k}
<1> USE DEF RowsTyped, Active
<1>1. ASSUME NEW p \in Requests, LockStep(p) \/ \E kind \in Kinds : Start(p, kind)
      PROVE  session' = session
  BY <1>1 DEF LockStep, Calm, Start
<1>2. ASSUME NEW p \in Requests, ThreadStep(p), ~CreateCommit(p)
      PROVE  session' = session
  BY <1>2 DEF ThreadStep, CreateLook, TextCommit, UploadLook, UploadReserve,
       UploadIndex
<1>3. ASSUME NEW p \in Requests, CreateCommit(p)
      PROVE  \/ session' = session
             \/ /\ Cardinality(Active) < MaxActive
                /\ Active' \subseteq Active \cup {key[p]}
  BY <1>3 DEF CreateCommit, Admissible
<1>4. ASSUME NEW k \in Keys, SessionStep(k)
      PROVE  Active' \subseteq Active
  BY <1>4 DEF SessionStep, Becomes, Verify, Assemble, AssembleStops, Publish,
       PublishFails, Restart, Resume, Finalize, Withdraw, Cleanup, files
<1>5. ASSUME NEW w \in Writers, WriterStep(w) PROVE session' = session
  BY <1>5 DEF WriterStep, PutBegin, PutReceive, PutEnd, PutFail
<1>6. CASE UNCHANGED vars
  BY <1>6 DEF vars
<1> QED
  BY <1>1, <1>2, <1>3, <1>4, <1>5, <1>6 DEF Next

LEMMA CountInvariant == Spec => []CountInv
<1>1. Init => CountInv
  <2>1. Init => Active = {}
    BY DEF Init, Active
  <2> QED
    BY <2>1, FS_EmptySet DEF Init, CountInv, RowsTyped
<1>2. CountInv /\ [Next]_vars => CountInv'
  <2> SUFFICES ASSUME CountInv, [Next]_vars PROVE CountInv'
    OBVIOUS
  <2>1. RowsTyped'
    BY RowsStep DEF CountInv
  <2>2. CASE Active' \subseteq Active
    BY <2>1, <2>2, FS_Subset, FS_CardinalityType DEF CountInv
  <2>3. ASSUME Cardinality(Active) < MaxActive,
               NEW k, Active' \subseteq Active \cup {k}
        PROVE  CountInv'
    <3>0. IsFiniteSet(Active) /\ Cardinality(Active) \in Nat
      BY FS_CardinalityType DEF CountInv
    <3>1. /\ IsFiniteSet(Active \cup {k})
          /\ Cardinality(Active \cup {k}) <= MaxActive
      <4> HIDE DEF Active
      <4> QED
        BY <2>3, <3>0, FS_AddElement
    <3>2. IsFiniteSet(Active') /\ Cardinality(Active') <= Cardinality(Active \cup {k})
      BY <3>1, <2>3, FS_Subset
    <3>3. Cardinality(Active') \in Nat /\ Cardinality(Active \cup {k}) \in Nat
      BY <3>1, <3>2, FS_CardinalityType
    <3> QED
      BY <2>1, <3>1, <3>2, <3>3 DEF CountInv
  <2> QED
    BY <2>2, <2>3, ActiveStep DEF CountInv
<1> QED
  BY <1>1, <1>2, PTL DEF Spec

\* However creations, expiries and resumptions interleave, no more sessions
\* are active than are configured (create_or_get).
THEOREM ActiveIsBounded == Spec => []ActiveBounded
<1>1. CountInv => ActiveBounded
  <2> SUFFICES ASSUME CountInv PROVE ActiveBounded
    OBVIOUS
  <2>1. Active = {k \in Keys : session[k] \notin {"none", "complete", "withdrawn"}}
    BY DEF CountInv, RowsTyped, Active
  <2> QED
    BY <2>1 DEF CountInv, ActiveBounded
<1> QED
  BY <1>1, CountInvariant, PTL

----------------------------------------------------------------------------
\* Every step takes the locks as KeyedLocks does.
LEMMA StepKeepsLocks == [Next]_vars => [LocksNext]_locks
<1> SUFFICES ASSUME [Next]_vars PROVE [LocksNext]_locks
  OBVIOUS
<1>1. ASSUME NEW p \in Requests, LockStep(p) PROVE LocksNext
  BY <1>1 DEF LockStep, LocksNext
<1>2. ASSUME NEW p \in Requests, NEW kind \in Kinds, Start(p, kind) PROVE LocksNext
  BY <1>2 DEF Start, LocksNext
<1>3. ASSUME NEW p \in Requests, ThreadStep(p) PROVE ThreadEnds(p) \/ UNCHANGED locks
  BY <1>3 DEF ThreadStep, CreateLook, CreateCommit, TextCommit, UploadLook,
       UploadReserve, UploadIndex, End, GoOn
<1>4. ASSUME NEW k \in Keys, SessionStep(k) PROVE UNCHANGED locks
  BY <1>4 DEF SessionStep
<1>5. ASSUME NEW w \in Writers, WriterStep(w) PROVE UNCHANGED locks
  BY <1>5 DEF WriterStep
<1>6. CASE UNCHANGED vars
  BY <1>6 DEF vars
<1> QED
  BY <1>1, <1>2, <1>3, <1>4, <1>5, <1>6 DEF Next, LocksNext

\* The requests that create, send text and upload use the pool as it promises.
THEOREM AdmissionUsesLocks == Spec => LocksSpec
<1>1. Init => LocksInit
  BY DEF Init
<1> QED
  BY <1>1, StepKeepsLocks, PTL DEF Spec, LocksSpec

\* A reservation or a message is written only under an id without a session,
\* and a session only under an id with neither.
LEMMA StoreStep ==
  ASSUME AdmissionInv, MaxCancels <= 1, [Next]_vars
  PROVE  OneOperation' /\ IndexInv'
<1> USE DEF AdmissionInv, OneOperation, IndexInv, Running
<1>1. \A p, q \in Requests :
        thread[p] = "running" /\ thread[q] = "running" /\ key[p] = key[q] => p = q
  BY ExclusiveWhenInv DEF KeyExclusive, Inside
<1>2. ASSUME NEW p \in Requests, LockStep(p) \/ \E kind \in Kinds : Start(p, kind)
      PROVE  OneOperation' /\ IndexInv'
  <2>1. UNCHANGED <<session, ids>>
    BY <1>2 DEF LockStep, Calm, Start
  <2>2. ASSUME NEW q \in Requests, Running(q, "index")'
        PROVE  Running(q, "index") /\ key'[q] = key[q]
    <3>1. thread'[q] = "running" /\ job'[q] = "index"
      BY <2>2
    <3>2. ASSUME NEW kind \in Kinds, Start(p, kind)
          PROVE  thread[q] = "running" /\ job[q] = "index" /\ key'[q] = key[q]
      BY <3>1, <3>2 DEF Start, StartThread, Kinds, RowsTyped, LocksInv, LocksTypeOK
    <3>3. CASE LockStep(p)
      <4>1. job' = job
        BY <3>3 DEF LockStep, Calm
      <4>2. ASSUME NEW k \in Keys, Arrive(p, k)
            PROVE  thread[q] = "running" /\ key'[q] = key[q]
        BY <3>1, <4>2 DEF Arrive, Enter, LocksInv, LocksTypeOK
      <4>3. CASE Leave(p) \/ CancelOnce(p)
        BY <3>1, <4>1, <4>3 DEF Leave, CancelOnce, CancelWaiting, CancelRunning, Go,
             LocksInv, LocksTypeOK
      <4> QED
        BY <3>1, <3>3, <4>1, <4>2, <4>3 DEF LockStep
    <3> QED
      BY <1>2, <3>2, <3>3
  <2> QED
    BY <2>1, <2>2 DEF ids
<1>3. ASSUME NEW p \in Requests, ThreadStep(p)
      PROVE  OneOperation' /\ IndexInv'
  <2>1. /\ thread[p] = "running" /\ key[p] \in Keys /\ key' = key
        /\ \A q \in Requests : q # p => job'[q] = job[q] /\ thread'[q] = thread[q]
        /\ \A q \in Requests : thread'[q] = "running" => thread[q] = "running"
    <3>1. thread[p] = "running" /\ pc[p] # "gone"
      BY <1>3 DEF ThreadStep, CreateLook, CreateCommit, TextCommit, UploadLook,
           UploadReserve, UploadIndex, LocksInv, OnceInv
    <3>2. (End(p) \/ \E step \in {"admit", "reserve", "index"} : GoOn(p, step))
      BY <1>3 DEF ThreadStep, CreateLook, CreateCommit, TextCommit, UploadLook,
           UploadReserve, UploadIndex
    <3> QED
      BY <3>1, <3>2 DEF End, GoOn, ThreadEnds, locks, LocksInv, LocksTypeOK, EntryInv,
           RowsTyped
  <2>2. CASE CreateLook(p)
    BY <2>1, <2>2 DEF CreateLook, End, GoOn, ids, RowsTyped
  <2>3. CASE CreateCommit(p)
    BY <2>1, <2>3 DEF CreateCommit, Admissible, Claimed, End, RowsTyped, ids
  <2>4. CASE TextCommit(p)
    BY <2>1, <2>4 DEF TextCommit, End, RowsTyped
  <2>5. CASE UploadLook(p)
    BY <1>1, <2>1, <2>5 DEF UploadLook, End, GoOn, RowsTyped
  <2>6. CASE UploadReserve(p)
    BY <2>1, <2>6 DEF UploadReserve, Reservable, End, GoOn, RowsTyped
  <2>7. CASE UploadIndex(p)
    BY <1>1, <2>1, <2>7 DEF UploadIndex, End, RowsTyped
  <2> QED
    BY <1>3, <2>2, <2>3, <2>4, <2>5, <2>6, <2>7 DEF ThreadStep
<1>4. ASSUME NEW k \in Keys, SessionStep(k)
      PROVE  OneOperation' /\ IndexInv'
  <2>1. UNCHANGED <<locks, job, reserved>>
    BY <1>4 DEF SessionStep
  <2>2. IndexInv'
    BY <2>1 DEF locks
  <2>3. OneOperation'
    BY <1>4, <2>1 DEF SessionStep, Becomes, RowsTyped, Verify, Assemble,
         AssembleStops, Publish, PublishFails, Restart, Resume, Finalize,
         Withdraw, Cleanup
  <2> QED
    BY <2>2, <2>3
<1>5. ASSUME NEW w \in Writers, WriterStep(w) PROVE OneOperation' /\ IndexInv'
  BY <1>5 DEF WriterStep, PutBegin, PutReceive, PutEnd, PutFail, locks
<1>6. CASE UNCHANGED vars
  BY <1>6 DEF vars, ids, locks
<1> QED
  BY <1>2, <1>3, <1>4, <1>5, <1>6 DEF Next

\* As long as no request is cancelled twice, a client_request_id names one
\* operation only, for every number of requests, ids and sessions.
THEOREM IdsNameOneOperation ==
  ASSUME MaxCancels <= 1
  PROVE  Spec => []OneOperation
<1>1. Init => AdmissionInv
  <2>1. Init => LocksInv
    BY InitLocks DEF Init
  <2> QED
    BY <2>1 DEF Init, AdmissionInv, RowsTyped, OneOperation, IndexInv, Running
<1>2. AdmissionInv /\ [Next]_vars => AdmissionInv'
  BY RowsStep, StepKeepsLocks, LocksStep, StoreStep DEF AdmissionInv
<1>3. AdmissionInv => OneOperation
  BY DEF AdmissionInv
<1> QED
  BY <1>1, <1>2, <1>3, PTL DEF Spec

----------------------------------------------------------------------------
\* Threads that run have an id, ids that are reserved are ids.
WorkInv ==
  /\ \A p \in Requests : thread[p] = "running" => key[p] \in Keys
  /\ reserved \subseteq Keys
  /\ seen \in [Requests -> {n \in Int : n <= Disk}] /\ late \in Nat

\* Chunk requests and assemblies are those of sessions that were created.
TasksInv ==
  /\ put \in [Writers -> [pc : {"leased", "received"}, key : Keys] \cup {Idle}]
  /\ \A w \in Writers : put[w] # Idle => session[put[w].key] # "none"
  /\ assembly \in [Keys -> {"none", "open", "done"}]
  /\ \A k \in Keys : assembly[k] # "none" => session[k] \in {"verifying", "withdrawn"}

\* What a status says about the files.
HasFiles(k) ==
  /\ k \in Active /\ k \in confirmed => k \in stored
  /\ session[k] \in {"verifying", "assembled"} => k \in confirmed
  /\ session[k] = "verifying" /\ assembly[k] = "done" => k \in copied
  /\ session[k] = "assembled" => k \in copied
  /\ session[k] = "none" => k \notin stored \cup confirmed \cup copied
FilesInv ==
  /\ stored \cup confirmed \cup copied \subseteq Keys
  /\ IsFiniteSet(stored) /\ IsFiniteSet(copied) /\ IsFiniteSet(Received)
  /\ \A k \in Keys : HasFiles(k)

\* The copies that stay: the files of complete sessions.
Finished == copied \ (Active \cup Withdrawn)

\* SpaceKept, told of whole sessions: a part and a copy of each active one and
\* the file of each complete one have room.
Fits == 2 * Cardinality(Active) + Cardinality(Finished) <= Disk + late

SpaceInv == WorkInv /\ TasksInv /\ FilesInv /\ Fits

\* The sets that are counted are finite.
LEMMA Counted ==
  ASSUME CountInv, FilesInv
  PROVE  /\ IsFiniteSet(Active) /\ Cardinality(Active) \in Nat
         /\ IsFiniteSet(stored) /\ Cardinality(stored) \in Nat
         /\ IsFiniteSet(copied) /\ Cardinality(copied) \in Nat
         /\ IsFiniteSet(Finished) /\ Cardinality(Finished) \in Nat
         /\ Cardinality(Received) \in Nat
<1>1. IsFiniteSet(Active) /\ IsFiniteSet(stored) /\ IsFiniteSet(copied)
      /\ IsFiniteSet(Received)
  BY DEF CountInv, FilesInv
<1>2. IsFiniteSet(Finished)
  BY <1>1, FS_Difference DEF Finished
<1> QED
  BY <1>1, <1>2, FS_CardinalityType

\* The free space that a creation reads.
LEMMA FreeIsBounded ==
  ASSUME CountInv, FilesInv
  PROVE  Free \in Int /\ Free <= Disk
BY Counted DEF Free

LEMMA CountedOutside ==
  ASSUME NEW S, NEW T, IsFiniteSet(S)
  PROVE  /\ Cardinality(S \ T) = Cardinality(S) - Cardinality(T \cap S)
         /\ IsFiniteSet(S \ T)
<1>1. S \cap T = T \cap S
  OBVIOUS
<1> QED
  BY <1>1, FS_Difference

\* What is still to be written and what there is room for, told of sessions.
LEMMA StillToWrite ==
  ASSUME CountInv, FilesInv
  PROVE  /\ Cardinality(Active \ stored) \in Nat /\ Cardinality(Active \ copied) \in Nat
         /\ Free \in Int /\ Temporary \in Int
         /\ Cardinality(Active \ stored) + Cardinality(Active \ copied)
              = 2 * Cardinality(Active) + Cardinality(Finished) - Disk + (Free + Temporary)
<1> DEFINE n(S) == Cardinality(S)
<1>1. IsFiniteSet(Active) /\ IsFiniteSet(stored) /\ IsFiniteSet(copied)
  BY Counted
<1>2. /\ IsFiniteSet(Active \cap stored) /\ IsFiniteSet(Active \cap copied)
      /\ n(Active \ stored) = n(Active) - n(Active \cap stored)
      /\ n(Active \ copied) = n(Active) - n(Active \cap copied)
  BY <1>1, FS_Difference, FS_Intersection
<1>3. n(stored \ Active) = n(stored) - n(Active \cap stored)
  BY <1>1, CountedOutside
<1>4. n(copied \ Active) = n(copied) - n(Active \cap copied) /\ IsFiniteSet(copied \ Active)
  BY <1>1, CountedOutside
<1>5. n(Finished) = n(copied \ Active) - n(copied \cap Withdrawn)
  <2>1. Active \cap Withdrawn = {}
    BY DEF Active, Withdrawn
  <2>2. /\ Finished = (copied \ Active) \ Withdrawn
        /\ (copied \ Active) \cap Withdrawn = copied \cap Withdrawn
    BY <2>1 DEF Finished
  <2> QED
    BY <1>4, <2>2, FS_Difference
<1>6. /\ n(Active) \in Nat /\ n(stored) \in Nat /\ n(copied) \in Nat
      /\ n(Active \cap stored) \in Nat /\ n(Active \cap copied) \in Nat
      /\ n(copied \cap Withdrawn) \in Nat /\ n(Received) \in Nat /\ Disk \in Nat
      /\ n(Active \ stored) \in Nat /\ n(Active \ copied) \in Nat
      /\ n(stored \ Active) \in Nat
  <2>1. /\ IsFiniteSet(copied \cap Withdrawn) /\ IsFiniteSet(Active \ stored)
        /\ IsFiniteSet(Active \ copied) /\ IsFiniteSet(stored \ Active)
    BY <1>1, FS_Intersection, FS_Difference
  <2> QED
    BY <1>1, <1>2, <2>1, Counted, FS_CardinalityType
<1>7. /\ Free = Disk - n(stored) - n(copied) - n(Received)
      /\ Temporary = n(Received) + n(stored \ Active) + n(copied \cap Withdrawn)
  BY DEF Free, Temporary
<1> HIDE DEF n
<1>8. Free \in Int /\ Temporary \in Int
  BY <1>6, <1>7
<1>9. n(Active \ stored) + n(Active \ copied)
        = 2 * n(Active) + n(Finished) - Disk + (Free + Temporary)
  BY <1>2, <1>3, <1>4, <1>5, <1>6, <1>7
<1> QED
  BY <1>6, <1>8, <1>9 DEF n

LEMMA SpaceKeptIsFits ==
  ASSUME CountInv, FilesInv, WorkInv
  PROVE  SpaceKept <=> Fits
<1> DEFINE need == Cardinality(Active \ stored) + Cardinality(Active \ copied)
           whole == 2 * Cardinality(Active) + Cardinality(Finished)
           room == Free + Temporary
<1>1. /\ need \in Int /\ whole \in Int /\ room \in Int /\ need = whole - Disk + room
      /\ late \in Nat /\ Disk \in Nat
  BY StillToWrite, Counted DEF WorkInv
<1>2. (SpaceKept <=> need <= room + late) /\ (Fits <=> whole <= Disk + late)
  BY DEF SpaceKept, Fits
<1> HIDE DEF need, whole, room
<1> QED
  BY <1>1, <1>2

LEMMA LaterOf ==
  ASSUME NEW a \in Int, NEW b \in Int
  PROVE  Max({a, b}) \in Int /\ a <= Max({a, b}) /\ b <= Max({a, b})
<1>1. \E x \in {a, b} : \A y \in {a, b} : x >= y
  BY a <= b \/ b <= a
<1>2. Max({a, b}) \in {a, b} /\ \A y \in {a, b} : Max({a, b}) >= y
  BY <1>1 DEF Max
<1> QED
  BY <1>2

\* The sum of create_or_get is at least what the sessions have to write.
LEMMA CommittedIsEnough ==
  ASSUME CountInv, FilesInv
  PROVE  /\ Committed \in Int
         /\ Cardinality(Active \ stored) + Cardinality(Active \ copied) <= Committed
<1> DEFINE open == Unassembled
<1>1. open \subseteq Active /\ Active \subseteq Keys
  BY DEF Unassembled, Active
<1>2. /\ Active \ stored \subseteq open \ confirmed
      /\ Active \ copied \subseteq open
  BY <1>1 DEF FilesInv, HasFiles, Unassembled
<1> HIDE DEF open
<1>3. IsFiniteSet(open) /\ IsFiniteSet(open \ confirmed) /\ IsFiniteSet(open \cap confirmed)
  BY <1>1, Counted, FS_Subset, FS_Difference, FS_Intersection
<1>4. /\ Cardinality(open) \in Nat /\ Cardinality(open \cap confirmed) \in Nat
      /\ Cardinality(open \ confirmed) = Cardinality(open) - Cardinality(open \cap confirmed)
  BY <1>3, FS_Difference, FS_CardinalityType
<1>5. /\ Cardinality(Active \ stored) <= Cardinality(open \ confirmed)
      /\ Cardinality(Active \ copied) <= Cardinality(open)
  BY <1>2, <1>3, FS_Subset
<1>6. Committed = 2 * Cardinality(open) - Cardinality(open \cap confirmed)
  BY DEF Committed, open
<1> QED
  BY <1>4, <1>5, <1>6, StillToWrite

\* Ids and threads: an id is taken on with the lock, and never taken away
\* from a thread.
LEMMA WorkStep == LocksInv /\ CountInv /\ FilesInv /\ WorkInv /\ [Next]_vars => WorkInv'
<1> SUFFICES ASSUME LocksInv, CountInv, FilesInv, WorkInv, [Next]_vars PROVE WorkInv'
  OBVIOUS
<1> USE DEF WorkInv
<1>1. ASSUME NEW p \in Requests, LockStep(p) PROVE WorkInv'
  <2>1. UNCHANGED <<reserved, seen, late>>
    BY <1>1 DEF LockStep, Calm, ids
  <2>2. ASSUME NEW k \in Keys, Arrive(p, k) PROVE WorkInv'
    BY <2>1, <2>2 DEF Arrive, Enter, LocksInv, LocksTypeOK
  <2>3. CASE Leave(p) \/ CancelOnce(p)
    BY <2>1, <2>3 DEF Leave, CancelOnce, CancelWaiting, CancelRunning, Go,
       LocksInv, LocksTypeOK
  <2> QED
    BY <1>1, <2>2, <2>3 DEF LockStep
<1>2. ASSUME NEW p \in Requests, NEW kind \in Kinds, Start(p, kind) PROVE WorkInv'
  <2>1. UNCHANGED <<reserved, seen, late>>
    BY <1>2 DEF Start, ids
  <2>2. key[p] \in Keys
    BY <1>2 DEF Start, StartThread, LocksInv, EntryInv
  <2> QED
    BY <1>2, <2>1, <2>2 DEF Start, StartThread, LocksInv, LocksTypeOK
<1>3. ASSUME NEW p \in Requests, ThreadStep(p) PROVE WorkInv'
  <2>1. thread[p] = "running" /\ key[p] \in Keys
    BY <1>3 DEF ThreadStep, CreateLook, CreateCommit, TextCommit, UploadLook,
         UploadReserve, UploadIndex, Running
  <2>2. End(p) \/ UNCHANGED locks
    BY <1>3 DEF ThreadStep, CreateLook, CreateCommit, TextCommit, UploadLook,
         UploadReserve, UploadIndex, GoOn
  <2>3. \A q \in Requests : thread'[q] = "running" => key'[q] \in Keys
    BY <2>2 DEF End, ThreadEnds, locks, LocksInv, LocksTypeOK
  <2>4. reserved' \subseteq Keys
    BY <1>3, <2>1 DEF ThreadStep, CreateLook, CreateCommit, TextCommit, UploadLook,
         UploadReserve, UploadIndex, ids
  <2>5. seen' \in [Requests -> {n \in Int : n <= Disk}] /\ late' \in Nat
    <3>1. CASE CreateLook(p)
      BY <3>1, FreeIsBounded DEF CreateLook
    <3>2. CASE CreateCommit(p)
      <4> DEFINE gap == seen[p] - (Free + Temporary)
      <4>1. seen' = [seen EXCEPT ![p] = 0] /\ (late' = late \/ late' = Max({late, gap}))
        BY <3>2 DEF CreateCommit
      <4>2. gap \in Int /\ late \in Int /\ late \in Nat
        BY StillToWrite
      <4> HIDE DEF gap
      <4>3. Max({late, gap}) \in Nat
        BY <4>2, LaterOf
      <4> QED
        BY <4>1, <4>3
    <3>3. CASE TextCommit(p) \/ UploadLook(p) \/ UploadReserve(p) \/ UploadIndex(p)
      BY <3>3 DEF TextCommit, UploadLook, UploadReserve, UploadIndex
    <3> QED
      BY <1>3, <3>1, <3>2, <3>3 DEF ThreadStep
  <2> QED
    BY <2>3, <2>4, <2>5
<1>4. ASSUME NEW k \in Keys, SessionStep(k) PROVE WorkInv'
  BY <1>4 DEF SessionStep, locks
<1>5. ASSUME NEW w \in Writers, WriterStep(w) PROVE WorkInv'
  BY <1>5 DEF WriterStep, locks
<1>6. CASE UNCHANGED vars
  BY <1>6 DEF vars, ids, locks
<1> QED
  BY <1>1, <1>2, <1>3, <1>4, <1>5, <1>6 DEF Next

\* A request changes no file, and a session's row only by creating it.
LEMMA RequestTouchesNoFile ==
  ASSUME NEW p \in Requests,
         LockStep(p) \/ (\E kind \in Kinds : Start(p, kind)) \/ ThreadStep(p)
  PROVE  /\ UNCHANGED files
         /\ \/ UNCHANGED session
            \/ /\ session[key[p]] = "none"
               /\ session' = [session EXCEPT ![key[p]] = "uploading"]
<1>1. CASE LockStep(p) \/ \E kind \in Kinds : Start(p, kind)
  BY <1>1 DEF LockStep, Calm, Start
<1>2. CASE ThreadStep(p)
  BY <1>2 DEF ThreadStep, CreateLook, CreateCommit, Admissible, TextCommit,
       UploadLook, UploadReserve, UploadIndex
<1> QED
  BY <1>1, <1>2

\* A chunk request outlives its session's status, not its row; an assembly is
\* only ever overtaken by the end of its session.
LEMMA TasksStep == RowsTyped /\ TasksInv /\ [Next]_vars => TasksInv'
<1> SUFFICES ASSUME RowsTyped, TasksInv, [Next]_vars PROVE TasksInv'
  OBVIOUS
<1> USE DEF RowsTyped, TasksInv
<1>1. ASSUME NEW p \in Requests,
             LockStep(p) \/ (\E kind \in Kinds : Start(p, kind)) \/ ThreadStep(p)
      PROVE  TasksInv'
  BY <1>1, RequestTouchesNoFile DEF files, Idle
<1>2. ASSUME NEW w \in Writers, WriterStep(w) PROVE TasksInv'
  BY <1>2 DEF WriterStep, PutBegin, PutReceive, PutEnd, PutFail, Step, Idle
<1>3. ASSUME NEW k \in Keys, SessionStep(k) PROVE TasksInv'
  <2>1. UNCHANGED put /\ \A j \in Keys : session[j] # "none" => session'[j] # "none"
    BY <1>3 DEF SessionStep, Becomes, Verify, Assemble, AssembleStops, Publish,
         PublishFails, Restart, Resume, Finalize, Withdraw, Cleanup, files
  <2>2. assembly' \in [Keys -> {"none", "open", "done"}]
    BY <1>3 DEF SessionStep, Assembly, Verify, Assemble, AssembleStops, Publish,
         PublishFails, Restart, Resume, Finalize, Withdraw, Cleanup, files
  <2>3. ASSUME NEW j \in Keys, assembly'[j] # "none"
        PROVE  session'[j] \in {"verifying", "withdrawn"}
    BY <1>3, <2>3 DEF SessionStep, Becomes, Assembly, Verify, Assemble,
         AssembleStops, Publish, PublishFails, Restart, Resume, Finalize,
         Withdraw, Cleanup, files
  <2> QED
    BY <2>1, <2>2, <2>3 DEF Idle
<1>4. CASE UNCHANGED vars
  BY <1>4 DEF vars, files
<1> QED
  BY <1>1, <1>2, <1>3, <1>4 DEF Next

\* An active session that has confirmed its part keeps it; only what has ended
\* loses files without its row.
LEMMA FilesStep == RowsTyped /\ TasksInv /\ FilesInv /\ [Next]_vars => FilesInv'
<1> SUFFICES ASSUME RowsTyped, TasksInv, FilesInv, [Next]_vars PROVE FilesInv'
  OBVIOUS
<1> USE DEF FilesInv, HasFiles, Active, Withdrawn, RowsTyped
<1>1. ASSUME NEW p \in Requests,
             LockStep(p) \/ (\E kind \in Kinds : Start(p, kind)) \/ ThreadStep(p)
      PROVE  FilesInv'
  BY <1>1, RequestTouchesNoFile DEF files, Received
<1>2. ASSUME NEW w \in Writers, WriterStep(w) PROVE FilesInv'
  <2>1. /\ IsFiniteSet(Received \cup {w})
        /\ \A k : IsFiniteSet(stored \cup {k}) /\ IsFiniteSet(stored \ {k})
    BY FS_AddElement, FS_RemoveElement
  <2>2. Received' \subseteq Received \cup {w}
    BY <1>2 DEF WriterStep, PutBegin, PutReceive, PutEnd, PutFail, Step, Received,
         TasksInv, Idle
  <2>3. IsFiniteSet(Received')
    BY <2>1, <2>2, FS_Subset
  <2>4. CASE PutEnd(w)
    <3>1. put[w].key \in Keys /\ session[put[w].key] # "none"
      BY <2>4 DEF PutEnd, TasksInv, Idle
    <3>2. /\ stored' \in {stored \ {put[w].key}, stored \cup {put[w].key}}
          /\ confirmed' \in {confirmed, confirmed \cup {put[w].key}}
          /\ UNCHANGED <<session, copied>>
      BY <2>4 DEF PutEnd
    <3>3. ASSUME NEW j \in Keys PROVE HasFiles(j)'
      BY <2>4, <3>1, <3>2 DEF PutEnd
    <3>4. stored' \cup confirmed' \cup copied' \subseteq Keys
      BY <3>1, <3>2
    <3>5. IsFiniteSet(stored') /\ IsFiniteSet(copied')
      <4>1. CASE stored' = stored \ {put[w].key}
        BY <2>1, <3>2, <4>1
      <4>2. CASE stored' = stored \cup {put[w].key}
        BY <2>1, <3>2, <4>2
      <4> QED
        BY <3>2, <4>1, <4>2
    <3> QED
      BY <2>3, <3>3, <3>4, <3>5
  <2>5. CASE ~PutEnd(w)
    BY <1>2, <2>3, <2>5 DEF WriterStep, PutBegin, PutReceive, PutFail
  <2> QED
    BY <2>4, <2>5
<1>3. ASSUME NEW k \in Keys, SessionStep(k) PROVE FilesInv'
  <2>1. /\ IsFiniteSet(copied \cup {k}) /\ IsFiniteSet(copied \ {k})
        /\ IsFiniteSet(stored \ {k})
    BY FS_AddElement, FS_RemoveElement
  <2>2. /\ copied' \in {copied, copied \cup {k}, copied \ {k}}
        /\ stored' \in {stored, stored \ {k}} /\ confirmed' \in {confirmed, confirmed \ {k}}
        /\ put' = put
    BY <1>3 DEF SessionStep, Verify, Assemble, AssembleStops, Publish,
         PublishFails, Restart, Resume, Finalize, Withdraw, Cleanup, files
  <2>3. ASSUME NEW j \in Keys PROVE HasFiles(j)'
    <3> USE DEF Becomes, Assembly, TasksInv, files
    <3>1. CASE Verify(k)         BY <3>1 DEF Verify
    <3>2. CASE Assemble(k)       BY <3>2 DEF Assemble
    <3>3. CASE AssembleStops(k)  BY <3>3 DEF AssembleStops
    <3>4. CASE Publish(k)        BY <3>4 DEF Publish
    <3>5. CASE PublishFails(k)   BY <3>5 DEF PublishFails
    <3>6. CASE Restart(k)        BY <3>6 DEF Restart
    <3>7. CASE Resume(k)         BY <3>7 DEF Resume
    <3>8. CASE Finalize(k)       BY <3>8 DEF Finalize
    <3>9. CASE Withdraw(k)       BY <3>9 DEF Withdraw
    <3>10. CASE Cleanup(k)       BY <3>10 DEF Cleanup
    <3> QED
      BY <1>3, <3>1, <3>2, <3>3, <3>4, <3>5, <3>6, <3>7, <3>8, <3>9, <3>10
         DEF SessionStep
  <2> QED
    BY <2>1, <2>2, <2>3 DEF Received
<1>4. CASE UNCHANGED vars
  BY <1>4 DEF vars, files, Received
<1> QED
  BY <1>1, <1>2, <1>3, <1>4 DEF Next

\* A step after the admission keeps the active sessions and the finished files,
\* ends a session, or turns a session into a finished file.
LEMMA SessionsOnlyEnd ==
  ASSUME RowsTyped, TasksInv, FilesInv, NEW k \in Keys, SessionStep(k)
  PROVE  \/ Active' \subseteq Active /\ Finished' \subseteq Finished
         \/ /\ k \in Active /\ Active' = Active \ {k}
            /\ Finished' \subseteq Finished \cup {k}
<1> USE DEF RowsTyped, TasksInv, FilesInv, HasFiles, Active, Withdrawn, Finished,
     Becomes, Assembly, files
<1>1. CASE Verify(k)         BY <1>1 DEF Verify
<1>2. CASE Assemble(k)       BY <1>2 DEF Assemble
<1>3. CASE AssembleStops(k)  BY <1>3 DEF AssembleStops
<1>4. CASE Publish(k)        BY <1>4 DEF Publish
<1>5. CASE PublishFails(k)   BY <1>5 DEF PublishFails
<1>6. CASE Restart(k)        BY <1>6 DEF Restart
<1>7. CASE Resume(k)         BY <1>7 DEF Resume
<1>8. CASE Finalize(k)       BY <1>8 DEF Finalize
<1>9. CASE Withdraw(k)       BY <1>9 DEF Withdraw
<1>10. CASE Cleanup(k)       BY <1>10 DEF Cleanup
<1> QED
  BY <1>1, <1>2, <1>3, <1>4, <1>5, <1>6, <1>7, <1>8, <1>9, <1>10 DEF SessionStep

\* A session gives back the room of a part and a copy, and takes that of a file.
LEMMA SessionKeepsSpace ==
  ASSUME CountInv, TasksInv, FilesInv, WorkInv, Fits, NEW k \in Keys, SessionStep(k)
  PROVE  Fits'
<1> DEFINE n(S) == Cardinality(S)
<1>1. /\ IsFiniteSet(Active) /\ IsFiniteSet(Finished)
      /\ n(Active) \in Nat /\ n(Finished) \in Nat /\ late \in Nat /\ Disk \in Nat
  BY Counted DEF WorkInv
<1>2. late' = late /\ 2 * n(Active) + n(Finished) <= Disk + late
  BY DEF SessionStep, Fits
<1>3. SUFFICES /\ n(Active') \in Nat /\ n(Finished') \in Nat
               /\ 2 * n(Active') + n(Finished') <= 2 * n(Active) + n(Finished)
  <2>1. Fits' <=> 2 * n(Active') + n(Finished') <= Disk + late
    BY <1>2 DEF Fits
  <2> HIDE DEF n
  <2> QED
    BY <1>1, <1>2, <2>1
<1>4. CASE Active' \subseteq Active /\ Finished' \subseteq Finished
  <2>1. /\ n(Active') \in Nat /\ n(Active') <= n(Active)
        /\ n(Finished') \in Nat /\ n(Finished') <= n(Finished)
    BY <1>1, <1>4, FS_Subset, FS_CardinalityType
  <2> HIDE DEF n
  <2> QED
    BY <1>1, <2>1
<1>5. CASE /\ k \in Active /\ Active' = Active \ {k}
           /\ Finished' \subseteq Finished \cup {k}
  <2>1. n(Active') = n(Active) - 1 /\ n(Active') \in Nat
    BY <1>1, <1>5, FS_RemoveElement, FS_CardinalityType
  <2>2. IsFiniteSet(Finished \cup {k}) /\ n(Finished \cup {k}) <= n(Finished) + 1
        /\ n(Finished \cup {k}) \in Nat
    <3>1. /\ IsFiniteSet(Finished \cup {k})
          /\ n(Finished \cup {k}) = IF k \in Finished THEN n(Finished) ELSE n(Finished) + 1
      BY <1>1, FS_AddElement
    <3>2. n(Finished \cup {k}) \in Nat
      BY <3>1, FS_CardinalityType
    <3> HIDE DEF n
    <3> QED
      BY <1>1, <3>1, <3>2
  <2>3. n(Finished') \in Nat /\ n(Finished') <= n(Finished \cup {k})
    BY <1>5, <2>2, FS_Subset, FS_CardinalityType
  <2> HIDE DEF n
  <2> QED
    BY <1>1, <2>1, <2>2, <2>3
<1> QED
  BY <1>4, <1>5, SessionsOnlyEnd DEF CountInv

\* A creation counts what others have to write, and remembers what they have
\* written since it looked.
LEMMA CreationKeepsSpace ==
  ASSUME CountInv, FilesInv, WorkInv, Fits,
         NEW p \in Requests, CreateCommit(p)
  PROVE  Fits'
<1> DEFINE need  == Cardinality(Active \ stored) + Cardinality(Active \ copied)
           whole == 2 * Cardinality(Active) + Cardinality(Finished)
           room  == Free + Temporary
<1>1. CASE UNCHANGED <<session, late>>
  BY <1>1 DEF Fits, Active, Finished, Withdrawn, CreateCommit, files
<1>2. CASE /\ Admissible(p)
           /\ session' = [session EXCEPT ![key[p]] = "uploading"]
           /\ late' = Max({late, seen[p] - (Free + Temporary)})
  <2>1. key[p] \in Keys /\ session[key[p]] = "none" /\ copied' = copied
    BY <1>2 DEF Admissible, CreateCommit, Running, WorkInv, files
  <2>2. /\ key[p] \notin Active /\ Active' = Active \cup {key[p]}
        /\ Finished' = Finished
    <3>1. key[p] \notin copied
      BY <2>1 DEF FilesInv, HasFiles
    <3>2. key[p] \notin Active /\ Active' = Active \cup {key[p]}
      BY <1>2, <2>1 DEF CountInv, RowsTyped, Active
    <3>3. Withdrawn' = Withdrawn
      BY <1>2, <2>1 DEF CountInv, RowsTyped, Withdrawn
    <3> HIDE DEF Active, Withdrawn
    <3> QED
      BY <2>1, <3>1, <3>2, <3>3 DEF Finished
  <2>3. Cardinality(Active') = Cardinality(Active) + 1
    <3> HIDE DEF Active
    <3> QED
      BY <2>2, Counted, FS_AddElement
  <2>4. Fits' <=> 2 * (Cardinality(Active) + 1) + Cardinality(Finished) <= Disk + late'
    BY <2>2, <2>3 DEF Fits
  <2>5. /\ Cardinality(Active) \in Nat /\ Cardinality(Finished) \in Nat
        /\ need \in Int /\ room \in Int /\ need = whole - Disk + room
        /\ seen[p] \in Int /\ late \in Int /\ Disk \in Int
    BY StillToWrite, Counted DEF WorkInv
  <2>6. Committed + 2 <= seen[p] /\ Committed \in Int /\ need <= Committed
    BY <1>2, CommittedIsEnough DEF Admissible
  <2>7. late' \in Int /\ seen[p] - room <= late'
    <3> DEFINE gap == seen[p] - room
    <3>1. gap \in Int /\ late \in Int /\ late' = Max({late, gap})
      BY <1>2, <2>5
    <3> HIDE DEF gap, room
    <3>2. late' \in Int /\ gap <= late'
      BY <3>1, LaterOf
    <3> QED
      BY <3>2 DEF gap
  <2> HIDE DEF need, room
  <2> QED
    BY <2>4, <2>5, <2>6, <2>7
<1> QED
  BY <1>1, <1>2 DEF CreateCommit

LEMMA SpaceStep ==
  CountInv /\ TasksInv /\ FilesInv /\ WorkInv /\ Fits /\ [Next]_vars => Fits'
<1> SUFFICES ASSUME CountInv, TasksInv, FilesInv, WorkInv, Fits, [Next]_vars
             PROVE  Fits'
  OBVIOUS
<1>1. ASSUME UNCHANGED <<session, copied, late>> PROVE Fits'
  BY <1>1 DEF Fits, Active, Finished, Withdrawn
<1>2. ASSUME NEW p \in Requests, LockStep(p) \/ \E kind \in Kinds : Start(p, kind)
      PROVE  Fits'
  BY <1>1, <1>2 DEF LockStep, Calm, Start, files
<1>3. ASSUME NEW p \in Requests, ThreadStep(p), ~CreateCommit(p) PROVE Fits'
  BY <1>1, <1>3 DEF ThreadStep, CreateLook, TextCommit, UploadLook, UploadReserve,
       UploadIndex, files
<1>4. ASSUME NEW w \in Writers, WriterStep(w) PROVE Fits'
  BY <1>1, <1>4 DEF WriterStep, PutBegin, PutReceive, PutEnd, PutFail
<1>5. CASE UNCHANGED vars
  BY <1>1, <1>5 DEF vars, files
<1> QED
  BY <1>2, <1>3, <1>4, <1>5, SessionKeepsSpace, CreationKeepsSpace DEF Next

LEMMA SpaceInvariant == Spec => [](LocksInv /\ CountInv /\ SpaceInv)
<1>1. Init => LocksInv /\ SpaceInv
  <2> SUFFICES ASSUME Init PROVE LocksInv /\ SpaceInv
    OBVIOUS
  <2>1. LocksInv
    BY InitLocks DEF Init
  <2>2. WorkInv /\ TasksInv
    BY DEF Init, LocksInit, WorkInv, TasksInv
  <2>3. /\ Active = {} /\ Finished = {} /\ Received = {}
        /\ stored = {} /\ copied = {} /\ confirmed = {} /\ late = 0
    BY DEF Init, Active, Finished, Received, Idle
  <2>4. FilesInv
    BY <2>3, FS_EmptySet DEF Init, FilesInv, HasFiles
  <2>5. Fits
    BY <2>3, FS_EmptySet DEF Fits
  <2> QED
    BY <2>1, <2>2, <2>4, <2>5 DEF SpaceInv
<1>2. LocksInv /\ CountInv /\ SpaceInv /\ [Next]_vars => LocksInv' /\ SpaceInv'
  BY StepKeepsLocks, LocksStep, WorkStep, TasksStep, FilesStep, SpaceStep
     DEF SpaceInv, CountInv
<1> QED
  BY <1>1, <1>2, CountInvariant, PTL DEF Spec

\* Rows, files, threads, chunk requests and assemblies have their types, and an
\* assembly is only overtaken by the end of its session, for any number of
\* requests, ids, sessions and cancellations, however full the disk is.
THEOREM AdmissionTypeCorrect == Spec => []TypeOK
<1>1. LocksInv /\ CountInv /\ SpaceInv => TypeOK
  BY DEF LocksInv, CountInv, SpaceInv, RowsTyped, WorkInv, TasksInv, FilesInv, TypeOK
<1> QED
  BY <1>1, SpaceInvariant, PTL

\* What the admitted sessions still have to write fits on the disk once what is
\* on its way out is gone, also when chunk requests and assemblies go on after
\* their session has ended; but for what others have written while a creation
\* was between its look at the free space and its transaction
\* (UploadService.create), for every number of sessions, chunk requests and
\* size of the disk.
THEOREM AdmittedFits == Spec => []SpaceKept
<1>1. CountInv /\ SpaceInv => SpaceKept
  BY SpaceKeptIsFits DEF SpaceInv
<1> QED
  BY <1>1, SpaceInvariant, PTL
=============================================================================
