------------------------ MODULE UploadPromiseProofs -------------------------
(***************************************************************************)
(* ResumableUpload implements UploadPromise: every step is a step of the   *)
(* promise or changes nothing it speaks of, for any number of chunks,      *)
(* requests, crashes, faults and lost files.                               *)
(***************************************************************************)
EXTENDS ResumableUploadProofs

\* A new session is an open promise.
LEMMA InitPromise == Init => Promise!Init
BY DEF Init, Promise!Init, Active

\* Confirming a chunk is Confirm, everything else about it is internal.
LEMMA ChunkPromise ==
  ASSUME IInv, NEW w \in Writers, WriterStep(w)
  PROVE  [Promise!Next]_(Promise!vars)
<1> USE ValuesAssumption, ActorsAssumption, BoundsAssumption
    DEF IInv, TypeOK, RowsTyped, FilesTyped, TasksTyped, Puts, Steps, Statuses,
     PartFiles, Whole, Active, Terminal, Durable, Actors, Locked, Request, Rest,
     HasWriters, OneCompletion, MaintAlone, DownIdle, Assembling, AssemblyInv,
     StillAssembling, Publishing, PublicationInv, DigestInv, PublishedWhole,
     CompleteInv, MaintNoWriters, Linked, IntactInv, ConfirmedOnDisk,
     WriterUndisturbed, ExpiredQuiet,
     Promise!Next, Promise!vars, Promise!Confirm, Promise!Forget,
     Promise!Publish, Promise!Close, Promise!Lose
<1>1. CASE PutOpen(w)
  BY <1>1 DEF PutOpen, db
<1>2. CASE PutFail(w)
  BY <1>2 DEF PutFail, db
<1>3. CASE PutLink(w)
  BY <1>3 DEF PutLink, db
<1>4. CASE PutConfirm(w)
  BY <1>4 DEF PutConfirm, Acknowledge, NoFault, Confirms, Discards, Withdrawn, Fault, Spend
<1>5. CASE PutLeave(w)
  BY <1>5 DEF PutLeave, db, NoFault, KeepTree, RemoveTree, Fault, Spend,
      ClearTree, LastWriter
<1> QED
  BY <1>1, <1>2, <1>3, <1>4, <1>5 DEF WriterStep

\* Cancelling is Close, the other requests change nothing a client was promised.
LEMMA RequestPromise ==
  ASSUME IInv, ClientRequest
  PROVE  [Promise!Next]_(Promise!vars)
<1> USE ValuesAssumption, ActorsAssumption, BoundsAssumption
    DEF IInv, TypeOK, RowsTyped, FilesTyped, TasksTyped, Puts, Steps, Statuses,
     PartFiles, Whole, Active, Terminal, Durable, Actors, Locked, Request, Rest,
     HasWriters, OneCompletion, MaintAlone, DownIdle, Assembling, AssemblyInv,
     StillAssembling, Publishing, PublicationInv, DigestInv, PublishedWhole,
     CompleteInv, MaintNoWriters, Linked, IntactInv, ConfirmedOnDisk,
     WriterUndisturbed, ExpiredQuiet,
     Promise!Next, Promise!vars, Promise!Confirm, Promise!Forget,
     Promise!Publish, Promise!Close, Promise!Lose
<1>1. CASE \E w \in Writers, p \in Parts, x \in Content : PutBegin(w, p, x)
  BY <1>1 DEF PutBegin, disk, db, LockFree
<1>2. CASE Pause
  BY <1>2 DEF Pause, Control, tasks, disk
<1>3. CASE Resume
  BY <1>3 DEF Resume, Control, tasks, disk
<1>4. CASE Cancel
  BY <1>4 DEF Cancel, tasks, CancelClears, Withdraw, KeepTree, ClearTree,
      Fault, Spend, NoFault, RemoveTree, Cancellable, LockFree
<1>5. CASE \E c \in Completers : CompleteEnter(c)
  BY <1>5 DEF CompleteEnter, disk, db, Advance, Goto, Completing
<1> QED
  BY <1>1, <1>2, <1>3, <1>4, <1>5 DEF ClientRequest

\* A damaged chunk found by an assembly is Forget.
LEMMA CompletionPromise ==
  ASSUME IInv, NEW c \in Completers, CompletionStep(c)
  PROVE  [Promise!Next]_(Promise!vars)
<1> USE ValuesAssumption, ActorsAssumption, BoundsAssumption
    DEF IInv, TypeOK, RowsTyped, FilesTyped, TasksTyped, Puts, Steps, Statuses,
     PartFiles, Whole, Active, Terminal, Durable, Actors, Locked, Request, Rest,
     HasWriters, OneCompletion, MaintAlone, DownIdle, Assembling, AssemblyInv,
     StillAssembling, Publishing, PublicationInv, DigestInv, PublishedWhole,
     CompleteInv, MaintNoWriters, Linked, IntactInv, ConfirmedOnDisk,
     WriterUndisturbed, ExpiredQuiet,
     Promise!Next, Promise!vars, Promise!Confirm, Promise!Forget,
     Promise!Publish, Promise!Close, Promise!Lose
<1>1. CASE CompleteRefuse(c)
  BY <1>1 DEF CompleteRefuse, disk, db, Exit, Goto
<1>2. CASE CompleteError(c)
  BY <1>2 DEF CompleteError, disk, db, Exit, Goto, Fault, Spend
<1>3. CASE CompleteStart(c)
  BY <1>3 DEF CompleteStart, disk, BeginCompletion, Goto, AllConfirmed,
      LockFree
<1>4. CASE CompleteRestart(c)
  BY <1>4 DEF CompleteRestart, Exit, Goto, BeginCompletion, AllConfirmed,
      LockFree
<1>5. CASE CompleteResume(c)
  BY <1>5 DEF CompleteResume, disk, db, Advance, Goto, LockFree
<1>6. CASE AssembleOpen(c)
  BY <1>6 DEF AssembleOpen, db, Exit, Goto, Advance
<1>7. CASE AssembleRead(c)
  BY <1>7 DEF AssembleRead, db, Advance, Goto
<1>8. CASE AssembleDamaged(c)
  BY <1>8 DEF AssembleDamaged, db, Goto
<1>9. CASE AssembleError(c)
  BY <1>9 DEF AssembleError, db, Exit, Goto, Fault, Spend
<1>10. CASE CompleteInvalidate(c)
  <2>1. CASE status \in Terminal
    BY <1>10, <2>1 DEF CompleteInvalidate
  <2>2. CASE status \notin Terminal
    <3>1. rows' = [p \in Parts |-> IF p \in {bad[c]} THEN None ELSE rows[p]]
      BY <1>10, <2>2 DEF CompleteInvalidate
    <3>2. status \in Active /\ status' \in Active
      BY <1>10, <2>2 DEF CompleteInvalidate, SetFailed
    <3>3. {bad[c]} \in SUBSET env.lost /\ UNCHANGED <<filesRow, final, env>>
      BY <1>10, <2>2 DEF CompleteInvalidate
    <3>4. Promise!Forget
      BY ZenonT(40), <3>1, <3>2, <3>3
    <3> QED BY <3>4
  <2> QED BY <2>1, <2>2
<1>11. CASE InvalidateError(c)
  BY <1>11 DEF InvalidateError, db, Exit, Goto, Fault, Spend
<1>12. CASE CompletePublish(c)
  BY <1>12 DEF CompletePublish, Exit, Goto, Advance
<1>13. CASE PublishError(c)
  BY <1>13 DEF PublishError, disk, db, Exit, Goto, Fault, Spend
<1>14. CASE Rename(c)
  BY <1>14 DEF Rename, db, Advance, Goto
<1> QED
  BY <1>1, <1>2, <1>3, <1>4, <1>5, <1>6, <1>7, <1>8, <1>9, <1>10, <1>11,
      <1>12, <1>13, <1>14 DEF CompletionStep

\* The last publication phase is Publish, the others are internal.
LEMMA PublicationStepPromise ==
  ASSUME IInv, NEW a \in Actors, PublicationStep(a)
  PROVE  [Promise!Next]_(Promise!vars)
<1> USE ValuesAssumption, ActorsAssumption, BoundsAssumption
    DEF IInv, TypeOK, RowsTyped, FilesTyped, TasksTyped, Puts, Steps, Statuses,
     PartFiles, Whole, Active, Terminal, Durable, Actors, Locked, Request, Rest,
     HasWriters, OneCompletion, MaintAlone, DownIdle, Assembling, AssemblyInv,
     StillAssembling, Publishing, PublicationInv, DigestInv, PublishedWhole,
     CompleteInv, MaintNoWriters, Linked, IntactInv, ConfirmedOnDisk,
     WriterUndisturbed, ExpiredQuiet,
     Promise!Next, Promise!vars, Promise!Confirm, Promise!Forget,
     Promise!Publish, Promise!Close, Promise!Lose
<1>1. CASE ResumeAssembled(a)
  BY <1>1 DEF ResumeAssembled, Broken, Exit, Goto, Recovered, SetFailed,
      Advance
<1>2. CASE MarkPublished(a)
  BY <1>2 DEF MarkPublished, disk, Broken, Goto, Recovered, SetFailed, Advance
<1>3. CASE VerifyFinal(a)
  BY <1>3 DEF VerifyFinal, disk, Broken, Exit, Goto, Recovered, SetFailed,
      Advance, FinalIntact
<1>4. CASE Finalize(a)
  BY <1>4 DEF Finalize, disk, Broken, Exit, Goto, Recovered, SetFailed, Leave,
      MaintDone, Advance
<1>5. CASE Cleanup(a)
  BY <1>5 DEF Cleanup, db, Leave, Exit, Goto, MaintDone, RemoveTree, Fault,
      Spend, NoFault, ClearTree
<1>6. CASE PublicationError(a)
  BY <1>6 DEF PublicationError, disk, MaintDone, Goto, Broken, Exit,
      Recovered, SetFailed, Fault, Spend
<1> QED
  BY <1>1, <1>2, <1>3, <1>4, <1>5, <1>6 DEF PublicationStep

\* Recovery forgets lost chunks, and nothing else is visible.
LEMMA RecoverPromise ==
  ASSUME IInv, Recover
  PROVE  [Promise!Next]_(Promise!vars)
<1> USE ValuesAssumption, ActorsAssumption, BoundsAssumption
    DEF IInv, TypeOK, RowsTyped, FilesTyped, TasksTyped, Puts, Steps, Statuses,
     PartFiles, Whole, Active, Terminal, Durable, Actors, Locked, Request, Rest,
     HasWriters, OneCompletion, MaintAlone, DownIdle, Assembling, AssemblyInv,
     StillAssembling, Publishing, PublicationInv, DigestInv, PublishedWhole,
     CompleteInv, MaintNoWriters, Linked, IntactInv, ConfirmedOnDisk,
     WriterUndisturbed, ExpiredQuiet,
     Promise!Next, Promise!vars, Promise!Confirm, Promise!Forget,
     Promise!Publish, Promise!Close, Promise!Lose
<1> PICK why \in {"startup", "expire", "terminal"} :
       \/ RecoverMissing(why) \/ RecoverComplete(why) \/ RecoverWithdrawn(why)
       \/ RecoverAssembling(why) \/ RecoverPublication(why)
       \/ RecoverNothing(why) \/ RecoverError(why)
  BY DEF Recover
<1>1. CASE RecoverMissing(why)
  <2>1. rows' = [p \in Parts |-> IF p \in Missing THEN None ELSE rows[p]]
    BY <1>1 DEF RecoverMissing, Kept
  <2>2. status \in Active /\ status' \in Active
    BY <1>1 DEF RecoverMissing, SetFailed, Missing
  <2>3. Missing \in SUBSET env.lost /\ UNCHANGED <<filesRow, final, env>>
    BY <1>1 DEF RecoverMissing, Missing
  <2>4. Promise!Forget
    BY ZenonT(40), <2>1, <2>2, <2>3
  <2> QED BY <2>4
<1>2. CASE RecoverComplete(why)
  BY <1>2 DEF RecoverComplete, db, Goto, Recovery, NextPhase, Recovers,
      Unattended, Completing
<1>3. CASE RecoverWithdrawn(why)
  <2>1. status \in Withdrawn /\ status' = status /\ UNCHANGED filesRow
    BY <1>3 DEF RecoverWithdrawn
  <2>2. PICK gone \in SUBSET Parts :
          rows' = [p \in Parts |-> IF p \in gone THEN None ELSE rows[p]]
    <3>1. CASE publication \in Durable
      <4>1. rows' = [p \in Parts |-> IF p \in {} THEN None ELSE rows[p]]
        BY <1>3, <3>1 DEF RecoverWithdrawn
      <4>2. {} \in SUBSET Parts
        OBVIOUS
      <4> QED BY <4>1, <4>2, Zenon
    <3>2. CASE publication \notin Durable
      BY ZenonT(40), <1>3, <3>2 DEF RecoverWithdrawn, Kept, Missing
    <3> QED BY <3>1, <3>2
  <2>3. env'.lost = env.lost
    BY <1>3 DEF RecoverWithdrawn, Withdraw, RemoveTree, ClearTree, KeepTree,
        NoFault, Fault, Spend
  <2>4. filesRow # "upload" /\ filesRow' # "upload"
    BY <2>1 DEF Withdrawn
  <2>5. status \notin Active /\ status' \notin Active
    BY <2>1 DEF Withdrawn
  <2>6. status \notin {"open", "complete"}
    BY <2>1 DEF Withdrawn
  <2> DEFINE session == IF status \in Active THEN "open" ELSE status
             forgettable == IF session = "open" THEN env.lost ELSE Parts
  <2>7. gone \in SUBSET forgettable
    BY <2>5, <2>6
  <2>8. \E lost \in SUBSET forgettable :
          rows' = [p \in Parts |-> IF p \in lost THEN None ELSE rows[p]]
    <3> USE <2>7
    <3> WITNESS gone \in SUBSET forgettable
    <3> QED BY <2>2
  <2>9. /\ session # "complete"
        /\ UNCHANGED <<session, IF filesRow = "upload" THEN final ELSE None,
                       env.lost>>
    BY <2>1, <2>3, <2>4, <2>5, <2>6
  <2>10. Promise!Forget
    BY <2>8, <2>9, Zenon
  <2> QED BY <2>10
<1>4. CASE RecoverAssembling(why)
  BY <1>4 DEF RecoverAssembling, Recovered, Goto, Recovery, NextPhase,
      Recovers, Unattended, Completing
<1>5. CASE RecoverPublication(why)
  BY <1>5 DEF RecoverPublication, db, Goto, Recovery, NextPhase, Recovers,
      Residual, Withdrawn, Unattended, Completing, LockFree
<1>6. CASE RecoverNothing(why)
  BY <1>6 DEF RecoverNothing, db, Recovered, Goto, Missing, Recovery,
      NextPhase, Recovers, Residual, Withdrawn, Unattended, Completing,
      LockFree
<1>7. CASE RecoverError(why)
  BY <1>7 DEF RecoverError, tasks, disk, db, NextPhase, Fault, Spend
<1> QED
  BY <1>1, <1>2, <1>3, <1>4, <1>5, <1>6, <1>7

\* Expiring is Close.
LEMMA MaintenancePromise ==
  ASSUME IInv, ExpireRecovered \/ ExpireIdle \/ ImportLegacy
  PROVE  [Promise!Next]_(Promise!vars)
<1> USE ValuesAssumption, ActorsAssumption, BoundsAssumption
    DEF IInv, TypeOK, RowsTyped, FilesTyped, TasksTyped, Puts, Steps, Statuses,
     PartFiles, Whole, Active, Terminal, Durable, Actors, Locked, Request, Rest,
     HasWriters, OneCompletion, MaintAlone, DownIdle, Assembling, AssemblyInv,
     StillAssembling, Publishing, PublicationInv, DigestInv, PublishedWhole,
     CompleteInv, MaintNoWriters, Linked, IntactInv, ConfirmedOnDisk,
     WriterUndisturbed, ExpiredQuiet,
     Promise!Next, Promise!vars, Promise!Confirm, Promise!Forget,
     Promise!Publish, Promise!Close, Promise!Lose
<1>1. CASE ExpireRecovered
  BY <1>1 DEF ExpireRecovered, MaintDone, Goto, Expired, RemoveTree, Fault,
      Spend, NoFault, ClearTree
<1>2. CASE ExpireIdle
  BY <1>2 DEF ExpireIdle, tasks, Expired, RemoveTree, Fault, Spend, NoFault,
      ClearTree, Expirable, Unattended, LockFree
<1>3. CASE ImportLegacy
  BY <1>3 DEF ImportLegacy, tasks, disk
<1> QED
  BY <1>1, <1>2, <1>3

\* The environment changes nothing a client was promised.
LEMMA EnvironmentPromise ==
  ASSUME IInv, Restart \/ Environment
  PROVE  [Promise!Next]_(Promise!vars)
<1> USE ValuesAssumption, ActorsAssumption, BoundsAssumption
    DEF IInv, TypeOK, RowsTyped, FilesTyped, TasksTyped, Puts, Steps, Statuses,
     PartFiles, Whole, Active, Terminal, Durable, Actors, Locked, Request, Rest,
     HasWriters, OneCompletion, MaintAlone, DownIdle, Assembling, AssemblyInv,
     StillAssembling, Publishing, PublicationInv, DigestInv, PublishedWhole,
     CompleteInv, MaintNoWriters, Linked, IntactInv, ConfirmedOnDisk,
     WriterUndisturbed, ExpiredQuiet,
     Promise!Next, Promise!vars, Promise!Confirm, Promise!Forget,
     Promise!Publish, Promise!Close, Promise!Lose
<1>1. CASE Restart
  BY <1>1 DEF Restart, tasks, disk, db
<1>2. CASE Crash
  BY <1>2 DEF Crash, disk, db, Spend
<1>3. CASE TtlElapses
  BY <1>3 DEF TtlElapses, tasks, disk
<1>4. CASE Damage
  BY <1>4 DEF Damage, tasks, db, Spend
<1> QED
  BY <1>1, <1>2, <1>3, <1>4 DEF Environment

\* Every step keeps the promise.
LEMMA NextPromise == IInv /\ [Next]_vars => [Promise!Next]_(Promise!vars)
<1> SUFFICES ASSUME IInv, [Next]_vars PROVE [Promise!Next]_(Promise!vars)
  OBVIOUS
<1>1. CASE UNCHANGED vars
  BY <1>1 DEF vars, db, disk, tasks, Promise!vars
<1>2. CASE ClientRequest
  BY <1>2, RequestPromise
<1>3. ASSUME NEW w \in Writers, WriterStep(w) PROVE [Promise!Next]_(Promise!vars)
  BY <1>3, ChunkPromise
<1>4. ASSUME NEW c \in Completers, CompletionStep(c) PROVE [Promise!Next]_(Promise!vars)
  BY <1>4, CompletionPromise
<1>5. ASSUME NEW a \in Actors, PublicationStep(a) PROVE [Promise!Next]_(Promise!vars)
  BY <1>5, PublicationStepPromise
<1>6. CASE Recover
  BY <1>6, RecoverPromise
<1>7. CASE ExpireRecovered \/ ExpireIdle \/ ImportLegacy
  BY <1>7, MaintenancePromise
<1>8. CASE Restart \/ Environment
  BY <1>8, EnvironmentPromise
<1> QED
  BY <1>1, <1>2, <1>3, <1>4, <1>5, <1>6, <1>7, <1>8 DEF Next, MaintStep, Actors

\* Acknowledged chunks stay, the message appears together with the whole file,
\* and the end of a session is final.
THEOREM ImplementsPromise == Spec => PromiseKept
<1>1. Init => Promise!Init  BY InitPromise
<1>2. IInv /\ [Next]_vars => [Promise!Next]_(Promise!vars)  BY NextPromise
<1> QED BY <1>1, <1>2, Invariance, PTL DEF Spec, PromiseKept, Promise!Spec
=============================================================================
