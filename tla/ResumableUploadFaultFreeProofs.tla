------------------- MODULE ResumableUploadFaultFreeProofs -------------------
(***************************************************************************)
(* What crashes alone cannot do: with no transient error and no lost file, *)
(* for any number of crashes, every publication that was begun is finished *)
(* by the recovery before a request, an expiry or the legacy import can    *)
(* see its file.                                                           *)
(***************************************************************************)
EXTENDS ResumableUploadProofs

\* Without faults and damage an interrupted publication is only ever seen
\* between a crash and the end of the recovery, and its file is whole.
FaultFree == MaxFaults = 0 /\ MaxDamage = 0
Interrupted ==
  status \in Active /\ publication \in {"assembled", "file_published"}
FaultFreeInv ==
  /\ env.fault = 0
  /\ Interrupted => /\ status = "verifying"
                    /\ publication = "assembled" => fileSha \in {temp, final}
                    /\ publication = "file_published" => final = fileSha
                    /\ LockFree => phase \in {"down", "starting"}
  /\ final # None => status = "complete" \/ Interrupted
  /\ pc[Maint] = "expire" => final = None
  /\ IncompleteUnavailable

----------------------------------------------------------------------------
\* A new session has published nothing.
LEMMA InitFaultFree == FaultFree /\ Init => FaultFreeInv
BY ValuesAssumption, ActorsAssumption
  DEF Init, FaultFree, FaultFreeInv, Interrupted, IncompleteUnavailable, Actors,
      Active

\* Receiving chunks publishes nothing.
LEMMA ChunkFaultFree ==
  ASSUME FaultFree, IInv, FaultFreeInv, NEW w \in Writers, WriterStep(w)
  PROVE  FaultFreeInv'
<1> USE ValuesAssumption, ActorsAssumption, BoundsAssumption
    DEF IInv, TypeOK, RowsTyped, FilesTyped, TasksTyped, Puts, Steps, Statuses,
     PartFiles, Whole, Active, Terminal, Durable, Actors, Locked, Request, Rest,
     HasWriters, OneCompletion, MaintAlone, DownIdle, Assembling, AssemblyInv,
     StillAssembling, Publishing, PublicationInv, DigestInv, PublishedWhole,
     CompleteInv, MaintNoWriters, Linked, IntactInv, ConfirmedOnDisk,
     WriterUndisturbed, ExpiredQuiet, FaultFree, Interrupted,
     FaultFreeInv, IncompleteUnavailable
<1>1. CASE PutOpen(w)
  BY <1>1 DEF PutOpen, db, LockFree
<1>2. CASE PutFail(w)
  BY <1>2 DEF PutFail, db, LockFree
<1>3. CASE PutLink(w)
  BY <1>3 DEF PutLink, db, LockFree
<1>4. CASE PutConfirm(w)
  BY <1>4 DEF PutConfirm, Acknowledge, NoFault, Confirms, Discards, Withdrawn, Fault,
      Spend, LockFree
<1>5. CASE PutLeave(w)
  BY <1>5 DEF PutLeave, db, NoFault, KeepTree, RemoveTree, Fault, Spend,
      ClearTree, LastWriter, LockFree
<1> QED
  BY <1>1, <1>2, <1>3, <1>4, <1>5 DEF WriterStep

\* A request that finds the lock free finds no publication interrupted.
LEMMA RequestFaultFree ==
  ASSUME FaultFree, IInv, FaultFreeInv, ClientRequest
  PROVE  FaultFreeInv'
<1> USE ValuesAssumption, ActorsAssumption, BoundsAssumption
    DEF IInv, TypeOK, RowsTyped, FilesTyped, TasksTyped, Puts, Steps, Statuses,
     PartFiles, Whole, Active, Terminal, Durable, Actors, Locked, Request, Rest,
     HasWriters, OneCompletion, MaintAlone, DownIdle, Assembling, AssemblyInv,
     StillAssembling, Publishing, PublicationInv, DigestInv, PublishedWhole,
     CompleteInv, MaintNoWriters, Linked, IntactInv, ConfirmedOnDisk,
     WriterUndisturbed, ExpiredQuiet, FaultFree, Interrupted,
     FaultFreeInv, IncompleteUnavailable
<1>1. CASE \E w \in Writers, p \in Parts, x \in Content : PutBegin(w, p, x)
  BY <1>1 DEF PutBegin, disk, db, LockFree
<1>2. CASE Pause
  BY <1>2 DEF Pause, Control, tasks, disk, LockFree
<1>3. CASE Resume
  BY <1>3 DEF Resume, Control, tasks, disk, LockFree
<1>4. CASE Cancel
  BY <1>4 DEF Cancel, tasks, CancelClears, Withdraw, KeepTree, ClearTree,
      Fault, Spend, NoFault, RemoveTree, Cancellable, LockFree
<1>5. CASE \E c \in Completers : CompleteEnter(c)
  BY <1>5 DEF CompleteEnter, disk, db, Advance, Goto, Completing, LockFree
<1> QED
  BY <1>1, <1>2, <1>3, <1>4, <1>5 DEF ClientRequest

\* A completion publishes in one lock-protected stretch.
LEMMA CompletionFaultFree ==
  ASSUME FaultFree, IInv, FaultFreeInv, NEW c \in Completers, CompletionStep(c)
  PROVE  FaultFreeInv'
<1> USE ValuesAssumption, ActorsAssumption, BoundsAssumption
    DEF IInv, TypeOK, RowsTyped, FilesTyped, TasksTyped, Puts, Steps, Statuses,
     PartFiles, Whole, Active, Terminal, Durable, Actors, Locked, Request, Rest,
     HasWriters, OneCompletion, MaintAlone, DownIdle, Assembling, AssemblyInv,
     StillAssembling, Publishing, PublicationInv, DigestInv, PublishedWhole,
     CompleteInv, MaintNoWriters, Linked, IntactInv, ConfirmedOnDisk,
     WriterUndisturbed, ExpiredQuiet, FaultFree, Interrupted,
     FaultFreeInv, IncompleteUnavailable
<1>1. CASE CompleteRefuse(c)
  BY <1>1 DEF CompleteRefuse, disk, db, Exit, Goto, LockFree
<1>2. CASE CompleteError(c)
  BY <1>2 DEF CompleteError, disk, db, Exit, Goto, Fault, Spend, LockFree
<1>3. CASE CompleteStart(c)
  BY <1>3 DEF CompleteStart, disk, BeginCompletion, Goto, AllConfirmed,
      LockFree
<1>4. CASE CompleteRestart(c)
  BY <1>4 DEF CompleteRestart, Exit, Goto, BeginCompletion, AllConfirmed,
      LockFree
<1>5. CASE CompleteResume(c)
  BY <1>5 DEF CompleteResume, disk, db, Advance, Goto, LockFree
<1>6. CASE AssembleOpen(c)
  BY <1>6 DEF AssembleOpen, db, Exit, Goto, Advance, LockFree
<1>7. CASE AssembleRead(c)
  BY <1>7 DEF AssembleRead, db, Advance, Goto, LockFree
<1>8. CASE AssembleDamaged(c)
  BY <1>8 DEF AssembleDamaged, db, Goto, LockFree
<1>9. CASE AssembleError(c)
  BY <1>9 DEF AssembleError, db, Exit, Goto, Fault, Spend, LockFree
<1>10. CASE CompleteInvalidate(c)
  BY <1>10 DEF CompleteInvalidate, Exit, Goto, SetFailed, LockFree
<1>11. CASE InvalidateError(c)
  BY <1>11 DEF InvalidateError, db, Exit, Goto, Fault, Spend, LockFree
<1>12. CASE CompletePublish(c)
  BY <1>12 DEF CompletePublish, Exit, Goto, Advance, LockFree
<1>13. CASE PublishError(c)
  BY <1>13 DEF PublishError, disk, db, Exit, Goto, Fault, Spend, LockFree
<1>14. CASE Rename(c)
  BY <1>14 DEF Rename, db, Advance, Goto, LockFree
<1> QED
  BY <1>1, <1>2, <1>3, <1>4, <1>5, <1>6, <1>7, <1>8, <1>9, <1>10, <1>11,
      <1>12, <1>13, <1>14 DEF CompletionStep

\* Without faults every publication phase succeeds.
LEMMA PublicationStepFaultFree ==
  ASSUME FaultFree, IInv, FaultFreeInv, NEW a \in Actors, PublicationStep(a)
  PROVE  FaultFreeInv'
<1> USE ValuesAssumption, ActorsAssumption, BoundsAssumption
    DEF IInv, TypeOK, RowsTyped, FilesTyped, TasksTyped, Puts, Steps, Statuses,
     PartFiles, Whole, Active, Terminal, Durable, Actors, Locked, Request, Rest,
     HasWriters, OneCompletion, MaintAlone, DownIdle, Assembling, AssemblyInv,
     StillAssembling, Publishing, PublicationInv, DigestInv, PublishedWhole,
     CompleteInv, MaintNoWriters, Linked, IntactInv, ConfirmedOnDisk,
     WriterUndisturbed, ExpiredQuiet, FaultFree, Interrupted,
     FaultFreeInv, IncompleteUnavailable
<1>1. CASE ResumeAssembled(a)
  BY <1>1 DEF ResumeAssembled, Broken, Exit, Goto, Recovered, SetFailed,
      Advance, LockFree
<1>2. CASE MarkPublished(a)
  BY <1>2 DEF MarkPublished, disk, Broken, Goto, Recovered, SetFailed,
      Advance, LockFree
<1>3. CASE VerifyFinal(a)
  BY <1>3 DEF VerifyFinal, disk, Broken, Exit, Goto, Recovered, SetFailed,
      Advance, FinalIntact, LockFree
<1>4. CASE Finalize(a)
  BY <1>4 DEF Finalize, disk, Broken, Exit, Goto, Recovered, SetFailed, Leave,
      MaintDone, Advance, LockFree
<1>5. CASE Cleanup(a)
  BY <1>5 DEF Cleanup, db, Leave, Exit, Goto, MaintDone, RemoveTree, Fault,
      Spend, NoFault, ClearTree, LockFree
<1>6. CASE PublicationError(a)
  BY <1>6 DEF PublicationError, disk, MaintDone, Goto, Broken, Exit,
      Recovered, SetFailed, Fault, Spend, LockFree
<1> QED
  BY <1>1, <1>2, <1>3, <1>4, <1>5, <1>6 DEF PublicationStep

\* Recovery finishes an interrupted publication before anything is served.
LEMMA RecoverFaultFree ==
  ASSUME FaultFree, IInv, FaultFreeInv, Recover
  PROVE  FaultFreeInv'
<1> USE ValuesAssumption, ActorsAssumption, BoundsAssumption
    DEF IInv, TypeOK, RowsTyped, FilesTyped, TasksTyped, Puts, Steps, Statuses,
     PartFiles, Whole, Active, Terminal, Durable, Actors, Locked, Request, Rest,
     HasWriters, OneCompletion, MaintAlone, DownIdle, Assembling, AssemblyInv,
     StillAssembling, Publishing, PublicationInv, DigestInv, PublishedWhole,
     CompleteInv, MaintNoWriters, Linked, IntactInv, ConfirmedOnDisk,
     WriterUndisturbed, ExpiredQuiet, FaultFree, Interrupted,
     FaultFreeInv, IncompleteUnavailable
<1> PICK why \in {"startup", "expire", "terminal"} :
       \/ RecoverMissing(why) \/ RecoverComplete(why) \/ RecoverWithdrawn(why)
       \/ RecoverAssembling(why) \/ RecoverPublication(why)
       \/ RecoverNothing(why) \/ RecoverError(why)
  BY DEF Recover
<1>1. CASE RecoverMissing(why)
  BY <1>1 DEF RecoverMissing, Recovered, Goto, SetFailed, Kept, Recovery,
      NextPhase, Recovers, Unattended, Completing, LockFree
<1>2. CASE RecoverComplete(why)
  BY <1>2 DEF RecoverComplete, db, Goto, Recovery, NextPhase, Recovers,
      Unattended, Completing, LockFree
<1>3. CASE RecoverWithdrawn(why)
  BY <1>3 DEF RecoverWithdrawn, Withdraw, ClearTree, Fault, Spend, NoFault,
      RemoveTree, Kept, Withdrawn, Recovery, NextPhase, Unattended, LockFree
<1>4. CASE RecoverAssembling(why)
  BY <1>4 DEF RecoverAssembling, Recovered, Goto, Recovery, NextPhase,
      Recovers, Unattended, Completing, LockFree
<1>5. CASE RecoverPublication(why)
  BY <1>5 DEF RecoverPublication, db, Goto, Recovery, NextPhase, Recovers,
      Residual, Withdrawn, Unattended, Completing, LockFree
<1>6. CASE RecoverNothing(why)
  BY <1>6 DEF RecoverNothing, db, Recovered, Goto, Missing, Recovery,
      NextPhase, Recovers, Residual, Withdrawn, Unattended, Completing,
      LockFree
<1>7. CASE RecoverError(why)
  BY <1>7 DEF RecoverError, tasks, disk, db, NextPhase, Fault, Spend, LockFree
<1> QED
  BY <1>1, <1>2, <1>3, <1>4, <1>5, <1>6, <1>7

\* Expiry and the legacy import meet no interrupted publication.
LEMMA MaintenanceFaultFree ==
  ASSUME FaultFree, IInv, FaultFreeInv,
         ExpireRecovered \/ ExpireIdle \/ ImportLegacy
  PROVE  FaultFreeInv'
<1> USE ValuesAssumption, ActorsAssumption, BoundsAssumption
    DEF IInv, TypeOK, RowsTyped, FilesTyped, TasksTyped, Puts, Steps, Statuses,
     PartFiles, Whole, Active, Terminal, Durable, Actors, Locked, Request, Rest,
     HasWriters, OneCompletion, MaintAlone, DownIdle, Assembling, AssemblyInv,
     StillAssembling, Publishing, PublicationInv, DigestInv, PublishedWhole,
     CompleteInv, MaintNoWriters, Linked, IntactInv, ConfirmedOnDisk,
     WriterUndisturbed, ExpiredQuiet, FaultFree, Interrupted,
     FaultFreeInv, IncompleteUnavailable
<1>1. CASE ExpireRecovered
  BY <1>1 DEF ExpireRecovered, MaintDone, Goto, Expired, RemoveTree, Fault,
      Spend, NoFault, ClearTree, LockFree
<1>2. CASE ExpireIdle
  BY <1>2 DEF ExpireIdle, tasks, Expired, RemoveTree, Fault, Spend, NoFault,
      ClearTree, Expirable, Unattended, LockFree
<1>3. CASE ImportLegacy
  BY <1>3 DEF ImportLegacy, tasks, disk, LockFree
<1> QED
  BY <1>1, <1>2, <1>3

\* A crash leaves an interrupted publication to the recovery.
LEMMA EnvironmentFaultFree ==
  ASSUME FaultFree, IInv, FaultFreeInv, Restart \/ Environment
  PROVE  FaultFreeInv'
<1> USE ValuesAssumption, ActorsAssumption, BoundsAssumption
    DEF IInv, TypeOK, RowsTyped, FilesTyped, TasksTyped, Puts, Steps, Statuses,
     PartFiles, Whole, Active, Terminal, Durable, Actors, Locked, Request, Rest,
     HasWriters, OneCompletion, MaintAlone, DownIdle, Assembling, AssemblyInv,
     StillAssembling, Publishing, PublicationInv, DigestInv, PublishedWhole,
     CompleteInv, MaintNoWriters, Linked, IntactInv, ConfirmedOnDisk,
     WriterUndisturbed, ExpiredQuiet, FaultFree, Interrupted,
     FaultFreeInv, IncompleteUnavailable
<1>1. CASE Restart
  BY <1>1 DEF Restart, tasks, disk, db, LockFree
<1>2. CASE Crash
  BY <1>2 DEF Crash, disk, db, Spend, LockFree
<1>3. CASE TtlElapses
  BY <1>3 DEF TtlElapses, tasks, disk, LockFree
<1>4. CASE Damage
  <2>1. env.damage > 0
    BY <1>4 DEF Damage
  <2>2. env.damage = 0
    OBVIOUS
  <2> QED BY <2>1, <2>2
<1> QED
  BY <1>1, <1>2, <1>3, <1>4 DEF Environment

\* Every step keeps the fault-free invariant.
LEMMA NextFaultFree ==
  FaultFree /\ IInv /\ FaultFreeInv /\ [Next]_vars => FaultFreeInv'
<1> SUFFICES ASSUME FaultFree, IInv, FaultFreeInv, [Next]_vars
             PROVE  FaultFreeInv'
  OBVIOUS
<1>1. CASE UNCHANGED vars
  BY <1>1 DEF vars, db, disk, tasks, FaultFreeInv, Interrupted,
       IncompleteUnavailable, LockFree
<1>2. CASE ClientRequest
  BY <1>2, RequestFaultFree
<1>3. ASSUME NEW w \in Writers, WriterStep(w) PROVE FaultFreeInv'
  BY <1>3, ChunkFaultFree
<1>4. ASSUME NEW c \in Completers, CompletionStep(c) PROVE FaultFreeInv'
  BY <1>4, CompletionFaultFree
<1>5. ASSUME NEW a \in Actors, PublicationStep(a) PROVE FaultFreeInv'
  BY <1>5, PublicationStepFaultFree
<1>6. CASE Recover
  BY <1>6, RecoverFaultFree
<1>7. CASE ExpireRecovered \/ ExpireIdle \/ ImportLegacy
  BY <1>7, MaintenanceFaultFree
<1>8. CASE Restart \/ Environment
  BY <1>8, EnvironmentFaultFree
<1> QED
  BY <1>1, <1>2, <1>3, <1>4, <1>5, <1>6, <1>7, <1>8 DEF Next, MaintStep, Actors

\* The fault-free invariant holds in every reachable state.
THEOREM FaultFreeInvariance == FaultFree /\ Spec => []FaultFreeInv
<1> SUFFICES ASSUME FaultFree PROVE Spec => []FaultFreeInv
  OBVIOUS
<1>1. Init => FaultFreeInv  BY InitFaultFree
<1>2. IInv /\ FaultFreeInv /\ [Next]_vars => FaultFreeInv'  BY NextFaultFree
<1> QED BY <1>1, <1>2, Invariance, PTL DEF Spec

\* However often the process dies, a file can be downloaded only when its
\* session is complete.
THEOREM CrashesPublishNothing == FaultFree /\ Spec => []IncompleteUnavailable
<1> SUFFICES ASSUME FaultFree PROVE Spec => []IncompleteUnavailable
  OBVIOUS
<1>1. FaultFreeInv => IncompleteUnavailable  BY DEF FaultFreeInv
<1> QED BY <1>1, FaultFreeInvariance, PTL

\* However often the process dies, a cancelled or expired session leaves no
\* published file.
THEOREM CrashesLeaveNoFile == FaultFree /\ Spec => []WithdrawnUnpublished
<1> SUFFICES ASSUME FaultFree PROVE Spec => []WithdrawnUnpublished
  OBVIOUS
<1>1. FaultFreeInv => WithdrawnUnpublished
  BY DEF FaultFreeInv, WithdrawnUnpublished, Withdrawn, Interrupted, Active
<1> QED BY <1>1, FaultFreeInvariance, PTL
=============================================================================
