----------------------- MODULE ResumableUploadProofs -----------------------
(***************************************************************************)
(* Proofs about ResumableUpload for every number of chunks, contents,      *)
(* requests, crashes, faults and lost files.                               *)
(***************************************************************************)
EXTENDS ResumableUpload, TLAPS

\* Completions exclude each other from the first check to the reply
\* (_completing).
OneCompletion ==
  \A c, d \in Completers : pc[c] # "idle" /\ pc[d] # "idle" => c = d

\* While Maint has the lock, no completion is past the first wait for it.
MaintAlone ==
  /\ pc[Maint] \in Locked \cup {"idle"}
  /\ pc[Maint] # "idle" => \A c \in Completers : pc[c] \in {"idle", "entered"}

\* A dead process runs nothing.
DownIdle == phase = "down" => \A a \in Actors : pc[a] = "idle"

\* An assembly ends in a terminal session or works from its rows, and nobody
\* else touches its temporary file.
Assembling == {"assemble", "reading", "verified", "damaged"}
AssemblyInv ==
  \A c \in Completers : pc[c] \in Assembling =>
    /\ StillAssembling \/ status \in Terminal
    /\ pc[c] = "damaged" => bad[c] \in Parts
    /\ StillAssembling =>
         /\ listed[c] = rows /\ rows \in Whole
         /\ pc[c] = "reading" => temp = c
         /\ pc[c] = "verified" => temp = rows

\* A publication in progress: which state and which file each step relies on.
Publishing == {"rename", "mark", "resume", "remark", "verify", "finalize"}
PublicationInv ==
  \A a \in Actors : pc[a] \in Publishing =>
    /\ status \in Active
    /\ a \in Completers => status = "verifying"
    /\ pc[a] \in {"rename", "mark", "resume", "remark"} => publication = "assembled"
    /\ pc[a] \in {"verify", "finalize"} => publication = "file_published"
    /\ pc[a] = "rename" => temp = fileSha
    /\ pc[a] \in {"mark", "remark", "finalize"} => final = fileSha

\* The recorded digest is that of the confirmed chunks from the moment it is
\* durable until the session ends or the publication is reset.
DigestInv ==
  status \in Active /\ publication \in {"assembled", "file_published"} =>
    fileSha = rows /\ rows \in Whole

\* The session has its message exactly when it is complete; the directory is
\* removed by a completion only then.
CompleteInv ==
  /\ status = "complete" <=> filesRow = "upload"
  /\ \A a \in Actors : pc[a] = "cleanup" => status = "complete"

\* No chunk request is open while Maint has the lock.
MaintNoWriters == pc[Maint] # "idle" => ~HasWriters

\* A chunk that is not lost is on disk from its link on, until it is refused,
\* and no assembly of an active session finds it damaged.
Linked(w) == put[w].pc = "linked" /\ rows[put[w].part] = None
IntactInv ==
  /\ MaxDamage = 0 => env.damage = 0 /\ env.lost = {}
  /\ status \in Active =>
       /\ \A p \in Parts \ env.lost : rows[p] # None => part[p] = rows[p]
       /\ \A w \in Writers : Linked(w) /\ put[w].part \notin env.lost =>
                              part[put[w].part] = put[w].body
       /\ \A c \in Completers : pc[c] = "damaged" => bad[c] \in env.lost

IInv == /\ TypeOK /\ OneCompletion /\ MaintAlone /\ DownIdle
        /\ AssemblyInv /\ PublicationInv /\ DigestInv /\ PublishedWhole
        /\ CompleteInv /\ MaintNoWriters /\ IntactInv
        /\ WriterUndisturbed /\ ExpiredQuiet

----------------------------------------------------------------------------
\* A session that create_or_get has just inserted satisfies the invariant.
LEMMA InitInv == Init => IInv
BY ValuesAssumption, ActorsAssumption, BoundsAssumption
  DEF Init, IInv, TypeOK, RowsTyped, FilesTyped, TasksTyped, Puts, Steps,
       Statuses,
     PartFiles, Whole, Active, Terminal, Durable, Actors, Locked, Request, Rest,
     HasWriters, OneCompletion, MaintAlone, DownIdle, Assembling, AssemblyInv,
     StillAssembling, Publishing, PublicationInv, DigestInv, PublishedWhole,
     CompleteInv, MaintNoWriters, Linked, IntactInv, ConfirmedOnDisk,
     WriterUndisturbed, ExpiredQuiet

\* The invariant holds while a chunk is received, stored and confirmed.
LEMMA ChunkInv ==
  ASSUME IInv, NEW w \in Writers, WriterStep(w)
  PROVE  IInv'
<1> USE ValuesAssumption, ActorsAssumption, BoundsAssumption
    DEF IInv, TypeOK, RowsTyped, FilesTyped, TasksTyped, Puts, Steps, Statuses,
     PartFiles, Whole, Active, Terminal, Durable, Actors, Locked, Request, Rest,
     HasWriters, OneCompletion, MaintAlone, DownIdle, Assembling, AssemblyInv,
     StillAssembling, Publishing, PublicationInv, DigestInv, PublishedWhole,
     CompleteInv, MaintNoWriters, Linked, IntactInv, ConfirmedOnDisk,
     WriterUndisturbed, ExpiredQuiet
<1>1. CASE PutOpen(w)
  BY <1>1 DEF PutOpen, db
<1>2. CASE PutFail(w)
  BY <1>2 DEF PutFail, db
<1>3. CASE PutLink(w)
  <2> USE <1>3 DEF PutLink, db
  <2>1. put[w].part \in Parts /\ put[w].body \in Content
    OBVIOUS
  <2>2. \A p \in Parts : part'[p] = part[p] \/ (p = put[w].part /\ part[p] = None)
    BY <2>1
  <2>3. \A v \in Writers : put'[v].pc = "linked" =>
          \/ put[v].pc = "linked" /\ put'[v] = put[v]
          \/ /\ put'[v].part = put[w].part /\ put'[v].body = put[w].body
             /\ part'[put[w].part] = put[w].body
    BY <2>1
  <2>4. \A v \in Writers : put[v].pc = "linked" => put[v].part \in Parts /\ put[v].body \in Content
    OBVIOUS
  <2>5. IntactInv'
    BY <2>1, <2>2, <2>3, <2>4
  <2>6. TypeOK' /\ MaintNoWriters' /\ WriterUndisturbed' /\ ExpiredQuiet'
    BY <2>1
  <2>7. /\ OneCompletion' /\ MaintAlone' /\ DownIdle' /\ AssemblyInv'
        /\ PublicationInv' /\ DigestInv' /\ PublishedWhole' /\ CompleteInv'
    OBVIOUS
  <2> QED
    BY <2>5, <2>6, <2>7
<1>4. CASE PutConfirm(w)
  <2> USE <1>4 DEF PutConfirm, Fault, Spend, NoFault, Withdrawn
  <2>1. CASE Discards
    BY <2>1 DEF Discards
  <2>2. CASE ~Discards /\ Confirms(put[w].part)
    <3> DEFINE p == put[w].part
    <3>1. /\ p \in Parts /\ put[w].body \in Content /\ rows[p] = None
          /\ status \in {"queued", "uploading", "paused"}
          /\ rows' = [rows EXCEPT ![p] = put[w].body] /\ part' = part
          /\ Acknowledge(w)
      BY <2>2 DEF Confirms
    <3>2. /\ env' \in [crash : Nat, fault : Nat, damage : Nat, lost : SUBSET Parts]
          /\ env'.damage = env.damage /\ env'.lost \subseteq env.lost
          /\ env.lost \ {p} \subseteq env'.lost
          /\ p \in env.lost /\ p \notin env'.lost => part[p] = put[w].body
      BY <3>1 DEF Acknowledge
    <3>3. IntactInv'
      BY <2>2, <3>1, <3>2
    <3>4. TypeOK'
      BY <2>2, <3>1, <3>2
    <3> QED
      BY <2>2, <3>1, <3>3, <3>4
  <2>3. CASE ~Discards /\ ~Confirms(put[w].part)
    BY <2>3
  <2> QED
    BY <2>1, <2>2, <2>3
<1>5. CASE PutLeave(w)
  BY <1>5 DEF PutLeave, db, NoFault, KeepTree, RemoveTree, Fault, Spend,
      ClearTree, LastWriter
<1> QED
  BY <1>1, <1>2, <1>3, <1>4, <1>5 DEF WriterStep

\* The requests of clients, accepted at any moment, keep the invariant.
LEMMA RequestInv ==
  ASSUME IInv, ClientRequest
  PROVE  IInv'
<1> USE ValuesAssumption, ActorsAssumption, BoundsAssumption
    DEF IInv, TypeOK, RowsTyped, FilesTyped, TasksTyped, Puts, Steps, Statuses,
     PartFiles, Whole, Active, Terminal, Durable, Actors, Locked, Request, Rest,
     HasWriters, OneCompletion, MaintAlone, DownIdle, Assembling, AssemblyInv,
     StillAssembling, Publishing, PublicationInv, DigestInv, PublishedWhole,
     CompleteInv, MaintNoWriters, Linked, IntactInv, ConfirmedOnDisk,
     WriterUndisturbed, ExpiredQuiet
<1>1. CASE \E w \in Writers, p \in Parts, x \in Content : PutBegin(w, p, x)
  BY <1>1 DEF PutBegin, disk, db, LockFree
<1>2. CASE Pause
  BY <1>2 DEF Pause, Control, tasks, disk
<1>3. CASE Resume
  BY <1>3 DEF Resume, Control, tasks, disk
<1>4. CASE Cancel
  BY <1>4 DEF Cancel, tasks, CancelClears, Withdraw, KeepTree, ClearTree,
      Fault, Spend, NoFault, RemoveTree, Cancellable, LockFree
<1>5. CASE \E c \in Completers : CompleteEnter(c)
  BY <1>5 DEF CompleteEnter, disk, db, Advance, Goto, Completing
<1> QED
  BY <1>1, <1>2, <1>3, <1>4, <1>5 DEF ClientRequest

\* A completion that begins, assembles outside the lock and comes back to
\* publish keeps the invariant.
LEMMA CompletionInv ==
  ASSUME IInv, NEW c \in Completers, CompletionStep(c)
  PROVE  IInv'
<1> USE ValuesAssumption, ActorsAssumption, BoundsAssumption
    DEF IInv, TypeOK, RowsTyped, FilesTyped, TasksTyped, Puts, Steps, Statuses,
     PartFiles, Whole, Active, Terminal, Durable, Actors, Locked, Request, Rest,
     HasWriters, OneCompletion, MaintAlone, DownIdle, Assembling, AssemblyInv,
     StillAssembling, Publishing, PublicationInv, DigestInv, PublishedWhole,
     CompleteInv, MaintNoWriters, Linked, IntactInv, ConfirmedOnDisk,
     WriterUndisturbed, ExpiredQuiet
<1>1. CASE CompleteRefuse(c)
  BY <1>1 DEF CompleteRefuse, disk, db, Exit, Goto
<1>2. CASE CompleteError(c)
  BY <1>2 DEF CompleteError, MayDiscardTemp, disk, db, Exit, Goto, Fault, Spend
<1>3. CASE CompleteStart(c)
  BY <1>3 DEF CompleteStart, disk, BeginCompletion, Goto, AllConfirmed,
      LockFree
<1>4. CASE CompleteRestart(c)
  BY <1>4 DEF CompleteRestart, Exit, Goto, BeginCompletion, AllConfirmed,
      LockFree
<1>5. CASE CompleteResume(c)
  BY <1>5 DEF CompleteResume, disk, db, Advance, Goto, LockFree
<1>6. CASE AssembleOpen(c)
  BY <1>6 DEF AssembleOpen, db, Exit, Goto, Advance
<1>7. CASE AssembleRead(c)
  BY <1>7 DEF AssembleRead, db, Advance, Goto
<1>8. CASE AssembleDamaged(c)
  BY <1>8 DEF AssembleDamaged, db, Goto
<1>9. CASE AssembleError(c)
  BY <1>9 DEF AssembleError, db, Exit, Goto, Fault, Spend
<1>10. CASE CompleteInvalidate(c)
  BY <1>10 DEF CompleteInvalidate, Exit, Goto, SetFailed
<1>11. CASE InvalidateError(c)
  BY <1>11 DEF InvalidateError, db, Exit, Goto, Fault, Spend
<1>12. CASE CompletePublish(c)
  BY SMTT(40), <1>12 DEF CompletePublish, Exit, Goto, Advance
<1>13. CASE PublishError(c)
  BY <1>13 DEF PublishError, disk, db, Exit, Goto, Fault, Spend
<1>14. CASE Rename(c)
  BY <1>14 DEF Rename, db, Advance, Goto
<1> QED
  BY <1>1, <1>2, <1>3, <1>4, <1>5, <1>6, <1>7, <1>8, <1>9, <1>10, <1>11,
      <1>12, <1>13, <1>14 DEF CompletionStep

\* The publication phases keep the invariant, run by a completion or by Maint.
LEMMA PublicationStepInv ==
  ASSUME IInv, NEW a \in Actors, PublicationStep(a)
  PROVE  IInv'
<1> USE ValuesAssumption, ActorsAssumption, BoundsAssumption
    DEF IInv, TypeOK, RowsTyped, FilesTyped, TasksTyped, Puts, Steps, Statuses,
     PartFiles, Whole, Active, Terminal, Durable, Actors, Locked, Request, Rest,
     HasWriters, OneCompletion, MaintAlone, DownIdle, Assembling, AssemblyInv,
     StillAssembling, Publishing, PublicationInv, DigestInv, PublishedWhole,
     CompleteInv, MaintNoWriters, Linked, IntactInv, ConfirmedOnDisk,
     WriterUndisturbed, ExpiredQuiet
<1>1. CASE ResumeAssembled(a)
  BY SMTT(40), <1>1 DEF ResumeAssembled, Broken, Exit, Goto, Recovered, SetFailed,
      Advance
<1>2. CASE MarkPublished(a)
  BY <1>2 DEF MarkPublished, disk, Broken, Goto, Recovered, SetFailed, Advance
<1>3. CASE VerifyFinal(a)
  BY SMTT(40), <1>3 DEF VerifyFinal, disk, Broken, Exit, Goto, Recovered, SetFailed,
      Advance, FinalIntact
<1>4. CASE Finalize(a)
  BY <1>4 DEF Finalize, disk, Broken, Exit, Goto, Recovered, SetFailed, Leave,
      MaintDone, Advance
<1>5. CASE Cleanup(a)
  BY SMTT(40), <1>5 DEF Cleanup, db, Leave, Exit, Goto, MaintDone, RemoveTree, Fault,
      Spend, NoFault, ClearTree
<1>6. CASE PublicationError(a)
  BY SMTT(40), <1>6 DEF PublicationError, disk, MaintDone, Goto, Broken, Exit,
      Recovered, SetFailed, Fault, Spend
<1> QED
  BY <1>1, <1>2, <1>3, <1>4, <1>5, <1>6 DEF PublicationStep

\* Every outcome of _recover_locked keeps the invariant.
LEMMA RecoverInv ==
  ASSUME IInv, Recover
  PROVE  IInv'
<1> USE ValuesAssumption, ActorsAssumption, BoundsAssumption
    DEF IInv, TypeOK, RowsTyped, FilesTyped, TasksTyped, Puts, Steps, Statuses,
     PartFiles, Whole, Active, Terminal, Durable, Actors, Locked, Request, Rest,
     HasWriters, OneCompletion, MaintAlone, DownIdle, Assembling, AssemblyInv,
     StillAssembling, Publishing, PublicationInv, DigestInv, PublishedWhole,
     CompleteInv, MaintNoWriters, Linked, IntactInv, ConfirmedOnDisk,
     WriterUndisturbed, ExpiredQuiet
<1> PICK why \in {"startup", "expire", "terminal"} :
       \/ RecoverMissing(why) \/ RecoverComplete(why) \/ RecoverWithdrawn(why)
       \/ RecoverAssembling(why) \/ RecoverPublication(why)
       \/ RecoverNothing(why) \/ RecoverError(why)
  BY DEF Recover
<1>1. CASE RecoverMissing(why)
  BY <1>1 DEF RecoverMissing, Recovered, Goto, SetFailed, Kept, Recovery,
      NextPhase, Recovers, Unattended, Completing
<1>2. CASE RecoverComplete(why)
  BY <1>2 DEF RecoverComplete, db, Goto, Recovery, NextPhase, Recovers,
      Unattended, Completing
<1>3. CASE RecoverWithdrawn(why)
  BY <1>3 DEF RecoverWithdrawn, Withdraw, ClearTree, Fault, Spend, NoFault,
      RemoveTree, Kept, Withdrawn, Recovery, NextPhase, Unattended
<1>4. CASE RecoverAssembling(why)
  BY <1>4 DEF RecoverAssembling, Recovered, Goto, Recovery, NextPhase,
      Recovers, Unattended, Completing
<1>5. CASE RecoverPublication(why)
  BY <1>5 DEF RecoverPublication, db, Goto, Recovery, NextPhase, Recovers,
      Residual, Withdrawn, Unattended, Completing, LockFree
<1>6. CASE RecoverNothing(why)
  BY <1>6 DEF RecoverNothing, db, Recovered, Goto, Missing, Recovery,
      NextPhase, Recovers, Residual, Withdrawn, Unattended, Completing,
      LockFree
<1>7. CASE RecoverError(why)
  BY <1>7 DEF RecoverError, MayDiscardTemp, tasks, disk, db, NextPhase, Recovers,
      Unattended, Completing, LockFree, Residual, Withdrawn, Fault, Spend
<1> QED
  BY <1>1, <1>2, <1>3, <1>4, <1>5, <1>6, <1>7

\* Expiry and the legacy import keep the invariant.
LEMMA MaintenanceInv ==
  ASSUME IInv, ExpireRecovered \/ ExpireIdle \/ ImportLegacy
  PROVE  IInv'
<1> USE ValuesAssumption, ActorsAssumption, BoundsAssumption
    DEF IInv, TypeOK, RowsTyped, FilesTyped, TasksTyped, Puts, Steps, Statuses,
     PartFiles, Whole, Active, Terminal, Durable, Actors, Locked, Request, Rest,
     HasWriters, OneCompletion, MaintAlone, DownIdle, Assembling, AssemblyInv,
     StillAssembling, Publishing, PublicationInv, DigestInv, PublishedWhole,
     CompleteInv, MaintNoWriters, Linked, IntactInv, ConfirmedOnDisk,
     WriterUndisturbed, ExpiredQuiet
<1>1. CASE ExpireRecovered
  BY SMTT(40), <1>1 DEF ExpireRecovered, MaintDone, Goto, Expired, RemoveTree, Fault,
      Spend, NoFault, ClearTree
<1>2. CASE ExpireIdle
  BY <1>2 DEF ExpireIdle, tasks, Expired, RemoveTree, Fault, Spend, NoFault,
      ClearTree, Expirable, Unattended, LockFree
<1>3. CASE ImportLegacy
  BY <1>3 DEF ImportLegacy, tasks, disk
<1> QED
  BY <1>1, <1>2, <1>3

\* What losing the bytes of one chunk does to the record of the environment.
LEMMA LosingOne ==
  ASSUME NEW e \in [crash : Nat, fault : Nat, damage : Nat, lost : SUBSET Parts],
         e.damage > 0, NEW p \in Parts,
         NEW d, d = [e EXCEPT !.damage = @ - 1, !.lost = @ \cup {p}]
  PROVE  /\ d.damage = e.damage - 1 /\ d.lost = e.lost \cup {p}
         /\ d \in [crash : Nat, fault : Nat, damage : Nat, lost : SUBSET Parts]
<1>1. d = [crash |-> e.crash, fault |-> e.fault,
           damage |-> e.damage - 1, lost |-> e.lost \cup {p}]
  OBVIOUS
<1>2. e.damage - 1 \in Nat /\ e.lost \cup {p} \in SUBSET Parts
  OBVIOUS
<1> QED
  BY <1>1, <1>2

\* Crashes, restarts, time and damage keep the invariant.
LEMMA EnvironmentInv ==
  ASSUME IInv, Restart \/ Environment
  PROVE  IInv'
<1> USE ValuesAssumption, ActorsAssumption, BoundsAssumption
    DEF IInv, TypeOK, RowsTyped, FilesTyped, TasksTyped, Puts, Steps, Statuses,
     PartFiles, Whole, Active, Terminal, Durable, Actors, Locked, Request, Rest,
     HasWriters, OneCompletion, MaintAlone, DownIdle, Assembling, AssemblyInv,
     StillAssembling, Publishing, PublicationInv, DigestInv, PublishedWhole,
     CompleteInv, MaintNoWriters, Linked, IntactInv, ConfirmedOnDisk,
     WriterUndisturbed, ExpiredQuiet
<1>1. CASE Restart
  BY <1>1 DEF Restart, tasks, disk, db
<1>2. CASE Crash
  BY <1>2 DEF Crash, disk, db, Spend
<1>3. CASE TtlElapses
  BY <1>3 DEF TtlElapses, tasks, disk
<1>4. CASE Damage
  <2>1. PICK wrong \in {None, Bad} :
          \/ \E p \in Parts :
               /\ part[p] # None /\ part' = [part EXCEPT ![p] = wrong]
               /\ env' = [env EXCEPT !.damage = @ - 1, !.lost = @ \cup {p}]
               /\ UNCHANGED <<temp, final>>
          \/ /\ phase = "down" /\ temp # None /\ temp' = wrong
             /\ Spend("damage") /\ UNCHANGED <<part, final>>
          \/ /\ phase = "down" /\ final # None /\ final' = wrong
             /\ Spend("damage") /\ UNCHANGED <<part, temp>>
    BY <1>4 DEF Damage
  <2>2. /\ env.damage > 0 /\ status \in Active
        /\ UNCHANGED <<db, dir, incoming, tasks, phase>>
    BY <1>4 DEF Damage
  <2>3. ASSUME NEW p \in Parts, part' = [part EXCEPT ![p] = wrong],
               env' = [env EXCEPT !.damage = @ - 1, !.lost = @ \cup {p}],
               UNCHANGED <<temp, final>>
        PROVE  IInv'
    <3>1. /\ env'.damage = env.damage - 1 /\ env'.lost = env.lost \cup {p}
          /\ env' \in [crash : Nat, fault : Nat, damage : Nat, lost : SUBSET Parts]
      BY <2>2, <2>3, LosingOne
    <3>2. \A q \in Parts \ env'.lost : part'[q] = part[q]
      BY <2>3, <3>1
    <3>3. IntactInv'
      BY <2>2, <3>1, <3>2 DEF db, tasks
    <3>4. TypeOK'
      BY <2>2, <2>3, <3>1 DEF db, tasks
    <3>5. DigestInv' /\ AssemblyInv' /\ PublicationInv'
      BY <2>2, <2>3 DEF db, tasks
    <3>6. CompleteInv' /\ MaintNoWriters'
      BY <2>2, <2>3 DEF db, tasks
    <3>7. /\ OneCompletion' /\ MaintAlone' /\ DownIdle' /\ PublishedWhole'
          /\ WriterUndisturbed' /\ ExpiredQuiet'
      BY <2>2, <2>3 DEF db, tasks
    <3> QED
      BY <3>3, <3>4, <3>5, <3>6, <3>7
  <2>4. CASE phase = "down" /\ temp' = wrong /\ Spend("damage") /\ UNCHANGED <<part, final>>
    BY <2>2, <2>4 DEF db, tasks, Spend
  <2>5. CASE phase = "down" /\ final' = wrong /\ Spend("damage") /\ UNCHANGED <<part, temp>>
    BY <2>2, <2>5 DEF db, tasks, Spend
  <2> QED
    BY <2>1, <2>3, <2>4, <2>5
<1> QED
  BY <1>1, <1>2, <1>3, <1>4 DEF Environment

\* Every step keeps the invariant.
LEMMA NextInv == IInv /\ [Next]_vars => IInv'
<1> SUFFICES ASSUME IInv, [Next]_vars PROVE IInv'
  OBVIOUS
<1>1. CASE UNCHANGED vars
  BY <1>1 DEF vars, db, disk, tasks, IInv, TypeOK, RowsTyped, FilesTyped,
       TasksTyped, Puts, Steps, Statuses,
     PartFiles, Whole, Active, Terminal, Durable, Actors, Locked, Request, Rest,
     HasWriters, OneCompletion, MaintAlone, DownIdle, Assembling, AssemblyInv,
     StillAssembling, Publishing, PublicationInv, DigestInv, PublishedWhole,
     CompleteInv, MaintNoWriters, Linked, IntactInv, ConfirmedOnDisk,
     WriterUndisturbed, ExpiredQuiet
<1>2. CASE ClientRequest
  BY <1>2, RequestInv
<1>3. ASSUME NEW w \in Writers, WriterStep(w) PROVE IInv'
  BY <1>3, ChunkInv
<1>4. ASSUME NEW c \in Completers, CompletionStep(c) PROVE IInv'
  BY <1>4, CompletionInv
<1>5. ASSUME NEW a \in Actors, PublicationStep(a) PROVE IInv'
  BY <1>5, PublicationStepInv
<1>6. CASE Recover
  BY <1>6, RecoverInv
<1>7. CASE ExpireRecovered \/ ExpireIdle \/ ImportLegacy
  BY <1>7, MaintenanceInv
<1>8. CASE Restart \/ Environment
  BY <1>8, EnvironmentInv
<1> QED
  BY <1>1, <1>2, <1>3, <1>4, <1>5, <1>6, <1>7, <1>8 DEF Next, MaintStep, Actors

\* The inductive invariant holds in every reachable state.
THEOREM Invariance == Spec => []IInv
BY InitInv, NextInv, PTL DEF Spec

\* The rows, the files and the tasks have their types.
THEOREM TypeCorrect == Spec => []TypeOK
<1>1. IInv => TypeOK  BY DEF IInv
<1> QED BY <1>1, Invariance, PTL

\* A complete session has the whole file: the confirmed chunks in their order,
\* under any number of completions, crashes, faults and lost files.
THEOREM CompleteIsWhole == Spec => []PublishedWhole
<1>1. IInv => PublishedWhole  BY DEF IInv
<1> QED BY <1>1, Invariance, PTL

\* An acknowledged chunk is on disk as long as the session can use it, unless
\* something else than the server has changed its own file.
THEOREM AcknowledgedStays == Spec => []ConfirmedOnDisk
<1>1. IInv => ConfirmedOnDisk  BY DEF IInv, IntactInv, ConfirmedOnDisk
<1> QED BY <1>1, Invariance, PTL

\* Cancellation, expiry and recovery never remove a file that is being received.
THEOREM WriterSafe == Spec => []WriterUndisturbed
<1>1. IInv => WriterUndisturbed  BY DEF IInv
<1> QED BY <1>1, Invariance, PTL

\* A session never expires under a chunk request or a running completion.
THEOREM ExpiryIsQuiet == Spec => []ExpiredQuiet
<1>1. IInv => ExpiredQuiet  BY DEF IInv
<1> QED BY <1>1, Invariance, PTL
=============================================================================
