------------------------- MODULE UploadProgressProofs -------------------------
(***************************************************************************)
(* Proofs about UploadProgress for every number of chunk requests and of   *)
(* control, completion, cancellation and expiry requests.                  *)
(***************************************************************************)
EXTENDS UploadProgress, TLAPS

USE SendersAssumption, OpsAssumption

----------------------------------------------------------------------------
(* The inductive invariant.                                                *)

\* close finds no request and no chunk under way, and nobody comes later;
\* what it sends carries the current generation.
ClosingInv ==
  closing # "open" =>
    /\ AllIdle /\ timer = "none"
    /\ \A c \in Chunks : sender[c].pc = "idle"
    /\ closing = "flushing" /\ sender[Flush].pc # "idle" => sender[Flush].gen = gen

\* Whoever will take the mark away; a request that fails says so first.
Unmutes(r) == \/ op[r].pc \in {"draining", "marked", "resetting"}
              \/ /\ op[r].pc = "settling" /\ op[r].result # "failed"
                 /\ op[r].kind = "control" => op[r].result \in {"uploading", "refused"}
ResumeInv ==
  status = "uploading" /\ muted = "yes" /\ aborted = "no" =>
    \E r \in Requests : Unmutes(r)

\* A request without company keeps the upload muted, and once it has waited
\* for the send_lock nobody commits progress until it is over.
QuietInv ==
  overlap = "no" =>
    /\ \A r, q \in Requests : op[r].pc # "idle" /\ op[q].pc # "idle" => r = q
    /\ \A r \in Requests : op[r].pc # "idle" => muted = "yes"
    /\ \A r \in Requests : op[r].pc \in {"marked", "settling", "resetting"}
                             => SendLockFree
    /\ \A s \in Senders : sender[s].pc = "persist" => status = "uploading"

ProgressInv == TypeOK /\ ClosingInv /\ ResumeInv /\ QuietInv

LEMMA InitProgress == Init => ProgressInv
BY DEF Init, ProgressInv, TypeOK, ClosingInv, ResumeInv, QuietInv, Unmutes, AllIdle,
   SendLockFree, Senders, Send, Kinds

----------------------------------------------------------------------------
(* Types.                                                                  *)

LEMMA PublisherTypes ==
  ASSUME ProgressInv,
         \/ \E c \in Chunks : Publish(c)
         \/ Elapse \/ TimerFires \/ TimerEnds \/ Evict
         \/ CloseBegin \/ CloseSend \/ CloseEnd
  PROVE  TypeOK'
<1> USE DEF ProgressInv, TypeOK, Senders, Send, history
<1>1. ASSUME NEW c \in Chunks, Publish(c) PROVE TypeOK'
  BY <1>1 DEF Publish, Refuse
<1>2. CASE Elapse
  BY <1>2 DEF Elapse
<1>3. CASE TimerFires
  BY <1>3 DEF TimerFires
<1>4. CASE TimerEnds
  BY <1>4 DEF TimerEnds
<1>5. CASE Evict
  BY <1>5 DEF Evict
<1>6. CASE CloseBegin
  BY <1>6 DEF CloseBegin
<1>7. CASE CloseSend
  BY <1>7 DEF CloseSend, ClosingInv
<1>8. CASE CloseEnd
  BY <1>8 DEF CloseEnd
<1> QED
  BY <1>1, <1>2, <1>3, <1>4, <1>5, <1>6, <1>7, <1>8

LEMMA SenderTypes ==
  ASSUME ProgressInv, NEW s \in Senders, Check(s) \/ Persist(s)
  PROVE  TypeOK'
<1> USE DEF ProgressInv, TypeOK, Send, history
<1>1. CASE Check(s)
  BY <1>1 DEF Check
<1>2. CASE Persist(s)
  BY <1>2 DEF Persist
<1> QED
  BY <1>1, <1>2

RequestStep(r) ==
  \/ (\E k \in Kinds : OpBegin(r, k)) \/ OpAwaited(r) \/ OpDrained(r)
  \/ OpVerify(r) \/ OpCommit(r) \/ OpSettle(r) \/ OpReset(r)

LEMMA OutcomeTypes ==
  ASSUME TypeOK, NEW k \in Kinds, NEW st \in Outcomes(k)
  PROVE  /\ st \in {"uploading", "blocked", "ended"}
         /\ Answers(k, st) \subseteq {"uploading", "blocked", "ended", "refused", "failed"}
BY DEF TypeOK, Kinds, Outcomes, Answers

LEMMA RequestTypes ==
  ASSUME ProgressInv, NEW r \in Requests, RequestStep(r)
  PROVE  TypeOK'
<1> USE DEF ProgressInv, TypeOK, history
<1>1. ASSUME NEW k \in Kinds, OpBegin(r, k) PROVE TypeOK'
  BY <1>1 DEF OpBegin, Discard, Busy
<1>2. CASE OpAwaited(r)
  BY <1>2 DEF OpAwaited
<1>3. CASE OpDrained(r)
  BY <1>3 DEF OpDrained
<1>4. CASE OpVerify(r)
  BY <1>4 DEF OpVerify
<1>5. CASE OpCommit(r)
  <2>1. op[r].kind \in Kinds /\ status' \in Outcomes(op[r].kind)
    BY <1>5 DEF OpCommit
  <2>2. /\ status' \in {"uploading", "blocked", "ended"}
        /\ Answers(op[r].kind, status')
             \subseteq {"uploading", "blocked", "ended", "refused", "failed"}
    BY <2>1, OutcomeTypes
  <2>3. PICK answer \in Answers(op[r].kind, status') :
          /\ op' = [op EXCEPT ![r].pc = "settling", ![r].result = answer]
          /\ aborted' = IF answer = "failed" THEN "yes" ELSE aborted
    BY <1>5 DEF OpCommit
  <2> HIDE DEF Answers
  <2> DEFINE Record == [kind : Kinds,
                pc : {"idle", "draining", "marked", "settling", "resetting"},
                awaits : {"yes", "no"},
                result : {"none", "uploading", "blocked", "ended", "refused", "failed"}]
             next == [op[r] EXCEPT !.pc = "settling", !.result = answer]
  <2>4. op' = [op EXCEPT ![r] = next]
    BY <2>3
  <2>5. next \in Record
    <3>1. op[r] \in Record
      OBVIOUS
    <3> QED
      BY <2>2, <3>1
  <2> HIDE DEF next
  <2>6. op' \in [Requests -> Record]
    BY <2>4, <2>5
  <2> QED
    BY <1>5, <2>2, <2>3, <2>6 DEF OpCommit
<1>6. CASE OpSettle(r)
  BY <1>6 DEF OpSettle, Discard, Busy
<1>7. CASE OpReset(r)
  BY <1>7 DEF OpReset
<1> QED
  BY <1>1, <1>2, <1>3, <1>4, <1>5, <1>6, <1>7 DEF RequestStep

----------------------------------------------------------------------------
(* The other parts.                                                        *)

LEMMA PublisherKeeps ==
  ASSUME ProgressInv,
         \/ \E c \in Chunks : Publish(c)
         \/ Elapse \/ TimerFires \/ TimerEnds \/ Evict
         \/ CloseBegin \/ CloseSend \/ CloseEnd
  PROVE  ClosingInv' /\ ResumeInv' /\ QuietInv'
<1> USE DEF ProgressInv, TypeOK, ClosingInv, ResumeInv, QuietInv, AllIdle, Unmutes,
            SendLockFree, Senders, Send, Accepts, Blocked, history
<1>1. ASSUME NEW c \in Chunks, Publish(c) PROVE ClosingInv' /\ ResumeInv' /\ QuietInv'
  BY <1>1 DEF Publish, Refuse
<1>2. CASE Elapse
  BY <1>2 DEF Elapse
<1>3. CASE TimerFires
  BY <1>3 DEF TimerFires
<1>4. CASE TimerEnds
  BY <1>4 DEF TimerEnds
<1>5. CASE Evict
  BY <1>5 DEF Evict
<1>6. CASE CloseBegin
  BY <1>6 DEF CloseBegin
<1>7. CASE CloseSend
  BY <1>7 DEF CloseSend
<1>8. CASE CloseEnd
  BY <1>8 DEF CloseEnd
<1> QED
  BY <1>1, <1>2, <1>3, <1>4, <1>5, <1>6, <1>7, <1>8

LEMMA SenderKeeps ==
  ASSUME ProgressInv, NEW s \in Senders, Check(s) \/ Persist(s)
  PROVE  ClosingInv' /\ ResumeInv' /\ QuietInv'
<1> USE DEF ProgressInv, TypeOK, ClosingInv, ResumeInv, QuietInv, AllIdle, Unmutes,
            SendLockFree, Senders, Send, Accepts, Blocked, history
<1>1. CASE Check(s)
  BY <1>1 DEF Check, MaySend
<1>2. CASE Persist(s)
  BY <1>2 DEF Persist
<1> QED
  BY <1>1, <1>2

LEMMA RequestKeepsClosing ==
  ASSUME ProgressInv, NEW r \in Requests, RequestStep(r)
  PROVE  ClosingInv'
<1>1. closing' = closing /\ sender' = sender
  BY DEF RequestStep, OpBegin, OpAwaited, OpDrained, OpVerify, OpCommit, OpSettle,
     OpReset
<1>2. closing = "open" \/ OpAwaited(r)
  BY DEF RequestStep, OpBegin, OpDrained, OpVerify, OpCommit, OpSettle, OpReset,
     ProgressInv, ClosingInv, AllIdle
<1>3. ASSUME OpAwaited(r), closing # "open" PROVE AllIdle' /\ timer' = "none" /\ gen' = gen
  BY <1>3 DEF OpAwaited, ProgressInv, TypeOK, ClosingInv, AllIdle
<1> QED
  BY <1>1, <1>2, <1>3 DEF ProgressInv, ClosingInv

LEMMA RequestKeepsResume ==
  ASSUME ProgressInv, NEW r \in Requests, RequestStep(r)
  PROVE  ResumeInv'
<1> USE DEF ProgressInv, TypeOK, ResumeInv, Unmutes, history
<1>1. ASSUME NEW k \in Kinds, OpBegin(r, k) PROVE ResumeInv'
  BY <1>1 DEF OpBegin
<1>2. CASE OpAwaited(r)
  BY <1>2 DEF OpAwaited
<1>3. CASE OpDrained(r)
  BY <1>3 DEF OpDrained
<1>4. CASE OpVerify(r)
  BY <1>4 DEF OpVerify
<1>5. CASE OpCommit(r)
  <2>1. op[r].kind \in Kinds /\ status' \in Outcomes(op[r].kind)
    BY <1>5 DEF OpCommit
  <2>2. PICK answer \in Answers(op[r].kind, status') :
          /\ op' = [op EXCEPT ![r].pc = "settling", ![r].result = answer]
          /\ aborted' = IF answer = "failed" THEN "yes" ELSE aborted
    BY <1>5 DEF OpCommit
  <2>3. status' = "uploading" /\ aborted' = "no" => Unmutes(r)'
    BY <2>1, <2>2 DEF Answers, Outcomes, Kinds
  <2> QED
    BY <2>3
<1>6. CASE OpSettle(r)
  BY <1>6 DEF OpSettle, Resets, Kinds
<1>7. CASE OpReset(r)
  BY <1>7 DEF OpReset
<1> QED
  BY <1>1, <1>2, <1>3, <1>4, <1>5, <1>6, <1>7 DEF RequestStep

LEMMA RequestKeepsQuiet ==
  ASSUME ProgressInv, NEW r \in Requests, RequestStep(r)
  PROVE  QuietInv'
<1> USE DEF ProgressInv, TypeOK, QuietInv, SendLockFree, AllIdle, history
<1>1. ASSUME NEW k \in Kinds, OpBegin(r, k) PROVE QuietInv'
  BY <1>1 DEF OpBegin
<1>2. CASE OpAwaited(r)
  BY <1>2 DEF OpAwaited
<1>3. CASE OpDrained(r)
  BY <1>3 DEF OpDrained, Drained
<1>4. CASE OpVerify(r)
  BY <1>4 DEF OpVerify
<1>5. CASE OpCommit(r)
  BY <1>5 DEF OpCommit
<1>6. CASE OpSettle(r)
  BY <1>6 DEF OpSettle
<1>7. CASE OpReset(r)
  BY <1>7 DEF OpReset
<1> QED
  BY <1>1, <1>2, <1>3, <1>4, <1>5, <1>6, <1>7 DEF RequestStep

LEMMA ProgressStep == ProgressInv /\ [Next]_vars => ProgressInv'
<1> SUFFICES ASSUME ProgressInv, [Next]_vars PROVE ProgressInv'
  OBVIOUS
<1>1. ASSUME NEW r \in Requests, RequestStep(r) PROVE ProgressInv'
  BY <1>1, RequestTypes, RequestKeepsClosing, RequestKeepsResume, RequestKeepsQuiet
     DEF ProgressInv
<1>2. ASSUME NEW s \in Senders, Check(s) \/ Persist(s) PROVE ProgressInv'
  BY <1>2, SenderTypes, SenderKeeps DEF ProgressInv
<1>3. CASE \/ \E c \in Chunks : Publish(c)
           \/ Elapse \/ TimerFires \/ TimerEnds \/ Evict
           \/ CloseBegin \/ CloseSend \/ CloseEnd
  BY <1>3, PublisherTypes, PublisherKeeps DEF ProgressInv
<1>4. CASE UNCHANGED vars
  BY <1>4 DEF vars, history, ProgressInv, TypeOK, ClosingInv, ResumeInv, QuietInv, AllIdle,
       Unmutes, SendLockFree
<1> QED
  BY <1>1, <1>2, <1>3, <1>4 DEF Next, Sending, Operation, RequestStep

----------------------------------------------------------------------------
\* The mark, the generation, the timer and the requests under way stay
\* consistent, however chunks, timers, requests and the shutdown interleave.
THEOREM ProgressInvariance == Spec => []ProgressInv
<1> QED
  BY InitProgress, ProgressStep, PTL DEF Spec

\* Every variable keeps its type; a timer that sleeps has a value to send.
THEOREM ProgressTypeCorrect == Spec => []TypeOK
<1>1. ProgressInv => TypeOK
  BY DEF ProgressInv
<1> QED
  BY <1>1, ProgressInvariance, PTL

\* An upload that goes on after its requests can report progress again, but
\* for a request that ended in an exception its route does not handle.
THEOREM UploadingIsUnmuted == Spec => []UnmutedUnlessAborted
<1>1. ProgressInv => UnmutedUnlessAborted
  BY DEF ProgressInv, TypeOK, ResumeInv, Unmutes, UnmutedUnlessAborted, AllIdle
<1> QED
  BY <1>1, ProgressInvariance, PTL

\* Who commits a progress event has passed the check under the send_lock,
\* and no request without company has changed the status since.
THEOREM ProgressIsQuiet == Spec => QuietAfterChange
<1> DEFINE Quiet == \A s \in Senders :
                      sender[s].pc = "persist" /\ sender'[s].pc = "idle"
                        => status \notin Blocked \/ overlap = "yes"
<1>1. ProgressInv => Quiet
  BY DEF ProgressInv, TypeOK, QuietInv, Blocked
<1>2. ProgressInv /\ [Next]_vars => [Quiet]_vars
  BY <1>1
<1> QED
  BY <1>2, ProgressInvariance, PTL DEF Spec, QuietAfterChange

\* The value kept back at shutdown is committed unless the upload is blocked
\* or the last request has left its mark.
THEOREM CloseSendsTheRest == Spec => CloseFlushes
<1> DEFINE Kept == closing = "flushing" /\ sender[Flush].pc = "wait"
                     => \/ sender'[Flush].pc # "idle" \/ status \in Blocked
                        \/ aborted = "yes"
<1>1. ASSUME ProgressInv, [Next]_vars, closing = "flushing", sender[Flush].pc = "wait",
             status \notin Blocked, aborted # "yes"
      PROVE  sender'[Flush].pc # "idle"
  <2> USE DEF ProgressInv, TypeOK, ClosingInv, Senders
  <2>1. status = "uploading" /\ AllIdle /\ muted = "no" /\ sender[Flush].gen = gen
    BY <1>1 DEF ResumeInv, Unmutes, AllIdle, Blocked
  <2>2. MaySend(Flush)
    BY <1>1, <2>1 DEF MaySend, Accepts
  <2>3. ASSUME NEW s \in Senders, Check(s) \/ Persist(s)
        PROVE  sender'[Flush].pc # "idle"
    BY <1>1, <2>2, <2>3 DEF Check, Persist
  <2>4. ASSUME NEW r \in Requests, RequestStep(r) PROVE sender' = sender
    BY <2>4 DEF RequestStep, OpBegin, OpAwaited, OpDrained, OpVerify, OpCommit,
         OpSettle, OpReset
  <2>5. CASE \/ \E c \in Chunks : Publish(c)
             \/ Elapse \/ TimerFires \/ TimerEnds \/ Evict
             \/ CloseBegin \/ CloseSend \/ CloseEnd \/ UNCHANGED vars
    BY <1>1, <2>5 DEF Publish, Elapse, TimerFires, TimerEnds, Evict, CloseBegin,
         CloseSend, CloseEnd, vars
  <2> QED
    BY <1>1, <2>3, <2>4, <2>5 DEF Next, Sending, Operation, RequestStep
<1>2. ProgressInv /\ [Next]_vars => [Kept]_vars
  BY <1>1
<1> QED
  BY <1>2, ProgressInvariance, PTL DEF Spec, CloseFlushes
=============================================================================
