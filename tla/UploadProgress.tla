--------------------------- MODULE UploadProgress ---------------------------
(***************************************************************************)
(* Progress events of one upload: UploadProgressPublisher in               *)
(* src/app/events.py and the routes of src/app/main.py that publish        *)
(* progress, change the upload's status and stop the publisher meanwhile.  *)
(*                                                                         *)
(* The publisher runs on the event loop: what it does under its _lock is   *)
(* one action.  The status changes in a worker thread, at any time, also   *)
(* between the publisher's look at the status and the event it commits.    *)
(***************************************************************************)
EXTENDS Naturals

CONSTANTS Chunks,    \* chunk requests that report progress
          Flush,     \* the task a timer starts to send the value kept back
          Requests,  \* control, completion, cancellation, expiry
          MaxOps     \* bound: how often they are made

ASSUME SendersAssumption == Flush \notin Chunks
ASSUME OpsAssumption == MaxOps \in Nat

VARIABLES
  status,   \* the session: "uploading" (or queued), "blocked", "ended"
  muted,    \* upload in _terminal: "yes", "no"
  gen,      \* _generation
  fresh,    \* "yes" if the last send was less than an interval ago
  pending,  \* _pending: "none", "kept"
  timer,    \* task in _timers: "none", "sleeping", "due", "flushing"
  sender,   \* each _send_if_current
  op,       \* each request: what it asks for, where it is, what it answers
  overlap,  \* "yes" if two requests were under way since the last quiet moment
  aborted,  \* "yes" if the last request ended in an error its route has no
            \* handler for (a history variable)
  ops,      \* requests still allowed
  closing   \* close: "open", "waiting", "closed"

history == <<overlap, aborted>>
vars == <<status, muted, gen, fresh, pending, timer, sender, op, history,
          ops, closing>>

Senders == Chunks \cup {Flush}
Kinds   == {"control", "complete", "cancel", "expire"}
Send(step, g) == [pc |-> step, gen |-> g]
Busy == IF timer = "flushing" THEN "yes" ELSE "no"
AllIdle == \A r \in Requests : op[r].pc = "idle"

\* BLOCKED_STATUSES, and a session that is gone
Blocked == {"blocked", "ended"}

\* _send_lock is held from the check to the end of the broadcast.
SendLockFree == \A s \in Senders : sender[s].pc # "persist"

Init ==
  /\ status = "uploading" /\ muted = "no" /\ gen = 0 /\ fresh = "no"
  /\ pending = "none" /\ timer = "none"
  /\ sender = [s \in Senders |-> Send("idle", 0)]
  /\ op = [r \in Requests |-> [kind |-> "control", pc |-> "idle", awaits |-> "no",
                                result |-> "none"]]
  /\ overlap = "no" /\ aborted = "no" /\ ops = MaxOps /\ closing = "open"

----------------------------------------------------------------------------
(* Publishing.  X_Y before X: X with a plausible bug.                      *)

Accepts == muted = "no" /\ status \notin Blocked

\* _accepts_progress remembers a blocked status.
Refuse == muted' = "yes" /\ UNCHANGED <<fresh, pending, timer, sender>>

\* A chunk request reports progress: at once, or not before the timer.
Publish(c) ==
  /\ sender[c].pc = "idle" /\ closing = "open"
  /\ \/ ~Accepts /\ Refuse
     \/ /\ Accepts /\ fresh = "no" /\ fresh' = "yes"
        /\ sender' = [sender EXCEPT ![c] = Send("wait", gen)]
        /\ UNCHANGED <<muted, pending, timer>>
     \/ /\ Accepts /\ fresh = "yes" /\ pending' = "kept"
        /\ timer' = IF timer = "none" THEN "sleeping" ELSE timer
        /\ UNCHANGED <<muted, fresh, sender>>
  /\ UNCHANGED <<status, gen, op, history, ops, closing>>

\* An interval passes: the next value may go out, the timer's sleep ends.
Elapse ==
  /\ fresh = "yes"
  /\ fresh' = "no" /\ timer' = IF timer = "sleeping" THEN "due" ELSE timer
  /\ UNCHANGED <<status, muted, gen, pending, sender, op, history, ops, closing>>

\* The timer takes the value kept back and starts the flush.
TimerFires ==
  /\ timer = "due" /\ pending = "kept" /\ closing = "open"
  /\ sender[Flush].pc # "persist"
  /\ pending' = "none" /\ timer' = "flushing"
  /\ IF Accepts THEN fresh' = "yes" /\ UNCHANGED muted
                ELSE muted' = "yes" /\ UNCHANGED fresh
  /\ sender' = [sender EXCEPT ![Flush] = Send("wait", gen)]
  /\ UNCHANGED <<status, gen, op, history, ops, closing>>

MaySend_NotClosed(s) == sender[s].gen = gen /\ Accepts /\ closing = "open"
MaySend(s) ==
  sender[s].gen = gen /\ Accepts /\ closing \in {"open", "flushing"}

\* _send_if_current has the _send_lock and looks at generation and status.
Check(s) ==
  /\ sender[s].pc = "wait" /\ SendLockFree
  /\ IF MaySend(s)
     THEN sender' = [sender EXCEPT ![s].pc = "persist"] /\ UNCHANGED muted
     ELSE /\ sender' = [sender EXCEPT ![s] = Send("idle", 0)]
          /\ muted' = IF sender[s].gen = gen /\ status \in Blocked
                      THEN "yes" ELSE muted
  /\ UNCHANGED <<status, gen, fresh, pending, timer, op, history, ops, closing>>

\* The progress event is committed (persist_progress asks for no status) and
\* broadcast; a finished flush leaves its place in _timers.
Persist(s) ==
  /\ sender[s].pc = "persist"
  /\ sender' = [sender EXCEPT ![s] = Send("idle", 0)]
  /\ UNCHANGED <<status, muted, gen, fresh, pending, timer, op, history,
                 ops, closing>>

TimerEnds ==
  /\ timer = "flushing" /\ sender[Flush].pc = "idle"
  /\ timer' = "none"
  /\ UNCHANGED <<status, muted, gen, fresh, pending, sender, op, history,
                 ops, closing>>

----------------------------------------------------------------------------
(* Control, completion, cancellation and expiry.                           *)

\* discard, under the _lock.
Discard_TimerRuns == /\ gen' = gen + 1 /\ pending' = "none" /\ UNCHANGED timer
Discard == /\ gen' = gen + 1 /\ pending' = "none" /\ timer' = "none"

\* ... and then the cancelled timer is awaited, and the _send_lock taken once.
OpAwaited(r) ==
  /\ op[r].awaits = "yes" /\ sender[Flush].pc = "idle"
  /\ op' = [op EXCEPT ![r].awaits = "no"]
  /\ UNCHANGED <<status, muted, gen, fresh, pending, timer, sender, history,
                 ops, closing>>

Drained_LockNotTaken(r) == op[r].awaits = "no"
Drained(r) == op[r].awaits = "no" /\ SendLockFree

\* mark_terminal, before the status changes
OpBegin(r, k) ==
  /\ op[r].pc = "idle" /\ ops > 0 /\ closing = "open"
  /\ op' = [op EXCEPT ![r] = [kind |-> k, pc |-> "draining", awaits |-> Busy,
                              result |-> "none"]]
  /\ ops' = ops - 1
  /\ overlap' = IF ~AllIdle THEN "yes" ELSE IF SendLockFree THEN "no" ELSE overlap
  /\ aborted' = "no"
  /\ Discard /\ muted' = "yes"
  /\ UNCHANGED <<status, fresh, sender, closing>>

OpDrained(r) ==
  /\ op[r].pc = "draining" /\ Drained(r)
  /\ op' = [op EXCEPT ![r].pc = "marked"]
  /\ UNCHANGED <<status, muted, gen, fresh, pending, timer, sender, history,
                 ops, closing>>

\* begin_completion
OpVerify(r) ==
  /\ op[r].pc = "marked" /\ op[r].kind = "complete" /\ status = "uploading"
  /\ status' = "blocked"
  /\ UNCHANGED <<muted, gen, fresh, pending, timer, sender, op, history, ops,
                 closing>>

\* The statuses a request may leave behind.  Completion has passed through
\* verifying, where only itself, cancellation and expiry end it; expiry puts
\* an abandoned verifying session back before it ends it.
Outcomes(k) ==
  CASE k = "control" /\ status # "ended"    -> {"uploading", "blocked"}
    [] k = "complete" /\ status = "blocked" -> {"uploading", "blocked", "ended"}
    [] k = "cancel"                         -> {status, "ended"}
    [] k = "expire" /\ status = "blocked"   -> {"uploading", "blocked", "ended"}
    [] k = "expire" /\ status # "blocked"   -> {status, "ended"}
    [] OTHER                                -> {status}

\* What the route is told: the status it has brought about; a refusal it has
\* a handler for; or "failed", an exception it has no handler for, before or
\* after the commit: an sqlite3.Error, for completion also a lock pool that
\* is full (_KeyedLockCapacityExceeded).
Answers(k, next) ==
  {"failed"}
    \cup (IF next = status THEN {"refused"} ELSE {})
    \cup (IF \/ k = "control" /\ status = "ended"
             \/ k = "cancel" /\ next # "ended" THEN {} ELSE {next})

OpCommit(r) ==
  /\ op[r].pc = "marked" /\ status' \in Outcomes(op[r].kind)
  /\ \E answer \in Answers(op[r].kind, status') :
       /\ op' = [op EXCEPT ![r].pc = "settling", ![r].result = answer]
       /\ aborted' = IF answer = "failed" THEN "yes" ELSE aborted
  /\ UNCHANGED <<muted, gen, fresh, pending, timer, sender, overlap, ops, closing>>

\* Control looks at its own answer, cancellation resets when the lock pool
\* refuses it; otherwise the routes and expire_uploads look at what the
\* session is now.  Nothing is reset by a request that ends in an exception.
Resets_ControlOnly(r) == op[r].kind = "control" /\ op[r].result = "uploading"
Resets(r) ==
  /\ op[r].result # "failed"
  /\ CASE op[r].kind = "control" -> op[r].result \in {"uploading", "refused"}
       [] op[r].kind = "cancel"  -> op[r].result = "refused" \/ status = "uploading"
       [] OTHER                  -> status = "uploading"

OpSettle(r) ==
  /\ op[r].pc = "settling"
  /\ IF Resets(r)
     THEN Discard /\ op' = [op EXCEPT ![r].pc = "resetting", ![r].awaits = Busy]
     ELSE op' = [op EXCEPT ![r].pc = "idle"] /\ UNCHANGED <<gen, pending, timer>>
  /\ UNCHANGED <<status, muted, fresh, sender, history, ops, closing>>

OpReset(r) ==
  /\ op[r].pc = "resetting" /\ Drained(r)
  /\ muted' = "no" /\ fresh' = "no" /\ op' = [op EXCEPT ![r].pc = "idle"]
  /\ aborted' = "no"
  /\ UNCHANGED <<status, gen, pending, timer, sender, overlap, ops, closing>>

\* The table is full and another upload takes this one's place: the one that
\* sent longest ago, here never one with a request under way.
Evict ==
  /\ AllIdle /\ pending = "none" /\ timer = "none" /\ closing = "open"
  /\ <<muted, gen, fresh>> # <<"no", 0, "no">>
  /\ muted' = "no" /\ gen' = 0 /\ fresh' = "no" /\ aborted' = "no"
  /\ UNCHANGED <<status, pending, timer, sender, op, overlap, ops, closing>>

----------------------------------------------------------------------------
(* close, when the server has answered its last request.                   *)

CloseBegin ==
  /\ closing = "open" /\ AllIdle
  /\ \A c \in Chunks : sender[c].pc = "idle"
  /\ closing' = "waiting" /\ timer' = "none"
  /\ gen' = IF pending = "kept" THEN gen + 1 ELSE gen
  /\ UNCHANGED <<status, muted, fresh, pending, sender, op, history, ops>>

\* The cancelled timers have ended; what was kept back is sent now.
CloseSend ==
  /\ closing = "waiting" /\ pending = "kept" /\ sender[Flush].pc = "idle"
  /\ closing' = "flushing" /\ pending' = "none"
  /\ sender' = [sender EXCEPT ![Flush] = Send("wait", gen)]
  /\ UNCHANGED <<status, muted, gen, fresh, timer, op, history, ops>>

CloseEnd ==
  /\ closing \in {"waiting", "flushing"} /\ pending = "none"
  /\ sender[Flush].pc = "idle"
  /\ closing' = "closed"
  /\ UNCHANGED <<status, muted, gen, fresh, pending, timer, sender, op, history, ops>>

----------------------------------------------------------------------------
Sending   == \E s \in Senders : Check(s) \/ Persist(s)
Operation == \E r \in Requests :
               \/ (\E k \in Kinds : OpBegin(r, k)) \/ OpAwaited(r) \/ OpDrained(r)
               \/ OpVerify(r) \/ OpCommit(r) \/ OpSettle(r) \/ OpReset(r)
Next == \/ (\E c \in Chunks : Publish(c)) \/ Elapse
        \/ TimerFires \/ TimerEnds \/ Sending
        \/ Operation \/ Evict
        \/ CloseBegin \/ CloseSend \/ CloseEnd

Spec == Init /\ [][Next]_vars

----------------------------------------------------------------------------
(* Properties.                                                             *)

\* Types; a timer that sleeps has a value to send.
TypeOK ==
  /\ status \in {"uploading", "blocked", "ended"}
  /\ {muted, fresh} \subseteq {"yes", "no"}
  /\ gen \in Nat /\ pending \in {"none", "kept"}
  /\ timer \in {"none", "sleeping", "due", "flushing"}
  /\ sender \in [Senders -> [pc : {"idle", "wait", "persist"}, gen : Nat]]
  /\ op \in [Requests ->
              [kind : Kinds,
               pc : {"idle", "draining", "marked", "settling", "resetting"},
               awaits : {"yes", "no"},
               result : {"none", "uploading", "blocked", "ended", "refused",
                         "failed"}]]
  /\ {overlap, aborted} \subseteq {"yes", "no"} /\ ops \in 0..MaxOps
  /\ closing \in {"open", "waiting", "flushing", "closed"}
  /\ timer \in {"sleeping", "due"} => pending = "kept"

\* No progress event is committed once the upload is paused, verifying,
\* failed, complete, cancelled or expired, although persist_progress does
\* not ask for the status and timers and requests are under way.  (The reset
\* of one request takes away the mark of a second that overlaps it.)
QuietAfterChange ==
  [][\A s \in Senders :
       sender[s].pc = "persist" /\ sender'[s].pc = "idle"
         => status \notin Blocked \/ overlap = "yes"]_vars

\* An upload that goes on can report progress again: resumed, or not
\* completed, cancelled or expired after all, unless the last of these
\* requests ended in an exception its route does not handle (main.py, reset).
UnmutedUnlessAborted ==
  AllIdle /\ status = "uploading" => muted = "no" \/ aborted = "yes"


\* The value kept back when the server shuts down is still committed: the
\* generation close gives it is current and nothing has muted the upload, but
\* for a blocked status or a request that left its mark (events.py, close).
CloseFlushes ==
  [][closing = "flushing" /\ sender[Flush].pc = "wait"
       => \/ sender'[Flush].pc # "idle" \/ status \in Blocked
          \/ aborted = "yes"]_vars
=============================================================================
