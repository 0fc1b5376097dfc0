---------------------------- MODULE EventStream ----------------------------
(***************************************************************************)
(* The event log and the websocket stream of one device: the log of        *)
(* src/app/event_store.py, the events_ws handler of src/app/main.py, the   *)
(* EventConnection and EventHub of src/app/events.py, and the browser's    *)
(* connectEvents in src/web/js/api.js.  Devices share nothing but the log  *)
(* and the order of broadcasts, so one device is enough.                   *)
(*                                                                         *)
(* An event is its sequence number.  What EventConnection does under its   *)
(* send_lock is one action; commits and broadcasts of other requests       *)
(* happen between any two of them.                                         *)
(***************************************************************************)
EXTENDS Naturals, Sequences, FiniteSetsExt

CONSTANTS Retention,     \* event_retention_limit
          PageSize,      \* event_window_after: events of one replay page
          PendingLimit,  \* EventConnection._pending_limit
          None,          \* no message
          MaxEvents,     \* bound: events committed
          MaxSilent,     \* bound: committed events nobody broadcasts
          MaxFaults      \* bound: lost sockets, failed applications, crashes

ASSUME LimitsAssumption == {Retention, PageSize, PendingLimit} \subseteq Nat \ {0}
ASSUME StreamBoundsAssumption == {MaxEvents, MaxSilent, MaxFaults} \subseteq Nat

VARIABLES
  \* the server
  latest,    \* MAX(sequence) of events
  unsent,    \* committed, hub.broadcast not called yet
  arriving,  \* hub.broadcast under way, waiting for the send_lock
  link,      \* the device's connection: "closed", "replay", "live"
  last,      \* last_sequence
  pending,   \* pending: events kept back
  overflow,  \* _replay_overflow_target
  target,    \* replay_target of the handler
  page,      \* replayed events read but not yet sent
  \* the wire and the device
  channel,   \* messages sent and not yet handled by the device
  applying,  \* the message onEvent is handling, or None
  stale,     \* "yes" if the socket it came from has been replaced
  seen,      \* events a snapshot being read is sure to show
  known,     \* events whose effect the device shows
  cursor,    \* lastAppliedSequence
  budget     \* silent events and faults still allowed

connection == <<link, last, pending, overflow, target, page>>
handling   == <<applying, stale, seen>>
device     == <<channel, handling, known, cursor>>
vars == <<latest, unsent, arriving, connection, device, budget>>

Message(kind, n) == [type |-> kind, seq |-> n]
Messages == [type : {"event", "resync", "ready"}, seq : 0..MaxEvents]
ASSUME NoMessageAssumption == None \notin Messages

Spend(kind) == /\ budget[kind] > 0
               /\ budget' = [budget EXCEPT ![kind] = @ - 1]

----------------------------------------------------------------------------
(* The log.  Sequences are contiguous: AUTOINCREMENT, and a rolled back    *)
(* insertion takes its number back.  X_Y before X: X with a plausible bug. *)

\* EventWriter.trim, in the transaction of each append.
Earliest == IF latest > Retention THEN latest - Retention + 1 ELSE 1
Log == Earliest..latest

\* event_window_after: the oldest events of the log after n.
Window(n, limit) == LET first == Max({n + 1, Earliest})
                    IN  {s \in Log : s \in first..(first + limit - 1)}

\* Events after n that the log no longer holds.
TooOld_OffByOne(n) == n + 1 < Earliest - 1
TooOld(n) == n < Earliest - 1

Above_Unfiltered(S, n) == S
Above(S, n) == {s \in S : s > n}

\* _flush_pending: how far the events kept back continue what was sent.
FlushEnd(n, S) == Max({m \in n..Max(S \cup {n}) : n+1..m \subseteq S})
Flushed(n, S) ==
  [i \in 1..(FlushEnd(n, S) - n) |-> Message("event", n + i)]

Init ==
  /\ latest = 0 /\ unsent = {} /\ arriving = {}
  /\ link = "closed" /\ last = 0 /\ pending = {} /\ overflow = 0
  /\ target = 0 /\ page = {}
  /\ channel = <<>> /\ applying = None /\ stale = "no" /\ seen = 0
  /\ known = {} /\ cursor = 0
  /\ budget = [silent |-> MaxSilent, fault |-> MaxFaults]

----------------------------------------------------------------------------
(* Commits and broadcasts.                                                 *)

\* A mutation commits; its route will broadcast the event ...
Commit ==
  /\ latest < MaxEvents
  /\ latest' = latest + 1 /\ unsent' = unsent \cup {latest'}
  /\ UNCHANGED <<arriving, connection, device, budget>>

\* ... or its event is dropped: complete has put an abandoned assembly back to
\* uploading and raises, for lack of room or by an error, before it hands on
\* the events collected so far.
CommitSilent ==
  /\ latest < MaxEvents /\ Spend("silent")
  /\ latest' = latest + 1
  /\ UNCHANGED <<unsent, arriving, connection, device>>

\* EventHub.broadcast takes the connections that exist when it begins.
Broadcast(e) ==
  /\ e \in unsent
  /\ unsent' = unsent \ {e}
  /\ arriving' = IF link = "closed" THEN arriving ELSE arriving \cup {e}
  /\ UNCHANGED <<latest, connection, device, budget>>

\* _require_resync, and what _flush_pending sends after it.
Resync(n, S, more) ==
  LET rest == Above(S, n) IN
  /\ last' = FlushEnd(n, rest)
  /\ pending' = Above(rest, last')
  /\ channel' = channel \o <<Message("resync", n)>> \o Flushed(n, rest) \o more

Flush(n, S, more) ==
  /\ last' = FlushEnd(n, S)
  /\ pending' = Above(S, last')
  /\ channel' = channel \o Flushed(n, S) \o more

\* queue_live drops the oldest events above the limit.
Trimmed_OneMore(S) ==
  IF Cardinality(S) > PendingLimit + 1 THEN S \ {Min(S)} ELSE S
Trimmed(S) == IF Cardinality(S) > PendingLimit THEN S \ {Min(S)} ELSE S

\* _backfill_and_flush asks the log when the next event is missing.
Backfilled_Never(n, S) == S
Backfilled(n, S) ==
  IF n + 1 \in S THEN S ELSE S \cup Window(n, PendingLimit)

\* queue_live under the send_lock.
LiveKnown(e) == e <= last /\ UNCHANGED <<connection, channel>>
LiveKept(e) ==
  /\ link = "replay" /\ e > last
  /\ pending' = Trimmed(pending \cup {e})
  /\ overflow' = IF Trimmed(pending \cup {e}) # pending \cup {e}
                 THEN Max({overflow, e}) ELSE overflow
  /\ UNCHANGED <<link, last, target, page, channel>>
LiveSent(e) ==
  /\ link = "live" /\ e > last
  /\ LET S == Trimmed(pending \cup {e})
     IN  IF last + 1 \notin S /\ TooOld(last)
         THEN Resync(latest, S, <<>>)
         ELSE Flush(last, Backfilled(last, S), <<>>)
  /\ UNCHANGED <<link, overflow, target, page>>

QueueLive(e) ==
  /\ e \in arriving /\ arriving' = arriving \ {e}
  /\ LiveKnown(e) \/ LiveKept(e) \/ LiveSent(e)
  /\ UNCHANGED <<latest, unsent, handling, known, cursor, budget>>

----------------------------------------------------------------------------
(* events_ws: from the accepted socket to the live stream.                 *)

\* The window is read and the connection registered without an await; the
\* browser asks for what follows its cursor, and drops what it still had
\* from the socket before.
Connect ==
  /\ link = "closed"
  /\ link' = "replay" /\ last' = cursor /\ target' = latest
  /\ pending' = {} /\ overflow' = 0 /\ page' = {}
  /\ channel' = <<>> /\ stale' = IF applying = None THEN "no" ELSE "yes"
  /\ UNCHANGED <<latest, unsent, arriving, applying, seen, known, cursor, budget>>

\* The loop reads a page, or finds the cursor older than the log.
ReadPage ==
  /\ link = "replay" /\ page = {} /\ last < target
  /\ IF TooOld(last)
     THEN /\ last' = target /\ pending' = Above(pending, target)
          /\ channel' = Append(channel, Message("resync", target))
          /\ UNCHANGED page
     ELSE /\ page' = {s \in Window(last, PageSize) : s <= target}
          /\ UNCHANGED <<last, pending, channel>>
  /\ UNCHANGED <<latest, unsent, arriving, link, overflow, target, handling,
                 known, cursor, budget>>

\* send_replay
SendReplay ==
  /\ link = "replay" /\ page # {}
  /\ LET s == Min(page) IN
     /\ page' = page \ {s} /\ last' = s /\ pending' = pending \ {s}
     /\ channel' = Append(channel, Message("event", s))
  /\ UNCHANGED <<latest, unsent, arriving, link, overflow, target, handling,
                 known, cursor, budget>>

Overflowed_Ignored == FALSE
Overflowed == overflow > 0

\* finish_replay
FinishReplay ==
  /\ link = "replay" /\ page = {} /\ last >= target
  /\ link' = "live" /\ overflow' = 0
  /\ LET S == Above(pending, last)
         ready == <<Message("ready", last')>>
     IN  IF Overflowed
         THEN Resync(Max({last, overflow} \cup S), S, ready)
         ELSE Flush(last, S, ready)
  /\ UNCHANGED <<latest, unsent, arriving, target, page, handling, known,
                 cursor, budget>>

----------------------------------------------------------------------------
(* The device.                                                             *)

\* onmessage: one message after the other, also across sockets.  A resync
\* reads the authoritative snapshot, which shows at least what is committed.
ApplyBegin ==
  /\ applying = None /\ channel # <<>>
  /\ applying' = Head(channel) /\ channel' = Tail(channel)
  /\ stale' = "no" /\ seen' = IF Head(channel).type = "resync" THEN latest ELSE 0
  /\ UNCHANGED <<latest, unsent, arriving, connection, known, cursor, budget>>

Learned == CASE applying.type = "event"  -> {applying.seq}
             [] applying.type = "resync" -> 1..seen
             [] applying.type = "ready"  -> {}

\* A message of a socket that was replaced meanwhile moves no cursor.
Counts == stale = "no"

ApplyDone ==
  /\ applying # None /\ applying' = None
  /\ known' = known \cup Learned
  /\ cursor' = IF Counts THEN Max({cursor, applying.seq}) ELSE cursor
  /\ UNCHANGED <<latest, unsent, arriving, connection, channel, stale, seen,
                 budget>>

\* EventHub forgets the connection; what waits for its lock reaches nobody.
HangUp == /\ link' = "closed" /\ arriving' = {}
          /\ last' = 0 /\ pending' = {} /\ overflow' = 0
          /\ target' = 0 /\ page' = {}

\* onEvent failed: the socket is closed and later messages are ignored.
ApplyFail ==
  /\ applying # None /\ applying' = None /\ Spend("fault")
  /\ IF stale = "no" THEN HangUp /\ channel' = <<>>
     ELSE UNCHANGED <<connection, arriving, channel>>
  /\ UNCHANGED <<latest, unsent, stale, seen, known, cursor>>

\* The network, a failed send or a failed backfill ends the connection; some
\* of what was sent may still arrive.
Received == \E n \in 0..Len(channel) : channel' = SubSeq(channel, 1, n)
Drop ==
  /\ link # "closed" /\ Spend("fault")
  /\ HangUp /\ Received
  /\ UNCHANGED <<latest, unsent, handling, known, cursor>>

\* The process dies between commits and their broadcasts.
Crash ==
  /\ Spend("fault")
  /\ unsent' = {} /\ HangUp /\ Received
  /\ UNCHANGED <<latest, handling, known, cursor>>

----------------------------------------------------------------------------
Server == \/ \E e \in 1..MaxEvents : Broadcast(e) \/ QueueLive(e)
          \/ Connect \/ ReadPage \/ SendReplay \/ FinishReplay
Device == ApplyBegin \/ ApplyDone
Next == \/ Commit \/ CommitSilent \/ ApplyFail \/ Drop \/ Crash
        \/ Server \/ Device

Spec == Init /\ [][Next]_vars

\* The event loop runs every task that can run, and the browser handles
\* every message and reconnects; nobody has to commit, and nothing to fail.
FairSpec == /\ Spec
            /\ \A e \in 1..MaxEvents : WF_vars(Broadcast(e)) /\ WF_vars(QueueLive(e))
            /\ WF_vars(Connect) /\ WF_vars(ReadPage) /\ WF_vars(SendReplay)
            /\ WF_vars(FinishReplay) /\ WF_vars(ApplyBegin) /\ WF_vars(ApplyDone)

----------------------------------------------------------------------------
(* Properties.                                                             *)

\* Types; events kept back are committed and not yet sent.
TypeOK ==
  /\ latest \in 0..MaxEvents
  /\ unsent \subseteq 1..latest /\ arriving \subseteq 1..latest
  /\ link \in {"closed", "replay", "live"}
  /\ last \in 0..latest /\ target \in 0..latest /\ overflow \in 0..latest
  /\ pending \subseteq (last + 1)..latest
  /\ page \subseteq (last + 1)..target
  /\ channel \in Seq(Messages) /\ applying \in Messages \cup {None}
  /\ stale \in {"yes", "no"} /\ seen \in 0..latest
  /\ known \subseteq 1..latest /\ cursor \in 0..latest
  /\ budget \in [{"silent", "fault"} -> Nat]

\* Whatever arrives during a replay or between two gaps, a connection keeps
\* back no more than its limit (events.py, _pending_limit).
PendingBounded == Cardinality(pending) <= PendingLimit

\* The device's cursor never passes an event it does not show and never goes
\* back: replay pages, live events, resyncs, lost sockets and failed
\* applications implement EventFeed (api.js lastAppliedSequence).
Feed == INSTANCE EventFeed
FeedKept == Feed!Spec

\* An event that reaches an open stream brings everything before it along,
\* also what was never broadcast: up to PendingLimit missing events are read
\* from the log (events.py, _backfill_and_flush).
LiveEventDelivered ==
  [][\A e \in arriving \ arriving' :
       link = "live" /\ link' = "live"
         => last' >= Min({e, last + PendingLimit})]_vars

\* If every committed event is broadcast, the device catches up with the log
\* once commits pause (here: at the bound), over lost sockets, crashes, failed
\* applications, replays that overflow and a log that forgets.
AllBroadcast == budget.silent = MaxSilent
CaughtUp == <>[](cursor = latest \/ ~AllBroadcast)
=============================================================================
