----------------------------- MODULE EventFeed -----------------------------
(***************************************************************************)
(* What the event stream promises a connected device, whatever happens to  *)
(* sockets, queues and the server process: committed events have one       *)
(* order, the device's cursor only moves forward, and every event up to    *)
(* the cursor is reflected in what the device shows.                       *)
(***************************************************************************)
EXTENDS Naturals

VARIABLES latest,  \* events committed so far, numbered 1..latest
          known,   \* events whose effect the device shows
          cursor   \* the sequence the device would resume from

feed == <<latest, known, cursor>>

Init == latest = 0 /\ known = {} /\ cursor = 0

\* A mutation commits its event.
Publish == latest' = latest + 1 /\ UNCHANGED <<known, cursor>>

\* The device applies events or a snapshot, and may move its cursor over
\* what it now shows.
Deliver ==
  /\ known' \in SUBSET (1..latest) /\ known \subseteq known'
  /\ cursor' \in cursor..latest /\ 1..cursor' \subseteq known'
  /\ UNCHANGED latest

Spec == Init /\ [][Publish \/ Deliver]_feed
=============================================================================
