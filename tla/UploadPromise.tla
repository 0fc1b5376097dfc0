--------------------------- MODULE UploadPromise ---------------------------
(***************************************************************************)
(* What a resumable upload promises to its client, without locks, files or *)
(* phases: chunks are confirmed one by one and stay confirmed unless their *)
(* own bytes are lost, the file appears in one step, whole, and a session  *)
(* that has ended never changes again.  ResumableUpload is shown to        *)
(* implement it.                                                           *)
(***************************************************************************)
EXTENDS Naturals

CONSTANTS Parts, Content, None

VARIABLES session,    \* "open", "complete", "cancelled", "expired"
          chunks,     \* the confirmed bytes of each chunk
          file,       \* the bytes of the published file
          lost        \* chunks whose bytes the disk has lost or altered

vars == <<session, chunks, file, lost>>

Init == /\ session = "open"
        /\ chunks = [p \in Parts |-> None]
        /\ file = None /\ lost = {}

\* A chunk is acknowledged once, with one content; if its bytes are there, it
\* is promised anew.
Confirm ==
  /\ session = "open"
  /\ \E p \in Parts, x \in Content :
       /\ chunks[p] = None /\ chunks' = [chunks EXCEPT ![p] = x]
       /\ lost' \in {lost, lost \ {p}}
  /\ UNCHANGED <<session, file>>

\* The disk, not the server: a chunk's bytes are lost or altered.
Lose ==
  /\ session = "open" /\ \E p \in Parts : lost' = lost \cup {p}
  /\ UNCHANGED <<session, chunks, file>>

\* Confirmed chunks are taken back only when their own bytes were lost, or
\* when nobody can use them any more.
Forget ==
  /\ session # "complete"
  /\ \E gone \in SUBSET (IF session = "open" THEN lost ELSE Parts) :
       chunks' = [p \in Parts |-> IF p \in gone THEN None ELSE chunks[p]]
  /\ UNCHANGED <<session, file, lost>>

\* The whole file and the end of the session are one event.
Publish ==
  /\ session = "open" /\ \A p \in Parts : chunks[p] # None
  /\ session' = "complete" /\ file' = chunks
  /\ UNCHANGED <<chunks, lost>>

Close ==
  /\ session = "open" /\ session' \in {"cancelled", "expired"}
  /\ UNCHANGED <<chunks, file, lost>>

Next == Confirm \/ Lose \/ Forget \/ Publish \/ Close
Spec == Init /\ [][Next]_vars
=============================================================================
