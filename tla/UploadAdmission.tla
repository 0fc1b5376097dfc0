-------------------------- MODULE UploadAdmission --------------------------
(***************************************************************************)
(* Who gets a client_request_id, and room for its bytes: POST /api/uploads *)
(* (UploadService.create, UploadRepository.create_or_get), POST            *)
(* /api/messages (create_text) and POST /api/upload (process_upload), each *)
(* in a thread under the lock of the id (KeyedLocks), while the sessions   *)
(* admitted before receive and confirm their chunks and assemble the file. *)
(*                                                                         *)
(* A session here has one chunk, its size is the unit of disk space, and   *)
(* nothing but the sessions writes to the disk or takes files away.        *)
(* ResumableUpload has the rest of a session's life, FileLibrary that of a *)
(* whole-file upload.                                                      *)
(***************************************************************************)
EXTENDS KeyedLocks, FiniteSetsExt

CONSTANTS Writers,    \* chunk requests
          MaxActive,  \* max_active_upload_sessions
          Disk        \* disk space less upload_storage_reserve_bytes, in files

ASSUME SpaceAssumption == MaxActive \in Nat \ {0} /\ Disk \in Nat

VARIABLES
  job,       \* what a request's thread does next
  seen,      \* the free space it has read
  session,   \* upload_sessions: status and publication_state in one
  put,       \* a chunk request: "leased", "received" (body in its incoming file)
  assembly,  \* of a completion, outside the lock: "open", "done"
  stored,    \* sessions whose part file is on disk ...
  confirmed, \* ... whose upload_parts row exists ...
  copied,    \* ... whose final.uploading or final file is on disk
  reserved,  \* ids with an upload_reservations row
  message,   \* ids with a message: "text", "file", or None
  late       \* most bytes written between a creation's look and its insertion

files == <<put, assembly, stored, confirmed, copied>>
ids   == <<reserved, message>>
vars  == <<locks, job, seen, session, files, ids, late>>

Idle == [pc |-> "idle", key |-> None]

Init ==
  /\ LocksInit
  /\ job = [p \in Requests |-> "none"] /\ seen = [p \in Requests |-> 0]
  /\ session = [k \in Keys |-> "none"]
  /\ put = [w \in Writers |-> Idle] /\ assembly = [k \in Keys |-> "none"]
  /\ stored = {} /\ confirmed = {} /\ copied = {} /\ reserved = {}
  /\ message = [k \in Keys |-> None] /\ late = 0

\* ACTIVE_STATUSES: "uploading" is also queued and paused, "assembled" is
\* verifying with publication_state 'assembled' or 'file_published'.
\* X_Y before X: X with a plausible bug.
Active == {k \in Keys : session[k] \in {"uploading", "verifying", "assembled",
                                        "failed"}}
\* Cancelled or expired.
Withdrawn == {k \in Keys : session[k] = "withdrawn"}
Received  == {w \in Writers : put[w].pc = "received"}

\* Negative when the sessions have written into the reserve.
Free == Disk - Cardinality(stored) - Cardinality(copied) - Cardinality(Received)

\* Bytes on their way out: bodies being received, part files of sessions that
\* have ended, copies of withdrawn ones.
Temporary == Cardinality(Received) + Cardinality(stored \ Active)
             + Cardinality(copied \cap Withdrawn)

\* What create_or_get expects the active sessions to write: parts and copy of
\* each but the confirmed parts, nothing once assembled.
Unassembled == {k \in Active : session[k] # "assembled"}
Committed_PartsOnly == Cardinality(Unassembled \ confirmed)
Committed == 2 * Cardinality(Unassembled) - Cardinality(Unassembled \cap confirmed)

----------------------------------------------------------------------------
(* Requests: lock steps keep the rest; a thread's last step ends it.  A    *)
(* request is cancelled once at most (see the run of KeyedLocks for more).  *)

Kinds == {"create", "text", "upload"}
Calm  == UNCHANGED <<job, seen, session, files, ids, late>>

LockStep(p) == /\ (\E k \in Keys : Arrive(p, k)) \/ Leave(p) \/ CancelOnce(p)
               /\ Calm

Start(p, kind) ==
  /\ StartThread(p) /\ job' = [job EXCEPT ![p] = kind]
  /\ UNCHANGED <<seen, session, files, ids, late>>

Running(p, step) == thread[p] = "running" /\ job[p] = step
End(p)  == ThreadEnds(p) /\ job' = [job EXCEPT ![p] = "none"]
GoOn(p, step) == job' = [job EXCEPT ![p] = step] /\ UNCHANGED locks

\* get_by_client_request answers a replay; otherwise the free space is read.
CreateLook(p) ==
  /\ Running(p, "create")
  /\ IF session[key[p]] # "none" THEN End(p) /\ UNCHANGED seen
     ELSE GoOn(p, "admit") /\ seen' = [seen EXCEPT ![p] = Free]
  /\ UNCHANGED <<session, files, ids, late>>

Claimed_MessagesOnly(k) == message[k] # None
Claimed(k) == message[k] # None \/ k \in reserved

Admissible(p) ==
  /\ session[key[p]] = "none" /\ ~Claimed(key[p])
  /\ Cardinality(Active) < MaxActive
  /\ Committed + 2 <= seen[p]

\* The transaction of create_or_get.
CreateCommit(p) ==
  /\ Running(p, "admit") /\ End(p)
  /\ seen' = [seen EXCEPT ![p] = 0]
  /\ IF Admissible(p)
     THEN /\ session' = [session EXCEPT ![key[p]] = "uploading"]
          /\ late' = Max({late, seen[p] - (Free + Temporary)})
     ELSE UNCHANGED <<session, late>>
  /\ UNCHANGED <<files, ids>>

\* create_text: a session has the id, or a message, or it gets it.
TextCommit(p) ==
  /\ Running(p, "text") /\ End(p)
  /\ message' = IF session[key[p]] = "none" /\ message[key[p]] = None
                THEN [message EXCEPT ![key[p]] = "text"] ELSE message
  /\ UNCHANGED <<seen, session, files, reserved, late>>

\* process_upload: a message answers it; a reservation whose file is there
\* is indexed, another is deleted.
UploadLook(p) ==
  /\ Running(p, "upload")
  /\ \/ message[key[p]] # None /\ End(p) /\ UNCHANGED reserved
     \/ message[key[p]] = None /\ key[p] \in reserved /\ GoOn(p, "index")
        /\ UNCHANGED reserved
     \/ message[key[p]] = None /\ GoOn(p, "reserve")
        /\ reserved' = reserved \ {key[p]}
  /\ UNCHANGED <<seen, session, files, message, late>>

\* create_upload_reservation
Reservable(k) == session[k] = "none" /\ k \notin reserved

UploadReserve(p) ==
  /\ Running(p, "reserve")
  /\ IF Reservable(key[p]) THEN GoOn(p, "index") /\ reserved' = reserved \cup {key[p]}
                           ELSE End(p) /\ UNCHANGED reserved
  /\ UNCHANGED <<seen, session, files, message, late>>

\* create_file_message, or an error before it.
UploadIndex(p) ==
  /\ Running(p, "index") /\ End(p)
  /\ \/ UNCHANGED <<reserved, message>>
     \/ /\ reserved' = reserved \ {key[p]}
        /\ message' = IF message[key[p]] = None
                      THEN [message EXCEPT ![key[p]] = "file"] ELSE message
  /\ UNCHANGED <<seen, session, files, late>>

ThreadStep(p) ==
  \/ CreateLook(p) \/ CreateCommit(p) \/ TextCommit(p)
  \/ UploadLook(p) \/ UploadReserve(p) \/ UploadIndex(p)

----------------------------------------------------------------------------
(* Chunk requests.  The lock is free while a body is received: the session *)
(* may fail, end and be cleaned up meanwhile.                              *)

Step(w, to) == put' = [put EXCEPT ![w] = to]

\* begin_part: a lease, unless the part is confirmed.
PutBegin(w, k) ==
  /\ put[w] = Idle /\ session[k] = "uploading" /\ k \notin confirmed
  /\ Step(w, [pc |-> "leased", key |-> k])
  /\ UNCHANGED <<session, assembly, stored, confirmed, copied, message>>

\* write_part up to its link, whatever has become of the session
PutReceive(w) ==
  /\ put[w].pc = "leased" /\ Step(w, [put[w] EXCEPT !.pc = "received"])
  /\ UNCHANGED <<session, assembly, stored, confirmed, copied, message>>

\* The link of the part and, under the lock, the end of the request in one
\* step: a withdrawn session's part is discarded if the disk lets it, and
\* confirm_part takes it of an uploading session only.  (The link into the
\* removed directory of a complete session fails in the code: PutFail.)
PutEnd(w) ==
  LET k == put[w].key IN
  /\ put[w].pc = "received" /\ Step(w, Idle)
  /\ \/ k \in Withdrawn /\ stored' = stored \ {k}
     \/ stored' = stored \cup {k}
  /\ confirmed' = IF session[k] = "uploading" THEN confirmed \cup {k} ELSE confirmed
  /\ UNCHANGED <<session, assembly, copied, message>>

\* An error or a cancelled request: the incoming file goes.
PutFail(w) ==
  /\ put[w] # Idle /\ Step(w, Idle)
  /\ UNCHANGED <<session, assembly, stored, confirmed, copied, message>>

WriterStep(w) ==
  /\ (\E k \in Keys : PutBegin(w, k)) \/ PutReceive(w) \/ PutEnd(w) \/ PutFail(w)
  /\ UNCHANGED <<locks, job, seen, reserved, late>>

----------------------------------------------------------------------------
(* Sessions.  The lock is free while a completion assembles.               *)

Becomes(k, from, to) == session[k] \in from /\ session' = [session EXCEPT ![k] = to]
Assembly(k, from, to) == assembly[k] = from /\ assembly' = [assembly EXCEPT ![k] = to]

\* complete up to begin_completion, only with room for the copy
Verify(k) ==
  /\ k \in confirmed /\ 1 <= Free /\ Becomes(k, {"uploading"}, "verifying")
  /\ Assembly(k, "none", "open")
  /\ UNCHANGED <<put, stored, confirmed, copied, message>>

\* assemble writes the copy, whatever has become of the session ...
Assemble(k) ==
  /\ Assembly(k, "open", "done") /\ copied' = copied \cup {k}
  /\ UNCHANGED <<session, put, stored, confirmed, message>>

\* ... or stops with an error and takes its file away; a part that it found
\* altered is discarded, and the session fails.
AssembleStops(k) ==
  /\ Assembly(k, "open", "none")
  /\ \/ UNCHANGED <<session, stored, confirmed>>
     \/ /\ Becomes(k, {"verifying"}, "failed")
        /\ stored' = stored \ {k} /\ confirmed' = confirmed \ {k}
  /\ UNCHANGED <<put, copied, message>>

\* The lock again: the copy is the session's file, or discarded when the
\* session is withdrawn ...
Publish(k) ==
  /\ Assembly(k, "done", "none")
  /\ \/ Becomes(k, {"verifying"}, "assembled") /\ UNCHANGED copied
     \/ k \in Withdrawn /\ copied' = copied \ {k} /\ UNCHANGED session
  /\ UNCHANGED <<put, stored, confirmed, message>>

\* ... or the completion ends with an error and leaves everything behind.
PublishFails(k) ==
  /\ Assembly(k, "done", "none")
  /\ UNCHANGED <<session, put, stored, confirmed, copied, message>>

\* reset_assembling, of a recovery or the next completion
Restart(k) ==
  /\ assembly[k] = "none" /\ Becomes(k, {"verifying"}, "uploading")
  /\ copied' = copied \ {k}
  /\ UNCHANGED <<put, assembly, stored, confirmed, message>>

Resume(k) ==
  /\ Becomes(k, {"failed"}, "uploading")
  /\ UNCHANGED <<files, message>>

\* The message; a publication that an error has interrupted is continued.
Finalize(k) ==
  /\ Becomes(k, {"assembled"}, "complete")
  /\ message' = [message EXCEPT ![k] = "file"] /\ UNCHANGED files

\* Cancellation; expiry, with no chunk request or completion under way.
Withdraw(k) ==
  /\ Becomes(k, {"uploading", "verifying", "assembled", "failed"}, "withdrawn")
  /\ UNCHANGED <<files, message>>

\* cleanup_session once the last chunk request of a cancelled session is gone
\* (an assembly may still be at work), or of a complete one, any time: its file
\* stays.
Cleanup(k) ==
  /\ \/ session[k] = "withdrawn" /\ \A w \in Writers : put[w].key # k
     \/ session[k] = "complete"
  /\ stored' = stored \ {k} /\ copied' = copied \ (Withdrawn \cap {k})
  /\ UNCHANGED <<session, put, assembly, confirmed, message>>

SessionStep(k) ==
  /\ \/ Verify(k) \/ Assemble(k) \/ AssembleStops(k) \/ Publish(k)
     \/ PublishFails(k) \/ Restart(k) \/ Resume(k) \/ Finalize(k)
     \/ Withdraw(k) \/ Cleanup(k)
  /\ UNCHANGED <<locks, job, seen, reserved, late>>

----------------------------------------------------------------------------
Next ==
  \/ \E p \in Requests :
       LockStep(p) \/ (\E kind \in Kinds : Start(p, kind)) \/ ThreadStep(p)
  \/ \E w \in Writers : WriterStep(w)
  \/ \E k \in Keys : SessionStep(k)

Spec == Init /\ [][Next]_vars

TypeOK ==
  /\ LocksTypeOK
  /\ job \in [Requests -> Kinds \cup {"none", "admit", "reserve", "index"}]
  /\ seen \in [Requests -> {n \in Int : n <= Disk}] /\ late \in Nat
  /\ session \in [Keys -> {"none", "uploading", "verifying", "assembled",
                           "failed", "complete", "withdrawn"}]
  /\ put \in [Writers -> [pc : {"leased", "received"}, key : Keys] \cup {Idle}]
  /\ assembly \in [Keys -> {"none", "open", "done"}]
  /\ \A k \in Keys : assembly[k] # "none" => session[k] \in {"verifying", "withdrawn"}
  /\ stored \cup confirmed \cup copied \cup reserved \subseteq Keys
  /\ message \in [Keys -> {None, "text", "file"}]

----------------------------------------------------------------------------
(* Properties.                                                             *)

\* A client_request_id names one operation: it never has a session and the
\* reservation or the message of another request, whoever came first and
\* whatever an earlier attempt has left (create_or_get, create_text,
\* create_upload_reservation).
OneOperation ==
  \A k \in Keys : session[k] # "none" =>
    /\ k \notin reserved
    /\ message[k] = IF session[k] = "complete" THEN "file" ELSE None

\* Never more sessions that may still write than the configured number.
ActiveBounded ==
  Cardinality({k \in Keys : session[k] \notin {"none", "complete", "withdrawn"}})
    <= MaxActive

\* What the admitted sessions still have to write, part by part and then the
\* copy of the whole, fits on the disk once what is on its way out is gone; but
\* for the bytes that others have written between the look at the free space
\* and the transaction, for which the sum counts the confirmed bytes a second
\* time (UploadService.create).
SpaceKept ==
  Cardinality(Active \ stored) + Cardinality(Active \ copied)
    <= Free + Temporary + late
=============================================================================
