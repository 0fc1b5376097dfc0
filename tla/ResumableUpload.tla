-------------------------- MODULE ResumableUpload --------------------------
(***************************************************************************)
(* One resumable upload session of the transfer server, from its creation  *)
(* to the permanent file: src/app/upload_service.py (the orchestration),   *)
(* src/app/upload_repository.py (the durable rows) and                     *)
(* src/app/chunk_storage.py (the files below .resumable/<upload id>).      *)
(*                                                                         *)
(* Sessions share nothing but the admission check and the lock pool, so    *)
(* one session is enough here.  Requests of the source device run as       *)
(* asyncio tasks: Writers are the requests that send a chunk, Completers   *)
(* the requests that ask for completion, Maint is the startup recovery and *)
(* the maintenance worker.  Every one of them holds the session's lock     *)
(* only part of the time; what happens in one lock-protected section       *)
(* without a durable intermediate state is one action.                     *)
(***************************************************************************)
EXTENDS Naturals

CONSTANTS Parts,       \* chunk indexes of the file
          Content,     \* bytes a client may send for one chunk
          Writers,     \* chunk requests that may be in flight
          Completers,  \* completion requests that may be in flight
          Maint,       \* startup recovery and maintenance worker
          None,        \* no file, no row, SQL NULL
          Bad,         \* bytes that differ from anything the client sent
          MaxCrashes,  \* bound: process crashes
          MaxFaults,   \* bound: transient OSError / sqlite3.Error
          MaxDamage    \* bound: files lost or altered behind the server

Whole == [Parts -> Content]      \* the bytes of a complete file

ASSUME ValuesAssumption ==
  /\ None \notin Content
  /\ Bad \notin Content \cup {None}
  /\ (Completers \cup {None, Bad}) \cap Whole = {}
  /\ Completers \cap {None, Bad} = {}
  /\ None \notin Parts
  /\ Parts # {}
ASSUME ActorsAssumption == Maint \notin Completers
ASSUME BoundsAssumption == {MaxCrashes, MaxFaults, MaxDamage} \subseteq Nat

VARIABLES
  \* upload_sessions, upload_parts, files + messages
  status,       \* upload_sessions.status
  publication,  \* upload_sessions.publication_state
  rows,         \* upload_parts: digest of each confirmed chunk, or None
  fileSha,      \* upload_sessions.file_sha256: digest of the whole, or None
  filesRow,     \* who made the downloadable file: "none", "upload", "legacy"
  expiry,       \* "past" if expires_at <= now; "ahead" once terminal
  \* the file system
  dir,          \* .resumable/<id> exists
  part,         \* part-NNNNNN
  incoming,     \* incoming-NNNNNN-<uuid> of each writer
  temp,         \* final.uploading: None, a completer writing it, its bytes, Bad
  final,        \* <id>_<name> in the upload directory
  \* the process
  put,          \* each chunk request
  pc,           \* each completion request, and Maint
  listed,       \* the rows a completion read when it began
  bad,          \* the chunk an assembly found missing or altered
  duty,         \* "expire" if Maint is in _expire_locked, else "recover"
  phase,        \* "down", "starting", "importing", "up"
  env           \* crashes, faults and damage still allowed; lost: the chunks
                \* whose file Damage has changed (a history variable)

db    == <<status, publication, rows, fileSha, filesRow, expiry>>
disk  == <<dir, part, incoming, temp, final>>
tasks == <<put, pc, listed, bad, duty>>
vars  == <<db, disk, tasks, phase, env>>

Actors   == Completers \cup {Maint}
Active   == {"queued", "uploading", "paused", "verifying", "failed"}
Terminal == {"complete", "cancelled", "expired"}
Withdrawn == {"cancelled", "expired"}
Durable  == {"assembled", "file_published", "published"}

\* Points at which an actor holds the session's lock between two actions.
Locked == {"rename", "mark", "resume", "remark", "verify", "finalize",
           "cleanup", "expire"}
LockFree   == \A a \in Actors : pc[a] \notin Locked
HasWriters == \E w \in Writers : put[w].pc # "idle"
Completing == \E c \in Completers : pc[c] # "idle"

Request(step, p, x) == [pc |-> step, part |-> p, body |-> x]
Rest(step) == Request(step, None, None)

\* One transient error of the file system or of SQLite.
Spend(kind) == /\ env[kind] > 0
               /\ env' = [env EXCEPT ![kind] = @ - 1]
Fault == Spend("fault")
NoFault == UNCHANGED env

----------------------------------------------------------------------------
(* Definitions named X_Y, each right before X, are X with a plausible bug; *)
(* nothing uses them but the sensitivity checks of the README.             *)
(*                                                                        *)
(* Initial state: create_or_get has just inserted the session.            *)

Init ==
  /\ status = "queued" /\ publication = "none"
  /\ rows = [p \in Parts |-> None] /\ fileSha = None
  /\ filesRow = "none" /\ expiry = "ahead"
  /\ dir = "absent" /\ part = [p \in Parts |-> None] /\ incoming = {}
  /\ temp = None /\ final = None
  /\ put = [w \in Writers |-> Rest("idle")]
  /\ pc = [a \in Actors |-> "idle"]
  /\ listed = [c \in Completers |-> None] /\ bad = [c \in Completers |-> None]
  /\ duty = "recover" /\ phase = "up"
  /\ env = [crash |-> MaxCrashes, fault |-> MaxFaults, damage |-> MaxDamage,
            lost |-> {}]

----------------------------------------------------------------------------
(* Effects shared by several operations.                                  *)

\* remove_tree_anchored: all of the session directory, or, after an error,
\* the directory with whatever was not yet removed.
ClearTree == /\ dir' = "absent" /\ part' = [p \in Parts |-> None]
             /\ incoming' = {} /\ temp' = None
KeepTree  == UNCHANGED <<dir, part, incoming, temp>>
RemoveTree ==
  \/ ClearTree /\ NoFault
  \/ /\ Fault /\ dir = "present"
     /\ \E left \in SUBSET Parts :
          part' = [p \in Parts |-> IF p \in left THEN part[p] ELSE None]
     /\ incoming' \in SUBSET incoming /\ temp' \in {temp, None}
     /\ UNCHANGED dir

\* _discard_unpublished_final: only a durable, unpublished publication state
\* names a final file to move away.  Errors are logged, and the session
\* directory is removed all the same.
DiscardsFinal == publication \in {"assembled", "file_published"}
Withdraw(tree) ==
  \/ /\ final' = IF DiscardsFinal THEN None ELSE final
     /\ IF tree THEN RemoveTree ELSE KeepTree /\ NoFault
  \/ /\ DiscardsFinal /\ Fault /\ UNCHANGED final
     /\ IF tree THEN ClearTree ELSE KeepTree

\* discard_assembled before reset_assembling, when an error may keep either
\* from happening.
MayDiscardTemp ==
  \/ UNCHANGED temp
  \/ status = "verifying" /\ publication = "assembling" /\ temp' = None

\* UploadRepository.fail, and the same update in the part repairs.
SetFailed(reset) ==
  /\ status' = "failed"
  /\ expiry' = IF status = "failed" /\ ~reset THEN expiry ELSE "ahead"
  /\ IF reset THEN publication' = "none" /\ fileSha' = None
              ELSE UNCHANGED <<publication, fileSha>>

Goto(a, step) == pc' = [pc EXCEPT ![a] = step]

\* A completion request ends: _completing.discard.
Exit(c) ==
  /\ Goto(c, "idle")
  /\ listed' = [listed EXCEPT ![c] = None]
  /\ bad' = [bad EXCEPT ![c] = None]
  /\ UNCHANGED <<put, duty>>

\* Maint leaves _recover_locked: back to _expire_locked if it came from there.
Recovered ==
  /\ Goto(Maint, IF duty' = "expire" THEN "expire" ELSE "idle")
  /\ UNCHANGED <<put, listed, bad>>

\* Maint's task ends and releases the lock.
MaintDone == Goto(Maint, "idle") /\ duty' = "recover" /\ UNCHANGED <<put, listed, bad>>

Leave(a) == IF a = Maint THEN MaintDone ELSE Exit(a)
Advance(a, step) == Goto(a, step) /\ UNCHANGED <<put, listed, bad, duty>>

----------------------------------------------------------------------------
(* PUT /api/uploads/{id}/parts/{index}: UploadService.put_part.           *)

\* begin_part gives a lease; a row that exists is a replay or a conflict and
\* the request ends without a trace.
PutBegin(w, p, x) ==
  /\ phase = "up" /\ LockFree /\ put[w].pc = "idle"
  /\ rows[p] = None /\ status \in {"queued", "uploading"}
  /\ put' = [put EXCEPT ![w] = Request("leased", p, x)]
  /\ UNCHANGED <<db, disk, pc, listed, bad, duty, phase, env>>

\* write_part: mkdir, then open("xb") of the incoming file.
PutOpen(w) ==
  /\ put[w].pc = "leased"
  /\ dir' = "present" /\ incoming' = incoming \cup {w}
  /\ put' = [put EXCEPT ![w].pc = "writing"]
  /\ UNCHANGED <<db, part, temp, final, pc, listed, bad, duty, phase, env>>

\* The body is short, long or altered, the client is gone, or the disk is
\* full: the writer removes its own incoming file and stores nothing.
PutFail(w) ==
  /\ put[w].pc \in {"leased", "writing", "linked"}
  /\ dir' \in IF put[w].pc = "leased" THEN {dir, "present"} ELSE {dir}
  /\ incoming' = incoming \ {w}
  /\ put' = [put EXCEPT ![w] = Rest("leaving")]
  /\ UNCHANGED <<db, part, temp, final, pc, listed, bad, duty, phase, env>>

\* os.link(incoming, part), or the comparison with the file that is there.
PutLink(w) ==
  LET p == put[w].part
      linked == w \in incoming /\ part[p] \in {None, put[w].body}
  IN  /\ put[w].pc = "writing"
      /\ part' = IF linked THEN [part EXCEPT ![p] = put[w].body] ELSE part
      /\ incoming' = IF linked THEN incoming ELSE incoming \ {w}
      /\ put' = [put EXCEPT ![w] = IF linked THEN [@ EXCEPT !.pc = "linked"]
                                             ELSE Rest("leaving")]
      /\ UNCHANGED <<db, dir, temp, final, pc, listed, bad, duty, phase, env>>

\* The writer unlinks its incoming file, takes the lock again and looks at
\* the session as it is now: withdrawn, the part file goes; otherwise
\* confirm_part inserts the row, replays it, or refuses.
Discards_EveryRefusal == status \notin {"queued", "uploading", "paused"}
Discards == status \in Withdrawn
Confirms(p) == rows[p] = None /\ status \in {"queued", "uploading", "paused"}

\* A chunk confirmed anew is no longer lost if its file is what was sent.
Acknowledge(w) ==
  env' = [env EXCEPT !.lost =
            IF part[put[w].part] = put[w].body THEN @ \ {put[w].part} ELSE @]

PutConfirm(w) ==
  LET p == put[w].part IN
  /\ put[w].pc = "linked" /\ LockFree
  /\ incoming' = incoming \ {w}
  /\ put' = [put EXCEPT ![w] = Rest("leaving")]
  /\ \/ /\ Discards
        /\ \/ part' = [part EXCEPT ![p] = None] /\ NoFault
           \/ UNCHANGED part /\ Fault
        /\ UNCHANGED <<status, rows, expiry>>
     \/ /\ ~Discards /\ Confirms(p)
        /\ rows' = [rows EXCEPT ![p] = put[w].body]
        /\ status' = IF status = "queued" THEN "uploading" ELSE status
        /\ expiry' = "ahead"
        /\ Acknowledge(w) /\ UNCHANGED part
     \/ /\ ~Discards /\ ~Confirms(p)
        /\ NoFault /\ UNCHANGED <<status, rows, expiry, part>>
  /\ UNCHANGED <<publication, fileSha, filesRow, dir, temp, final,
                 pc, listed, bad, duty, phase>>

\* The finally block: the last writer of a cancelled session cleans up.
LastWriter(w) == \A v \in Writers \ {w} : put[v].pc = "idle"
PutLeave(w) ==
  /\ put[w].pc = "leaving" /\ LockFree
  /\ put' = [put EXCEPT ![w] = Rest("idle")]
  /\ IF LastWriter(w) /\ status = "cancelled" THEN RemoveTree
                                              ELSE KeepTree /\ NoFault
  /\ UNCHANGED <<db, final, pc, listed, bad, duty, phase>>

----------------------------------------------------------------------------
(* PATCH and DELETE /api/uploads/{id}: control and cancel.                *)

Control(from, to) ==
  /\ phase = "up" /\ LockFree
  /\ status \in from /\ status' = to /\ expiry' = "ahead"
  /\ UNCHANGED <<publication, rows, fileSha, filesRow, disk, tasks, phase, env>>
Pause  == Control({"queued", "uploading"}, "paused")
Resume == Control({"failed", "paused"}, "uploading")

CancelClears_Always == TRUE
CancelClears == ~HasWriters
Cancellable == Active
Cancel ==
  /\ phase = "up" /\ LockFree
  /\ status \in Cancellable /\ status' = "cancelled" /\ expiry' = "ahead"
  /\ Withdraw(CancelClears)
  /\ UNCHANGED <<publication, rows, fileSha, filesRow, tasks, phase>>

----------------------------------------------------------------------------
(* POST /api/uploads/{id}/complete: UploadService.complete.               *)

CompleteEnter_Unchecked(c) ==
  /\ phase = "up" /\ pc[c] = "idle"
  /\ Advance(c, "entered")
  /\ UNCHANGED <<db, disk, phase, env>>
CompleteEnter(c) ==
  /\ phase = "up" /\ ~Completing
  /\ Advance(c, "entered")
  /\ UNCHANGED <<db, disk, phase, env>>

\* A complete session replays its message; begin_completion refuses any
\* other status and missing rows; the disk may have no room for the file.
CompleteRefuse(c) ==
  /\ pc[c] = "entered" /\ LockFree /\ status # "verifying"
  /\ Exit(c)
  /\ UNCHANGED <<db, disk, phase, env>>

\* discard_assembled, the free-space check or a transaction fails.
CompleteError(c) ==
  /\ pc[c] = "entered" /\ LockFree /\ Fault
  /\ MayDiscardTemp /\ Exit(c)
  /\ UNCHANGED <<db, dir, part, incoming, final, phase>>

AllConfirmed_NotCounted == TRUE
AllConfirmed == \A p \in Parts : rows[p] # None
BeginCompletion(c) ==
  /\ AllConfirmed
  /\ status' = "verifying" /\ publication' = "assembling" /\ expiry' = "ahead"
  /\ listed' = [listed EXCEPT ![c] = rows]
  /\ Goto(c, "assemble")
  /\ UNCHANGED <<put, bad, duty>>

CompleteStart(c) ==
  /\ pc[c] = "entered" /\ LockFree /\ status = "uploading"
  /\ BeginCompletion(c)
  /\ UNCHANGED <<rows, fileSha, filesRow, disk, phase, env>>

\* A completion found verifying/assembling starts over: discard_assembled,
\* reset_assembling and begin_completion, unless the disk has no room.
CompleteRestart(c) ==
  /\ pc[c] = "entered" /\ LockFree
  /\ status = "verifying" /\ publication = "assembling"
  /\ temp' = None /\ fileSha' = None
  /\ \/ BeginCompletion(c)
     \/ status' = "uploading" /\ publication' = "none" /\ UNCHANGED expiry /\ Exit(c)
  /\ UNCHANGED <<rows, filesRow, dir, part, incoming, final, phase, env>>

CompleteResume(c) ==
  /\ pc[c] = "entered" /\ LockFree
  /\ status = "verifying" /\ publication \in {"assembled", "file_published"}
  /\ Advance(c, IF publication = "assembled" THEN "resume" ELSE "verify")
  /\ UNCHANGED <<db, disk, phase, env>>

\* ChunkStorage.assemble, outside the lock.  A file left by an earlier
\* assembly makes open("xb") fail, and is removed on the way out.
AssembleOpen(c) ==
  /\ pc[c] = "assemble"
  /\ dir' = "present"
  /\ IF temp = None THEN temp' = c /\ Advance(c, "reading")
                    ELSE temp' = None /\ Exit(c)
  /\ UNCHANGED <<db, part, incoming, final, phase, env>>

AssembleRead(c) ==
  /\ pc[c] = "reading" /\ part = listed[c]
  /\ temp' = IF temp = c THEN listed[c] ELSE temp
  /\ Advance(c, "verified")
  /\ UNCHANGED <<db, dir, part, incoming, final, phase, env>>

\* PartIntegrityError: a part is missing or differs from its row.
AssembleDamaged(c) ==
  /\ pc[c] = "reading"
  /\ \E p \in Parts : /\ part[p] # listed[c][p]
                      /\ bad' = [bad EXCEPT ![c] = p]
  /\ temp' = None
  /\ Goto(c, "damaged")
  /\ UNCHANGED <<db, dir, part, incoming, final, put, listed, duty, phase, env>>

AssembleError(c) ==
  /\ pc[c] \in {"assemble", "reading"} /\ Fault
  /\ temp' = None /\ Exit(c)
  /\ UNCHANGED <<db, dir, part, incoming, final, phase>>

\* discard_part, then invalidate_part, under the lock.
CompleteInvalidate(c) ==
  /\ pc[c] = "damaged" /\ LockFree
  /\ part' = [part EXCEPT ![bad[c]] = None]
  /\ IF status \in Terminal
     THEN UNCHANGED <<status, publication, rows, fileSha, expiry>>
     ELSE rows' = [rows EXCEPT ![bad[c]] = None] /\ SetFailed(TRUE)
  /\ Exit(c)
  /\ UNCHANGED <<filesRow, dir, incoming, temp, final, phase, env>>

InvalidateError(c) ==
  /\ pc[c] = "damaged" /\ LockFree /\ Fault
  /\ part' \in {part, [part EXCEPT ![bad[c]] = None]}
  /\ Exit(c)
  /\ UNCHANGED <<db, dir, incoming, temp, final, phase>>

\* The assembled file is complete: under the lock the session is read again
\* and either keeps the digest or loses the file.
StillAssembling_PhaseOnly == publication = "assembling"
StillAssembling == status = "verifying" /\ publication = "assembling"
CompletePublish(c) ==
  /\ pc[c] = "verified" /\ LockFree
  /\ IF StillAssembling
     THEN /\ publication' = "assembled" /\ fileSha' = listed[c] /\ expiry' = "ahead"
          /\ Advance(c, "rename") /\ UNCHANGED temp
     ELSE /\ temp' = None /\ Exit(c)
          /\ UNCHANGED <<publication, fileSha, expiry>>
  /\ UNCHANGED <<status, rows, filesRow, dir, part, incoming, final, phase, env>>

PublishError(c) ==
  /\ pc[c] = "verified" /\ LockFree /\ Fault
  /\ Exit(c)
  /\ UNCHANGED <<db, disk, phase>>

----------------------------------------------------------------------------
(* The publication phases, in complete, _continue_publication_locked      *)
(* and through it in _recover_locked.                                     *)

\* _recover_locked turns the errors of a publication into a failed session.
\* A PartIntegrityError also resets the publication.
Broken(a, reset) ==
  IF a = Maint THEN SetFailed(reset) /\ UNCHANGED duty /\ Recovered
               ELSE Exit(a) /\ UNCHANGED <<status, publication, fileSha, expiry>>

\* FileStorage.publish: rename(final.uploading, final).
Rename(c) ==
  /\ pc[c] = "rename"
  /\ final' = temp /\ temp' = None
  /\ Advance(c, "mark")
  /\ UNCHANGED <<db, dir, part, incoming, phase, env>>

\* State assembled: the final file is there, or it is renamed now.
ResumeAssembled(a) ==
  /\ pc[a] = "resume"
  /\ IF fileSha \in {final, temp}
     THEN /\ IF final = fileSha THEN UNCHANGED <<temp, final>>
                                ELSE final' = temp /\ temp' = None
          /\ Advance(a, "remark")
          /\ UNCHANGED <<status, publication, fileSha, expiry>>
     ELSE Broken(a, TRUE) /\ UNCHANGED <<temp, final>>
  /\ UNCHANGED <<rows, filesRow, dir, part, incoming, phase, env>>

\* set_publication_state(file_published), refused outside verifying.
MarkPublished(a) ==
  /\ pc[a] \in {"mark", "remark"}
  /\ IF status = "verifying"
     THEN /\ publication' = "file_published" /\ expiry' = "ahead"
          /\ Advance(a, IF pc[a] = "mark" THEN "finalize" ELSE "verify")
          /\ UNCHANGED <<status, fileSha>>
     ELSE Broken(a, FALSE)
  /\ UNCHANGED <<rows, filesRow, disk, phase, env>>

\* State file_published: pending_from_session reads the final file again.
FinalIntact_Exists == final # None
FinalIntact == final = fileSha
VerifyFinal(a) ==
  /\ pc[a] = "verify"
  /\ IF FinalIntact
     THEN Advance(a, "finalize") /\ UNCHANGED <<status, publication, fileSha, expiry>>
     ELSE Broken(a, TRUE)
  /\ UNCHANGED <<rows, filesRow, disk, phase, env>>

\* finalize_publication: the files and messages rows and the session's last
\* state in one transaction.  A files row of that name already there makes
\* the INSERT fail, which nobody turns into a state.
Finalize(a) ==
  /\ pc[a] = "finalize"
  /\ \/ /\ status = "verifying" /\ filesRow = "none"
        /\ status' = "complete" /\ publication' = "published"
        /\ filesRow' = "upload" /\ expiry' = "ahead"
        /\ Advance(a, "cleanup") /\ UNCHANGED fileSha
     \/ /\ status = "verifying" /\ filesRow # "none"
        /\ Leave(a)
        /\ UNCHANGED <<status, publication, filesRow, fileSha, expiry>>
     \/ /\ status # "verifying"
        /\ Broken(a, FALSE) /\ UNCHANGED filesRow
  /\ UNCHANGED <<rows, disk, phase, env>>

Cleanup(a) ==
  /\ pc[a] = "cleanup"
  /\ RemoveTree /\ Leave(a)
  /\ UNCHANGED <<db, final, phase>>

\* An OSError or sqlite3.Error in one of the steps above.  A completion just
\* ends; in recovery an OSError fails the session and an sqlite3.Error ends
\* the whole task.
PublicationError(a) ==
  /\ pc[a] \in {"rename", "mark", "resume", "remark", "verify", "finalize"}
  /\ Fault
  /\ \/ Broken(a, FALSE)
     \/ /\ a = Maint /\ MaintDone
        /\ UNCHANGED <<status, publication, fileSha, expiry>>
  /\ UNCHANGED <<rows, filesRow, disk, phase>>

----------------------------------------------------------------------------
(* Startup recovery and maintenance: recover, expire, _recover_locked and *)
(* _expire_locked, one session at a time.                                 *)

Missing == {p \in Parts : rows[p] # None /\ part[p] = None}
Kept_NoRow == [p \in Parts |-> None]
Kept == [p \in Parts |-> IF p \in Missing THEN None ELSE rows[p]]
Unattended_WritersIgnored == LockFree /\ ~Completing
Unattended == LockFree /\ ~Completing /\ ~HasWriters

\* Who calls _recover_locked: the lifespan once, _expire_locked for a due
\* verifying session, and the terminal cleanup of every maintenance round.
Residual_WithdrawnOnly == status \in Withdrawn
Residual == status \in Withdrawn \/ (status = "complete" /\ dir = "present")
Recovers(why) ==
  \/ why = "startup" /\ phase = "starting"
  \/ why = "expire" /\ phase = "up" /\ expiry = "past" /\ status = "verifying"
  \/ why = "terminal" /\ phase = "up" /\ Residual
NextPhase == IF phase = "starting" THEN "importing" ELSE phase

\* What every _recover_locked begins with; incoming files go.
Recovery(why) ==
  /\ Unattended /\ Recovers(why)
  /\ phase' = NextPhase
  /\ duty' = IF why = "expire" THEN "expire" ELSE "recover"

\* reconcile_missing_parts: rows without a part file make the session fail.
RecoverMissing(why) ==
  /\ Recovery(why)
  /\ Missing # {} /\ publication \notin Durable /\ status \in Active
  /\ rows' = Kept /\ SetFailed(TRUE) /\ Recovered
  /\ incoming' = {}
  /\ UNCHANGED <<filesRow, dir, part, temp, final, env>>

RecoverComplete(why) ==
  /\ Recovery(why) /\ status = "complete"
  /\ incoming' = {}
  /\ Goto(Maint, "cleanup") /\ UNCHANGED <<put, listed, bad>>
  /\ UNCHANGED <<db, dir, part, temp, final, env>>

RecoverWithdrawn(why) ==
  /\ Recovery(why) /\ status \in Withdrawn
  /\ rows' = IF publication \in Durable THEN rows ELSE Kept
  /\ Withdraw(TRUE)
  /\ UNCHANGED <<status, publication, fileSha, filesRow, expiry, put, pc, listed, bad>>

\* verifying/assembling without a completion: the assembly starts over.
RecoverAssembling(why) ==
  /\ Recovery(why) /\ Missing = {}
  /\ status = "verifying" /\ publication = "assembling"
  /\ status' = "uploading" /\ publication' = "none" /\ fileSha' = None
  /\ temp' = None /\ incoming' = {} /\ Recovered
  /\ UNCHANGED <<rows, filesRow, expiry, dir, part, final, env>>

RecoverPublication(why) ==
  /\ Recovery(why) /\ status \in Active
  /\ publication \in {"assembled", "file_published"}
  /\ incoming' = {}
  /\ Goto(Maint, IF publication = "assembled" THEN "resume" ELSE "verify")
  /\ UNCHANGED <<put, listed, bad>>
  /\ UNCHANGED <<db, dir, part, temp, final, env>>

RecoverNothing(why) ==
  /\ Recovery(why) /\ status \in Active /\ publication = "none" /\ Missing = {}
  /\ incoming' = {} /\ Recovered
  /\ UNCHANGED <<db, dir, part, temp, final, env>>

\* The session's recovery ends with an error before it changed any row.
RecoverError(why) ==
  /\ Unattended /\ Recovers(why) /\ Fault
  /\ phase' = NextPhase
  /\ incoming' \in {incoming, {}} /\ MayDiscardTemp
  /\ UNCHANGED <<db, dir, part, final, tasks>>

Recover ==
  \E why \in {"startup", "expire", "terminal"} :
    \/ RecoverMissing(why) \/ RecoverComplete(why) \/ RecoverWithdrawn(why)
    \/ RecoverAssembling(why) \/ RecoverPublication(why)
    \/ RecoverNothing(why) \/ RecoverError(why)

\* expire_one and the removal of the session's files.
Expired ==
  /\ status' = "expired" /\ expiry' = "ahead"
  /\ RemoveTree
  /\ UNCHANGED <<publication, rows, fileSha, filesRow, final, phase>>

\* _expire_locked after _recover_locked: was_due, whatever expires_at is now.
ExpireRecovered ==
  /\ pc[Maint] = "expire" /\ status \in Active
  /\ Expired /\ MaintDone

Expirable_NotPaused == Active \ {"verifying", "paused"}
Expirable == Active \ {"verifying"}
ExpireIdle ==
  /\ phase = "up" /\ Unattended
  /\ expiry = "past" /\ status \in Expirable
  /\ Expired /\ UNCHANGED tasks

\* import_legacy_files, after recovery: a file of the upload directory with no
\* files row becomes a downloadable legacy file.
ImportLegacy ==
  /\ phase = "importing" /\ LockFree
  /\ filesRow' = IF final # None /\ filesRow = "none" THEN "legacy" ELSE filesRow
  /\ phase' = "up"
  /\ UNCHANGED <<status, publication, rows, fileSha, expiry, disk, tasks, env>>

----------------------------------------------------------------------------
(* The environment: crashes, time, and files changed behind the server.   *)

\* The process dies between two steps; what was committed or written stays.
Crash ==
  /\ phase # "down" /\ Spend("crash")
  /\ phase' = "down"
  /\ put' = [w \in Writers |-> Rest("idle")]
  /\ pc' = [a \in Actors |-> "idle"]
  /\ listed' = [c \in Completers |-> None] /\ bad' = [c \in Completers |-> None]
  /\ duty' = "recover"
  /\ UNCHANGED <<db, disk>>

Restart_ImportsFirst ==
  /\ phase = "down" /\ phase' = "importing"
  /\ UNCHANGED <<db, disk, tasks, env>>
Restart ==
  /\ phase = "down" /\ phase' = "starting"
  /\ UNCHANGED <<db, disk, tasks, env>>

TtlElapses ==
  /\ status \in Active /\ expiry = "ahead" /\ expiry' = "past"
  /\ UNCHANGED <<status, publication, rows, fileSha, filesRow, disk, tasks, phase, env>>

\* A file of an unfinished session is lost or altered: a part at any time,
\* the assembled file while the server is down.
Damage ==
  /\ env.damage > 0 /\ status \in Active
  /\ \E wrong \in {None, Bad} :
       \/ \E p \in Parts :
            /\ part[p] # None /\ part' = [part EXCEPT ![p] = wrong]
            /\ env' = [env EXCEPT !.damage = @ - 1, !.lost = @ \cup {p}]
            /\ UNCHANGED <<temp, final>>
       \/ /\ phase = "down" /\ temp # None /\ temp' = wrong
          /\ Spend("damage") /\ UNCHANGED <<part, final>>
       \/ /\ phase = "down" /\ final # None /\ final' = wrong
          /\ Spend("damage") /\ UNCHANGED <<part, temp>>
  /\ UNCHANGED <<db, dir, incoming, tasks, phase>>

----------------------------------------------------------------------------

WriterStep(w) ==
  PutOpen(w) \/ PutFail(w) \/ PutLink(w) \/ PutConfirm(w) \/ PutLeave(w)
CompletionStep(c) ==
  \/ CompleteRefuse(c) \/ CompleteError(c)
  \/ CompleteStart(c) \/ CompleteRestart(c) \/ CompleteResume(c)
  \/ AssembleOpen(c) \/ AssembleRead(c) \/ AssembleDamaged(c) \/ AssembleError(c)
  \/ CompleteInvalidate(c) \/ InvalidateError(c)
  \/ CompletePublish(c) \/ PublishError(c) \/ Rename(c)
PublicationStep(a) ==
  \/ ResumeAssembled(a) \/ MarkPublished(a) \/ VerifyFinal(a) \/ Finalize(a)
  \/ Cleanup(a) \/ PublicationError(a)
MaintStep == PublicationStep(Maint) \/ Recover \/ ExpireRecovered \/ ExpireIdle \/ ImportLegacy
ClientRequest ==
  \/ \E w \in Writers, p \in Parts, x \in Content : PutBegin(w, p, x)
  \/ Pause \/ Resume \/ Cancel
  \/ \E c \in Completers : CompleteEnter(c)
Environment == Crash \/ TtlElapses \/ Damage

Next ==
  \/ ClientRequest
  \/ \E w \in Writers : WriterStep(w)
  \/ \E c \in Completers : CompletionStep(c) \/ PublicationStep(c)
  \/ MaintStep \/ Restart \/ Environment

Spec == Init /\ [][Next]_vars

\* Started requests run to their end (asyncio schedules them, every body ends),
\* the maintenance worker comes round, and a dead process is started again.
Fairness ==
  /\ \A w \in Writers : WF_vars(WriterStep(w))
  /\ \A c \in Completers : WF_vars(CompletionStep(c) \/ PublicationStep(c))
  /\ WF_vars(MaintStep) /\ WF_vars(Restart)
FairSpec == Spec /\ Fairness

----------------------------------------------------------------------------
(* Properties.                                                            *)

Statuses == Active \cup Terminal
Steps == Locked \cup {"idle", "entered", "assemble", "reading", "damaged", "verified"}
PartFiles == Content \cup {None, Bad}

RowsTyped ==
  /\ status \in Statuses
  /\ publication \in {"none", "assembling"} \cup Durable
  /\ rows \in [Parts -> Content \cup {None}]
  /\ fileSha \in Whole \cup {None}
  /\ filesRow \in {"none", "upload", "legacy"}
  /\ expiry \in {"ahead", "past"}
FilesTyped ==
  /\ dir \in {"absent", "present"}
  /\ part \in [Parts -> PartFiles]
  /\ incoming \subseteq Writers
  /\ temp \in Whole \cup Completers \cup {None, Bad}
  /\ final \in Whole \cup {None, Bad}
Puts == [pc : {"leased", "writing", "linked"}, part : Parts, body : Content]
        \cup {Rest("idle"), Rest("leaving")}
TasksTyped ==
  /\ put \in [Writers -> Puts]
  /\ pc \in [Actors -> Steps]
  /\ listed \in [Completers -> Whole \cup {None}]
  /\ bad \in [Completers -> Parts \cup {None}]
  /\ duty \in {"recover", "expire"}
  /\ phase \in {"down", "starting", "importing", "up"}
  /\ env \in [crash : Nat, fault : Nat, damage : Nat, lost : SUBSET Parts]

\* Type correctness of the rows, the files and the tasks.
TypeOK == RowsTyped /\ FilesTyped /\ TasksTyped

\* complete is reachable only with the whole file in place: the published file
\* and the digest recorded for it are the confirmed chunks in their order,
\* whatever completions, cancellations, crashes and repairs came before.
PublishedWhole == status = "complete" => rows = fileSha /\ final = fileSha

\* A chunk the server has acknowledged is on disk with those bytes for as long
\* as the session can still use it: no late writer, no cancelled request and no
\* cleanup takes it away, also not while another chunk is repaired.
ConfirmedOnDisk ==
  status \in Active =>
    \A p \in Parts \ env.lost : rows[p] # None => part[p] = rows[p]

\* discard_incoming's contract: a file being received is not removed under its
\* writer by a cancellation, an expiry or a recovery, which leave the directory
\* alone until the last writer is gone.
WriterUndisturbed ==
  status # "complete" =>
    \A w \in Writers : put[w].pc \in {"writing", "linked"} =>
      w \in incoming /\ dir = "present"

\* A session expires only when nothing works for it: no chunk request has a
\* lease and no completion is past its first check.
ExpiredQuiet ==
  status = "expired" =>
    /\ ~HasWriters
    /\ \A c \in Completers : pc[c] \in {"idle", "entered"}

\* A cancelled or expired session leaves no published file behind, even when
\* the cancellation overtakes an assembly or an interrupted publication.
WithdrawnUnpublished == status \in Withdrawn /\ LockFree => final = None

\* A file can be downloaded only when its session is complete: neither a crash
\* between the publication phases nor the legacy import opens another way.
IncompleteUnavailable == filesRow # "none" => status = "complete"

\* No client request is open or new: the premise under which the maintenance
\* worker, which skips sessions with a writer or a completion, finds its moment.
Quiet == ~HasWriters /\ ~Completing

\* An idle session whose time has come is renewed, completed or expired.
DueResolved == <>[]Quiet => (expiry = "past" ~> expiry # "past")

\* The same over crashes and errors, unless the legacy import has taken the
\* file of an interrupted publication, after which it does not hold.
DueUnlessImported ==
  <>[]Quiet =>
    (expiry = "past" ~> expiry # "past" \/ filesRow = "legacy")

\* Completing, cancelling or expiring a session eventually removes all
\* of its temporary files.
TemporaryRemoved == <>[]Quiet => (status \in Terminal ~> dir = "absent")

\* The session keeps the promise made to its client: acknowledged chunks stay
\* but for those whose own file was lost or altered behind the server, the
\* message appears together with the whole file, the end is final.
Promise == INSTANCE UploadPromise WITH
             session <- IF status \in Active THEN "open" ELSE status,
             chunks  <- rows,
             file    <- IF filesRow = "upload" THEN final ELSE None,
             lost    <- env.lost
PromiseKept == Promise!Spec
=============================================================================
