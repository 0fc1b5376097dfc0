---------------------------- MODULE FileLibrary ----------------------------
(***************************************************************************)
(* The whole-file upload of one client_request_id, and what becomes of the *)
(* files it leaves: POST /api/upload (process_upload in src/app/main.py),  *)
(* the upload_reservations and the legacy import of src/app/repository.py, *)
(* FileStorage of src/app/storage.py, and the purge of FilePurge.          *)
(*                                                                         *)
(* Each attempt stages its bytes under a fresh file id.  The lock of the   *)
(* client_request_id serializes attempts and texts with the same id; only  *)
(* a crash separates their steps.                                          *)
(***************************************************************************)
EXTENDS FilePurge

CONSTANTS None  \* no reservation, no message, no attempt

ASSUME NoneAssumption ==
  /\ "text" \notin Files
  /\ None \notin Files \cup {"text"} \cup [file : Files, pc : {"staged", "recovery"}]

VARIABLES
  temp,         \* .<file id>.uploading files
  reservation,  \* upload_reservations: file and reservation_state, or None
  owner,        \* message of the client_request_id: None, "text" or its file
  legacy,       \* files the legacy import has indexed
  attempt,      \* the attempt under way: its file and next step
  used,         \* file ids handed out
  phase         \* "down", "recovery", "import", "up"

upload == <<temp, reservation, owner, legacy, attempt, used, phase>>
vars   == <<purge, upload>>

At(f, step) == [file |-> f, pc |-> step]
Resting == At(None, "rest")
Serving == phase = "up"
Fault   == Spend("fault")
NoFault == UNCHANGED budget

Init ==
  /\ row = [f \in Files |-> "none"] /\ shown = [f \in Files |-> "none"]
  /\ final = {} /\ stale = {} /\ job = Idle
  /\ knows = [f \in Files |-> {}] /\ budget = Budget
  /\ temp = {} /\ reservation = None /\ owner = None /\ legacy = {}
  /\ attempt = Resting /\ used = {} /\ phase = "up"

----------------------------------------------------------------------------
(* process_upload, under the lock of the client_request_id.                *)

\* create_file_message: the row, its message and the end of the reservation
\* in one transaction.
Index(f) ==
  /\ row' = [row EXCEPT ![f] = "active"]
  /\ shown' = [shown EXCEPT ![f] = "visible"]
  /\ owner' = f /\ reservation' = None

\* The request was answered before.
Replay ==
  /\ Serving /\ attempt = Resting /\ owner \in Files
  /\ reservation' = None
  /\ UNCHANGED <<purge, temp, owner, legacy, attempt, used, phase>>

\* A reservation whose file is published is indexed now.
Resume ==
  /\ Serving /\ attempt = Resting /\ owner = None /\ reservation # None
  /\ reservation.file \in final
  /\ Index(reservation.file)
  /\ UNCHANGED <<final, stale, job, knows, budget, temp, legacy, attempt, used,
                 phase>>

\* Otherwise its bytes are discarded; the request may fail after that ...
Unpublished_Assumed == reservation # None
Unpublished == reservation # None /\ reservation.file \notin final

Discard ==
  /\ Serving /\ attempt = Resting /\ owner = None
  /\ Unpublished /\ reservation.file \in temp
  /\ temp' = temp \ {reservation.file}
  /\ UNCHANGED <<purge, reservation, owner, legacy, attempt, used, phase>>

\* ... or gives the reservation up and stages new bytes.
Stage(f) ==
  /\ Serving /\ attempt = Resting /\ owner = None /\ f \notin used
  /\ reservation = None \/ (Unpublished /\ reservation.file \notin temp)
  /\ reservation' = None /\ temp' = temp \cup {f}
  /\ attempt' = At(f, "reserve") /\ used' = used \cup {f}
  /\ UNCHANGED <<purge, owner, legacy, phase>>

Reserve ==
  /\ attempt.pc = "reserve" /\ reservation = None
  /\ reservation' = At(attempt.file, "staged")
  /\ attempt' = At(attempt.file, "publish")
  /\ UNCHANGED <<purge, temp, owner, legacy, used, phase>>

Publish ==
  /\ attempt.pc = "publish"
  /\ temp' = temp \ {attempt.file} /\ final' = final \cup {attempt.file}
  /\ attempt' = At(attempt.file, "index")
  /\ UNCHANGED <<row, shown, stale, job, knows, budget, reservation, owner,
                 legacy, used, phase>>

Finish ==
  /\ attempt.pc = "index" /\ Index(attempt.file) /\ attempt' = Resting
  /\ UNCHANGED <<final, stale, job, knows, budget, temp, legacy, used, phase>>

\* Any error discards the staged bytes and keeps the reservation.
Leftover_Kept == temp
Leftover == temp \ {attempt.file}

Fail ==
  /\ attempt.pc \in {"reserve", "publish", "index"} /\ Fault
  /\ temp' = Leftover /\ attempt' = Resting
  /\ UNCHANGED <<row, shown, final, stale, job, knows, reservation, owner,
                 legacy, used, phase>>

\* create_text takes the id; it asks for no reservation.
Text ==
  /\ Serving /\ attempt = Resting /\ owner = None /\ owner' = "text"
  /\ UNCHANGED <<purge, temp, reservation, legacy, attempt, used, phase>>

----------------------------------------------------------------------------
(* Startup: recover_upload_reservations, then import_legacy_files.         *)

\* Only a reservation nobody has claimed is listed.
Listed == reservation # None /\ reservation.pc = "staged"

\* Its request was answered: nothing to recover.
RecoverAnswered ==
  /\ phase = "recovery" /\ Listed /\ owner # None
  /\ reservation' = None
  /\ UNCHANGED <<purge, temp, owner, legacy, attempt, used, phase>>

\* _claim_reservation
RecoverClaim ==
  /\ phase = "recovery" /\ Listed /\ owner = None
  /\ reservation' = At(reservation.file, "recovery")
  /\ attempt' = At(reservation.file, "recover")
  /\ UNCHANGED <<purge, temp, owner, legacy, used, phase>>

RecoverPublish ==
  /\ attempt.pc = "recover" /\ attempt.file \in temp
  /\ temp' = temp \ {attempt.file} /\ final' = final \cup {attempt.file}
  /\ UNCHANGED <<row, shown, stale, job, knows, budget, reservation, owner,
                 legacy, attempt, used, phase>>

\* The file is there and becomes downloadable, or its bytes are lost.
RecoverIndex ==
  /\ attempt.pc = "recover" /\ attempt.file \in final
  /\ Index(attempt.file) /\ attempt' = Resting
  /\ UNCHANGED <<final, stale, job, knows, budget, temp, legacy, used, phase>>
RecoverMissing ==
  /\ attempt.pc = "recover" /\ attempt.file \notin final \cup temp
  /\ reservation' = None /\ attempt' = Resting
  /\ UNCHANGED <<purge, temp, owner, legacy, used, phase>>

\* An error of publish or create_file_message is recorded, no more.
RecoverFail ==
  /\ attempt.pc = "recover" /\ attempt.file \in temp \cup final
  /\ Fault /\ attempt' = Resting
  /\ UNCHANGED <<row, shown, final, stale, job, knows, temp, reservation,
                 owner, legacy, used, phase>>

\* discard_orphaned_temporary_files ends the recovery.
Reserved == IF reservation = None THEN {} ELSE {reservation.file}

RecoverEnd ==
  /\ phase = "recovery" /\ attempt = Resting /\ ~Listed
  /\ temp' = temp \cap Reserved /\ phase' = "import"
  /\ UNCHANGED <<purge, reservation, owner, legacy, attempt, used>>

\* _migration_recorded: neither reserved nor indexed.
Importable_Unreserved(f) == f \in final /\ row[f] = "none"
Importable(f) == f \in final /\ row[f] = "none" /\ f \notin Reserved

Import(f) ==
  /\ phase = "import" /\ Importable(f)
  /\ row' = [row EXCEPT ![f] = "active"]
  /\ shown' = [shown EXCEPT ![f] = "visible"]
  /\ legacy' = legacy \cup {f}
  /\ UNCHANGED <<final, stale, job, knows, budget, temp, reservation, owner,
                 attempt, used, phase>>

\* The import of a file may fail and is left to the next start.
ImportEnd ==
  /\ phase = "import" /\ phase' = "up"
  /\ IF \E f \in Files : Importable(f) THEN Fault ELSE NoFault
  /\ UNCHANGED <<row, shown, final, stale, job, knows, temp, reservation, owner,
                 legacy, attempt, used>>

Crash ==
  /\ phase # "down" /\ Spend("crash")
  /\ PurgersDie /\ attempt' = Resting /\ phase' = "down"
  /\ UNCHANGED <<row, shown, final, stale, temp, reservation, owner, legacy, used>>

Start ==
  /\ phase = "down" /\ phase' = "recovery"
  /\ UNCHANGED <<purge, temp, reservation, owner, legacy, attempt, used>>

----------------------------------------------------------------------------
UploadStep ==
  \/ Replay \/ Resume \/ Discard \/ (\E f \in Files : Stage(f))
  \/ Reserve \/ Publish \/ Finish \/ Fail \/ Text

RecoveryStep ==
  \/ RecoverAnswered \/ RecoverClaim \/ RecoverPublish \/ RecoverIndex
  \/ RecoverMissing \/ RecoverFail \/ RecoverEnd

\* The purges run while requests are served, the first one just before.
PurgeWhileUp == PurgeNext /\ Serving /\ UNCHANGED upload

Next ==
  \/ PurgeWhileUp \/ UploadStep \/ RecoveryStep
  \/ (\E f \in Files : Import(f)) \/ ImportEnd \/ Crash \/ Start

Spec == Init /\ [][Next]_vars

\* A dead server is started again, startup goes on to its end, and the
\* maintenance worker purges at every interval until the files are gone.
\* Nothing is assumed of clients, nor of a purge they request.
WorkerStep(f) == (Claim(Worker, f) \/ ListStale(f) \/ TakeOver(f)
                    \/ Unlink(Worker, f) \/ Finalize(Worker, f))
                 /\ Serving /\ UNCHANGED upload
TimePasses(f) == (UndoElapses(f) \/ LeaseElapses(f))
                 /\ Serving /\ UNCHANGED upload
StartupStep == Start \/ RecoveryStep \/ (\E f \in Files : Import(f)) \/ ImportEnd

FairSpec ==
  /\ Spec
  /\ WF_vars(StartupStep)
  /\ \A f \in Files : WF_vars(WorkerStep(f)) /\ WF_vars(TimePasses(f))

TypeOK ==
  /\ PurgeTypeOK
  /\ temp \subseteq used /\ final \subseteq used /\ legacy \subseteq used
  /\ used \subseteq Files
  /\ reservation \in {None} \cup [file : used, pc : {"staged", "recovery"}]
  /\ owner \in {None, "text"} \cup used
  /\ attempt \in {Resting} \cup
       [file : used, pc : {"reserve", "publish", "index", "recover"}]
  /\ phase \in {"down", "recovery", "import", "up"}

----------------------------------------------------------------------------
(* Properties.                                                             *)

\* The startup never lists the bytes of a request as somebody else's legacy
\* file while the request itself may still be answered with them, unless a
\* text has taken its client_request_id (repository.py, _migration_recorded).
ImportedOnlyAfterText == legacy = {} \/ owner = "text"

\* While requests are served, staged bytes belong to the attempt under way or
\* to the reservation that will recover them (storage.py, discard and
\* discard_orphaned_temporary_files).
NoLeftovers == Serving => temp \subseteq Reserved \cup {attempt.file}

\* A client that retries its upload until it is answered gets one file in the
\* library, whatever crashes, recovery, import and a text with the same
\* client_request_id did in between (main.py, process_upload).
OneFilePerRequest ==
  \A f, g \in Files : row[f] # "none" /\ row[g] # "none" => f = g

\* A reservation left by a dead server is resolved by the server alone.
ReservationResolved ==
  phase = "down" /\ reservation # None ~> reservation = None
=============================================================================
