---------------------------- MODULE LocalReceiver ----------------------------
(***************************************************************************)
(* The local upload receiver (src/src/intake/local_console/receiver): the  *)
(* in-memory session and file tables of LocalReceiverService, the upload   *)
(* directory of LocalReceiverStorageService, and the HTTP handlers on top. *)
(*                                                                         *)
(* The receiver is one process with one event loop, and its handlers never *)
(* await: a handler runs to its end before another starts (pc), while time *)
(* passes and the process may die between the handler's disk writes.  The  *)
(* tables die with the process, the directory stays.  Content-type and     *)
(* extension checks only ever reject, so an upload here is one that passed *)
(* them.                                                                   *)
(***************************************************************************)
EXTENDS Integers, FiniteSets, FiniteSetsExt

CONSTANTS
  MaxSessions,  \* bound: sessions created over a behaviour
  MaxFiles,     \* bound: uploads begun over a behaviour
  MaxTime,      \* bound: clock ticks
  Quote,        \* quote ids a session may name
  Sizes,        \* byte counts an uploaded file may have
  Limits        \* limits a session may be created with

SessionId == 1..MaxSessions
FileId    == 1..MaxFiles

LimitSet == [max_file_size_bytes : Nat \ {0}, max_files : Nat \ {0},
             max_total_bytes : Nat \ {0}]

ASSUME ReceiverConstants ==
  /\ MaxSessions \in Nat \ {0} /\ MaxFiles \in Nat \ {0} /\ MaxTime \in Nat
  /\ Quote # {}
  /\ Sizes \subseteq Nat
  /\ Limits \subseteq LimitSet

VARIABLES
  now,        \* the clock datetime.now(utc) reads
  sessions,   \* _sessions: NoSession where the dict has no entry
  files,      \* _files: the records of stored files
  disk,       \* the files under the upload root
  pc,         \* where the one running handler is
  upload,     \* the locals of the running upload handler
  todo,       \* expired_sessions still to be handled by the running cleanup
  created,    \* how many session ids were generated
  issued,     \* how many file ids were generated
  acked,      \* upload receipts handed to clients
  receipts    \* completion receipts handed to clients

vars == <<now, sessions, files, disk, pc, upload, todo, created, issued,
          acked, receipts>>

NoSession == [status |-> "absent"]
NoFile    == [state |-> "none", session_id |-> 0, size |-> 0]
NoUpload  == [mode |-> "none", session_id |-> 0, file_id |-> 0, size |-> 0]

Session == [status : {"active", "completed", "expired"}, quote_id : Quote,
            expires_at : Nat, limits : Limits,
            uploaded_files : SUBSET FileId, total_bytes_uploaded : Nat]
FileRecord == [file_id : FileId, session_id : SessionId, size_bytes : Nat]
StoredFile == [state : {"temp", "final"}, session_id : SessionId, size : Nat]
Upload == [mode : {"buffered", "streamed"}, session_id : SessionId,
           file_id : FileId, size : Nat]
Receipt == [session_id : SessionId, endpoint : {"complete", "receipt"},
            completed_at : Nat, files : SUBSET FileRecord]

Known(s)    == sessions[s] # NoSession
Lapsed(s)   == sessions[s].expires_at < now
OnDisk(f)   == disk[f].state # "none"
SizeOfRecord(r) == r.size_bytes
TotalSize(R) == MapThenSumSet(SizeOfRecord, R)

Init ==
  /\ now = 0
  /\ sessions = [s \in SessionId |-> NoSession]
  /\ files = {} /\ acked = {} /\ receipts = {}
  /\ disk = [f \in FileId |-> NoFile]
  /\ pc = "idle" /\ upload = NoUpload /\ todo = {}
  /\ created = 0 /\ issued = 0

-----------------------------------------------------------------------------
(* Sessions                                                                *)

\* An expiry equal to the current reading passes validation and then fails
\* on timezone.timedelta: no session either way, so the guard is strict.
CreateSession(q, e, limits) ==
  /\ pc = "idle"
  /\ created < MaxSessions
  /\ e > now
  /\ created' = created + 1
  /\ sessions' = [sessions EXCEPT ![created + 1] =
       [status |-> "active", quote_id |-> q, expires_at |-> e,
        limits |-> limits, uploaded_files |-> {}, total_bytes_uploaded |-> 0]]
  /\ UNCHANGED <<now, files, disk, pc, upload, todo, issued, acked, receipts>>

\* Every handler looks its session up with get_session, which marks a lapsed
\* session expired, a completed one too, before it raises.
GetSession(s) ==
  /\ pc = "idle"
  /\ Known(s) /\ Lapsed(s)
  /\ sessions' = [sessions EXCEPT ![s].status = "expired"]
  /\ UNCHANGED <<now, files, disk, pc, upload, todo, created, issued, acked,
                 receipts>>

\* Mutant: the receipt lists every file the receiver stores.
ReceiptFiles_All(s) == files

\* The receipts of a session: its listed files that still have a record.
ReceiptFiles(s) ==
  {r \in files : r.file_id \in sessions[s].uploaded_files /\ r.session_id = s}

Completable(s, q) ==
  /\ Known(s) /\ ~Lapsed(s)
  /\ sessions[s].status # "completed"
  /\ sessions[s].quote_id = q

CompleteVia(endpoint, s, q) ==
  /\ pc = "idle"
  /\ Completable(s, q)
  /\ sessions' = [sessions EXCEPT ![s].status = "completed"]
  /\ receipts' = receipts \cup
       {[session_id |-> s, endpoint |-> endpoint, completed_at |-> now,
         files |-> ReceiptFiles(s)]}
  /\ UNCHANGED <<now, files, disk, pc, upload, todo, created, issued, acked>>

CompleteSession(s, q) == CompleteVia("complete", s, q)

\* The receipt endpoint builds its own completion request for the session.
GetSessionReceipt(s) ==
  Known(s) /\ CompleteVia("receipt", s, sessions[s].quote_id)

-----------------------------------------------------------------------------
(* Uploads                                                                 *)

\* Mutant: a completed session still takes files.
ValidateFileUpload_Completed(s, size) ==
  LET session == sessions[s] IN
  /\ Known(s) /\ ~Lapsed(s)
  /\ size > 0 /\ size <= session.limits.max_file_size_bytes
  /\ session.total_bytes_uploaded + size <= session.limits.max_total_bytes
  /\ Cardinality(session.uploaded_files) < session.limits.max_files

ValidateFileUpload(s, size) ==
  LET session == sessions[s] IN
  /\ Known(s) /\ ~Lapsed(s)
  /\ session.status = "active"
  /\ size > 0 /\ size <= session.limits.max_file_size_bytes
  /\ session.total_bytes_uploaded + size <= session.limits.max_total_bytes
  /\ Cardinality(session.uploaded_files) < session.limits.max_files

\* The buffered endpoint knows the size; the streamed one is given a file
\* object without a size and validates as if it had one byte.
SizeBeforeStore(mode, size) == IF mode = "buffered" THEN size ELSE 1

\* Validation, a fresh id, and the write of .<file_id>.tmp.
BeginUpload(mode, s, size) ==
  /\ pc = "idle"
  /\ issued < MaxFiles
  /\ ValidateFileUpload(s, SizeBeforeStore(mode, size))
  /\ issued' = issued + 1
  /\ upload' = [mode |-> mode, session_id |-> s, file_id |-> issued + 1,
                size |-> size]
  /\ disk' = [disk EXCEPT ![issued + 1] =
                [state |-> "temp", session_id |-> s, size |-> size]]
  /\ pc' = "writing"
  /\ UNCHANGED <<now, sessions, files, todo, created, acked, receipts>>

\* The write or the rename fails: store_file leaves its temp file behind,
\* stream_store_file removes it.
StoreFails ==
  /\ pc = "writing"
  /\ disk' = IF upload.mode = "streamed"
             THEN [disk EXCEPT ![upload.file_id] = NoFile] ELSE disk
  /\ pc' = "idle" /\ upload' = NoUpload
  /\ UNCHANGED <<now, sessions, files, todo, created, issued, acked, receipts>>

RenameTemp ==
  /\ pc = "writing"
  /\ disk' = [disk EXCEPT ![upload.file_id].state = "final"]
  /\ pc' = "stored"
  /\ UNCHANGED <<now, sessions, files, upload, todo, created, issued, acked,
                 receipts>>

\* Mutant: the session total is not checked against the streamed size.
StreamedFits_NoTotal(s, size) ==
  /\ size <= sessions[s].limits.max_file_size_bytes
  /\ Cardinality(sessions[s].uploaded_files) < sessions[s].limits.max_files

\* The checks process_streamed_file_upload repeats once the size is known.
StreamedFits(s, size) ==
  /\ size <= sessions[s].limits.max_file_size_bytes
  /\ sessions[s].total_bytes_uploaded + size <= sessions[s].limits.max_total_bytes
  /\ Cardinality(sessions[s].uploaded_files) < sessions[s].limits.max_files

\* Mutant: a streamed file is recorded with the size it was validated with.
UploadedRecord_Placeholder ==
  [file_id |-> upload.file_id, session_id |-> upload.session_id,
   size_bytes |-> SizeBeforeStore(upload.mode, upload.size)]

\* Mutant: a streamed file is recorded with the size its request gave: unknown.
UploadedRecord_Unknown ==
  [file_id |-> upload.file_id, session_id |-> upload.session_id,
   size_bytes |-> IF upload.mode = "streamed" THEN -1 ELSE upload.size]

UploadedRecord == [file_id |-> upload.file_id, session_id |-> upload.session_id,
                   size_bytes |-> upload.size]

\* Mutant: the session's total is left alone.
Listing_NoTotal(session) ==
  [session EXCEPT !.uploaded_files = @ \cup {upload.file_id}]

Listing(session) == [session EXCEPT !.uploaded_files = @ \cup {upload.file_id},
                                    !.total_bytes_uploaded = @ + upload.size]

\* The session object is the one validated: its status and its expiry are
\* not looked at again.
RecordUpload ==
  /\ pc = "stored"
  /\ upload.mode = "streamed" =>
       upload.size > 0 /\ StreamedFits(upload.session_id, upload.size)
  /\ sessions' = [sessions EXCEPT
                    ![upload.session_id] = Listing(sessions[upload.session_id])]
  /\ files' = files \cup {UploadedRecord}
  /\ acked' = acked \cup {UploadedRecord}
  /\ pc' = "idle" /\ upload' = NoUpload
  /\ UNCHANGED <<now, disk, todo, created, issued, receipts>>

\* Mutant: a streamed file that does not fit is left where it was stored.
RejectedDisk_Kept == disk

\* An empty streamed file is rejected first and is not deleted.
RejectedDisk ==
  IF upload.size = 0 THEN disk ELSE [disk EXCEPT ![upload.file_id] = NoFile]

RejectStreamed ==
  /\ pc = "stored"
  /\ upload.mode = "streamed"
  /\ upload.size = 0 \/ ~StreamedFits(upload.session_id, upload.size)
  /\ disk' = RejectedDisk
  /\ pc' = "idle" /\ upload' = NoUpload
  /\ UNCHANGED <<now, sessions, files, todo, created, issued, acked, receipts>>

-----------------------------------------------------------------------------
(* Cleanup                                                                 *)

\* Mutant: cleanup also takes the sessions that are merely completed.
ExpiredSessions_Done ==
  {s \in SessionId : Known(s) /\ (Lapsed(s) \/ sessions[s].status # "active")}

ExpiredSessions ==
  {s \in SessionId : Known(s) /\ (Lapsed(s) \/ sessions[s].status = "expired")}

BeginCleanup ==
  /\ pc = "idle"
  /\ ExpiredSessions # {}
  /\ todo' = ExpiredSessions
  /\ pc' = "cleaning"
  /\ UNCHANGED <<now, sessions, files, disk, upload, created, issued, acked,
                 receipts>>

\* The session whose turn it is: the dict lists sessions as they were created.
NextExpired(s) == s \in todo /\ \A t \in todo : s <= t

\* What cleanup_session finds in the directory of s after the recorded files
\* are gone: rejected empty files and the temp files of failed writes.
Leftovers(s) ==
  {f \in FileId : OnDisk(f) /\ disk[f].session_id = s} \
  {r.file_id : r \in ReceiptFiles(s)}

WithoutFiles(F) == [f \in FileId |-> IF f \in F THEN NoFile ELSE disk[f]]

\* Recorded files, then the directory, then the session.
CleanSession(s) ==
  /\ pc = "cleaning"
  /\ NextExpired(s)
  /\ Leftovers(s) = {}
  /\ disk' = WithoutFiles({r.file_id : r \in ReceiptFiles(s)})
  /\ files' = files \ ReceiptFiles(s)
  /\ sessions' = [sessions EXCEPT ![s] = NoSession]
  /\ todo' = todo \ {s}
  /\ pc' = IF todo = {s} THEN "idle" ELSE "cleaning"
  /\ UNCHANGED <<now, upload, created, issued, acked, receipts>>

\* cleanup_session initialises "iles_deleted" and increments "files_deleted":
\* the first leftover it unlinks raises KeyError, which ends the whole pass.
CleanSessionRaises(s, f) ==
  /\ pc = "cleaning"
  /\ NextExpired(s)
  /\ f \in Leftovers(s)
  /\ disk' = WithoutFiles({f} \cup {r.file_id : r \in ReceiptFiles(s)})
  /\ files' = files \ ReceiptFiles(s)
  /\ sessions' = IF sessions[s].status = "completed" THEN sessions
                 ELSE [sessions EXCEPT ![s].status = "expired"]
  /\ todo' = {} /\ pc' = "idle"
  /\ UNCHANGED <<now, upload, created, issued, acked, receipts>>

-----------------------------------------------------------------------------
(* The environment                                                         *)

\* The process dies, between any two steps of a handler, and starts again.
Restart ==
  /\ sessions' = [s \in SessionId |-> NoSession]
  /\ files' = {}
  /\ pc' = "idle" /\ upload' = NoUpload /\ todo' = {}
  /\ UNCHANGED <<now, disk, created, issued, acked, receipts>>

Tick ==
  /\ now < MaxTime
  /\ now' = now + 1
  /\ UNCHANGED <<sessions, files, disk, pc, upload, todo, created, issued,
                 acked, receipts>>

Next ==
  \/ \E q \in Quote, e \in 1..MaxTime, limits \in Limits : CreateSession(q, e, limits)
  \/ \E s \in SessionId : GetSession(s)
  \/ \E s \in SessionId, q \in Quote : CompleteSession(s, q)
  \/ \E s \in SessionId : GetSessionReceipt(s)
  \/ \E mode \in {"buffered", "streamed"}, s \in SessionId, size \in Sizes :
       BeginUpload(mode, s, size)
  \/ StoreFails \/ RenameTemp \/ RecordUpload \/ RejectStreamed
  \/ BeginCleanup
  \/ \E s \in SessionId : CleanSession(s)
  \/ \E s \in SessionId, f \in FileId : CleanSessionRaises(s, f)
  \/ Restart
  \/ Tick

Spec == Init /\ [][Next]_vars

-----------------------------------------------------------------------------
(* Properties                                                              *)

\* Every variable stays in its domain.
TypeOK ==
  /\ now \in 0..MaxTime
  /\ sessions \in [SessionId -> Session \cup {NoSession}]
  /\ files \subseteq FileRecord
  /\ disk \in [FileId -> StoredFile \cup {NoFile}]
  /\ pc \in {"idle", "writing", "stored", "cleaning"}
  /\ upload \in Upload \cup {NoUpload}
  /\ todo \subseteq SessionId
  /\ created \in 0..MaxSessions
  /\ issued \in 0..MaxFiles
  /\ acked \subseteq FileRecord
  /\ receipts \subseteq Receipt

\* A session never holds more files or bytes than it was created with,
\* although a streamed upload is admitted before its size is known.
QuotaRespected ==
  \A s \in SessionId : Known(s) =>
    /\ Cardinality(sessions[s].uploaded_files) <= sessions[s].limits.max_files
    /\ sessions[s].total_bytes_uploaded <= sessions[s].limits.max_total_bytes

\* The running total of a session is the size of the files it told its
\* clients it had stored.
TotalMatchesAcked ==
  \A s \in SessionId : Known(s) =>
    sessions[s].total_bytes_uploaded = TotalSize({a \in acked : a.session_id = s})

\* Every record in the table has its complete file in its session's
\* directory, at every point of every handler.
RecordedOnDisk ==
  \A r \in files :
    disk[r.file_id] = [state |-> "final", session_id |-> r.session_id,
                       size |-> r.size_bytes]

\* A completion receipt lists all the files its session ever acknowledged:
\* nothing was dropped before it and nothing is added after it ("Once
\* completed, no further files can be uploaded to the session").
ReceiptIsFinal ==
  \A c \in receipts : c.files = {a \in acked : a.session_id = c.session_id}

\* A rejected streamed upload leaves no file in a live session's directory,
\* except that an empty one does.
RejectedLeavesNoBytes ==
  \A f \in FileId :
    (disk[f].state = "final" /\ disk[f].size > 0 /\ Known(disk[f].session_id))
      => \/ \E r \in files : r.file_id = f
         \/ upload.file_id = f

\* The stored file of a session that has not lapsed is never touched, whoever
\* else is being cleaned up and however often the receiver restarts.
LiveFilesKept ==
  [][\A r \in files : ~Lapsed(r.session_id) => disk'[r.file_id] = disk[r.file_id]]_vars

-----------------------------------------------------------------------------
(* What the docs say and the code does not do                              *)

\* "Clean up expired sessions and their files." (receiver/service.py:597): a
\* pass that ends leaves none of the sessions it set out to clean.
CleanupPassCleans ==
  [][pc = "cleaning" /\ pc' = "idle" => \A s \in todo : sessions'[s] = NoSession]_vars

-----------------------------------------------------------------------------
(* The inductive invariant the proofs in LocalReceiverProofs.tla use         *)

\* An upload is running; the file ids up to Used are not its own.
Busy == pc \in {"writing", "stored"}
Used == IF Busy THEN issued - 1 ELSE issued

\* A running upload belongs to an active session, and a buffered one was
\* admitted with its true size against totals nobody has changed since.
UploadAdmitted ==
  Busy =>
    LET s == upload.session_id IN
    /\ upload \in Upload
    /\ Known(s) /\ sessions[s].status = "active"
    /\ upload.file_id = issued
    /\ upload.mode = "buffered" =>
         /\ sessions[s].total_bytes_uploaded + upload.size
              <= sessions[s].limits.max_total_bytes
         /\ Cardinality(sessions[s].uploaded_files) < sessions[s].limits.max_files
    /\ disk[issued] = [state |-> IF pc = "writing" THEN "temp" ELSE "final",
                       session_id |-> s, size |-> upload.size]

\* Ids are generated once: the running upload's is not among those in use.
FreshIds ==
  /\ \A a \in acked : a.file_id <= Used /\ a.session_id <= created
  /\ \A f \in FileId : f > issued => disk[f] = NoFile
  /\ \A s \in SessionId : Known(s) =>
       s <= created /\ \A f \in sessions[s].uploaded_files : f <= Used
  /\ \A c \in receipts : c.session_id <= created

\* Acknowledged file ids are unique, recorded files were acknowledged and are
\* listed by their session, which lists nothing else while it has not lapsed.
RecordsListed ==
  /\ files \subseteq acked
  /\ \A a, b \in acked : a.file_id = b.file_id => a = b
  /\ \A r \in files : /\ Known(r.session_id)
                       /\ r.file_id \in sessions[r.session_id].uploaded_files
  /\ \A a \in acked : Known(a.session_id) /\ ~Lapsed(a.session_id) => a \in files

\* Only lapsed sessions are marked expired or cleaned, and a session with a
\* receipt is not active.
LapsedOnly ==
  /\ \A s \in SessionId : Known(s) /\ sessions[s].status = "expired" => Lapsed(s)
  /\ \A s \in todo : Known(s) /\ Lapsed(s)
  /\ pc = "cleaning" <=> todo # {}
  /\ \A c \in receipts : Known(c.session_id) => sessions[c.session_id].status # "active"

IInv ==
  /\ TypeOK /\ QuotaRespected /\ RecordedOnDisk /\ ReceiptIsFinal
  /\ UploadAdmitted /\ FreshIds /\ RecordsListed /\ LapsedOnly

-----------------------------------------------------------------------------
(* The contract this specification implements                              *)

ContractPhase(s) ==
  CASE s > created -> "unopened"
    [] s <= created /\ ~Known(s) -> "closed"
    [] s <= created /\ Known(s) /\ sessions[s].status = "active" -> "open"
    [] s <= created /\ Known(s) /\ sessions[s].status = "completed" -> "sealed"
    [] OTHER -> "closed"

Contract == INSTANCE UploadSessionContract WITH
  phase <- [s \in SessionId |-> ContractPhase(s)],
  accepted <- [s \in SessionId |->
                 {a.file_id : a \in {b \in acked : b.session_id = s}}],
  manifest <- [s \in SessionId |->
                 {r.file_id : r \in UNION {c.files : c \in
                                {d \in receipts : d.session_id = s}}}]

\* The receiver implements the promise of UploadSessionContract, through
\* expiry, failed cleanups and restarts.
KeepsContract == Contract!Spec
=============================================================================
