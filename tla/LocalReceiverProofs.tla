------------------------- MODULE LocalReceiverProofs -------------------------
(***************************************************************************)
(* Proofs about the local receiver, for any number of sessions and files,  *)
(* any sizes, any limits and any clock.  IInv, defined in LocalReceiver,   *)
(* is shown to be inductive one part at a time; every theorem follows.     *)
(***************************************************************************)
EXTENDS LocalReceiver, FoldLemmas

\* A set of file ids is finite, and adding a new id adds one to its size.
LEMMA FileSets ==
  ASSUME NEW S \in SUBSET FileId
  PROVE  /\ IsFiniteSet(S)
         /\ Cardinality(S) \in Nat
         /\ \A f \in FileId : f \notin S => Cardinality(S \cup {f}) = Cardinality(S) + 1
  <1>1. IsFiniteSet(FileId)
    BY ReceiverConstants, FS_Interval DEF FileId
  <1>2. IsFiniteSet(S)
    BY <1>1, FS_Subset
  <1>3. QED
    BY <1>2, FS_CardinalityType, FS_AddElement

\* The two ways a handler completes a session are one action.
LEMMA CompleteActions ==
  /\ \A s \in SessionId, q \in Quote : CompleteSession(s, q) => CompleteVia("complete", s, q)
  /\ \A s \in SessionId : GetSessionReceipt(s) => CompleteVia("receipt", s, sessions[s].quote_id)
  BY DEF CompleteSession, GetSessionReceipt

\* Recording a file keeps a session a session and lists the new file.
LEMMA ListingFields ==
  ASSUME NEW session \in Session, upload \in Upload
  PROVE  /\ Listing(session) \in Session
         /\ Listing(session).uploaded_files = session.uploaded_files \cup {upload.file_id}
         /\ Listing(session).total_bytes_uploaded = session.total_bytes_uploaded + upload.size
         /\ Listing(session).limits = session.limits
         /\ Listing(session).status = session.status
         /\ Listing(session).expires_at = session.expires_at
  <1> DEFINE U == session.uploaded_files \cup {upload.file_id}
             n == session.total_bytes_uploaded + upload.size
  <1>1. U \in SUBSET FileId /\ n \in Nat
    BY DEF Session, Upload
  <1>2. Listing(session) = [session EXCEPT !.uploaded_files = U, !.total_bytes_uploaded = n]
    BY DEF Listing
  <1> HIDE DEF U, n
  <1>3. /\ [session EXCEPT !.uploaded_files = U, !.total_bytes_uploaded = n] \in Session
        /\ [session EXCEPT !.uploaded_files = U, !.total_bytes_uploaded = n].uploaded_files = U
        /\ [session EXCEPT !.uploaded_files = U, !.total_bytes_uploaded = n].total_bytes_uploaded = n
        /\ [session EXCEPT !.uploaded_files = U, !.total_bytes_uploaded = n].limits = session.limits
        /\ [session EXCEPT !.uploaded_files = U, !.total_bytes_uploaded = n].status = session.status
        /\ [session EXCEPT !.uploaded_files = U, !.total_bytes_uploaded = n].expires_at = session.expires_at
    BY <1>1 DEF Session
  <1> QED
    BY <1>2, <1>3 DEF U, n

-----------------------------------------------------------------------------
(* Type correctness                                                        *)

LEMMA TypeInit == Init => TypeOK
  BY ReceiverConstants DEF Init, TypeOK, SessionId, FileId

LEMMA TypeStep == IInv /\ [Next]_vars => TypeOK'
  <1> SUFFICES ASSUME TypeOK, UploadAdmitted, LapsedOnly, [Next]_vars PROVE TypeOK'
    BY DEF IInv
  <1> USE ReceiverConstants
  <1>1. ASSUME NEW q \in Quote, NEW e \in 1..MaxTime, NEW limits \in Limits,
               CreateSession(q, e, limits)
        PROVE  TypeOK'
    <2>1. created + 1 \in SessionId /\ created' \in 0..MaxSessions
      BY <1>1 DEF CreateSession, TypeOK, SessionId
    <2>2. [status |-> "active", quote_id |-> q, expires_at |-> e,
           limits |-> limits, uploaded_files |-> {}, total_bytes_uploaded |-> 0]
            \in Session
      BY DEF Session
    <2> QED
      BY <1>1, <2>1, <2>2 DEF CreateSession, TypeOK
  <1>2. ASSUME NEW s \in SessionId, GetSession(s)
        PROVE  TypeOK'
    BY <1>2 DEF GetSession, TypeOK, Known, Session
  <1>3. ASSUME NEW s \in SessionId, NEW q, NEW endpoint \in {"complete", "receipt"},
               CompleteVia(endpoint, s, q)
        PROVE  TypeOK'
    <2>1. sessions' \in [SessionId -> Session \cup {NoSession}]
      BY <1>3 DEF CompleteVia, Completable, TypeOK, Known, Session
    <2>2. receipts' \subseteq Receipt
      <3>1. ReceiptFiles(s) \subseteq FileRecord /\ now \in Nat
        BY DEF ReceiptFiles, TypeOK
      <3> QED
        BY <1>3, <3>1 DEF CompleteVia, TypeOK, Receipt
    <2> QED
      BY <1>3, <2>1, <2>2 DEF CompleteVia, TypeOK
  <1>4. ASSUME NEW mode \in {"buffered", "streamed"}, NEW s \in SessionId,
               NEW size \in Sizes, BeginUpload(mode, s, size)
        PROVE  TypeOK'
    <2>1. issued + 1 \in FileId /\ issued' \in 0..MaxFiles
      BY <1>4 DEF BeginUpload, TypeOK, FileId
    <2>2. upload' \in Upload
      BY <1>4, <2>1 DEF BeginUpload, Upload
    <2>3. disk' \in [FileId -> StoredFile \cup {NoFile}]
      BY <1>4, <2>1 DEF BeginUpload, StoredFile, TypeOK
    <2> QED
      BY <1>4, <2>1, <2>2, <2>3 DEF BeginUpload, TypeOK
  <1>5. CASE StoreFails
    BY <1>5 DEF StoreFails, TypeOK
  <1>6. CASE RenameTemp
    <2>1. /\ upload \in Upload /\ upload.file_id \in FileId
          /\ disk[upload.file_id] \in StoredFile
      BY <1>6 DEF RenameTemp, UploadAdmitted, Busy, TypeOK, StoredFile, NoFile, Upload
    <2>2. [disk[upload.file_id] EXCEPT !.state = "final"] \in StoredFile
      BY <2>1 DEF StoredFile
    <2> QED
      BY <1>6, <2>1, <2>2 DEF RenameTemp, TypeOK
  <1>7. CASE RecordUpload
    <2>1. upload \in Upload /\ sessions[upload.session_id] \in Session
      BY <1>7 DEF RecordUpload, UploadAdmitted, Busy, Upload, Known, TypeOK
    <2>2. UploadedRecord \in FileRecord
      BY <2>1 DEF UploadedRecord, FileRecord, Upload
    <2>3. Listing(sessions[upload.session_id]) \in Session
      BY <2>1, ListingFields
    <2>4. sessions' \in [SessionId -> Session \cup {NoSession}]
      BY <1>7, <2>3 DEF RecordUpload, TypeOK
    <2> QED
      BY <1>7, <2>2, <2>4 DEF RecordUpload, TypeOK
  <1>8. CASE RejectStreamed
    BY <1>8 DEF RejectStreamed, RejectedDisk, TypeOK
  <1>9. CASE BeginCleanup
    BY <1>9 DEF BeginCleanup, ExpiredSessions, TypeOK
  <1>10. ASSUME NEW s \in SessionId, CleanSession(s)
         PROVE  TypeOK'
    BY <1>10 DEF CleanSession, WithoutFiles, TypeOK
  <1>11. ASSUME NEW s \in SessionId, NEW f \in FileId, CleanSessionRaises(s, f)
         PROVE  TypeOK'
    <2>1. sessions[s] \in Session
      BY <1>11 DEF CleanSessionRaises, NextExpired, LapsedOnly, Known, TypeOK
    <2>2. sessions' \in [SessionId -> Session \cup {NoSession}]
      BY <1>11, <2>1 DEF CleanSessionRaises, TypeOK, Session
    <2> QED
      BY <1>11, <2>2 DEF CleanSessionRaises, WithoutFiles, TypeOK
  <1>12. CASE Restart
    BY <1>12 DEF Restart, TypeOK
  <1>13. CASE Tick
    BY <1>13 DEF Tick, TypeOK
  <1>14. CASE UNCHANGED vars
    BY <1>14 DEF vars, TypeOK
  <1> QED
    BY <1>1, <1>2, <1>3, <1>4, <1>5, <1>6, <1>7, <1>8, <1>9, <1>10, <1>11, <1>12,
       <1>13, <1>14, CompleteActions DEF Next
-----------------------------------------------------------------------------
(* What each step does to the session table                                *)

\* Marking a session changes its status and nothing else.
LEMMA StatusFields ==
  ASSUME NEW session \in Session, NEW x \in {"active", "completed", "expired"}
  PROVE  /\ [session EXCEPT !.status = x] \in Session
         /\ [session EXCEPT !.status = x].status = x
         /\ [session EXCEPT !.status = x].uploaded_files = session.uploaded_files
         /\ [session EXCEPT !.status = x].total_bytes_uploaded = session.total_bytes_uploaded
         /\ [session EXCEPT !.status = x].limits = session.limits
         /\ [session EXCEPT !.status = x].expires_at = session.expires_at
  BY DEF Session

\* No handler but the upload's adds to a session, and every session that is
\* in the table after a step was there before it or is new and empty.
SameUploads(s) ==
  /\ Known(s)
  /\ sessions'[s].uploaded_files = sessions[s].uploaded_files
  /\ sessions'[s].total_bytes_uploaded = sessions[s].total_bytes_uploaded
  /\ sessions'[s].limits = sessions[s].limits
  /\ sessions'[s].expires_at = sessions[s].expires_at

NewSession(s) ==
  /\ s = created + 1 /\ created' = created + 1 /\ pc = "idle"
  /\ sessions'[s].status = "active"
  /\ sessions'[s].uploaded_files = {}
  /\ sessions'[s].total_bytes_uploaded = 0
  /\ sessions'[s].limits \in LimitSet

\* A cleanup pass that raises leaves the session in the table, marked at most.
LEMMA RaisesMarks ==
  ASSUME IInv, NEW t \in SessionId, NEW f \in FileId, CleanSessionRaises(t, f)
  PROVE  /\ Lapsed(t)
         /\ \A s \in SessionId :
              \/ sessions'[s] = sessions[s]
              \/ /\ s = t /\ Known(s)
                 /\ sessions[s] \in Session /\ sessions'[s] \in Session
                 /\ sessions'[s].status = "expired"
                 /\ sessions'[s].uploaded_files = sessions[s].uploaded_files
                 /\ sessions'[s].total_bytes_uploaded = sessions[s].total_bytes_uploaded
                 /\ sessions'[s].limits = sessions[s].limits
                 /\ sessions'[s].expires_at = sessions[s].expires_at
  <1>1. sessions[t] \in Session /\ Lapsed(t)
    BY DEF CleanSessionRaises, NextExpired, LapsedOnly, Known, TypeOK, IInv
  <1>2. CASE sessions' = [sessions EXCEPT ![t].status = "expired"]
    <2> DEFINE marked == [sessions[t] EXCEPT !.status = "expired"]
    <2>1. sessions'[t] = marked
      BY <1>2 DEF IInv, TypeOK
    <2>2. \A s \in SessionId : s # t => sessions'[s] = sessions[s]
      BY <1>2 DEF IInv, TypeOK
    <2>3. /\ marked \in Session /\ marked.status = "expired"
          /\ marked.uploaded_files = sessions[t].uploaded_files
          /\ marked.total_bytes_uploaded = sessions[t].total_bytes_uploaded
          /\ marked.limits = sessions[t].limits
          /\ marked.expires_at = sessions[t].expires_at
      BY <1>1, StatusFields
    <2>4. Known(t)
      BY <1>1 DEF Known, Session, NoSession
    <2> HIDE DEF marked
    <2> QED
      BY <1>1, <2>1, <2>2, <2>3, <2>4
  <1>3. UNCHANGED sessions \/ sessions' = [sessions EXCEPT ![t].status = "expired"]
    BY DEF CleanSessionRaises
  <1> QED
    BY <1>1, <1>2, <1>3

LEMMA SessionSteps ==
  ASSUME IInv, [Next]_vars, ~RecordUpload, NEW s \in SessionId, Known(s)'
  PROVE  SameUploads(s) \/ NewSession(s)
  <1> USE ReceiverConstants DEF IInv
  <1>1. ASSUME NEW q \in Quote, NEW e \in 1..MaxTime, NEW limits \in Limits,
               CreateSession(q, e, limits)
        PROVE  SameUploads(s) \/ NewSession(s)
    BY <1>1 DEF CreateSession, SameUploads, NewSession, TypeOK, Known, NoSession
  <1>2. ASSUME NEW t \in SessionId, GetSession(t)
        PROVE  SameUploads(s)
    BY <1>2, StatusFields DEF GetSession, SameUploads, TypeOK, Known
  <1>3. ASSUME NEW t \in SessionId, NEW q, NEW endpoint \in {"complete", "receipt"},
               CompleteVia(endpoint, t, q)
        PROVE  SameUploads(s)
    BY <1>3, StatusFields DEF CompleteVia, Completable, SameUploads, TypeOK, Known
  <1>4. ASSUME NEW t \in SessionId, CleanSession(t)
        PROVE  SameUploads(s)
    BY <1>4 DEF CleanSession, SameUploads, TypeOK, Known
  <1>5. ASSUME NEW t \in SessionId, NEW f \in FileId, CleanSessionRaises(t, f)
        PROVE  SameUploads(s)
    BY <1>5, RaisesMarks DEF SameUploads, Known
  <1>6. CASE Restart
    BY <1>6 DEF Restart, Known
  <1>7. CASE UNCHANGED sessions
    BY <1>7 DEF SameUploads, Known
  <1>8. \/ StoreFails \/ RenameTemp \/ RejectStreamed \/ BeginCleanup \/ Tick
        \/ UNCHANGED vars
        \/ \E mode \in {"buffered", "streamed"}, t \in SessionId, size \in Sizes :
             BeginUpload(mode, t, size)
        => UNCHANGED sessions
    BY DEF StoreFails, RenameTemp, RejectStreamed, BeginCleanup, Tick, vars, BeginUpload
  <1> QED
    BY <1>1, <1>2, <1>3, <1>4, <1>5, <1>6, <1>7, <1>8, CompleteActions DEF Next

-----------------------------------------------------------------------------
(* Quotas                                                                  *)

\* What recording an admitted upload needs: it still fits.
LEMMA RecordFits ==
  ASSUME IInv, RecordUpload
  PROVE  LET s == upload.session_id IN
         /\ s \in SessionId /\ upload \in Upload /\ sessions[s] \in Session
         /\ upload.file_id = issued /\ issued \in FileId
         /\ sessions[s].status = "active"
         /\ sessions[s].total_bytes_uploaded + upload.size
               <= sessions[s].limits.max_total_bytes
         /\ Cardinality(sessions[s].uploaded_files) < sessions[s].limits.max_files
  <1>1. UploadAdmitted /\ pc = "stored" /\ upload \in Upload
    BY DEF IInv, RecordUpload, UploadAdmitted, Busy
  <1>2. upload.session_id \in SessionId /\ sessions[upload.session_id] \in Session
    BY <1>1 DEF IInv, UploadAdmitted, Busy, TypeOK, Upload, Known
  <1>3. upload.mode = "streamed" => StreamedFits(upload.session_id, upload.size)
    BY DEF RecordUpload
  <1> QED
    BY <1>1, <1>2, <1>3 DEF UploadAdmitted, Busy, StreamedFits, Upload

LEMMA QuotaStep == IInv /\ [Next]_vars => QuotaRespected'
  <1> SUFFICES ASSUME IInv, [Next]_vars, NEW s \in SessionId, Known(s)'
               PROVE  /\ Cardinality(sessions'[s].uploaded_files) <= sessions'[s].limits.max_files
                      /\ sessions'[s].total_bytes_uploaded <= sessions'[s].limits.max_total_bytes
    BY DEF QuotaRespected, Known
  <1>1. CASE ~RecordUpload
    <2>1. CASE SameUploads(s)
      BY <2>1 DEF SameUploads, IInv, QuotaRespected
    <2>2. CASE NewSession(s)
      BY <2>2, FS_EmptySet DEF NewSession, LimitSet
    <2> QED
      BY <1>1, <2>1, <2>2, SessionSteps
  <1>2. CASE RecordUpload
    <2> DEFINE t == upload.session_id
    <2>1. sessions' = [sessions EXCEPT ![t] = Listing(sessions[t])]
      BY <1>2 DEF RecordUpload
    <2>2. CASE s # t
      BY <2>1, <2>2 DEF IInv, TypeOK, QuotaRespected, Known
    <2>3. CASE s = t
      <3>1. sessions'[s] = Listing(sessions[s])
        BY <2>1, <2>3 DEF IInv, TypeOK
      <3>2. /\ sessions'[s].uploaded_files = sessions[s].uploaded_files \cup {upload.file_id}
            /\ sessions'[s].total_bytes_uploaded = sessions[s].total_bytes_uploaded + upload.size
            /\ sessions'[s].limits = sessions[s].limits
        BY <1>2, <2>3, <3>1, RecordFits, ListingFields
      <3>3. /\ sessions[s].uploaded_files \in SUBSET FileId
            /\ sessions[s].limits \in LimitSet
        BY <1>2, <2>3, RecordFits, ReceiverConstants DEF Session
      <3>4. /\ upload.file_id \in FileId
            /\ upload.file_id \notin sessions[s].uploaded_files
        <4>1. Known(s)
          BY <1>2, <2>3 DEF RecordUpload, IInv, UploadAdmitted, Busy
        <4>2. \A f \in sessions[s].uploaded_files : f <= issued - 1
          BY <1>2, <4>1 DEF RecordUpload, IInv, FreshIds, Used, Busy
        <4> QED
          BY <1>2, <2>3, <4>2, RecordFits DEF FileId
      <3>5. Cardinality(sessions[s].uploaded_files \cup {upload.file_id})
              = Cardinality(sessions[s].uploaded_files) + 1
        BY <3>3, <3>4, FileSets
      <3> QED
        BY <1>2, <2>3, <3>2, <3>3, <3>5, FileSets, RecordFits DEF LimitSet
    <2> QED
      BY <2>2, <2>3
  <1> QED
    BY <1>1, <1>2

-----------------------------------------------------------------------------
(* Files on disk                                                           *)

\* The record an upload adds is new and its file is complete.
LEMMA RecordIsNew ==
  ASSUME IInv, RecordUpload
  PROVE  /\ UploadedRecord \in FileRecord
         /\ disk[UploadedRecord.file_id] =
              [state |-> "final", session_id |-> UploadedRecord.session_id,
               size |-> UploadedRecord.size_bytes]
         /\ UploadedRecord.file_id = issued
         /\ UploadedRecord.session_id = upload.session_id
         /\ \A a \in acked : a.file_id < issued
  <1>1. upload \in Upload /\ upload.file_id = issued /\ issued \in FileId
    BY RecordFits
  <1>2. UploadedRecord \in FileRecord
    BY <1>1 DEF UploadedRecord, FileRecord, Upload
  <1>3. disk[issued] = [state |-> "final", session_id |-> upload.session_id,
                        size |-> upload.size]
    BY DEF IInv, RecordUpload, UploadAdmitted, Busy
  <1>4. \A a \in acked : a.file_id <= issued - 1 /\ a.file_id \in Nat
    BY DEF IInv, RecordUpload, FreshIds, Used, Busy, TypeOK, FileRecord, FileId
  <1> QED
    BY <1>1, <1>2, <1>3, <1>4 DEF UploadedRecord, FileId

\* Records stay where they are while the files of others are removed.
LEMMA WithoutKeeps ==
  ASSUME IInv, NEW F \in SUBSET FileId, NEW r \in files, r.file_id \notin F
  PROVE  WithoutFiles(F)[r.file_id] = disk[r.file_id]
  BY DEF WithoutFiles, IInv, TypeOK, FileRecord

\* The records of a session are those that name it.
LEMMA RecordsOfSession ==
  ASSUME IInv, NEW s \in SessionId
  PROVE  ReceiptFiles(s) = {r \in files : r.session_id = s}
  BY DEF ReceiptFiles, IInv, RecordsListed

\* What the cleanup of a session removes from disk belongs to no other record.
LEMMA CleanedFiles ==
  ASSUME IInv, NEW s \in SessionId, NEW r \in files, r \notin ReceiptFiles(s)
  PROVE  /\ r.file_id \notin {q.file_id : q \in ReceiptFiles(s)}
         /\ r.file_id \notin Leftovers(s)
  <1>1. r.session_id # s
    BY RecordsOfSession
  <1>2. r.file_id \notin {q.file_id : q \in ReceiptFiles(s)}
    BY DEF IInv, RecordsListed, ReceiptFiles
  <1>3. disk[r.file_id] = [state |-> "final", session_id |-> r.session_id,
                           size |-> r.size_bytes]
    BY DEF IInv, RecordedOnDisk
  <1> QED
    BY <1>1, <1>2, <1>3 DEF Leftovers

\* No step touches the file of a record, except the cleanup of its session.
LEMMA DiskSteps ==
  ASSUME IInv, [Next]_vars, NEW r \in files
  PROVE  \/ disk'[r.file_id] = disk[r.file_id]
         \/ r \notin files' /\ Lapsed(r.session_id)
  <1> USE DEF IInv
  <1>0. /\ r \in FileRecord /\ r.file_id \in FileId /\ r.file_id <= issued
        /\ pc \in {"writing", "stored"} => r.file_id # issued
        /\ issued \in Nat
    BY DEF RecordsListed, FreshIds, Used, Busy, TypeOK, FileRecord, FileId
  <1>1. ASSUME NEW mode \in {"buffered", "streamed"}, NEW s \in SessionId,
               NEW size \in Sizes, BeginUpload(mode, s, size)
        PROVE  disk'[r.file_id] = disk[r.file_id]
    BY <1>0, <1>1 DEF BeginUpload, TypeOK
  <1>2. CASE StoreFails \/ RenameTemp \/ RejectStreamed
    BY <1>0, <1>2 DEF StoreFails, RenameTemp, RejectStreamed, RejectedDisk,
                      UploadAdmitted, Busy, TypeOK
  <1>3. ASSUME NEW s \in SessionId, CleanSession(s)
        PROVE  disk'[r.file_id] = disk[r.file_id] \/ (r \notin files' /\ Lapsed(r.session_id))
    <2>1. CASE r \in ReceiptFiles(s)
      BY <1>3, <2>1 DEF CleanSession, NextExpired, LapsedOnly, ReceiptFiles
    <2>2. CASE r \notin ReceiptFiles(s)
      BY <1>0, <1>3, <2>2, CleanedFiles DEF CleanSession, WithoutFiles
    <2> QED
      BY <2>1, <2>2
  <1>4. ASSUME NEW s \in SessionId, NEW f \in FileId, CleanSessionRaises(s, f)
        PROVE  disk'[r.file_id] = disk[r.file_id] \/ (r \notin files' /\ Lapsed(r.session_id))
    <2>1. CASE r \in ReceiptFiles(s)
      BY <1>4, <2>1 DEF CleanSessionRaises, NextExpired, LapsedOnly, ReceiptFiles
    <2>2. CASE r \notin ReceiptFiles(s)
      <3>1. r.file_id \notin {f} \cup {q.file_id : q \in ReceiptFiles(s)}
        BY <1>4, <2>2, CleanedFiles DEF CleanSessionRaises
      <3> QED
        BY <1>0, <1>4, <3>1 DEF CleanSessionRaises, WithoutFiles
    <2> QED
      BY <2>1, <2>2
  <1>5. CASE UNCHANGED disk
    BY <1>5
  <1>6. \/ RecordUpload \/ BeginCleanup \/ Restart \/ Tick \/ UNCHANGED vars
        \/ \E q \in Quote, e \in 1..MaxTime, limits \in Limits : CreateSession(q, e, limits)
        \/ \E s \in SessionId : GetSession(s)
        \/ \E s \in SessionId, q \in Quote, endpoint \in {"complete", "receipt"} :
             CompleteVia(endpoint, s, q)
        => UNCHANGED disk
    BY DEF RecordUpload, BeginCleanup, Restart, Tick, vars, CreateSession, GetSession,
           CompleteVia
  <1>7. ASSUME NEW s \in SessionId, GetSessionReceipt(s)
        PROVE  UNCHANGED disk
    BY <1>7 DEF GetSessionReceipt, CompleteVia
  <1> QED
    BY <1>1, <1>2, <1>3, <1>4, <1>5, <1>6, <1>7, CompleteActions DEF Next

\* Where the records of the next state come from.
LEMMA FileSteps ==
  ASSUME IInv, [Next]_vars
  PROVE  \/ files' \subseteq files /\ acked' = acked
         \/ /\ RecordUpload /\ files' = files \cup {UploadedRecord}
            /\ acked' = acked \cup {UploadedRecord} /\ disk' = disk
  BY CompleteActions
     DEF Next, vars, CreateSession, GetSession, CompleteVia, BeginUpload, StoreFails,
         RenameTemp, RecordUpload, RejectStreamed, BeginCleanup, CleanSession,
         CleanSessionRaises, Restart, Tick

\* Only a completion issues receipts.
LEMMA ReceiptSteps ==
  ASSUME [Next]_vars
  PROVE  \/ UNCHANGED receipts
         \/ \E s \in SessionId, endpoint \in {"complete", "receipt"} :
              \E q : CompleteVia(endpoint, s, q)
  BY CompleteActions
     DEF Next, vars, CreateSession, GetSession, BeginUpload, StoreFails, RenameTemp,
         RecordUpload, RejectStreamed, BeginCleanup, CleanSession, CleanSessionRaises,
         Restart, Tick

LEMMA OnDiskStep == IInv /\ [Next]_vars => RecordedOnDisk'
  <1> SUFFICES ASSUME IInv, [Next]_vars, NEW r \in files'
               PROVE  disk'[r.file_id] = [state |-> "final", session_id |-> r.session_id,
                                          size |-> r.size_bytes]
    BY DEF RecordedOnDisk
  <1>1. CASE r \in files
    BY <1>1, DiskSteps DEF IInv, RecordedOnDisk
  <1>2. CASE r \notin files
    <2>1. RecordUpload /\ r = UploadedRecord /\ disk' = disk
      BY <1>2, FileSteps
    <2> QED
      BY <2>1, RecordIsNew
  <1> QED
    BY <1>1, <1>2

-----------------------------------------------------------------------------
(* The supporting parts of the invariant                                   *)

LEMMA AdmittedStep == IInv /\ [Next]_vars => UploadAdmitted'
  <1> SUFFICES ASSUME IInv, [Next]_vars, pc' \in {"writing", "stored"}
               PROVE  UploadAdmitted'
    BY DEF UploadAdmitted, Busy
  <1> USE DEF IInv
  <1>1. ASSUME NEW mode \in {"buffered", "streamed"}, NEW s \in SessionId,
               NEW size \in Sizes, BeginUpload(mode, s, size)
        PROVE  UploadAdmitted'
    <2>1. issued + 1 \in FileId /\ size \in Nat
      BY <1>1, ReceiverConstants DEF BeginUpload, TypeOK, FileId
    <2>2. upload' = [mode |-> mode, session_id |-> s, file_id |-> issued + 1, size |-> size]
      BY <1>1 DEF BeginUpload
    <2>3. disk'[issued + 1] = [state |-> "temp", session_id |-> s, size |-> size]
      BY <1>1, <2>1 DEF BeginUpload, TypeOK
    <2>4. upload' \in Upload
      BY <2>1, <2>2 DEF Upload
    <2> QED
      BY <1>1, <2>1, <2>2, <2>3, <2>4
         DEF BeginUpload, UploadAdmitted, Busy, ValidateFileUpload, SizeBeforeStore, Known
  <1>2. CASE RenameTemp
    <2>1. issued \in FileId /\ upload \in Upload /\ upload.file_id = issued
      BY <1>2 DEF RenameTemp, UploadAdmitted, Busy, Upload
    <2> QED
      BY <1>2, <2>1 DEF RenameTemp, UploadAdmitted, Busy, TypeOK, Known
  <1>3. CASE Tick \/ UNCHANGED vars
    BY <1>3 DEF Tick, vars, UploadAdmitted, Busy, Known
  <1>4. ASSUME NEW s \in SessionId, GetSessionReceipt(s)
        PROVE  pc' = "idle"
    BY <1>4 DEF GetSessionReceipt, CompleteVia
  <1> QED
    BY <1>1, <1>2, <1>3, <1>4
       DEF Next, CreateSession, GetSession, CompleteSession, CompleteVia, StoreFails,
           RecordUpload, RejectStreamed, BeginCleanup, CleanSession, CleanSessionRaises,
           Restart

LEMMA LapsedStep == IInv /\ [Next]_vars => LapsedOnly'
  <1> SUFFICES ASSUME IInv, [Next]_vars PROVE LapsedOnly'
    OBVIOUS
  <1> USE DEF IInv
  <1>1. ASSUME NEW q \in Quote, NEW e \in 1..MaxTime, NEW limits \in Limits,
               CreateSession(q, e, limits)
        PROVE  LapsedOnly'
    BY <1>1 DEF CreateSession, LapsedOnly, FreshIds, TypeOK, Known, Lapsed, NoSession,
                SessionId, Receipt
  <1>2. ASSUME NEW s \in SessionId, GetSession(s)
        PROVE  LapsedOnly'
    BY <1>2, StatusFields DEF GetSession, LapsedOnly, TypeOK, Known, Lapsed
  <1>3. ASSUME NEW s \in SessionId, NEW q, NEW endpoint \in {"complete", "receipt"},
               CompleteVia(endpoint, s, q)
        PROVE  LapsedOnly'
    BY <1>3, StatusFields DEF CompleteVia, Completable, LapsedOnly, TypeOK, Known, Lapsed
  <1>4. CASE RecordUpload
    <2> DEFINE t == upload.session_id
    <2>1. /\ sessions[t] \in Session /\ Known(t)
          /\ UNCHANGED <<now, todo, receipts>> /\ pc = "stored" /\ pc' = "idle"
      BY <1>4, RecordFits DEF RecordUpload, UploadAdmitted, Busy
    <2>2. ASSUME NEW s \in SessionId
          PROVE  /\ Known(s)' => Known(s) /\ sessions'[s].status = sessions[s].status
                                /\ sessions'[s].expires_at = sessions[s].expires_at
                 /\ Known(s) => Known(s)'
      <3>1. CASE s = t
        <4>1. sessions'[s] = Listing(sessions[s])
          BY <1>4, <3>1 DEF RecordUpload, TypeOK
        <4> QED
          BY <1>4, <2>1, <3>1, <4>1, RecordFits, ListingFields DEF Known, Session, NoSession
      <3>2. CASE s # t
        BY <1>4, <3>2 DEF RecordUpload, TypeOK, Known
      <3> QED
        BY <3>1, <3>2
    <2> HIDE DEF t
    <2> QED
      BY <2>1, <2>2 DEF LapsedOnly, Lapsed, TypeOK, Receipt
  <1>5. CASE BeginCleanup
    BY <1>5 DEF BeginCleanup, ExpiredSessions, LapsedOnly, Known, Lapsed
  <1>6. ASSUME NEW s \in SessionId, CleanSession(s)
        PROVE  LapsedOnly'
    BY <1>6 DEF CleanSession, NextExpired, LapsedOnly, TypeOK, Known, Lapsed, Receipt
  <1>7. ASSUME NEW s \in SessionId, NEW f \in FileId, CleanSessionRaises(s, f)
        PROVE  LapsedOnly'
    <2>1. /\ UNCHANGED <<now, receipts>> /\ todo' = {} /\ pc' = "idle"
      BY <1>7 DEF CleanSessionRaises
    <2>2. \A r \in SessionId : Known(r)' /\ sessions'[r].status = "expired" => Lapsed(r)'
      BY <1>7, <2>1, RaisesMarks DEF LapsedOnly, Known, Lapsed
    <2>3. \A c \in receipts : Known(c.session_id)' => sessions'[c.session_id].status # "active"
      BY <1>7, RaisesMarks DEF LapsedOnly, Known, TypeOK, Receipt, Session, NoSession
    <2> QED
      BY <2>1, <2>2, <2>3 DEF LapsedOnly
  <1>8. CASE Restart
    BY <1>8 DEF Restart, LapsedOnly, Known, TypeOK, Receipt
  <1>9. CASE Tick
    BY <1>9 DEF Tick, LapsedOnly, Known, Lapsed, TypeOK, Session
  <1>10. CASE UNCHANGED <<now, sessions, todo, pc, receipts>>
    BY <1>10 DEF LapsedOnly, Known, Lapsed
  <1>11. CASE UNCHANGED <<now, sessions, todo, receipts>> /\ pc # "cleaning" /\ pc' # "cleaning"
    BY <1>11 DEF LapsedOnly, Known, Lapsed
  <1> QED
    BY <1>1, <1>2, <1>3, <1>4, <1>5, <1>6, <1>7, <1>8, <1>9, <1>10, <1>11, CompleteActions
       DEF Next, vars, BeginUpload, StoreFails, RenameTemp, RejectStreamed

\* Ids are only ever generated, and an upload in progress holds the last one.
LEMMA IdSteps ==
  ASSUME IInv, [Next]_vars
  PROVE  /\ Used \in Int /\ Used' \in Int /\ issued \in Nat /\ created \in Nat
         /\ Used <= Used' /\ issued <= issued' /\ created <= created'
         /\ RecordUpload => Used' = issued /\ Used = issued - 1
  <1>1. issued \in Nat /\ created \in Nat
    BY DEF IInv, TypeOK
  <1>2. ASSUME NEW mode \in {"buffered", "streamed"}, NEW s \in SessionId,
               NEW size \in Sizes, BeginUpload(mode, s, size)
        PROVE  UNCHANGED created /\ issued' = issued + 1 /\ ~Busy /\ Busy'
    BY <1>2 DEF BeginUpload, Busy
  <1>3. ASSUME NEW q \in Quote, NEW e \in 1..MaxTime, NEW limits \in Limits,
               CreateSession(q, e, limits)
        PROVE  UNCHANGED issued /\ created' = created + 1 /\ ~Busy /\ ~Busy'
    BY <1>3 DEF CreateSession, Busy
  <1>4. ASSUME NEW s \in SessionId, NEW q, NEW endpoint \in {"complete", "receipt"},
               CompleteVia(endpoint, s, q)
        PROVE  UNCHANGED <<issued, created>> /\ (Busy' => Busy)
    BY <1>4 DEF CompleteVia, Busy
  <1>5. ASSUME NEW s \in SessionId,
               \/ GetSession(s) \/ CleanSession(s)
               \/ \E f \in FileId : CleanSessionRaises(s, f)
        PROVE  UNCHANGED <<issued, created>> /\ (Busy' => Busy)
    BY <1>5 DEF GetSession, CleanSession, CleanSessionRaises, Busy
  <1>6. \/ StoreFails \/ RenameTemp \/ RejectStreamed \/ BeginCleanup \/ Restart
        => UNCHANGED <<issued, created>> /\ (Busy' => Busy)
    BY DEF StoreFails, RenameTemp, RejectStreamed, BeginCleanup, Restart, Busy
  <1>7. RecordUpload => UNCHANGED <<issued, created>> /\ ~Busy' /\ Busy
    BY DEF RecordUpload, Busy
  <1>8. Tick \/ UNCHANGED vars => UNCHANGED <<issued, created>> /\ (Busy' => Busy)
    BY DEF Tick, vars, Busy
  <1>9. \/ UNCHANGED created /\ issued' = issued + 1 /\ ~Busy /\ Busy'
        \/ UNCHANGED issued /\ created' = created + 1 /\ ~Busy /\ ~Busy'
        \/ UNCHANGED <<issued, created>> /\ (Busy' => Busy)
    BY <1>2, <1>3, <1>4, <1>5, <1>6, <1>7, <1>8, CompleteActions DEF Next
  <1> QED
    BY <1>1, <1>7, <1>9 DEF Used

LEMMA FreshStep == IInv /\ [Next]_vars => FreshIds'
  <1> SUFFICES ASSUME IInv, [Next]_vars PROVE FreshIds'
    OBVIOUS
  <1> USE DEF IInv
  <1> DEFINE Uploaded(s) == sessions[s].uploaded_files
  <1>0. acked \subseteq FileRecord
    BY DEF TypeOK
  <1>1. /\ Used \in Int /\ Used' \in Int /\ issued \in Nat /\ created \in Nat
        /\ issued' \in Nat /\ created' \in Nat
        /\ Used <= Used' /\ issued <= issued' /\ created <= created'
    BY IdSteps, TypeStep DEF TypeOK
  <1>2. \A a \in acked' : a.file_id <= Used' /\ a.session_id <= created'
    <2>1. CASE acked' = acked
      BY <1>0, <1>1, <2>1 DEF FreshIds, FileRecord, FileId, SessionId
    <2>2. CASE RecordUpload
      <3>1. acked' = acked \cup {UploadedRecord} /\ Used' = issued /\ Used = issued - 1
            /\ created' = created
        BY <2>2, IdSteps DEF RecordUpload
      <3>2. upload.session_id <= created
        <4>1. Known(upload.session_id) /\ upload.session_id \in SessionId
          BY <2>2, RecordFits DEF RecordUpload, UploadAdmitted, Busy
        <4> QED
          BY <4>1 DEF FreshIds
      <3>3. UploadedRecord.file_id = issued /\ UploadedRecord.session_id = upload.session_id
        BY <2>2, RecordIsNew
      <3> QED
        BY <1>0, <1>1, <3>1, <3>2, <3>3 DEF FreshIds, FileRecord, FileId
    <2> QED
      BY <2>1, <2>2, FileSteps
  <1>3. \A f \in FileId : f > issued' => disk'[f] = NoFile
    <2> SUFFICES ASSUME NEW f \in FileId, f > issued' PROVE disk'[f] = NoFile
      OBVIOUS
    <2>1. f > issued /\ disk[f] = NoFile /\ (Busy => f # upload.file_id)
      BY <1>1 DEF FreshIds, FileId, UploadAdmitted, Busy
    <2>2. CASE disk'[f] = disk[f]
      BY <2>1, <2>2
    <2>3. ASSUME NEW mode \in {"buffered", "streamed"}, NEW s \in SessionId,
                 NEW size \in Sizes, BeginUpload(mode, s, size)
          PROVE  disk'[f] = disk[f]
      BY <1>1, <2>3 DEF BeginUpload, TypeOK, FileId
    <2>4. CASE StoreFails \/ RenameTemp \/ RejectStreamed
      BY <2>1, <2>4 DEF StoreFails, RenameTemp, RejectStreamed, RejectedDisk, TypeOK, Busy
    <2>5. ASSUME NEW s \in SessionId,
                 \/ CleanSession(s)
                 \/ \E g \in FileId : CleanSessionRaises(s, g)
          PROVE  disk'[f] = NoFile
      BY <2>1, <2>5 DEF CleanSession, CleanSessionRaises, WithoutFiles
    <2> QED
      BY <2>2, <2>3, <2>4, <2>5, CompleteActions
         DEF Next, vars, CreateSession, GetSession, CompleteVia, RecordUpload,
             BeginCleanup, Restart, Tick
  <1>4. \A c \in receipts' : c.session_id <= created'
    <2>1. ASSUME NEW s \in SessionId, NEW q, NEW endpoint \in {"complete", "receipt"},
                 CompleteVia(endpoint, s, q)
          PROVE  \A c \in receipts' : c.session_id <= created'
      <3>1. s <= created
        BY <2>1 DEF CompleteVia, Completable, FreshIds
      <3> QED
        BY <1>1, <2>1, <3>1 DEF CompleteVia, FreshIds
    <2>2. CASE UNCHANGED receipts
      BY <1>1, <2>2 DEF FreshIds, TypeOK, Receipt, SessionId
    <2> QED
      BY <2>1, <2>2, ReceiptSteps
  <1>5. ASSUME NEW s \in SessionId, Known(s)'
        PROVE  s <= created' /\ \A f \in Uploaded(s)' : f <= Used'
    <2>1. CASE SameUploads(s) /\ ~RecordUpload
      <3>1. s <= created /\ Uploaded(s)' = Uploaded(s)
        BY <2>1 DEF SameUploads, FreshIds
      <3>2. \A f \in Uploaded(s) : f <= Used /\ f \in Int
        BY <2>1 DEF SameUploads, FreshIds, TypeOK, Known, Session, FileId
      <3> QED
        BY <1>1, <3>1, <3>2 DEF SessionId
    <2>2. CASE NewSession(s)
      BY <1>1, <2>2 DEF NewSession
    <2>3. CASE RecordUpload
      <3> DEFINE t == upload.session_id
      <3>1. /\ sessions' = [sessions EXCEPT ![t] = Listing(sessions[t])]
            /\ Used' = issued /\ Used = issued - 1 /\ created' = created
        BY <2>3, IdSteps DEF RecordUpload
      <3>2. Known(s)
        <4>1. CASE s = t
          BY <2>3, <4>1 DEF RecordUpload, UploadAdmitted, Busy
        <4>2. CASE s # t
          BY <1>5, <3>1, <4>2 DEF TypeOK, Known
        <4> QED
          BY <4>1, <4>2
      <3>3. Uploaded(s)' \subseteq Uploaded(s) \cup {issued}
        BY <2>3, <3>1, RecordFits, ListingFields DEF TypeOK
      <3>4. s <= created /\ \A f \in Uploaded(s) : f <= issued - 1 /\ f \in Nat
        BY <3>1, <3>2 DEF FreshIds, TypeOK, Known, Session, FileId
      <3> QED
        BY <1>1, <3>1, <3>3, <3>4
    <2> QED
      BY <1>5, <2>1, <2>2, <2>3, SessionSteps
  <1> QED
    BY <1>2, <1>3, <1>4, <1>5 DEF FreshIds

\* The records a step removes are those of the session it cleans, or all.
LEMMA RemovedFiles ==
  ASSUME IInv, [Next]_vars, NEW r \in files, r \notin files'
  PROVE  ~Known(r.session_id)' \/ Lapsed(r.session_id)'
  <1> USE DEF IInv
  <1>0. r.session_id \in SessionId
    BY DEF TypeOK, FileRecord
  <1>1. ASSUME NEW s \in SessionId, CleanSession(s)
        PROVE  ~Known(r.session_id)'
    <2>1. r.session_id = s
      BY <1>1 DEF CleanSession, ReceiptFiles
    <2> QED
      BY <1>0, <1>1, <2>1 DEF CleanSession, TypeOK, Known
  <1>2. ASSUME NEW s \in SessionId, NEW f \in FileId, CleanSessionRaises(s, f)
        PROVE  ~Known(r.session_id)' \/ Lapsed(r.session_id)'
    <2>1. r.session_id = s /\ now' = now
      BY <1>2 DEF CleanSessionRaises, ReceiptFiles
    <2> QED
      BY <1>2, <2>1, RaisesMarks DEF Lapsed
  <1>3. CASE Restart
    BY <1>0, <1>3 DEF Restart, Known
  <1> QED
    BY <1>1, <1>2, <1>3, CompleteActions
       DEF Next, vars, CreateSession, GetSession, CompleteVia, BeginUpload, StoreFails,
           RenameTemp, RecordUpload, RejectStreamed, BeginCleanup, Tick

\* A session that is alive after a step was alive before it, or is new.
LEMMA StillAlive ==
  ASSUME IInv, [Next]_vars, NEW s \in SessionId, Known(s)', ~Lapsed(s)'
  PROVE  (Known(s) /\ ~Lapsed(s)) \/ (~RecordUpload /\ NewSession(s))
  <1>a. now \in Nat
    BY DEF IInv, TypeOK
  <1>b. now' = now \/ now' = now + 1
    BY CompleteActions
       DEF Next, vars, CreateSession, GetSession, CompleteVia, BeginUpload, StoreFails,
           RenameTemp, RecordUpload, RejectStreamed, BeginCleanup, CleanSession,
           CleanSessionRaises, Restart, Tick
  <1>0. now \in Nat /\ now' \in Nat /\ now <= now'
    BY <1>a, <1>b
  <1>1. CASE ~RecordUpload
    BY <1>0, <1>1, SessionSteps DEF SameUploads, Lapsed, Known, IInv, TypeOK, Session
  <1>2. CASE RecordUpload
    <2> DEFINE t == upload.session_id
    <2>1. sessions' = [sessions EXCEPT ![t] = Listing(sessions[t])] /\ now' = now
      BY <1>2 DEF RecordUpload
    <2>2. CASE s = t
      <3>1. sessions'[s] = Listing(sessions[s])
        BY <2>1, <2>2 DEF IInv, TypeOK
      <3>2. sessions'[s].expires_at = sessions[s].expires_at /\ sessions[s] \in Session
        BY <1>2, <2>2, <3>1, RecordFits, ListingFields
      <3> QED
        BY <2>1, <3>2 DEF Known, Lapsed, Session, NoSession
    <2>3. CASE s # t
      BY <2>1, <2>3 DEF IInv, TypeOK, Known, Lapsed
    <2> QED
      BY <2>2, <2>3
  <1> QED
    BY <1>1, <1>2

\* A session with a record left stays in the table.
LEMMA KeepsKnown ==
  ASSUME IInv, [Next]_vars, NEW r \in files, r \in files'
  PROVE  Known(r.session_id)'
  <1> USE DEF IInv
  <1>0. r.session_id \in SessionId /\ Known(r.session_id)
    BY DEF TypeOK, FileRecord, RecordsListed
  <1>1. ASSUME NEW s \in SessionId, CleanSession(s)
        PROVE  Known(r.session_id)'
    BY <1>0, <1>1, RecordsOfSession DEF CleanSession, TypeOK, Known
  <1>2. ASSUME NEW s \in SessionId, NEW f \in FileId, CleanSessionRaises(s, f)
        PROVE  Known(r.session_id)'
    BY <1>0, <1>2, RaisesMarks DEF Known, Session, NoSession
  <1>3. ASSUME NEW q \in Quote, NEW e \in 1..MaxTime, NEW limits \in Limits,
               CreateSession(q, e, limits)
        PROVE  Known(r.session_id)'
    BY <1>0, <1>3 DEF CreateSession, FreshIds, TypeOK, Known, NoSession
  <1>4. ASSUME NEW s \in SessionId, GetSession(s)
        PROVE  Known(r.session_id)'
    BY <1>0, <1>4, StatusFields DEF GetSession, TypeOK, Known, Session, NoSession
  <1>5. ASSUME NEW s \in SessionId, NEW q, NEW endpoint \in {"complete", "receipt"},
               CompleteVia(endpoint, s, q)
        PROVE  Known(r.session_id)'
    BY <1>0, <1>5, StatusFields
       DEF CompleteVia, Completable, TypeOK, Known, Session, NoSession
  <1>6. CASE RecordUpload
    <2> DEFINE t == upload.session_id
    <2>1. Listing(sessions[t]) \in Session
      BY <1>6, RecordFits, ListingFields
    <2> QED
      BY <1>0, <1>6, <2>1 DEF RecordUpload, TypeOK, Known, Session, NoSession
  <1>7. CASE Restart
    BY <1>7 DEF Restart
  <1>8. CASE UNCHANGED sessions
    BY <1>0, <1>8 DEF Known
  <1> QED
    BY <1>1, <1>2, <1>3, <1>4, <1>5, <1>6, <1>7, <1>8, CompleteActions
       DEF Next, vars, BeginUpload, StoreFails, RenameTemp, RejectStreamed, BeginCleanup,
           Tick

LEMMA ListedStep == IInv /\ [Next]_vars => RecordsListed'
  <1> SUFFICES ASSUME IInv, [Next]_vars PROVE RecordsListed'
    OBVIOUS
  <1> USE DEF IInv
  <1>1. files' \subseteq acked'
    BY FileSteps DEF RecordsListed
  <1>2. \A a, b \in acked' : a.file_id = b.file_id => a = b
    BY FileSteps, RecordIsNew, IdSteps DEF RecordsListed
  <1>3. ASSUME NEW r \in files'
        PROVE  /\ Known(r.session_id)'
               /\ r.file_id \in sessions'[r.session_id].uploaded_files
    <2> DEFINE s == r.session_id
               t == upload.session_id
    <2>0. s \in SessionId
      BY TypeStep DEF TypeOK, FileRecord
    <2>1. CASE RecordUpload
      <3>1. sessions' = [sessions EXCEPT ![t] = Listing(sessions[t])]
            /\ files' = files \cup {UploadedRecord}
        BY <2>1 DEF RecordUpload
      <3>2. CASE s # t
        <4>1. r \in files
          BY <2>1, <3>1, <3>2, RecordIsNew
        <4> QED
          BY <2>0, <3>1, <3>2, <4>1 DEF RecordsListed, TypeOK, Known
      <3>3. CASE s = t
        <4>1. sessions'[s] = Listing(sessions[s]) /\ sessions[s] \in Session
          BY <2>1, <3>1, <3>3, RecordFits DEF TypeOK
        <4>2. /\ Listing(sessions[s]) \in Session
              /\ Listing(sessions[s]).uploaded_files
                   = sessions[s].uploaded_files \cup {upload.file_id}
          BY <2>1, <4>1, RecordFits, ListingFields
        <4>3. r \in files \/ r.file_id = upload.file_id
          BY <2>1, <3>1, RecordIsNew, RecordFits
        <4> QED
          BY <4>1, <4>2, <4>3 DEF RecordsListed, Known, Session, NoSession
      <3> QED
        BY <3>2, <3>3
    <2>2. CASE ~RecordUpload
      <3>1. r \in files
        BY <2>2, FileSteps
      <3>2. Known(s) /\ r.file_id \in sessions[s].uploaded_files
        BY <3>1 DEF RecordsListed
      <3>3. Known(s)' /\ ~NewSession(s)
        BY <2>0, <2>2, <3>1, <3>2, KeepsKnown DEF NewSession, FreshIds, TypeOK
      <3> QED
        BY <2>0, <2>2, <3>2, <3>3, SessionSteps DEF SameUploads
    <2> QED
      BY <2>1, <2>2
  <1>4. ASSUME NEW a \in acked', Known(a.session_id)', ~Lapsed(a.session_id)'
        PROVE  a \in files'
    <2>0. a.session_id \in SessionId
      BY TypeStep DEF TypeOK, FileRecord
    <2>1. CASE a \in acked
      <3>1. Known(a.session_id) /\ ~Lapsed(a.session_id)
        BY <1>4, <2>0, <2>1, StillAlive DEF NewSession, FreshIds, TypeOK
      <3>2. a \in files
        BY <2>1, <3>1 DEF RecordsListed
      <3> QED
        BY <1>4, <3>2, RemovedFiles
    <2>2. CASE a \notin acked
      BY <2>2, FileSteps
    <2> QED
      BY <2>1, <2>2
  <1> QED
    BY <1>1, <1>2, <1>3, <1>4 DEF RecordsListed

LEMMA FinalStep == IInv /\ [Next]_vars => ReceiptIsFinal'
  <1> SUFFICES ASSUME IInv, [Next]_vars, NEW c \in receipts'
               PROVE  c.files = {a \in acked' : a.session_id = c.session_id}
    BY DEF ReceiptIsFinal
  <1> USE DEF IInv
  <1>1. CASE c \in receipts
    <2>1. c.files = {a \in acked : a.session_id = c.session_id}
      BY <1>1 DEF ReceiptIsFinal
    <2>2. ASSUME RecordUpload
          PROVE  UploadedRecord.session_id # c.session_id
      BY <1>1, <2>2, RecordIsNew, RecordFits
         DEF LapsedOnly, RecordUpload, UploadAdmitted, Busy
    <2> QED
      BY <2>1, <2>2, FileSteps
  <1>2. CASE c \notin receipts
    <2>1. PICK s \in SessionId, endpoint \in {"complete", "receipt"} :
            \E q : CompleteVia(endpoint, s, q)
      BY <1>2, ReceiptSteps
    <2>2. c.session_id = s /\ c.files = ReceiptFiles(s) /\ acked' = acked
      BY <1>2, <2>1 DEF CompleteVia
    <2>3. Known(s) /\ ~Lapsed(s)
      BY <2>1 DEF CompleteVia, Completable
    <2>4. ReceiptFiles(s) = {r \in files : r.session_id = s}
      BY RecordsOfSession
    <2> QED
      BY <2>2, <2>3, <2>4 DEF RecordsListed
  <1> QED
    BY <1>1, <1>2

-----------------------------------------------------------------------------
(* Rejected uploads                                                        *)

\* What RejectedLeavesNoBytes needs besides IInv: files on disk belong to
\* sessions that were created, and no handler, no upload.
DiskIsExplained ==
  /\ \A f \in FileId : OnDisk(f) => disk[f].session_id <= created
  /\ ~Busy => upload = NoUpload
  /\ RejectedLeavesNoBytes

\* What a step can do to one file.
FileBegins(f) ==
  \E s \in SessionId, size \in Sizes :
    /\ Known(s)
    /\ disk'[f] = [state |-> "temp", session_id |-> s, size |-> size]

FileIsRenamed(f) ==
  /\ RenameTemp /\ f = upload.file_id /\ OnDisk(f)
  /\ disk'[f].session_id = disk[f].session_id

LEMMA DiskCases ==
  ASSUME IInv, [Next]_vars, NEW f \in FileId
  PROVE  \/ disk'[f] = disk[f]
         \/ disk'[f] = NoFile
         \/ FileBegins(f)
         \/ FileIsRenamed(f)
  <1> USE DEF IInv
  <1>1. ASSUME NEW mode \in {"buffered", "streamed"}, NEW s \in SessionId,
               NEW size \in Sizes, BeginUpload(mode, s, size)
        PROVE  disk'[f] = disk[f] \/ FileBegins(f)
    BY <1>1 DEF BeginUpload, ValidateFileUpload, FileBegins, TypeOK
  <1>2. CASE StoreFails \/ RejectStreamed
    BY <1>2 DEF StoreFails, RejectStreamed, RejectedDisk, TypeOK
  <1>3. CASE RenameTemp
    BY <1>3 DEF RenameTemp, FileIsRenamed, UploadAdmitted, Busy, OnDisk, TypeOK
  <1>4. ASSUME NEW s \in SessionId, NEW g \in FileId,
               CleanSession(s) \/ CleanSessionRaises(s, g)
        PROVE  disk'[f] = disk[f] \/ disk'[f] = NoFile
    BY <1>4 DEF CleanSession, CleanSessionRaises, WithoutFiles
  <1>5. ASSUME NEW s \in SessionId, CleanSession(s)
        PROVE  disk'[f] = disk[f] \/ disk'[f] = NoFile
    BY <1>5 DEF CleanSession, WithoutFiles
  <1> QED
    BY <1>1, <1>2, <1>3, <1>4, <1>5, CompleteActions
       DEF Next, vars, CreateSession, GetSession, CompleteVia, RecordUpload, BeginCleanup,
           Restart, Tick

\* A record goes with its file, unless the process dies.
LEMMA RecordsGoWithFiles ==
  ASSUME IInv, [Next]_vars, NEW r \in files, r \notin files'
  PROVE  disk'[r.file_id] = NoFile \/ Restart
  <1>0. r.file_id \in FileId
    BY DEF IInv, TypeOK, FileRecord
  <1>1. ASSUME NEW s \in SessionId, CleanSession(s)
        PROVE  disk'[r.file_id] = NoFile
    BY <1>0, <1>1 DEF CleanSession, WithoutFiles
  <1>2. ASSUME NEW s \in SessionId, NEW f \in FileId, CleanSessionRaises(s, f)
        PROVE  disk'[r.file_id] = NoFile
    BY <1>0, <1>2 DEF CleanSessionRaises, WithoutFiles
  <1> QED
    BY <1>1, <1>2, CompleteActions
       DEF Next, vars, CreateSession, GetSession, CompleteVia, BeginUpload, StoreFails,
           RenameTemp, RecordUpload, RejectStreamed, BeginCleanup, Tick

\* A stored file's upload ends with its record, without its bytes, or with
\* the process.
LEMMA UploadEnds ==
  ASSUME IInv, [Next]_vars, pc = "stored"
  PROVE  \/ UNCHANGED upload
         \/ UploadedRecord \in files'
         \/ upload.size = 0
         \/ disk'[upload.file_id] = NoFile
         \/ Restart
  <1>1. upload.file_id \in FileId
    BY DEF IInv, UploadAdmitted, Busy, Upload
  <1>2. CASE RecordUpload
    BY <1>2 DEF RecordUpload
  <1>3. CASE RejectStreamed
    BY <1>1, <1>3 DEF RejectStreamed, RejectedDisk, IInv, TypeOK
  <1> QED
    BY <1>2, <1>3, CompleteActions
       DEF Next, vars, CreateSession, GetSession, CompleteVia, BeginUpload, StoreFails,
           RenameTemp, BeginCleanup, CleanSession, CleanSessionRaises, Tick

\* A session in the table after a step was there, or is the next one.
LEMMA KnownBefore ==
  ASSUME IInv, [Next]_vars, NEW s \in SessionId, Known(s)'
  PROVE  Known(s) \/ s = created + 1
  <1>1. CASE RecordUpload
    BY <1>1, RecordFits DEF RecordUpload, Known, IInv, TypeOK, Session, NoSession
  <1>2. CASE ~RecordUpload
    BY <1>2, SessionSteps DEF SameUploads, NewSession
  <1> QED
    BY <1>1, <1>2

LEMMA ExplainedStep == IInv /\ DiskIsExplained /\ [Next]_vars => DiskIsExplained'
  <1> SUFFICES ASSUME IInv, DiskIsExplained, [Next]_vars PROVE DiskIsExplained'
    OBVIOUS
  <1>0. created \in Nat /\ created' \in Nat /\ created <= created' /\ TypeOK /\ TypeOK'
    BY IdSteps, TypeStep DEF IInv, TypeOK
  <1>1. \A f \in FileId : OnDisk(f)' => disk'[f].session_id <= created'
    <2> SUFFICES ASSUME NEW f \in FileId, OnDisk(f)'
                 PROVE  disk'[f].session_id <= created'
      OBVIOUS
    <2>1. CASE FileBegins(f)
      <3>1. PICK s \in SessionId : Known(s) /\ disk'[f].session_id = s
        BY <2>1 DEF FileBegins
      <3> QED
        BY <1>0, <3>1 DEF IInv, FreshIds, SessionId
    <2>2. CASE disk'[f] # NoFile /\ OnDisk(f) /\ disk'[f].session_id = disk[f].session_id
      BY <1>0, <2>2 DEF DiskIsExplained, TypeOK, OnDisk, StoredFile, NoFile, SessionId
    <2> QED
      BY <2>1, <2>2, DiskCases DEF FileIsRenamed, OnDisk, NoFile
  <1>2. ~Busy' => upload' = NoUpload
    BY CompleteActions
       DEF DiskIsExplained, Busy, Next, vars, CreateSession, GetSession, CompleteVia,
           BeginUpload, StoreFails, RenameTemp, RecordUpload, RejectStreamed, BeginCleanup,
           CleanSession, CleanSessionRaises, Restart, Tick
  <1>3. RejectedLeavesNoBytes'
    <2> SUFFICES ASSUME NEW f \in FileId, disk'[f].state = "final", disk'[f].size > 0,
                        NEW s, s = disk'[f].session_id, Known(s)'
                 PROVE  (\E r \in files' : r.file_id = f) \/ upload'.file_id = f
      BY DEF RejectedLeavesNoBytes, Known
    <2>1. CASE FileIsRenamed(f)
      BY <2>1 DEF FileIsRenamed, RenameTemp
    <2>2. CASE FileBegins(f)
      <3>1. disk'[f].state = "temp"
        BY <2>2 DEF FileBegins
      <3> QED
        BY <3>1
    <2>4. CASE disk'[f] = NoFile
      BY <2>4 DEF NoFile
    <2>3. CASE disk'[f] = disk[f]
      <3>1. s \in SessionId /\ OnDisk(f) /\ s <= created
        BY <1>0, <2>3 DEF DiskIsExplained, OnDisk, TypeOK, StoredFile, NoFile
      <3>2. Known(s) /\ ~Restart
        <4>1. Known(s) \/ s = created + 1
          BY <3>1, KnownBefore
        <4>2. Known(s)
          BY <1>0, <3>1, <4>1
        <4>3. ~Restart
          BY <3>1 DEF Restart, Known
        <4> QED
          BY <4>2, <4>3
      <3>3. (\E r \in files : r.file_id = f) \/ upload.file_id = f
        BY <2>3, <3>2 DEF DiskIsExplained, RejectedLeavesNoBytes, Known
      <3>4. CASE \E r \in files : r.file_id = f
        BY <3>2, <3>4, RecordsGoWithFiles DEF NoFile
      <3>5. CASE upload.file_id = f
        <4>1. Busy
          BY <3>5 DEF DiskIsExplained, NoUpload, FileId
        <4>2. pc = "stored" /\ upload.size = disk[f].size
          BY <2>3, <3>5, <4>1 DEF IInv, UploadAdmitted, Busy
        <4>3. upload.size # 0 /\ disk'[f] # NoFile
          BY <2>3, <4>2 DEF NoFile
        <4> QED
          BY <3>2, <3>5, <4>2, <4>3, UploadEnds DEF UploadedRecord
      <3> QED
        BY <3>3, <3>4, <3>5
    <2> QED
      BY <2>1, <2>2, <2>3, <2>4, DiskCases
  <1> QED
    BY <1>1, <1>2, <1>3 DEF DiskIsExplained

-----------------------------------------------------------------------------
(* The contract                                                            *)

\* The phases by what the table has.
LEMMA PhaseCases ==
  ASSUME IInv, NEW s \in SessionId
  PROVE  /\ s > created => ContractPhase(s) = "unopened" /\ ~Known(s)
         /\ s <= created /\ ~Known(s) => ContractPhase(s) = "closed"
         /\ Known(s) /\ sessions[s].status = "active" => ContractPhase(s) = "open"
         /\ Known(s) /\ sessions[s].status = "completed" => ContractPhase(s) = "sealed"
         /\ Known(s) /\ sessions[s].status = "expired" => ContractPhase(s) = "closed"
         /\ Known(s) => sessions[s].status \in {"active", "completed", "expired"}
  <1>1. s \in Nat /\ created \in Nat /\ (Known(s) => s <= created)
    BY DEF IInv, TypeOK, FreshIds, SessionId
  <1>2. Known(s) => sessions[s].status \in {"active", "completed", "expired"}
    BY DEF IInv, TypeOK, Known, Session
  <1>3. s > created <=> ~(s <= created)
    BY <1>1
  <1> QED
    BY <1>1, <1>2, <1>3 DEF ContractPhase

\* The phases after a step, likewise.
LEMMA PhaseCasesAfter ==
  ASSUME IInv', NEW s \in SessionId
  PROVE  /\ s > created' => ContractPhase(s)' = "unopened" /\ ~Known(s)'
         /\ s <= created' /\ ~Known(s)' => ContractPhase(s)' = "closed"
         /\ Known(s)' /\ sessions'[s].status = "active" => ContractPhase(s)' = "open"
         /\ Known(s)' /\ sessions'[s].status = "completed" => ContractPhase(s)' = "sealed"
         /\ Known(s)' /\ sessions'[s].status = "expired" => ContractPhase(s)' = "closed"
  <1>1. s \in Nat /\ created' \in Nat /\ (Known(s)' => s <= created')
    BY DEF IInv, TypeOK, FreshIds, SessionId
  <1>2. s > created' <=> ~(s <= created')
    BY <1>1
  <1> QED
    BY <1>1, <1>2 DEF ContractPhase

\* What most steps do to a session: nothing, or it is over.
Stays(s) == ContractPhase(s)' = ContractPhase(s)
Ends(s)  == ContractPhase(s) \in {"open", "sealed"} /\ ContractPhase(s)' = "closed"

\* A step that acknowledges nothing and in which sessions stay or end closes
\* those that end.
LEMMA CloseStep ==
  ASSUME UNCHANGED <<acked, receipts>>, \A s \in SessionId : Stays(s) \/ Ends(s)
  PROVE  Contract!Next
  <1>1. PICK S \in SUBSET SessionId : \A s \in SessionId : s \in S <=> Ends(s)
    <2>1. {s \in SessionId : Ends(s)} \in SUBSET SessionId
      OBVIOUS
    <2> QED
      BY <2>1
  <1>2. [s \in SessionId |-> ContractPhase(s)']
          = [s \in SessionId |-> IF s \in S THEN "closed"
                                 ELSE [t \in SessionId |-> ContractPhase(t)][s]]
    BY <1>1 DEF Stays, Ends
  <1>3. \A s \in S : [t \in SessionId |-> ContractPhase(t)][s] \in {"open", "sealed"}
    BY <1>1 DEF Ends
  <1>4. Contract!Close(S)
    BY <1>2, <1>3 DEF Contract!Close
  <1> QED
    BY <1>4 DEF Contract!Next

\* A session whose status stays, or that lapsed and is marked or gone.
LEMMA StaysOrEnds ==
  ASSUME IInv, IInv', UNCHANGED created, NEW s \in SessionId,
         \/ sessions'[s] = sessions[s]
         \/ Known(s) /\ Known(s)' /\ sessions'[s].status = sessions[s].status
         \/ Known(s) /\ Known(s)' /\ sessions'[s].status = "expired"
         \/ ~Known(s)'
  PROVE  Stays(s) \/ Ends(s)
  <1>0. s \in Nat /\ created \in Nat /\ created' = created
    BY DEF IInv, TypeOK, SessionId
  <1>1. CASE Known(s) /\ Known(s)' /\ sessions'[s].status \in {sessions[s].status, "expired"}
    BY <1>1, PhaseCases, PhaseCasesAfter DEF Stays, Ends
  <1>2. CASE ~Known(s)'
    <2>1. CASE s > created
      BY <1>0, <2>1, PhaseCases, PhaseCasesAfter DEF Stays
    <2>2. CASE s <= created
      BY <1>0, <1>2, <2>2, PhaseCases, PhaseCasesAfter DEF Stays, Ends
    <2> QED
      BY <1>0, <2>1, <2>2
  <1>3. CASE sessions'[s] = sessions[s] /\ Known(s)'
    BY <1>3, <1>1 DEF Known
  <1> QED
    BY <1>1, <1>2, <1>3

LEMMA CreateIsOpen ==
  ASSUME IInv, IInv', NEW q \in Quote, NEW e \in 1..MaxTime, NEW limits \in Limits,
         CreateSession(q, e, limits)
  PROVE  Contract!Next
  <1>1. PICK s \in SessionId : s = created + 1 /\ created' = s
    BY ReceiverConstants DEF CreateSession, IInv, TypeOK, SessionId
  <1>2. /\ sessions'[s] # NoSession /\ sessions'[s].status = "active"
        /\ \A t \in SessionId \ {s} : sessions'[t] = sessions[t]
        /\ UNCHANGED <<acked, receipts>>
    BY <1>1 DEF CreateSession, IInv, TypeOK, NoSession
  <1>3. created \in Nat /\ \A t \in SessionId : t \in Nat
    BY DEF IInv, TypeOK, SessionId
  <1>4. ContractPhase(s) = "unopened" /\ ContractPhase(s)' = "open"
    BY <1>1, <1>2, <1>3, PhaseCases, PhaseCasesAfter DEF Known
  <1>5. ASSUME NEW t \in SessionId \ {s}
        PROVE  ContractPhase(t)' = ContractPhase(t)
    <2>1. /\ sessions'[t] = sessions[t] /\ (Known(t)' <=> Known(t))
          /\ t > created' <=> t > created
          /\ t <= created' <=> t <= created
          /\ t > created \/ t <= created
      <3>1. sessions'[t] = sessions[t] /\ (Known(t)' <=> Known(t))
        BY <1>2 DEF Known
      <3>2. t \in Nat /\ created \in Nat /\ created' = created + 1 /\ t # created + 1
        BY <1>1, <1>3
      <3> QED
        BY <3>1, <3>2
    <2>2. CASE Known(t)
      BY <2>1, <2>2, PhaseCases, PhaseCasesAfter
    <2>3. CASE ~Known(t)
      BY <2>1, <2>3, PhaseCases, PhaseCasesAfter
    <2> QED
      BY <2>2, <2>3
  <1>6. Contract!Open(s)
    BY <1>2, <1>4, <1>5 DEF Contract!Open
  <1> QED
    BY <1>6 DEF Contract!Next

LEMMA RecordIsAccept ==
  ASSUME IInv, IInv', RecordUpload
  PROVE  Contract!Next
  <1>1. PICK s \in SessionId, f \in FileId, r \in FileRecord :
          /\ s = upload.session_id /\ f = issued /\ r = UploadedRecord
          /\ r.session_id = s /\ r.file_id = f
          /\ \A a \in acked : a.file_id # f
    BY RecordFits, RecordIsNew DEF IInv, TypeOK, FileRecord, FileId
  <1>2. acked' = acked \cup {r} /\ UNCHANGED <<receipts, created>>
    BY <1>1 DEF RecordUpload
  <1>3. /\ Known(s) /\ sessions[s].status = "active"
        /\ Known(s)' /\ sessions'[s].status = "active"
        /\ \A t \in SessionId \ {s} : sessions'[t] = sessions[t]
    <2>1. sessions[s] \in Session /\ Listing(sessions[s]) \in Session
          /\ sessions[s].status = "active" /\ Listing(sessions[s]).status = "active"
      BY <1>1, RecordFits, ListingFields
    <2>2. sessions' = [sessions EXCEPT ![s] = Listing(sessions[s])]
      BY <1>1 DEF RecordUpload
    <2> QED
      BY <2>1, <2>2 DEF IInv, TypeOK, Known, Session, NoSession
  <1>4. ContractPhase(s) = "open"
    BY <1>3, PhaseCases
  <1>5. \A t \in SessionId : ContractPhase(t)' = ContractPhase(t)
    BY <1>2, <1>3, <1>4, PhaseCasesAfter DEF ContractPhase, Known
  <1> DEFINE Of(t) == {a.file_id : a \in {b \in acked : b.session_id = t}}
  <1>6. \A t \in SessionId : {a.file_id : a \in {b \in acked' : b.session_id = t}}
                               = IF t = s THEN Of(s) \cup {f} ELSE Of(t)
    BY <1>1, <1>2
  <1>7. [t \in SessionId |-> {a.file_id : a \in {b \in acked' : b.session_id = t}}]
          = [[t \in SessionId |-> Of(t)] EXCEPT ![s] = @ \cup {f}]
    BY <1>6
  <1>8. \A t \in SessionId : f \notin Of(t)
    BY <1>1
  <1>9. Contract!Accept(s, f)
    BY <1>2, <1>4, <1>5, <1>7, <1>8 DEF Contract!Accept
  <1> QED
    BY <1>9 DEF Contract!Next

LEMMA CompleteIsSeal ==
  ASSUME IInv, IInv', NEW s \in SessionId, NEW q, NEW endpoint \in {"complete", "receipt"},
         CompleteVia(endpoint, s, q)
  PROVE  Contract!Next
  <1>1. PICK c : receipts' = receipts \cup {c} /\ c.session_id = s
    <2> DEFINE receipt == [session_id |-> s, endpoint |-> endpoint, completed_at |-> now,
                           files |-> ReceiptFiles(s)]
    <2>1. receipts' = receipts \cup {receipt}
      BY DEF CompleteVia
    <2>2. receipt.session_id = s
      OBVIOUS
    <2> HIDE DEF receipt
    <2> QED
      BY <2>1, <2>2
  <1>2. UNCHANGED <<acked, created>>
    BY DEF CompleteVia
  <1>3. /\ Known(s) /\ sessions[s].status = "active"
        /\ Known(s)' /\ sessions'[s].status = "completed"
        /\ \A t \in SessionId \ {s} : sessions'[t] = sessions[t]
    <2>1. sessions[s] \in Session /\ Known(s)
      BY DEF CompleteVia, Completable, IInv, TypeOK, Known
    <2>2. sessions[s].status = "active"
      BY <2>1 DEF CompleteVia, Completable, IInv, LapsedOnly, Session
    <2>3. [sessions[s] EXCEPT !.status = "completed"] \in Session
          /\ [sessions[s] EXCEPT !.status = "completed"].status = "completed"
      BY <2>1, StatusFields
    <2> QED
      BY <2>1, <2>2, <2>3 DEF CompleteVia, IInv, TypeOK, Known, Session, NoSession
  <1>4. ContractPhase(s) = "open" /\ ContractPhase(s)' = "sealed"
    BY <1>3, PhaseCases, PhaseCasesAfter
  <1>5. \A t \in SessionId \ {s} : ContractPhase(t)' = ContractPhase(t)
    BY <1>2, <1>3 DEF ContractPhase, Known
  <1> DEFINE Of(t)     == {a.file_id : a \in {b \in acked : b.session_id = t}}
             Listed(t) == {r.file_id : r \in UNION {d.files : d \in {b \in receipts : b.session_id = t}}}
  <1>6. {r.file_id : r \in UNION {d.files : d \in {b \in receipts' : b.session_id = s}}} = Of(s)
    <2>1. \A d \in receipts' : d.files = {a \in acked : a.session_id = d.session_id}
      BY <1>2 DEF IInv, ReceiptIsFinal
    <2>2. UNION {d.files : d \in {b \in receipts' : b.session_id = s}}
            = {a \in acked : a.session_id = s}
      BY <1>1, <2>1
    <2> QED
      BY <2>2
  <1>7. \A t \in SessionId \ {s} :
          {r.file_id : r \in UNION {d.files : d \in {b \in receipts' : b.session_id = t}}}
            = Listed(t)
    <2>1. \A t \in SessionId \ {s} :
            {b \in receipts' : b.session_id = t} = {b \in receipts : b.session_id = t}
      BY <1>1
    <2> QED
      BY <2>1
  <1>8. [t \in SessionId |-> {r.file_id : r \in UNION {d.files : d \in
                                {b \in receipts' : b.session_id = t}}}]
          = [[t \in SessionId |-> Listed(t)] EXCEPT ![s] = [t \in SessionId |-> Of(t)][s]]
    BY <1>6, <1>7
  <1>9. Contract!Seal(s)
    BY <1>2, <1>4, <1>5, <1>8 DEF Contract!Seal
  <1> QED
    BY <1>9 DEF Contract!Next

LEMMA ContractInit == Init => Contract!Init
  <1> SUFFICES ASSUME Init PROVE Contract!Init
    OBVIOUS
  <1>1. \A s \in SessionId : ContractPhase(s) = "unopened"
    BY DEF Init, ContractPhase, SessionId
  <1> QED
    BY <1>1 DEF Init, Contract!Init

LEMMA ContractStep ==
  ASSUME IInv, IInv', [Next]_vars
  PROVE  [Contract!Next]_(Contract!vars)
  <1>1. ASSUME NEW s \in SessionId, GetSession(s)
        PROVE  Contract!Next
    <2>1. UNCHANGED <<acked, receipts, created>>
      BY <1>1 DEF GetSession
    <2>2. \A t \in SessionId : \/ sessions'[t] = sessions[t]
                               \/ Known(t) /\ Known(t)' /\ sessions'[t].status = "expired"
      BY <1>1, StatusFields DEF GetSession, IInv, TypeOK, Known, Session, NoSession
    <2> QED
      BY <2>1, <2>2, StaysOrEnds, CloseStep
  <1>2. ASSUME NEW s \in SessionId, CleanSession(s)
        PROVE  Contract!Next
    <2>1. UNCHANGED <<acked, receipts, created>>
      BY <1>2 DEF CleanSession
    <2>2. \A t \in SessionId : sessions'[t] = sessions[t] \/ ~Known(t)'
      BY <1>2 DEF CleanSession, IInv, TypeOK, Known
    <2> QED
      BY <2>1, <2>2, StaysOrEnds, CloseStep
  <1>3. ASSUME NEW s \in SessionId, NEW f \in FileId, CleanSessionRaises(s, f)
        PROVE  Contract!Next
    <2>1. UNCHANGED <<acked, receipts, created>>
      BY <1>3 DEF CleanSessionRaises
    <2>2. \A t \in SessionId : \/ sessions'[t] = sessions[t]
                               \/ Known(t) /\ Known(t)' /\ sessions'[t].status = "expired"
      BY <1>3, RaisesMarks DEF Known, Session, NoSession
    <2> QED
      BY <2>1, <2>2, StaysOrEnds, CloseStep
  <1>4. ASSUME Restart
        PROVE  Contract!Next
    <2>1. UNCHANGED <<acked, receipts, created>>
      BY <1>4 DEF Restart
    <2>2. \A t \in SessionId : ~Known(t)'
      BY <1>4 DEF Restart, Known
    <2> QED
      BY <2>1, <2>2, StaysOrEnds, CloseStep
  <1>5. CASE UNCHANGED <<sessions, created, acked, receipts>>
    <2>1. \A t \in SessionId : ContractPhase(t)' = ContractPhase(t)
      BY <1>5 DEF ContractPhase, Known
    <2> QED
      BY <1>5, <2>1 DEF Contract!vars
  <1>6. \/ StoreFails \/ RenameTemp \/ RejectStreamed \/ BeginCleanup \/ Tick
        \/ UNCHANGED vars
        \/ \E mode \in {"buffered", "streamed"}, t \in SessionId, size \in Sizes :
             BeginUpload(mode, t, size)
        => UNCHANGED <<sessions, created, acked, receipts>>
    BY DEF StoreFails, RenameTemp, RejectStreamed, BeginCleanup, Tick, vars, BeginUpload
  <1> QED
    BY <1>1, <1>2, <1>3, <1>4, <1>5, <1>6, CompleteActions, CompleteIsSeal, CreateIsOpen,
       RecordIsAccept DEF Next

-----------------------------------------------------------------------------
(* The theorems                                                            *)

LEMMA InvInit == Init => IInv
  <1> SUFFICES ASSUME Init PROVE IInv
    OBVIOUS
  <1>1. TypeOK
    BY TypeInit
  <1> QED
    BY <1>1 DEF Init, IInv, QuotaRespected, RecordedOnDisk, ReceiptIsFinal, UploadAdmitted,
                FreshIds, RecordsListed, LapsedOnly, Known, Busy, Used

LEMMA InvStep == IInv /\ [Next]_vars => IInv'
  BY TypeStep, QuotaStep, OnDiskStep, FinalStep, AdmittedStep, FreshStep, ListedStep,
     LapsedStep
     DEF IInv

\* The inductive invariant holds in every reachable state.
THEOREM Invariance == Spec => []IInv
  BY InvInit, InvStep, PTL DEF Spec

\* Every variable keeps its type, in receivers of any size.
THEOREM TypeCorrect == Spec => []TypeOK
  <1>1. IInv => TypeOK
    BY DEF IInv
  <1> QED
    BY <1>1, Invariance, PTL

\* No session exceeds the number of files or of bytes it was created with.
THEOREM QuotasHold == Spec => []QuotaRespected
  <1>1. IInv => QuotaRespected
    BY DEF IInv
  <1> QED
    BY <1>1, Invariance, PTL

\* Every record in the table has its complete file on disk.
THEOREM RecordsOnDisk == Spec => []RecordedOnDisk
  <1>1. IInv => RecordedOnDisk
    BY DEF IInv
  <1> QED
    BY <1>1, Invariance, PTL

\* A completion receipt lists everything its session ever acknowledged.
THEOREM ReceiptsAreFinal == Spec => []ReceiptIsFinal
  <1>1. IInv => ReceiptIsFinal
    BY DEF IInv
  <1> QED
    BY <1>1, Invariance, PTL

\* A streamed upload that is rejected after it was stored leaves no bytes in
\* the directory of a session in the table.
THEOREM RejectedAreRemoved == Spec => []RejectedLeavesNoBytes
  <1>1. Init => DiskIsExplained
    BY DEF Init, DiskIsExplained, OnDisk, NoFile, RejectedLeavesNoBytes
  <1>2. DiskIsExplained => RejectedLeavesNoBytes
    BY DEF DiskIsExplained
  <1> QED
    BY <1>1, <1>2, ExplainedStep, Invariance, PTL DEF Spec

\* No step touches the stored file of a session that has not lapsed.
THEOREM LiveFilesAreKept == Spec => LiveFilesKept
  <1>1. IInv /\ [Next]_vars =>
          [\A r \in files : ~Lapsed(r.session_id) => disk'[r.file_id] = disk[r.file_id]]_vars
    BY DiskSteps
  <1> QED
    BY <1>1, Invariance, PTL DEF Spec, LiveFilesKept

\* The receiver implements UploadSessionContract: every step opens a session,
\* accepts a file, seals a session or closes some, if it does any of these.
THEOREM Refinement == Spec => KeepsContract
  BY ContractInit, ContractStep, Invariance, PTL DEF Spec, KeepsContract, Contract!Spec

-----------------------------------------------------------------------------
(* Totals                                                                  *)

\* What a session's total should be the size of.
Acknowledged(s) == {a \in acked : a.session_id = s}

\* Acknowledged records have ids of their own, so there are finitely many.
LEMMA AckedFinite ==
  ASSUME IInv
  PROVE  /\ IsFiniteSet(acked)
         /\ \A a \in acked : a.size_bytes \in Nat
  <1> DEFINE id == [a \in acked |-> a.file_id]
  <1>1. id \in Injection(acked, FileId)
    BY DEF IInv, TypeOK, RecordsListed, FileRecord, Injection, IsInjective
  <1>2. IsFiniteSet(FileId)
    BY FileSets
  <1>3. IsFiniteSet(acked)
    BY <1>1, <1>2, FS_Injection
  <1>4. FileRecord = [file_id : FileId, session_id : SessionId, size_bytes : Nat]
    BY DEF FileRecord
  <1> QED
    BY <1>3, <1>4 DEF IInv, TypeOK

\* TotalSize is a sum over the records, whatever the order they are added in.
LEMMA TotalIsSum ==
  ASSUME NEW R, IsFiniteSet(R), \A r \in R : r.size_bytes \in Nat
  PROVE  TotalSize(R) = SumOver([r \in R |-> r.size_bytes], R)
  <1> DEFINE w == [r \in R |-> r.size_bytes]
             Eq(h) == h = [s \in SUBSET R |->
                             IF s = {} THEN 0
                             ELSE SizeOfRecord(CHOOSE x \in s : TRUE)
                                  + h[s \ {CHOOSE x \in s : TRUE}]]
             iter == CHOOSE h : Eq(h)
  <1>1. TotalSize(R) = iter[R]
    BY Zenon DEF TotalSize, MapThenSumSet, MapThenFoldSet
  <1>2. \A x \in R : w[x] \in Nat
    OBVIOUS
  <1>3. \A h : Picked(h, w, R) <=> Eq(h)
    <2>1. \A s \in SUBSET R : s # {} => (CHOOSE x \in s : TRUE) \in R
      OBVIOUS
    <2>2. \A x \in R : w[x] = SizeOfRecord(x)
      BY DEF SizeOfRecord
    <2> HIDE DEF w
    <2> QED
      BY <2>1, <2>2 DEF Picked
  <1> HIDE DEF w
  <1>4. \E h : Picked(h, w, R)
    BY <1>2, PickedExists
  <1> HIDE DEF Eq
  <1>5. Picked(iter, w, R)
    BY <1>3, <1>4
  <1>6. iter[R] = SumOver(w, R)
    <2> HIDE DEF iter
    <2> QED
      BY <1>2, <1>5, PickedIsSum
  <1> QED
    BY <1>1, <1>6 DEF w

\* What the proof needs of it: nothing has size 0, and one record more adds its own.
LEMMA TotalRules ==
  ASSUME NEW R, IsFiniteSet(R), \A r \in R : r.size_bytes \in Nat
  PROVE  /\ TotalSize({}) = 0
         /\ TotalSize(R) \in Nat
         /\ \A a : a \notin R /\ a.size_bytes \in Nat =>
              TotalSize(R \cup {a}) = TotalSize(R) + a.size_bytes
  <1>1. TotalSize({}) = 0
    BY TotalIsSum, SumEmpty, FS_EmptySet
  <1>2. TotalSize(R) \in Nat
    <2> DEFINE w == [r \in R |-> r.size_bytes]
    <2>1. \A r \in R : w[r] \in Nat
      OBVIOUS
    <2>2. TotalSize(R) = SumOver(w, R)
      BY TotalIsSum
    <2> HIDE DEF w
    <2> QED
      BY <2>1, <2>2, SumNat
  <1>3. ASSUME NEW a, a \notin R, a.size_bytes \in Nat
        PROVE  TotalSize(R \cup {a}) = TotalSize(R) + a.size_bytes
    <2> DEFINE U == R \cup {a}
               v == [r \in R |-> r.size_bytes]
               w == [r \in U |-> r.size_bytes]
    <2>1. IsFiniteSet(U) /\ \A r \in U : r.size_bytes \in Nat
      BY <1>3, FS_AddElement
    <2>2. TotalSize(U) = SumOver(w, U) /\ TotalSize(R) = SumOver(v, R)
      <3> HIDE DEF U
      <3> QED
        BY <2>1, TotalIsSum
    <2>3. /\ \A r \in U : w[r] \in Nat
          /\ \A r \in R : v[r] \in Nat /\ v[r] = w[r]
          /\ w[a] = a.size_bytes
      BY <2>1
    <2> HIDE DEF v, w
    <2>4. SumOver(w, U) = SumOver(w, R) + w[a]
      BY <1>3, <2>3, SumAdd
    <2>5. SumOver(v, R) = SumOver(w, R)
      BY <2>3, SumSame
    <2> QED
      BY <2>2, <2>3, <2>4, <2>5
  <1> QED
    BY <1>1, <1>2, <1>3

\* Only recording a file changes a total or what is acknowledged; the record is
\* a new one, and goes into the total and into what the total should be.
LEMMA TotalStep == IInv /\ TotalMatchesAcked /\ [Next]_vars => TotalMatchesAcked'
  <1> SUFFICES ASSUME IInv, TotalMatchesAcked, [Next]_vars, NEW s \in SessionId, Known(s)'
               PROVE  sessions'[s].total_bytes_uploaded = TotalSize({a \in acked' : a.session_id = s})
    BY DEF TotalMatchesAcked, Known
  <1>0. /\ Known(s) => sessions[s].total_bytes_uploaded = TotalSize(Acknowledged(s))
        /\ IsFiniteSet(Acknowledged(s)) /\ \A a \in Acknowledged(s) : a.size_bytes \in Nat
    BY AckedFinite, FS_Subset DEF TotalMatchesAcked, Acknowledged
  <1>1. CASE ~RecordUpload
    <2>1. {a \in acked' : a.session_id = s} = Acknowledged(s)
      BY <1>1, FileSteps DEF Acknowledged
    <2>2. CASE SameUploads(s)
      BY <1>0, <2>1, <2>2 DEF SameUploads
    <2>3. CASE NewSession(s)
      <3>1. \A a \in acked : a.session_id # s
        BY <2>3 DEF NewSession, IInv, FreshIds, TypeOK
      <3>2. Acknowledged(s) = {}
        BY <3>1 DEF Acknowledged
      <3> QED
        BY <1>0, <2>1, <2>3, <3>2, TotalRules DEF NewSession
    <2> QED
      BY <1>1, <2>2, <2>3, SessionSteps
  <1>2. CASE RecordUpload
    <2> DEFINE t == upload.session_id
    <2>1. /\ sessions' = [sessions EXCEPT ![t] = Listing(sessions[t])]
          /\ acked' = acked \cup {UploadedRecord}
      BY <1>2 DEF RecordUpload
    <2>2. /\ UploadedRecord \notin acked
          /\ UploadedRecord.session_id = t /\ UploadedRecord.size_bytes = upload.size
          /\ upload.size \in Nat
      <3>1. /\ UploadedRecord.file_id = issued /\ issued \in Nat
            /\ \A a \in acked : a.file_id < issued
        BY <1>2, RecordIsNew DEF IInv, TypeOK
      <3>2. upload \in Upload
        BY <1>2, RecordFits
      <3>3. upload.size \in Nat
        BY <3>2 DEF Upload
      <3> QED
        BY <3>1, <3>3 DEF UploadedRecord
    <2>3. CASE s # t
      <3>1. {a \in acked' : a.session_id = s} = Acknowledged(s)
        BY <2>1, <2>2, <2>3 DEF Acknowledged
      <3>2. sessions'[s] = sessions[s]
        BY <2>1, <2>3 DEF IInv, TypeOK
      <3> QED
        BY <1>0, <3>1, <3>2 DEF Known
    <2>4. CASE s = t
      <3>1. {a \in acked' : a.session_id = s} = Acknowledged(s) \cup {UploadedRecord}
        BY <2>1, <2>2, <2>4 DEF Acknowledged
      <3>2. TotalSize(Acknowledged(s) \cup {UploadedRecord})
              = TotalSize(Acknowledged(s)) + upload.size
        BY <1>0, <2>2, TotalRules DEF Acknowledged
      <3>3. sessions'[s].total_bytes_uploaded = sessions[s].total_bytes_uploaded + upload.size
        BY <1>2, <2>1, <2>4, RecordFits, ListingFields DEF IInv, TypeOK
      <3>4. Known(s)
        BY <1>2, <2>4 DEF RecordUpload, IInv, UploadAdmitted, Busy
      <3> QED
        BY <1>0, <3>1, <3>2, <3>3, <3>4
    <2> QED
      BY <2>3, <2>4
  <1> QED
    BY <1>1, <1>2

\* The total that a session's quota is held against is the size of the files
\* acknowledged to it, each counted once, however uploads, failures, cleanups
\* and restarts interleave.
THEOREM TotalsMatch == Spec => []TotalMatchesAcked
  <1>1. Init => TotalMatchesAcked
    BY DEF Init, TotalMatchesAcked, Known
  <1> QED
    BY <1>1, TotalStep, Invariance, PTL DEF Spec
=============================================================================
