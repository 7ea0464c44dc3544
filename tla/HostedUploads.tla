---------------------------- MODULE HostedUploads ----------------------------
(***************************************************************************)
(* Binary uploads of the hosted service: UploadService.handle_upload       *)
(* (services/upload_service.py) writes a file, a row and an event one      *)
(* after the other, for one or several workers, and any of the three may   *)
(* be the last thing a request does.                                       *)
(*                                                                         *)
(* Sizes are counted in units that keep the order of the limits.  A        *)
(* refused request changes nothing and does not appear.                    *)
(***************************************************************************)
EXTENDS UploadQuotes, FiniteSetsExt, Functions

CONSTANTS
  Worker,           \* those serving requests at the same time
  Kind,             \* image, PDF, video: the allowed extensions by limit
  Pdf,              \* the kind whose declared type is not looked at
  OtherKind,        \* any extension or content type besides
  Undeclared,       \* no content type
  Limit,            \* LIMITS: the largest size of each kind
  MaxFiles,         \* MAX_FILES_PER_QUOTE
  MaxTotal,         \* MAX_TOTAL_BYTES_PER_QUOTE
  MaxUploads        \* bound: requests admitted

ASSUME UploadConstants ==
  /\ IsFiniteSet(Worker) /\ Worker # {}
  /\ IsFiniteSet(Kind) /\ Pdf \in Kind
  /\ OtherKind \notin Kind /\ Undeclared \notin Kind
  /\ Limit \in [Kind -> Nat \ {0}]
  /\ MaxFiles \in Nat /\ MaxTotal \in Nat /\ MaxUploads \in Nat

VARIABLES
  files,     \* the upload directory: what each object id has, or NoFile
  uploads,   \* the uploads table: the row of each object id, or NoRow
  logged,    \* ids whose QUOTE_UPLOAD_ACCEPTED is in the log
  job,       \* what each worker is doing, or Idle
  admitted,  \* history: how many requests were admitted
  answered   \* history: ids answered with success

uploading == <<quotes, files, uploads, logged, job, admitted, answered>>

Id == 1..MaxUploads
LargestFile == Max(Range(Limit))
Size == 0..LargestFile

\* A file has its quote's directory, its extension and so many bytes.
NoFile == [exists |-> FALSE]
File == [quote_id : Quote, extension : Kind, size_bytes : Size]

\* The row repeats what handle_upload computed; its status stays ACCEPTED.
NoRow  == [exists |-> FALSE]
Upload == [quote_id : Quote, extension : Kind, size_bytes : Size \ {0}]

\* What a client sends.
UploadFile ==
  [extension : Kind \cup {OtherKind}, content_type : Kind \cup {OtherKind, Undeclared},
   size_bytes : 0..LargestFile + 1]

Idle == [step |-> "idle"]
Job == [step : {"store", "encrypt", "row", "event", "answer"}, id : Id, upload : Upload]

UploadsInit ==
  /\ QuotesInit
  /\ files = [i \in Id |-> NoFile]
  /\ uploads = [i \in Id |-> NoRow]
  /\ logged = {}
  /\ job = [w \in Worker |-> Idle]
  /\ admitted = 0 /\ answered = {}

-----------------------------------------------------------------------------
(* Validation                                                              *)

\* Mutant: a file of no bytes is not refused.
ValidateFile_Empty(file) ==
  /\ file.extension \in Kind
  /\ file.size_bytes \in 0..Limit[file.extension]
  /\ \/ file.content_type \in {file.extension, Undeclared}
     \/ file.extension = Pdf

\* Mutant: the limit of a kind is one unit too large.
ValidateFile_Larger(file) ==
  /\ file.extension \in Kind
  /\ file.size_bytes \in 1..Limit[file.extension] + 1
  /\ \/ file.content_type \in {file.extension, Undeclared}
     \/ file.extension = Pdf

\* validate_file: a type of another family than the extension's is refused.
ValidateFile(file) ==
  /\ file.extension \in Kind
  /\ file.size_bytes \in 1..Limit[file.extension]
  /\ \/ file.content_type \in {file.extension, Undeclared}
     \/ file.extension = Pdf

RowsOf(q) == {i \in Id : uploads[i] # NoRow /\ uploads[i].quote_id = q}
BytesOf(q) == MapThenSumSet(LAMBDA i : uploads[i].size_bytes, RowsOf(q))

\* can_upload_to_quote, before the size of the new file is known.
CanUploadToQuote(q) ==
  /\ quotes[q].open
  /\ Cardinality(RowsOf(q)) < MaxFiles
  /\ BytesOf(q) < MaxTotal

-----------------------------------------------------------------------------
(* handle_upload                                                           *)

At(w, step) == job[w] # Idle /\ job[w].step = step
Goto(w, step) == job' = [job EXCEPT ![w].step = step]

\* All the reading and checking of the handler.
Admit(w, a, q, file) ==
  LET i == admitted + 1 IN
  /\ job[w] = Idle /\ i \in Id
  /\ quotes[q].account_id = a /\ a \in VerifiedAccount
  /\ CanUploadToQuote(q)
  /\ ValidateFile(file)
  /\ admitted' = i
  /\ job' = [job EXCEPT ![w] =
       [step |-> "store", id |-> i,
        upload |-> [quote_id |-> q, extension |-> file.extension,
                    size_bytes |-> file.size_bytes]]]
  /\ UNCHANGED <<quotes, files, uploads, logged, answered>>

Written(w, size) ==
  [files EXCEPT ![job[w].id] = [job[w].upload EXCEPT !.size_bytes = size]]

StoreFile(w) ==
  /\ At(w, "store")
  /\ files' = Written(w, job[w].upload.size_bytes)
  /\ Goto(w, "encrypt")
  /\ UNCHANGED <<quotes, uploads, logged, admitted, answered>>

\* Mutant: a short write is not noticed.
StoreFails_Unnoticed(w, size) ==
  /\ At(w, "store")
  /\ size < job[w].upload.size_bytes
  /\ files' = Written(w, size)
  /\ Goto(w, "encrypt")
  /\ UNCHANGED <<quotes, uploads, logged, admitted, answered>>

\* The disk fills up, or the process dies, after some of the bytes.
StoreFails(w, size) ==
  /\ At(w, "store")
  /\ size < job[w].upload.size_bytes
  /\ files' = Written(w, size)
  /\ job' = [job EXCEPT ![w] = Idle]
  /\ UNCHANGED <<quotes, uploads, logged, admitted, answered>>

\* Nothing of it is kept: a step of its own because it may fail.
EncryptFilename(w) ==
  /\ At(w, "encrypt")
  /\ Goto(w, "row")
  /\ UNCHANGED <<quotes, files, uploads, logged, admitted, answered>>

AddUpload(w) ==
  /\ At(w, "row")
  /\ uploads' = [uploads EXCEPT ![job[w].id] = job[w].upload]
  /\ Goto(w, "event")
  /\ UNCHANGED <<quotes, files, logged, admitted, answered>>

AppendEvent(w) ==
  /\ At(w, "event")
  /\ logged' = logged \cup {job[w].id}
  /\ Goto(w, "answer")
  /\ UNCHANGED <<quotes, files, uploads, admitted, answered>>

Answer(w) ==
  /\ At(w, "answer")
  /\ answered' = answered \cup {job[w].id}
  /\ job' = [job EXCEPT ![w] = Idle]
  /\ UNCHANGED <<quotes, files, uploads, logged, admitted>>

\* An exception or the end of the process; nothing is undone.
Fail(w) ==
  /\ job[w] # Idle
  /\ job' = [job EXCEPT ![w] = Idle]
  /\ UNCHANGED <<quotes, files, uploads, logged, admitted, answered>>

\* POST /quotes/{quote_id}/uploads: a client sends what it likes.
UploadFileEndpoint(w) ==
  \E a \in Account, q \in Quote, file \in UploadFile : Admit(w, a, q, file)

\* GET /quotes/{quote_id}/uploads, for the owner of q and nobody else.
ListUploads(q) == RowsOf(q)

UploadsNext ==
  \/ \E w \in Worker :
       \/ UploadFileEndpoint(w)
       \/ StoreFile(w) \/ EncryptFilename(w) \/ AddUpload(w)
       \/ AppendEvent(w) \/ Answer(w) \/ Fail(w)
       \/ \E size \in Size : StoreFails(w, size)
  \/ /\ \E q \in Quote : CloseQuote(q)
     /\ UNCHANGED <<files, uploads, logged, job, admitted, answered>>

UploadsSpec == UploadsInit /\ [][UploadsNext]_uploading

-----------------------------------------------------------------------------
(* Properties                                                              *)

\* Types of the tables, the directory, the log and the workers' progress.
UploadsTypeOK ==
  /\ quotes \in [Quote -> QuoteRow]
  /\ files \in [Id -> File \cup {NoFile}]
  /\ uploads \in [Id -> Upload \cup {NoRow}]
  /\ logged \subseteq Id
  /\ job \in [Worker -> Job \cup {Idle}]
  /\ admitted \in 0..MaxUploads /\ answered \subseteq Id

\* Wherever a request ends, what is shown is real: an upload in the list of a
\* quote has its file, whole and in that quote's directory; an event has its
\* upload; an answer of success has all three.  What is left behind is a file
\* or a row more than anybody was told of, never less.
ShownIsStored ==
  /\ \A q \in Quote : \A i \in ListUploads(q) : files[i] = uploads[i]
  /\ \A i \in logged : uploads[i] # NoRow
  /\ answered \subseteq logged

\* The limits of a quote are checked before the file counts: with workers side
\* by side each may pass them once, by one file of the largest kind, and one
\* worker alone passes only the limit on bytes.
OvershootBounded ==
  \A q \in Quote :
    /\ Cardinality(RowsOf(q)) < MaxFiles + Cardinality(Worker)
    /\ BytesOf(q) < MaxTotal + Cardinality(Worker) * LargestFile
=============================================================================
