-------------------------- MODULE HostedUploadsProofs --------------------------
(***************************************************************************)
(* Proofs about binary uploads, for any number of workers, quotes, uploads *)
(* and kinds of files, and any limits: the types, that what is shown is    *)
(* stored, and how far concurrent uploads pass the limits of a quote.      *)
(***************************************************************************)
EXTENDS HostedUploads, FoldLemmas

\* The types the proof needs, without the upper bounds on sizes.
Stored == [quote_id : Quote, extension : Kind, size_bytes : Nat]
Step == {"store", "encrypt", "row", "event", "answer"}

Shape ==
  /\ files \in [Id -> Stored \cup {NoFile}]
  /\ uploads \in [Id -> Stored \cup {NoRow}]
  /\ logged \subseteq Id /\ answered \subseteq Id
  /\ job \in [Worker -> [step : Step, id : Id, upload : Stored] \cup {Idle}]
  /\ admitted \in Nat

\* Uploads have ids of their own, and none that is not admitted yet has left
\* a trace.
IdsAreFresh ==
  /\ \A w \in Worker : job[w] # Idle => job[w].id <= admitted
  /\ \A v, w \in Worker :
       job[v] # Idle /\ job[w] # Idle /\ job[v].id = job[w].id => v = w
  /\ \A i \in Id : i > admitted => uploads[i] = NoRow /\ i \notin logged

\* How far the handler of an upload is says which of its writes are done.
Done(w) ==
  LET i == job[w].id IN
  /\ job[w].step # "store" => files[i] = job[w].upload
  /\ job[w].step \in {"store", "encrypt", "row"} => uploads[i] = NoRow
  /\ job[w].step \in {"event", "answer"} => uploads[i] = job[w].upload
  /\ job[w].step = "answer" => i \in logged

Progress == \A w \in Worker : job[w] # Idle => Done(w)

RowsHaveFiles == \A i \in Id : uploads[i] # NoRow => files[i] = uploads[i]

EventsHaveRows ==
  /\ \A i \in logged : uploads[i] # NoRow
  /\ answered \subseteq logged

IInv == Shape /\ IdsAreFresh /\ Progress /\ RowsHaveFiles /\ EventsHaveRows

-----------------------------------------------------------------------------

\* A stored upload is a record, and so neither no file, no row nor no job.
LEMMA Distinct ==
  /\ \A u \in Stored : u # NoFile /\ u # NoRow
  /\ \A j \in [step : Step, id : Id, upload : Stored] : j # Idle
  BY SMT DEF Stored, NoFile, NoRow, Idle, Step

\* Sizes, whatever the limits, are natural numbers.
LEMMA SizesAreNat == \A n \in Size : n \in Nat
  BY DEF Size

\* A file that passes the validation is stored as it was sent.
LEMMA Valid ==
  ASSUME NEW file \in UploadFile, ValidateFile(file), NEW q \in Quote
  PROVE  [quote_id |-> q, extension |-> file.extension,
          size_bytes |-> file.size_bytes] \in Stored
  <1>1. file.extension \in Kind /\ Limit[file.extension] \in Nat
    BY UploadConstants DEF ValidateFile
  <1>2. file.size_bytes \in Nat
    BY <1>1 DEF ValidateFile
  <1> QED
    BY <1>1, <1>2 DEF Stored

LEMMA InvInit == UploadsInit => IInv
  BY DEF UploadsInit, IInv, Shape, IdsAreFresh, Progress, RowsHaveFiles, EventsHaveRows

\* What a worker at a step holds.
LEMMA Working ==
  ASSUME IInv, NEW w \in Worker, job[w] # Idle
  PROVE  /\ job[w] \in [step : Step, id : Id, upload : Stored]
         /\ job[w].id \in Id /\ job[w].upload \in Stored
         /\ job[w].id <= admitted
         /\ Done(w)
  BY DEF IInv, Shape, IdsAreFresh, Progress

\* A worker that goes on keeps its id and its upload; the others, whose ids
\* are different, keep everything.
LEMMA Advance ==
  ASSUME IInv, NEW w \in Worker, job[w] # Idle, NEW step \in Step, Goto(w, step)
  PROVE  /\ job' \in [Worker -> [step : Step, id : Id, upload : Stored] \cup {Idle}]
         /\ job'[w] = [step |-> step, id |-> job[w].id, upload |-> job[w].upload]
         /\ job'[w] # Idle
         /\ \A v \in Worker \ {w} : job'[v] = job[v]
         /\ \A v \in Worker \ {w} : job[v] # Idle => job[v].id # job[w].id
  <1>1. job[w] \in [step : Step, id : Id, upload : Stored]
    BY Working
  <1>2. job' = [job EXCEPT ![w] = [job[w] EXCEPT !.step = step]]
    BY DEF Goto
  <1>3. [job[w] EXCEPT !.step = step]
          = [step |-> step, id |-> job[w].id, upload |-> job[w].upload]
    BY <1>1
  <1>4. [step |-> step, id |-> job[w].id, upload |-> job[w].upload]
          \in [step : Step, id : Id, upload : Stored]
    BY <1>1
  <1> QED
    BY <1>2, <1>3, <1>4, Distinct DEF IInv, Shape, IdsAreFresh

\* A worker that stops leaves only what is stored.
LEMMA Stop ==
  ASSUME IInv, NEW w \in Worker, job' = [job EXCEPT ![w] = Idle],
         UNCHANGED <<uploads, logged, admitted>>,
         files' = files \/ (/\ At(w, "store")
                            /\ \E u \in Stored : files' = [files EXCEPT ![job[w].id] = u]),
         answered' \subseteq logged
  PROVE  IInv'
  <1>1. /\ job' \in [Worker -> [step : Step, id : Id, upload : Stored] \cup {Idle}]
        /\ job'[w] = Idle /\ \A v \in Worker \ {w} : job'[v] = job[v]
    BY DEF IInv, Shape
  <1>2. CASE files' = files
    BY <1>1, <1>2 DEF IInv, Shape, IdsAreFresh, Progress, Done, RowsHaveFiles, EventsHaveRows
  <1>3. CASE /\ At(w, "store")
             /\ \E u \in Stored : files' = [files EXCEPT ![job[w].id] = u]
    <2>1. PICK u \in Stored : files' = [files EXCEPT ![job[w].id] = u]
      BY <1>3
    <2>2. job[w] # Idle /\ job[w].step = "store"
      BY <1>3 DEF At
    <2>3. uploads[job[w].id] = NoRow /\ job[w].id \in Id
      BY <2>2, Working DEF Done
    <2>4. \A v \in Worker \ {w} : job[v] # Idle => job[v].id # job[w].id
      BY <2>2 DEF IInv, IdsAreFresh
    <2>5. Shape'
      BY <1>1, <2>1 DEF IInv, Shape, EventsHaveRows
    <2>6. IdsAreFresh' /\ EventsHaveRows'
      BY <1>1 DEF IInv, IdsAreFresh, EventsHaveRows
    <2>7. RowsHaveFiles'
      BY <2>1, <2>3 DEF IInv, RowsHaveFiles, Shape
    <2>8. Progress'
      BY <1>1, <2>1, <2>4 DEF IInv, Progress, Done, Shape
    <2> QED
      BY <2>5, <2>6, <2>7, <2>8 DEF IInv
  <1> QED
    BY <1>2, <1>3

LEMMA AdmitStep ==
  ASSUME IInv, NEW w \in Worker, UploadFileEndpoint(w)
  PROVE  IInv'
  <1>1. PICK a \in Account, q \in Quote, file \in UploadFile : Admit(w, a, q, file)
    BY DEF UploadFileEndpoint
  <1> DEFINE i == admitted + 1
             u == [quote_id |-> q, extension |-> file.extension,
                   size_bytes |-> file.size_bytes]
             j == [step |-> "store", id |-> i, upload |-> u]
  <1>2. /\ u \in Stored
        /\ i \in Id /\ admitted' = i /\ admitted \in Nat
        /\ job' = [job EXCEPT ![w] = j]
        /\ UNCHANGED <<files, uploads, logged, answered>>
    BY <1>1, Valid DEF Admit, IInv, Shape
  <1>3. j \in [step : Step, id : Id, upload : Stored] /\ j # Idle
    BY <1>2, Distinct DEF Step
  <1>4. /\ job' \in [Worker -> [step : Step, id : Id, upload : Stored] \cup {Idle}]
        /\ job'[w] = j /\ \A v \in Worker \ {w} : job'[v] = job[v]
    BY <1>2, <1>3 DEF IInv, Shape
  <1> HIDE DEF j, u
  <1>5. j.step = "store" /\ j.id = i
    BY DEF j
  <1>6. uploads[i] = NoRow /\ i \notin logged
    BY <1>2 DEF IInv, IdsAreFresh, Id
  <1>7. Shape'
    BY <1>2, <1>4 DEF IInv, Shape
  <1>8. IdsAreFresh'
    BY <1>2, <1>4, <1>5 DEF IInv, IdsAreFresh, Shape, Id
  <1>9. Progress'
    BY <1>2, <1>4, <1>5, <1>6 DEF IInv, Progress, Done
  <1>10. RowsHaveFiles' /\ EventsHaveRows'
    BY <1>2 DEF IInv, RowsHaveFiles, EventsHaveRows
  <1> QED
    BY <1>7, <1>8, <1>9, <1>10 DEF IInv

LEMMA StoreStep ==
  ASSUME IInv, NEW w \in Worker, StoreFile(w)
  PROVE  IInv'
  <1>1. job[w] # Idle /\ job[w].step = "store" /\ Goto(w, "encrypt")
    BY DEF StoreFile, At
  <1> DEFINE i == job[w].id
             u == job[w].upload
  <1>2. i \in Id /\ u \in Stored /\ i <= admitted /\ uploads[i] = NoRow
    BY <1>1, Working DEF Done
  <1>3. [u EXCEPT !.size_bytes = u.size_bytes] = u
    BY <1>2 DEF Stored
  <1>4. /\ files' = [files EXCEPT ![i] = u]
        /\ UNCHANGED <<uploads, logged, admitted, answered>>
    BY <1>3 DEF StoreFile, Written
  <1>5. /\ job' \in [Worker -> [step : Step, id : Id, upload : Stored] \cup {Idle}]
        /\ job'[w] = [step |-> "encrypt", id |-> i, upload |-> u]
        /\ job'[w] # Idle
        /\ \A v \in Worker \ {w} : job'[v] = job[v]
        /\ \A v \in Worker \ {w} : job[v] # Idle => job[v].id # i
    BY <1>1, Advance DEF Step
  <1>6. /\ job'[w].step = "encrypt" /\ job'[w].id = i /\ job'[w].upload = u
    BY <1>5
  <1> HIDE DEF i, u
  <1>7. Shape'
    BY <1>2, <1>4, <1>5 DEF IInv, Shape
  <1>8. IdsAreFresh'
    BY <1>2, <1>4, <1>5, <1>6 DEF IInv, IdsAreFresh
  <1>9. Progress'
    BY <1>2, <1>4, <1>5, <1>6 DEF IInv, Progress, Done, Shape
  <1>10. RowsHaveFiles' /\ EventsHaveRows'
    BY <1>2, <1>4 DEF IInv, RowsHaveFiles, EventsHaveRows, Shape
  <1> QED
    BY <1>7, <1>8, <1>9, <1>10 DEF IInv

LEMMA EncryptStep ==
  ASSUME IInv, NEW w \in Worker, EncryptFilename(w)
  PROVE  IInv'
  <1>1. job[w] # Idle /\ job[w].step = "encrypt" /\ Goto(w, "row")
    BY DEF EncryptFilename, At
  <1> DEFINE i == job[w].id
             u == job[w].upload
  <1>2. i \in Id /\ u \in Stored /\ i <= admitted /\ uploads[i] = NoRow /\ files[i] = u
    BY <1>1, Working DEF Done
  <1>3. UNCHANGED <<files, uploads, logged, admitted, answered>>
    BY DEF EncryptFilename
  <1>5. /\ job' \in [Worker -> [step : Step, id : Id, upload : Stored] \cup {Idle}]
        /\ job'[w] = [step |-> "row", id |-> i, upload |-> u]
        /\ job'[w] # Idle
        /\ \A v \in Worker \ {w} : job'[v] = job[v]
        /\ \A v \in Worker \ {w} : job[v] # Idle => job[v].id # i
    BY <1>1, Advance DEF Step
  <1>6. /\ job'[w].step = "row" /\ job'[w].id = i /\ job'[w].upload = u
    BY <1>5
  <1> HIDE DEF i, u
  <1> QED
    BY <1>2, <1>3, <1>5, <1>6
       DEF IInv, Shape, IdsAreFresh, Progress, Done, RowsHaveFiles, EventsHaveRows

LEMMA RowStep ==
  ASSUME IInv, NEW w \in Worker, AddUpload(w)
  PROVE  IInv'
  <1>1. job[w] # Idle /\ job[w].step = "row" /\ Goto(w, "event")
    BY DEF AddUpload, At
  <1> DEFINE i == job[w].id
             u == job[w].upload
  <1>2. i \in Id /\ u \in Stored /\ i <= admitted /\ uploads[i] = NoRow /\ files[i] = u
    BY <1>1, Working DEF Done
  <1>3. /\ uploads' = [uploads EXCEPT ![i] = u]
        /\ UNCHANGED <<files, logged, admitted, answered>>
    BY DEF AddUpload
  <1>4. u # NoRow
    BY <1>2, Distinct
  <1>5. /\ job' \in [Worker -> [step : Step, id : Id, upload : Stored] \cup {Idle}]
        /\ job'[w] = [step |-> "event", id |-> i, upload |-> u]
        /\ job'[w] # Idle
        /\ \A v \in Worker \ {w} : job'[v] = job[v]
        /\ \A v \in Worker \ {w} : job[v] # Idle => job[v].id # i
    BY <1>1, Advance DEF Step
  <1>6. /\ job'[w].step = "event" /\ job'[w].id = i /\ job'[w].upload = u
    BY <1>5
  <1> HIDE DEF i, u
  <1>7. Shape'
    BY <1>2, <1>3, <1>5 DEF IInv, Shape
  <1>8. IdsAreFresh'
    BY <1>2, <1>3, <1>5, <1>6 DEF IInv, IdsAreFresh, Shape, Id
  <1>9. Progress'
    BY <1>2, <1>3, <1>5, <1>6 DEF IInv, Progress, Done, Shape
  <1>10. RowsHaveFiles' /\ EventsHaveRows'
    BY <1>2, <1>3, <1>4 DEF IInv, RowsHaveFiles, EventsHaveRows, Shape
  <1> QED
    BY <1>7, <1>8, <1>9, <1>10 DEF IInv

LEMMA EventStep ==
  ASSUME IInv, NEW w \in Worker, AppendEvent(w)
  PROVE  IInv'
  <1>1. job[w] # Idle /\ job[w].step = "event" /\ Goto(w, "answer")
    BY DEF AppendEvent, At
  <1> DEFINE i == job[w].id
             u == job[w].upload
  <1>2. i \in Id /\ u \in Stored /\ i <= admitted /\ uploads[i] = u /\ files[i] = u
    BY <1>1, Working DEF Done
  <1>3. /\ logged' = logged \cup {i}
        /\ UNCHANGED <<files, uploads, admitted, answered>>
    BY DEF AppendEvent
  <1>4. u # NoRow
    BY <1>2, Distinct
  <1>5. /\ job' \in [Worker -> [step : Step, id : Id, upload : Stored] \cup {Idle}]
        /\ job'[w] = [step |-> "answer", id |-> i, upload |-> u]
        /\ job'[w] # Idle
        /\ \A v \in Worker \ {w} : job'[v] = job[v]
        /\ \A v \in Worker \ {w} : job[v] # Idle => job[v].id # i
    BY <1>1, Advance DEF Step
  <1>6. /\ job'[w].step = "answer" /\ job'[w].id = i /\ job'[w].upload = u
    BY <1>5
  <1> HIDE DEF i, u
  <1>7. Shape'
    BY <1>2, <1>3, <1>5 DEF IInv, Shape
  <1>8. IdsAreFresh'
    BY <1>2, <1>3, <1>5, <1>6 DEF IInv, IdsAreFresh, Shape, Id
  <1>9. Progress'
    BY <1>2, <1>3, <1>5, <1>6 DEF IInv, Progress, Done
  <1>10. RowsHaveFiles' /\ EventsHaveRows'
    BY <1>2, <1>3, <1>4 DEF IInv, RowsHaveFiles, EventsHaveRows
  <1> QED
    BY <1>7, <1>8, <1>9, <1>10 DEF IInv

LEMMA InvStep == IInv /\ [UploadsNext]_uploading => IInv'
  <1> SUFFICES ASSUME IInv, [UploadsNext]_uploading PROVE IInv'
    OBVIOUS
  <1>1. ASSUME NEW w \in Worker, Answer(w) PROVE IInv'
    <2>1. job[w] # Idle /\ job[w].step = "answer"
      BY <1>1 DEF Answer, At
    <2>2. job[w].id \in logged
      BY <2>1, Working DEF Done
    <2>3. answered' \subseteq logged
      BY <1>1, <2>2 DEF Answer, IInv, EventsHaveRows
    <2> QED
      BY <1>1, <2>3, Stop DEF Answer
  <1>2. ASSUME NEW w \in Worker, Fail(w) PROVE IInv'
    <2>1. answered' \subseteq logged
      BY <1>2 DEF Fail, IInv, EventsHaveRows
    <2> QED
      BY <1>2, <2>1, Stop DEF Fail
  <1>3. ASSUME NEW w \in Worker, NEW size \in Size, StoreFails(w, size) PROVE IInv'
    <2>1. answered' \subseteq logged
      BY <1>3 DEF StoreFails, IInv, EventsHaveRows
    <2>2. job[w] # Idle
      BY <1>3 DEF StoreFails, At
    <2>3. [job[w].upload EXCEPT !.size_bytes = size] \in Stored
      BY <2>2, Working, SizesAreNat DEF Stored
    <2>4. /\ At(w, "store")
          /\ \E u \in Stored : files' = [files EXCEPT ![job[w].id] = u]
      BY <1>3, <2>3 DEF StoreFails, Written
    <2> QED
      BY <1>3, <2>1, <2>4, Stop DEF StoreFails
  <1>4. ASSUME NEW q \in Quote, CloseQuote(q),
               UNCHANGED <<files, uploads, logged, job, admitted, answered>>
        PROVE  IInv'
    BY <1>4 DEF CloseQuote, IInv, Shape, IdsAreFresh, Progress, Done, RowsHaveFiles,
                EventsHaveRows
  <1>5. CASE UNCHANGED uploading
    BY <1>5 DEF uploading, IInv, Shape, IdsAreFresh, Progress, Done, RowsHaveFiles, EventsHaveRows
  <1> QED
    BY <1>1, <1>2, <1>3, <1>4, <1>5, AdmitStep, StoreStep, EncryptStep, RowStep, EventStep
       DEF UploadsNext

-----------------------------------------------------------------------------
(* The theorems                                                            *)

\* The inductive invariant holds in every reachable state.
THEOREM Invariance == UploadsSpec => []IInv
  BY InvInit, InvStep, PTL DEF UploadsSpec

\* Wherever requests end, and however many run side by side, an upload in a
\* list has its whole file, an event its upload, an answer its event.
THEOREM WhatIsShownIsStored == UploadsSpec => []ShownIsStored
  <1>1. IInv => ShownIsStored
    BY DEF IInv, RowsHaveFiles, EventsHaveRows, ShownIsStored, ListUploads, RowsOf
  <1> QED
    BY <1>1, Invariance, PTL

-----------------------------------------------------------------------------
(* Types                                                                   *)

\* The largest file is as large as the limit of some kind, and no limit is
\* larger.
LEMMA LargestIsLargest ==
  /\ LargestFile \in Nat \ {0}
  /\ \A k \in Kind : Limit[k] <= LargestFile
  <1> DEFINE R == Range(Limit)
  <1>1. Limit \in Surjection(Kind, R) /\ R \subseteq Nat \ {0} /\ Limit[Pdf] \in R
    BY UploadConstants DEF Range, Surjection
  <1>2. IsFiniteSet(R)
    BY <1>1, UploadConstants, FS_Surjection
  <1>3. LargestFile = Max(R)
    BY DEF LargestFile
  <1>4. \A k \in Kind : Limit[k] \in R
    BY UploadConstants DEF Range
  <1> HIDE DEF R
  <1>5. Max(R) \in R /\ \A n \in R : Max(R) >= n
    BY <1>1, <1>2, MaxIsLargest
  <1> QED
    BY <1>1, <1>3, <1>4, <1>5

\* A file that passes the validation has a size that its kind allows.
LEMMA ValidUpload ==
  ASSUME NEW file \in UploadFile, ValidateFile(file), NEW q \in Quote
  PROVE  [quote_id |-> q, extension |-> file.extension,
          size_bytes |-> file.size_bytes] \in Upload
  <1>1. file.extension \in Kind /\ Limit[file.extension] \in Nat
    BY UploadConstants DEF ValidateFile
  <1>2. /\ file.size_bytes \in 1..Limit[file.extension]
        /\ Limit[file.extension] <= LargestFile /\ LargestFile \in Nat
    BY <1>1, LargestIsLargest DEF ValidateFile
  <1> QED
    BY <1>1, <1>2 DEF Upload, Size

\* A job at work is not the idle one, and what it carries has its types.
LEMMA JobTypes ==
  /\ \A w : job[w] \in Job => job[w] # Idle /\ job[w].id \in Id /\ job[w].upload \in Upload
  /\ \A u \in Upload : u \in File
  BY DEF Job, Idle, Upload, File

\* The initial state has its types.
LEMMA TypeInit == UploadsInit => UploadsTypeOK
  <1> SUFFICES ASSUME UploadsInit PROVE UploadsTypeOK
    OBVIOUS
  <1>1. [account_id : Account \cup {NoAccount}, open : {TRUE}] \subseteq QuoteRow
    BY DEF QuoteRow
  <1>2. quotes \in [Quote -> QuoteRow]
    BY <1>1, Zenon DEF UploadsInit, QuotesInit
  <1> QED
    BY <1>2, UploadConstants DEF UploadsInit, UploadsTypeOK

\* A job that goes on stays a job.
LEMMA GotoType ==
  ASSUME UploadsTypeOK, NEW w \in Worker, job[w] # Idle,
         NEW step \in {"store", "encrypt", "row", "event", "answer"}, Goto(w, step)
  PROVE  job' \in [Worker -> Job \cup {Idle}]
  <1>1. job[w] \in Job
    BY DEF UploadsTypeOK
  <1>2. [job[w] EXCEPT !.step = step] \in Job
    BY <1>1 DEF Job
  <1>3. job' = [job EXCEPT ![w] = [job[w] EXCEPT !.step = step]]
    BY DEF Goto
  <1> QED
    BY <1>2, <1>3 DEF UploadsTypeOK

\* So has every later one: sizes on disk are those of a job, or part of them.
LEMMA TypeStep == UploadsTypeOK /\ [UploadsNext]_uploading => UploadsTypeOK'
  <1> SUFFICES ASSUME UploadsTypeOK, [UploadsNext]_uploading PROVE UploadsTypeOK'
    OBVIOUS
  <1>1. ASSUME NEW w \in Worker, UploadFileEndpoint(w) PROVE UploadsTypeOK'
    <2>1. PICK a \in Account, q \in Quote, file \in UploadFile : Admit(w, a, q, file)
      BY <1>1 DEF UploadFileEndpoint
    <2> DEFINE i == admitted + 1
               u == [quote_id |-> q, extension |-> file.extension,
                     size_bytes |-> file.size_bytes]
               j == [step |-> "store", id |-> i, upload |-> u]
    <2>2. /\ u \in Upload /\ i \in Id /\ admitted' = i
          /\ job' = [job EXCEPT ![w] = j]
          /\ UNCHANGED <<quotes, files, uploads, logged, answered>>
      BY <2>1, ValidUpload DEF Admit
    <2>3. j \in Job
      BY <2>2 DEF Job
    <2> HIDE DEF j, u
    <2>4. job' \in [Worker -> Job \cup {Idle}]
      BY <2>2, <2>3 DEF UploadsTypeOK
    <2>5. admitted' \in 0..MaxUploads
      BY <2>2, UploadConstants DEF Id
    <2> QED
      BY <2>2, <2>4, <2>5 DEF UploadsTypeOK
  <1>2. ASSUME NEW w \in Worker, NEW step, At(w, step)
        PROVE  /\ job[w] # Idle /\ job[w].id \in Id /\ job[w].upload \in Upload
               /\ job[w].upload \in File
    BY <1>2, JobTypes DEF UploadsTypeOK, At
  <1>3. ASSUME NEW w \in Worker, NEW size \in Size, At(w, "store"), files' = Written(w, size)
        PROVE  files' \in [Id -> File \cup {NoFile}]
    <2>1. [job[w].upload EXCEPT !.size_bytes = size] \in File
      BY <1>2, <1>3 DEF File
    <2> QED
      BY <1>2, <1>3, <2>1 DEF UploadsTypeOK, Written
  <1>4. ASSUME NEW w \in Worker, StoreFile(w) PROVE UploadsTypeOK'
    <2>1. job[w].upload.size_bytes \in Size
      BY <1>2, <1>4 DEF StoreFile, Upload
    <2>2. files' \in [Id -> File \cup {NoFile}]
      BY <1>3, <1>4, <2>1 DEF StoreFile
    <2> QED
      BY <1>2, <1>4, <2>2, GotoType DEF StoreFile, UploadsTypeOK
  <1>5. ASSUME NEW w \in Worker, EncryptFilename(w) PROVE UploadsTypeOK'
    BY <1>2, <1>5, GotoType DEF EncryptFilename, UploadsTypeOK
  <1>6. ASSUME NEW w \in Worker, AddUpload(w) PROVE UploadsTypeOK'
    BY <1>2, <1>6, GotoType DEF AddUpload, UploadsTypeOK
  <1>7. ASSUME NEW w \in Worker, AppendEvent(w) PROVE UploadsTypeOK'
    BY <1>2, <1>7, GotoType DEF AppendEvent, UploadsTypeOK
  <1>8. ASSUME NEW w \in Worker, Answer(w) PROVE UploadsTypeOK'
    BY <1>2, <1>8 DEF Answer, UploadsTypeOK
  <1>9. ASSUME NEW w \in Worker, Fail(w) PROVE UploadsTypeOK'
    BY <1>9 DEF Fail, UploadsTypeOK
  <1>10. ASSUME NEW w \in Worker, NEW size \in Size, StoreFails(w, size) PROVE UploadsTypeOK'
    <2>1. files' \in [Id -> File \cup {NoFile}]
      BY <1>3, <1>10 DEF StoreFails
    <2> QED
      BY <1>10, <2>1 DEF StoreFails, UploadsTypeOK
  <1>11. ASSUME NEW q \in Quote, CloseQuote(q),
                UNCHANGED <<files, uploads, logged, job, admitted, answered>>
         PROVE  UploadsTypeOK'
    <2>1. [quotes[q] EXCEPT !.open = FALSE] \in QuoteRow
      BY DEF UploadsTypeOK, QuoteRow
    <2> QED
      BY <1>11, <2>1 DEF CloseQuote, UploadsTypeOK
  <1>12. CASE UNCHANGED uploading
    BY <1>12 DEF uploading, UploadsTypeOK
  <1> QED
    BY <1>1, <1>4, <1>5, <1>6, <1>7, <1>8, <1>9, <1>10, <1>11, <1>12 DEF UploadsNext

\* The types hold, the bound on the size of every stored file and of every row
\* included: no path stores more than the largest limit allows.
THEOREM TypeCorrect == UploadsSpec => []UploadsTypeOK
  BY TypeInit, TypeStep, PTL DEF UploadsSpec

-----------------------------------------------------------------------------
(* How far the limits are passed                                           *)

\* The bytes of the rows in R of the table u.
Bytes(u, R) == MapThenSumSet(LAMBDA i : u[i].size_bytes, R)

\* It is a sum, in whatever order they are added.
LEMMA BytesAreSum ==
  ASSUME NEW u, NEW R, IsFiniteSet(R), \A i \in R : u[i].size_bytes \in Nat
  PROVE  Bytes(u, R) = SumOver([i \in R |-> u[i].size_bytes], R)
  <1> DEFINE w == [i \in R |-> u[i].size_bytes]
             Eq(h) == h = [s \in SUBSET R |->
                             IF s = {} THEN 0
                             ELSE u[CHOOSE x \in s : TRUE].size_bytes
                                  + h[s \ {CHOOSE x \in s : TRUE}]]
             iter == CHOOSE h : Eq(h)
  <1>1. Bytes(u, R) = iter[R]
    BY Zenon DEF Bytes, MapThenSumSet, MapThenFoldSet
  <1>2. \A x \in R : w[x] \in Nat
    OBVIOUS
  <1>3. \A h : Picked(h, w, R) <=> Eq(h)
    <2>1. \A s \in SUBSET R : s # {} => (CHOOSE x \in s : TRUE) \in R
      OBVIOUS
    <2>2. \A x \in R : w[x] = u[x].size_bytes
      OBVIOUS
    <2> HIDE DEF w
    <2> QED
      BY <2>1, <2>2 DEF Picked
  <1> HIDE DEF w
  <1>4. \E h : Picked(h, w, R)
    BY <1>2, PickedExists
  <1> HIDE DEF Eq
  <1>5. Picked(iter, w, R)
    BY <1>3, <1>4
  <1>6. iter[R] = SumOver(w, R)
    <2> HIDE DEF iter
    <2> QED
      BY <1>2, <1>5, PickedIsSum
  <1> QED
    BY <1>1, <1>6 DEF w

\* The uploads to q that workers are at and whose rows are not written yet.
InHand(q) == {w \in Worker : /\ job[w] # Idle
                             /\ job[w].step \in {"store", "encrypt", "row"}
                             /\ job[w].upload.quote_id = q}

\* With r rows of b bytes, h uploads more are not too many.
Fits(r, h, b) ==
  /\ r + h < MaxFiles + Cardinality(Worker)
  /\ b + h * LargestFile < MaxTotal + Cardinality(Worker) * LargestFile

\* What is stored for a quote fits together with what is in hand for it.
Room == \A q \in Quote : Fits(Cardinality(RowsOf(q)), Cardinality(InHand(q)), BytesOf(q))

\* Fewer uploads in hand fit too, as does the one that admission lets in, and
\* the row that one of them becomes.
LEMMA Fitting ==
  /\ \A r, h, k, b \in Nat : Fits(r, h, b) /\ k <= h => Fits(r, k, b)
  /\ \A r, h, b \in Nat :
       r < MaxFiles /\ b < MaxTotal /\ h <= Cardinality(Worker) => Fits(r, h, b)
  /\ \A r, h, b, n \in Nat : Fits(r, h + 1, b) /\ n <= LargestFile => Fits(r + 1, h, b + n)
  /\ \A r, h, b \in Nat : Fits(r, h, b) => Fits(r, 0, b)
  <1> DEFINE W == Cardinality(Worker)
             L == LargestFile
  <1>1. W \in Nat /\ L \in Nat /\ MaxFiles \in Nat /\ MaxTotal \in Nat
    BY UploadConstants, FS_CardinalityType, LargestIsLargest
  <1> HIDE DEF W, L
  <1>2. \A m, n \in Nat : m <= n => m * L <= n * L /\ m * L \in Nat /\ n * L \in Nat
    BY <1>1
  <1>3. \A n \in Nat : (n + 1) * L = n * L + L
    BY <1>1
  <1>4. \A r, h, b \in Nat : Fits(r, h, b) <=>
          r + h < MaxFiles + W /\ b + h * L < MaxTotal + W * L
    BY DEF Fits, W, L
  <1>5. ASSUME NEW r \in Nat, NEW h \in Nat, NEW k \in Nat, NEW b \in Nat, Fits(r, h, b), k <= h
        PROVE  Fits(r, k, b)
    <2>1. k * L <= h * L /\ k * L \in Nat /\ h * L \in Nat /\ W * L \in Nat
      BY <1>1, <1>2, <1>5
    <2> QED
      BY <1>1, <1>4, <1>5, <2>1
  <1>6. ASSUME NEW r \in Nat, NEW h \in Nat, NEW b \in Nat, r < MaxFiles, b < MaxTotal, h <= W
        PROVE  Fits(r, h, b)
    <2>1. h * L <= W * L /\ h * L \in Nat /\ W * L \in Nat
      BY <1>1, <1>2, <1>6
    <2> QED
      BY <1>1, <1>4, <1>6, <2>1
  <1>7. ASSUME NEW r \in Nat, NEW h \in Nat, NEW b \in Nat, NEW n \in Nat, Fits(r, h + 1, b), n <= L
        PROVE  Fits(r + 1, h, b + n)
    <2>1. (h + 1) * L = h * L + L /\ h * L \in Nat /\ W * L \in Nat
      BY <1>1, <1>2, <1>3
    <2> QED
      BY <1>1, <1>4, <1>7, <2>1
  <1> QED
    BY <1>5, <1>6, <1>7 DEF W, L

\* The sets and the sum that Room is about are finite.
LEMMA Counted ==
  ASSUME IInv, NEW q \in Quote
  PROVE  /\ IsFiniteSet(RowsOf(q)) /\ Cardinality(RowsOf(q)) \in Nat
         /\ IsFiniteSet(InHand(q)) /\ Cardinality(InHand(q)) \in Nat
         /\ Cardinality(InHand(q)) <= Cardinality(Worker)
         /\ \A i \in RowsOf(q) : uploads[i].size_bytes \in Nat
         /\ BytesOf(q) = Bytes(uploads, RowsOf(q)) /\ BytesOf(q) \in Nat
  <1>1. IsFiniteSet(Id) /\ RowsOf(q) \subseteq Id
    BY UploadConstants, FS_Interval DEF Id, RowsOf
  <1>2. IsFiniteSet(RowsOf(q)) /\ Cardinality(RowsOf(q)) \in Nat
    BY <1>1, FS_Subset, FS_CardinalityType
  <1>3. /\ IsFiniteSet(InHand(q)) /\ Cardinality(InHand(q)) \in Nat
        /\ Cardinality(InHand(q)) <= Cardinality(Worker)
    BY UploadConstants, FS_Subset, FS_CardinalityType DEF InHand
  <1>4. \A i \in RowsOf(q) : uploads[i].size_bytes \in Nat
    BY DEF RowsOf, IInv, Shape, Stored
  <1>5. BytesOf(q) = Bytes(uploads, RowsOf(q))
    BY Zenon DEF BytesOf, Bytes
  <1>6. Bytes(uploads, RowsOf(q)) \in Nat
    <2> DEFINE w == [i \in RowsOf(q) |-> uploads[i].size_bytes]
    <2>1. \A i \in RowsOf(q) : w[i] \in Nat
      BY <1>4
    <2>2. Bytes(uploads, RowsOf(q)) = SumOver(w, RowsOf(q))
      BY <1>2, <1>4, BytesAreSum
    <2> HIDE DEF w
    <2> QED
      BY <1>2, <2>1, <2>2, SumNat
  <1> QED
    BY <1>2, <1>3, <1>4, <1>5, <1>6

\* A step that writes no row leaves room as long as it puts nothing in hand.
LEMMA RoomStays ==
  ASSUME IInv, IInv', Room, UNCHANGED uploads, NEW q \in Quote, InHand(q)' \subseteq InHand(q)
  PROVE  Fits(Cardinality(RowsOf(q)'), Cardinality(InHand(q)'), BytesOf(q)')
  <1>1. RowsOf(q)' = RowsOf(q)
    BY DEF RowsOf
  <1>2. BytesOf(q)' = BytesOf(q)
    <2>1. BytesOf(q)' = Bytes(uploads', RowsOf(q)')
      BY Zenon DEF BytesOf, Bytes, MapThenSumSet, MapThenFoldSet
    <2> QED
      BY <1>1, <2>1, Counted
  <1>3. Cardinality(InHand(q)') \in Nat /\ Cardinality(InHand(q)') <= Cardinality(InHand(q))
    BY Counted, FS_Subset, FS_CardinalityType
  <1> QED
    BY <1>1, <1>2, <1>3, Counted, Fitting DEF Room

\* Admission finds the quote below its limits.
LEMMA RoomAtAdmission ==
  ASSUME IInv, IInv', Room, NEW w \in Worker, UploadFileEndpoint(w), NEW q \in Quote
  PROVE  Fits(Cardinality(RowsOf(q)'), Cardinality(InHand(q)'), BytesOf(q)')
  <1>1. PICK a \in Account, p \in Quote, file \in UploadFile : Admit(w, a, p, file)
    BY DEF UploadFileEndpoint
  <1> DEFINE j == [step |-> "store", id |-> admitted + 1,
                   upload |-> [quote_id |-> p, extension |-> file.extension,
                               size_bytes |-> file.size_bytes]]
  <1>2. /\ UNCHANGED uploads /\ job' = [job EXCEPT ![w] = j] /\ j.upload.quote_id = p
        /\ CanUploadToQuote(p)
    BY <1>1 DEF Admit
  <1> HIDE DEF j
  <1>3. CASE q # p
    <2>1. InHand(q)' \subseteq InHand(q)
      BY <1>2, <1>3 DEF InHand, IInv, Shape
    <2> QED
      BY <1>2, <2>1, RoomStays
  <1>4. CASE q = p
    <2>1. RowsOf(q)' = RowsOf(q)
      BY <1>2 DEF RowsOf
    <2>2. BytesOf(q)' = BytesOf(q)
      <3>1. BytesOf(q)' = Bytes(uploads', RowsOf(q)')
        BY Zenon DEF BytesOf, Bytes, MapThenSumSet, MapThenFoldSet
      <3> QED
        BY <1>2, <2>1, <3>1, Counted
    <2>3. Cardinality(InHand(q)') \in Nat /\ Cardinality(InHand(q)') <= Cardinality(Worker)
      BY UploadConstants, FS_Subset, FS_CardinalityType DEF InHand
    <2>4. Cardinality(RowsOf(q)) < MaxFiles /\ BytesOf(q) < MaxTotal
      BY <1>2, <1>4 DEF CanUploadToQuote
    <2> QED
      BY <2>1, <2>2, <2>3, <2>4, Counted, Fitting
  <1> QED
    BY <1>3, <1>4

\* A row that is written was in hand, and its file is no larger than any.
LEMMA RoomForRow ==
  ASSUME IInv, IInv', UploadsTypeOK, Room, NEW w \in Worker, AddUpload(w), NEW q \in Quote
  PROVE  Fits(Cardinality(RowsOf(q)'), Cardinality(InHand(q)'), BytesOf(q)')
  <1> DEFINE i == job[w].id
             u == job[w].upload
  <1>1. job[w] # Idle /\ job[w].step = "row" /\ Goto(w, "event")
    BY DEF AddUpload, At
  <1>2. i \in Id /\ u \in Stored /\ uploads[i] = NoRow
    BY <1>1, Working DEF Done
  <1>3. u.size_bytes \in Nat /\ u.size_bytes <= LargestFile
    BY <1>1, JobTypes, LargestIsLargest DEF UploadsTypeOK, Upload, Size
  <1>4. /\ uploads' = [uploads EXCEPT ![i] = u]
        /\ uploads'[i] = u /\ \A k \in Id \ {i} : uploads'[k] = uploads[k]
    BY <1>2 DEF AddUpload, IInv, Shape
  <1>5. /\ job'[w].step = "event" /\ \A v \in Worker \ {w} : job'[v] = job[v]
    <2>1. /\ job'[w] = [step |-> "event", id |-> job[w].id, upload |-> job[w].upload]
          /\ \A v \in Worker \ {w} : job'[v] = job[v]
      BY <1>1, Advance DEF Step
    <2> QED
      BY <2>1
  <1>6. u # NoRow /\ u.quote_id \in Quote
    BY <1>2, Distinct DEF Stored
  <1>7. BytesOf(q)' = Bytes(uploads', RowsOf(q)')
    BY Zenon DEF BytesOf, Bytes, MapThenSumSet, MapThenFoldSet
  <1> HIDE DEF i, u
  <1>8. CASE u.quote_id # q
    <2>1. RowsOf(q)' = RowsOf(q)
      BY <1>2, <1>4, <1>6, <1>8 DEF RowsOf
    <2>2. InHand(q)' = InHand(q)
      BY <1>1, <1>5, <1>8 DEF InHand, u
    <2>3. \A k \in RowsOf(q) : uploads'[k] = uploads[k]
      BY <1>2, <1>4 DEF RowsOf
    <2>4. Bytes(uploads', RowsOf(q)) = Bytes(uploads, RowsOf(q))
      <3> DEFINE R == RowsOf(q)
                 v == [k \in R |-> uploads[k].size_bytes]
                 z == [k \in R |-> uploads'[k].size_bytes]
      <3>1. v = z
        BY <2>3
      <3>2. IsFiniteSet(R) /\ \A k \in R : uploads[k].size_bytes \in Nat
        BY Counted
      <3>3. \A k \in R : uploads'[k].size_bytes \in Nat
        BY <2>3, <3>2
      <3> HIDE DEF R
      <3>4. Bytes(uploads, R) = SumOver(v, R)
        BY <3>2, BytesAreSum
      <3>5. Bytes(uploads', R) = SumOver(z, R)
        BY <3>2, <3>3, BytesAreSum
      <3> HIDE DEF v, z
      <3> QED
        BY <3>1, <3>4, <3>5 DEF R
    <2>5. BytesOf(q)' = BytesOf(q)
      BY <1>7, <2>1, <2>4, Counted
    <2> QED
      BY <2>1, <2>2, <2>5 DEF Room
  <1>9. CASE u.quote_id = q
    <2> DEFINE R == RowsOf(q)
               v == [k \in R |-> uploads[k].size_bytes]
               z == [k \in R \cup {i} |-> uploads'[k].size_bytes]
               n == u.size_bytes
    <2>1. RowsOf(q)' = R \cup {i} /\ i \notin R
      BY <1>2, <1>4, <1>6, <1>9 DEF RowsOf
    <2>2. InHand(q)' = InHand(q) \ {w} /\ w \in InHand(q)
      BY <1>1, <1>5, <1>9 DEF InHand, u
    <2>3. /\ IsFiniteSet(R) /\ IsFiniteSet(R \cup {i})
          /\ Cardinality(R) \in Nat /\ Cardinality(R \cup {i}) = Cardinality(R) + 1
      BY <2>1, Counted, FS_AddElement
    <2>4. /\ Cardinality(InHand(q)') \in Nat
          /\ Cardinality(InHand(q)) = Cardinality(InHand(q)') + 1
      <3> DEFINE H == InHand(q)
      <3>1. IsFiniteSet(H) /\ Cardinality(H) \in Nat
        BY Counted
      <3>2. InHand(q)' = H \ {w} /\ w \in H
        BY <2>2
      <3> HIDE DEF H
      <3>3. /\ IsFiniteSet(H \ {w})
            /\ Cardinality(H \ {w}) = Cardinality(H) - 1
        BY <3>1, <3>2, FS_RemoveElement
      <3>4. Cardinality(H \ {w}) \in Nat
        BY <3>3, FS_CardinalityType
      <3> QED
        BY <3>1, <3>2, <3>3, <3>4 DEF H
    <2>5. \A k \in R : uploads'[k] = uploads[k] /\ uploads[k].size_bytes \in Nat
      BY <2>1, <1>4, Counted DEF RowsOf
    <2>6. uploads'[i].size_bytes = n
      BY <1>4
    <2>7. \A k \in R \cup {i} : uploads'[k].size_bytes \in Nat
      BY <1>3, <2>5, <2>6
    <2> HIDE DEF R, n
    <2>8. Bytes(uploads, R) = SumOver(v, R) /\ Bytes(uploads', R \cup {i}) = SumOver(z, R \cup {i})
      BY <2>3, <2>5, <2>7, BytesAreSum
    <2>9. /\ \A k \in R \cup {i} : z[k] \in Nat
          /\ \A k \in R : v[k] \in Nat /\ v[k] = z[k]
          /\ z[i] = n
      BY <2>5, <2>6, <2>7
    <2> HIDE DEF v, z
    <2>10. SumOver(z, R \cup {i}) = SumOver(z, R) + z[i] /\ SumOver(v, R) = SumOver(z, R)
      BY <2>1, <2>3, <2>9, SumAdd, SumSame
    <2>11. BytesOf(q)' = BytesOf(q) + n
      BY <1>7, <2>1, <2>8, <2>9, <2>10, Counted DEF R
    <2>12. Fits(Cardinality(R), Cardinality(InHand(q)') + 1, BytesOf(q))
      BY <2>4 DEF Room, R
    <2>13. Fits(Cardinality(R) + 1, Cardinality(InHand(q)'), BytesOf(q) + n)
      BY <1>3, <2>3, <2>4, <2>12, Counted, Fitting DEF n
    <2> QED
      BY <2>1, <2>3, <2>11, <2>13
  <1> QED
    BY <1>8, <1>9

\* Every step leaves room.  Admission puts one upload in hand, the row takes one
\* out and adds it to what is stored, and no other step does either.
LEMMA RoomStep == IInv /\ IInv' /\ UploadsTypeOK /\ Room /\ [UploadsNext]_uploading => Room'
  <1> SUFFICES ASSUME IInv, IInv', UploadsTypeOK, Room, [UploadsNext]_uploading, NEW q \in Quote
               PROVE  Fits(Cardinality(RowsOf(q)'), Cardinality(InHand(q)'), BytesOf(q)')
    BY DEF Room, Fits
  <1>1. ASSUME NEW w \in Worker, NEW step \in Step, At(w, step), NEW next \in Step, Goto(w, next),
               step \in {"event", "answer"} => next \in {"event", "answer"}
        PROVE  InHand(q)' \subseteq InHand(q)
    <2>1. /\ job[w] # Idle /\ job[w].step = step /\ job'[w].step = next
          /\ job'[w].upload = job[w].upload
          /\ \A v \in Worker \ {w} : job'[v] = job[v]
      <3>1. job[w] # Idle /\ job[w].step = step
        BY <1>1 DEF At
      <3>2. /\ job'[w] = [step |-> next, id |-> job[w].id, upload |-> job[w].upload]
            /\ \A v \in Worker \ {w} : job'[v] = job[v]
        BY <1>1, <3>1, Advance
      <3> QED
        BY <3>1, <3>2
    <2> QED
      BY <1>1, <2>1 DEF InHand, Step
  <1>2. ASSUME NEW w \in Worker, job' = [job EXCEPT ![w] = Idle]
        PROVE  InHand(q)' \subseteq InHand(q)
    BY <1>2 DEF InHand, IInv, Shape
  <1>3. ASSUME NEW w \in Worker, StoreFile(w) \/ EncryptFilename(w) \/ AppendEvent(w)
        PROVE  InHand(q)' \subseteq InHand(q) /\ UNCHANGED uploads
    <2>1. StoreFile(w) => At(w, "store") /\ Goto(w, "encrypt") /\ UNCHANGED uploads
      BY DEF StoreFile
    <2>2. EncryptFilename(w) => At(w, "encrypt") /\ Goto(w, "row") /\ UNCHANGED uploads
      BY DEF EncryptFilename
    <2>3. AppendEvent(w) => At(w, "event") /\ Goto(w, "answer") /\ UNCHANGED uploads
      BY DEF AppendEvent
    <2> QED
      BY <1>1, <1>3, <2>1, <2>2, <2>3 DEF Step
  <1>4. ASSUME NEW w \in Worker,
               Answer(w) \/ Fail(w) \/ \E size \in Size : StoreFails(w, size)
        PROVE  InHand(q)' \subseteq InHand(q) /\ UNCHANGED uploads
    BY <1>2, <1>4 DEF Answer, Fail, StoreFails
  <1>5. \/ UNCHANGED uploading
        \/ /\ \E p \in Quote : CloseQuote(p)
           /\ UNCHANGED <<files, uploads, logged, job, admitted, answered>>
        =>
          InHand(q)' \subseteq InHand(q) /\ UNCHANGED uploads
    BY DEF uploading, CloseQuote, InHand
  <1>6. CASE InHand(q)' \subseteq InHand(q) /\ UNCHANGED uploads
    BY <1>6, RoomStays
  <1> QED
    BY <1>3, <1>4, <1>5, <1>6, RoomAtAdmission, RoomForRow DEF UploadsNext

\* There is room at the start: nothing is stored and there is a worker.
LEMMA RoomInit == UploadsInit => Room
  <1> SUFFICES ASSUME UploadsInit, NEW q \in Quote
               PROVE  Fits(Cardinality(RowsOf(q)), Cardinality(InHand(q)), BytesOf(q))
    BY DEF Room
  <1>1. RowsOf(q) = {} /\ InHand(q) = {}
    BY DEF UploadsInit, RowsOf, InHand
  <1>2. BytesOf(q) = 0
    <2>1. BytesOf(q) = Bytes(uploads, {})
      BY <1>1, Counted, InvInit
    <2> QED
      BY <2>1, FS_EmptySet, BytesAreSum, SumEmpty
  <1>3. Cardinality(Worker) \in Nat /\ Cardinality(Worker) # 0
    BY UploadConstants, FS_CardinalityType, FS_EmptySet
  <1>4. Cardinality(RowsOf(q)) = 0 /\ Cardinality(InHand(q)) = 0
    BY <1>1, FS_EmptySet
  <1> DEFINE W == Cardinality(Worker)
             L == LargestFile
  <1>5. W \in Nat /\ W >= 1 /\ L \in Nat /\ L >= 1
    BY <1>3, LargestIsLargest
  <1> HIDE DEF W, L
  <1>6. W * L \in Nat /\ W * L >= 1
    BY <1>5
  <1>7. 0 * L = 0
    BY <1>5
  <1> QED
    BY <1>2, <1>4, <1>5, <1>6, <1>7, UploadConstants DEF Fits, W, L

\* Where there is room, the limits are passed by less than a file for each worker.
LEMMA RoomBounds == IInv /\ Room => OvershootBounded
  <1> SUFFICES ASSUME IInv, Room, NEW q \in Quote
               PROVE  /\ Cardinality(RowsOf(q)) < MaxFiles + Cardinality(Worker)
                      /\ BytesOf(q) < MaxTotal + Cardinality(Worker) * LargestFile
    BY DEF OvershootBounded
  <1>1. Fits(Cardinality(RowsOf(q)), 0, BytesOf(q))
    BY Counted, Fitting DEF Room
  <1>2. 0 * LargestFile = 0
    BY LargestIsLargest
  <1> QED
    BY <1>1, <1>2, Counted DEF Fits

\* The limits of a quote, decided before a row is written, are passed by less
\* than one largest file for each worker process, whatever they interleave.
THEOREM LimitsArePassedOnce == UploadsSpec => []OvershootBounded
  BY RoomInit, RoomStep, RoomBounds, Invariance, TypeCorrect, PTL DEF UploadsSpec
=============================================================================
