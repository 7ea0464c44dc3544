-------------------------- MODULE ReviewConsoleProofs --------------------------
(***************************************************************************)
(* Proofs about quotes and signed actions, alone and with the operator's   *)
(* console, for any quotes, accounts, devices and envelopes.               *)
(*                                                                         *)
(* The first part is about HostedQuotes with any number of workers: the    *)
(* types, that only genuine actions are tracked and explain a review, and  *)
(* that each takes effect at most once.  The second is about one hosted    *)
(* process (OneProcess) with the console: what a form says stands until    *)
(* the form is sent again, the log is true, what both sides were told is   *)
(* true, and a quote moves through QuoteReviewContract.                    *)
(***************************************************************************)
EXTENDS ReviewConsole, TLAPS

\* What a handler holds, by the request it serves and whether it will write.
Creating   == [at : {"log_created"}, quote : Quote]
Editing    == [at : {"write"}, form : Form, quote : Quote, row : Row]
Locating   == [at : {"log_location"}, form : Form, quote : Quote]
Submitting == [at : {"submit", "log_submitted", "advance"},
               account : Account, quote : Quote, row : Row]
Closing    == [at : {"log_status"}, account : Account, quote : Quote]
Acting     == [at : {"track_action", "track_nonce", "read", "set", "log_review"},
               envelope : Envelope]

SubmitSteps == {"submit", "log_submitted", "advance"}
ActionSteps == {"track_action", "track_nonce", "read", "set", "log_review"}

\* What the requests of customers make a worker hold.
Serving == Creating \cup Editing \cup Locating \cup Submitting \cup Closing \cup {Idle}

\* The steps at which a worker holds a row, and those at which it is about a
\* quote that it has found.
RowSteps   == {"write"} \cup SubmitSteps
QuoteSteps == RowSteps \cup {"log_location", "log_status"}

\* The steps at which the action id, and the nonce, of an envelope are owned.
IdSteps    == {"track_nonce", "read", "set"}
NonceSteps == {"read", "set"}

Explained(q) ==
  \E e \in applied : e \in Genuine /\ e.device_id \in TrustedDevice /\ e.aggregate_id = q

\* Whatever a handler is about to write has a row to be written to, and a row
\* in review that it holds is one that an action put there.
Fits(h) ==
  /\ h.at \in QuoteSteps => Exists(h.quote)
  /\ h.at \in RowSteps => (h.row.status = "reviewing" => Explained(h.quote))
  /\ h.at \in {"set", "log_review"} =>
       h.envelope.aggregate_id \in Quote /\ Exists(h.envelope.aggregate_id)
  /\ h.at = "log_location" => quotes[h.quote].columns["exact_location"] # Null

HandlersFit == \A w \in Worker : Fits(handler[w])

\* What is carried out was admitted.
ActionsAdmitted ==
  /\ \A w \in Worker : handler[w].at \in ActionSteps =>
       handler[w].envelope \in Genuine /\ handler[w].envelope.device_id \in TrustedDevice
  /\ \A e \in applied :
       /\ e \in Genuine /\ e.device_id \in TrustedDevice
       /\ e.action_id \in tracked /\ NonceOf(e) \in nonces

\* An id and a nonce belong to one worker from their tracking to the review,
\* and nothing was applied under them before.
IdsAreOwned ==
  \A w \in Worker : handler[w].at \in IdSteps =>
    /\ handler[w].envelope.action_id \in tracked
    /\ \A f \in applied : f.action_id # handler[w].envelope.action_id
    /\ \A v \in Worker \ {w} : handler[v].at \in IdSteps =>
         handler[v].envelope.action_id # handler[w].envelope.action_id

NoncesAreOwned ==
  \A w \in Worker : handler[w].at \in NonceSteps =>
    /\ NonceOf(handler[w].envelope) \in nonces
    /\ \A f \in applied : NonceOf(f) # NonceOf(handler[w].envelope)
    /\ \A v \in Worker \ {w} : handler[v].at \in NonceSteps =>
         NonceOf(handler[v].envelope) # NonceOf(handler[w].envelope)

RepliesAreKept ==
  \A r \in replies : Exists(r.quote)

IInv ==
  /\ TypeOK /\ HandlersFit /\ ActionsAdmitted /\ IdsAreOwned /\ NoncesAreOwned
  /\ RepliesAreKept /\ OnlyGenuineTracked /\ ReviewIsExplained /\ ExactLocationStays

-----------------------------------------------------------------------------
(* Records                                                                 *)

\* A worker's step tells what it holds.
LEMMA Kinds ==
  ASSUME NEW h \in Handler \cup {Idle}
  PROVE  /\ h.at = "idle" => h = Idle
         /\ h.at = "log_created" => h \in Creating
         /\ h.at = "write" => h \in Editing
         /\ h.at = "log_location" => h \in Locating
         /\ h.at \in SubmitSteps => h \in Submitting
         /\ h.at = "log_status" => h \in Closing
         /\ h.at \in ActionSteps => h \in Acting
  BY DEF SubmitSteps, ActionSteps, Handler, Idle, Creating, Editing, Locating, Submitting,
         Closing, Acting

LEMMA KindsAreHandlers ==
  /\ Serving \subseteq Handler \cup {Idle}
  /\ Creating \subseteq Serving /\ Editing \subseteq Serving /\ Locating \subseteq Serving
  /\ Submitting \subseteq Serving /\ Closing \subseteq Serving /\ Acting \subseteq Handler
  BY DEF Handler, Serving, Creating, Editing, Locating, Submitting, Closing, Acting

\* Going to another step keeps everything else.
LEMMA SubmittingGoes ==
  ASSUME NEW h \in Submitting, NEW step \in SubmitSteps
  PROVE  LET g == [h EXCEPT !.at = step] IN
         /\ g \in Submitting /\ g.at = step
         /\ g.account = h.account /\ g.quote = h.quote /\ g.row = h.row
  BY DEF Submitting, SubmitSteps

LEMMA ActingGoes ==
  ASSUME NEW h \in Acting, NEW step \in ActionSteps
  PROVE  LET g == [h EXCEPT !.at = step] IN
         g \in Acting /\ g.at = step /\ g.envelope = h.envelope
  BY DEF Acting, ActionSteps

\* What update stores is a row with the status it was given.  Its exact
\* location is null only if both were, and where the two rows agree on a
\* column, or the new one has something there, it is the new one's.
LEMMA StoredRow ==
  ASSUME NEW old \in Row, NEW row \in Row
  PROVE  /\ Stored(old, row) \in Row
         /\ Stored(old, row).status = row.status
         /\ Stored(old, row).columns["exact_location"] = Null =>
              old.columns["exact_location"] = Null /\ row.columns["exact_location"] = Null
         /\ \A c \in Column : row.columns[c] = old.columns[c] \/ row.columns[c] # Null =>
              Stored(old, row).columns[c] = row.columns[c]
  <1> DEFINE kept == [c \in Column |->
               IF c \in Encrypted /\ row.columns[c] = Null THEN old.columns[c]
               ELSE row.columns[c]]
  <1>1. /\ kept \in [Column -> Text \cup {Empty, Unknown, Null}]
        /\ kept["exact_location"] = Null =>
             old.columns["exact_location"] = Null /\ row.columns["exact_location"] = Null
        /\ \A c \in Column : row.columns[c] = old.columns[c] \/ row.columns[c] # Null =>
             kept[c] = row.columns[c]
    BY DEF Row, Encrypted, Column
  <1>2. Stored(old, row) = [row EXCEPT !.account_id = old.account_id, !.columns = kept]
    BY DEF Stored
  <1> HIDE DEF kept
  <1>3. /\ Stored(old, row) \in Row /\ Stored(old, row).status = row.status
        /\ Stored(old, row).columns = kept
    BY <1>1, <1>2 DEF Row
  <1> QED
    BY <1>1, <1>3

\* A row is not the absence of one.
LEMMA RowExists == \A row \in Row : row # NoQuote
  BY DEF Row, NoQuote

\* A row keeps its type when its status moves, and nothing else does.
LEMMA StatusRow ==
  ASSUME NEW row \in Row,
         NEW status \in {"draft", "submitted", "needs_review", "reviewing"}
  PROVE  LET new == [row EXCEPT !.status = status] IN
         /\ new \in Row /\ new.status = status
         /\ new.columns = row.columns
  BY DEF Row

-----------------------------------------------------------------------------
(* What steps have in common                                               *)

LEMMA InvInit == Init => IInv
  <1> SUFFICES ASSUME Init PROVE IInv
    OBVIOUS
  <1>1. TypeOK
    BY DEF Init, TypeOK
  <1>2. \A q \in Quote : ~Exists(q)
    BY DEF Init, Exists
  <1>3. HandlersFit /\ ActionsAdmitted /\ IdsAreOwned /\ NoncesAreOwned
    BY DEF Init, Idle, HandlersFit, Fits, ActionsAdmitted, IdsAreOwned, NoncesAreOwned,
           SubmitSteps, RowSteps, QuoteSteps, ActionSteps, IdSteps, NonceSteps
  <1>4. RepliesAreKept /\ OnlyGenuineTracked /\ ReviewIsExplained /\ ExactLocationStays
    BY <1>2 DEF Init, RepliesAreKept, OnlyGenuineTracked, ReviewIsExplained, ExactLocationStays
  <1> QED
    BY <1>1, <1>3, <1>4 DEF IInv

\* A worker that enters a step leaves the others where they are.
LEMMA Entering ==
  ASSUME TypeOK, NEW w \in Worker, NEW g \in Handler \cup {Idle}, Enters(w, g)
  PROVE  /\ handler' \in [Worker -> Handler \cup {Idle}]
         /\ handler'[w] = g
         /\ \A v \in Worker \ {w} : handler'[v] = handler[v]
  BY DEF TypeOK, Enters

\* Rows are never lost, locations neither, nor what was applied.
Grows ==
  /\ \A q \in Quote : Exists(q) =>
       /\ Exists(q)'
       /\ quotes[q].columns["exact_location"] # Null =>
            quotes'[q].columns["exact_location"] # Null
  /\ applied \subseteq applied'

\* What fits goes on fitting.
LEMMA FitsOn ==
  ASSUME Grows, NEW h \in Handler \cup {Idle}, Fits(h)
  PROVE  Fits(h)'
  <1>1. \A q \in Quote : Explained(q) => Explained(q)'
    BY DEF Grows, Explained
  <1>2. h.at \in QuoteSteps => h.quote \in Quote
    BY Kinds DEF QuoteSteps, RowSteps, Editing, Locating, Submitting, Closing
  <1>3. h.at \in RowSteps \cup {"log_location"} => h.at \in QuoteSteps
    BY DEF QuoteSteps
  <1> QED
    BY <1>1, <1>2, <1>3 DEF Grows, Fits

LEMMA FitStep ==
  ASSUME IInv, Grows, NEW w \in Worker, NEW g \in Handler \cup {Idle}, Enters(w, g), Fits(g)'
  PROVE  HandlersFit'
  <1> SUFFICES ASSUME NEW v \in Worker PROVE Fits(handler[v])'
    BY DEF HandlersFit
  <1>1. /\ handler'[w] = g
        /\ \A u \in Worker \ {w} : handler'[u] = handler[u]
    BY Entering DEF IInv
  <1>2. CASE v = w
    BY <1>1, <1>2 DEF Fits
  <1>3. CASE v # w
    <2>1. handler[v] \in Handler \cup {Idle} /\ Fits(handler[v])
      BY DEF IInv, TypeOK, HandlersFit
    <2> QED
      BY <1>1, <1>3, <2>1, FitsOn DEF Fits
  <1> QED
    BY <1>2, <1>3

\* Steps that leave the keys alone, and let a worker own nothing it did not.
LEMMA KeysStep ==
  ASSUME IInv, NEW w \in Worker, NEW g \in Handler \cup {Idle}, Enters(w, g),
         UNCHANGED <<tracked, nonces, applied>>,
         g.at \in ActionSteps =>
           g.envelope \in Genuine /\ g.envelope.device_id \in TrustedDevice,
         g.at \in IdSteps => handler[w].at \in IdSteps /\ g.envelope = handler[w].envelope,
         g.at \in NonceSteps => handler[w].at \in NonceSteps
  PROVE  ActionsAdmitted' /\ IdsAreOwned' /\ NoncesAreOwned' /\ OnlyGenuineTracked'
  <1>1. /\ handler'[w] = g
        /\ \A v \in Worker \ {w} : handler'[v] = handler[v]
    BY Entering DEF IInv
  <1>2. ActionsAdmitted'
    BY <1>1 DEF IInv, ActionsAdmitted, NonceOf
  <1>3. IdsAreOwned'
    BY <1>1 DEF IInv, IdsAreOwned
  <1>4. g.at \in NonceSteps => g.at \in IdSteps
    BY DEF NonceSteps, IdSteps
  <1>5. NoncesAreOwned'
    BY <1>1, <1>4 DEF IInv, NoncesAreOwned, NonceOf
  <1>6. OnlyGenuineTracked'
    BY DEF IInv, OnlyGenuineTracked, NonceOf
  <1> QED
    BY <1>2, <1>3, <1>5, <1>6

\* Steps that leave the quotes alone.
LEMMA SameQuotes ==
  ASSUME IInv, UNCHANGED <<quotes, applied>>
  PROVE  Grows /\ ReviewIsExplained' /\ (RepliesAreKept /\ ExactLocationStays
           /\ UNCHANGED replies => RepliesAreKept' /\ ExactLocationStays')
  BY DEF IInv, Grows, Exists, ReviewIsExplained, RepliesAreKept, ExactLocationStays

\* An update of a quote that exists, with a row that an action explains.
LEMMA UpdateStep ==
  ASSUME IInv, NEW q \in Quote, Exists(q), NEW row \in Row, Update(q, row),
         UNCHANGED applied, row.status = "reviewing" => Explained(q)
  PROVE  /\ quotes' \in [Quote -> Row \cup {NoQuote}]
         /\ quotes'[q] = Stored(quotes[q], row)
         /\ Grows /\ ReviewIsExplained'
  <1>1. quotes \in [Quote -> Row \cup {NoQuote}] /\ quotes[q] \in Row
    BY DEF IInv, TypeOK, Exists
  <1> DEFINE new == Stored(quotes[q], row)
  <1>2. /\ new \in Row /\ new.status = row.status /\ new # NoQuote
        /\ quotes[q].columns["exact_location"] # Null => new.columns["exact_location"] # Null
    BY <1>1, StoredRow, RowExists
  <1>3. quotes' = [quotes EXCEPT ![q] = new]
    BY DEF Update
  <1> HIDE DEF new
  <1>4. quotes' \in [Quote -> Row \cup {NoQuote}] /\ quotes'[q] = new
        /\ \A p \in Quote \ {q} : quotes'[p] = quotes[p]
    BY <1>1, <1>2, <1>3
  <1>5. Grows
    BY <1>2, <1>4 DEF Grows, Exists
  <1>6. ReviewIsExplained'
    <2>1. \A p \in Quote : Explained(p) => Explained(p)'
      BY DEF Explained
    <2> QED
      BY <1>2, <1>4, <2>1 DEF IInv, ReviewIsExplained, Exists, Explained
  <1> QED
    BY <1>4, <1>5, <1>6 DEF new

\* Replies stay true when nothing is lost, a new one if it is true.
LEMMA RepliesStep ==
  ASSUME IInv, Grows,
         \A r \in replies' \ replies :
           /\ r \in Reply /\ Exists(r.quote)'
           /\ r.kind = "location" => quotes'[r.quote].columns["exact_location"] # Null
  PROVE  replies' \subseteq Reply /\ RepliesAreKept' /\ ExactLocationStays'
  <1>1. \A r \in Reply : r.quote \in Quote
    BY DEF Reply
  <1>2. replies \subseteq Reply /\ RepliesAreKept /\ ExactLocationStays
    BY DEF IInv, TypeOK
  <1>3. \A r \in replies : r.quote \in Quote /\ Exists(r.quote)
    BY <1>1, <1>2 DEF RepliesAreKept
  <1> QED
    BY <1>2, <1>3 DEF Grows, RepliesAreKept, ExactLocationStays

\* The log stays a log.
LEMMA LogType ==
  ASSUME TypeOK, NEW q \in Quote, NEW type \in EventType, Log(q, type)
  PROVE  events' \in [Quote -> SUBSET EventType]
  BY DEF TypeOK, Log

\* A worker that is not in the middle of anything fits, and owns nothing.
LEMMA IdleFits == Fits(Idle)' /\ Idle.at \notin ActionSteps /\ Idle.at = "idle"
  BY DEF Fits, Idle, SubmitSteps, RowSteps, QuoteSteps, ActionSteps

\* The steps of a customer's request are not those of an action, ...
LEMMA StepNames ==
  /\ \A x \in {"log_created"} \cup QuoteSteps : x \notin ActionSteps
  /\ IdSteps \subseteq ActionSteps /\ NonceSteps \subseteq IdSteps
  /\ "log_created" \notin QuoteSteps
  BY DEF SubmitSteps, RowSteps, QuoteSteps, ActionSteps, IdSteps, NonceSteps

\* ... so that customers disturb no action.
LEMMA CustomerKeys ==
  ASSUME IInv, NEW w \in Worker,
         NEW g \in Serving, Enters(w, g),
         UNCHANGED <<tracked, nonces, applied>>
  PROVE  /\ handler' \in [Worker -> Handler \cup {Idle}]
         /\ tracked' \subseteq ActionId
         /\ nonces' \subseteq {NonceOf(e) : e \in Envelope}
         /\ applied' \subseteq {e \in Envelope : e.action_id \in tracked'}
         /\ ActionsAdmitted' /\ IdsAreOwned' /\ NoncesAreOwned' /\ OnlyGenuineTracked'
  <1>1. g \in Handler \cup {Idle}
    BY KindsAreHandlers
  <1>2. g.at \notin ActionSteps
    BY DEF Serving, Creating, Editing, Locating, Submitting, Closing, Idle, ActionSteps
  <1>3. ActionsAdmitted' /\ IdsAreOwned' /\ NoncesAreOwned' /\ OnlyGenuineTracked'
    BY <1>1, <1>2, StepNames, KeysStep
  <1> QED
    BY <1>1, <1>3, Entering DEF IInv, TypeOK

-----------------------------------------------------------------------------
(* A customer's requests                                                   *)

LEMMA StartStep ==
  ASSUME IInv, NEW w \in Worker, NEW q \in Quote, NEW lane \in BOOLEAN, StartQuote(w, q, lane)
  PROVE  IInv'
  <1> DEFINE g == [at |-> "log_created", quote |-> q]
             row == NewQuote(lane)
  <1>1. g \in Creating /\ Enters(w, g)
        /\ UNCHANGED <<events, tracked, nonces, applied, replies>>
    BY DEF StartQuote, Creating
  <1>2. Fits(g)'
    BY DEF Fits, SubmitSteps, RowSteps, QuoteSteps
  <1> HIDE DEF g
  <1>3. row \in Row /\ row.status = "draft"
    BY DEF NewQuote, Row
  <1>4. quotes' = [quotes EXCEPT ![q] = row] /\ ~Exists(q)
    BY DEF StartQuote, Insert
  <1> HIDE DEF row
  <1>5. /\ quotes' \in [Quote -> Row \cup {NoQuote}] /\ quotes'[q] = row
        /\ \A p \in Quote \ {q} : quotes'[p] = quotes[p]
    BY <1>3, <1>4 DEF IInv, TypeOK
  <1>6. Grows
    BY <1>1, <1>4, <1>5 DEF Grows, Exists
  <1>7. ReviewIsExplained'
    BY <1>1, <1>3, <1>5 DEF IInv, ReviewIsExplained, Exists
  <1>8. HandlersFit'
    BY <1>1, <1>2, <1>6, FitStep, KindsAreHandlers
  <1>9. replies' \subseteq Reply /\ RepliesAreKept' /\ ExactLocationStays'
    BY <1>1, <1>6, RepliesStep
  <1>10. events' \in [Quote -> SUBSET EventType]
    BY <1>1 DEF IInv, TypeOK
  <1> QED
    BY <1>1, <1>5, <1>7, <1>8, <1>9, <1>10, CustomerKeys, KindsAreHandlers DEF IInv, TypeOK

\* A customer's request that reads, logs, answers or stops, but writes no quote.
LEMMA QuietCustomer ==
  ASSUME IInv, NEW w \in Worker,
         NEW g \in Serving, Enters(w, g), Fits(g)',
         \A r \in replies' \ replies :
           /\ r \in Reply /\ Exists(r.quote)'
           /\ r.kind = "location" => quotes'[r.quote].columns["exact_location"] # Null,
         events' \in [Quote -> SUBSET EventType],
         UNCHANGED <<quotes, tracked, nonces, applied>>
  PROVE  IInv'
  <1>1. Grows /\ ReviewIsExplained'
    BY SameQuotes
  <1>2. g \in Handler \cup {Idle}
    BY KindsAreHandlers
  <1>3. HandlersFit'
    BY <1>1, <1>2, FitStep
  <1>4. replies' \subseteq Reply /\ RepliesAreKept' /\ ExactLocationStays'
    BY <1>1, RepliesStep
  <1>5. quotes' \in [Quote -> Row \cup {NoQuote}]
    BY DEF IInv, TypeOK
  <1> QED
    BY <1>1, <1>3, <1>4, <1>5, CustomerKeys DEF IInv, TypeOK

\* What a worker at a step holds.
LEMMA Holding ==
  ASSUME IInv, NEW w \in Worker
  PROVE  /\ handler[w] \in Handler \cup {Idle} /\ Fits(handler[w])
         /\ At(w, "log_created") => handler[w] \in Creating
         /\ handler[w].at = "write" => handler[w] \in Editing
         /\ handler[w].at = "log_location" => handler[w] \in Locating
         /\ handler[w].at \in SubmitSteps => handler[w] \in Submitting
         /\ handler[w].at = "log_status" => handler[w] \in Closing
         /\ handler[w].at \in ActionSteps => handler[w] \in Acting
  <1>1. handler[w] \in Handler \cup {Idle} /\ Fits(handler[w])
    BY DEF IInv, TypeOK, HandlersFit
  <1> QED
    BY <1>1, Kinds DEF At

\* Goes is an Enters.
LEMMA Going ==
  ASSUME IInv, NEW w \in Worker, NEW step, Goes(w, step)
  PROVE  Enters(w, [handler[w] EXCEPT !.at = step])
  BY DEF Goes, Enters, IInv, TypeOK

\* A handler that has read the row of its quote holds it as it is.
LEMMA ReadStep ==
  ASSUME IInv, NEW w \in Worker, NEW q \in Quote, Exists(q),
         NEW g \in Editing \cup Submitting, Enters(w, g),
         g.at \in {"write", "submit"}, g.quote = q, g.row = quotes[q],
         UNCHANGED <<quotes, events, tracked, nonces, applied, replies>>
  PROVE  IInv'
  <1>1. quotes[q].status = "reviewing" => Explained(q)
    BY DEF IInv, ReviewIsExplained, Explained
  <1>2. Fits(g)'
    BY <1>1 DEF Fits, QuoteSteps, Exists, Explained
  <1>3. events' \in [Quote -> SUBSET EventType]
    BY DEF IInv, TypeOK
  <1> QED
    BY <1>2, <1>3, KindsAreHandlers, QuietCustomer

LEMMA ReadEditStep ==
  ASSUME IInv, NEW w \in Worker, NEW q \in Quote, NEW form \in Form, ReadForEdit(w, q, form)
  PROVE  IInv'
  <1>1. quotes[q] \in Row
    BY DEF ReadForEdit, IInv, TypeOK, Exists
  <1>2. PICK g \in Editing :
          /\ g = [at |-> "write", form |-> form, quote |-> q, row |-> quotes[q]]
          /\ g.at = "write" /\ g.quote = q /\ g.row = quotes[q]
    <2> DEFINE h == [at |-> "write", form |-> form, quote |-> q, row |-> quotes[q]]
    <2>1. h \in Editing
      BY <1>1 DEF Editing
    <2> QED
      BY <2>1
  <1> QED
    BY <1>2, ReadStep DEF ReadForEdit

LEMMA ReadSubmitStep ==
  ASSUME IInv, NEW w \in Worker, NEW q \in Quote, NEW a \in Account, ReadForSubmit(w, q, a)
  PROVE  IInv'
  <1>1. quotes[q] \in Row
    BY DEF ReadForSubmit, IInv, TypeOK, Exists
  <1>2. PICK g \in Submitting :
          /\ g = [at |-> "submit", account |-> a, quote |-> q, row |-> quotes[q]]
          /\ g.at = "submit" /\ g.quote = q /\ g.row = quotes[q]
    <2> DEFINE h == [at |-> "submit", account |-> a, quote |-> q, row |-> quotes[q]]
    <2>1. h \in Submitting
      BY <1>1 DEF Submitting
    <2> QED
      BY <2>1
  <1> QED
    BY <1>2, ReadStep DEF ReadForSubmit

\* The step that logs a request's event, or its end, wherever it ends.
LEMMA EndStep ==
  ASSUME IInv, NEW w \in Worker, Enters(w, Idle), UNCHANGED <<quotes, tracked, nonces, applied>>,
         events' \in [Quote -> SUBSET EventType],
         \A r \in replies' \ replies :
           /\ r \in Reply /\ Exists(r.quote)
           /\ r.kind = "location" => quotes[r.quote].columns["exact_location"] # Null
  PROVE  IInv'
  <1>1. \A r \in replies' \ replies :
          /\ r \in Reply /\ Exists(r.quote)'
          /\ r.kind = "location" => quotes'[r.quote].columns["exact_location"] # Null
    BY DEF Exists
  <1>2. PICK g \in Serving : g = Idle
    BY DEF Serving
  <1>3. Enters(w, g) /\ Fits(g)'
    BY <1>2, IdleFits
  <1> QED
    BY <1>1, <1>3, QuietCustomer

LEMMA LogSteps ==
  ASSUME IInv, NEW w \in Worker,
         LogCreated(w) \/ LogLocation(w) \/ LogNeedsReview(w) \/ LogReview(w) \/ Fail(w)
  PROVE  IInv'
  <1>1. TypeOK
    BY DEF IInv
  <1>2. CASE LogCreated(w)
    <2>1. handler[w].quote \in Quote
      BY <1>2, Holding DEF LogCreated, Creating
    <2>2. events' \in [Quote -> SUBSET EventType]
      BY <1>1, <1>2, <2>1, LogType DEF LogCreated, EventType
    <2> QED
      BY <1>2, <2>2, EndStep DEF LogCreated
  <1>3. CASE LogLocation(w)
    <2>1. handler[w].quote \in Quote /\ Fits(handler[w]) /\ handler[w].at = "log_location"
      BY <1>3, Holding DEF LogLocation, At, Locating
    <2>2. /\ Exists(handler[w].quote)
          /\ quotes[handler[w].quote].columns["exact_location"] # Null
      BY <2>1 DEF Fits, QuoteSteps
    <2>3. events' \in [Quote -> SUBSET EventType]
      BY <1>1, <1>3, <2>1, LogType DEF LogLocation, EventType
    <2>4. \A r \in replies' \ replies : r = [kind |-> "location", quote |-> handler[w].quote]
      BY <1>3 DEF LogLocation, Answer
    <2>5. [kind |-> "location", quote |-> handler[w].quote] \in Reply
      BY <2>1 DEF Reply
    <2> QED
      BY <1>3, <2>2, <2>3, <2>4, <2>5, EndStep DEF LogLocation
  <1>4. CASE LogNeedsReview(w)
    <2>1. /\ handler[w] \in Closing /\ Fits(handler[w]) /\ handler[w].at = "log_status"
      BY <1>4, Holding DEF LogNeedsReview, At
    <2>2. Exists(handler[w].quote) /\ handler[w].quote \in Quote
      BY <2>1 DEF Fits, QuoteSteps, Closing
    <2>3. events' \in [Quote -> SUBSET EventType]
      BY <1>1, <1>4, <2>2, LogType DEF LogNeedsReview, EventType
    <2>4. \A r \in replies' \ replies : r = Submitted(handler[w])
      BY <1>4 DEF LogNeedsReview, Answer
    <2>5. /\ Submitted(handler[w]) \in Reply
          /\ Submitted(handler[w]).quote = handler[w].quote
          /\ Submitted(handler[w]).kind = "submit"
      BY <2>1 DEF Reply, Submitted, Closing
    <2> QED
      BY <1>4, <2>2, <2>3, <2>4, <2>5, EndStep DEF LogNeedsReview
  <1>5. CASE LogReview(w)
    <2>1. handler[w].envelope.aggregate_id \in Quote
      BY <1>5, Holding DEF LogReview, At, Fits
    <2>2. events' \in [Quote -> SUBSET EventType]
      BY <1>1, <1>5, <2>1, LogType DEF LogReview, EventType
    <2> QED
      BY <1>5, <2>2, EndStep DEF LogReview
  <1>6. CASE Fail(w)
    <2>1. events' \in [Quote -> SUBSET EventType]
      BY <1>1, <1>6 DEF Fail, TypeOK
    <2> QED
      BY <1>6, <2>1, EndStep DEF Fail
  <1> QED
    BY <1>2, <1>3, <1>4, <1>5, <1>6

LEMMA LogSubmittedStep ==
  ASSUME IInv, NEW w \in Worker, LogSubmitted(w)
  PROVE  IInv'
  <1>1. /\ handler[w] \in Submitting /\ Fits(handler[w]) /\ handler[w].at = "log_submitted"
    BY Holding DEF LogSubmitted, At, SubmitSteps
  <1>2. /\ Exists(handler[w].quote) /\ handler[w].quote \in Quote
        /\ handler[w].row.status = "reviewing" => Explained(handler[w].quote)
    BY <1>1 DEF Fits, RowSteps, QuoteSteps, SubmitSteps, Submitting
  <1>3. PICK g \in Submitting :
          /\ g = [handler[w] EXCEPT !.at = "advance"]
          /\ g.at = "advance" /\ g.quote = handler[w].quote /\ g.row = handler[w].row
    <2>1. "advance" \in SubmitSteps
      BY DEF SubmitSteps
    <2> QED
      BY <1>1, <2>1, SubmittingGoes
  <1>4. Enters(w, g)
    BY <1>3, Going DEF LogSubmitted
  <1>5. Fits(g)'
    BY <1>2, <1>3 DEF LogSubmitted, Fits, QuoteSteps, Exists, Explained
  <1>6. events' \in [Quote -> SUBSET EventType]
    BY <1>2, LogType DEF LogSubmitted, EventType, IInv
  <1> QED
    BY <1>4, <1>5, <1>6, KindsAreHandlers, QuietCustomer DEF LogSubmitted

-----------------------------------------------------------------------------
(* Writes of a customer's request                                          *)

LEMMA WriteStep ==
  ASSUME IInv, NEW w \in Worker, NEW q \in Quote, Exists(q), NEW row \in Row, Update(q, row),
         row.status = "reviewing" => Explained(q),
         NEW g \in Serving, Enters(w, g), Fits(g)',
         \A r \in replies' \ replies : r \in Reply /\ r.quote = q /\ r.kind # "location",
         UNCHANGED <<events, tracked, nonces, applied>>
  PROVE  IInv'
  <1>1. /\ quotes' \in [Quote -> Row \cup {NoQuote}]
        /\ Grows /\ ReviewIsExplained'
    BY UpdateStep
  <1>2. g \in Handler \cup {Idle}
    BY KindsAreHandlers
  <1>3. HandlersFit'
    BY <1>1, <1>2, FitStep
  <1>4. Exists(q)'
    BY <1>1 DEF Grows
  <1>5. replies' \subseteq Reply /\ RepliesAreKept' /\ ExactLocationStays'
    <2>1. \A r \in replies' \ replies :
            /\ r \in Reply /\ Exists(r.quote)'
            /\ r.kind = "location" => quotes'[r.quote].columns["exact_location"] # Null
      BY <1>4 DEF Exists
    <2> QED
      BY <1>1, <2>1, RepliesStep
  <1>6. events' \in [Quote -> SUBSET EventType]
    BY DEF IInv, TypeOK
  <1> QED
    BY <1>1, <1>3, <1>5, <1>6, CustomerKeys DEF IInv, TypeOK

\* What a form says is something that a row can have, and never null.
LEMMA Saying ==
  ASSUME NEW form \in Form, NEW c \in DOMAIN form
  PROVE  Says(form, c) \in Text \cup {Empty, Unknown} /\ Says(form, c) # Null
  <1>1. form[c] \in Text \cup {Empty}
    BY HostedConstants
  <1>2. Null \notin Text /\ Null # Empty /\ Null # Unknown
    BY HostedConstants DEF Null, Empty, Unknown
  <1> QED
    BY <1>1, <1>2 DEF Says

\* A form for the location has an exact location.
LEMMA LocationForms ==
  ASSUME NEW form \in Form
  PROVE  /\ DOMAIN form \subseteq Column
         /\ ~IsAnswers(form) => "exact_location" \in DOMAIN form
  BY HostedConstants DEF IsAnswers, Column

\* An edit leaves the status of the row it read, and every column its form
\* does not have.
LEMMA EditedRow ==
  ASSUME NEW h \in Editing
  PROVE  /\ Edited(h) \in Row /\ Edited(h).status = h.row.status
         /\ \A c \in Column : Edited(h).columns[c] =
              IF c \in DOMAIN h.form THEN Says(h.form, c) ELSE h.row.columns[c]
  <1>1. h.row \in Row /\ h.form \in Form
    BY DEF Editing
  <1> DEFINE new == [c \in Column |->
               IF c \in DOMAIN h.form THEN Says(h.form, c) ELSE h.row.columns[c]]
  <1>2. new \in [Column -> Text \cup {Empty, Unknown, Null}]
    BY <1>1, Saying DEF Row
  <1>3. Edited(h) = [h.row EXCEPT !.columns = new]
    BY <1>1 DEF Edited, Row
  <1>4. \A c \in Column : new[c] =
          IF c \in DOMAIN h.form THEN Says(h.form, c) ELSE h.row.columns[c]
    OBVIOUS
  <1> HIDE DEF new
  <1>5. /\ Edited(h) \in Row /\ Edited(h).status = h.row.status
        /\ Edited(h).columns = new
    BY <1>1, <1>2, <1>3 DEF Row
  <1> QED
    BY <1>4, <1>5

LEMMA EditStep ==
  ASSUME IInv, NEW w \in Worker, WriteAnswers(w) \/ WriteLocation(w)
  PROVE  IInv'
  <1>1. /\ handler[w] \in Editing /\ Fits(handler[w]) /\ handler[w].at = "write"
    BY Holding DEF WriteAnswers, WriteLocation, At
  <1>2. PICK q \in Quote, form \in Form : q = handler[w].quote /\ form = handler[w].form
    BY <1>1 DEF Editing
  <1>3. PICK row \in Row :
          /\ row = Edited(handler[w]) /\ row.status = handler[w].row.status
          /\ ~IsAnswers(form) => row.columns["exact_location"] # Null
    BY <1>1, <1>2, EditedRow, LocationForms, Saying
  <1>4. /\ Exists(q)
        /\ row.status = "reviewing" => Explained(q)
    BY <1>1, <1>2, <1>3 DEF Fits, RowSteps, QuoteSteps
  <1>5. Update(q, row) /\ UNCHANGED <<events, tracked, nonces, applied>>
    BY <1>2, <1>3 DEF WriteAnswers, WriteLocation
  <1>6. CASE WriteAnswers(w)
    <2>1. PICK g \in Serving : g = Idle
      BY DEF Serving
    <2>2. Enters(w, g) /\ Fits(g)'
      BY <1>6, <2>1, IdleFits DEF WriteAnswers
    <2>3. \A r \in replies' \ replies : r = [kind |-> "answers", quote |-> q]
      BY <1>2, <1>6 DEF WriteAnswers, Answer
    <2>4. \A r \in replies' \ replies : r \in Reply /\ r.quote = q /\ r.kind # "location"
      BY <2>3 DEF Reply
    <2> QED
      BY <1>4, <1>5, <2>2, <2>4, WriteStep
  <1>7. CASE WriteLocation(w)
    <2>1. PICK g \in Locating :
            /\ g = [at |-> "log_location", form |-> form, quote |-> q]
            /\ g.at = "log_location" /\ g.quote = q
      <3> DEFINE h == [at |-> "log_location", form |-> form, quote |-> q]
      <3>1. h \in Locating
        BY DEF Locating
      <3> QED
        BY <3>1
    <2>2. Enters(w, g)
      BY <1>2, <1>7, <2>1 DEF WriteLocation
    <2>3. quotes'[q] = Stored(quotes[q], row) /\ Grows
      BY <1>4, <1>5, UpdateStep
    <2>4. quotes[q] \in Row
      BY <1>4 DEF IInv, TypeOK, Exists
    <2>5. quotes'[q].columns["exact_location"] # Null
      BY <1>2, <1>3, <1>7, <2>3, <2>4, StoredRow DEF WriteLocation
    <2>6. Fits(g)'
      BY <1>4, <2>1, <2>3, <2>5 DEF Fits, Grows, RowSteps, SubmitSteps
    <2>7. replies' \ replies = {}
      BY <1>7 DEF WriteLocation
    <2> QED
      BY <1>4, <1>5, <2>2, <2>6, <2>7, KindsAreHandlers, WriteStep
  <1> QED
    BY <1>6, <1>7

\* The row of a quote that is submitted, and the handler that goes on with it.
LEMMA SubmittedRow ==
  ASSUME NEW row \in Row, NEW a \in Account
  PROVE  LET new == [row EXCEPT !.status = "submitted", !.account_id = a] IN
         new \in Row /\ new.status = "submitted"
  BY DEF Row

LEMMA SubmittingRow ==
  ASSUME NEW h \in Submitting, NEW row \in Row
  PROVE  LET g == [h EXCEPT !.at = "log_submitted", !.row = row] IN
         g \in Submitting /\ g.at = "log_submitted" /\ g.quote = h.quote /\ g.row = row
  BY DEF Submitting

\* What a submission that has gone to review still has to log.
ClosesAs(w, g) ==
  /\ g = [at |-> "log_status", account |-> handler[w].account, quote |-> handler[w].quote]
  /\ g.at = "log_status" /\ g.quote = handler[w].quote

LEMMA ClosingFollows ==
  ASSUME NEW w \in Worker, handler[w] \in Submitting
  PROVE  \E g \in Closing : ClosesAs(w, g)
  <1> DEFINE h == [at |-> "log_status", account |-> handler[w].account,
                   quote |-> handler[w].quote]
  <1>1. h \in Closing /\ ClosesAs(w, h)
    BY DEF Submitting, Closing, ClosesAs
  <1> QED
    BY <1>1

LEMMA SubmitStep ==
  ASSUME IInv, NEW w \in Worker, WriteSubmitted(w) \/ WriteNeedsReview(w)
  PROVE  IInv'
  <1>1. /\ handler[w] \in Submitting /\ Fits(handler[w])
        /\ handler[w].at \in {"submit", "advance"}
    BY Holding DEF WriteSubmitted, WriteNeedsReview, At, SubmitSteps
  <1>2. PICK q \in Quote, old \in Row : q = handler[w].quote /\ old = handler[w].row
    BY <1>1 DEF Submitting
  <1>3. Exists(q) /\ quotes[q] \in Row
    BY <1>1, <1>2 DEF Fits, SubmitSteps, RowSteps, QuoteSteps, IInv, TypeOK, Exists
  <1>4. UNCHANGED <<events, tracked, nonces, applied, replies>>
    BY DEF WriteSubmitted, WriteNeedsReview
  <1>5. CASE WriteSubmitted(w)
    <2>1. PICK row \in Row :
            /\ row = [old EXCEPT !.status = "submitted", !.account_id = handler[w].account]
            /\ row.status = "submitted"
      <3>1. handler[w].account \in Account
        BY <1>1 DEF Submitting
      <3> QED
        BY <3>1, SubmittedRow
    <2>2. Update(q, row)
      BY <1>2, <1>5, <2>1 DEF WriteSubmitted
    <2>3. PICK stored \in Row : stored = Stored(quotes[q], row) /\ stored.status = "submitted"
      <3>1. /\ Stored(quotes[q], row) \in Row
            /\ Stored(quotes[q], row).status = "submitted"
        BY <1>3, <2>1, StoredRow
      <3> QED
        BY <3>1
    <2>4. PICK g \in Submitting :
            /\ g = [handler[w] EXCEPT !.at = "log_submitted", !.row = stored]
            /\ g.at = "log_submitted" /\ g.quote = q /\ g.row = stored
      <3> DEFINE h == [handler[w] EXCEPT !.at = "log_submitted", !.row = stored]
      <3>1. /\ h \in Submitting /\ h.at = "log_submitted"
            /\ h.quote = handler[w].quote /\ h.row = stored
        BY <1>1, SubmittingRow
      <3> HIDE DEF h
      <3>2. \E g \in Submitting : /\ g = h
                                  /\ g.at = "log_submitted" /\ g.quote = q /\ g.row = stored
        BY <1>2, <3>1
      <3> QED
        BY <3>2 DEF h
    <2>5. Enters(w, g)
      BY <1>2, <1>5, <2>1, <2>3, <2>4 DEF WriteSubmitted
    <2>6. Exists(q)'
      BY <1>3, <1>4, <2>1, <2>2, UpdateStep DEF Grows
    <2>7. Fits(g)'
      BY <2>3, <2>4, <2>6 DEF Fits
    <2> QED
      BY <1>3, <1>4, <2>1, <2>2, <2>5, <2>7, KindsAreHandlers, WriteStep
  <1>6. CASE WriteNeedsReview(w)
    <2>1. PICK row \in Row : row = [old EXCEPT !.status = "needs_review"]
                             /\ row.status = "needs_review"
      BY StatusRow
    <2>2. Update(q, row)
      BY <1>2, <1>6, <2>1 DEF WriteNeedsReview
    <2>3. PICK g \in Closing : ClosesAs(w, g)
      BY <1>1, ClosingFollows
    <2>4. Enters(w, g) /\ g.at = "log_status" /\ g.quote = q
      BY <1>2, <1>6, <2>3 DEF WriteNeedsReview, ClosesAs
    <2>5. Exists(q)'
      BY <1>3, <1>4, <2>1, <2>2, UpdateStep DEF Grows
    <2>6. Fits(g)'
      BY <2>4, <2>5 DEF Fits, RowSteps, SubmitSteps
    <2> QED
      BY <1>3, <1>4, <2>1, <2>2, <2>4, <2>6, KindsAreHandlers, WriteStep
  <1> QED
    BY <1>5, <1>6

-----------------------------------------------------------------------------
(* Signed actions                                                          *)

\* A step of an action that leaves quotes, log and replies alone.
LEMMA QuietAction ==
  ASSUME IInv, NEW w \in Worker, NEW g \in Acting \cup {Idle}, Enters(w, g), Fits(g)',
         UNCHANGED <<quotes, events, applied, replies>>,
         tracked' \subseteq ActionId, tracked \subseteq tracked',
         nonces' \subseteq {NonceOf(e) : e \in Envelope},
         ActionsAdmitted', IdsAreOwned', NoncesAreOwned', OnlyGenuineTracked'
  PROVE  IInv'
  <1>1. Grows /\ ReviewIsExplained' /\ RepliesAreKept' /\ ExactLocationStays'
    BY SameQuotes DEF IInv
  <1>2. g \in Handler \cup {Idle}
    BY KindsAreHandlers
  <1>3. HandlersFit' /\ handler' \in [Worker -> Handler \cup {Idle}]
    BY <1>1, <1>2, FitStep, Entering DEF IInv
  <1>4. TypeOK'
    BY <1>3 DEF IInv, TypeOK
  <1> QED
    BY <1>1, <1>3, <1>4 DEF IInv

\* What a worker that carries out an action holds.
LEMMA Carrying ==
  ASSUME IInv, NEW w \in Worker, handler[w].at \in ActionSteps
  PROVE  /\ handler[w] \in Acting
         /\ handler[w].envelope \in Envelope /\ handler[w].envelope \in Genuine
         /\ handler[w].envelope.device_id \in TrustedDevice
  BY Holding DEF IInv, ActionsAdmitted, Acting

LEMMA VerifyStep ==
  ASSUME IInv, NEW w \in Worker, NEW e \in Envelope, VerifyAction(w, e)
  PROVE  IInv'
  <1>1. PICK g \in Acting : /\ g = [at |-> "track_action", envelope |-> e]
                            /\ g.at = "track_action" /\ g.envelope = e
    <2> DEFINE h == [at |-> "track_action", envelope |-> e]
    <2>1. h \in Acting
      BY DEF Acting
    <2> QED
      BY <2>1
  <1>2. /\ Enters(w, g) /\ e \in Genuine /\ e.device_id \in TrustedDevice
        /\ UNCHANGED <<quotes, events, tracked, nonces, applied, replies>>
    BY <1>1 DEF VerifyAction, Admissible
  <1>3. Fits(g)'
    BY <1>1 DEF Fits, SubmitSteps, RowSteps, QuoteSteps
  <1>4. g \in Handler \cup {Idle}
    BY KindsAreHandlers
  <1>5. ActionsAdmitted' /\ IdsAreOwned' /\ NoncesAreOwned' /\ OnlyGenuineTracked'
    BY <1>1, <1>2, <1>4, KeysStep DEF IdSteps, NonceSteps
  <1> QED
    BY <1>2, <1>3, <1>5, QuietAction DEF IInv, TypeOK

\* Inserting a key that is there ends the handler; a new one lets it go on.
LEMMA Inserting ==
  ASSUME IInv, NEW w \in Worker, handler[w].at \in ActionSteps,
         NEW key, NEW table, NEW next \in ActionSteps, Inserts(w, key, table, next)
  PROVE  \/ key \in table /\ Enters(w, Idle)
         \/ /\ key \notin table
            /\ \E g \in Acting : /\ Enters(w, g)
                                 /\ g.at = next /\ g.envelope = handler[w].envelope
  <1>1. CASE key \in table
    BY <1>1 DEF Inserts
  <1>2. CASE key \notin table
    <2>1. Enters(w, [handler[w] EXCEPT !.at = next])
      BY <1>2 DEF Inserts
    <2>2. handler[w] \in Acting
      BY Carrying
    <2> QED
      BY <1>2, <2>1, <2>2, ActingGoes
  <1> QED
    BY <1>1, <1>2

\* A handler that ends while its key was there already.
LEMMA DuplicateStep ==
  ASSUME IInv, NEW w \in Worker, Enters(w, Idle),
         UNCHANGED <<quotes, events, tracked, nonces, applied, replies>>
  PROVE  IInv'
  BY EndStep DEF IInv, TypeOK

LEMMA TrackActionStep ==
  ASSUME IInv, NEW w \in Worker, TrackAction(w)
  PROVE  IInv'
  <1>1. PICK e \in Genuine :
          e = handler[w].envelope /\ e \in Envelope /\ e.device_id \in TrustedDevice
    BY Carrying DEF TrackAction, At, ActionSteps
  <1>2. handler[w].at = "track_action" /\ handler[w].at \in ActionSteps
    BY DEF TrackAction, At, ActionSteps
  <1>3. /\ tracked' = tracked \cup {e.action_id}
        /\ UNCHANGED <<quotes, events, nonces, applied, replies>>
    BY <1>1 DEF TrackAction
  <1>4. CASE e.action_id \in tracked /\ Enters(w, Idle)
    <2>1. tracked' = tracked
      BY <1>3, <1>4
    <2> QED
      BY <1>3, <1>4, <2>1, DuplicateStep
  <1>5. ASSUME e.action_id \notin tracked,
               NEW g \in Acting, Enters(w, g), g.at = "track_nonce", g.envelope = e
        PROVE  IInv'
    <2>1. /\ handler'[w] = g
          /\ \A v \in Worker \ {w} : handler'[v] = handler[v]
      BY <1>5, Entering, KindsAreHandlers DEF IInv
    <2>2. Fits(g)'
      BY <1>5 DEF Fits, SubmitSteps, RowSteps, QuoteSteps
    <2>3. ActionsAdmitted'
      BY <1>1, <1>3, <1>5, <2>1 DEF IInv, ActionsAdmitted, NonceOf
    <2>4. IdsAreOwned'
      <3>1. \A f \in applied : f.action_id # e.action_id
        BY <1>5 DEF IInv, ActionsAdmitted
      <3>2. \A v \in Worker : handler[v].at \in IdSteps =>
              handler[v].envelope.action_id # e.action_id
        BY <1>5 DEF IInv, IdsAreOwned
      <3> QED
        BY <1>3, <1>5, <2>1, <3>1, <3>2 DEF IInv, IdsAreOwned
    <2>5. NoncesAreOwned'
      BY <1>3, <1>5, <2>1 DEF IInv, NoncesAreOwned, NonceOf, NonceSteps
    <2>6. OnlyGenuineTracked'
      BY <1>1, <1>3 DEF IInv, OnlyGenuineTracked, NonceOf
    <2>7. tracked' \subseteq ActionId /\ nonces' \subseteq {NonceOf(f) : f \in Envelope}
      BY <1>1, <1>3 DEF IInv, TypeOK, ActionId, NonceOf
    <2> QED
      BY <1>3, <1>5, <2>2, <2>3, <2>4, <2>5, <2>6, <2>7, QuietAction
  <1>6. Inserts(w, e.action_id, tracked, "track_nonce") /\ "track_nonce" \in ActionSteps
    BY <1>1 DEF TrackAction, ActionSteps
  <1> QED
    BY <1>1, <1>2, <1>4, <1>5, <1>6, Inserting

LEMMA TrackNonceStep ==
  ASSUME IInv, NEW w \in Worker, TrackNonce(w)
  PROVE  IInv'
  <1>1. PICK e \in Genuine :
          e = handler[w].envelope /\ e \in Envelope /\ e.device_id \in TrustedDevice
    BY Carrying DEF TrackNonce, At, ActionSteps
  <1>2. handler[w].at = "track_nonce" /\ handler[w].at \in ActionSteps
    BY DEF TrackNonce, At, ActionSteps
  <1>3. /\ nonces' = nonces \cup {NonceOf(e)}
        /\ UNCHANGED <<quotes, events, tracked, applied, replies>>
    BY <1>1 DEF TrackNonce
  <1>4. CASE NonceOf(e) \in nonces /\ Enters(w, Idle)
    <2>1. nonces' = nonces
      BY <1>3, <1>4
    <2> QED
      BY <1>3, <1>4, <2>1, DuplicateStep
  <1>5. ASSUME NonceOf(e) \notin nonces,
               NEW g \in Acting, Enters(w, g), g.at = "read", g.envelope = e
        PROVE  IInv'
    <2>1. /\ handler'[w] = g
          /\ \A v \in Worker \ {w} : handler'[v] = handler[v]
      BY <1>5, Entering, KindsAreHandlers DEF IInv
    <2>2. Fits(g)'
      BY <1>5 DEF Fits, SubmitSteps, RowSteps, QuoteSteps
    <2>3. ActionsAdmitted'
      BY <1>1, <1>3, <1>5, <2>1 DEF IInv, ActionsAdmitted, NonceOf
    <2>4. IdsAreOwned'
      BY <1>1, <1>2, <1>3, <1>5, <2>1 DEF IInv, IdsAreOwned, IdSteps
    <2>5. NoncesAreOwned'
      <3>1. \A f \in applied : NonceOf(f) # NonceOf(e)
        BY <1>5 DEF IInv, ActionsAdmitted
      <3>2. \A v \in Worker : handler[v].at \in NonceSteps =>
              NonceOf(handler[v].envelope) # NonceOf(e)
        BY <1>5 DEF IInv, NoncesAreOwned
      <3> QED
        BY <1>3, <1>5, <2>1, <3>1, <3>2 DEF IInv, NoncesAreOwned, NonceOf
    <2>6. OnlyGenuineTracked'
      BY <1>1, <1>3 DEF IInv, OnlyGenuineTracked, NonceOf
    <2>7. tracked' \subseteq ActionId /\ nonces' \subseteq {NonceOf(f) : f \in Envelope}
      BY <1>1, <1>3 DEF IInv, TypeOK, ActionId, NonceOf
    <2> QED
      BY <1>3, <1>5, <2>2, <2>3, <2>4, <2>5, <2>6, <2>7, QuietAction
  <1>6. Inserts(w, NonceOf(e), nonces, "read") /\ "read" \in ActionSteps
    BY <1>1 DEF TrackNonce, ActionSteps
  <1> QED
    BY <1>1, <1>2, <1>4, <1>5, <1>6, Inserting

LEMMA ReadForReviewStep ==
  ASSUME IInv, NEW w \in Worker, ReadForReview(w)
  PROVE  IInv'
  <1>1. handler[w].at = "read" /\ handler[w].at \in ActionSteps
        /\ UNCHANGED <<quotes, events, tracked, nonces, applied, replies>>
    BY DEF ReadForReview, At, ActionSteps
  <1>2. CASE Enters(w, Idle)
    BY <1>1, <1>2, DuplicateStep
  <1>3. CASE /\ Reviewable(handler[w].envelope)
             /\ Enters(w, [handler[w] EXCEPT !.at = "set"])
    <2>1. PICK e \in Genuine :
            e = handler[w].envelope /\ e \in Envelope /\ e.device_id \in TrustedDevice
      BY <1>1, Carrying
    <2>2. PICK g \in Acting : Enters(w, g) /\ g.at = "set" /\ g.envelope = e
      <3>1. "set" \in ActionSteps /\ handler[w] \in Acting
        BY <1>1, Carrying DEF ActionSteps
      <3> QED
        BY <1>3, <2>1, <3>1, ActingGoes
    <2>3. Fits(g)'
      <3>1. e.aggregate_id \in Quote /\ Exists(e.aggregate_id)
        BY <1>3, <2>1 DEF Reviewable
      <3> QED
        BY <1>1, <2>2, <3>1 DEF Fits, Exists, SubmitSteps, RowSteps, QuoteSteps
    <2>4. g \in Handler \cup {Idle}
      BY KindsAreHandlers
    <2>5. ActionsAdmitted' /\ IdsAreOwned' /\ NoncesAreOwned' /\ OnlyGenuineTracked'
      BY <1>1, <2>1, <2>2, <2>4, KeysStep DEF IdSteps, NonceSteps
    <2> QED
      BY <1>1, <2>2, <2>3, <2>5, QuietAction DEF IInv, TypeOK
  <1> QED
    BY <1>2, <1>3 DEF ReadForReview

LEMMA SetStep ==
  ASSUME IInv, NEW w \in Worker, SetReviewing(w)
  PROVE  IInv'
  <1>1. PICK e \in Genuine :
          e = handler[w].envelope /\ e \in Envelope /\ e.device_id \in TrustedDevice
    BY Carrying DEF SetReviewing, At, ActionSteps
  <1>2. handler[w].at = "set" /\ handler[w].at \in ActionSteps
    BY DEF SetReviewing, At, ActionSteps
  <1>3. PICK q \in Quote : q = e.aggregate_id /\ Exists(q)
    BY <1>1, <1>2, Holding DEF Fits
  <1>4. /\ quotes' = [quotes EXCEPT ![q].status = "reviewing"]
        /\ applied' = applied \cup {e}
        /\ UNCHANGED <<events, tracked, nonces, replies>>
    BY <1>1, <1>3 DEF SetReviewing, UpdateStatus
  <1>5. quotes[q] \in Row
    BY <1>3 DEF IInv, TypeOK, Exists
  <1>6. PICK new \in Row :
          /\ new = [quotes[q] EXCEPT !.status = "reviewing"]
          /\ new.columns = quotes[q].columns /\ new # NoQuote
    <2>1. "reviewing" \in {"draft", "submitted", "needs_review", "reviewing"}
      OBVIOUS
    <2> QED
      BY <1>5, <2>1, StatusRow, RowExists
  <1>7. /\ quotes' \in [Quote -> Row \cup {NoQuote}] /\ quotes'[q] = new
        /\ \A p \in Quote \ {q} : quotes'[p] = quotes[p]
    BY <1>4, <1>6 DEF IInv, TypeOK
  <1>8. Grows
    BY <1>4, <1>6, <1>7 DEF Grows, Exists
  <1>9. ReviewIsExplained'
    <2>1. Explained(q)'
      BY <1>1, <1>3, <1>4 DEF Explained
    <2>2. \A p \in Quote : Explained(p) => Explained(p)'
      BY <1>4 DEF Explained
    <2> QED
      BY <1>7, <2>1, <2>2 DEF IInv, ReviewIsExplained, Exists, Explained
  <1>10. PICK g \in Acting : Enters(w, g) /\ g.at = "log_review" /\ g.envelope = e
    <2>1. "log_review" \in ActionSteps /\ handler[w] \in Acting
      BY <1>2, Carrying DEF ActionSteps
    <2>2. Enters(w, [handler[w] EXCEPT !.at = "log_review"])
      BY Going DEF SetReviewing
    <2> QED
      BY <1>1, <2>1, <2>2, ActingGoes
  <1>11. /\ g \in Handler \cup {Idle}
         /\ handler' \in [Worker -> Handler \cup {Idle}] /\ handler'[w] = g
         /\ \A v \in Worker \ {w} : handler'[v] = handler[v]
    BY <1>10, Entering, KindsAreHandlers DEF IInv
  <1>12. HandlersFit'
    <2>1. Fits(g)'
      BY <1>3, <1>8, <1>10 DEF Fits, Grows, SubmitSteps, RowSteps, QuoteSteps
    <2> QED
      BY <1>8, <1>10, <1>11, <2>1, FitStep
  <1>13. /\ e.action_id \in tracked /\ NonceOf(e) \in nonces
         /\ \A v \in Worker \ {w} : handler[v].at \in IdSteps =>
              handler[v].envelope.action_id # e.action_id
         /\ \A v \in Worker \ {w} : handler[v].at \in NonceSteps =>
              NonceOf(handler[v].envelope) # NonceOf(e)
    BY <1>1, <1>2 DEF IInv, IdsAreOwned, NoncesAreOwned, IdSteps, NonceSteps
  <1>14. ActionsAdmitted'
    BY <1>1, <1>4, <1>10, <1>11, <1>13 DEF IInv, ActionsAdmitted, NonceOf
  <1>15. IdsAreOwned'
    BY <1>4, <1>10, <1>11, <1>13 DEF IInv, IdsAreOwned, IdSteps
  <1>16. NoncesAreOwned'
    BY <1>4, <1>10, <1>11, <1>13 DEF IInv, NoncesAreOwned, NonceSteps, NonceOf
  <1>17. TypeOK'
    BY <1>1, <1>4, <1>7, <1>11, <1>13 DEF IInv, TypeOK, NonceOf, ActionId
  <1>18. RepliesAreKept' /\ ExactLocationStays'
    BY <1>4, <1>8, RepliesStep
  <1>19. OnlyGenuineTracked'
    BY <1>4 DEF IInv, OnlyGenuineTracked, NonceOf
  <1> QED
    BY <1>9, <1>12, <1>14, <1>15, <1>16, <1>17, <1>18, <1>19 DEF IInv

-----------------------------------------------------------------------------
(* The theorems                                                            *)

LEMMA InvStep == IInv /\ [Next]_vars => IInv'
  <1> SUFFICES ASSUME IInv, [Next]_vars PROVE IInv'
    OBVIOUS
  <1>1. CASE UNCHANGED vars
    BY <1>1 DEF vars, IInv, TypeOK, HandlersFit, Fits, Exists, Explained, ActionsAdmitted,
                IdsAreOwned, NoncesAreOwned, NonceOf, RepliesAreKept, OnlyGenuineTracked,
                ReviewIsExplained, ExactLocationStays
  <1>2. ASSUME NEW w \in Worker, ServesCustomer(w) PROVE IInv'
    <2>1. ASSUME NEW q \in Quote, NEW form \in Form, ReadForEdit(w, q, form)
          PROVE  IInv'
      BY <2>1, ReadEditStep
    <2>2. ASSUME NEW q \in Quote, NEW a \in Account, ReadForSubmit(w, q, a)
          PROVE  IInv'
      BY <2>2, ReadSubmitStep
    <2> QED
      BY <1>2, <2>1, <2>2, StartStep, EditStep, SubmitStep, LogSteps, LogSubmittedStep
         DEF ServesCustomer
  <1>3. ASSUME NEW w \in Worker, CarriesOutAction(w) PROVE IInv'
    BY <1>3, TrackActionStep, TrackNonceStep, ReadForReviewStep, SetStep DEF CarriesOutAction
  <1> QED
    BY <1>1, <1>2, <1>3, VerifyStep, LogSteps DEF Next, Handles

\* The inductive invariant holds in every reachable state.
THEOREM Invariance == Spec => []IInv
  BY InvInit, InvStep, PTL DEF Spec

\* Every variable keeps its type.
THEOREM TypeCorrect == Spec => []TypeOK
  <1>1. IInv => TypeOK
    BY DEF IInv
  <1> QED
    BY <1>1, Invariance, PTL

\* A forgery uses up neither an action id nor a nonce.
THEOREM GenuineTracked == Spec => []OnlyGenuineTracked
  <1>1. IInv => OnlyGenuineTracked
    BY DEF IInv
  <1> QED
    BY <1>1, Invariance, PTL

\* A quote in review was put there by a genuine action of a trusted device.
THEOREM ReviewsExplained == Spec => []ReviewIsExplained
  <1>1. IInv => ReviewIsExplained
    BY DEF IInv
  <1> QED
    BY <1>1, Invariance, PTL

\* A quote whose client was told that its location is stored keeps having one,
\* whatever older copies of the quote any worker writes.
THEOREM LocationsStay == Spec => []ExactLocationStays
  <1>1. IInv => ExactLocationStays
    BY DEF IInv
  <1> QED
    BY <1>1, Invariance, PTL

\* However often envelopes arrive, and at however many workers, no two that
\* share an action id or a nonce take effect, and none does twice.
THEOREM EachAppliedOnce == Spec => AppliedOnce
  <1>1. IInv /\ [Next]_vars =>
          [\A w \in Worker : At(w, "set") /\ handler'[w].at = "log_review" =>
             LET e == handler[w].envelope IN
             \A f \in applied :
               /\ f.action_id # e.action_id
               /\ <<f.device_id, f.nonce>> # <<e.device_id, e.nonce>>]_vars
    BY DEF IInv, IdsAreOwned, NoncesAreOwned, NonceOf, At, IdSteps, NonceSteps
  <1> QED
    BY <1>1, Invariance, PTL DEF Spec, AppliedOnce

-----------------------------------------------------------------------------
(* One process and the operator's console                                  *)

\* The quote says what the form did.
Written(h) == \A c \in DOMAIN h.form : quotes[h.quote].columns[c] = Says(h.form, c)

\* What the process is in the middle of agrees with the tables: nobody else
\* has written to them since it read.
Current(h) ==
  /\ h.at = "log_created" => Exists(h.quote)
  /\ h.at \in {"write", "submit", "log_submitted", "advance"} => h.row = quotes[h.quote]
  /\ h.at = "submit" => quotes[h.quote].status = "draft"
  /\ h.at \in {"log_submitted", "advance"} => quotes[h.quote].status = "submitted"
  /\ h.at = "log_status" => quotes[h.quote].status = "needs_review"
  /\ h.at = "log_location" => Written(h)
  /\ h.at = "set" => Reviewable(h.envelope)
  /\ h.at = "log_review" => h.envelope \in applied

HandlersAreCurrent == \A w \in Worker : Current(handler[w])

\* A quote that an action has moved is in review, and no other action has.
ActionsAreFinal ==
  /\ \A e \in applied :
       /\ e.aggregate_id \in Quote /\ Exists(e.aggregate_id)
       /\ quotes[e.aggregate_id].status = "reviewing"
  /\ \A e, f \in applied : e.aggregate_id = f.aggregate_id => e = f

\* A quote whose submission was answered is no draft any more.
SubmissionsStand ==
  \A r \in replies : r.kind = "submit" => quotes[r.quote].status \in Status

\* A review the operator was told of has happened and is on record.
StartsAreDone ==
  \A e \in started : e \in applied /\ "review_started" \in events[e.aggregate_id]

ServiceInv ==
  /\ OneProcess
  /\ IInv /\ HandlersAreCurrent /\ ActionsAreFinal /\ SubmissionsStand
  /\ LogIsTrue

ConsoleInv == ServiceInv /\ StartsAreDone

-----------------------------------------------------------------------------
(* Quotes go forward                                                       *)

Moves(s, t) ==
  \/ s = t
  \/ s = "draft" /\ t = "submitted"
  \/ s = "submitted" /\ t = "needs_review"
  \/ s \in {"submitted", "needs_review"} /\ t = "reviewing"

Forward ==
  \A q \in Quote : Exists(q) =>
    /\ Exists(q)'
    /\ Moves(quotes[q].status, quotes'[q].status)

LEMMA ForwardSame ==
  ASSUME UNCHANGED quotes
  PROVE  Forward
  BY DEF Forward, Exists, Moves

LEMMA ForwardUpdate ==
  ASSUME IInv, NEW q \in Quote, Exists(q), NEW row \in Row, Update(q, row),
         Moves(quotes[q].status, row.status)
  PROVE  /\ Forward
         /\ quotes'[q] = Stored(quotes[q], row) /\ quotes'[q].status = row.status
         /\ \A c \in Column : row.columns[c] = quotes[q].columns[c] \/ row.columns[c] # Null =>
              quotes'[q].columns[c] = row.columns[c]
         /\ \A p \in Quote \ {q} : quotes'[p] = quotes[p]
  <1>1. quotes \in [Quote -> Row \cup {NoQuote}] /\ quotes[q] \in Row
    BY DEF IInv, TypeOK, Exists
  <1>2. PICK new \in Row :
          /\ new = Stored(quotes[q], row) /\ new # NoQuote /\ new.status = row.status
          /\ \A c \in Column : row.columns[c] = quotes[q].columns[c] \/ row.columns[c] # Null =>
               new.columns[c] = row.columns[c]
    <2>1. Stored(quotes[q], row) \in Row /\ Stored(quotes[q], row) # NoQuote
      BY <1>1, StoredRow, RowExists
    <2> QED
      BY <1>1, <2>1, StoredRow
  <1>3. quotes' = [quotes EXCEPT ![q] = new]
    BY <1>2 DEF Update
  <1>4. /\ quotes'[q] = new
        /\ \A p \in Quote \ {q} : quotes'[p] = quotes[p]
    BY <1>1, <1>3
  <1>5. Forward
    BY <1>2, <1>4 DEF Forward, Exists, Moves
  <1> QED
    BY <1>2, <1>4, <1>5

-----------------------------------------------------------------------------
(* What steps have in common                                               *)

LogFits(q, type) ==
  /\ Exists(q)
  /\ type = "submitted" => quotes[q].status # "draft"
  /\ type = "status_changed" => quotes[q].status \in {"needs_review", "reviewing"}
  /\ type = "review_started" => quotes[q].status = "reviewing"

ReplyFits(r) == r.kind = "submit" => quotes[r.quote].status \in Status

\* The log goes on being true when quotes go forward and what it adds is true.
LEMMA LogStays ==
  ASSUME LogIsTrue, Forward,
         \A q \in Quote : \A type \in events'[q] \ events[q] : LogFits(q, type)'
  PROVE  LogIsTrue'
  <1> SUFFICES ASSUME NEW q \in Quote, NEW type \in events'[q] PROVE LogFits(q, type)'
    BY DEF LogIsTrue, LogFits
  <1>1. CASE type \in events[q]
    <2>1. LogFits(q, type)
      BY <1>1 DEF LogIsTrue, LogFits
    <2> QED
      BY <2>1 DEF LogFits, Forward, Moves
  <1>2. CASE type \notin events[q]
    BY <1>2
  <1> QED
    BY <1>1, <1>2

\* So do the replies.
LEMMA RepliesStay ==
  ASSUME IInv, SubmissionsStand, Forward,
         \A r \in replies' \ replies : ReplyFits(r)'
  PROVE  SubmissionsStand'
  <1> SUFFICES ASSUME NEW r \in replies' PROVE ReplyFits(r)'
    BY DEF SubmissionsStand, ReplyFits
  <1>1. CASE r \in replies
    <2>1. r \in Reply /\ r.quote \in Quote /\ Exists(r.quote)
      <3>1. r \in Reply /\ Exists(r.quote)
        BY <1>1 DEF IInv, TypeOK, RepliesAreKept
      <3> QED
        BY <3>1 DEF Reply
    <2>2. ReplyFits(r)
      BY <1>1 DEF SubmissionsStand, ReplyFits
    <2> QED
      BY <2>1, <2>2 DEF ReplyFits, Forward, Moves, Status
  <1>2. CASE r \notin replies
    BY <1>2
  <1> QED
    BY <1>1, <1>2

\* So do the actions, when no other is applied.
LEMMA ActionsStay ==
  ASSUME ActionsAreFinal, Forward, UNCHANGED applied
  PROVE  ActionsAreFinal'
  BY DEF ActionsAreFinal, Forward, Moves, Exists

\* A step of the process that takes quotes forward, logs and answers what is
\* true, and goes on with what it has read.
LEMMA Keeps ==
  ASSUME ServiceInv, IInv', Forward, ActionsAreFinal',
         NEW w \in Worker, NEW g \in Handler \cup {Idle}, Enters(w, g), Current(g)',
         \A q \in Quote : \A type \in events'[q] \ events[q] : LogFits(q, type)',
         \A r \in replies' \ replies : ReplyFits(r)'
  PROVE  ServiceInv'
  <1>1. handler'[w] = g
    BY Entering DEF ServiceInv, IInv
  <1>2. HandlersAreCurrent'
    BY <1>1 DEF HandlersAreCurrent, Current, ServiceInv, OneProcess
  <1>3. OneProcess'
    BY DEF ServiceInv, OneProcess
  <1> QED
    BY <1>2, <1>3, LogStays, RepliesStay DEF ServiceInv

LEMMA IdleIsCurrent == Current(Idle)'
  BY DEF Current, Idle

-----------------------------------------------------------------------------
(* The steps of the process                                                *)

LEMMA StartKeeps ==
  ASSUME ServiceInv, IInv', NEW w \in Worker, NEW q \in Quote, NEW lane \in BOOLEAN,
         StartQuote(w, q, lane)
  PROVE  ServiceInv' /\ quotes[q] = NoQuote /\ quotes'[q].status = "draft" /\ Exists(q)'
         /\ \A p \in Quote \ {q} : quotes'[p] = quotes[p]
  <1>1. PICK row \in Row : row = NewQuote(lane) /\ row.status = "draft" /\ row # NoQuote
    <2>1. NewQuote(lane) \in Row /\ NewQuote(lane).status = "draft"
      BY DEF NewQuote, Row
    <2> QED
      BY <2>1, RowExists
  <1>2. quotes' = [quotes EXCEPT ![q] = row] /\ ~Exists(q)
        /\ UNCHANGED <<events, tracked, nonces, applied, replies>>
    BY <1>1 DEF StartQuote, Insert
  <1>3. quotes'[q] = row /\ \A p \in Quote \ {q} : quotes'[p] = quotes[p]
    BY <1>2 DEF ServiceInv, IInv, TypeOK
  <1>4. Forward
    BY <1>2, <1>3 DEF Forward, Exists, Moves
  <1>5. PICK g \in Creating : /\ g = [at |-> "log_created", quote |-> q]
                              /\ g.at = "log_created" /\ g.quote = q
    <2> DEFINE h == [at |-> "log_created", quote |-> q]
    <2>1. h \in Creating
      BY DEF Creating
    <2> QED
      BY <2>1
  <1>6. Enters(w, g) /\ g \in Handler \cup {Idle}
    BY <1>5, KindsAreHandlers DEF StartQuote
  <1>7. Current(g)'
    BY <1>1, <1>3, <1>5 DEF Current, Exists
  <1>8. ActionsAreFinal'
    BY <1>2, <1>4, ActionsStay DEF ServiceInv
  <1>9. ServiceInv'
    BY <1>2, <1>4, <1>6, <1>7, <1>8, Keeps
  <1> QED
    BY <1>1, <1>2, <1>3, <1>9 DEF Exists

\* A step that leaves the quotes and the actions alone.
LEMMA QuietKeeps ==
  ASSUME ServiceInv, IInv', UNCHANGED <<quotes, applied>>,
         NEW w \in Worker, NEW g \in Handler \cup {Idle}, Enters(w, g), Current(g)',
         \A q \in Quote : \A type \in events'[q] \ events[q] : LogFits(q, type),
         \A r \in replies' \ replies : ReplyFits(r)
  PROVE  ServiceInv'
  <1>1. Forward
    BY ForwardSame
  <1>2. ActionsAreFinal'
    BY <1>1, ActionsStay DEF ServiceInv
  <1>3. /\ \A q \in Quote : \A type \in events'[q] \ events[q] : LogFits(q, type)'
        /\ \A r \in replies' \ replies : ReplyFits(r)'
    BY DEF LogFits, Exists, ReplyFits, Status
  <1> QED
    BY <1>1, <1>2, <1>3, Keeps

LEMMA ReadEditKeeps ==
  ASSUME ServiceInv, IInv', NEW w \in Worker, NEW q \in Quote,
         NEW form \in Form, ReadForEdit(w, q, form)
  PROVE  ServiceInv'
  <1>1. UNCHANGED <<quotes, events, tracked, nonces, applied, replies>> /\ quotes[q] \in Row
    BY DEF ReadForEdit, ServiceInv, IInv, TypeOK, Exists
  <1>2. PICK g \in Editing :
          /\ g = [at |-> "write", form |-> form, quote |-> q, row |-> quotes[q]]
          /\ g.at = "write" /\ g.quote = q /\ g.row = quotes[q]
    <2> DEFINE h == [at |-> "write", form |-> form, quote |-> q, row |-> quotes[q]]
    <2>1. h \in Editing
      BY <1>1 DEF Editing
    <2> QED
      BY <2>1
  <1>3. Enters(w, g) /\ g \in Handler \cup {Idle}
    BY <1>2, KindsAreHandlers DEF ReadForEdit
  <1>4. Current(g)'
    BY <1>1, <1>2 DEF Current
  <1> QED
    BY <1>1, <1>3, <1>4, QuietKeeps

LEMMA ReadSubmitKeeps ==
  ASSUME ServiceInv, IInv', NEW w \in Worker, NEW q \in Quote, NEW a \in Account,
         ReadForSubmit(w, q, a)
  PROVE  ServiceInv'
  <1>1. /\ UNCHANGED <<quotes, events, tracked, nonces, applied, replies>>
        /\ quotes[q] \in Row /\ quotes[q].status = "draft"
    BY DEF ReadForSubmit, CanSubmit, ServiceInv, IInv, TypeOK, Exists
  <1>2. PICK g \in Submitting :
          /\ g = [at |-> "submit", account |-> a, quote |-> q, row |-> quotes[q]]
          /\ g.at = "submit" /\ g.quote = q /\ g.row = quotes[q]
    <2> DEFINE h == [at |-> "submit", account |-> a, quote |-> q, row |-> quotes[q]]
    <2>1. h \in Submitting
      BY <1>1 DEF Submitting
    <2> QED
      BY <2>1
  <1>3. Enters(w, g) /\ g \in Handler \cup {Idle}
    BY <1>2, KindsAreHandlers DEF ReadForSubmit
  <1>4. Current(g)'
    BY <1>1, <1>2 DEF Current
  <1> QED
    BY <1>1, <1>3, <1>4, QuietKeeps

\* A step that logs what is true of the quote it handles, and goes to rest.
LEMMA EndKeeps ==
  ASSUME ServiceInv, IInv', UNCHANGED <<quotes, applied>>, NEW w \in Worker, Enters(w, Idle),
         \/ UNCHANGED events
         \/ \E q \in Quote, type \in EventType : Log(q, type) /\ LogFits(q, type),
         \A r \in replies' \ replies : ReplyFits(r)
  PROVE  ServiceInv'
  <1>1. \A q \in Quote : \A type \in events'[q] \ events[q] : LogFits(q, type)
    BY DEF Log, ServiceInv, IInv, TypeOK
  <1>2. PICK g \in Handler \cup {Idle} : g = Idle
    OBVIOUS
  <1>3. Enters(w, g) /\ Current(g)'
    BY <1>2 DEF Current, Idle
  <1> QED
    BY <1>1, <1>3, QuietKeeps

\* The process holds what it read, as it is.
LEMMA HoldingCurrent ==
  ASSUME ServiceInv, NEW w \in Worker
  PROVE  Current(handler[w]) /\ Fits(handler[w])
  BY DEF ServiceInv, HandlersAreCurrent, IInv, HandlersFit

LEMMA LogKeeps ==
  ASSUME ServiceInv, IInv', NEW w \in Worker,
         LogCreated(w) \/ LogLocation(w) \/ LogNeedsReview(w) \/ LogReview(w) \/ Fail(w)
  PROVE  ServiceInv'
  <1> USE HoldingCurrent
  <1>1. UNCHANGED <<quotes, applied>> /\ Enters(w, Idle)
    BY DEF LogCreated, LogLocation, LogNeedsReview, LogReview, Fail
  <1>2. IInv /\ ActionsAreFinal
    BY DEF ServiceInv
  <1>3. CASE LogCreated(w)
    <2>1. PICK q \in Quote : q = handler[w].quote
      BY <1>2, <1>3, Holding DEF LogCreated, Creating
    <2>2. LogFits(q, "created") /\ Log(q, "created") /\ UNCHANGED replies
      BY <1>3, <2>1 DEF LogCreated, At, Current, LogFits
    <2> QED
      BY <1>1, <2>2, EndKeeps DEF EventType
  <1>4. CASE LogLocation(w)
    <2>1. handler[w] \in Locating /\ handler[w].at = "log_location"
      BY <1>2, <1>4, Holding DEF LogLocation, At
    <2>2. PICK q \in Quote : q = handler[w].quote
      BY <2>1 DEF Locating
    <2>3. Exists(q)
      BY <2>1, <2>2 DEF Fits, QuoteSteps
    <2>4. LogFits(q, "location_added") /\ Log(q, "location_added")
      BY <1>4, <2>2, <2>3 DEF LogLocation, LogFits
    <2>5. \A r \in replies' \ replies : r = [kind |-> "location", quote |-> q]
      BY <1>4, <2>2 DEF LogLocation, Answer
    <2>6. \A r \in replies' \ replies : ReplyFits(r)
      BY <2>5 DEF ReplyFits
    <2> QED
      BY <1>1, <2>4, <2>6, EndKeeps DEF EventType
  <1>5. CASE LogNeedsReview(w)
    <2>1. handler[w] \in Closing /\ handler[w].at = "log_status"
      BY <1>2, <1>5, Holding DEF LogNeedsReview, At
    <2>2. PICK q \in Quote : q = handler[w].quote
      BY <2>1 DEF Closing
    <2>3. Exists(q) /\ quotes[q].status = "needs_review"
      BY <2>1, <2>2 DEF Fits, Current, QuoteSteps
    <2>4. LogFits(q, "status_changed") /\ Log(q, "status_changed")
      BY <1>5, <2>2, <2>3 DEF LogNeedsReview, LogFits
    <2>5. \A r \in replies' \ replies : r.kind = "submit" /\ r.quote = q
      BY <1>5, <2>2 DEF LogNeedsReview, Answer, Submitted
    <2>6. \A r \in replies' \ replies : ReplyFits(r)
      BY <2>3, <2>5 DEF ReplyFits, Status
    <2> QED
      BY <1>1, <2>4, <2>6, EndKeeps DEF EventType
  <1>6. CASE LogReview(w)
    <2>1. handler[w].at = "log_review" /\ handler[w].envelope \in applied
      BY <1>6 DEF LogReview, At, Current
    <2>2. PICK q \in Quote : q = handler[w].envelope.aggregate_id
      BY <1>2, <2>1 DEF ActionsAreFinal
    <2>3. LogFits(q, "review_started") /\ Log(q, "review_started") /\ UNCHANGED replies
      BY <1>2, <1>6, <2>1, <2>2 DEF LogReview, LogFits, ActionsAreFinal
    <2> QED
      BY <1>1, <2>3, EndKeeps DEF EventType
  <1>7. CASE Fail(w)
    BY <1>1, <1>7, EndKeeps DEF Fail
  <1> QED
    BY <1>3, <1>4, <1>5, <1>6, <1>7

\* A write to a quote that exists, which takes it forward.
LEMMA WriteKeeps ==
  ASSUME ServiceInv, IInv', NEW w \in Worker, NEW q \in Quote, Exists(q), NEW row \in Row,
         Update(q, row), Moves(quotes[q].status, row.status), UNCHANGED <<events, applied>>,
         NEW g \in Handler \cup {Idle}, Enters(w, g), Current(g)',
         \A r \in replies' \ replies : ReplyFits(r)'
  PROVE  ServiceInv'
  <1>1. Forward
    BY ForwardUpdate DEF ServiceInv
  <1>2. ActionsAreFinal'
    BY <1>1, ActionsStay DEF ServiceInv
  <1>3. \A p \in Quote : \A type \in events'[p] \ events[p] : LogFits(p, type)'
    OBVIOUS
  <1> QED
    BY <1>1, <1>2, <1>3, Keeps

\* What an edit does to the table.
LEMMA EditWrites ==
  ASSUME ServiceInv, NEW w \in Worker, WriteAnswers(w) \/ WriteLocation(w)
  PROVE  \E q \in Quote, row \in Row :
           /\ q = handler[w].quote /\ handler[w] \in Editing
           /\ Exists(q) /\ Update(q, row)
           /\ row.status = quotes[q].status
           /\ \A c \in Column : quotes'[q].columns[c] =
                IF c \in DOMAIN handler[w].form THEN Says(handler[w].form, c)
                ELSE quotes[q].columns[c]
           /\ quotes'[q].status = quotes[q].status
           /\ \A p \in Quote \ {q} : quotes'[p] = quotes[p]
           /\ UNCHANGED <<events, applied>>
  <1>1. handler[w] \in Editing /\ handler[w].at = "write"
    BY Holding DEF WriteAnswers, WriteLocation, At, ServiceInv
  <1>2. PICK q \in Quote : q = handler[w].quote
    BY <1>1 DEF Editing
  <1>3. Exists(q) /\ handler[w].row = quotes[q]
    BY <1>1, <1>2, HoldingCurrent DEF Fits, Current, RowSteps, QuoteSteps
  <1>4. PICK row \in Row :
          /\ row = Edited(handler[w]) /\ row.status = quotes[q].status
          /\ \A c \in Column : row.columns[c] =
               IF c \in DOMAIN handler[w].form THEN Says(handler[w].form, c)
               ELSE quotes[q].columns[c]
    BY <1>1, <1>3, EditedRow
  <1>5. Update(q, row) /\ UNCHANGED <<events, applied>>
    BY <1>2, <1>4 DEF WriteAnswers, WriteLocation
  <1>6. Moves(quotes[q].status, row.status)
    BY <1>4 DEF Moves
  <1>7. /\ \A c \in Column : row.columns[c] = quotes[q].columns[c] \/ row.columns[c] # Null =>
             quotes'[q].columns[c] = row.columns[c]
        /\ quotes'[q].status = row.status
        /\ \A p \in Quote \ {q} : quotes'[p] = quotes[p]
    BY <1>3, <1>4, <1>5, <1>6, ForwardUpdate DEF ServiceInv
  <1>8. \A c \in DOMAIN handler[w].form : Says(handler[w].form, c) # Null
    BY <1>1, Saying DEF Editing
  <1>9. \A c \in Column : quotes'[q].columns[c] =
          IF c \in DOMAIN handler[w].form THEN Says(handler[w].form, c)
          ELSE quotes[q].columns[c]
    BY <1>4, <1>7, <1>8
  <1> QED
    BY <1>1, <1>2, <1>3, <1>4, <1>5, <1>7, <1>9

\* Edits and the writes of a submission take quotes forward.
LEMMA EditForward ==
  ASSUME ServiceInv, NEW w \in Worker, WriteAnswers(w) \/ WriteLocation(w)
  PROVE  Forward
  <1>1. PICK q \in Quote, row \in Row :
           Exists(q) /\ Update(q, row) /\ row.status = quotes[q].status
    BY EditWrites
  <1> QED
    BY <1>1, ForwardUpdate DEF ServiceInv, Moves

LEMMA EditKeeps ==
  ASSUME ServiceInv, IInv', NEW w \in Worker, WriteAnswers(w) \/ WriteLocation(w)
  PROVE  ServiceInv'
  <1>1. PICK q \in Quote, row \in Row :
           /\ q = handler[w].quote /\ handler[w] \in Editing
           /\ Exists(q) /\ Update(q, row) /\ row.status = quotes[q].status
           /\ UNCHANGED <<events, applied>>
           /\ \A c \in Column : quotes'[q].columns[c] =
                IF c \in DOMAIN handler[w].form THEN Says(handler[w].form, c)
                ELSE quotes[q].columns[c]
    BY EditWrites
  <1>2. Moves(quotes[q].status, row.status)
    BY <1>1 DEF Moves
  <1>3. CASE WriteAnswers(w)
    <2>1. PICK g \in Handler \cup {Idle} : g = Idle
      OBVIOUS
    <2>2. Enters(w, g) /\ Current(g)'
      BY <1>3, <2>1 DEF WriteAnswers, Current, Idle
    <2>3. \A r \in replies' \ replies : r = [kind |-> "answers", quote |-> q]
      BY <1>1, <1>3 DEF WriteAnswers, Answer
    <2>4. \A r \in replies' \ replies : ReplyFits(r)'
      BY <2>3 DEF ReplyFits
    <2> QED
      BY <1>1, <1>2, <2>2, <2>4, WriteKeeps
  <1>4. CASE WriteLocation(w)
    <2>0. PICK form \in Form : form = handler[w].form
      BY <1>1 DEF Editing
    <2>1. PICK g \in Locating :
            /\ g = [at |-> "log_location", form |-> form, quote |-> q]
            /\ g.at = "log_location" /\ g.quote = q /\ g.form = form
      <3> DEFINE h == [at |-> "log_location", form |-> form, quote |-> q]
      <3>1. h \in Locating
        BY DEF Locating
      <3> QED
        BY <3>1
    <2>2. Enters(w, g) /\ g \in Handler \cup {Idle}
      BY <1>1, <1>4, <2>0, <2>1, KindsAreHandlers DEF WriteLocation
    <2>3. Current(g)'
      BY <1>1, <2>0, <2>1, LocationForms DEF Current, Written
    <2>4. replies' \ replies = {}
      BY <1>4 DEF WriteLocation
    <2> QED
      BY <1>1, <1>2, <2>2, <2>3, <2>4, WriteKeeps
  <1> QED
    BY <1>3, <1>4

\* What the two writes of a submission do to the table.
Submits(w, q, row, from, to) ==
  /\ q = handler[w].quote /\ handler[w] \in Submitting
  /\ Exists(q) /\ Update(q, row)
  /\ quotes[q].status = from /\ row.status = to
  /\ \A c \in Column : quotes'[q].columns[c] = quotes[q].columns[c]
  /\ WriteSubmitted(w) =>
       row = [quotes[q] EXCEPT !.status = "submitted", !.account_id = handler[w].account]
  /\ quotes'[q].status = to /\ quotes'[q] = Stored(quotes[q], row)
  /\ \A p \in Quote \ {q} : quotes'[p] = quotes[p]
  /\ UNCHANGED <<events, applied, replies>>

LEMMA SubmitWrites ==
  ASSUME ServiceInv, NEW w \in Worker, NEW from, NEW to,
         \/ WriteSubmitted(w) /\ from = "draft" /\ to = "submitted"
         \/ WriteNeedsReview(w) /\ from = "submitted" /\ to = "needs_review"
  PROVE  \E q \in Quote, row \in Row : Submits(w, q, row, from, to)
  <1>1. handler[w] \in Submitting /\ handler[w].at \in {"submit", "advance"}
        /\ UNCHANGED <<events, applied, replies>>
    BY Holding DEF WriteSubmitted, WriteNeedsReview, At, SubmitSteps, ServiceInv
  <1>2. PICK q \in Quote, old \in Row : q = handler[w].quote /\ old = handler[w].row
    BY <1>1 DEF Submitting
  <1>3. Exists(q) /\ old = quotes[q]
    BY <1>1, <1>2, HoldingCurrent DEF Fits, Current, SubmitSteps, RowSteps, QuoteSteps
  <1>4. quotes[q].status = from
    BY <1>2, HoldingCurrent DEF Current, WriteSubmitted, WriteNeedsReview, At
  <1>5. PICK row \in Row :
          /\ Update(q, row) /\ row.status = to /\ row.columns = old.columns
          /\ WriteSubmitted(w) =>
               row = [old EXCEPT !.status = "submitted", !.account_id = handler[w].account]
    <2>1. CASE WriteSubmitted(w) /\ from = "draft" /\ to = "submitted"
      <3>1. handler[w].account \in Account
        BY <1>1 DEF Submitting
      <3>2. PICK row \in Row :
              /\ row = [old EXCEPT !.status = "submitted", !.account_id = handler[w].account]
              /\ row.status = "submitted" /\ row.columns = old.columns
        <4> DEFINE new == [old EXCEPT !.status = "submitted", !.account_id = handler[w].account]
        <4>1. new \in Row /\ new.status = "submitted"
          BY <3>1, SubmittedRow
        <4>2. new.columns = old.columns
          BY DEF Row
        <4> QED
          BY <4>1, <4>2
      <3>3. Update(q, row)
        BY <1>2, <2>1, <3>2 DEF WriteSubmitted
      <3> QED
        BY <2>1, <3>2, <3>3
    <2>2. CASE WriteNeedsReview(w) /\ from = "submitted" /\ to = "needs_review"
      <3>1. "needs_review" \in {"draft", "submitted", "needs_review", "reviewing"}
        OBVIOUS
      <3>2. PICK row \in Row :
              /\ row = [old EXCEPT !.status = "needs_review"]
              /\ row.status = "needs_review" /\ row.columns = old.columns
        BY <3>1, StatusRow
      <3>3. Update(q, row)
        BY <1>2, <2>2, <3>2 DEF WriteNeedsReview
      <3>4. ~WriteSubmitted(w)
        BY <2>2 DEF WriteSubmitted, WriteNeedsReview, At
      <3> QED
        BY <2>2, <3>2, <3>3, <3>4
    <2> QED
      BY <2>1, <2>2
  <1>6. Moves(quotes[q].status, row.status)
    BY <1>4, <1>5 DEF Moves
  <1>7. /\ quotes'[q] = Stored(quotes[q], row) /\ quotes'[q].status = row.status
        /\ \A c \in Column : quotes'[q].columns[c] = quotes[q].columns[c]
        /\ \A p \in Quote \ {q} : quotes'[p] = quotes[p]
    BY <1>3, <1>5, <1>6, ForwardUpdate DEF ServiceInv
  <1>8. Submits(w, q, row, from, to)
    BY <1>1, <1>2, <1>3, <1>4, <1>5, <1>7 DEF Submits
  <1> QED
    BY <1>8

LEMMA SubmitForward ==
  ASSUME ServiceInv, NEW w \in Worker, NEW q \in Quote, NEW row \in Row,
         \/ Submits(w, q, row, "draft", "submitted")
         \/ Submits(w, q, row, "submitted", "needs_review")
  PROVE  Forward
  <1>1. Exists(q) /\ Update(q, row) /\ Moves(quotes[q].status, row.status)
    BY DEF Submits, Moves
  <1> QED
    BY <1>1, ForwardUpdate DEF ServiceInv

LEMMA SubmitKeeps ==
  ASSUME ServiceInv, IInv', NEW w \in Worker, WriteSubmitted(w)
  PROVE  ServiceInv'
  <1>0. PICK q \in Quote, row \in Row : Submits(w, q, row, "draft", "submitted")
    BY SubmitWrites
  <1>1. /\ q = handler[w].quote /\ handler[w] \in Submitting
        /\ Exists(q) /\ Update(q, row)
        /\ quotes[q].status = "draft" /\ row.status = "submitted"
        /\ row = [quotes[q] EXCEPT !.status = "submitted", !.account_id = handler[w].account]
        /\ quotes'[q].status = "submitted" /\ quotes'[q] = Stored(quotes[q], row)
        /\ UNCHANGED <<events, applied, replies>>
    BY <1>0 DEF Submits
  <1>2. quotes[q] \in Row
    BY <1>1 DEF ServiceInv, IInv, TypeOK, Exists
  <1>3. PICK stored \in Row : stored = Stored(quotes[q], row)
    BY <1>2, StoredRow
  <1>4. PICK g \in Submitting :
          /\ g = [handler[w] EXCEPT !.at = "log_submitted", !.row = stored]
          /\ g.at = "log_submitted" /\ g.quote = q /\ g.row = stored
    <2> DEFINE h == [handler[w] EXCEPT !.at = "log_submitted", !.row = stored]
    <2>1. /\ h \in Submitting /\ h.at = "log_submitted"
          /\ h.quote = handler[w].quote /\ h.row = stored
      BY <1>1, SubmittingRow
    <2> HIDE DEF h
    <2>2. \E g \in Submitting : /\ g = h
                                /\ g.at = "log_submitted" /\ g.quote = q /\ g.row = stored
      BY <1>1, <2>1
    <2> QED
      BY <2>2 DEF h
  <1>5. handler[w].row = quotes[q]
    BY <1>1, HoldingCurrent DEF Current, WriteSubmitted, At
  <1>6. Enters(w, g) /\ g \in Handler \cup {Idle}
    BY <1>1, <1>3, <1>4, <1>5, KindsAreHandlers DEF WriteSubmitted
  <1>7. Current(g)'
    BY <1>1, <1>3, <1>4 DEF Current
  <1>8. Moves(quotes[q].status, row.status) /\ replies' \ replies = {}
    BY <1>1 DEF Moves
  <1> QED
    BY <1>1, <1>6, <1>7, <1>8, WriteKeeps

LEMMA LogSubmittedKeeps ==
  ASSUME ServiceInv, IInv', NEW w \in Worker, LogSubmitted(w)
  PROVE  ServiceInv'
  <1>1. /\ handler[w] \in Submitting /\ handler[w].at = "log_submitted"
        /\ UNCHANGED <<quotes, applied, replies>>
    BY Holding DEF LogSubmitted, At, SubmitSteps, ServiceInv
  <1>2. PICK q \in Quote, old \in Row : q = handler[w].quote /\ old = handler[w].row
    BY <1>1 DEF Submitting
  <1>3. Exists(q) /\ old = quotes[q] /\ quotes[q].status = "submitted"
    BY <1>1, <1>2, HoldingCurrent DEF Fits, Current, SubmitSteps, RowSteps, QuoteSteps
  <1>4. Log(q, "submitted")
    BY <1>2 DEF LogSubmitted
  <1>5. \A p \in Quote : \A type \in events'[p] \ events[p] : LogFits(p, type)
    BY <1>3, <1>4 DEF Log, LogFits, ServiceInv, IInv, TypeOK
  <1>6. PICK g \in Submitting :
          /\ g = [handler[w] EXCEPT !.at = "advance"]
          /\ g.at = "advance" /\ g.quote = q /\ g.row = old
    BY <1>1, <1>2, SubmittingGoes DEF SubmitSteps
  <1>7. Enters(w, g) /\ g \in Handler \cup {Idle}
    BY <1>6, Going, KindsAreHandlers DEF LogSubmitted, ServiceInv
  <1>8. Current(g)'
    BY <1>1, <1>3, <1>6 DEF Current
  <1>9. replies' \ replies = {}
    BY <1>1
  <1> QED
    BY <1>1, <1>5, <1>7, <1>8, <1>9, QuietKeeps

LEMMA NeedsReviewKeeps ==
  ASSUME ServiceInv, IInv', NEW w \in Worker, WriteNeedsReview(w)
  PROVE  ServiceInv'
  <1>0. PICK q \in Quote, row \in Row : Submits(w, q, row, "submitted", "needs_review")
    BY SubmitWrites
  <1>1. /\ q = handler[w].quote /\ handler[w] \in Submitting
        /\ Exists(q) /\ Update(q, row)
        /\ quotes[q].status = "submitted" /\ row.status = "needs_review"
        /\ quotes'[q].status = "needs_review"
        /\ UNCHANGED <<events, applied, replies>>
    BY <1>0 DEF Submits
  <1>2. PICK g \in Closing : ClosesAs(w, g)
    BY <1>1, ClosingFollows
  <1>3. Enters(w, g) /\ g \in Handler \cup {Idle}
    BY <1>2, KindsAreHandlers DEF WriteNeedsReview, ClosesAs
  <1>4. Current(g)'
    BY <1>1, <1>2 DEF Current, ClosesAs
  <1>5. Moves(quotes[q].status, row.status) /\ replies' \ replies = {}
    BY <1>1 DEF Moves
  <1> QED
    BY <1>1, <1>3, <1>4, <1>5, WriteKeeps

\* A step of an action up to the review.
LEMMA AdmittingKeeps ==
  ASSUME ServiceInv, IInv', NEW w \in Worker, UNCHANGED <<quotes, events, applied, replies>>,
         NEW g \in Acting \cup {Idle}, Enters(w, g),
         g.at \in {"idle", "track_action", "track_nonce", "read", "set"},
         g.at = "set" => Reviewable(g.envelope)
  PROVE  ServiceInv'
  <1>1. g \in Handler \cup {Idle}
    BY KindsAreHandlers
  <1>2. Current(g)'
    BY DEF Current, Reviewable, Exists
  <1>3. replies' \ replies = {} /\ \A q \in Quote : events'[q] \ events[q] = {}
    OBVIOUS
  <1> QED
    BY <1>1, <1>2, <1>3, QuietKeeps

LEMMA VerifyKeeps ==
  ASSUME ServiceInv, IInv', NEW w \in Worker, NEW e \in Envelope, VerifyAction(w, e)
  PROVE  ServiceInv'
  <1>1. PICK g \in Acting : /\ g = [at |-> "track_action", envelope |-> e]
                            /\ g.at = "track_action"
    <2> DEFINE h == [at |-> "track_action", envelope |-> e]
    <2>1. h \in Acting
      BY DEF Acting
    <2> QED
      BY <2>1
  <1> QED
    BY <1>1, AdmittingKeeps DEF VerifyAction

LEMMA TrackKeeps ==
  ASSUME ServiceInv, IInv', NEW w \in Worker, TrackAction(w) \/ TrackNonce(w)
  PROVE  ServiceInv'
  <1>1. /\ handler[w].at \in ActionSteps /\ handler[w] \in Acting
        /\ UNCHANGED <<quotes, events, applied, replies>>
    BY Carrying DEF TrackAction, TrackNonce, At, ActionSteps, ServiceInv
  <1>2. PICK next \in {"track_nonce", "read"} :
          Enters(w, Idle) \/ Enters(w, [handler[w] EXCEPT !.at = next])
    BY DEF TrackAction, TrackNonce, Inserts
  <1>3. CASE Enters(w, Idle)
    <2>1. PICK g \in Acting \cup {Idle} : g = Idle /\ g.at = "idle"
      BY IdleFits
    <2> QED
      BY <1>1, <1>3, <2>1, AdmittingKeeps
  <1>4. CASE Enters(w, [handler[w] EXCEPT !.at = next])
    <2>1. next \in ActionSteps
      BY DEF ActionSteps
    <2>2. PICK g \in Acting : g = [handler[w] EXCEPT !.at = next] /\ g.at = next
      BY <1>1, <2>1, ActingGoes
    <2> QED
      BY <1>1, <1>4, <2>2, AdmittingKeeps
  <1> QED
    BY <1>2, <1>3, <1>4

LEMMA ReadForReviewKeeps ==
  ASSUME ServiceInv, IInv', NEW w \in Worker, ReadForReview(w)
  PROVE  ServiceInv'
  <1>1. /\ handler[w].at \in ActionSteps /\ handler[w] \in Acting
        /\ UNCHANGED <<quotes, events, applied, replies>>
    BY Carrying DEF ReadForReview, At, ActionSteps, ServiceInv
  <1>2. CASE Enters(w, Idle)
    <2>1. PICK g \in Acting \cup {Idle} : g = Idle /\ g.at = "idle"
      BY IdleFits
    <2> QED
      BY <1>1, <1>2, <2>1, AdmittingKeeps
  <1>3. CASE /\ Reviewable(handler[w].envelope)
             /\ Enters(w, [handler[w] EXCEPT !.at = "set"])
    <2>1. "set" \in ActionSteps
      BY DEF ActionSteps
    <2>2. PICK g \in Acting : /\ g = [handler[w] EXCEPT !.at = "set"]
                              /\ g.at = "set" /\ g.envelope = handler[w].envelope
      BY <1>1, <2>1, ActingGoes
    <2> QED
      BY <1>1, <1>3, <2>2, AdmittingKeeps
  <1> QED
    BY <1>2, <1>3 DEF ReadForReview

\* What a review does to the tables.
Reviews(w, q, e) ==
  /\ handler[w].at = "set" /\ e = handler[w].envelope /\ e \in Envelope
  /\ q = e.aggregate_id /\ Exists(q) /\ Exists(q)'
  /\ quotes[q].status \in {"submitted", "needs_review"}
  /\ quotes'[q].status = "reviewing" /\ quotes'[q].columns = quotes[q].columns
  /\ \A p \in Quote \ {q} : quotes'[p] = quotes[p]
  /\ applied' = applied \cup {e}
  /\ \A f \in applied : f.action_id # e.action_id

LEMMA SetReviews ==
  ASSUME ServiceInv, NEW w \in Worker, SetReviewing(w)
  PROVE  \E q \in Quote, e \in Envelope : Reviews(w, q, e)
  <1>1. handler[w].at = "set" /\ handler[w].at \in ActionSteps /\ IInv
    BY DEF SetReviewing, At, ActionSteps, ServiceInv
  <1>2. PICK e \in Envelope : e = handler[w].envelope
    BY <1>1, Carrying
  <1>3. PICK q \in Quote : /\ q = e.aggregate_id /\ Exists(q)
                           /\ quotes[q].status \in {"submitted", "needs_review"}
    BY <1>1, <1>2, HoldingCurrent DEF Current, Reviewable
  <1>4. quotes' = [quotes EXCEPT ![q].status = "reviewing"] /\ applied' = applied \cup {e}
    BY <1>2, <1>3 DEF SetReviewing, UpdateStatus
  <1>5. PICK new \in Row :
          /\ new = [quotes[q] EXCEPT !.status = "reviewing"]
          /\ new.status = "reviewing" /\ new.columns = quotes[q].columns /\ new # NoQuote
    <2>1. "reviewing" \in {"draft", "submitted", "needs_review", "reviewing"}
      OBVIOUS
    <2>2. quotes[q] \in Row
      BY <1>1, <1>3 DEF IInv, TypeOK, Exists
    <2> QED
      BY <2>1, <2>2, StatusRow, RowExists
  <1>6. quotes'[q] = new /\ \A p \in Quote \ {q} : quotes'[p] = quotes[p]
    BY <1>1, <1>4, <1>5 DEF IInv, TypeOK
  <1>7. \A f \in applied : f.action_id # e.action_id
    BY <1>1, <1>2 DEF IInv, IdsAreOwned, IdSteps
  <1>8. Exists(q)'
    BY <1>5, <1>6 DEF Exists
  <1>9. Reviews(w, q, e)
    BY <1>1, <1>2, <1>3, <1>4, <1>5, <1>6, <1>7, <1>8 DEF Reviews
  <1> QED
    BY <1>9

LEMMA SetKeeps ==
  ASSUME ServiceInv, IInv', NEW w \in Worker, SetReviewing(w)
  PROVE  ServiceInv'
  <1>1. PICK q \in Quote, e \in Envelope : Reviews(w, q, e)
    BY SetReviews
  <1>2. Forward
    BY <1>1 DEF Reviews, Forward, Exists, Moves
  <1>3. ActionsAreFinal'
    <2>1. \A f \in applied : f.aggregate_id # q
      BY <1>1 DEF Reviews, ServiceInv, ActionsAreFinal
    <2>2. \A f \in applied :
            /\ f.aggregate_id \in Quote /\ Exists(f.aggregate_id)'
            /\ quotes'[f.aggregate_id].status = "reviewing"
      BY <1>1, <2>1 DEF Reviews, ServiceInv, ActionsAreFinal, Exists
    <2>3. Exists(e.aggregate_id)' /\ quotes'[e.aggregate_id].status = "reviewing"
          /\ e.aggregate_id = q /\ applied' = applied \cup {e}
      BY <1>1 DEF Reviews
    <2> QED
      BY <2>1, <2>2, <2>3 DEF ServiceInv, ActionsAreFinal
  <1>4. PICK g \in Acting : /\ g = [handler[w] EXCEPT !.at = "log_review"]
                            /\ g.at = "log_review" /\ g.envelope = e
    <2>1. "log_review" \in ActionSteps /\ handler[w] \in Acting
      BY <1>1, Carrying DEF ActionSteps, Reviews, ServiceInv
    <2> QED
      BY <1>1, <2>1, ActingGoes DEF Reviews
  <1>5. Enters(w, g) /\ g \in Handler \cup {Idle}
    BY <1>4, Going, KindsAreHandlers DEF SetReviewing, ServiceInv
  <1>6. Current(g)'
    BY <1>1, <1>4 DEF Current, Reviews
  <1>7. replies' \ replies = {} /\ \A p \in Quote : events'[p] \ events[p] = {}
    BY DEF SetReviewing
  <1> QED
    BY <1>2, <1>3, <1>5, <1>6, <1>7, Keeps

-----------------------------------------------------------------------------
(* The process keeps its invariant                                         *)

LEMMA ServiceInit == OneProcess /\ Init => ServiceInv
  <1> SUFFICES ASSUME OneProcess, Init PROVE ServiceInv
    OBVIOUS
  <1>1. HandlersAreCurrent
    BY DEF Init, HandlersAreCurrent, Current, Idle
  <1>2. ActionsAreFinal /\ SubmissionsStand /\ LogIsTrue
    BY DEF Init, ActionsAreFinal, SubmissionsStand, LogIsTrue
  <1> QED
    BY <1>1, <1>2, InvInit DEF ServiceInv

LEMMA ServiceStays == ServiceInv /\ [Next]_vars => ServiceInv'
  <1> SUFFICES ASSUME ServiceInv, [Next]_vars PROVE ServiceInv'
    OBVIOUS
  <1>0. IInv'
    BY InvStep DEF ServiceInv
  <1>1. CASE UNCHANGED vars
    BY <1>0, <1>1 DEF ServiceInv, vars, HandlersAreCurrent, Current, Written, Exists, Reviewable,
       ActionsAreFinal, SubmissionsStand, LogIsTrue, Status
  <1>2. ASSUME NEW w \in Worker, ServesCustomer(w) PROVE ServiceInv'
    <2>1. ASSUME NEW q \in Quote, NEW form \in Form, ReadForEdit(w, q, form)
          PROVE  ServiceInv'
      BY <1>0, <2>1, ReadEditKeeps
    <2>2. ASSUME NEW q \in Quote, NEW a \in Account, ReadForSubmit(w, q, a)
          PROVE  ServiceInv'
      BY <1>0, <2>2, ReadSubmitKeeps
    <2>3. ASSUME NEW q \in Quote, NEW lane \in BOOLEAN, StartQuote(w, q, lane)
          PROVE  ServiceInv'
      BY <1>0, <2>3, StartKeeps
    <2> QED
      BY <1>0, <1>2, <2>1, <2>2, <2>3, EditKeeps, SubmitKeeps, NeedsReviewKeeps, LogKeeps,
         LogSubmittedKeeps
         DEF ServesCustomer
  <1>3. ASSUME NEW w \in Worker, CarriesOutAction(w) PROVE ServiceInv'
    BY <1>0, <1>3, TrackKeeps, ReadForReviewKeeps, SetKeeps DEF CarriesOutAction
  <1> QED
    BY <1>0, <1>1, <1>2, <1>3, VerifyKeeps, LogKeeps DEF Next, Handles

-----------------------------------------------------------------------------
(* The console                                                             *)

LEMMA ConsoleInvInit == OneProcess /\ ConsoleInit => ConsoleInv
  BY ServiceInit DEF ConsoleInit, ConsoleInv, StartsAreDone

\* The log only grows.
LEMMA LogGrows ==
  ASSUME IInv, NEW q \in Quote, NEW type \in EventType, Log(q, type)
  PROVE  /\ \A p \in Quote : events[p] \subseteq events'[p]
         /\ type \in events'[q]
  BY DEF Log, IInv, TypeOK

\* Whatever the console or the service does is a step of the service or none.
LEMMA ServiceMoves == [ConsoleNext]_system => [Next]_vars
  <1> SUFFICES ASSUME [ConsoleNext]_system PROVE [Next]_vars
    OBVIOUS
  <1>1. CASE UNCHANGED system
    BY <1>1 DEF system
  <1>2. ASSUME NEW w \in Worker, NEW e \in Envelope, Deliver(w, e) PROVE [Next]_vars
    BY <1>2 DEF Deliver, Next, Handles
  <1>3. ASSUME NEW w \in Worker, ReviewStarted(w) \/ AnswerLost(w) \/ ServiceStep(w)
        PROVE  [Next]_vars
    BY <1>3 DEF ReviewStarted, AnswerLost, ServiceStep, Next, Handles
  <1>4. ASSUME NEW w \in Worker, NEW q \in Quote, FetchProjections(w, q) PROVE UNCHANGED vars
    BY <1>4 DEF FetchProjections
  <1>5. ASSUME NEW w \in Worker, FetchEnvelope(w) PROVE UNCHANGED vars
    BY <1>5 DEF FetchEnvelope
  <1>6. ASSUME NEW page \in pages, NEW e \in Envelope, StartReview(page, e)
        PROVE  UNCHANGED vars
    BY <1>6 DEF StartReview
  <1>7. ASSUME GiveUp PROVE UNCHANGED vars
    BY <1>7 DEF GiveUp
  <1> QED
    BY <1>1, <1>2, <1>3, <1>4, <1>5, <1>6, <1>7 DEF ConsoleNext

\* No step of the service takes back an event or an action.
LEMMA NothingIsForgotten ==
  ASSUME IInv, [Next]_vars
  PROVE  /\ \A q \in Quote : events[q] \subseteq events'[q]
         /\ applied \subseteq applied'
  <1>1. CASE UNCHANGED vars
    BY <1>1 DEF vars
  <1>2. ASSUME NEW w \in Worker, NEW q \in Quote, NEW type \in EventType, Log(q, type),
               UNCHANGED applied
        PROVE  (\A p \in Quote : events[p] \subseteq events'[p]) /\ applied \subseteq applied'
    BY <1>2, LogGrows
  <1>3. ASSUME NEW w \in Worker, ServesCustomer(w)
        PROVE  (\A p \in Quote : events[p] \subseteq events'[p]) /\ applied \subseteq applied'
    <2>1. CASE LogCreated(w)
      <3>1. handler[w].quote \in Quote
        BY <2>1, Holding DEF LogCreated, Creating
      <3> QED
        BY <1>2, <2>1, <3>1 DEF LogCreated, EventType
    <2>2. CASE LogLocation(w)
      <3>1. handler[w].quote \in Quote
        BY <2>2, Holding DEF LogLocation, At, Locating
      <3> QED
        BY <1>2, <2>2, <3>1 DEF LogLocation, EventType
    <2>3. CASE LogSubmitted(w) \/ LogNeedsReview(w)
      <3>1. handler[w].quote \in Quote
        BY <2>3, Holding DEF LogSubmitted, LogNeedsReview, At, SubmitSteps, Submitting, Closing
      <3> QED
        BY <1>2, <2>3, <3>1 DEF LogSubmitted, LogNeedsReview, EventType
    <2>4. CASE UNCHANGED <<events, applied>>
      BY <2>4
    <2> QED
      BY <1>3, <2>1, <2>2, <2>3, <2>4
         DEF ServesCustomer, StartQuote, ReadForEdit, WriteAnswers, WriteLocation,
             ReadForSubmit, WriteSubmitted, WriteNeedsReview
  <1>4. ASSUME NEW w \in Worker, LogReview(w)
        PROVE  (\A p \in Quote : events[p] \subseteq events'[p]) /\ applied \subseteq applied'
    <2>1. handler[w].at \in {"set", "log_review"} /\ handler[w].envelope.aggregate_id \in Quote
      BY <1>4, Holding DEF LogReview, At, Fits
    <2> QED
      BY <1>2, <1>4, <2>1 DEF LogReview, EventType
  <1>5. ASSUME NEW w \in Worker, CarriesOutAction(w) \/ Fail(w)
        PROVE  (\A p \in Quote : events[p] \subseteq events'[p]) /\ applied \subseteq applied'
    BY <1>5 DEF CarriesOutAction, TrackAction, TrackNonce, ReadForReview, SetReviewing, Fail
  <1>6. ASSUME NEW w \in Worker, NEW e \in Envelope, VerifyAction(w, e)
        PROVE  (\A p \in Quote : events[p] \subseteq events'[p]) /\ applied \subseteq applied'
    BY <1>6 DEF VerifyAction
  <1> QED
    BY <1>1, <1>3, <1>4, <1>5, <1>6 DEF Next, Handles

LEMMA ConsoleInvStep == ConsoleInv /\ [ConsoleNext]_system => ConsoleInv'
  <1> SUFFICES ASSUME ConsoleInv, [ConsoleNext]_system PROVE ConsoleInv'
    OBVIOUS
  <1>1. [Next]_vars /\ ServiceInv /\ IInv /\ ActionsAreFinal
    BY ServiceMoves DEF ConsoleInv, ServiceInv
  <1>2. ServiceInv'
    BY <1>1, ServiceStays
  <1>3. /\ \A q \in Quote : events[q] \subseteq events'[q]
        /\ applied \subseteq applied'
    BY <1>1, NothingIsForgotten
  <1>4. \A e \in started :
          /\ e.aggregate_id \in Quote
          /\ e \in applied' /\ "review_started" \in events'[e.aggregate_id]
    BY <1>1, <1>3 DEF ConsoleInv, StartsAreDone, ActionsAreFinal
  <1>5. CASE UNCHANGED started
    BY <1>2, <1>4, <1>5 DEF ConsoleInv, StartsAreDone
  <1>6. ASSUME NEW w \in Worker, ReviewStarted(w) PROVE ConsoleInv'
    <2>1. /\ LogReview(w) /\ started' = started \cup {handler[w].envelope}
          /\ handler[w].at = "log_review"
      BY <1>6 DEF ReviewStarted, LogReview, At
    <2>2. handler[w].envelope \in applied
      BY <1>1, <2>1, HoldingCurrent DEF Current
    <2>3. PICK q \in Quote : q = handler[w].envelope.aggregate_id
      BY <1>1, <2>2 DEF ActionsAreFinal
    <2>4. "review_started" \in events'[q]
      BY <1>1, <2>1, <2>3, LogGrows DEF LogReview, EventType
    <2> QED
      BY <1>2, <1>3, <1>4, <2>1, <2>2, <2>3, <2>4 DEF ConsoleInv, StartsAreDone
  <1> QED
    BY <1>5, <1>6 DEF ConsoleNext, system, local, FetchProjections, FetchEnvelope, Deliver,
                      AnswerLost, ServiceStep, StartReview, GiveUp

-----------------------------------------------------------------------------
(* What forms say                                                          *)

\* A column changes only by the write of a form that has it, to what it says.
EditsOnly ==
  \A q \in Quote, c \in Column :
    Exists(q) /\ quotes'[q].columns[c] # quotes[q].columns[c] =>
      \E w \in Worker :
        /\ At(w, "write") /\ handler[w].quote = q /\ c \in DOMAIN handler[w].form
        /\ quotes'[q].columns[c] = Says(handler[w].form, c)

\* After a step the quote says what the form of the worker did before it.
HasWritten(w) ==
  \A c \in DOMAIN handler[w].form :
    quotes'[handler[w].quote].columns[c] = Says(handler[w].form, c)

LEMMA EditsAlone ==
  ASSUME ServiceInv, IInv', [Next]_vars
  PROVE  EditsOnly
  <1>1. CASE UNCHANGED quotes
    BY <1>1 DEF EditsOnly
  <1>2. ASSUME NEW w \in Worker, NEW q \in Quote, NEW lane \in BOOLEAN, StartQuote(w, q, lane)
        PROVE  EditsOnly
    BY <1>2, StartKeeps DEF EditsOnly, Exists
  <1>3. ASSUME NEW w \in Worker, WriteAnswers(w) \/ WriteLocation(w)
        PROVE  EditsOnly
    <2>1. PICK q \in Quote, row \in Row :
            /\ q = handler[w].quote
            /\ \A c \in Column : quotes'[q].columns[c] =
                 IF c \in DOMAIN handler[w].form THEN Says(handler[w].form, c)
                 ELSE quotes[q].columns[c]
            /\ \A p \in Quote \ {q} : quotes'[p] = quotes[p]
      BY <1>3, EditWrites
    <2>2. At(w, "write")
      BY <1>3 DEF WriteAnswers, WriteLocation
    <2> QED
      BY <2>1, <2>2 DEF EditsOnly
  <1>4. ASSUME NEW w \in Worker, WriteSubmitted(w) \/ WriteNeedsReview(w) PROVE EditsOnly
    <2>1. PICK q \in Quote, row \in Row :
            \/ Submits(w, q, row, "draft", "submitted")
            \/ Submits(w, q, row, "submitted", "needs_review")
      BY <1>4, SubmitWrites
    <2> QED
      BY <2>1 DEF Submits, EditsOnly
  <1>5. ASSUME NEW w \in Worker, SetReviewing(w) PROVE EditsOnly
    <2>1. PICK q \in Quote, e \in Envelope : Reviews(w, q, e)
      BY <1>5, SetReviews
    <2> QED
      BY <2>1 DEF Reviews, EditsOnly
  <1> QED
    BY <1>1, <1>2, <1>3, <1>4, <1>5
       DEF Next, Handles, ServesCustomer, CarriesOutAction, vars, LogCreated, LogLocation,
           ReadForEdit, ReadForSubmit, LogSubmitted, LogNeedsReview, VerifyAction,
           TrackAction, TrackNonce, ReadForReview, LogReview, Fail

LEMMA AcknowledgedWritten ==
  ASSUME ServiceInv, NEW w \in Worker, Acknowledges(w)
  PROVE  HasWritten(w)
  <1>1. CASE WriteAnswers(w)
    <2>1. PICK q \in Quote, row \in Row :
            /\ q = handler[w].quote /\ handler[w] \in Editing
            /\ \A c \in Column : quotes'[q].columns[c] =
                 IF c \in DOMAIN handler[w].form THEN Says(handler[w].form, c)
                 ELSE quotes[q].columns[c]
      BY <1>1, EditWrites
    <2>2. DOMAIN handler[w].form \subseteq Column
      BY <2>1, LocationForms DEF Editing
    <2> QED
      BY <2>1, <2>2 DEF HasWritten
  <1>2. CASE LogLocation(w)
    <2>1. Written(handler[w])
      BY <1>2, HoldingCurrent DEF LogLocation, At, Current
    <2> QED
      BY <1>2, <2>1 DEF LogLocation, Written, HasWritten
  <1> QED
    BY <1>1, <1>2 DEF Acknowledges

-----------------------------------------------------------------------------
(* The contract                                                            *)

\* A step that takes quote q to another stage.
LEMMA StageMoves ==
  ASSUME NEW q \in Quote, NEW from, NEW to, StageOf(q) = from, StageOf(q)' = to,
         \A p \in Quote \ {q} : StageOf(p)' = StageOf(p)
  PROVE  /\ [p \in Quote |-> StageOf(p)][q] = from
         /\ [p \in Quote |-> StageOf(p)]' = [[p \in Quote |-> StageOf(p)] EXCEPT ![q] = to]
  OBVIOUS

\* A step that takes no quote anywhere.
LEMMA StageStays ==
  ASSUME \A q \in Quote : StageOf(q)' = StageOf(q), UNCHANGED applied
  PROVE  UNCHANGED Contract!vars
  BY DEF Contract!vars

LEMMA SameStage ==
  ASSUME NEW q \in Quote,
         \/ quotes'[q] = quotes[q]
         \/ Exists(q) /\ Exists(q)' /\ quotes'[q].status = quotes[q].status
         \/ /\ Exists(q) /\ Exists(q)'
            /\ quotes[q].status = "submitted" /\ quotes'[q].status = "needs_review"
  PROVE  StageOf(q)' = StageOf(q)
  BY DEF StageOf, Exists

LEMMA ContractInit == Init => Contract!Init
  BY DEF Init, Contract!Init, StageOf, Exists

LEMMA ContractStep ==
  ASSUME ServiceInv, IInv', [Next]_vars
  PROVE  [Contract!Next]_(Contract!vars)
  <1>1. CASE UNCHANGED <<quotes, applied>>
    BY <1>1, SameStage, StageStays
  <1>2. ASSUME NEW w \in Worker, NEW q \in Quote, NEW lane \in BOOLEAN, StartQuote(w, q, lane)
        PROVE  Contract!Next
    <2>1. /\ quotes[q] = NoQuote /\ quotes'[q].status = "draft" /\ Exists(q)'
          /\ \A p \in Quote \ {q} : quotes'[p] = quotes[p]
      BY <1>2, StartKeeps
    <2>2. StageOf(q) = "absent" /\ StageOf(q)' = "draft"
      BY <2>1 DEF StageOf, Exists
    <2>3. \A p \in Quote \ {q} : StageOf(p)' = StageOf(p)
      BY <2>1, SameStage
    <2>4. UNCHANGED applied
      BY <1>2 DEF StartQuote
    <2> QED
      BY <2>2, <2>3, <2>4, StageMoves DEF Contract!Next, Contract!Start, Contract!Advance
  <1>3. ASSUME NEW w \in Worker, WriteAnswers(w) \/ WriteLocation(w)
        PROVE  UNCHANGED Contract!vars
    <2>1. PICK q \in Quote, row \in Row :
            /\ Exists(q) /\ quotes'[q].status = quotes[q].status
            /\ \A p \in Quote \ {q} : quotes'[p] = quotes[p]
            /\ UNCHANGED applied
      BY <1>3, EditWrites
    <2>2. Exists(q)'
      BY <1>3, <2>1, EditForward DEF Forward
    <2>3. \A p \in Quote : StageOf(p)' = StageOf(p)
      BY <2>1, <2>2, SameStage
    <2> QED
      BY <2>1, <2>3, StageStays
  <1>4. ASSUME NEW w \in Worker, WriteSubmitted(w) PROVE Contract!Next
    <2>1. PICK q \in Quote, row \in Row : Submits(w, q, row, "draft", "submitted")
      BY <1>4, SubmitWrites
    <2>2. Exists(q)'
      BY <1>4, <2>1, SubmitForward DEF Forward, Submits
    <2>3. StageOf(q) = "draft" /\ StageOf(q)' = "awaiting"
      BY <2>1, <2>2 DEF Submits, StageOf, Exists
    <2>4. (\A p \in Quote \ {q} : StageOf(p)' = StageOf(p)) /\ UNCHANGED applied
      BY <2>1, SameStage DEF Submits
    <2> QED
      BY <2>3, <2>4, StageMoves DEF Contract!Next, Contract!Submit, Contract!Advance
  <1>5. ASSUME NEW w \in Worker, WriteNeedsReview(w) PROVE UNCHANGED Contract!vars
    <2>1. PICK q \in Quote, row \in Row : Submits(w, q, row, "submitted", "needs_review")
      BY <1>5, SubmitWrites
    <2>2. Exists(q)'
      BY <1>5, <2>1, SubmitForward DEF Forward, Submits
    <2>3. \A p \in Quote : StageOf(p)' = StageOf(p)
      BY <2>1, <2>2, SameStage DEF Submits
    <2> QED
      BY <2>1, <2>3, StageStays DEF Submits
  <1>6. ASSUME NEW w \in Worker, SetReviewing(w) PROVE Contract!Next
    <2>1. PICK q \in Quote, e \in Envelope : Reviews(w, q, e)
      BY <1>6, SetReviews
    <2>2. StageOf(q) = "awaiting" /\ StageOf(q)' = "reviewing"
      BY <2>1 DEF Reviews, StageOf, Exists
    <2>3. \A p \in Quote \ {q} : StageOf(p)' = StageOf(p)
      BY <2>1, SameStage DEF Reviews
    <2>4. PICK a \in ActionId : a = e.action_id
      BY DEF ActionId
    <2>5. /\ a \notin {f.action_id : f \in applied}
          /\ {f.action_id : f \in applied}' = {f.action_id : f \in applied} \cup {a}
      BY <2>1, <2>4 DEF Reviews
    <2> QED
      BY <2>2, <2>3, <2>5, StageMoves DEF Contract!Next, Contract!Review, Contract!Advance
  <1> QED
    BY <1>1, <1>2, <1>3, <1>4, <1>5, <1>6
       DEF Next, Handles, ServesCustomer, CarriesOutAction, vars, LogCreated, LogLocation,
           ReadForEdit, ReadForSubmit, LogSubmitted, LogNeedsReview, VerifyAction,
           TrackAction, TrackNonce, ReadForReview, LogReview, Fail

-----------------------------------------------------------------------------
(* The theorems                                                            *)

\* The inductive invariant of the service with its console.
THEOREM ConsoleInvariance == OneProcess /\ ConsoleSpec => []ConsoleInv
  BY ConsoleInvInit, ConsoleInvStep, PTL DEF ConsoleSpec

\* What a form says stands, column by column, until the form is sent again,
\* and it does stand when the edit is acknowledged.
THEOREM EditsAreKept == OneProcess /\ ConsoleSpec => EditsStand
  <1>1. ConsoleInv /\ ConsoleInv' /\ [ConsoleNext]_system =>
          [EditsOnly /\ \A w \in Worker : Acknowledges(w) => HasWritten(w)]_vars
    <2> SUFFICES ASSUME ConsoleInv, ConsoleInv', [ConsoleNext]_system, ~UNCHANGED vars
                 PROVE  EditsOnly /\ \A w \in Worker : Acknowledges(w) => HasWritten(w)
      OBVIOUS
    <2> QED
      BY ServiceMoves, EditsAlone, AcknowledgedWritten DEF ConsoleInv, ServiceInv
  <1> QED
    BY <1>1, ConsoleInvariance, PTL DEF ConsoleSpec, EditsStand, EditsOnly, HasWritten

\* The log neither runs ahead of the table nor is contradicted by it.
THEOREM TheLogStaysTrue == OneProcess /\ ConsoleSpec => []LogIsTrue
  <1>1. ConsoleInv => LogIsTrue
    BY DEF ConsoleInv, ServiceInv
  <1> QED
    BY <1>1, ConsoleInvariance, PTL

\* What customer and operator were told is true, however requests and answers
\* travel and wherever the process fails.
THEOREM BothSidesAreTold == OneProcess /\ ConsoleSpec => []ToldIsTrue
  <1>1. ConsoleInv => ToldIsTrue
    <2> SUFFICES ASSUME ConsoleInv PROVE ToldIsTrue
      OBVIOUS
    <2>1. ASSUME NEW r \in replies, r.kind = "submit" PROVE r.quote \in Pending
      <3>1. r \in Reply /\ Exists(r.quote) /\ quotes[r.quote].status \in Status
        BY <2>1 DEF ConsoleInv, ServiceInv, IInv, TypeOK, RepliesAreKept, SubmissionsStand
      <3>2. r.quote \in Quote
        BY <3>1 DEF Reply
      <3> QED
        BY <3>1, <3>2 DEF Pending
    <2>2. \A e \in started :
            /\ e \in applied /\ "review_started" \in events[e.aggregate_id]
            /\ quotes[e.aggregate_id].status = "reviewing"
            /\ \A f \in applied : f.aggregate_id = e.aggregate_id => f = e
      BY DEF ConsoleInv, ServiceInv, StartsAreDone, ActionsAreFinal
    <2> QED
      BY <2>1, <2>2 DEF ToldIsTrue
  <1> QED
    BY <1>1, ConsoleInvariance, PTL

\* The service with its console implements QuoteReviewContract: every step of
\* either starts, submits or reviews one quote, or is one the contract does
\* not see.
THEOREM Refinement == OneProcess /\ ConsoleSpec => KeepsContract
  <1>1. ConsoleInit => Contract!Init
    BY ContractInit DEF ConsoleInit
  <1>2. ConsoleInv /\ ConsoleInv' /\ [ConsoleNext]_system => [Contract!Next]_(Contract!vars)
    BY ServiceMoves, ContractStep DEF ConsoleInv, ServiceInv
  <1> QED
    BY <1>1, <1>2, ConsoleInvariance, PTL DEF ConsoleSpec, KeepsContract, Contract!Spec
=============================================================================
