----------------------------- MODULE HostedQuotes -----------------------------
(***************************************************************************)
(* A quote on the hosted service: QuoteService and its API, and the signed *)
(* actions of local devices (hosted/api/sync.py, signing_service.py), over *)
(* the quotes, events, tracked_actions and tracked_nonces tables.          *)
(*                                                                         *)
(* Every repository call is a transaction of its own, so a handler is a    *)
(* sequence of commits.  A worker is one server process: its handlers      *)
(* never await, so it runs one at a time, and it may fail at any of them.  *)
(* With one worker, as the project is deployed, only failures come between *)
(* the commits of a handler; with two, other handlers do.  The freshness   *)
(* window, like authentication, only rejects: an envelope that arrives     *)
(* here is fresh.                                                          *)
(***************************************************************************)
CONSTANTS
  Worker,           \* server processes that share the database
  Quote,            \* quote ids
  Text,             \* what clients write into a quote
  Form,             \* the forms they send: what each column of it says
  Account,          \* accounts that submit quotes
  VerifiedAccount,  \* those with email_verified_at, or all if not required
  NoAccount,        \* the account_id of a row that has none
  Envelope,         \* signed actions that may arrive, any number of times
  TrustedDevice,    \* registered devices whose trust_state is "trusted"
  Genuine           \* envelopes whose signature verifies

\* The columns a form fills; "answers" stands for three that go together.  A
\* column left out of a form says the same as an empty one.
Column    == {"answers", "service_area", "exact_location"}
Encrypted == {"exact_location"}
Empty == ""
Null  == "NULL"

ASSUME HostedConstants ==
  /\ Null \notin Text
  /\ Form \subseteq [{"answers"} -> Text \cup {Empty}]
                 \cup [{"service_area", "exact_location"} -> Text \cup {Empty}]
  /\ VerifiedAccount \subseteq Account /\ NoAccount \notin Account
  /\ \A e \in Envelope :
       DOMAIN e = {"action_id", "device_id", "nonce", "action_kind", "aggregate_id"}
  /\ Genuine \subseteq Envelope

VARIABLES
  quotes,    \* the quotes table: NoQuote where there is no row
  events,    \* the event log: events[q] are the types logged for q
  tracked,   \* tracked_actions: action ids
  nonces,    \* tracked_nonces: <<device_id, nonce>>
  handler,   \* handler[w]: what worker w is in the middle of
  applied,   \* history: the envelopes that have moved a quote to review
  replies    \* history: the successful replies sent

vars == <<quotes, events, tracked, nonces, handler, applied, replies>>

ActionId == {e.action_id : e \in Envelope}

\* An encrypted column is null until it is first written; an exact location
\* that says nothing is encrypted like any other.
Unknown == "Unknown"
Row == [status : {"draft", "submitted", "needs_review", "reviewing"},
        service_lane : BOOLEAN,
        columns : [Column -> Text \cup {Empty, Unknown, Null}],
        account_id : Account \cup {NoAccount}]
NoQuote == [status |-> "absent"]

EventType == {"created", "location_added", "submitted", "status_changed",
              "review_started"}

\* What a worker holds between two commits: the step it is at, the quote it
\* handles, the row it read, and the request it answers.
Idle == [at |-> "idle"]
Handler ==
  [at : {"log_created"}, quote : Quote]
    \cup [at : {"write"}, form : Form, quote : Quote, row : Row]
    \cup [at : {"log_location"}, form : Form, quote : Quote]
    \cup [at : {"submit", "log_submitted", "advance"},
          account : Account, quote : Quote, row : Row]
    \cup [at : {"log_status"}, account : Account, quote : Quote]
    \cup [at : {"track_action", "track_nonce", "read", "set", "log_review"},
          envelope : Envelope]
Reply == [kind : {"answers", "location"}, quote : Quote]
           \cup [kind : {"submit"}, quote : Quote, account : Account]

Exists(q) == quotes[q] # NoQuote

Init ==
  /\ quotes = [q \in Quote |-> NoQuote]
  /\ events = [q \in Quote |-> {}]
  /\ tracked = {} /\ nonces = {} /\ applied = {} /\ replies = {}
  /\ handler = [w \in Worker |-> Idle]

Enters(w, h) == handler' = [handler EXCEPT ![w] = h]
At(w, step)  == handler[w].at = step
Goes(w, step) == handler' = [handler EXCEPT ![w].at = step]

\* Mutant: update writes every column of the object, set or not.
Stored_Whole(old, row) == [row EXCEPT !.account_id = old.account_id]

\* QuoteRepository.update writes a whole domain object over the row it finds:
\* every column but account_id, and an encrypted one unless the object has none.
Stored(old, row) ==
  [row EXCEPT !.account_id = old.account_id,
              !.columns = [c \in Column |->
                 IF c \in Encrypted /\ row.columns[c] = Null THEN old.columns[c]
                 ELSE row.columns[c]]]

Update(q, row) == quotes' = [quotes EXCEPT ![q] = Stored(quotes[q], row)]

Log(q, type) == events' = [events EXCEPT ![q] = @ \cup {type}]
Answer(reply) == replies' = replies \cup {reply}

-----------------------------------------------------------------------------
(* Starting and filling in a quote                                         *)

NewQuote(lane) == [status |-> "draft", service_lane |-> lane,
                   columns |-> [c \in Column |-> IF c \in Encrypted THEN Null ELSE Empty],
                   account_id |-> NoAccount]

Insert(q, row) == quotes' = [quotes EXCEPT ![q] = row]

StartQuote(w, q, lane) ==
  /\ At(w, "idle")
  /\ ~Exists(q)
  /\ Insert(q, NewQuote(lane))
  /\ Enters(w, [at |-> "log_created", quote |-> q])
  /\ UNCHANGED <<events, tracked, nonces, applied, replies>>

LogCreated(w) ==
  /\ At(w, "log_created")
  /\ Log(handler[w].quote, "created")
  /\ Enters(w, Idle)
  /\ UNCHANGED <<quotes, tracked, nonces, applied, replies>>

\* Neither the status of the quote nor who owns it is looked at.
ReadForEdit(w, q, form) ==
  /\ At(w, "idle")
  /\ Exists(q)
  /\ Enters(w, [at |-> "write", form |-> form, quote |-> q, row |-> quotes[q]])
  /\ UNCHANGED <<quotes, events, tracked, nonces, applied, replies>>

IsAnswers(form) == "answers" \in DOMAIN form

\* What a form makes of a column: one left empty is written empty.
Says(form, c) == IF c = "service_area" /\ form[c] = Empty THEN Unknown ELSE form[c]

\* Mutant: an edit rebuilds the quote from its own fields.
Edited_Rebuilt(h) ==
  [h.row EXCEPT !.columns = [c \in Column |->
     IF c \in DOMAIN h.form THEN Says(h.form, c) ELSE Empty]]

\* A form overwrites all of its columns, and no other.
Edited(h) ==
  [h.row EXCEPT !.columns = [c \in Column |->
     IF c \in DOMAIN h.form THEN Says(h.form, c) ELSE @[c]]]

WriteAnswers(w) ==
  /\ At(w, "write") /\ IsAnswers(handler[w].form)
  /\ Update(handler[w].quote, Edited(handler[w]))
  /\ Answer([kind |-> "answers", quote |-> handler[w].quote])
  /\ Enters(w, Idle)
  /\ UNCHANGED <<events, tracked, nonces, applied>>

WriteLocation(w) ==
  /\ At(w, "write") /\ ~IsAnswers(handler[w].form)
  /\ Update(handler[w].quote, Edited(handler[w]))
  /\ Enters(w, [at |-> "log_location", form |-> handler[w].form,
                quote |-> handler[w].quote])
  /\ UNCHANGED <<events, tracked, nonces, applied, replies>>

LogLocation(w) ==
  /\ At(w, "log_location")
  /\ Log(handler[w].quote, "location_added")
  /\ Answer([kind |-> "location", quote |-> handler[w].quote])
  /\ Enters(w, Idle)
  /\ UNCHANGED <<quotes, tracked, nonces, applied>>

-----------------------------------------------------------------------------
(* Submitting a quote                                                      *)

\* Mutant: a quote may be submitted in any state.
CanSubmit_Again(row) == row.service_lane

CanSubmit(row) == row.status = "draft" /\ row.service_lane

ReadForSubmit(w, q, a) ==
  /\ At(w, "idle")
  /\ Exists(q) /\ CanSubmit(quotes[q])
  /\ a \in VerifiedAccount
  /\ Enters(w, [at |-> "submit", account |-> a, quote |-> q, row |-> quotes[q]])
  /\ UNCHANGED <<quotes, events, tracked, nonces, applied, replies>>

\* The object goes on with the row as it was stored.
WriteSubmitted(w) ==
  LET h == handler[w]
      row == [h.row EXCEPT !.status = "submitted", !.account_id = h.account]
  IN /\ At(w, "submit")
     /\ Update(h.quote, row)
     /\ Enters(w, [h EXCEPT !.at = "log_submitted",
                            !.row = Stored(quotes[h.quote], row)])
     /\ UNCHANGED <<events, tracked, nonces, applied, replies>>

LogSubmitted(w) ==
  /\ At(w, "log_submitted")
  /\ Log(handler[w].quote, "submitted")
  /\ Goes(w, "advance")
  /\ UNCHANGED <<quotes, tracked, nonces, applied, replies>>

WriteNeedsReview(w) ==
  /\ At(w, "advance")
  /\ Update(handler[w].quote, [handler[w].row EXCEPT !.status = "needs_review"])
  /\ Enters(w, [at |-> "log_status", account |-> handler[w].account,
                quote |-> handler[w].quote])
  /\ UNCHANGED <<events, tracked, nonces, applied, replies>>

Submitted(h) == [kind |-> "submit", quote |-> h.quote, account |-> h.account]

LogNeedsReview(w) ==
  /\ At(w, "log_status")
  /\ Log(handler[w].quote, "status_changed")
  /\ Answer(Submitted(handler[w]))
  /\ Enters(w, Idle)
  /\ UNCHANGED <<quotes, tracked, nonces, applied>>

-----------------------------------------------------------------------------
(* Signed local actions                                                    *)

\* Mutant: a replayed nonce is not noticed and is tracked again.
NonceOf_Fresh(e) == <<e.device_id, e.nonce, e.action_id>>

NonceOf(e) == <<e.device_id, e.nonce>>

Seen(e) == e.action_id \in tracked \/ NonceOf(e) \in nonces

\* Mutant: the signature is not part of what admits an envelope.
Admissible_Unsigned(e) == e.device_id \in TrustedDevice /\ ~Seen(e)

Admissible(e) == e.device_id \in TrustedDevice /\ ~Seen(e) /\ e \in Genuine

\* Mutant: an envelope goes to its handler without being tracked.
VerifyAction_Untracked(w, e) ==
  /\ At(w, "idle")
  /\ Admissible(e)
  /\ Enters(w, [at |-> "read", envelope |-> e])
  /\ UNCHANGED <<quotes, events, tracked, nonces, applied, replies>>

\* verify_action up to the signature: it has read both tables, written none.
VerifyAction(w, e) ==
  /\ At(w, "idle")
  /\ Admissible(e)
  /\ Enters(w, [at |-> "track_action", envelope |-> e])
  /\ UNCHANGED <<quotes, events, tracked, nonces, applied, replies>>

\* Inserts an action id or a nonce; a duplicate key is an error that ends the
\* handler with whatever it has committed.
Inserts(w, key, table, next) ==
  Enters(w, IF key \in table THEN Idle ELSE [handler[w] EXCEPT !.at = next])

TrackAction(w) ==
  /\ At(w, "track_action")
  /\ Inserts(w, handler[w].envelope.action_id, tracked, "track_nonce")
  /\ tracked' = tracked \cup {handler[w].envelope.action_id}
  /\ UNCHANGED <<quotes, events, nonces, applied, replies>>

TrackNonce(w) ==
  /\ At(w, "track_nonce")
  /\ Inserts(w, NonceOf(handler[w].envelope), nonces, "read")
  /\ nonces' = nonces \cup {NonceOf(handler[w].envelope)}
  /\ UNCHANGED <<quotes, events, tracked, applied, replies>>

\* Mutant: any quote that exists may go to review.
Reviewable_Always(e) == Exists(e.aggregate_id)

Reviewable(e) ==
  /\ e.action_kind = "QUOTE_REVIEW_START"
  /\ e.aggregate_id \in Quote /\ Exists(e.aggregate_id)
  /\ quotes[e.aggregate_id].status \in {"submitted", "needs_review"}

\* A refused action stays tracked: it cannot be sent again.
ReadForReview(w) ==
  /\ At(w, "read")
  /\ Enters(w, IF Reviewable(handler[w].envelope)
               THEN [handler[w] EXCEPT !.at = "set"] ELSE Idle)
  /\ UNCHANGED <<quotes, events, tracked, nonces, applied, replies>>

\* Writes the status alone, whatever it is by now.
UpdateStatus(q, status) == quotes' = [quotes EXCEPT ![q].status = status]

SetReviewing(w) ==
  LET e == handler[w].envelope IN
  /\ At(w, "set")
  /\ UpdateStatus(e.aggregate_id, "reviewing")
  /\ applied' = applied \cup {e}
  /\ Goes(w, "log_review")
  /\ UNCHANGED <<events, tracked, nonces, replies>>

LogReview(w) ==
  /\ At(w, "log_review")
  /\ Log(handler[w].envelope.aggregate_id, "review_started")
  /\ Enters(w, Idle)
  /\ UNCHANGED <<quotes, tracked, nonces, applied, replies>>

-----------------------------------------------------------------------------

\* The process dies, or a commit fails: what was committed stays.
Fail(w) ==
  /\ ~At(w, "idle")
  /\ Enters(w, Idle)
  /\ UNCHANGED <<quotes, events, tracked, nonces, applied, replies>>

ServesCustomer(w) ==
  \/ \E q \in Quote, lane \in BOOLEAN : StartQuote(w, q, lane)
  \/ LogCreated(w)
  \/ \E q \in Quote, form \in Form : ReadForEdit(w, q, form)
  \/ WriteAnswers(w) \/ WriteLocation(w) \/ LogLocation(w)
  \/ \E q \in Quote, a \in Account : ReadForSubmit(w, q, a)
  \/ WriteSubmitted(w) \/ LogSubmitted(w)
  \/ WriteNeedsReview(w) \/ LogNeedsReview(w)

\* An action that was admitted, up to its answer.
CarriesOutAction(w) ==
  TrackAction(w) \/ TrackNonce(w) \/ ReadForReview(w) \/ SetReviewing(w)

Handles(w) ==
  \/ ServesCustomer(w)
  \/ \E e \in Envelope : VerifyAction(w, e)
  \/ CarriesOutAction(w) \/ LogReview(w)
  \/ Fail(w)

Next == \E w \in Worker : Handles(w)

Spec == Init /\ [][Next]_vars

-----------------------------------------------------------------------------
(* Properties that hold for any number of workers                          *)

\* Every variable stays in its domain.
TypeOK ==
  /\ quotes \in [Quote -> Row \cup {NoQuote}]
  /\ events \in [Quote -> SUBSET EventType]
  /\ tracked \subseteq ActionId
  /\ nonces \subseteq {NonceOf(e) : e \in Envelope}
  /\ handler \in [Worker -> Handler \cup {Idle}]
  /\ applied \subseteq {e \in Envelope : e.action_id \in tracked}
  /\ replies \subseteq Reply

\* However often an envelope arrives, and at however many workers at once, it
\* moves a quote to review at most once, and no other does that has the same
\* action id, or the same nonce of the same device.
AppliedOnce ==
  [][\A w \in Worker : At(w, "set") /\ handler'[w].at = "log_review" =>
       LET e == handler[w].envelope IN
       \A f \in applied :
         /\ f.action_id # e.action_id
         /\ <<f.device_id, f.nonce>> # <<e.device_id, e.nonce>>]_vars

\* A forged envelope uses up neither an action id nor a nonce: the signature
\* is checked before anything is tracked.
OnlyGenuineTracked ==
  /\ \A a \in tracked : \E e \in Genuine : e.action_id = a
  /\ \A n \in nonces : \E e \in Genuine : NonceOf(e) = n

\* A quote is in review only because a trusted device's genuine action put it
\* there, although any stale writer may write a status back.
ReviewIsExplained ==
  \A q \in Quote : Exists(q) /\ quotes[q].status = "reviewing" =>
    \E e \in applied :
      e \in Genuine /\ e.device_id \in TrustedDevice /\ e.aggregate_id = q

\* Once a client was told that its location is stored, the quote has an exact
\* location for good.  A copy read earlier may put an older one back, and a
\* later form may say nothing there, but no copy read before there was one
\* takes the column away again.
ExactLocationStays ==
  \A r \in replies : r.kind = "location" =>
    quotes[r.quote].columns["exact_location"] # Null

-----------------------------------------------------------------------------
(* Properties that hold when a single worker serves all requests           *)

\* The step that answers an edit.
Acknowledges(w) == WriteAnswers(w) \/ LogLocation(w)

\* What clients wrote stands until the same form is sent again.  A column of a
\* quote changes only when a form that has it is written, and to what that
\* form says; neither the other form, a submission nor a review, all of which
\* write the row as well, touch it, wherever they fail.  And when an edit is
\* acknowledged, the row says what its form did.
EditsStand ==
  [][/\ \A q \in Quote, c \in Column :
          Exists(q) /\ quotes'[q].columns[c] # quotes[q].columns[c] =>
            \E w \in Worker :
              /\ At(w, "write") /\ handler[w].quote = q /\ c \in DOMAIN handler[w].form
              /\ quotes'[q].columns[c] = Says(handler[w].form, c)
     /\ \A w \in Worker : Acknowledges(w) =>
          \A c \in DOMAIN handler[w].form :
            quotes'[handler[w].quote].columns[c] = Says(handler[w].form, c)]_vars

\* The log never runs ahead of the table, and is never contradicted by it.
LogIsTrue ==
  \A q \in Quote :
    /\ events[q] # {} => Exists(q)
    /\ "submitted" \in events[q] => quotes[q].status # "draft"
    /\ "status_changed" \in events[q] => quotes[q].status \in {"needs_review", "reviewing"}
    /\ "review_started" \in events[q] => quotes[q].status = "reviewing"

StageOf(q) ==
  IF Exists(q) THEN CASE quotes[q].status = "draft" -> "draft"
                      [] quotes[q].status = "reviewing" -> "reviewing"
                      [] OTHER -> "awaiting"
  ELSE "absent"

Contract == INSTANCE QuoteReviewContract WITH
  stage   <- [q \in Quote |-> StageOf(q)],
  applied <- {e.action_id : e \in applied}

\* Submission and review each happen once and nothing takes a quote back.
KeepsContract == Contract!Spec

-----------------------------------------------------------------------------
(* What the code says and does not do                                      *)

\* "Submit the quote ensuring the account owns it" (api/quotes.py:171): the
\* account that submitted a quote is the one its row names.
SubmitterOwnsQuote ==
  \A r \in replies : r.kind = "submit" => quotes[r.quote].account_id = r.account
=============================================================================
