---------------------------- MODULE ReviewConsole ----------------------------
(***************************************************************************)
(* The operator's console at work on the hosted service: LocalSyncClient,  *)
(* LocalQuoteReviewService and LocalDeviceSigningService of the console,   *)
(* the page that calls them, and the network to the service, which is      *)
(* HostedQuotes with its signed actions arriving from here.                *)
(*                                                                         *)
(* The console's handlers call the service synchronously inside their      *)
(* event loop, so the console waits for one answer at a time, at most ten  *)
(* seconds: a request may be served late, again, or never, and its answer  *)
(* lost.  The page is another matter: any number of them stay open with    *)
(* what they were last shown.  Ciphertexts are not modelled, nor is the    *)
(* authorization window (SecureUnlock), which a review start does not ask. *)
(***************************************************************************)
EXTENDS HostedQuotes

VARIABLES
  console,  \* what the console is waiting for
  pages,    \* the review pages the operator has open: a quote and its status
  sent,     \* the envelopes the console has signed; the network keeps them
  started   \* history: those answered with success, answers that arrived

\* The service runs in one process: __main__.py starts uvicorn without workers.
OneProcess == \A v, w \in Worker : v = w

local  == <<console, pages, sent, started>>
system == <<vars, local>>

Free == [at |-> "idle"]
Status == {"submitted", "needs_review", "reviewing"}
Page == [quote : Quote, status : Status]

ConsoleInit ==
  /\ Init
  /\ console = Free
  /\ pages = {} /\ sent = {} /\ started = {}

\* Mutant: only quotes whose submission went through are listed.
Pending_NeedsReview == {q \in Quote : Exists(q) /\ quotes[q].status = "needs_review"}

\* What GET /api/sync/quotes/pending lists.
Pending == {q \in Quote : Exists(q) /\ quotes[q].status \in Status}

-----------------------------------------------------------------------------
(* Looking at a quote: two requests, with the service at work in between   *)

FetchProjections(w, q) ==
  /\ console = Free /\ At(w, "idle")
  /\ q \in Pending
  /\ console' = [at |-> "listed", page |-> [quote |-> q, status |-> quotes[q].status]]
  /\ UNCHANGED <<vars, pages, sent, started>>

\* What GET /api/sync/quotes/{quote_id}/envelope is answered for.
HasEnvelope(q) == Exists(q)

FetchEnvelope(w) ==
  /\ console.at = "listed" /\ At(w, "idle")
  /\ HasEnvelope(console.page.quote)
  /\ pages' = pages \cup {console.page}
  /\ console' = Free
  /\ UNCHANGED <<vars, sent, started>>

-----------------------------------------------------------------------------
(* Starting a review                                                       *)

\* The page offers the button by the status it shows, however old that is.
Offers(page) == page.status \in {"submitted", "needs_review"}

\* sign_action generates both ids.
Fresh(e) == \A f \in sent : f.action_id # e.action_id /\ NonceOf(f) # NonceOf(e)

StartReview(page, e) ==
  /\ console = Free
  /\ page \in pages /\ Offers(page)
  /\ e \in Genuine /\ Fresh(e)
  /\ e.action_kind = "QUOTE_REVIEW_START" /\ e.aggregate_id = page.quote
  /\ sent' = sent \cup {e}
  /\ console' = [at |-> "pushing", envelope |-> e]
  /\ UNCHANGED <<vars, pages, started>>

\* The network delivers what was sent, in any order and any number of times,
\* and what somebody else made up.
Deliver(w, e) ==
  /\ e \in sent \cup (Envelope \ Genuine)
  /\ VerifyAction(w, e)
  /\ UNCHANGED local

\* The service finishes the action that the console waits for, and is heard.
ReviewStarted(w) ==
  /\ LogReview(w)
  /\ console.at = "pushing" /\ console.envelope = handler[w].envelope
  /\ started' = started \cup {console.envelope}
  /\ console' = Free
  /\ UNCHANGED <<pages, sent>>

\* It finishes another delivery, or its answer comes too late.
AnswerLost(w) ==
  /\ LogReview(w)
  /\ UNCHANGED local

\* A refusal, a timeout or a failure: the operator sees an error, and may try
\* again from the page that is still open.
GiveUp ==
  /\ console # Free
  /\ console' = Free
  /\ UNCHANGED <<vars, pages, sent, started>>

ServiceStep(w) ==
  /\ ServesCustomer(w) \/ CarriesOutAction(w) \/ Fail(w)
  /\ UNCHANGED local

ConsoleNext ==
  \/ \E w \in Worker :
       \/ \E q \in Quote : FetchProjections(w, q)
       \/ FetchEnvelope(w)
       \/ \E e \in Envelope : Deliver(w, e)
       \/ ReviewStarted(w) \/ AnswerLost(w)
       \/ ServiceStep(w)
  \/ \E page \in pages, e \in Envelope : StartReview(page, e)
  \/ GiveUp

ConsoleSpec == ConsoleInit /\ [][ConsoleNext]_system

-----------------------------------------------------------------------------
(* Properties                                                              *)

\* What the service told its two sides is true.  A quote whose customer was
\* told that it is submitted is in the list its operator is given.  A review
\* that the operator was told has started is under way, on record, and was
\* started by that request alone: not by an earlier one whose answer was lost
\* and which was then made again with fresh ids, nor from another page.
ToldIsTrue ==
  /\ \A r \in replies : r.kind = "submit" => r.quote \in Pending
  /\ \A e \in started :
       /\ quotes[e.aggregate_id].status = "reviewing"
       /\ "review_started" \in events[e.aggregate_id]
       /\ \A f \in applied : f.aggregate_id = e.aggregate_id => f = e
=============================================================================
