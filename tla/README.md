# Intake: a verification development

Intake takes repair quotes from customers on a small hosted web service and
keeps the sensitive half of the work (photos, exact locations, review, costs)
on the owner's own computer.  This directory holds TLA+ modules translated
from its source, TLC configurations that model-check them, and TLAPS proofs.
`PROJECT.json` lists the components, the runs, the lines each definition
stands for, the hazards of the code and the theorems.

    tlc -config LocalReceiver.cfg MCLocalReceiver     # one run
    tlapm LocalReceiverProofs.tla                     # the proofs of one module

## 1. The system and its parts

Two server processes, one on each side of a boundary, a browser on each side,
and on the owner's Mac a native shell that launches the local one.

* **Hosted service** (`intake.app`, uvicorn over SQLite): sign-in by passkey,
  email verification, quotes, the upload session broker, binary upload, and the
  endpoint that accepts signed actions from local devices.
* **Local console** (`intake.local_console`): secure unlock, quote review, the
  local receiver that client browsers upload to directly, the cost ledger.
* **Native shell** (`apps/IntakeMac`): launches the console, performs OS
  authentication and asks the console to unlock or lock.

Two facts about the code shape every model.

1. *A handler is a sequence of commits.*  The repositories under `storage/`
   open one database session per call, so each repository call is a
   transaction of its own, and a failure can fall between any two of them.
2. *Handlers do not await.*  All are `async def` and none suspends once its
   request is read and its dependencies are there (section 4), so in one process
   a handler runs to its end before another starts.  Time still passes inside one, and a second worker process, where there is one, can
   interleave at every commit.  The review handler is no exception: its two
   fetches are blocking calls that keep the event loop for seconds.

| Component | State it keeps | Operations | What makes it correct |
|---|---|---|---|
| Local receiver (`local_console/receiver`) | in memory: sessions, file records; on disk: one directory per session | create session, upload (buffered and streamed), complete, receipt, cleanup | quotas hold although a streamed file is admitted unmeasured; what was acknowledged is on disk and in the receipt; cleanup takes only lapsed sessions |
| Quotes and signed actions (`services/quote_service.py`, `hosted/api/sync.py`, `services/signing_service.py`) | `quotes`, `events`, `tracked_actions`, `tracked_nonces` | create, answers, location, submit; verify, track, start review | a quote moves forward, once; what a form wrote stands until that form is sent again; the log does not contradict the table; an action takes effect at most once |
| Review console (`local_console/sync_client.py`, `local_console/review_service.py`, its quote pages) | the pages that are open, the requests under way | list, open, start review | the operator is told of a review only when it has begun, however requests and answers travel |
| Passkeys and sessions (`services/passkey_service.py`, `services/session_service.py`, `api/deps.py`) | challenges, accounts, credentials, sessions, cookies | register, sign in, sign out, serve a request, expiry | a challenge opens one session; counters go up; a request is served for the account its passkey was registered for, and not after its sign-out |
| Email verification (`services/email_verification_service.py`) | codes, `accounts` | start, verify | a code works once, for its account, before it expires, and not after too many guesses |
| Secure unlock (`local_console/api/security.py`, `security/unlock.py`, `apps/IntakeMac`) | challenges and window in the console; tasks in the shell | challenge, authenticate, unlock, lock, review | every opening was earned by one OS authentication; a lock is never overtaken by a review; the window closes by itself |
| Cost ledger (`costs/`, `local_console/api/costs.py`) | scenarios with line items, assumptions, snapshots and totals, receipts, all in memory | create, add, replace, delete, receipt | totals match the items; a receipt is a snapshot |
| Upload broker and route decision (`services/upload_session_broker.py`, `local_console/receiver/route_decision.py`, `hosted/api/upload_broker.py`) | in memory: sessions, receipts, the fallback, the receiver's status | decide and open a route, process a receipt, list the sessions | a receipt was invited; owners see every live session; the log claims no receipt that was refused |
| Hosted binary upload (`services/upload_service.py`, `services/storage_service.py`) | files, the `uploads` table, `events` | upload, list | what is listed, logged or answered is stored; limits are passed by a bounded amount |
| Projections, proof rail, deployment plans, doctor | none | redact, report | pure functions and formatting |

How they interact.  The broker sends a client to a provider, the receiver or a
buffer, whose receipts return to it.  Quotes become reviewable on the
hosted side; the console fetches their redacted projections, decrypts while its
window is open, and pushes a signed `QUOTE_REVIEW_START` that moves the quote.
Email verification writes the account column that submission requires.  The
shell alone holds the capability that makes an unlock request genuine.

The hard behaviours are those facts 1 and 2 leave: failures between commits, two
workers between a read and a write, requests and envelopes that arrive late or
again, deadlines that pass inside a handler, tables in memory that die while
files survive, and a quota decided before a size is known.  `PROJECT.json` has
them one by one under `hazards`, each at its line with the properties aimed at
it, or with the reason no property covers it.

## 2. The modules

| Module | Models | Its relation to the code |
|---|---|---|
| `UploadSessionContract` | what an upload session promises: it opens, accepts, seals, closes | abstract; kept by the receiver and by the broker |
| `LocalReceiver` | the local receiver | one action per step of a handler that touches disk (`pc`), otherwise one per handler |
| `QuoteReviewContract` | the life of a quote | abstract; kept by the hosted service with the console |
| `HostedQuotes` | quotes and signed actions | one action per commit; `handler[w]` is where worker `w` is and the row it read; of a column it keeps what the client wrote, or that it is empty, `Unknown` or null |
| `ReviewConsole` | composes it with the operator's console | extends `HostedQuotes`; `sent` are requests that may be delivered late, twice or never, `pages` what the operator was shown; `OneProcess`, that there is one worker, is what its run assumes and its theorems take as hypothesis, since `__main__.py` starts uvicorn without workers |
| `EmailVerification` | start and verify | one action per commit of the single process |
| `Passkeys` | registration, sign-in, sign-out, requests that carry a session | one action per commit; `responses` are what authenticators signed, never removed, so that any may arrive again |
| `LocalAuthorization` | the console's challenges, window and event loop | the backend half; declares no specification of its own |
| `SecureUnlock` | composes it with the shell | extends `LocalAuthorization`; requests on their way are `posts` and `lockSent` |
| `CostLedger` | scenarios, items, assumptions, snapshots, totals, receipts | one action per endpoint or calculator operation |
| `UploadQuotes` | the quotes table as uploads look at it | `QuotesInit` and `CloseQuote`, which the next two extend |
| `UploadBroker` | the broker, its endpoints and the route decision | one action per endpoint, and one per commit or answer of a receipt (`handling`); a restart, at any of them, forgets the tables |
| `HostedUploads` | `handle_upload` | one action per write; `job[w]` is where worker `w` is |
| `QuoteUploads` | composes the two behind `api_router` | extends both; they share the quotes table and the path of a list |
| `LocalReceiverProofs`, `EmailVerificationProofs`, `PasskeysProofs`, `UploadBrokerProofs`, `HostedUploadsProofs` | theorems about the module each is named after | proof modules; an invariant that only a proof needs is defined there |
| `ReviewConsoleProofs` | theorems about `HostedQuotes`, then about `ReviewConsole` | the same; the second part builds on the invariant of the first |
| `LocalConsoleProofs` | theorems about `SecureUnlock`, then about `CostLedger` | the same; what the console keeps in memory, in two parts that share no state |
| `FoldLemmas` | what the sums over sets and the loops over sequences compute | facts without state, for the proofs above |
| `MC...` | constants and symmetry sets | one per module that is checked; `MCLocalConsole` and `MCQuoteUploads` also say how two parts that share a process are explored together |

Each module names its variables after the code's (`sessions`, `files`,
`tracked`, `challenges`); a variable marked *history* is not in the code and
only remembers what clients were told.  An operator commented `Mutant:` stands
beside the definition it damages; `PROJECT.json` pairs them, and each property
is violated under at least one of them.

## 3. The runs

| Run | Checks | Bounds | States |
|---|---|---|---|
| `local_receiver` | types, quotas, totals, records on disk, final receipts, no bytes of a rejected file, live files kept; implements `UploadSessionContract` | 2 sessions, 2 uploads, 3 instants, files of 0, 2 or 3 units, 2 kinds of limits | 201 777 |
| `receiver_cleanup` (violation) | a cleanup pass cleans what it set out to | 1 session, 1 upload | stops |
| `quotes_workers` | types, only genuine actions tracked, review explained, exact location never removed, applied once | 2 workers, 1 quote, 3 forms, 2 genuine envelopes that share a nonce and a forgery | 2 762 903 |
| `review_console` | edits stand, truthful log, truthful answers; implements `QuoteReviewContract` | 1 worker, 1 quote, 4 forms, 2 accounts of which 1 is verified, 3 actions the console may sign and a forgery | 1 384 935 |
| `quote_owner` (violation) | the submitter owns the quote | 1 worker, 1 account | stops |
| `email` | types, guess limit, verified by its own code, mail only to the holder | 2 accounts, 2 addresses, 2 codes, 2 attempts, 3 guesses, 3 instants | 1 389 514 |
| `passkeys` | types, one session per challenge, counters go up, requests are own | 2 authenticators (1 counts), 3 challenges, 2 accounts, 3 instants | 868 239 |
| `local_console` | types, every opening earned, no review after a lock, the window closes; totals match items, receipts are snapshots | 2 challenge tokens, 2 shell tasks, lifetimes of 2 ticks; 2 scenarios, 2 items each, 1 note of each kind, 1 receipt, 3 kinds of items, 2 providers | 389 530 |
| `window_use` (violation) | use keeps the window open | the same | stops |
| `cost_answer` (violation) | a change is answered | the same | stops |
| `quote_uploads` | types, what is shown is stored, limits passed by a bounded amount; every receipt was invited, owners see every live session, truthful log; implements `UploadSessionContract` | 2 quotes, 2 accounts of which 1 is verified; 2 workers, 3 uploads, 2 kinds of files, 2 files or 2 units a quote; 2 sessions, 2 receipts, 2 instants, 3 providers | 1 632 409 |
| `receipts_shown` (violation) | owners see the receipts of their quotes | the same | stops |

What they show, and why the bounds are enough for the cases they are about:

* **`local_receiver`.**  Two sessions let cleanup of one meet an upload to the
  other; two uploads let a streamed file be admitted when only the first
  fits (limits 3 and 5 with files of 2), an oversize one (3 > 2) be rejected
  after it is stored, and an empty one leave its file behind.  Three instants
  let a session lapse between any two steps.  The refinement says that
  through all of it a client sees sessions that open, accept, seal once and
  close.
* **`quotes_workers`, `review_console`.**  What is true with several workers
  is checked with two; what is only true because the program is deployed with
  one process is checked with one, and is named as such in the module: a stale
  write by a second worker would revert a submission, a review or an edit, an
  acknowledged location included.  What no stale copy can do is to take an exact
  location away, or to put a quote in review.  The forms are sent filled in and
  left empty, since a form overwrites all of its columns either way.  One quote is
  enough, because handlers of different quotes share only the action and nonce
  tables, whose keys the envelopes exercise: a repeat of each id, a reuse of a
  nonce, a forgery.  In `review_console` the console signs up to three
  actions, so that an operator who never saw the answer to a first can press
  again, and an answer to the first can still arrive after the second.
* **`email`.**  Two codes allow one account to hold two active ones, and each of
  two accounts to hold a code for the same address.  Guesses are bounded just
  above the limit.
* **`passkeys`.**  Three challenges allow a registration, a sign-in and a
  second response that arrives out of order; the second authenticator, one
  that does not count, is what `CountersGoUp` must exempt.  Two accounts and a
  sign-out between sending a request and serving it are what `RequestsAreOwn`
  needs.
* **`local_console`.**  Two tasks and two tokens: one request can be late while
  another unlock completes.  Lifetimes are counted down, so there is no clock
  bound and the whole graph is checked, deadlock included.  In the ledger a
  receipt can precede a further item, a replacement or a deletion; a second
  scenario must not change under either.  Two items of one provider meet in one
  breakdown entry, and the third is of another provider.  Secure unlock and the
  ledger share the process and no state, and neither has a step in which the
  other could interfere, so each is explored with the other as a launched
  process has it (`JustLaunched`, `LedgerInit`).
* **`quote_uploads`.**  Of the files the service takes: two workers and a limit of
  two let both be admitted as the last; the third upload is the one that meets
  a full quote.  The video has two units and the limit on bytes is two, so one
  file can pass it by one.  Of the broker: with two sessions a receipt may name
  the session of another quote, or one of an earlier process; with two receipts
  one of them may be a repeat, or be stored while the log knows of another.  A
  session lives for the instant it is opened in, so that one tick expires it.
  The content type the receiver does not take, and the fallback that may or may
  not be set, lead to each of the three routes.  The two sides read the quotes
  table, whose rows they do not write, and each is explored while the other has
  done nothing yet.

The bounds on time, ids, guesses, sessions and uploads are in the guards, so
runs of bounded modules end in states without a successor: `CHECK_DEADLOCK FALSE`
where that happens (`LocalReceiver`, `EmailVerification`, `Passkeys`,
`QuoteUploads`).  `HostedQuotes`, `ReviewConsole`, `SecureUnlock` and
`CostLedger` never stop and are checked for deadlock.

## 4. Findings

Each is a run that TLC must find violated.

* `SubmitterOwnsQuote` (code): `submit_quote` sets `account_id` in memory and
  `QuoteRepository.update` does not write that column, so no quote in the table
  has an owner, and every owner check of the upload endpoints refuses the
  customer who submitted it.
* `CleanupPassCleans` (code): `cleanup_session` starts its result with
  `"iles_deleted"` and increments `"files_deleted"`; the first leftover file
  ends the whole pass with a `KeyError`.
* `ChangeIsAnswered` (code): the line-item endpoint changes the ledger and then
  reads a field line items do not have; the user who retries has it twice.
* `UseKeepsOpen` (document): `local_security.md:43` says that the window closes
  after 120 s of inactivity; `is_unlocked` does not move the deadline that
  `unlock` set, so it closes 120 s after it was opened, in the middle of work
  too.  The docstring of `unlock.py:17` says what the code does, and
  `WindowCloses` is about that.
* `OwnersSeeReceipts` (document): two handlers have the path
  `GET /quotes/{quote_id}/uploads`.  `api_router` includes the quotes' router
  first, so the path lists the rows of the `uploads` table, which no receipt of
  the broker reaches: the owner of a quote is shown none of them.
  `upload_broker.md:63` promises all, and `hosted/api/upload_broker.py:7` its
  receipts; `list_upload_receipts` is called by tests only, and is no operation
  of the model.

Where one of these calls always fails, the model has the failure (`AddLineItem`
and `CleanSessionRaises` end in an error), and the other properties are those
that hold all the same.

Other places where the code does what its reader may not expect are in the
models as they are, without a run of their own:

* `verify_code` commits and then calls a method the event log does not have:
  whoever is verified is told of an error (`MarkVerified`).
* Asking for the receipt of an active receiver session completes it, and a
  completed one has no receipt to give (`GetSessionReceipt`).
* The broker starts with a fallback its route decision is not given; until
  somebody sets one, no route falls back (`Fresh`).
* `start_review` signs and pushes without asking whether the window is open
  (`BeginSign`).
* The quality of a cost scenario starts as the worst there is and is only ever
  replaced by worse, so it stays there whatever the items are (`Quality`).
* Two things the models take as one instant may, in the code, be apart.  The
  broker is made at its first use, by a dependency that runs in a thread, so two
  first requests at once could make two, of which one is dropped; the modules
  start when there is one.  And dependencies that look at the session run in
  such a thread before the handler does, so a sign-out may be served between
  that look and the handler (`Passkeys`: `ServeRequest` is both).
* The button of the console's quote page stays disabled after a review was
  started, for other quotes too, until the page is loaded again
  (`main.js:477-491`).  `StartReview` does not need it enabled.

## 5. Fairness

All specifications but one state safety only and assume no fairness: clients
may stop, requests may never come.  `SecureUnlock` assumes `WF_vars(Tick)`, that
time passes, and nothing else: no request is sure to be served, no task to end.
`WindowCloses` needs no more, because the window has no timer whose firing could
be delayed; it is closed by whoever reads the clock.  The antecedent, that from
some point on the shell has nothing under way, is a condition on the user, and
the run's fair behaviours include those that meet it while reviews go on
forever.  There the property fails if a check does not compare the clock
(`BackendTick_Unclosed`).  The run states the same fairness for the steps of
`SecureUnlock` in it.

## 6. Proofs

Each theorem holds for every value of the constants that meets the module's
assumption, which TLC evaluates in every run of the module.  The assumptions
say what kind of values the constants are (limits positive, verified accounts
among the accounts, "none" not a value) and nothing about how many there are,
except that the receiver has room for one session and one file and knows one
quote, and that binary upload has finitely many kinds of files, and workers, of
which there is one at least.  `OneProcess` says more, and is therefore no
assumption but a hypothesis of the theorems that need it: what it is for is
said below.

| Module, assumption | Theorem | States |
|---|---|---|
| `LocalReceiverProofs`, `ReceiverConstants` | `TypeCorrect` | `Spec => []TypeOK` |
| | `QuotasHold` | `Spec => []QuotaRespected` |
| | `TotalsMatch` | `Spec => []TotalMatchesAcked` |
| | `RecordsOnDisk` | `Spec => []RecordedOnDisk` |
| | `ReceiptsAreFinal` | `Spec => []ReceiptIsFinal` |
| | `LiveFilesAreKept` | `Spec => LiveFilesKept`, an action property |
| | `RejectedAreRemoved` | `Spec => []RejectedLeavesNoBytes` |
| | `Refinement` | `Spec => KeepsContract`: it implements `UploadSessionContract` |
| `ReviewConsoleProofs`, `HostedConstants` | `TypeCorrect` | `Spec => []TypeOK` |
| | `GenuineTracked` | `Spec => []OnlyGenuineTracked` |
| | `ReviewsExplained` | `Spec => []ReviewIsExplained` |
| | `LocationsStay` | `Spec => []ExactLocationStays` |
| | `EachAppliedOnce` | `Spec => AppliedOnce`, an action property |
| | `EditsAreKept` | `OneProcess /\ ConsoleSpec => EditsStand`, an action property |
| | `TheLogStaysTrue` | `OneProcess /\ ConsoleSpec => []LogIsTrue` |
| | `BothSidesAreTold` | `OneProcess /\ ConsoleSpec => []ToldIsTrue` |
| | `Refinement` | `OneProcess /\ ConsoleSpec => KeepsContract`: they implement `QuoteReviewContract` |
| `EmailVerificationProofs`, `EmailConstants` | `TypeCorrect` | `Spec => []TypeOK` |
| | `GuessesAreLimited` | `Spec => []GuessLimit` |
| | `VerifiedByOwner` | `Spec => []VerifiedByOwnCode` |
| | `MailGoesToHolder` | `Spec => MailOnlyToHolder`, an action property |
| `PasskeysProofs`, `PasskeyConstants` | `TypeCorrect` | `Spec => []TypeOK` |
| | `ChallengesOpenOnce` | `Spec => []OneSessionPerChallenge` |
| | `CountersRise` | `Spec => []CountersGoUp` |
| | `ServedAsOwner` | `Spec => []RequestsAreOwn` |
| `LocalConsoleProofs`, `AuthorizationConstants` | `TypeCorrect` | `Spec => []TypeOK` |
| | `ReviewsAreNotOvertaken` | `Spec => []NoReviewAfterLock` |
| | `OpeningsAreEarned` | `Spec => EveryOpeningIsEarned`, an action property |
| the same, `LedgerConstants` | `LedgerTypeCorrect` | `LedgerSpec => []LedgerTypeOK` |
| | `TotalsAreKept` | `LedgerSpec => []TotalsMatchItems` |
| | `ReceiptsStayTrue` | `LedgerSpec => []ReceiptsAreSnapshots` |
| `UploadBrokerProofs`, `QuoteConstants` and `BrokerConstants` | `TypeCorrect` | `Spec => []TypeOK` |
| | `ReceiptsWereInvited` | `Spec => []EveryReceiptWasInvited` |
| | `OwnersAreShownSessions` | `Spec => []OwnersSeeSessions` |
| | `TheLogIsTrue` | `Spec => []LogIsTrue` |
| | `Refinement` | `Spec => KeepsContract`: it implements `UploadSessionContract` |
| `HostedUploadsProofs`, `QuoteConstants` and `UploadConstants` | `TypeCorrect` | `UploadsSpec => []UploadsTypeOK` |
| | `WhatIsShownIsStored` | `UploadsSpec => []ShownIsStored` |
| | `LimitsArePassedOnce` | `UploadsSpec => []OvershootBounded` |

Together these are all the invariants and action properties, and the three
refinements, that the passing runs check.

Every one follows from an inductive invariant, whose theorem is `Invariance`
(`ConsoleInvariance` and `LedgerInvariance` where a module has two).  Few of the
properties are inductive as they stand; what each invariant adds, and why:

* **`LocalReceiver`.**  `QuotaRespected` is broken by a step that records a file
  admitted against other totals; `UploadAdmitted` says that a running upload
  belongs to an active session and that a buffered one was measured against
  totals nobody has changed since.  `RecordedOnDisk` is broken by a record whose
  file id is about to be written again or belongs to two sessions; `FreshIds` and
  `RecordsListed` say that ids are used once and that records, acknowledgements
  and listings agree.  `ReceiptIsFinal` is broken by a file acknowledged after the
  receipt, or removed before it; `LapsedOnly` says that only lapsed sessions are
  marked expired or cleaned and that a session with a receipt is not active.
  `RejectedLeavesNoBytes` needs `DiskIsExplained` besides: a file whose session
  died with the process must not belong to the next one created.
  Since most actions leave most tables alone, shared lemmas first say what any
  step can do to one table (`SessionSteps`, `DiskSteps`, `FileSteps`, ...), and
  there is then one lemma per conjunct.  The refinement reads a session's phase
  off the table (`PhaseCases`): creating opens, recording accepts, completing
  seals a manifest that `ReceiptIsFinal` says is what was accepted, and every
  other step closes some sessions or none (`CloseStep`).  `TotalMatchesAcked` is kept
  because a file is acknowledged in the step that counts it: its record is new, so
  the sum grows by its size (`TotalRules`), and no other step changes either side.
* **`HostedQuotes`**, for any number of workers.  `AppliedOnce` needs an owner for
  what is tracked: `IdsAreOwned` and `NoncesAreOwned` say that between tracking
  and review an action id, and a nonce, belong to one worker and to no envelope
  that has been applied.  `ReviewIsExplained` is broken
  by the write of a row read long ago; `HandlersFit` says that such a row cannot
  show a review that no action explains and that its quote exists.
  `ExactLocationStays` rests on `Grows`: no step, however old its copy, turns an
  exact location into null.
* **`ReviewConsole`**, for one worker.  `HandlersAreCurrent` says that what the
  process has read still agrees with the tables when it writes.  This is what
  `OneProcess` gives, and it is false with two workers.  From it `EditsStand`
  follows step by step: a row that is written is the row that is there, but for
  the columns of the form.  `ActionsAreFinal` says that
  an applied action has left its quote in review, and no other action did.  The
  steps of quotes are then all forward (`Forward`), and the other conjuncts, and
  the refinement, follow from that.
* **`EmailVerification`.**  A verification runs through all of an account's
  codes before it counts the wrong ones; `HandlerFits` says what it has still to
  count, and `MissesAreCounted` that no answered miss is forgotten.
  `VerifiedByOwnCode` needs `AddressesAreUnique`, which the mail needs as well.
* **`Passkeys`.**  `OneSessionPerChallenge` is broken by two sign-ins on
  their way with one challenge; `ChallengesAreSpent` says the second finds it
  spent.  `CountersGoUp` rests on the row that is found first (`FirstRowsExist`)
  having the highest count that opened a session (`CountersAreStored`), and
  `RequestsAreOwn` on a passkey having one row unless its registration was cut
  short (`RegisteredOnce`, `AccountsHaveRows`).
* **`SecureUnlock`.**  `PostsAreEarned`: a request that could still open the
  window carries a token that was earned and is unused.
* **`CostLedger`.**  The types and the two properties hold together (`LedgerInv`):
  a receipt is made of stored totals, and they are right at any time.  What is
  left is what three loops compute, for any number of items: adding up amounts by
  side (`TotalsLoop`), adding up per provider (`BreakdownLoop`), seeking the worst
  (`QualityLoop`).  Each is a fold, compared round by round with the sum, or the
  bound, that the property states.
* **`UploadBroker`.**  `SessionsAreOwned` says whose a session is, and
  `EventsAreBounded` is what the log's type needs.  `LogIsTrue` is broken by an
  error told for a receipt the log knows; `LogIsBehind` says that while a receipt
  waits to be saved the log has no more than the others (`Claimable`), and
  `InHand` that it is the last one and unanswered, so that an error takes away
  nothing the log has.  `OwnersSeeSessions` needs `TablesAgree`: the table of
  sessions and the lists per quote name the same sessions.  The refinement is
  as in the receiver, without sealing.
* **`HostedUploads`**, for any number of workers.  `Progress` says which writes of
  a running upload are done, `IdsAreFresh` that no other upload touches them.
  `OvershootBounded` is broken by a row that was admitted when the quote was nearly
  full; `Room` counts what is in hand with what is stored: together they stay
  below the limits and one more file for each worker.  Admission adds one to what
  is in hand when both limits have room, and a row moves one across.

Several properties are about sums over sets and loops over sequences, which the
community modules define by recursive functions.  The library's induction
theorems take a predicate as a parameter, which the provers cannot instantiate.
`FoldLemmas` has what is needed in a form they can use: induction as a fact
about a set of numbers (`Induction`) or a set of subsets (`SubsetInduction`),
which follows from well-foundedness; that a function with the recursive equation
of a sum exists (`FoldExists`), which has to be known before anything follows from
its being chosen; that all such functions agree whatever element they take first
(`SameSum`); and from these the rules the proofs cite (`SumEmpty`, `SumAdd`,
`SumRemove`, `SumSame`, `MaxIsLargest`, and `LoopStays` and `LoopAddsUp` for loops).

Only model-checked is `WindowCloses`: liveness under fairness, like `ENABLED`, is
out of the prover's reach.  The five properties that runs find violated are,
of course, not theorems.

No module has a `RECURSIVE` operator.

## 7. What is not modelled, and why

* **The owner of a quote.**  In the program as deployed every request to open
  an upload route or to upload a file ends in 403, because no quote of its quote
  endpoints has an owner (section 4).  `UploadBroker` and `HostedUploads`
  therefore start from quotes as `QuoteRepository.create` stores them, which writes
  the column; with the owner missing, an initial state of both, every request is
  refused.  The status of a quote moves there by an action of the environment,
  `CloseQuote`.
* **Signature checks, encryption, WebAuthn.**  External: a model has only
  responses and envelopes that are genuine or are not.
* **Projections, proof rail, deployment plans, tunnels, doctor, health, pages.**
  They read, format, or show; none keeps state, except the intake form, which
  keeps the customer's draft across requests: its saves are inputs of
  `HostedQuotes` in any order, and its own draft is left out.
* **Operations without a caller.**  Quote lane, notes and questionnaire setters;
  credential revocation and session purging; deletion in the upload storage.
  `cleanup_expired_sessions` of the receiver has no caller in the
  source either but is modelled, since it is the receiver's only way to give
  space back and what removes the files its sessions leave.
* **Content types, extensions, names, wording.**  Checks on them only reject
  before anything changes.

## 8. Plan

Built, in this order: the receiver with its contract and proofs; quotes and
signed actions with theirs; email verification; passkeys; secure unlock; the
cost ledger; the upload broker with the route decision; binary uploads; the
review console.

What is left to model is small: `IntakeForm`, the draft the browser keeps, its
steps and its saves, which may fail, overlap or belong to a quote it has since
replaced, composed with `HostedQuotes` (what the form promises beyond the
single requests, which `HostedQuotes` has in any order, is written nowhere, and
the plain candidate, that the server has what the last page shows, does not hold);
and device registration, which only tests reach.

No proof of a checked invariant, action property or refinement is left.  What
can still be proved is more than the runs state, in order of weight:

1. Action properties beside the invariants: in `EmailVerification`, that a code
   used once is not used again; in `ReviewConsole`, that what a customer was
   told is never taken back by a later step.
2. How much of `ReviewConsole` survives a second process, beyond what
   `HostedQuotes` has for any number of them: `HandlersAreCurrent` fails, the
   action tables still hold.
