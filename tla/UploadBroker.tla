----------------------------- MODULE UploadBroker -----------------------------
(***************************************************************************)
(* The upload session broker of the hosted service                         *)
(* (services/upload_session_broker.py) behind its endpoints                *)
(* (hosted/api/upload_broker.py), with the route decision it asks and the  *)
(* handshake of the receiver that decision knows of, if any.               *)
(*                                                                         *)
(* The broker is one object of one process and keeps its sessions and      *)
(* receipts in memory.  Its methods do not await: the process serves one   *)
(* request at a time, but it may die at any point of one, and what it has  *)
(* committed by then stays.  Providers send receipts when they like: late, *)
(* twice, for sessions of an earlier process.  A receipt whose size, hash  *)
(* or extension is unusable is refused before anything changes and does    *)
(* not appear.                                                             *)
(***************************************************************************)
EXTENDS UploadQuotes, TLC, SequencesExt, FiniteSetsExt

CONSTANTS
  NoQuote,          \* the quote_id of a receipt that names none
  Provider,         \* upload providers; Local and Buffer are two of them
  Local,            \* LOCAL_LOOPBACK_DEV
  Buffer,           \* HOSTED_BUFFER_FUTURE
  Drive,            \* GOOGLE_DRIVE_FALLBACK_FUTURE
  NoProvider,
  FallbackChoice,   \* fallbacks that are ever configured
  ContentType,      \* content types a client may name
  ReceiverTypes,    \* those the receiver takes
  ReceiverMax,      \* DEFAULT_MAX_FILE_SIZE_BYTES
  BrokerMax,        \* UPLOAD_SESSION_MAX_FILE_SIZE
  TTL,              \* UPLOAD_SESSION_DEFAULT_TTL_MINUTES, in ticks
  MaxSessions,      \* bound: session ids handed out
  MaxReceipts,      \* bound: receipts stored
  MaxTime           \* bound: ticks of the clock

ASSUME BrokerConstants ==
  /\ NoQuote \notin Quote
  /\ {Local, Buffer, Drive} \subseteq Provider /\ NoProvider \notin Provider
  /\ FallbackChoice \subseteq Provider \cup {NoProvider}
  /\ ReceiverTypes \subseteq ContentType
  /\ ReceiverMax \in Nat \ {0} /\ BrokerMax \in Nat \ {0} /\ TTL \in Nat
  /\ MaxSessions \in Nat /\ MaxReceipts \in Nat /\ MaxTime \in Nat

VARIABLES
  sessions,       \* _sessions: NoSession where it has no entry
  quoteSessions,  \* _quote_sessions
  receipts,       \* _receipts: ids of accepted
  wanted,         \* the broker's _fallback_provider
  fallback,       \* the route decision's _fallback_provider
  receiver,       \* the status of its receiver service, or "absent"
  events,         \* the event log: how many of each type it has for a quote
  handling,       \* what is next for the last receipt, if it is being handled
  opened,         \* history: how many session ids were handed out
  accepted,       \* history: every receipt ever stored
  told,           \* history: what the provider of each was answered
  now             \* the clock

vars == <<quotes, sessions, quoteSessions, receipts, wanted, fallback,
          receiver, events, handling, opened, accepted, told, now>>

broker == <<sessions, quoteSessions, receipts>>
route  == <<wanted, fallback, receiver>>
past   == <<opened, accepted, told>>

SessionId == 1..MaxSessions

NoSession == [known |-> FALSE]
UploadSession ==
  [quote_id : Quote, account_id : Account, chosen_provider : Provider,
   route_priority : 1..3, max_file_size_bytes : 1..BrokerMax,
   expires_at : 0..MaxTime + TTL]

UploadReceipt ==
  [upload_session_id : SessionId, quote_id : Quote,
   provider : Provider, received_at : 0..MaxTime]

\* What a client may ask for (a size of 0 is none), and what a provider sends.
UploadRouteRequest == [content_types : SUBSET ContentType, max_file_size : 0..BrokerMax]
UploadReceiptRequest ==
  [upload_session_id : SessionId, provider : Provider, quote_id : Quote \cup {NoQuote}]

\* The process has no receipt in hand.
Serving == handling = "nothing"

Known(s)     == sessions[s] # NoSession
IsExpired(s) == sessions[s].expires_at < now

\* What a new process starts with: a receiver, if it is given one, is online,
\* and the route decision has no fallback although the broker speaks of one.
Fresh ==
  /\ sessions' = [s \in SessionId |-> NoSession]
  /\ quoteSessions' = [q \in Quote |-> <<>>]
  /\ receipts' = {} /\ handling' = "nothing"
  /\ wanted' = Drive /\ fallback' = NoProvider
  /\ receiver' = IF receiver = "absent" THEN "absent" ELSE "online"

Init ==
  /\ QuotesInit
  /\ sessions = [s \in SessionId |-> NoSession]
  /\ quoteSessions = [q \in Quote |-> <<>>]
  /\ receipts = {} /\ handling = "nothing"
  /\ wanted = Drive /\ fallback = NoProvider
  /\ receiver \in {"absent", "online"}
  /\ events = [q \in Quote |-> [created |-> 0, received |-> 0]]
  /\ opened = 0 /\ accepted = <<>> /\ told = <<>> /\ now = 0

-----------------------------------------------------------------------------
(* The route decision                                                      *)

\* attempt_receiver_handshake: a receiver there is answers with its status
\* and what it takes.
Handshake == receiver = "online"

CanReceiverHandle(types, size) ==
  /\ types \subseteq ReceiverTypes
  /\ size > 0 => size <= ReceiverMax

\* Both the broker and the route decision must have a fallback for it to be
\* taken; a client that is to retry later gets a session all the same.
DecideUploadRoute(types, size) ==
  IF Handshake /\ CanReceiverHandle(types, size)
    THEN [provider |-> Local, priority |-> 1]
  ELSE IF wanted # NoProvider /\ fallback # NoProvider
    THEN [provider |-> fallback, priority |-> 2]
  ELSE [provider |-> Buffer, priority |-> 3]

\* LocalReceiverService.set_status
SetReceiverStatus ==
  /\ Serving
  /\ receiver # "absent"
  /\ receiver' \in {"online", "offline"} \ {receiver}
  /\ UNCHANGED <<quotes, broker, wanted, fallback, events, handling, past, now>>

\* Both copies change together.
SetFallbackProvider(p) ==
  /\ Serving
  /\ <<wanted, fallback>> # <<p, p>>
  /\ wanted' = p /\ fallback' = p
  /\ UNCHANGED <<quotes, broker, receiver, events, handling, past, now>>

-----------------------------------------------------------------------------
(* Sessions                                                                *)

\* POST /quotes/{quote_id}/upload-route, as far as it may refuse.
MayUpload(q, a) ==
  /\ quotes[q].account_id = a
  /\ a \in VerifiedAccount
  /\ quotes[q].open

\* Mutant: a client that names no size gets a session for files of none.
NewSession_NoDefault(q, a, wish) ==
  LET decision == DecideUploadRoute(wish.content_types, wish.max_file_size) IN
  [quote_id |-> q, account_id |-> a,
   chosen_provider |-> decision.provider, route_priority |-> decision.priority,
   max_file_size_bytes |-> Min({wish.max_file_size, BrokerMax}),
   expires_at |-> now + TTL]

NewSession(q, a, wish) ==
  LET decision == DecideUploadRoute(wish.content_types, wish.max_file_size) IN
  [quote_id |-> q, account_id |-> a,
   chosen_provider |-> decision.provider, route_priority |-> decision.priority,
   max_file_size_bytes |-> IF wish.max_file_size = 0 THEN BrokerMax
                            ELSE Min({wish.max_file_size, BrokerMax}),
   expires_at |-> now + TTL]

\* Mutant: the quote remembers its newest session only.
Listed_Newest(q, s) == [quoteSessions EXCEPT ![q] = <<s>>]

Listed(q, s) == [quoteSessions EXCEPT ![q] = Append(@, s)]

\* _log_event: a failure to append is swallowed.
LogEvent(q, type) ==
  \/ events' = [events EXCEPT ![q][type] = @ + 1]
  \/ UNCHANGED events

\* One step: a process that dies before the event is logged forgets the
\* session, as if the entry had failed and it had died afterwards.
CreateUploadRoute(q, a, wish) ==
  LET s == opened + 1 IN
  /\ Serving
  /\ s \in SessionId
  /\ MayUpload(q, a)
  /\ sessions' = [sessions EXCEPT ![s] = NewSession(q, a, wish)]
  /\ quoteSessions' = Listed(q, s)
  /\ opened' = s
  /\ LogEvent(q, "created")
  /\ UNCHANGED <<quotes, receipts, route, handling, accepted, told, now>>

\* POST /quotes/{quote_id}/upload-route, of a client logged in as a.
PostUploadRoute ==
  \E q \in Quote, a \in Account, wish \in UploadRouteRequest : CreateUploadRoute(q, a, wish)

\* What the owner of a quote is shown, and anybody else is not: the sessions
\* that are live, in an order that does not matter here.
Refused == <<"refused">>
OwnerOnly(q, a, list) == IF quotes[q].account_id = a THEN list ELSE Refused

ListUploadSessions(q, a) ==
  OwnerOnly(q, a, {s \in ToSet(quoteSessions[q]) : Known(s) /\ ~IsExpired(s)})

-----------------------------------------------------------------------------
(* Receipts                                                                *)

\* The quote a receipt is for, if it names it or not.
QuoteOf(r) ==
  IF r.quote_id = NoQuote THEN sessions[r.upload_session_id].quote_id ELSE r.quote_id

\* Mutant: the receipt's quote only has to exist.
Acceptable_AnyQuote(r) ==
  LET s == r.upload_session_id IN
  /\ Known(s) /\ ~IsExpired(s)
  /\ r.provider = sessions[s].chosen_provider

\* Mutant: the session's deadline is not looked at.
Acceptable_Late(r) ==
  LET s == r.upload_session_id IN
  /\ Known(s)
  /\ r.provider = sessions[s].chosen_provider
  /\ QuoteOf(r) = sessions[s].quote_id

\* The status of the quote is not asked for again.
Acceptable(r) ==
  LET s == r.upload_session_id IN
  /\ Known(s) /\ ~IsExpired(s)
  /\ r.provider = sessions[s].chosen_provider
  /\ QuoteOf(r) = sessions[s].quote_id

\* The receipt is in the table before the quote is saved.  The account it
\* names is stored with it, compared with nothing, and left out here.  The
\* clock is read again for received_at, at the same instant here.
StoreReceipt(r) ==
  /\ Serving
  /\ Len(accepted) < MaxReceipts
  /\ Acceptable(r)
  /\ accepted' = Append(accepted,
       [upload_session_id |-> r.upload_session_id, quote_id |-> QuoteOf(r),
        provider |-> r.provider, received_at |-> now])
  /\ told' = Append(told, "nothing")
  /\ receipts' = receipts \cup {Len(accepted')}
  /\ handling' = "save"
  /\ UNCHANGED <<quotes, sessions, quoteSessions, route, events, opened, now>>

\* POST /quotes/{quote_id}/uploads/receipt, of any provider, not logged in;
\* the quote_id of the path is ignored.  A receipt sent again is another one.
PostUploadReceipt == \E r \in UploadReceiptRequest : StoreReceipt(r)

\* The last receipt is the one being handled.
Tell(answer) ==
  /\ told' = [told EXCEPT ![Len(told)] = answer]
  /\ handling' = "nothing"

\* Mutant: the event is logged before the quote is saved.
SaveFails_Logged ==
  /\ handling = "save"
  /\ LogEvent(Last(accepted).quote_id, "received")
  /\ Tell("error")
  /\ UNCHANGED <<quotes, broker, route, opened, accepted, now>>

\* The quote cannot be saved: the provider is told of an error and the receipt
\* stays.
SaveFails ==
  /\ handling = "save"
  /\ Tell("error")
  /\ UNCHANGED <<quotes, broker, route, events, opened, accepted, now>>

\* The quote is saved, which changes nothing the broker looks at and no upload
\* row, and then the event is logged.
LogReceipt ==
  /\ handling = "save"
  /\ LogEvent(Last(accepted).quote_id, "received")
  /\ handling' = "answer"
  /\ UNCHANGED <<quotes, broker, route, past, now>>

AnswerReceipt ==
  /\ handling = "answer"
  /\ Tell("success")
  /\ UNCHANGED <<quotes, broker, route, events, opened, accepted, now>>

-----------------------------------------------------------------------------

\* A quote is closed by a request of its own.
QuoteCloses ==
  /\ Serving
  /\ \E q \in Quote : CloseQuote(q)
  /\ UNCHANGED <<broker, route, events, handling, past, now>>

\* The process ends, in the middle of a receipt or not, and another one starts.
Restart ==
  /\ Fresh
  /\ UNCHANGED <<quotes, events, past, now>>

Tick ==
  /\ now < MaxTime
  /\ now' = now + 1
  /\ UNCHANGED <<quotes, broker, route, events, handling, past>>

Next ==
  \/ PostUploadRoute
  \/ PostUploadReceipt \/ SaveFails \/ LogReceipt \/ AnswerReceipt
  \/ SetReceiverStatus
  \/ \E p \in FallbackChoice : SetFallbackProvider(p)
  \/ QuoteCloses \/ Restart \/ Tick

Spec == Init /\ [][Next]_vars

-----------------------------------------------------------------------------
(* Properties                                                              *)

\* Types of the tables, the log and the configuration.
TypeOK ==
  /\ quotes \in [Quote -> QuoteRow]
  /\ sessions \in [SessionId -> UploadSession \cup {NoSession}]
  /\ quoteSessions \in [Quote -> Seq(SessionId)]
  /\ accepted \in Seq(UploadReceipt) /\ Len(accepted) <= MaxReceipts
  /\ receipts \subseteq DOMAIN accepted
  /\ wanted \in Provider \cup {NoProvider} /\ fallback \in Provider \cup {NoProvider}
  /\ receiver \in {"absent", "online", "offline"}
  /\ events \in [Quote -> [created : 0..MaxSessions, received : 0..MaxReceipts]]
  /\ handling \in {"nothing", "save", "answer"}
  /\ opened \in 0..MaxSessions /\ now \in 0..MaxTime
  /\ told \in Seq({"nothing", "success", "error"}) /\ Len(told) = Len(accepted)

\* A receipt in the table was asked for: its session was opened by the owner
\* of its quote, verified, through the very provider that sent it, and it came
\* before the session ran out.
EveryReceiptWasInvited ==
  \A r \in receipts :
    LET receipt == accepted[r]
        session == sessions[receipt.upload_session_id] IN
    /\ session # NoSession
    /\ receipt.quote_id = session.quote_id
    /\ receipt.provider = session.chosen_provider
    /\ receipt.received_at <= session.expires_at
    /\ session.account_id \in VerifiedAccount
    /\ session.account_id = quotes[receipt.quote_id].account_id

\* As long as the process lives, the owner of a quote is shown every session
\* of it that still takes receipts, and no other: neither table loses one, when
\* a quote has several, and none is shown that would refuse.
OwnersSeeSessions ==
  \A q \in {q \in Quote : quotes[q].account_id # NoAccount} :
    ListUploadSessions(q, quotes[q].account_id) =
      {s \in SessionId : Known(s) /\ ~IsExpired(s) /\ sessions[s].quote_id = q}

\* The receipts for q whose provider was not told of an error.
NotRefused(q) ==
  {r \in DOMAIN accepted : accepted[r].quote_id = q /\ told[r] # "error"}

\* The log never claims a receipt that its provider was told had failed, nor one
\* twice: of a quote it has at most as many as were not answered with an error,
\* though the process may die at any point of a request and the log outlives
\* it.  A receipt of which the log knows may have been answered to nobody.
LogIsTrue == \A q \in Quote : events[q].received <= Cardinality(NotRefused(q))

Phase(s) ==
  CASE s > opened                                   -> "unopened"
    [] s <= opened /\ Known(s) /\ ~IsExpired(s)     -> "open"
    [] s <= opened /\ (~Known(s) \/ IsExpired(s))   -> "closed"

Contract == INSTANCE UploadSessionContract WITH
  FileId   <- 1..MaxReceipts,
  phase    <- [s \in SessionId |-> Phase(s)],
  accepted <- [s \in SessionId |->
                 {r \in DOMAIN accepted : accepted[r].upload_session_id = s}],
  manifest <- [s \in SessionId |-> {}]

\* A broker session keeps the promise a receiver session does, but for the
\* completion it never has: it takes receipts only from its opening to its
\* deadline or the end of the process, whatever arrives afterwards.
KeepsContract == Contract!Spec
=============================================================================
