--------------------------- MODULE UploadBrokerProofs ---------------------------
(***************************************************************************)
(* Proofs about the upload broker, for any quotes, accounts, providers and *)
(* limits, and any bounds: the types, that every receipt was invited, that *)
(* owners are shown every live session, that the log claims no receipt     *)
(* that was refused, wherever the process dies, and that the broker        *)
(* implements UploadSessionContract.                                       *)
(***************************************************************************)
EXTENDS UploadBroker, FiniteSetTheorems, SequenceTheorems, TLAPS

\* Sessions are opened by the verified owner of their quote, and ids are
\* handed out in order.
SessionsAreOwned ==
  /\ \A s \in SessionId : Known(s) =>
       /\ s <= opened
       /\ sessions[s].account_id \in VerifiedAccount
       /\ sessions[s].account_id = quotes[sessions[s].quote_id].account_id

\* No quote has more events than sessions were opened.
EventsAreBounded == \A q \in Quote : events[q].created <= opened

\* A receipt in hand is the last one, and nobody was answered for it.
InHand == handling # "nothing" => accepted # <<>> /\ told[Len(told)] = "nothing"

\* What the log may have of a quote by now: not yet the receipt that is still
\* to be saved.
Claimable(q) == {r \in NotRefused(q) : handling = "save" => r # Len(accepted)}

LogIsBehind == \A q \in Quote : events[q].received <= Cardinality(Claimable(q))

IInv ==
  /\ TypeOK /\ SessionsAreOwned /\ EventsAreBounded
  /\ EveryReceiptWasInvited /\ InHand /\ LogIsBehind

\* The broker's two tables name the same sessions.
TablesAgree ==
  \A q \in Quote :
    ToSet(quoteSessions[q]) = {s \in SessionId : Known(s) /\ sessions[s].quote_id = q}

-----------------------------------------------------------------------------
(* What the helpers return                                                 *)

\* The smaller of two numbers is one of them.
LEMMA MinOfTwo ==
  ASSUME NEW a \in Nat, NEW b \in Nat
  PROVE  Min({a, b}) \in {a, b} /\ Min({a, b}) <= a /\ Min({a, b}) <= b
  <1>1. \E x \in {a, b} : \A y \in {a, b} : x <= y
    OBVIOUS
  <1> QED
    BY <1>1 DEF Min

\* Appending to a sequence keeps what it has and adds one element.
LEMMA AppendedSeq ==
  ASSUME NEW S, NEW s \in Seq(S), NEW e \in S
  PROVE  /\ Append(s, e) \in Seq(S)
         /\ Len(Append(s, e)) = Len(s) + 1 /\ Append(s, e)[Len(s) + 1] = e
         /\ \A i \in DOMAIN s : i \in DOMAIN Append(s, e) /\ Append(s, e)[i] = s[i]
  OBVIOUS

\* A route always has a provider and a priority.
LEMMA RouteType ==
  ASSUME TypeOK, NEW types, NEW size
  PROVE  /\ DecideUploadRoute(types, size).provider \in Provider
         /\ DecideUploadRoute(types, size).priority \in 1..3
  BY BrokerConstants DEF DecideUploadRoute, TypeOK

\* A new session has its type, whatever the client asks for.
LEMMA NewSessionType ==
  ASSUME TypeOK, NEW q \in Quote, NEW a \in Account, NEW wish \in UploadRouteRequest
  PROVE  NewSession(q, a, wish) \in UploadSession
  <1> DEFINE size == IF wish.max_file_size = 0 THEN BrokerMax
                     ELSE Min({wish.max_file_size, BrokerMax})
  <1>1. wish.max_file_size \in 0..BrokerMax /\ BrokerMax \in Nat \ {0}
    BY BrokerConstants DEF UploadRouteRequest
  <1>2. size \in 1..BrokerMax
    BY <1>1, MinOfTwo
  <1>3. now + TTL \in 0..MaxTime + TTL
    BY BrokerConstants DEF TypeOK
  <1> HIDE DEF size
  <1>4. [quote_id |-> q, account_id |-> a,
         chosen_provider |-> DecideUploadRoute(wish.content_types, wish.max_file_size).provider,
         route_priority |-> DecideUploadRoute(wish.content_types, wish.max_file_size).priority,
         max_file_size_bytes |-> size, expires_at |-> now + TTL] \in UploadSession
    BY <1>2, <1>3, RouteType DEF UploadSession
  <1> QED
    BY <1>4 DEF NewSession, size

\* A session that is known is a session.
LEMMA KnownType ==
  ASSUME TypeOK, NEW s \in SessionId, Known(s)
  PROVE  sessions[s] \in UploadSession
  BY DEF TypeOK, Known

\* A receipt in the table is a receipt.
LEMMA StoredType ==
  ASSUME TypeOK, NEW r \in receipts
  PROVE  /\ r \in DOMAIN accepted /\ accepted[r] \in UploadReceipt
         /\ accepted[r].upload_session_id \in SessionId
         /\ accepted[r].quote_id \in Quote
  <1>1. accepted \in Seq(UploadReceipt) /\ r \in DOMAIN accepted
    BY DEF TypeOK
  <1>2. accepted[r] \in UploadReceipt
    BY <1>1
  <1> QED
    BY <1>1, <1>2 DEF UploadReceipt

\* The receipts the log may have are finitely many, and no more than there are.
LEMMA ClaimableCount ==
  ASSUME TypeOK, NEW q \in Quote
  PROVE  /\ IsFiniteSet(NotRefused(q)) /\ IsFiniteSet(Claimable(q))
         /\ Cardinality(NotRefused(q)) \in Nat /\ Cardinality(Claimable(q)) \in Nat
         /\ Cardinality(Claimable(q)) <= Cardinality(NotRefused(q))
         /\ Cardinality(NotRefused(q)) <= Len(accepted)
  <1>1. PICK n \in Nat : n = Len(accepted) /\ DOMAIN accepted = 1..n
    BY DEF TypeOK
  <1>2. NotRefused(q) \in SUBSET (1..n)
    <2>1. \A r \in NotRefused(q) : r \in DOMAIN accepted
      BY DEF NotRefused
    <2> QED
      BY <1>1, <2>1
  <1>3. Claimable(q) \in SUBSET NotRefused(q)
    <2>1. \A r \in Claimable(q) : r \in NotRefused(q)
      BY DEF Claimable
    <2> QED
      BY <2>1
  <1>4. IsFiniteSet(1..n) /\ Cardinality(1..n) = n
    BY FS_Interval
  <1>5. IsFiniteSet(NotRefused(q)) /\ Cardinality(NotRefused(q)) <= n
    BY <1>2, <1>4, FS_Subset
  <1> QED
    BY <1>1, <1>3, <1>5, FS_Subset, FS_CardinalityType

-----------------------------------------------------------------------------

LEMMA InvInit == Init => IInv
  <1> SUFFICES ASSUME Init PROVE IInv
    OBVIOUS
  <1>1. TypeOK
    <2>1. quotes \in [Quote -> QuoteRow]
      BY DEF Init, QuotesInit, QuoteRow
    <2>2. /\ sessions \in [SessionId -> UploadSession \cup {NoSession}]
          /\ quoteSessions \in [Quote -> Seq(SessionId)]
      BY DEF Init
    <2>3. /\ accepted \in Seq(UploadReceipt) /\ Len(accepted) <= MaxReceipts
          /\ receipts \subseteq DOMAIN accepted
          /\ told \in Seq({"nothing", "success", "error"}) /\ Len(told) = Len(accepted)
      BY BrokerConstants DEF Init
    <2>4. events \in [Quote -> [created : 0..MaxSessions, received : 0..MaxReceipts]]
      BY BrokerConstants DEF Init
    <2> QED
      BY <2>1, <2>2, <2>3, <2>4, BrokerConstants DEF Init, TypeOK
  <1>2. /\ SessionsAreOwned /\ EventsAreBounded /\ InHand /\ EveryReceiptWasInvited
    BY DEF Init, SessionsAreOwned, EventsAreBounded, Known, InHand, EveryReceiptWasInvited
  <1>3. ASSUME NEW q \in Quote PROVE events[q].received <= Cardinality(Claimable(q))
    BY <1>1, <1>3, ClaimableCount DEF Init
  <1> QED
    BY <1>1, <1>2, <1>3 DEF IInv, LogIsBehind

\* What the log entry of a step leaves in the log.
LEMMA Logged ==
  ASSUME IInv, NEW q \in Quote, NEW type \in {"created", "received"}, LogEvent(q, type)
  PROVE  \A p \in Quote :
           /\ DOMAIN events' = Quote
           /\ events'[p] \in [created : Nat, received : Nat]
           /\ \/ events'[p] = events[p]
              \/ /\ p = q /\ type = "created"
                 /\ events'[p].created = events[p].created + 1
                 /\ events'[p].received = events[p].received
              \/ /\ p = q /\ type = "received"
                 /\ events'[p].received = events[p].received + 1
                 /\ events'[p].created = events[p].created
  <1>1. events \in [Quote -> [created : Nat, received : Nat]]
    BY BrokerConstants DEF IInv, TypeOK
  <1>2. CASE UNCHANGED events
    BY <1>1, <1>2
  <1>3. CASE type = "created" /\ events' = [events EXCEPT ![q]["created"] = @ + 1]
    BY <1>1, <1>3
  <1>4. CASE type = "received" /\ events' = [events EXCEPT ![q]["received"] = @ + 1]
    BY <1>1, <1>4
  <1> QED
    BY <1>2, <1>3, <1>4 DEF LogEvent

\* Steps that leave the tables and the log alone, whatever else they change.
LEMMA QuietStep ==
  ASSUME IInv, UNCHANGED <<sessions, quoteSessions, receipts, events, handling, past>>,
         TypeOK', \A q \in Quote : quotes'[q].account_id = quotes[q].account_id
  PROVE  IInv'
  <1>1. SessionsAreOwned' /\ EventsAreBounded'
    BY DEF past, IInv, SessionsAreOwned, EventsAreBounded, Known, TypeOK, UploadSession
  <1>2. EveryReceiptWasInvited'
    <2> SUFFICES ASSUME NEW r \in receipts
                 PROVE  /\ accepted[r].quote_id \in Quote
                        /\ EveryReceiptWasInvited
      BY DEF past, EveryReceiptWasInvited
    <2> QED
      BY StoredType DEF IInv
  <1>3. InHand' /\ LogIsBehind'
    BY DEF past, IInv, InHand, LogIsBehind, Claimable, NotRefused
  <1> QED
    BY <1>1, <1>2, <1>3 DEF IInv

\* The sender's receipt is of its type, for a session that is open.
LEMMA AcceptedType ==
  ASSUME TypeOK, NEW r \in UploadReceiptRequest, Acceptable(r)
  PROVE  /\ r.upload_session_id \in SessionId /\ Known(r.upload_session_id)
         /\ QuoteOf(r) = sessions[r.upload_session_id].quote_id
         /\ QuoteOf(r) \in Quote
         /\ r.provider = sessions[r.upload_session_id].chosen_provider
         /\ now <= sessions[r.upload_session_id].expires_at
         /\ [upload_session_id |-> r.upload_session_id, quote_id |-> QuoteOf(r),
             provider |-> r.provider, received_at |-> now] \in UploadReceipt
  <1>1. r.upload_session_id \in SessionId /\ r.provider \in Provider
    BY DEF UploadReceiptRequest
  <1>2. sessions[r.upload_session_id] \in UploadSession
    BY <1>1, KnownType DEF Acceptable
  <1>3. now \in 0..MaxTime
    BY DEF TypeOK
  <1>4. now <= sessions[r.upload_session_id].expires_at
    BY <1>2, <1>3, BrokerConstants DEF Acceptable, IsExpired, UploadSession
  <1>5. QuoteOf(r) \in Quote
    BY <1>2 DEF Acceptable, UploadSession
  <1> QED
    BY <1>1, <1>3, <1>4, <1>5 DEF Acceptable, UploadReceipt

LEMMA CreateStep ==
  ASSUME IInv, NEW q \in Quote, NEW a \in Account, NEW wish \in UploadRouteRequest,
         CreateUploadRoute(q, a, wish)
  PROVE  IInv'
  <1> DEFINE s == opened + 1
             n == NewSession(q, a, wish)
  <1>1. /\ TypeOK /\ SessionsAreOwned /\ EventsAreBounded
        /\ EveryReceiptWasInvited /\ InHand /\ LogIsBehind
    BY DEF IInv
  <1>2. /\ s \in SessionId /\ opened' = s /\ opened \in Nat
        /\ sessions' = [sessions EXCEPT ![s] = n]
        /\ UNCHANGED <<quotes, receipts, route, handling, accepted, told, now>>
        /\ quotes[q].account_id = a /\ a \in VerifiedAccount
    BY <1>1, BrokerConstants DEF CreateUploadRoute, MayUpload, TypeOK
  <1>3. n \in UploadSession /\ n.quote_id = q /\ n.account_id = a
    BY <1>1, NewSessionType DEF NewSession
  <1>4. sessions[s] = NoSession
    BY <1>1, <1>2 DEF SessionsAreOwned, Known
  <1> HIDE DEF n
  <1>5. sessions' \in [SessionId -> UploadSession \cup {NoSession}]
    BY <1>1, <1>2, <1>3 DEF TypeOK
  <1>6. quoteSessions' \in [Quote -> Seq(SessionId)]
    <2>1. Append(quoteSessions[q], s) \in Seq(SessionId)
      BY <1>1, <1>2 DEF TypeOK
    <2> QED
      BY <1>1, <2>1 DEF CreateUploadRoute, Listed, TypeOK
  <1>7. LogEvent(q, "created")
    BY DEF CreateUploadRoute
  <1>8. EventsAreBounded'
    <2>1. opened \in Nat /\ opened' = opened + 1 /\ accepted' = accepted
      BY <1>1, <1>2
    <2>2. \A p \in Quote : events[p] \in [created : Nat, received : Nat]
      BY <1>1, BrokerConstants DEF TypeOK
    <2>3. \A p \in Quote : \/ events'[p] = events[p]
                           \/ /\ events'[p].created = events[p].created + 1
                              /\ events'[p].received = events[p].received
      BY <1>7, Logged
    <2> QED
      BY <1>1, <2>1, <2>2, <2>3 DEF EventsAreBounded
  <1>9. events' \in [Quote -> [created : 0..MaxSessions, received : 0..MaxReceipts]]
    <2>1. ASSUME NEW p \in Quote
          PROVE  /\ events'[p] \in [created : Nat, received : Nat]
                 /\ events'[p].created <= MaxSessions
                 /\ events'[p].received <= MaxReceipts
      <3>1. /\ events[p].received \in 0..MaxReceipts
            /\ events'[p] \in [created : Nat, received : Nat]
            /\ events'[p].received = events[p].received
            /\ events'[p].created <= opened'
        BY <1>1, <1>7, <1>8, Logged DEF EventsAreBounded, TypeOK
      <3> QED
        BY <1>2, <3>1, BrokerConstants DEF SessionId
    <2>2. events' = [p \in Quote |-> events'[p]]
      BY <1>1, <1>7 DEF LogEvent, TypeOK
    <2>3. \A p \in Quote : events'[p] \in [created : 0..MaxSessions, received : 0..MaxReceipts]
      BY <2>1, BrokerConstants
    <2> QED
      BY <2>2, <2>3
  <1>10. TypeOK'
    BY <1>1, <1>2, <1>5, <1>6, <1>9 DEF TypeOK, SessionId, route
  <1>11. SessionsAreOwned'
    BY <1>1, <1>2, <1>3 DEF SessionsAreOwned, Known, TypeOK, SessionId
  <1>12. EveryReceiptWasInvited'
    <2>1. \A r \in receipts :
            sessions'[accepted[r].upload_session_id] = sessions[accepted[r].upload_session_id]
      BY <1>1, <1>2, <1>4, StoredType DEF EveryReceiptWasInvited, TypeOK
    <2> QED
      BY <1>1, <1>2, <2>1 DEF EveryReceiptWasInvited
  <1>13. InHand' /\ LogIsBehind'
    <2>1. \A p \in Quote : Claimable(p)' = Claimable(p)
      BY <1>2 DEF Claimable, NotRefused
    <2>2. \A p \in Quote : events'[p].received = events[p].received
      BY <1>7, Logged
    <2> QED
      BY <1>1, <1>2, <2>1, <2>2 DEF InHand, LogIsBehind
  <1> QED
    BY <1>8, <1>10, <1>11, <1>12, <1>13 DEF IInv

\* What storing a receipt does to the tables.
LEMMA StoredReceipt ==
  ASSUME IInv, NEW r \in UploadReceiptRequest, StoreReceipt(r)
  PROVE  LET n == Len(accepted) + 1 IN
         /\ n <= MaxReceipts /\ n \in Nat
         /\ accepted' \in Seq(UploadReceipt) /\ Len(accepted') = n
         /\ DOMAIN accepted = 1..n - 1 /\ DOMAIN accepted' = 1..n
         /\ \A i \in DOMAIN accepted : accepted'[i] = accepted[i]
         /\ receipts' \subseteq DOMAIN accepted'
         /\ SessionsAreOwned' /\ EveryReceiptWasInvited'
  <1> DEFINE n == Len(accepted) + 1
             new == [upload_session_id |-> r.upload_session_id, quote_id |-> QuoteOf(r),
                     provider |-> r.provider, received_at |-> now]
             s == r.upload_session_id
  <1>1. TypeOK /\ SessionsAreOwned /\ EveryReceiptWasInvited
    BY DEF IInv
  <1>2. /\ Acceptable(r)
        /\ Len(accepted) < MaxReceipts
        /\ accepted' = Append(accepted, new)
        /\ receipts' = receipts \cup {Len(accepted')}
        /\ UNCHANGED <<quotes, sessions, quoteSessions, route, opened, now>>
    BY DEF StoreReceipt
  <1>3. new \in UploadReceipt
    BY <1>1, <1>2, AcceptedType
  <1>4. /\ s \in SessionId /\ Known(s)
        /\ new.upload_session_id = s /\ new.quote_id = sessions[s].quote_id
        /\ new.provider = sessions[s].chosen_provider
        /\ new.received_at <= sessions[s].expires_at
    BY <1>1, <1>2, AcceptedType
  <1> HIDE DEF new, s
  <1>5. accepted \in Seq(UploadReceipt) /\ receipts \subseteq DOMAIN accepted
    BY <1>1 DEF TypeOK
  <1>6. /\ n \in Nat /\ n <= MaxReceipts
        /\ DOMAIN accepted = 1..n - 1
    BY <1>2, <1>5, BrokerConstants
  <1>7. /\ accepted' \in Seq(UploadReceipt) /\ Len(accepted') = n
        /\ accepted'[n] = new /\ DOMAIN accepted' = 1..n
        /\ \A i \in DOMAIN accepted : accepted'[i] = accepted[i]
    BY <1>2, <1>3, <1>5, <1>6, AppendedSeq
  <1>8. /\ receipts' \subseteq DOMAIN accepted'
        /\ receipts' = receipts \cup {n}
    BY <1>2, <1>5, <1>6, <1>7
  <1>9. SessionsAreOwned'
    BY <1>1, <1>2 DEF SessionsAreOwned, Known
  <1>10. EveryReceiptWasInvited'
    <2> SUFFICES ASSUME NEW x \in receipts'
                 PROVE  /\ sessions[accepted'[x].upload_session_id] # NoSession
                        /\ accepted'[x].quote_id
                             = sessions[accepted'[x].upload_session_id].quote_id
                        /\ accepted'[x].provider
                             = sessions[accepted'[x].upload_session_id].chosen_provider
                        /\ accepted'[x].received_at
                             <= sessions[accepted'[x].upload_session_id].expires_at
                        /\ sessions[accepted'[x].upload_session_id].account_id
                             \in VerifiedAccount
                        /\ sessions[accepted'[x].upload_session_id].account_id
                             = quotes[accepted'[x].quote_id].account_id
      BY <1>2 DEF EveryReceiptWasInvited
    <2>1. CASE x \in receipts
      <3>1. accepted'[x] = accepted[x]
        BY <1>1, <1>7, <2>1, StoredType
      <3> QED
        BY <1>1, <2>1, <3>1 DEF EveryReceiptWasInvited
    <2>2. CASE x = n
      BY <1>1, <1>4, <1>7, <2>2 DEF SessionsAreOwned, Known
    <2> QED
      BY <1>8, <2>1, <2>2
  <1> QED
    BY <1>6, <1>7, <1>8, <1>9, <1>10

\* The log may have no more than before: the new receipt is still to be saved.
LEMMA StoreStep ==
  ASSUME IInv, NEW r \in UploadReceiptRequest, StoreReceipt(r)
  PROVE  IInv'
  <1> DEFINE n == Len(accepted) + 1
  <1>1. /\ n <= MaxReceipts /\ n \in Nat
        /\ accepted' \in Seq(UploadReceipt) /\ Len(accepted') = n
        /\ DOMAIN accepted = 1..n - 1 /\ DOMAIN accepted' = 1..n
        /\ \A i \in DOMAIN accepted : accepted'[i] = accepted[i]
        /\ receipts' \subseteq DOMAIN accepted'
        /\ SessionsAreOwned' /\ EveryReceiptWasInvited'
    BY StoredReceipt
  <1>2. /\ told' = Append(told, "nothing") /\ handling = "nothing" /\ handling' = "save"
        /\ UNCHANGED <<quotes, sessions, quoteSessions, route, events, opened, now>>
    BY DEF StoreReceipt, Serving
  <1>3. TypeOK /\ EventsAreBounded /\ LogIsBehind
    BY DEF IInv
  <1>4. told \in Seq({"nothing", "success", "error"}) /\ Len(told) = n - 1
    BY <1>1, <1>3 DEF TypeOK
  <1>5. /\ told' \in Seq({"nothing", "success", "error"}) /\ Len(told') = n
        /\ told'[n] = "nothing" /\ \A i \in 1..n - 1 : told'[i] = told[i]
    BY <1>1, <1>2, <1>4, AppendedSeq
  <1>6. TypeOK'
    BY <1>1, <1>2, <1>3, <1>5 DEF TypeOK, route
  <1>7. EventsAreBounded' /\ InHand'
    BY <1>1, <1>2, <1>3, <1>5 DEF EventsAreBounded, InHand
  <1>8. \A q \in Quote : Claimable(q)' = Claimable(q)
    BY <1>1, <1>2, <1>5 DEF Claimable, NotRefused
  <1>9. LogIsBehind'
    BY <1>2, <1>3, <1>8 DEF LogIsBehind
  <1> QED
    BY <1>1, <1>6, <1>7, <1>9 DEF IInv

\* The last receipt, while it is in hand.
LEMMA LastInHand ==
  ASSUME IInv, handling # "nothing"
  PROVE  LET m == Len(accepted) IN
         /\ m \in Nat \ {0} /\ DOMAIN accepted = 1..m
         /\ Len(told) = m /\ told[m] = "nothing" /\ DOMAIN told = 1..m
         /\ \A i \in 1..m : told[i] \in {"nothing", "success", "error"}
         /\ Last(accepted) = accepted[m] /\ accepted[m].quote_id \in Quote
  <1>1. /\ accepted \in Seq(UploadReceipt) /\ accepted # <<>>
        /\ told \in Seq({"nothing", "success", "error"}) /\ Len(told) = Len(accepted)
        /\ told[Len(told)] = "nothing"
    BY DEF IInv, TypeOK, InHand
  <1>2. Len(accepted) \in Nat \ {0} /\ DOMAIN accepted = 1..Len(accepted)
    BY <1>1
  <1>3. accepted[Len(accepted)] \in UploadReceipt
    BY <1>1, <1>2
  <1> QED
    BY <1>1, <1>2, <1>3 DEF UploadReceipt, Last

\* The provider is answered: the log may have what it might have, since an error
\* takes out a receipt that was not yet in reach.
LEMMA TellStep ==
  ASSUME IInv, handling # "nothing", NEW answer \in {"success", "error"}, Tell(answer),
         answer = "error" <=> handling = "save",
         UNCHANGED <<quotes, broker, route, events, opened, accepted, now>>
  PROVE  IInv'
  <1>1. TypeOK /\ SessionsAreOwned /\ EventsAreBounded /\ EveryReceiptWasInvited /\ LogIsBehind
    BY DEF IInv
  <1>2. PICK m \in Nat \ {0} :
          /\ m = Len(accepted) /\ DOMAIN accepted = 1..m
          /\ Len(told) = m /\ told[m] = "nothing"
    BY LastInHand
  <1>3. told' = [told EXCEPT ![m] = answer] /\ handling' = "nothing"
    BY <1>2 DEF Tell
  <1>4. /\ told' \in Seq({"nothing", "success", "error"}) /\ Len(told') = m
        /\ told'[m] = answer /\ \A i \in 1..m : i # m => told'[i] = told[i]
    <2>1. told \in Seq({"nothing", "success", "error"}) /\ m \in 1..Len(told)
      BY <1>1, <1>2 DEF TypeOK
    <2>2. ASSUME NEW t \in Seq({"nothing", "success", "error"}), t = told
          PROVE  /\ [t EXCEPT ![m] = answer] \in Seq({"nothing", "success", "error"})
                 /\ Len([t EXCEPT ![m] = answer]) = Len(t)
                 /\ \A i \in 1..Len(t) :
                      [t EXCEPT ![m] = answer][i] = IF i = m THEN answer ELSE t[i]
      BY <2>1, <2>2, ExceptSeq
    <2> QED
      BY <1>2, <1>3, <2>1, <2>2
  <1>5. TypeOK'
    BY <1>1, <1>3, <1>4 DEF TypeOK, broker, route
  <1>6. SessionsAreOwned' /\ EventsAreBounded' /\ EveryReceiptWasInvited' /\ InHand'
    BY <1>1, <1>3 DEF broker, SessionsAreOwned, EventsAreBounded, Known,
                      EveryReceiptWasInvited, InHand
  <1>7. ASSUME NEW q \in Quote PROVE Claimable(q)' = Claimable(q)
    <2>1. CASE handling = "save" /\ answer = "error"
      BY <1>2, <1>3, <1>4, <2>1 DEF Claimable, NotRefused
    <2>2. CASE handling # "save" /\ answer = "success"
      BY <1>2, <1>3, <1>4, <2>2 DEF Claimable, NotRefused
    <2> QED
      BY <2>1, <2>2
  <1>8. LogIsBehind'
    BY <1>1, <1>7 DEF LogIsBehind
  <1> QED
    BY <1>5, <1>6, <1>8 DEF IInv

LEMMA FailStep == ASSUME IInv, SaveFails PROVE IInv'
  BY TellStep DEF SaveFails

LEMMA AnswerStep == ASSUME IInv, AnswerReceipt PROVE IInv'
  BY TellStep DEF AnswerReceipt

\* The receipt is saved: the log may have one more of its quote, and gets one at
\* most.
LEMMA LogStep ==
  ASSUME IInv, LogReceipt
  PROVE  IInv'
  <1>1. TypeOK /\ SessionsAreOwned /\ EventsAreBounded /\ EveryReceiptWasInvited
        /\ InHand /\ LogIsBehind
    BY DEF IInv
  <1>2. /\ handling = "save" /\ handling' = "answer"
        /\ LogEvent(Last(accepted).quote_id, "received")
        /\ UNCHANGED <<quotes, broker, route, past, now>>
    BY DEF LogReceipt
  <1>3. PICK m \in Nat \ {0}, q \in Quote :
          /\ m = Len(accepted) /\ DOMAIN accepted = 1..m /\ told[m] = "nothing"
          /\ accepted[m].quote_id = q /\ Last(accepted).quote_id = q
    BY <1>2, LastInHand
  <1>4. \A p \in Quote :
          /\ events'[p] \in [created : Nat, received : Nat]
          /\ \/ events'[p] = events[p]
             \/ /\ p = q
                /\ events'[p].received = events[p].received + 1
                /\ events'[p].created = events[p].created
    BY <1>2, <1>3, Logged
  <1>5. \A p \in Quote : events[p] \in [created : Nat, received : Nat]
    BY <1>1, BrokerConstants DEF TypeOK
  <1>6. Claimable(q)' = Claimable(q) \cup {m} /\ m \notin Claimable(q)
    BY <1>2, <1>3 DEF past, Claimable, NotRefused
  <1>7. \A p \in Quote : p # q => Claimable(p)' = Claimable(p)
    BY <1>2, <1>3 DEF past, Claimable, NotRefused
  <1>8. \A p \in Quote : IsFiniteSet(Claimable(p)) /\ Cardinality(Claimable(p)) \in Nat
    BY <1>1, ClaimableCount
  <1>9. Cardinality(Claimable(q)') = Cardinality(Claimable(q)) + 1
    BY <1>3, <1>6, <1>8, FS_AddElement
  <1>10. LogIsBehind'
    <2> SUFFICES ASSUME NEW p \in Quote
                 PROVE  events'[p].received <= Cardinality(Claimable(p)')
      BY DEF LogIsBehind
    <2>1. events[p].received \in Nat /\ events[p].received <= Cardinality(Claimable(p))
      BY <1>1, <1>5 DEF LogIsBehind
    <2>2. CASE p = q
      BY <1>4, <1>8, <1>9, <2>1, <2>2
    <2>3. CASE p # q
      BY <1>4, <1>7, <1>8, <2>1, <2>3
    <2> QED
      BY <2>2, <2>3
  <1>11. EventsAreBounded' /\ SessionsAreOwned' /\ EveryReceiptWasInvited' /\ InHand'
    <2>1. EventsAreBounded'
      BY <1>1, <1>2, <1>4, <1>5 DEF past, EventsAreBounded
    <2> QED
      BY <1>1, <1>2, <2>1 DEF broker, past, SessionsAreOwned, Known, EveryReceiptWasInvited,
                              InHand
  <1>12. events' \in [Quote -> [created : 0..MaxSessions, received : 0..MaxReceipts]]
    <2>1. events' = [p \in Quote |-> events'[p]]
      BY <1>1, <1>2 DEF LogEvent, TypeOK
    <2>2. ASSUME NEW p \in Quote
          PROVE  events'[p] \in [created : 0..MaxSessions, received : 0..MaxReceipts]
      <3>1. events'[p].created <= MaxSessions
        BY <1>1, <1>2, <1>4, <1>11, BrokerConstants DEF past, EventsAreBounded, TypeOK
      <3>2. Claimable(p)' = NotRefused(p)
        BY <1>2 DEF past, Claimable, NotRefused
      <3>3. /\ events'[p].received <= Cardinality(NotRefused(p))
            /\ Cardinality(NotRefused(p)) \in Nat
            /\ Cardinality(NotRefused(p)) <= Len(accepted)
        BY <1>1, <1>10, <3>2, ClaimableCount DEF LogIsBehind
      <3>4. Len(accepted) <= MaxReceipts /\ Len(accepted) \in Nat
        BY <1>1, <1>3 DEF TypeOK
      <3> QED
        BY <1>4, <3>1, <3>3, <3>4, BrokerConstants
    <2> QED
      BY <2>1, <2>2
  <1>13. TypeOK'
    BY <1>1, <1>2, <1>12 DEF TypeOK, broker, route, past
  <1> QED
    BY <1>1, <1>10, <1>11, <1>13 DEF IInv

LEMMA RestartStep ==
  ASSUME IInv, Restart
  PROVE  IInv'
  <1>1. TypeOK'
    <2>1. /\ sessions' \in [SessionId -> UploadSession \cup {NoSession}]
          /\ quoteSessions' \in [Quote -> Seq(SessionId)]
          /\ receipts' \subseteq DOMAIN accepted'
      BY DEF Restart, Fresh
    <2>2. receiver' \in {"absent", "online", "offline"}
      BY DEF Restart, Fresh, IInv, TypeOK
    <2> QED
      BY <2>1, <2>2, BrokerConstants DEF Restart, Fresh, IInv, TypeOK, past
  <1>2. receipts' = {} /\ \A s \in SessionId : ~Known(s)'
    BY DEF Restart, Fresh, Known
  <1>3. SessionsAreOwned' /\ EveryReceiptWasInvited'
    BY <1>2 DEF SessionsAreOwned, EveryReceiptWasInvited
  <1>4. EventsAreBounded' /\ InHand'
    BY DEF Restart, Fresh, past, IInv, EventsAreBounded, InHand
  <1>5. LogIsBehind'
    <2> SUFFICES ASSUME NEW q \in Quote
                 PROVE  events[q].received <= Cardinality(Claimable(q)')
      BY DEF Restart, LogIsBehind
    <2>1. Claimable(q)' = NotRefused(q)
      BY DEF Restart, Fresh, past, Claimable, NotRefused
    <2>2. events[q].received \in Nat
      BY BrokerConstants DEF IInv, TypeOK
    <2> QED
      BY <2>1, <2>2, ClaimableCount DEF IInv, LogIsBehind
  <1> QED
    BY <1>1, <1>3, <1>4, <1>5 DEF IInv

LEMMA InvStep == IInv /\ [Next]_vars => IInv'
  <1> SUFFICES ASSUME IInv, [Next]_vars PROVE IInv'
    OBVIOUS
  <1>1. CASE SetReceiverStatus
    <2>1. TypeOK'
      BY <1>1 DEF SetReceiverStatus, broker, past, IInv, TypeOK
    <2> QED
      BY <1>1, <2>1, QuietStep DEF SetReceiverStatus, broker
  <1>2. ASSUME NEW p \in FallbackChoice, SetFallbackProvider(p) PROVE IInv'
    <2>1. TypeOK'
      BY <1>2, BrokerConstants DEF SetFallbackProvider, broker, past, IInv, TypeOK
    <2> QED
      BY <1>2, <2>1, QuietStep DEF SetFallbackProvider, broker
  <1>3. ASSUME NEW q \in Quote, CloseQuote(q),
               UNCHANGED <<broker, route, events, handling, past, now>>
        PROVE  IInv'
    <2>1. quotes' \in [Quote -> QuoteRow]
          /\ \A p \in Quote : quotes'[p].account_id = quotes[p].account_id
      <3>1. quotes \in [Quote -> QuoteRow]
        BY DEF IInv, TypeOK
      <3>2. quotes' = [quotes EXCEPT ![q] = [quotes[q] EXCEPT !.open = FALSE]]
        BY <1>3 DEF CloseQuote
      <3>3. ASSUME NEW row \in QuoteRow
            PROVE  /\ [row EXCEPT !.open = FALSE] \in QuoteRow
                   /\ [row EXCEPT !.open = FALSE].account_id = row.account_id
        BY <3>3 DEF QuoteRow
      <3> QED
        BY <3>1, <3>2, <3>3
    <2>2. TypeOK'
      BY <1>3, <2>1 DEF broker, route, past, IInv, TypeOK
    <2> QED
      BY <1>3, <2>1, <2>2, QuietStep DEF broker
  <1>4. CASE Tick
    <2>1. TypeOK'
      BY <1>4, BrokerConstants DEF Tick, broker, route, past, IInv, TypeOK
    <2> QED
      BY <1>4, <2>1, QuietStep DEF Tick, broker
  <1>5. CASE UNCHANGED vars
    <2>1. TypeOK'
      BY <1>5 DEF vars, IInv, TypeOK
    <2> QED
      BY <1>5, <2>1, QuietStep DEF vars, past
  <1> QED
    BY <1>1, <1>2, <1>3, <1>4, <1>5, CreateStep, StoreStep, FailStep, LogStep,
       AnswerStep, RestartStep
       DEF Next, PostUploadRoute, PostUploadReceipt, QuoteCloses

-----------------------------------------------------------------------------
(* The tables                                                              *)

\* Appending something to a sequence adds it to its set.
LEMMA AppendedSet ==
  ASSUME NEW S, NEW s \in Seq(S), NEW e \in S
  PROVE  ToSet(Append(s, e)) = ToSet(s) \cup {e}
  <1> DEFINE t == Append(s, e)
  <1>1. /\ t[Len(s) + 1] = e /\ Len(s) \in Nat
        /\ DOMAIN t = 1..Len(s) + 1 /\ DOMAIN s = 1..Len(s)
        /\ \A i \in DOMAIN s : t[i] = s[i]
    OBVIOUS
  <1> HIDE DEF t
  <1>2. \A i \in DOMAIN t : i \in DOMAIN s \/ i = Len(s) + 1
    BY <1>1
  <1>3. ToSet(t) = ToSet(s) \cup {e}
    BY <1>1, <1>2 DEF ToSet
  <1> QED
    BY <1>3 DEF t

LEMMA TablesInit == Init => TablesAgree
  <1> SUFFICES ASSUME Init, NEW q \in Quote
               PROVE  /\ ToSet(quoteSessions[q]) = {}
                      /\ {s \in SessionId : Known(s) /\ sessions[s].quote_id = q} = {}
    BY DEF TablesAgree
  <1> QED
    BY DEF Init, ToSet, Known

LEMMA TablesStep == IInv /\ TablesAgree /\ [Next]_vars => TablesAgree'
  <1> SUFFICES ASSUME IInv, TablesAgree, [Next]_vars PROVE TablesAgree'
    OBVIOUS
  <1>1. ASSUME NEW q \in Quote, NEW a \in Account, NEW wish \in UploadRouteRequest,
               CreateUploadRoute(q, a, wish)
        PROVE  TablesAgree'
    <2>1. TypeOK /\ SessionsAreOwned /\ BrokerConstants
      BY BrokerConstants DEF IInv
    <2>2. PICK s \in SessionId :
            /\ s = opened + 1
            /\ sessions' = [sessions EXCEPT ![s] = NewSession(q, a, wish)]
            /\ quoteSessions' = [quoteSessions EXCEPT ![q] = Append(@, s)]
      BY <1>1 DEF CreateUploadRoute, Listed
    <2>3. ~Known(s)
      BY <2>1, <2>2 DEF SessionsAreOwned, TypeOK
    <2>4. PICK n \in UploadSession : n = NewSession(q, a, wish) /\ n.quote_id = q
      BY <2>1, NewSessionType DEF NewSession
    <2>5. quoteSessions[q] \in Seq(SessionId)
      BY <2>1 DEF TypeOK
    <2>6. ToSet(Append(quoteSessions[q], s)) = ToSet(quoteSessions[q]) \cup {s}
      BY <2>5, AppendedSet
    <2>7. /\ sessions'[s] = n
          /\ \A t \in SessionId \ {s} : sessions'[t] = sessions[t]
      BY <2>1, <2>2, <2>4 DEF TypeOK
    <2>8. /\ quoteSessions'[q] = Append(quoteSessions[q], s)
          /\ \A p \in Quote \ {q} : quoteSessions'[p] = quoteSessions[p]
      BY <2>1, <2>2 DEF TypeOK
    <2>9. ASSUME NEW p \in Quote
          PROVE  {t \in SessionId : Known(t)' /\ sessions'[t].quote_id = p}
                   = {t \in SessionId : Known(t) /\ sessions[t].quote_id = p}
                       \cup (IF p = q THEN {s} ELSE {})
      <3>1. Known(s)' /\ sessions'[s].quote_id = q
        BY <2>4, <2>7 DEF Known, UploadSession, NoSession
      <3>2. \A t \in SessionId \ {s} : Known(t)' <=> Known(t)
        BY <2>7 DEF Known
      <3> QED
        BY <2>2, <2>3, <2>7, <3>1, <3>2
    <2>10. ASSUME NEW p \in Quote
           PROVE  ToSet(quoteSessions'[p])
                    = {t \in SessionId : Known(t)' /\ sessions'[t].quote_id = p}
      <3>1. CASE p = q
        BY <2>6, <2>8, <2>9, <3>1 DEF TablesAgree
      <3>2. CASE p # q
        BY <2>8, <2>9, <3>2 DEF TablesAgree
      <3> QED
        BY <3>1, <3>2
    <2> QED
      BY <2>2, <2>10 DEF TablesAgree
  <1>2. CASE Restart
    BY <1>2 DEF Restart, Fresh, TablesAgree, ToSet, Known
  <1>3. CASE UNCHANGED <<sessions, quoteSessions>>
    BY <1>3 DEF TablesAgree, Known
  <1> QED
    BY <1>1, <1>2, <1>3
       DEF Next, PostUploadRoute, PostUploadReceipt, StoreReceipt, SaveFails, LogReceipt,
           AnswerReceipt, SetReceiverStatus, SetFallbackProvider, QuoteCloses, Tick,
           vars, broker

-----------------------------------------------------------------------------
(* The contract                                                            *)

\* The phases in the order they come.
LEMMA PhaseCases ==
  ASSUME TypeOK, NEW s \in SessionId
  PROVE  /\ s > opened => Phase(s) = "unopened"
         /\ s <= opened /\ Known(s) /\ ~IsExpired(s) => Phase(s) = "open"
         /\ s <= opened /\ (~Known(s) \/ IsExpired(s)) => Phase(s) = "closed"
         /\ s <= opened \/ s > opened
         /\ s \in Nat /\ opened \in Nat
  <1>1. s \in Nat /\ opened \in Nat
    BY BrokerConstants DEF TypeOK, SessionId
  <1> QED
    BY <1>1 DEF Phase

\* A step that stores no receipt and opens no session is one that closes some,
\* if any.
LEMMA CloseStep ==
  ASSUME UNCHANGED accepted,
         \A s \in SessionId : \/ Phase(s)' = Phase(s)
                              \/ Phase(s) = "open" /\ Phase(s)' = "closed"
  PROVE  Contract!Next
  <1> DEFINE phase == [s \in SessionId |-> Phase(s)]
  <1>1. PICK S \in SUBSET SessionId :
          \A s \in SessionId : s \in S <=> Phase(s) = "open" /\ Phase(s)' = "closed"
    <2>1. {s \in SessionId : Phase(s) = "open" /\ Phase(s)' = "closed"} \in SUBSET SessionId
      OBVIOUS
    <2> QED
      BY <2>1
  <1>2. [s \in SessionId |-> Phase(s)']
          = [s \in SessionId |-> IF s \in S THEN "closed" ELSE [t \in SessionId |-> Phase(t)][s]]
    BY <1>1
  <1>3. Contract!Close(S)
    BY <1>1, <1>2 DEF Contract!Close
  <1> QED
    BY <1>3 DEF Contract!Next

LEMMA ContractInit == Init => Contract!Init
  <1> SUFFICES ASSUME Init PROVE Contract!Init
    OBVIOUS
  <1>1. \A s \in SessionId : Phase(s) = "unopened"
    BY BrokerConstants DEF Init, Phase, SessionId
  <1>2. DOMAIN accepted = {}
    BY DEF Init
  <1> QED
    BY <1>1, <1>2 DEF Contract!Init

LEMMA OpenStep ==
  ASSUME IInv, TypeOK', NEW q \in Quote, NEW a \in Account, NEW wish \in UploadRouteRequest,
         CreateUploadRoute(q, a, wish)
  PROVE  Contract!Next
  <1>1. TypeOK /\ SessionsAreOwned
    BY DEF IInv
  <1>2. PICK s \in SessionId : /\ s = opened + 1 /\ opened' = s
                               /\ sessions' = [sessions EXCEPT ![s] = NewSession(q, a, wish)]
                               /\ UNCHANGED <<accepted, now>>
    BY DEF CreateUploadRoute
  <1>3. PICK n \in UploadSession : n = NewSession(q, a, wish) /\ n.expires_at = now + TTL
    BY <1>1, NewSessionType DEF NewSession
  <1>4. /\ sessions'[s] = n /\ n # NoSession
        /\ \A t \in SessionId \ {s} : sessions'[t] = sessions[t]
    BY <1>1, <1>2, <1>3 DEF TypeOK, UploadSession, NoSession
  <1>5. now \in Nat /\ TTL \in Nat /\ opened \in Nat /\ \A t \in SessionId : t \in Nat
    BY <1>1, BrokerConstants DEF TypeOK, SessionId
  <1>6. Phase(s) = "unopened" /\ Phase(s)' = "open"
    BY <1>2, <1>3, <1>4, <1>5 DEF Phase, Known, IsExpired
  <1>7. \A t \in SessionId \ {s} : Phase(t)' = Phase(t)
    <2> SUFFICES ASSUME NEW t \in SessionId \ {s} PROVE Phase(t)' = Phase(t)
      OBVIOUS
    <2>1. /\ Known(t)' <=> Known(t)
          /\ IsExpired(t)' <=> IsExpired(t)
      BY <1>2, <1>4 DEF Known, IsExpired
    <2>2. t <= s <=> t <= opened
      BY <1>2, <1>5
    <2>3. t > s <=> t > opened
      BY <1>2, <1>5
    <2>4. \/ t > opened /\ t > s
          \/ t <= opened /\ t <= s
      BY <1>5, <2>2, <2>3
    <2>5. CASE t > opened /\ t > s
      <3>1. Phase(t) = "unopened" /\ Phase(t)' = "unopened"
        BY <1>2, <1>5, <2>5 DEF Phase
      <3> QED
        BY <3>1
    <2>6. CASE t <= opened /\ t <= s
      <3>1. /\ Phase(t) = IF Known(t) /\ ~IsExpired(t) THEN "open" ELSE "closed"
            /\ Phase(t)' = IF Known(t)' /\ ~IsExpired(t)' THEN "open" ELSE "closed"
        BY <1>2, <1>5, <2>6 DEF Phase
      <3> QED
        BY <2>1, <3>1
    <2> QED
      BY <2>4, <2>5, <2>6
  <1>8. Contract!Open(s)
    BY <1>2, <1>6, <1>7 DEF Contract!Open
  <1> QED
    BY <1>8 DEF Contract!Next

LEMMA AcceptStep ==
  ASSUME IInv, NEW r \in UploadReceiptRequest, StoreReceipt(r)
  PROVE  Contract!Next
  <1>1. TypeOK /\ SessionsAreOwned
    BY DEF IInv
  <1>2. /\ Acceptable(r) /\ UNCHANGED <<sessions, opened, now>>
        /\ accepted' = Append(accepted, [upload_session_id |-> r.upload_session_id,
             quote_id |-> QuoteOf(r), provider |-> r.provider, received_at |-> now])
        /\ Len(accepted) < MaxReceipts
    BY DEF StoreReceipt
  <1>3. PICK s \in SessionId : s = r.upload_session_id /\ Known(s) /\ ~IsExpired(s)
    BY <1>2 DEF Acceptable, UploadReceiptRequest
  <1>4. Phase(s) = "open"
    BY <1>1, <1>3, PhaseCases DEF SessionsAreOwned
  <1>5. PICK n \in 1..MaxReceipts :
          /\ n = Len(accepted) + 1
          /\ DOMAIN accepted = 1..n - 1 /\ DOMAIN accepted' = 1..n
          /\ accepted'[n].upload_session_id = s
          /\ \A i \in DOMAIN accepted : accepted'[i] = accepted[i]
    <2>1. /\ accepted \in Seq(UploadReceipt) /\ Len(accepted) \in Nat
          /\ Len(accepted) + 1 \in 1..MaxReceipts
      BY <1>1, <1>2, BrokerConstants DEF TypeOK
    <2>2. /\ DOMAIN accepted = 1..Len(accepted)
          /\ DOMAIN accepted' = 1..Len(accepted) + 1
          /\ accepted'[Len(accepted) + 1].upload_session_id = s
          /\ \A i \in DOMAIN accepted : accepted'[i] = accepted[i]
      BY <1>2, <1>3, <2>1
    <2> QED
      BY <2>1, <2>2
  <1>6. \A t \in SessionId : Phase(t)' = Phase(t)
    BY <1>2 DEF Phase, Known, IsExpired
  <1> DEFINE Of(t)  == {i \in DOMAIN accepted : accepted[i].upload_session_id = t}
  <1>7. n \notin DOMAIN accepted /\ DOMAIN accepted' = DOMAIN accepted \cup {n}
    BY <1>5
  <1>8. \A t \in SessionId :
          {i \in DOMAIN accepted' : accepted'[i].upload_session_id = t}
            = IF t = s THEN Of(s) \cup {n} ELSE Of(t)
    BY <1>5, <1>7
  <1>9. [t \in SessionId |-> {i \in DOMAIN accepted' : accepted'[i].upload_session_id = t}]
          = [[t \in SessionId |-> Of(t)] EXCEPT ![s] = @ \cup {n}]
    BY <1>8
  <1>10. Contract!Accept(s, n)
    BY <1>4, <1>6, <1>7, <1>9 DEF Contract!Accept
  <1> QED
    BY <1>10 DEF Contract!Next

LEMMA ContractStep ==
  ASSUME IInv, IInv', [Next]_vars
  PROVE  [Contract!Next]_(Contract!vars)
  <1>1. TypeOK /\ TypeOK' /\ SessionsAreOwned
    BY DEF IInv
  <1>2. CASE UNCHANGED <<sessions, opened, accepted, now>>
    <2>1. \A s \in SessionId : Phase(s)' = Phase(s)
      BY <1>2 DEF Phase, Known, IsExpired
    <2> QED
      BY <1>2, <2>1, CloseStep
  <1>3. CASE Restart
    <2>1. \A s \in SessionId : sessions'[s] = NoSession
      BY <1>3 DEF Restart, Fresh
    <2>2. UNCHANGED <<opened, accepted>>
      BY <1>3 DEF Restart, past
    <2>3. ASSUME NEW s \in SessionId
          PROVE  \/ Phase(s)' = Phase(s)
                 \/ Phase(s) = "open" /\ Phase(s)' = "closed"
      <3>1. Phase(s)' = IF s > opened THEN "unopened" ELSE "closed"
        <4>1. s \in Nat /\ opened \in Nat
          BY <1>1, PhaseCases
        <4> QED
          BY <2>1, <2>2, <4>1 DEF Phase, Known
      <3> QED
        BY <1>1, <3>1, PhaseCases
    <2> QED
      BY <2>2, <2>3, CloseStep
  <1>4. CASE Tick
    <2>1. now' = now + 1 /\ now \in Nat /\ UNCHANGED <<sessions, opened, accepted>>
      BY <1>1, <1>4 DEF Tick, broker, past, TypeOK
    <2>2. ASSUME NEW s \in SessionId
          PROVE  \/ Phase(s)' = Phase(s)
                 \/ Phase(s) = "open" /\ Phase(s)' = "closed"
      <3>1. s \in Nat /\ opened \in Nat
        BY <1>1, PhaseCases
      <3>2. Known(s) => sessions[s].expires_at \in Nat
        BY <1>1, KnownType, BrokerConstants DEF UploadSession
      <3>3. Known(s) /\ IsExpired(s) => IsExpired(s)'
        BY <2>1, <3>2 DEF IsExpired
      <3>4. Known(s)' <=> Known(s)
        BY <2>1 DEF Known
      <3> QED
        BY <2>1, <3>1, <3>3, <3>4 DEF Phase
    <2> QED
      BY <2>1, <2>2, CloseStep
  <1>5. CASE PostUploadRoute
    BY <1>1, <1>5, OpenStep DEF PostUploadRoute
  <1>6. CASE PostUploadReceipt
    BY <1>6, AcceptStep DEF PostUploadReceipt
  <1> QED
    BY <1>2, <1>3, <1>4, <1>5, <1>6
       DEF Next, vars, SetReceiverStatus, SetFallbackProvider, QuoteCloses, SaveFails,
           LogReceipt, AnswerReceipt, broker, past

-----------------------------------------------------------------------------
(* The theorems                                                            *)

\* The inductive invariant holds in every reachable state.
THEOREM Invariance == Spec => []IInv
  BY InvInit, InvStep, PTL DEF Spec

\* Every variable keeps its type.
THEOREM TypeCorrect == Spec => []TypeOK
  <1>1. IInv => TypeOK
    BY DEF IInv
  <1> QED
    BY <1>1, Invariance, PTL

\* Every receipt in the table was sent by the provider its session chose, in
\* time, for a session that the verified owner of its quote opened.
THEOREM ReceiptsWereInvited == Spec => []EveryReceiptWasInvited
  <1>1. IInv => EveryReceiptWasInvited
    BY DEF IInv
  <1> QED
    BY <1>1, Invariance, PTL

\* The log never has more receipts of a quote than there are whose provider was
\* not told of an error, wherever in a request the process dies.
THEOREM TheLogIsTrue == Spec => []LogIsTrue
  <1>1. ASSUME IInv, NEW q \in Quote
        PROVE  events[q].received <= Cardinality(NotRefused(q))
    <2>1. events[q].received \in Nat
      BY <1>1, BrokerConstants DEF IInv, TypeOK
    <2> QED
      BY <1>1, <2>1, ClaimableCount DEF IInv, LogIsBehind
  <1>2. IInv => LogIsTrue
    BY <1>1 DEF LogIsTrue
  <1> QED
    BY <1>2, Invariance, PTL

\* The owner of a quote is shown its live sessions, all and only, as long as the
\* process lives.
THEOREM OwnersAreShownSessions == Spec => []OwnersSeeSessions
  <1>1. Init => TablesAgree
    BY TablesInit
  <1>2. IInv /\ TablesAgree /\ [Next]_vars => TablesAgree'
    BY TablesStep
  <1>3. Spec => []TablesAgree
    BY <1>1, <1>2, Invariance, PTL DEF Spec
  <1>4. TablesAgree => OwnersSeeSessions
    BY DEF TablesAgree, OwnersSeeSessions, ListUploadSessions, OwnerOnly
  <1> QED
    BY <1>3, <1>4, PTL

\* The broker implements UploadSessionContract: every step opens a session,
\* takes a receipt for an open one, or closes some, if it does any of these.
THEOREM Refinement == Spec => KeepsContract
  BY ContractInit, ContractStep, Invariance, PTL DEF Spec, KeepsContract, Contract!Spec

================================================================================
