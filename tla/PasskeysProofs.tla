----------------------------- MODULE PasskeysProofs -----------------------------
(***************************************************************************)
(* Proofs about passkeys and sessions, for any authenticators, any         *)
(* lifetimes and any bounds on challenges, accounts and time: the types,   *)
(* that a challenge opens one session, that counters go up, and that a     *)
(* request is served as the account its passkey was registered for.        *)
(***************************************************************************)
EXTENDS Passkeys, FiniteSetTheorems, TLAPS

Registering == {"credential", "consume_register", "log_register"}
LoggingIn   == {"consume_login", "session"}
Enrolled    == {"consume_register", "log_register"}

Spent == {c \in DOMAIN challenges : challenges[c].status = "consumed"}

\* The challenges that were answered by an authenticator.
Answered == {r.challenge : r \in responses}

\* Row i is the one that get_credential finds for authenticator d.
IsFirst(i, d) == i \in RowsOf(d) /\ \A j \in RowsOf(d) : i <= j

\* A counter has advanced at most once for each answered challenge, and an
\* authenticator that counts never sends 0 with an assertion.
CountersFit ==
  /\ Answered \subseteq DOMAIN challenges
  /\ \A d \in Device : counter[d] <= Cardinality(Answered)
  /\ \A r \in responses : r.action = "login" /\ r.device \in Counting => r.count > 0

\* An authenticator registers once, before it has a row, and the handler works
\* on a response.
ResponsesFit ==
  /\ \A i \in DOMAIN credentials : \E r \in responses : r.device = credentials[i].device
  /\ \A r, s \in responses : r.action = "register" /\ s.action = "register"
                               /\ r.device = s.device => r = s
  /\ handler # Idle =>
       /\ handler.response \in responses
       /\ handler.at \in Registering <=> handler.response.action = "register"

\* A challenge is spent before it opens a session, and has opened none while
\* a sign-in is on its way to its own.
ChallengesAreSpent ==
  /\ \A i \in DOMAIN sessions : sessions[i].challenge \in Spent
  /\ handler.at \in LoggingIn =>
       \A i \in DOMAIN sessions : sessions[i].challenge # handler.response.challenge
  /\ handler.at = "session" => handler.response.challenge \in Spent

\* The first row of a passkey that counts has the highest count that opened a
\* session, and a sign-in that was accepted has a higher one.
CountersAreStored ==
  \A d \in Counting :
    /\ \A i \in DOMAIN sessions : sessions[i].device = d =>
         \E k \in DOMAIN credentials :
           IsFirst(k, d) /\ sessions[i].count <= credentials[k].sign_count
    /\ handler.at \in LoggingIn /\ handler.response.device = d =>
         /\ \E k \in DOMAIN credentials :
              IsFirst(k, d) /\ handler.response.count <= credentials[k].sign_count
         /\ \A i \in DOMAIN sessions :
              sessions[i].device = d => sessions[i].count < handler.response.count

\* Where there is a row there is a first one.
FirstRowsExist ==
  \A d \in Device : RowsOf(d) # {} => \E i \in DOMAIN credentials : IsFirst(i, d)

HasRow(d, a) ==
  \E i \in DOMAIN credentials : credentials[i].device = d /\ credentials[i].account = a

\* Whoever is signed in, or was told of an account, has a row that says so.
AccountsHaveRows ==
  \A d \in Device, a \in AccountId :
    /\ \A i \in DOMAIN sessions :
         sessions[i].device = d /\ sessions[i].account = a => HasRow(d, a)
    /\ [device |-> d, account |-> a] \in told => HasRow(d, a)
    /\ handler.at \in LoggingIn \cup Enrolled /\ handler.response.device = d
         /\ handler.account = a => HasRow(d, a)

\* The registration of d was answered by nobody or is over.
RegistrationIsOver(d) ==
  \A r \in responses : r.action = "register" /\ r.device = d => r.challenge \in Spent

\* A passkey whose registration was not cut short has at most one row, and
\* cannot get another: its challenge is spent, or about to be.
RegisteredOnce ==
  \A d \in Device \ interrupted :
    /\ \A i, j \in RowsOf(d) : i = j
    /\ RowsOf(d) # {} =>
         \/ RegistrationIsOver(d)
         \/ handler.at = "consume_register" /\ handler.response.device = d
    /\ handler.at = "credential" /\ handler.response.device = d => RowsOf(d) = {}
    /\ handler.at = "log_register" /\ handler.response.device = d => RegistrationIsOver(d)

\* A sign-in and a sign-out are in the table before they are answered, and a
\* request is served as the account of its session.
SessionsAreStored ==
  /\ handler.at = "log_login" => Len(sessions) > 0
  /\ \A s \in signed_out : sessions[s].revoked
  /\ \A u \in served : ~u.late /\ u.account = sessions[u.session].account

IInv ==
  /\ TypeOK /\ CountersFit /\ ResponsesFit
  /\ ChallengesAreSpent /\ OneSessionPerChallenge
  /\ FirstRowsExist /\ CountersAreStored /\ CountersGoUp
  /\ AccountsHaveRows /\ RegisteredOnce
  /\ SessionsAreStored

-----------------------------------------------------------------------------
(* What the helpers return                                                 *)

\* Replacing one element of a sequence.
LEMMA Replaced ==
  ASSUME NEW S, NEW s \in Seq(S), NEW i \in DOMAIN s, NEW e \in S,
         NEW u, u = [s EXCEPT ![i] = e]
  PROVE  /\ u \in Seq(S) /\ DOMAIN u = DOMAIN s /\ Len(u) = Len(s)
         /\ u[i] = e /\ \A j \in DOMAIN s : j # i => u[j] = s[j]
  OBVIOUS

\* One more element.
LEMMA OneMore ==
  ASSUME NEW S, IsFiniteSet(S), NEW x, x \notin S
  PROVE  Cardinality(S \cup {x}) = Cardinality(S) + 1
  BY FS_AddElement

\* What a handler that is not idle holds.
LEMMA HandlerType ==
  ASSUME TypeOK, handler.at # "idle"
  PROVE  /\ handler # Idle
         /\ handler.response \in Response /\ handler.account \in AccountId
  BY DEF TypeOK, Handler, Idle

\* Marking a challenge consumed keeps its type and every other challenge.
LEMMA ConsumedChallenges ==
  ASSUME TypeOK, NEW c \in DOMAIN challenges
  PROVE  /\ Consumed(c) \in Seq(Challenge) /\ DOMAIN Consumed(c) = DOMAIN challenges
         /\ Len(Consumed(c)) = Len(challenges)
         /\ Consumed(c)[c].status = "consumed"
         /\ \A d \in DOMAIN challenges :
              /\ Consumed(c)[d].action = challenges[d].action
              /\ challenges[d].status = "consumed" => Consumed(c)[d].status = "consumed"
  <1>1. \A d \in DOMAIN challenges : challenges[d] \in Challenge
    BY DEF TypeOK
  <1>2. /\ [challenges[c] EXCEPT !.status = "consumed"] \in Challenge
        /\ [challenges[c] EXCEPT !.status = "consumed"].status = "consumed"
        /\ [challenges[c] EXCEPT !.status = "consumed"].action = challenges[c].action
    BY <1>1 DEF Challenge
  <1>3. Consumed(c) = [challenges EXCEPT ![c] = [challenges[c] EXCEPT !.status = "consumed"]]
    BY DEF Consumed
  <1> DEFINE e == [challenges[c] EXCEPT !.status = "consumed"]
  <1>4. challenges \in Seq(Challenge)
    BY DEF TypeOK
  <1>5. e \in Challenge
    BY <1>2
  <1>6. Consumed(c) = [challenges EXCEPT ![c] = e]
    BY <1>3
  <1> HIDE DEF e
  <1>7. /\ Consumed(c) \in Seq(Challenge) /\ DOMAIN Consumed(c) = DOMAIN challenges
        /\ Len(Consumed(c)) = Len(challenges) /\ Consumed(c)[c] = e
        /\ \A j \in DOMAIN challenges : j # c => Consumed(c)[j] = challenges[j]
    BY <1>4, <1>5, <1>6, Replaced
  <1> QED
    BY <1>2, <1>7 DEF e

\* Revoking a session changes nothing else of it.
LEMMA RevokedSessions ==
  ASSUME TypeOK, NEW s \in DOMAIN sessions, Revoke(s)
  PROVE  /\ sessions' \in Seq(Session) /\ DOMAIN sessions' = DOMAIN sessions
         /\ sessions'[s].revoked
         /\ \A i \in DOMAIN sessions :
              /\ sessions'[i].account = sessions[i].account
              /\ sessions'[i].device = sessions[i].device
              /\ sessions'[i].challenge = sessions[i].challenge
              /\ sessions'[i].count = sessions[i].count
              /\ sessions[i].revoked => sessions'[i].revoked
  <1>1. \A i \in DOMAIN sessions : sessions[i] \in Session
    BY DEF TypeOK
  <1>2. /\ [sessions[s] EXCEPT !.revoked = TRUE] \in Session
        /\ [sessions[s] EXCEPT !.revoked = TRUE].revoked
        /\ [sessions[s] EXCEPT !.revoked = TRUE].account = sessions[s].account
        /\ [sessions[s] EXCEPT !.revoked = TRUE].device = sessions[s].device
        /\ [sessions[s] EXCEPT !.revoked = TRUE].challenge = sessions[s].challenge
        /\ [sessions[s] EXCEPT !.revoked = TRUE].count = sessions[s].count
    BY <1>1 DEF Session
  <1>3. sessions' = [sessions EXCEPT ![s] = [sessions[s] EXCEPT !.revoked = TRUE]]
    BY DEF Revoke
  <1> DEFINE e == [sessions[s] EXCEPT !.revoked = TRUE]
  <1>4. sessions \in Seq(Session)
    BY DEF TypeOK
  <1>5. e \in Session
    BY <1>2
  <1>6. sessions' = [sessions EXCEPT ![s] = e]
    BY <1>3
  <1> HIDE DEF e
  <1>7. /\ sessions' \in Seq(Session) /\ DOMAIN sessions' = DOMAIN sessions
        /\ Len(sessions') = Len(sessions) /\ sessions'[s] = e
        /\ \A j \in DOMAIN sessions : j # s => sessions'[j] = sessions[j]
    BY <1>4, <1>5, <1>6, Replaced
  <1> QED
    BY <1>2, <1>7 DEF e

\* Storing the count of an assertion changes nothing else of a row.
LEMMA CountedCredentials ==
  ASSUME TypeOK, NEW i \in DOMAIN credentials, NEW n \in Count,
         credentials' = [credentials EXCEPT ![i] = AfterLogin(@, n)]
  PROVE  /\ credentials' \in Seq(Credential) /\ DOMAIN credentials' = DOMAIN credentials
         /\ credentials'[i].sign_count = n
         /\ \A k \in DOMAIN credentials :
              /\ credentials'[k].device = credentials[k].device
              /\ credentials'[k].account = credentials[k].account
              /\ k # i => credentials'[k] = credentials[k]
  <1>1. \A k \in DOMAIN credentials : credentials[k] \in Credential
    BY DEF TypeOK
  <1>2. /\ [credentials[i] EXCEPT !.sign_count = n] \in Credential
        /\ [credentials[i] EXCEPT !.sign_count = n].sign_count = n
        /\ [credentials[i] EXCEPT !.sign_count = n].device = credentials[i].device
        /\ [credentials[i] EXCEPT !.sign_count = n].account = credentials[i].account
    BY <1>1 DEF Credential
  <1>3. credentials' = [credentials EXCEPT ![i] = [credentials[i] EXCEPT !.sign_count = n]]
    BY DEF AfterLogin
  <1> DEFINE e == [credentials[i] EXCEPT !.sign_count = n]
  <1>4. credentials \in Seq(Credential)
    BY DEF TypeOK
  <1>5. e \in Credential
    BY <1>2
  <1>6. credentials' = [credentials EXCEPT ![i] = e]
    BY <1>3
  <1> HIDE DEF e
  <1>7. /\ credentials' \in Seq(Credential) /\ DOMAIN credentials' = DOMAIN credentials
        /\ Len(credentials') = Len(credentials) /\ credentials'[i] = e
        /\ \A j \in DOMAIN credentials : j # i => credentials'[j] = credentials[j]
    BY <1>4, <1>5, <1>6, Replaced
  <1> QED
    BY <1>2, <1>7 DEF e

\* FirstRow is a first row.
LEMMA FirstRowIsFirst ==
  ASSUME FirstRowsExist, TypeOK, NEW d \in Device, RowsOf(d) # {}
  PROVE  /\ IsFirst(FirstRow(d), d) /\ FirstRow(d) \in DOMAIN credentials
         /\ credentials[FirstRow(d)].device = d
  <1>1. \E i \in RowsOf(d) : \A j \in RowsOf(d) : i <= j
    BY DEF FirstRowsExist, IsFirst
  <1>2. FirstRow(d) \in RowsOf(d) /\ \A j \in RowsOf(d) : FirstRow(d) <= j
    BY <1>1 DEF FirstRow, Min
  <1> QED
    BY <1>2 DEF IsFirst, RowsOf

-----------------------------------------------------------------------------
(* What a step may do to each table                                        *)

\* Challenges are added and spent, never removed or restored.
LEMMA ChallengeSteps ==
  ASSUME IInv, [Next]_vars
  PROVE  /\ challenges' \in Seq(Challenge) /\ Len(challenges') <= MaxChallenges
         /\ DOMAIN challenges \subseteq DOMAIN challenges'
         /\ \A c \in DOMAIN challenges :
              challenges[c].status = "consumed" => challenges'[c].status = "consumed"
  <1>1. TypeOK
    BY DEF IInv
  <1>2. ASSUME NEW a \in {"register", "login"}, Store(NewChallenge(a))
        PROVE  /\ challenges' \in Seq(Challenge) /\ Len(challenges') <= MaxChallenges
               /\ DOMAIN challenges \subseteq DOMAIN challenges'
               /\ \A c \in DOMAIN challenges : challenges'[c] = challenges[c]
    <2>1. NewChallenge(a) \in Challenge
      BY <1>1, PasskeyConstants DEF NewChallenge, Challenge, TypeOK
    <2>2. challenges' = Append(challenges, NewChallenge(a)) /\ Len(challenges) < MaxChallenges
      BY <1>2 DEF Store
    <2> HIDE DEF NewChallenge
    <2> QED
      BY <1>1, <2>1, <2>2, PasskeyConstants DEF TypeOK
  <1>3. ASSUME NEW c \in DOMAIN challenges, challenges' = Consumed(c)
        PROVE  /\ challenges' \in Seq(Challenge) /\ Len(challenges') <= MaxChallenges
               /\ DOMAIN challenges \subseteq DOMAIN challenges'
               /\ \A d \in DOMAIN challenges :
                    challenges[d].status = "consumed" => challenges'[d].status = "consumed"
    BY <1>1, <1>3, ConsumedChallenges DEF TypeOK
  <1>4. ASSUME NEW r \in responses PROVE r.challenge \in DOMAIN challenges
    BY DEF IInv, CountersFit, Answered
  <1>5. ASSUME handler.at # "idle"
        PROVE  handler.response.challenge \in DOMAIN challenges
    BY <1>1, <1>4, <1>5, HandlerType DEF IInv, ResponsesFit
  <1>6. CASE RegisterOptions \/ LoginOptions
    BY <1>2, <1>6 DEF RegisterOptions, LoginOptions
  <1>7. CASE \E r \in responses : ExpireChallenge(r)
    BY <1>3, <1>4, <1>7 DEF ExpireChallenge
  <1>8. CASE ConsumeRegistration \/ ConsumeLogin
    BY <1>3, <1>5, <1>8 DEF ConsumeRegistration, ConsumeLogin, Serving
  <1>9. CASE challenges' = challenges
    BY <1>1, <1>9 DEF TypeOK
  <1> QED
    BY <1>6, <1>7, <1>8, <1>9
    DEF Next, Sign, CreateAccount, UpdateAfterLogin, RefuseLogin, CreateCredential,
        AnswerRegistration, CreateSession, AnswerLogin, LoginRaises, LogFailure,
        Logout, ServeRequest, Fail, Tick, vars, tables

\* Rows of passkeys are added, and only their count changes.
LEMMA CredentialSteps ==
  ASSUME IInv, [Next]_vars
  PROVE  /\ credentials' \in Seq(Credential)
         /\ DOMAIN credentials \subseteq DOMAIN credentials'
         /\ \A i \in DOMAIN credentials :
              /\ credentials'[i].device = credentials[i].device
              /\ credentials'[i].account = credentials[i].account
         /\ ~CreateCredential => DOMAIN credentials' = DOMAIN credentials
         /\ CreateCredential =>
              /\ DOMAIN credentials' = DOMAIN credentials \cup {Len(credentials) + 1}
              /\ credentials'[Len(credentials) + 1].device = handler.response.device
              /\ credentials'[Len(credentials) + 1].account = handler.account
              /\ \A i \in DOMAIN credentials : credentials'[i] = credentials[i]
  <1>1. TypeOK /\ FirstRowsExist
    BY DEF IInv
  <1>2. CASE CreateCredential
    <2> DEFINE row == [device |-> handler.response.device, account |-> handler.account,
                       sign_count |-> handler.response.count]
    <2>1. row \in Credential
      BY <1>1, <1>2, HandlerType DEF CreateCredential, Serving, Credential, Response
    <2>2. credentials' = Append(credentials, row)
      BY <1>2 DEF CreateCredential, InsertCredential
    <2>3. row.device = handler.response.device /\ row.account = handler.account
      OBVIOUS
    <2> HIDE DEF row
    <2> QED
      BY <1>1, <1>2, <2>1, <2>2, <2>3 DEF TypeOK
  <1>3. CASE \E r \in responses : UpdateAfterLogin(r)
    <2>1. PICK r \in responses : UpdateAfterLogin(r)
      BY <1>3
    <2>2. r \in Response /\ r.device \in Device /\ r.count \in Count
      BY <1>1 DEF TypeOK, Response
    <2>3. /\ FirstRow(r.device) \in DOMAIN credentials
          /\ credentials' = [credentials EXCEPT ![FirstRow(r.device)] = AfterLogin(@, r.count)]
      BY <1>1, <2>1, <2>2, FirstRowIsFirst DEF UpdateAfterLogin
    <2>4. ~CreateCredential
      BY <2>1 DEF CreateCredential, UpdateAfterLogin, Serving
    <2> QED
      BY <1>1, <2>2, <2>3, <2>4, CountedCredentials
  <1>4. CASE credentials' = credentials /\ ~CreateCredential
    BY <1>1, <1>4 DEF TypeOK
  <1> QED
    BY <1>2, <1>3, <1>4
    DEF Next, Sign, CreateAccount, RefuseLogin, RegisterOptions, LoginOptions, Store,
        ExpireChallenge, ConsumeRegistration, ConsumeLogin,
        AnswerRegistration, CreateSession, AnswerLogin, LoginRaises, LogFailure,
        Logout, ServeRequest, Fail, Tick, vars, tables

\* Sessions are added and revoked, and nothing else of them changes.
LEMMA SessionSteps ==
  ASSUME IInv, [Next]_vars
  PROVE  /\ sessions' \in Seq(Session)
         /\ DOMAIN sessions \subseteq DOMAIN sessions'
         /\ \A i \in DOMAIN sessions :
              /\ sessions'[i].account = sessions[i].account
              /\ sessions'[i].device = sessions[i].device
              /\ sessions'[i].challenge = sessions[i].challenge
              /\ sessions'[i].count = sessions[i].count
              /\ sessions[i].revoked => sessions'[i].revoked
         /\ ~CreateSession => DOMAIN sessions' = DOMAIN sessions
         /\ CreateSession =>
              /\ DOMAIN sessions' = DOMAIN sessions \cup {Len(sessions) + 1}
              /\ \A i \in DOMAIN sessions : i < Len(sessions) + 1
              /\ sessions'[Len(sessions) + 1].account = handler.account
              /\ sessions'[Len(sessions) + 1].device = handler.response.device
              /\ sessions'[Len(sessions) + 1].challenge = handler.response.challenge
              /\ sessions'[Len(sessions) + 1].count = handler.response.count
  <1>1. TypeOK
    BY DEF IInv
  <1>2. CASE CreateSession
    <2>1. NewSession \in Session
      <3>1. handler.response \in Response /\ handler.account \in AccountId
        BY <1>1, <1>2, HandlerType DEF CreateSession, Serving
      <3>2. now + SessionLife \in Nat
        BY <1>1, PasskeyConstants DEF TypeOK
      <3> QED
        BY <3>1, <3>2 DEF NewSession, Session, Response
    <2>2. sessions' = Append(sessions, NewSession)
      BY <1>2 DEF CreateSession, InsertSession
    <2>3. /\ NewSession.account = handler.account
          /\ NewSession.device = handler.response.device
          /\ NewSession.challenge = handler.response.challenge
          /\ NewSession.count = handler.response.count
      BY DEF NewSession
    <2> QED
      BY <1>1, <1>2, <2>1, <2>2, <2>3 DEF TypeOK
  <1>3. CASE \E s \in DOMAIN sessions : Logout(s)
    <2>1. ~CreateSession
      BY <1>3 DEF CreateSession, Logout, Serving
    <2> QED
      BY <1>1, <1>3, <2>1, RevokedSessions DEF Logout
  <1>4. CASE sessions' = sessions /\ ~CreateSession
    BY <1>1, <1>4 DEF TypeOK
  <1> QED
    BY <1>2, <1>3, <1>4
    DEF Next, Sign, CreateAccount, RefuseLogin, RegisterOptions, LoginOptions, Store,
        ExpireChallenge, ConsumeRegistration, ConsumeLogin, UpdateAfterLogin,
        AnswerRegistration, CreateCredential, AnswerLogin, LoginRaises, LogFailure,
        ServeRequest, Fail, Tick, vars, tables

\* The handler waits, ends, moves on, or begins a response.
LEMMA HandlerSteps ==
  ASSUME [Next]_vars
  PROVE  \/ handler' = handler \/ handler' = Idle
         \/ CreateCredential \/ ConsumeRegistration
         \/ ConsumeLogin \/ CreateSession \/ LoginRaises
         \/ \E r \in responses : CreateAccount(r) \/ UpdateAfterLogin(r) \/ RefuseLogin(r)
  BY DEF Next, Sign, RegisterOptions, LoginOptions, Store, ExpireChallenge,
         AnswerRegistration, AnswerLogin, LogFailure, Logout, ServeRequest, Fail, Tick, vars

\* A handler that moves on keeps its request.
LEMMA HandlerMoves ==
  ASSUME IInv,
         CreateCredential \/ ConsumeRegistration \/ ConsumeLogin \/ CreateSession
           \/ LoginRaises
  PROVE  /\ handler' \in Handler /\ handler' # Idle /\ handler # Idle
         /\ handler'.response = handler.response /\ handler'.account = handler.account
         /\ CreateCredential =>
              handler.at = "credential" /\ handler'.at = "consume_register"
         /\ ConsumeRegistration =>
              handler.at = "consume_register" /\ handler'.at = "log_register"
         /\ ConsumeLogin => handler.at = "consume_login" /\ handler'.at = "session"
         /\ CreateSession => handler.at = "session" /\ handler'.at = "log_login"
         /\ LoginRaises => /\ handler.at \in {"consume_login", "session", "log_login"}
                           /\ handler'.at = "log_failure"
         /\ responses' = responses
  <1>1. TypeOK
    BY DEF IInv
  <1>2. handler # Idle
    BY DEF CreateCredential, ConsumeRegistration, ConsumeLogin, CreateSession,
           LoginRaises, Serving, Idle
  <1>4. ASSUME CreateCredential
        PROVE  /\ handler' \in Handler /\ handler' # Idle
               /\ handler'.response = handler.response
               /\ handler'.account = handler.account
               /\ handler.at = "credential" /\ handler'.at = "consume_register"
               /\ responses' = responses
    <2>1. /\ handler' = [handler EXCEPT !.at = "consume_register"]
          /\ handler.at = "credential" /\ responses' = responses
      BY <1>4 DEF CreateCredential, Serving, Then
    <2>2. /\ handler' \in Handler /\ handler'.at = "consume_register" /\ handler' # Idle
          /\ handler'.response = handler.response
          /\ handler'.account = handler.account
      BY <1>1, <1>2, <2>1 DEF TypeOK, Handler, Idle
    <2> QED
      BY <2>1, <2>2
  <1>5. ASSUME ConsumeRegistration
        PROVE  /\ handler' \in Handler /\ handler' # Idle
               /\ handler'.response = handler.response
               /\ handler'.account = handler.account
               /\ handler.at = "consume_register" /\ handler'.at = "log_register"
               /\ responses' = responses
    <2>1. /\ handler' = [handler EXCEPT !.at = "log_register"]
          /\ handler.at = "consume_register" /\ responses' = responses
      BY <1>5 DEF ConsumeRegistration, Serving, Then
    <2>2. /\ handler' \in Handler /\ handler'.at = "log_register" /\ handler' # Idle
          /\ handler'.response = handler.response
          /\ handler'.account = handler.account
      BY <1>1, <1>2, <2>1 DEF TypeOK, Handler, Idle
    <2> QED
      BY <2>1, <2>2
  <1>6. ASSUME ConsumeLogin
        PROVE  /\ handler' \in Handler /\ handler' # Idle
               /\ handler'.response = handler.response
               /\ handler'.account = handler.account
               /\ handler.at = "consume_login" /\ handler'.at = "session"
               /\ responses' = responses
    <2>1. /\ handler' = [handler EXCEPT !.at = "session"]
          /\ handler.at = "consume_login" /\ responses' = responses
      BY <1>6 DEF ConsumeLogin, Serving, Then
    <2>2. /\ handler' \in Handler /\ handler'.at = "session" /\ handler' # Idle
          /\ handler'.response = handler.response
          /\ handler'.account = handler.account
      BY <1>1, <1>2, <2>1 DEF TypeOK, Handler, Idle
    <2> QED
      BY <2>1, <2>2
  <1>7. ASSUME CreateSession
        PROVE  /\ handler' \in Handler /\ handler' # Idle
               /\ handler'.response = handler.response
               /\ handler'.account = handler.account
               /\ handler.at = "session" /\ handler'.at = "log_login"
               /\ responses' = responses
    <2>1. /\ handler' = [handler EXCEPT !.at = "log_login"]
          /\ handler.at = "session" /\ responses' = responses
      BY <1>7 DEF CreateSession, Serving, Then
    <2>2. /\ handler' \in Handler /\ handler'.at = "log_login" /\ handler' # Idle
          /\ handler'.response = handler.response
          /\ handler'.account = handler.account
      BY <1>1, <1>2, <2>1 DEF TypeOK, Handler, Idle
    <2> QED
      BY <2>1, <2>2
  <1>8. ASSUME LoginRaises
        PROVE  /\ handler' \in Handler /\ handler' # Idle
               /\ handler'.response = handler.response
               /\ handler'.account = handler.account
               /\ handler.at \in {"consume_login", "session", "log_login"} /\ handler'.at = "log_failure"
               /\ responses' = responses
    <2>1. /\ handler' = [handler EXCEPT !.at = "log_failure"]
          /\ responses' = responses
          /\ handler.at \in {"consume_login", "session", "log_login"}
      BY <1>8 DEF LoginRaises, Then
    <2>2. /\ handler' \in Handler /\ handler'.at = "log_failure" /\ handler' # Idle
          /\ handler'.response = handler.response
          /\ handler'.account = handler.account
      BY <1>1, <1>2, <2>1 DEF TypeOK, Handler, Idle
    <2> QED
      BY <2>1, <2>2
  <1> QED
    BY <1>2, <1>4, <1>5, <1>6, <1>7, <1>8

\* A handler that begins a response holds it.
LEMMA HandlerBegins ==
  ASSUME IInv, NEW r \in responses,
         CreateAccount(r) \/ UpdateAfterLogin(r) \/ RefuseLogin(r)
  PROVE  /\ handler = Idle /\ handler' \in Handler /\ handler' # Idle
         /\ handler'.response = r
         /\ \/ CreateAccount(r) /\ r.action = "register" /\ handler'.at = "credential"
            \/ /\ UpdateAfterLogin(r)
               /\ r.action = "login" /\ handler'.at = "consume_login"
            \/ RefuseLogin(r) /\ r.action = "login" /\ handler'.at = "log_failure"
         /\ responses' = responses
  <1>1. TypeOK /\ FirstRowsExist /\ r \in Response /\ r.device \in Device
    BY DEF IInv, TypeOK, Response
  <1>2. handler = Idle
    BY <1>1 DEF CreateAccount, UpdateAfterLogin, RefuseLogin, Serving, TypeOK, Handler
  <1>3. CASE CreateAccount(r)
    <2>1. accounts + 1 \in AccountId
      BY <1>1, <1>3, PasskeyConstants DEF TypeOK, AccountId, CreateAccount
    <2>2. /\ handler' = [at |-> "credential", response |-> r, account |-> accounts + 1]
          /\ responses' = responses /\ r.action = "register"
      BY <1>3 DEF CreateAccount
    <2>3. /\ handler' \in Handler /\ handler' # Idle
          /\ handler'.at = "credential" /\ handler'.response = r
      BY <1>1, <2>1, <2>2 DEF Handler, Idle
    <2> QED
      BY <1>2, <1>3, <2>2, <2>3
  <1>4. ASSUME NEW a, a = credentials[FirstRow(r.device)].account,
               UpdateAfterLogin(r) \/ RefuseLogin(r)
        PROVE  a \in AccountId
    <2>1. credentials[FirstRow(r.device)] \in Credential
      BY <1>1, <1>4, FirstRowIsFirst DEF UpdateAfterLogin, RefuseLogin, TypeOK
    <2> QED
      BY <1>4, <2>1 DEF Credential
  <1> DEFINE a == credentials[FirstRow(r.device)].account
  <1>5. CASE UpdateAfterLogin(r)
    <2>1. /\ handler' = [at |-> "consume_login", response |-> r, account |-> a]
          /\ responses' = responses /\ r.action = "login" /\ a \in AccountId
      BY <1>4, <1>5 DEF UpdateAfterLogin
    <2> HIDE DEF a
    <2>2. /\ handler' \in Handler /\ handler' # Idle
          /\ handler'.at = "consume_login" /\ handler'.response = r
      BY <1>1, <2>1 DEF Handler, Idle
    <2> QED
      BY <1>2, <1>5, <2>1, <2>2
  <1>6. CASE RefuseLogin(r)
    <2>1. /\ handler' = [at |-> "log_failure", response |-> r, account |-> a]
          /\ responses' = responses /\ r.action = "login" /\ a \in AccountId
      BY <1>4, <1>6 DEF RefuseLogin
    <2> HIDE DEF a
    <2>2. /\ handler' \in Handler /\ handler' # Idle
          /\ handler'.at = "log_failure" /\ handler'.response = r
      BY <1>1, <2>1 DEF Handler, Idle
    <2> QED
      BY <1>2, <1>6, <2>1, <2>2
  <1> QED
    BY <1>3, <1>5, <1>6

-----------------------------------------------------------------------------
(* The inductive invariant, conjunct by conjunct                           *)

\* An authenticator that signs answers one more challenge.
LEMMA SignStep ==
  ASSUME IInv, NEW d \in Device, NEW c \in DOMAIN challenges, Sign(d, c)
  PROVE  /\ counter' \in [Device -> Count] /\ responses' \subseteq Response
         /\ CountersFit'
         /\ \E r \in Response :
              /\ responses' = responses \cup {r} /\ r.device = d /\ r.challenge = c
              /\ r.action = "register" => \A x \in responses : x.device # d
  <1> DEFINE new == [action |-> challenges[c].action, challenge |-> c, device |-> d,
                     count |-> counter'[d]]
  <1>1. TypeOK /\ CountersFit /\ c \in ChallengeId /\ MaxChallenges \in Nat
    BY PasskeyConstants DEF IInv, TypeOK, ChallengeId
  <1>2. challenges[c] \in Challenge
    BY <1>1 DEF TypeOK
  <1>3. c \notin Answered
    BY DEF Sign, Answered
  <1>4. responses' = responses \cup {new} /\ challenges' = challenges
    BY DEF Sign, tables
  <1>5. IsFiniteSet(Answered \cup {c}) /\ IsFiniteSet(Answered)
        /\ Cardinality(Answered \cup {c}) <= MaxChallenges
        /\ Cardinality(Answered) \in Nat
    <2>1. Answered \cup {c} \subseteq 1..MaxChallenges
      BY <1>1 DEF CountersFit, TypeOK
    <2>2. IsFiniteSet(1..MaxChallenges) /\ Cardinality(1..MaxChallenges) = MaxChallenges
      BY <1>1, FS_Interval
    <2>3. IsFiniteSet(Answered \cup {c})
          /\ Cardinality(Answered \cup {c}) <= Cardinality(1..MaxChallenges)
      BY <2>1, <2>2, FS_Subset
    <2>4. IsFiniteSet(Answered)
      BY <2>3, FS_Subset
    <2> QED
      BY <2>2, <2>3, <2>4, FS_CardinalityType
  <1> HIDE DEF new
  <1>6. Cardinality(Answered \cup {c}) = Cardinality(Answered) + 1
    <2>1. IsFiniteSet(Answered) /\ c \notin Answered
      BY <1>3, <1>5
    <2> QED
      BY <2>1, OneMore
  <1>7. Answered' = Answered \cup {c}
    <2>1. new.challenge = c
      BY DEF new
    <2> QED
      BY <1>4, <2>1 DEF Answered
  <1> DEFINE n == Cardinality(Answered)
  <1>8. \A x \in Device : counter[x] \in Nat /\ counter[x] <= n
    BY <1>1 DEF CountersFit, TypeOK, Count
  <1>9. n \in Nat /\ n + 1 <= MaxChallenges
    BY <1>5, <1>6
  <1> HIDE DEF n
  <1>10. /\ counter' \in [Device -> Count]
         /\ \A x \in Device : counter'[x] <= n + 1
    <2>1. counter \in [Device -> Nat] /\ \A x \in 0..n + 1 : x \in Count
      BY <1>1, <1>8, <1>9 DEF TypeOK, Count
    <2>2. CASE counter' = counter
      BY <1>8, <1>9, <2>1, <2>2
    <2>3. CASE counter' = [counter EXCEPT ![d] = IF d \in Counting THEN @ + 1 ELSE 0]
      <3>1. \A x \in Device : counter'[x] \in 0..n + 1
        BY <1>8, <1>9, <2>1, <2>3
      <3> QED
        BY <2>1, <2>3, <3>1
    <2> QED
      BY <2>2, <2>3 DEF Sign
  <1>11. new \in Response
    BY <1>1, <1>2, <1>10 DEF Response, Challenge, new
  <1>12. new.action = "login" /\ new.device \in Counting => new.count > 0
    BY <1>1, <1>8 DEF Sign, TypeOK, new
  <1>13. CountersFit'
    <2>1. Answered' \subseteq DOMAIN challenges'
      BY <1>1, <1>4, <1>7 DEF CountersFit
    <2>2. \A x \in Device : counter'[x] <= Cardinality(Answered')
      BY <1>6, <1>7, <1>10 DEF n
    <2>3. \A r \in responses' : r.action = "login" /\ r.device \in Counting => r.count > 0
      BY <1>1, <1>4, <1>12 DEF CountersFit
    <2> QED
      BY <2>1, <2>2, <2>3 DEF CountersFit
  <1>14. new.action = "register" => \A x \in responses : x.device # d
    BY DEF Sign, new
  <1>15. new.device = d /\ new.challenge = c
    BY DEF new
  <1> QED
    BY <1>1, <1>4, <1>15, <1>10, <1>11, <1>13, <1>14 DEF TypeOK

\* Steps other than Sign leave responses and counters alone.
LEMMA CounterSteps ==
  ASSUME IInv, [Next]_vars
  PROVE  /\ counter' \in [Device -> Count] /\ responses' \subseteq Response
         /\ CountersFit' /\ responses \subseteq responses'
         /\ \/ responses' = responses
            \/ \E r \in Response :
                 /\ responses' = responses \cup {r}
                 /\ handler' = handler /\ credentials' = credentials
                 /\ r.action = "register" => \A x \in responses : x.device # r.device
  <1>1. CASE \E d \in Device, c \in DOMAIN challenges : Sign(d, c)
    BY <1>1, SignStep DEF Sign, tables
  <1>2. CASE counter' = counter /\ responses' = responses
    <2>1. Answered' = Answered /\ DOMAIN challenges \subseteq DOMAIN challenges'
      BY <1>2, ChallengeSteps DEF Answered
    <2> QED
      BY <1>2, <2>1 DEF IInv, TypeOK, CountersFit
  <1> QED
    BY <1>1, <1>2
    DEF Next, CreateAccount, RefuseLogin, RegisterOptions, LoginOptions, Store,
        ExpireChallenge, ConsumeRegistration, ConsumeLogin, UpdateAfterLogin,
        AnswerRegistration, CreateCredential, CreateSession, AnswerLogin, LoginRaises,
        LogFailure, Logout, ServeRequest, Fail, Tick, vars

LEMMA TypeStep == IInv /\ [Next]_vars => TypeOK'
  <1> SUFFICES ASSUME IInv, [Next]_vars PROVE TypeOK'
    OBVIOUS
  <1>1. TypeOK /\ MaxTime \in Nat /\ MaxAccounts \in Nat
    BY PasskeyConstants DEF IInv
  <1>2. handler' \in Handler
    BY <1>1, HandlerSteps, HandlerMoves, HandlerBegins DEF TypeOK, Handler
  <1>3. now' \in 0..MaxTime /\ accounts' \in 0..MaxAccounts
    BY <1>1
    DEF TypeOK, Next, Sign, CreateAccount, RefuseLogin, RegisterOptions, LoginOptions,
        Store, ExpireChallenge, ConsumeRegistration, ConsumeLogin, UpdateAfterLogin,
        AnswerRegistration, CreateCredential, CreateSession, AnswerLogin, LoginRaises,
        LogFailure, Logout, ServeRequest, Fail, Tick, vars, tables
  <1>4. /\ challenges' \in Seq(Challenge) /\ Len(challenges') <= MaxChallenges
        /\ credentials' \in Seq(Credential) /\ sessions' \in Seq(Session)
        /\ DOMAIN sessions \subseteq DOMAIN sessions'
        /\ responses' \subseteq Response /\ counter' \in [Device -> Count]
    BY ChallengeSteps, CredentialSteps, SessionSteps, CounterSteps
  <1>5. events' \subseteq Event /\ told' \subseteq [device : Device, account : AccountId]
    <2>1. CASE AnswerRegistration \/ AnswerLogin \/ LogFailure
      <3>1. /\ handler.account \in AccountId /\ handler.response.device \in Device
        BY <1>1, <2>1, HandlerType
        DEF AnswerRegistration, AnswerLogin, LogFailure, Serving, Response
      <3> QED
        BY <1>1, <2>1, <3>1
        DEF TypeOK, AnswerRegistration, AnswerLogin, LogFailure, Log, TellAccount, Event,
            history
    <2>2. CASE events' = events /\ told' = told
      BY <1>1, <2>2 DEF TypeOK
    <2> QED
      BY <2>1, <2>2
      DEF Next, Sign, CreateAccount, RefuseLogin, RegisterOptions, LoginOptions,
          Store, ExpireChallenge, ConsumeRegistration, ConsumeLogin, UpdateAfterLogin,
          CreateCredential, CreateSession, LoginRaises,
          Logout, ServeRequest, Fail, Tick, vars, tables, history
  <1>6. interrupted' \subseteq Device
    <2>1. CASE Fail
      BY <1>1, <2>1, HandlerType DEF Fail, Serving, Response, TypeOK
    <2>2. CASE interrupted' = interrupted
      BY <1>1, <2>2 DEF TypeOK
    <2> QED
      BY <2>1, <2>2
      DEF Next, Sign, CreateAccount, RefuseLogin, RegisterOptions, LoginOptions,
          Store, ExpireChallenge, ConsumeRegistration, ConsumeLogin, UpdateAfterLogin,
          CreateCredential, CreateSession, LoginRaises, AnswerRegistration, AnswerLogin,
          LogFailure, Logout, ServeRequest, Tick, vars, tables, history
  <1>7. /\ cookies \subseteq cookies' /\ cookies' \subseteq DOMAIN sessions'
        /\ signed_out' \subseteq cookies'
        /\ served' \subseteq [session : cookies', account : AccountId, late : BOOLEAN]
    <2>1. CASE AnswerLogin
      <3>1. handler # Idle /\ handler.at = "log_login"
        BY <2>1 DEF AnswerLogin, Serving, Idle
      <3>2. Len(sessions) \in DOMAIN sessions
        BY <1>1, <3>1 DEF IInv, SessionsAreStored, TypeOK
      <3> QED
        BY <1>1, <1>4, <2>1, <3>2 DEF AnswerLogin, SetCookie, TypeOK
    <2>2. CASE \E s \in DOMAIN sessions : Logout(s)
      BY <1>1, <1>4, <2>2 DEF Logout, TypeOK
    <2>3. CASE \E s \in DOMAIN sessions : ServeRequest(s)
      <3>1. PICK s \in DOMAIN sessions : ServeRequest(s)
        BY <2>3
      <3>2. sessions[s] \in Session
        BY <1>1 DEF TypeOK
      <3>3. sessions[s].account \in AccountId
        BY <3>2 DEF Session
      <3> DEFINE u == [session |-> s, account |-> sessions[s].account,
                       late |-> s \in signed_out]
      <3>4. served' = served \cup {u}
        BY <3>1 DEF ServeRequest
      <3>5. s \in cookies' /\ cookies' = cookies /\ signed_out' = signed_out
        BY <3>1 DEF ServeRequest
      <3>6. u \in [session : cookies', account : AccountId, late : BOOLEAN]
        BY <3>3, <3>5
      <3> HIDE DEF u
      <3> QED
        BY <1>1, <1>4, <3>4, <3>5, <3>6 DEF TypeOK
    <2>4. CASE cookies' = cookies /\ signed_out' = signed_out /\ served' = served
      BY <1>1, <1>4, <2>4 DEF TypeOK
    <2> QED
      BY <2>1, <2>2, <2>3, <2>4
      DEF Next, Sign, CreateAccount, RefuseLogin, RegisterOptions, LoginOptions,
          Store, ExpireChallenge, ConsumeRegistration, ConsumeLogin, UpdateAfterLogin,
          CreateCredential, CreateSession, LoginRaises, AnswerRegistration,
          LogFailure, Fail, Tick, vars, tables, history, browser
  <1> QED
    BY <1>1, <1>2, <1>3, <1>4, <1>5, <1>6, <1>7 DEF TypeOK

LEMMA ResponsesStep == IInv /\ [Next]_vars => ResponsesFit'
  <1> SUFFICES ASSUME IInv, [Next]_vars PROVE ResponsesFit'
    OBVIOUS
  <1>1. ResponsesFit /\ TypeOK
    BY DEF IInv
  <1>2. responses \subseteq responses'
    BY CounterSteps
  <1>3. \A i \in DOMAIN credentials' : \E r \in responses' : r.device = credentials'[i].device
    <2>1. CASE CreateCredential
      <3>1. handler.response \in responses
        BY <1>1, <2>1 DEF CreateCredential, Serving, Idle, ResponsesFit
      <3> QED
        BY <1>1, <1>2, <2>1, <3>1, CredentialSteps DEF ResponsesFit
    <2>2. CASE ~CreateCredential
      BY <1>1, <1>2, <2>2, CredentialSteps DEF ResponsesFit
    <2> QED
      BY <2>1, <2>2
  <1>4. \A r, s \in responses' : r.action = "register" /\ s.action = "register"
                                   /\ r.device = s.device => r = s
    BY <1>1, CounterSteps DEF ResponsesFit
  <1>5. handler' # Idle => /\ handler'.response \in responses'
                           /\ handler'.at \in Registering
                                <=> handler'.response.action = "register"
    <2>1. CASE handler' = handler
      BY <1>1, <1>2, <2>1 DEF ResponsesFit
    <2>2. CASE \/ CreateCredential \/ ConsumeRegistration
               \/ ConsumeLogin \/ CreateSession \/ LoginRaises
      BY <1>1, <1>2, <2>2, HandlerMoves DEF ResponsesFit, Registering
    <2>3. CASE \E r \in responses : CreateAccount(r) \/ UpdateAfterLogin(r) \/ RefuseLogin(r)
      BY <1>1, <1>2, <2>3, HandlerBegins DEF Registering
    <2> QED
      BY <2>1, <2>2, <2>3, HandlerSteps
  <1> QED
    BY <1>3, <1>4, <1>5 DEF ResponsesFit

\* What is spent stays spent.
LEMMA SpentStays ==
  ASSUME IInv, [Next]_vars, NEW c, c \in Spent
  PROVE  c \in Spent'
  BY ChallengeSteps DEF Spent

LEMMA SpentStep == IInv /\ [Next]_vars => ChallengesAreSpent' /\ OneSessionPerChallenge'
  <1> SUFFICES ASSUME IInv, [Next]_vars
               PROVE  ChallengesAreSpent' /\ OneSessionPerChallenge'
    OBVIOUS
  <1>1. ChallengesAreSpent /\ OneSessionPerChallenge /\ TypeOK /\ ResponsesFit
    BY DEF IInv
  <1>2. CASE CreateSession
    <2>1. /\ handler.at = "session" /\ handler'.at = "log_login"
      BY <1>2, HandlerMoves DEF CreateSession, Serving
    <2>2. handler.response.challenge \in Spent
          /\ \A i \in DOMAIN sessions : sessions[i].challenge # handler.response.challenge
      BY <1>1, <2>1 DEF ChallengesAreSpent, LoggingIn
    <2>3. /\ DOMAIN sessions' = DOMAIN sessions \cup {Len(sessions) + 1}
          /\ sessions'[Len(sessions) + 1].challenge = handler.response.challenge
          /\ \A i \in DOMAIN sessions : sessions'[i].challenge = sessions[i].challenge
      BY <1>2, SessionSteps
    <2>4. \A i \in DOMAIN sessions' : sessions'[i].challenge \in Spent
      BY <1>1, <2>2, <2>3 DEF ChallengesAreSpent
    <2>5. challenges' = challenges
      BY <1>2 DEF CreateSession
    <2>6. OneSessionPerChallenge'
      BY <1>1, <2>2, <2>3 DEF OneSessionPerChallenge
    <2> QED
      BY <2>1, <2>4, <2>5, <2>6 DEF ChallengesAreSpent, LoggingIn, Spent
  <1>3. CASE ~CreateSession
    <2>1. /\ DOMAIN sessions' = DOMAIN sessions
          /\ \A i \in DOMAIN sessions : sessions'[i].challenge = sessions[i].challenge
      BY <1>3, SessionSteps
    <2>2. OneSessionPerChallenge'
      BY <1>1, <2>1 DEF OneSessionPerChallenge
    <2>3. \A i \in DOMAIN sessions' : sessions'[i].challenge \in Spent'
      BY <1>1, <2>1, SpentStays DEF ChallengesAreSpent
    <2>4. /\ handler'.at \in LoggingIn =>
               \A i \in DOMAIN sessions :
                 sessions[i].challenge # handler'.response.challenge
          /\ handler'.at = "session" => handler'.response.challenge \in Spent'
      <3>1. CASE handler' = handler
        BY <1>1, <3>1, SpentStays DEF ChallengesAreSpent
      <3>2. CASE handler' = Idle
        BY <3>2 DEF Idle, LoggingIn
      <3>3. CASE ConsumeLogin
        <4>1. /\ handler.at = "consume_login" /\ handler'.response = handler.response
              /\ handler # Idle
          BY <3>3, HandlerMoves DEF ConsumeLogin, Serving
        <4>2. handler.response.challenge \in DOMAIN challenges
          BY <1>1, <4>1 DEF ResponsesFit, IInv, CountersFit, Answered
        <4>3. challenges' = Consumed(handler.response.challenge)
          BY <3>3 DEF ConsumeLogin
        <4>4. handler.response.challenge \in Spent'
          BY <1>1, <4>2, <4>3, ConsumedChallenges DEF Spent
        <4> QED
          BY <1>1, <4>1, <4>4 DEF ChallengesAreSpent, LoggingIn
      <3>4. CASE CreateCredential \/ ConsumeRegistration \/ LoginRaises
        <4>1. handler'.at \notin LoggingIn /\ handler'.at # "session"
          BY <3>4, HandlerMoves
          DEF CreateCredential, ConsumeRegistration, LoginRaises, Serving, LoggingIn
        <4> QED
          BY <4>1
      <3>5. CASE \E r \in responses : CreateAccount(r) \/ RefuseLogin(r)
        <4>1. handler'.at \notin LoggingIn /\ handler'.at # "session"
          BY <3>5, HandlerBegins DEF LoggingIn, CreateAccount, RefuseLogin, UpdateAfterLogin
        <4> QED
          BY <4>1
      <3>6. CASE \E r \in responses : UpdateAfterLogin(r)
        <4>1. PICK r \in responses : UpdateAfterLogin(r)
          BY <3>6
        <4>2. handler'.response = r /\ handler'.at = "consume_login"
          BY <4>1 DEF UpdateAfterLogin
        <4>3. challenges[r.challenge].status = "pending"
          BY <4>1 DEF UpdateAfterLogin, Usable
        <4>4. \A i \in DOMAIN sessions : challenges[sessions[i].challenge].status = "consumed"
          BY <1>1 DEF ChallengesAreSpent, Spent
        <4> QED
          BY <4>2, <4>3, <4>4
      <3> QED
        BY <1>3, <3>1, <3>2, <3>3, <3>4, <3>5, <3>6, HandlerSteps
    <2>5. ChallengesAreSpent'
      BY <2>1, <2>3, <2>4 DEF ChallengesAreSpent
    <2> QED
      BY <2>2, <2>5
  <1> QED
    BY <1>2, <1>3

\* A first row stays the first.
LEMMA FirstStays ==
  ASSUME IInv, [Next]_vars, NEW d, NEW k \in DOMAIN credentials, IsFirst(k, d)
  PROVE  k \in DOMAIN credentials' /\ IsFirst(k, d)'
  <1>1. credentials \in Seq(Credential)
    BY DEF IInv, TypeOK
  <1>2. \A i \in DOMAIN credentials : k <= Len(credentials) + 1
    BY <1>1
  <1>3. \A i \in DOMAIN credentials' : credentials'[i].device = d =>
          \/ i \in DOMAIN credentials /\ credentials[i].device = d
          \/ i = Len(credentials) + 1
    BY CredentialSteps
  <1> QED
    BY <1>1, <1>2, <1>3, CredentialSteps DEF IsFirst, RowsOf

LEMMA FirstRowStep == IInv /\ [Next]_vars => FirstRowsExist'
  <1> SUFFICES ASSUME IInv, [Next]_vars, NEW d \in Device, RowsOf(d)' # {}
               PROVE  \E i \in DOMAIN credentials' : IsFirst(i, d)'
    BY DEF FirstRowsExist
  <1>1. CASE RowsOf(d) # {}
    BY <1>1, FirstStays DEF IInv, FirstRowsExist
  <1>2. CASE RowsOf(d) = {}
    <2>1. \A i \in DOMAIN credentials : credentials[i].device # d
      BY <1>2 DEF RowsOf
    <2>2. \A i \in RowsOf(d)' : i = Len(credentials) + 1 /\ i \in DOMAIN credentials'
      BY <2>1, CredentialSteps DEF RowsOf
    <2>3. Len(credentials) \in Nat
      BY DEF IInv, TypeOK
    <2> QED
      BY <2>2, <2>3 DEF IsFirst
  <1> QED
    BY <1>1, <1>2

\* The first row of a passkey has the count of the last assertion that was
\* accepted, which for one that counts is higher than the last.
LEMMA AcceptedAssertion ==
  ASSUME IInv, NEW r \in responses, UpdateAfterLogin(r)
  PROVE  /\ FirstRow(r.device) \in DOMAIN credentials
         /\ IsFirst(FirstRow(r.device), r.device)
         /\ credentials[FirstRow(r.device)].device = r.device
         /\ credentials'[FirstRow(r.device)].sign_count = r.count
         /\ handler'.account = credentials[FirstRow(r.device)].account
         /\ \A k \in DOMAIN credentials :
              k # FirstRow(r.device) => credentials'[k] = credentials[k]
         /\ r.device \in Counting =>
              r.count > credentials[FirstRow(r.device)].sign_count
  <1>1. TypeOK /\ FirstRowsExist /\ CountersFit
    BY DEF IInv
  <1>2. r \in Response /\ r.device \in Device /\ r.count \in Count
    BY <1>1 DEF TypeOK, Response
  <1> DEFINE i == FirstRow(r.device)
  <1>3. i \in DOMAIN credentials /\ IsFirst(i, r.device) /\ credentials[i].device = r.device
    BY <1>1, <1>2, FirstRowIsFirst DEF UpdateAfterLogin
  <1>4. /\ credentials' = [credentials EXCEPT ![i] = AfterLogin(@, r.count)]
        /\ CounterAdvances(credentials[i].sign_count, r.count) /\ r.action = "login"
        /\ handler'.account = credentials[i].account
    BY DEF UpdateAfterLogin
  <1> HIDE DEF i
  <1>5. /\ credentials'[i].sign_count = r.count
        /\ \A k \in DOMAIN credentials : k # i => credentials'[k] = credentials[k]
    BY <1>1, <1>2, <1>3, <1>4, CountedCredentials
  <1>6. r.device \in Counting => r.count > credentials[i].sign_count
    <2>1. r.device \in Counting => r.count > 0
      BY <1>1, <1>4 DEF CountersFit
    <2> QED
      BY <1>2, <1>4, <2>1 DEF CounterAdvances, Count
  <1> QED
    BY <1>3, <1>4, <1>5, <1>6 DEF i

\* No row that is first for a passkey that counts loses count.
LEMMA StoredCounts ==
  ASSUME IInv, [Next]_vars, NEW d \in Counting, NEW n \in Nat,
         \E k \in DOMAIN credentials : IsFirst(k, d) /\ n <= credentials[k].sign_count
  PROVE  \E k \in DOMAIN credentials' : IsFirst(k, d)' /\ n <= credentials'[k].sign_count
  <1>1. PICK k \in DOMAIN credentials : IsFirst(k, d) /\ n <= credentials[k].sign_count
    OBVIOUS
  <1>2. k \in DOMAIN credentials' /\ IsFirst(k, d)'
    BY <1>1, FirstStays
  <1>3. TypeOK /\ credentials[k] \in Credential
    BY DEF IInv, TypeOK
  <1>4. n <= credentials'[k].sign_count
    <2>1. CASE \E r \in responses : UpdateAfterLogin(r)
      <3>1. PICK r \in responses : UpdateAfterLogin(r)
        BY <2>1
      <3>2. CASE k = FirstRow(r.device)
        <4>1. /\ credentials'[k].sign_count = r.count
              /\ r.device = d
              /\ r.count > credentials[k].sign_count
          BY <1>1, <3>1, <3>2, AcceptedAssertion DEF IsFirst, RowsOf
        <4>2. r.count \in Nat /\ credentials[k].sign_count \in Nat
          BY <1>3 DEF TypeOK, Response, Credential, Count
        <4> QED
          BY <1>1, <4>1, <4>2
      <3>3. CASE k # FirstRow(r.device)
        BY <1>1, <3>1, <3>3, AcceptedAssertion
      <3> QED
        BY <3>2, <3>3
    <2>2. CASE CreateCredential
      BY <1>1, <2>2, CredentialSteps
    <2>3. CASE credentials' = credentials
      BY <1>1, <2>3
    <2> QED
      BY <2>1, <2>2, <2>3
      DEF Next, Sign, CreateAccount, RefuseLogin, RegisterOptions, LoginOptions, Store,
          ExpireChallenge, ConsumeRegistration, ConsumeLogin,
          AnswerRegistration, CreateSession, AnswerLogin, LoginRaises, LogFailure,
          Logout, ServeRequest, Fail, Tick, vars, tables
  <1> QED
    BY <1>2, <1>4

\* The handler after a step that does not accept an assertion is signing in
\* only if it was before, with the same response.
LEMMA StaysLoggingIn ==
  ASSUME IInv, [Next]_vars, handler'.at \in LoggingIn,
         ~(\E r \in responses : UpdateAfterLogin(r))
  PROVE  /\ handler.at \in LoggingIn /\ handler'.response = handler.response
         /\ handler'.account = handler.account
         /\ ~CreateSession
  <1>1. CASE handler' = handler
    <2>1. ~CreateSession
      BY <1>1, HandlerMoves
    <2> QED
      BY <1>1, <2>1
  <1>2. CASE handler' = Idle
    BY <1>2 DEF Idle, LoggingIn
  <1>3. CASE \/ CreateCredential \/ ConsumeRegistration
             \/ ConsumeLogin \/ CreateSession \/ LoginRaises
    BY <1>3, HandlerMoves DEF LoggingIn
  <1>4. CASE \E r \in responses : CreateAccount(r) \/ UpdateAfterLogin(r) \/ RefuseLogin(r)
    BY <1>4, HandlerBegins DEF LoggingIn
  <1> QED
    BY <1>1, <1>2, <1>3, <1>4, HandlerSteps

LEMMA CountStep == IInv /\ [Next]_vars => CountersAreStored' /\ CountersGoUp'
  <1> SUFFICES ASSUME IInv, [Next]_vars PROVE CountersAreStored' /\ CountersGoUp'
    OBVIOUS
  <1>1. TypeOK /\ CountersAreStored /\ CountersGoUp
    BY DEF IInv
  <1>2. \A i \in DOMAIN sessions : sessions[i].count \in Nat
    <2>1. \A i \in DOMAIN sessions : sessions[i] \in Session
      BY <1>1 DEF TypeOK
    <2> QED
      BY <2>1 DEF Session, Count
  <1>3. handler.at \in LoggingIn => handler.response.count \in Nat
    BY <1>1, HandlerType DEF LoggingIn, Response, Count
  <1>4. /\ \A i \in DOMAIN sessions : sessions'[i].device = sessions[i].device
                                      /\ sessions'[i].count = sessions[i].count
        /\ DOMAIN sessions \subseteq DOMAIN sessions'
    BY SessionSteps
  <1>5. ASSUME NEW d \in Counting, NEW i \in DOMAIN sessions, sessions[i].device = d
        PROVE  \E k \in DOMAIN credentials' :
                 IsFirst(k, d)' /\ sessions[i].count <= credentials'[k].sign_count
    <2>1. \E k \in DOMAIN credentials :
            IsFirst(k, d) /\ sessions[i].count <= credentials[k].sign_count
      BY <1>1, <1>5 DEF CountersAreStored
    <2> QED
      BY <1>2, <2>1, StoredCounts
  <1>6. CASE CreateSession
    <2> DEFINE n == Len(sessions) + 1
    <2>1. /\ DOMAIN sessions' = DOMAIN sessions \cup {n}
          /\ \A i \in DOMAIN sessions : i < n
          /\ sessions'[n].device = handler.response.device
          /\ sessions'[n].count = handler.response.count
      BY <1>6, SessionSteps
    <2>2. handler.at \in LoggingIn /\ handler'.at \notin LoggingIn
      BY <1>6, HandlerMoves DEF LoggingIn
    <2> HIDE DEF n
    <2>3. ASSUME NEW d \in Counting, handler.response.device = d
          PROVE  /\ \E k \in DOMAIN credentials' :
                      IsFirst(k, d)' /\ handler.response.count <= credentials'[k].sign_count
                 /\ \A i \in DOMAIN sessions :
                      sessions[i].device = d => sessions[i].count < handler.response.count
      BY <1>1, <1>3, <2>2, <2>3, StoredCounts DEF CountersAreStored
    <2>4. CountersAreStored'
      BY <1>4, <1>5, <2>1, <2>2, <2>3 DEF CountersAreStored
    <2>5. CountersGoUp'
      <3> SUFFICES ASSUME NEW i \in DOMAIN sessions', NEW j \in DOMAIN sessions', i < j,
                          sessions'[i].device = sessions'[j].device,
                          sessions'[i].device \in Counting
                   PROVE  sessions'[i].count < sessions'[j].count
        BY DEF CountersGoUp
      <3>1. CASE i \in DOMAIN sessions /\ j \in DOMAIN sessions
        BY <1>1, <1>4, <3>1 DEF CountersGoUp
      <3>2. CASE i \in DOMAIN sessions /\ j = n
        BY <1>4, <2>1, <2>3, <3>2
      <3>3. i # n
        <4>1. n \in Nat /\ \A k \in DOMAIN sessions : k \in Nat
          BY <1>1 DEF TypeOK, n
        <4> QED
          BY <2>1, <4>1
      <3> QED
        BY <2>1, <3>1, <3>2, <3>3
    <2> QED
      BY <2>4, <2>5
  <1>7. CASE ~CreateSession
    <2>1. DOMAIN sessions' = DOMAIN sessions
      BY <1>7, SessionSteps
    <2>2. CountersGoUp'
      BY <1>1, <1>4, <2>1 DEF CountersGoUp
    <2>3. ASSUME NEW d \in Counting, handler'.at \in LoggingIn,
                 handler'.response.device = d
          PROVE  /\ \E k \in DOMAIN credentials' : IsFirst(k, d)'
                      /\ handler'.response.count <= credentials'[k].sign_count
                 /\ \A i \in DOMAIN sessions : sessions[i].device = d =>
                      sessions[i].count < handler'.response.count
      <3>1. CASE \E r \in responses : UpdateAfterLogin(r)
        <4>1. PICK r \in responses : UpdateAfterLogin(r)
          BY <3>1
        <4>2. handler'.response = r /\ r.device = d
          BY <2>3, <4>1, HandlerBegins
        <4>3. PICK k \in DOMAIN credentials :
                /\ IsFirst(k, r.device)
                /\ credentials'[k].sign_count = r.count
                /\ r.device \in Counting => r.count > credentials[k].sign_count
          BY <4>1, AcceptedAssertion
        <4>4. k \in DOMAIN credentials' /\ IsFirst(k, d)'
          BY <4>2, <4>3, FirstStays
        <4>5. r.count \in Nat /\ credentials[k].sign_count \in Nat
          <5>1. r \in Response /\ credentials[k] \in Credential
            BY <1>1, <4>3 DEF TypeOK
          <5> QED
            BY <5>1 DEF Response, Credential, Count
        <4>6. \A i \in DOMAIN sessions : sessions[i].device = d =>
                sessions[i].count < r.count
          <5> SUFFICES ASSUME NEW i \in DOMAIN sessions, sessions[i].device = d
                       PROVE  sessions[i].count < r.count
            OBVIOUS
          <5>1. PICK m \in DOMAIN credentials :
                  IsFirst(m, d) /\ sessions[i].count <= credentials[m].sign_count
            BY <1>1 DEF CountersAreStored
          <5>2. m = k
            <6>1. m \in Nat /\ k \in Nat
              BY <1>1, <4>3 DEF TypeOK
            <6> QED
              BY <4>2, <4>3, <5>1, <6>1 DEF IsFirst
          <5> QED
            BY <1>2, <2>3, <4>2, <4>3, <4>5, <5>1, <5>2
        <4>7. r.count <= credentials'[k].sign_count
          BY <4>3, <4>5
        <4> QED
          BY <4>2, <4>4, <4>6, <4>7
      <3>2. CASE ~(\E r \in responses : UpdateAfterLogin(r))
        <4>1. handler.at \in LoggingIn /\ handler'.response = handler.response
          BY <2>3, <3>2, StaysLoggingIn
        <4>2. /\ \E k \in DOMAIN credentials :
                   IsFirst(k, d) /\ handler.response.count <= credentials[k].sign_count
              /\ \A i \in DOMAIN sessions :
                   sessions[i].device = d => sessions[i].count < handler.response.count
          BY <1>1, <2>3, <4>1 DEF CountersAreStored
        <4> QED
          BY <1>3, <4>1, <4>2, StoredCounts
      <3> QED
        BY <3>1, <3>2
    <2>4. CountersAreStored'
      BY <1>4, <1>5, <2>1, <2>3 DEF CountersAreStored
    <2> QED
      BY <2>2, <2>4
  <1> QED
    BY <1>6, <1>7

\* A row stays.
LEMMA RowStays ==
  ASSUME IInv, [Next]_vars, NEW d, NEW a, HasRow(d, a)
  PROVE  HasRow(d, a)'
  BY CredentialSteps DEF HasRow

\* A handler that registers goes from the account to the row to the answer.
LEMMA StaysRegistering ==
  ASSUME IInv, [Next]_vars, handler'.at \in Enrolled
  PROVE  /\ handler'.response = handler.response /\ handler'.account = handler.account
         /\ \/ CreateCredential /\ handler.at = "credential"
                 /\ handler'.at = "consume_register"
            \/ ConsumeRegistration /\ handler.at = "consume_register"
                 /\ handler'.at = "log_register"
            \/ handler' = handler
  <1>1. CASE handler' = Idle
    BY <1>1 DEF Idle, Enrolled
  <1>2. CASE \/ CreateCredential \/ ConsumeRegistration
             \/ ConsumeLogin \/ CreateSession \/ LoginRaises
    BY <1>2, HandlerMoves DEF Enrolled
  <1>3. CASE \E r \in responses : CreateAccount(r) \/ UpdateAfterLogin(r) \/ RefuseLogin(r)
    BY <1>3, HandlerBegins DEF Enrolled
  <1> QED
    BY <1>1, <1>2, <1>3, HandlerSteps

\* Only a registration that is answered tells an account.
LEMMA ToldSteps ==
  ASSUME [Next]_vars
  PROVE  \/ told' = told
         \/ AnswerRegistration
  BY DEF Next, Sign, CreateAccount, RefuseLogin, RegisterOptions, LoginOptions,
         Store, ExpireChallenge, ConsumeRegistration, ConsumeLogin, UpdateAfterLogin,
         CreateCredential, CreateSession, LoginRaises, AnswerLogin, LogFailure,
         Logout, ServeRequest, Fail, Tick, vars, history

LEMMA AccountStep == IInv /\ [Next]_vars => AccountsHaveRows'
  <1> SUFFICES ASSUME IInv, [Next]_vars, NEW d \in Device, NEW a \in AccountId,
                      ~HasRow(d, a)'
               PROVE  /\ \A i \in DOMAIN sessions' :
                           ~(sessions'[i].device = d /\ sessions'[i].account = a)
                      /\ [device |-> d, account |-> a] \notin told'
                      /\ ~(handler'.at \in LoggingIn \cup Enrolled
                             /\ handler'.response.device = d /\ handler'.account = a)
    BY DEF AccountsHaveRows
  <1>1. ~HasRow(d, a)
    BY RowStays
  <1>2. /\ \A i \in DOMAIN sessions :
             ~(sessions[i].device = d /\ sessions[i].account = a)
        /\ [device |-> d, account |-> a] \notin told
        /\ ~(handler.at \in LoggingIn \cup Enrolled
               /\ handler.response.device = d /\ handler.account = a)
    BY <1>1 DEF IInv, AccountsHaveRows
  <1>3. \A i \in DOMAIN sessions' : ~(sessions'[i].device = d /\ sessions'[i].account = a)
    <2>1. CASE CreateSession
      <3>1. handler.at \in LoggingIn
        BY <2>1 DEF CreateSession, Serving, LoggingIn
      <3> QED
        BY <1>2, <2>1, <3>1, SessionSteps
    <2>2. CASE ~CreateSession
      BY <1>2, <2>2, SessionSteps
    <2> QED
      BY <2>1, <2>2
  <1>4. [device |-> d, account |-> a] \notin told'
    <2>1. CASE AnswerRegistration
      <3>1. handler.at \in Enrolled
        BY <2>1 DEF AnswerRegistration, Serving, Enrolled
      <3>2. told' = told \cup {[device |-> handler.response.device,
                                account |-> handler.account]}
        BY <2>1 DEF AnswerRegistration, TellAccount
      <3> QED
        BY <1>2, <3>1, <3>2
    <2> QED
      BY <1>2, <2>1, ToldSteps
  <1>5. ASSUME handler'.at \in LoggingIn, handler'.response.device = d,
               handler'.account = a
        PROVE  FALSE
    <2>1. CASE \E r \in responses : UpdateAfterLogin(r)
      <3>1. PICK r \in responses : UpdateAfterLogin(r)
        BY <2>1
      <3>2. handler'.response = r
        BY <3>1, HandlerBegins
      <3>3. /\ FirstRow(r.device) \in DOMAIN credentials
            /\ credentials[FirstRow(r.device)].device = r.device
            /\ handler'.account = credentials[FirstRow(r.device)].account
        BY <3>1, AcceptedAssertion
      <3> QED
        BY <1>1, <1>5, <3>2, <3>3 DEF HasRow
    <2>2. CASE ~(\E r \in responses : UpdateAfterLogin(r))
      BY <1>2, <1>5, <2>2, StaysLoggingIn
    <2> QED
      BY <2>1, <2>2
  <1>6. ASSUME handler'.at \in Enrolled, handler'.response.device = d,
               handler'.account = a
        PROVE  FALSE
    <2>1. CASE CreateCredential
      <3>1. /\ Len(credentials) + 1 \in DOMAIN credentials'
            /\ credentials'[Len(credentials) + 1].device = handler.response.device
            /\ credentials'[Len(credentials) + 1].account = handler.account
        BY <2>1, CredentialSteps
      <3>2. handler'.response = handler.response /\ handler'.account = handler.account
        BY <1>6, StaysRegistering
      <3> QED
        BY <1>6, <3>1, <3>2 DEF HasRow
    <2>2. CASE handler.at \in Enrolled
      BY <1>2, <1>6, <2>2, StaysRegistering
    <2> QED
      BY <1>6, <2>1, <2>2, StaysRegistering DEF Enrolled
  <1> QED
    BY <1>3, <1>4, <1>5, <1>6

\* Whose registration was cut short is remembered.
LEMMA InterruptedSteps ==
  ASSUME IInv, [Next]_vars
  PROVE  /\ interrupted \subseteq interrupted'
         /\ handler.at \in Registering /\ handler' = Idle =>
              \/ AnswerRegistration
              \/ handler.response.device \in interrupted'
  <1>1. CASE Fail
    <2>1. interrupted \subseteq interrupted'
      BY <1>1 DEF Fail
    <2>2. handler.at \in Registering => handler.response.action = "register"
      BY DEF IInv, ResponsesFit, Registering, Idle
    <2> QED
      BY <1>1, <2>1, <2>2 DEF Fail
  <1>2. CASE interrupted' = interrupted /\ ~Fail
    <2>1. handler' = Idle => \/ handler = Idle \/ AnswerRegistration
                             \/ AnswerLogin \/ LogFailure
      <3> SUFFICES ASSUME handler' = Idle, handler # Idle
                   PROVE  AnswerRegistration \/ AnswerLogin \/ LogFailure
        OBVIOUS
      <3>1. CASE handler' = handler
        BY <3>1
      <3>2. CASE \/ CreateCredential \/ ConsumeRegistration
                 \/ ConsumeLogin \/ CreateSession \/ LoginRaises
        BY <3>2, HandlerMoves
      <3>3. CASE \E r \in responses :
                   CreateAccount(r) \/ UpdateAfterLogin(r) \/ RefuseLogin(r)
        BY <3>3, HandlerBegins
      <3> QED
        BY <1>2, <3>1, <3>2, <3>3
        DEF Next, Sign, RegisterOptions, LoginOptions, Store, ExpireChallenge,
            Logout, ServeRequest, Tick, vars
    <2> QED
      BY <1>2, <2>1 DEF AnswerLogin, LogFailure, Serving, Registering, Idle
  <1> QED
    BY <1>1, <1>2
    DEF Next, Sign, CreateAccount, RefuseLogin, RegisterOptions, LoginOptions,
        Store, ExpireChallenge, ConsumeRegistration, ConsumeLogin, UpdateAfterLogin,
        CreateCredential, CreateSession, LoginRaises, AnswerRegistration, AnswerLogin,
        LogFailure, Logout, ServeRequest, Fail, Tick, vars, tables, history

\* A registration that is over stays over while its authenticator has a row.
LEMMA OverStays ==
  ASSUME IInv, [Next]_vars, NEW d \in Device, RegistrationIsOver(d),
         \E r \in responses : r.device = d
  PROVE  RegistrationIsOver(d)'
  BY CounterSteps, SpentStays DEF RegistrationIsOver

LEMMA RegisteredStep == IInv /\ [Next]_vars => RegisteredOnce'
  <1> SUFFICES ASSUME IInv, [Next]_vars, NEW d \in Device \ interrupted'
               PROVE  /\ \A i, j \in RowsOf(d)' : i = j
                      /\ RowsOf(d)' # {} =>
                           \/ RegistrationIsOver(d)'
                           \/ handler'.at = "consume_register" /\ handler'.response.device = d
                      /\ handler'.at = "credential" /\ handler'.response.device = d =>
                           RowsOf(d)' = {}
                      /\ handler'.at = "log_register" /\ handler'.response.device = d =>
                           RegistrationIsOver(d)'
    BY DEF RegisteredOnce
  <1>1. TypeOK /\ ResponsesFit /\ RegisteredOnce /\ d \in Device \ interrupted
    BY InterruptedSteps DEF IInv
  <1>2. /\ \A i, j \in RowsOf(d) : i = j
        /\ RowsOf(d) # {} =>
             \/ RegistrationIsOver(d)
             \/ handler.at = "consume_register" /\ handler.response.device = d
        /\ handler.at = "credential" /\ handler.response.device = d => RowsOf(d) = {}
        /\ handler.at = "log_register" /\ handler.response.device = d =>
             RegistrationIsOver(d)
    BY <1>1 DEF RegisteredOnce
  <1>3. RowsOf(d) # {} => \E r \in responses : r.device = d
    BY <1>1 DEF ResponsesFit, RowsOf
  <1>4. handler # Idle => handler.response \in responses
    BY <1>1 DEF ResponsesFit
  <1>5. CASE CreateCredential
    <2>1. /\ handler.at = "credential" /\ handler'.at = "consume_register"
          /\ handler'.response = handler.response
      BY <1>5, HandlerMoves
    <2>2. CASE handler.response.device = d
      <3>1. \A i \in DOMAIN credentials : credentials[i].device # d
        BY <1>2, <2>1, <2>2 DEF RowsOf
      <3>2. \A i \in RowsOf(d)' : i = Len(credentials) + 1
        BY <1>5, <3>1, CredentialSteps DEF RowsOf
      <3> QED
        BY <2>1, <2>2, <3>2
    <2>3. CASE handler.response.device # d
      <3>1. RowsOf(d)' = RowsOf(d)
        BY <1>5, <2>3, CredentialSteps DEF RowsOf
      <3> QED
        BY <1>2, <1>3, <2>1, <2>3, <3>1, OverStays
    <2> QED
      BY <2>2, <2>3
  <1>6. CASE ~CreateCredential
    <2>1. RowsOf(d)' = RowsOf(d)
      BY <1>6, CredentialSteps DEF RowsOf
    <2>2. RowsOf(d) # {} =>
            \/ RegistrationIsOver(d)'
            \/ handler'.at = "consume_register" /\ handler'.response.device = d
      <3> SUFFICES ASSUME RowsOf(d) # {}, ~RegistrationIsOver(d)'
                   PROVE  handler'.at = "consume_register" /\ handler'.response.device = d
        OBVIOUS
      <3>1. handler.at = "consume_register" /\ handler.response.device = d /\ handler # Idle
        BY <1>2, <1>3, OverStays DEF Idle
      <3>2. CASE handler' = handler
        BY <3>1, <3>2
      <3>3. CASE handler' = Idle
        BY <3>1, <3>3, InterruptedSteps DEF Registering, AnswerRegistration, Serving
      <3>4. CASE \/ CreateCredential \/ ConsumeRegistration
                 \/ ConsumeLogin \/ CreateSession \/ LoginRaises
        <4>1. ConsumeRegistration
          BY <3>1, <3>4, HandlerMoves
        <4>2. handler.response.challenge \in DOMAIN challenges
          BY <1>4, <3>1 DEF IInv, CountersFit, Answered
        <4>3. challenges' = Consumed(handler.response.challenge)
          BY <4>1 DEF ConsumeRegistration
        <4>4. handler.response.challenge \in Spent'
          BY <1>1, <4>2, <4>3, ConsumedChallenges DEF Spent
        <4>5. handler.response.action = "register" /\ responses' = responses
          BY <1>1, <3>1, <4>1, HandlerMoves DEF ResponsesFit, Registering
        <4>6. \A r \in responses : r.action = "register" /\ r.device = d =>
                r = handler.response
          BY <1>1, <1>4, <3>1, <4>5 DEF ResponsesFit
        <4> QED
          BY <4>4, <4>5, <4>6 DEF RegistrationIsOver
      <3>5. CASE \E r \in responses :
                   CreateAccount(r) \/ UpdateAfterLogin(r) \/ RefuseLogin(r)
        BY <3>1, <3>5, HandlerBegins
      <3> QED
        BY <3>2, <3>3, <3>4, <3>5, HandlerSteps
    <2>3. handler'.at = "credential" /\ handler'.response.device = d => RowsOf(d) = {}
      <3> SUFFICES ASSUME handler'.at = "credential", handler'.response.device = d,
                          RowsOf(d) # {}
                   PROVE  FALSE
        OBVIOUS
      <3>1. CASE handler' = handler
        BY <1>2, <3>1
      <3>2. CASE handler' = Idle
        BY <3>2 DEF Idle
      <3>3. CASE \/ CreateCredential \/ ConsumeRegistration
                 \/ ConsumeLogin \/ CreateSession \/ LoginRaises
        BY <3>3, HandlerMoves
      <3>4. CASE \E r \in responses :
                   CreateAccount(r) \/ UpdateAfterLogin(r) \/ RefuseLogin(r)
        <4>1. PICK r \in responses : CreateAccount(r) /\ r.device = d /\ handler = Idle
          BY <3>4, HandlerBegins
        <4>2. challenges[r.challenge].status = "pending" /\ r.action = "register"
          BY <4>1 DEF CreateAccount, Usable
        <4>3. RegistrationIsOver(d)
          BY <1>2, <4>1 DEF Idle
        <4> QED
          BY <4>1, <4>2, <4>3 DEF RegistrationIsOver, Spent
      <3> QED
        BY <3>1, <3>2, <3>3, <3>4, HandlerSteps
    <2>4. handler'.at = "log_register" /\ handler'.response.device = d =>
            RegistrationIsOver(d)'
      <3> SUFFICES ASSUME handler'.at = "log_register", handler'.response.device = d
                   PROVE  RegistrationIsOver(d)'
        OBVIOUS
      <3>1. CASE handler' = handler
        <4>1. handler # Idle
          BY <3>1 DEF Idle
        <4> QED
          BY <1>2, <1>4, <3>1, <4>1, OverStays
      <3>2. CASE ConsumeRegistration
        <4>1. handler.at = "consume_register" /\ handler.response.device = d
              /\ handler # Idle /\ responses' = responses
          BY <3>2, HandlerMoves
        <4>2. handler.response.challenge \in DOMAIN challenges
          BY <1>4, <4>1 DEF IInv, CountersFit, Answered
        <4>3. challenges' = Consumed(handler.response.challenge)
          BY <3>2 DEF ConsumeRegistration
        <4>4. handler.response.challenge \in Spent'
          BY <1>1, <4>2, <4>3, ConsumedChallenges DEF Spent
        <4>5. handler.response.action = "register"
          BY <1>1, <4>1 DEF ResponsesFit, Registering
        <4>6. \A r \in responses : r.action = "register" /\ r.device = d =>
                r = handler.response
          BY <1>1, <1>4, <4>1, <4>5 DEF ResponsesFit
        <4> QED
          BY <4>1, <4>4, <4>6 DEF RegistrationIsOver
      <3> QED
        BY <1>6, <3>1, <3>2, StaysRegistering DEF Enrolled
    <2> QED
      BY <1>2, <2>1, <2>2, <2>3, <2>4
  <1> QED
    BY <1>5, <1>6

\* The tables have what browsers were told of sign-ins and sign-outs.
LEMMA StoredStep == IInv /\ [Next]_vars => SessionsAreStored'
  <1> SUFFICES ASSUME IInv, [Next]_vars PROVE SessionsAreStored'
    OBVIOUS
  <1>1. TypeOK /\ SessionsAreStored /\ cookies \subseteq DOMAIN sessions
        /\ signed_out \subseteq cookies
    BY DEF IInv, TypeOK
  <1>2. handler'.at = "log_login" => Len(sessions') > 0
    <2>1. CASE CreateSession
      <3>1. Len(sessions) + 1 \in DOMAIN sessions' /\ sessions' \in Seq(Session)
        BY <2>1, SessionSteps
      <3> QED
        BY <3>1
    <2>2. CASE handler' = handler
      <3>1. DOMAIN sessions \subseteq DOMAIN sessions' /\ sessions' \in Seq(Session)
        BY SessionSteps
      <3>2. ASSUME Len(sessions) > 0 PROVE Len(sessions') > 0
        <4>1. 1 \in DOMAIN sessions
          BY <1>1, <3>2 DEF TypeOK
        <4> QED
          BY <3>1, <4>1
      <3> QED
        BY <1>1, <2>2, <3>2 DEF SessionsAreStored
    <2>3. CASE handler' = Idle
      BY <2>3 DEF Idle
    <2>4. CASE CreateCredential \/ ConsumeRegistration \/ ConsumeLogin \/ LoginRaises
      BY <2>4, HandlerMoves
    <2>5. CASE \E r \in responses : CreateAccount(r) \/ UpdateAfterLogin(r) \/ RefuseLogin(r)
      BY <2>5, HandlerBegins
    <2> QED
      BY <2>1, <2>2, <2>3, <2>4, <2>5, HandlerSteps
  <1>3. \A s \in signed_out' : sessions'[s].revoked
    <2>1. CASE \E s \in DOMAIN sessions : Logout(s)
      BY <1>1, <2>1, RevokedSessions DEF Logout, SessionsAreStored
    <2>2. CASE signed_out' = signed_out
      BY <1>1, <2>2, SessionSteps DEF SessionsAreStored
    <2> QED
      BY <2>1, <2>2
      DEF Next, Sign, CreateAccount, RefuseLogin, RegisterOptions, LoginOptions,
          Store, ExpireChallenge, ConsumeRegistration, ConsumeLogin, UpdateAfterLogin,
          CreateCredential, CreateSession, LoginRaises, AnswerRegistration, AnswerLogin,
          LogFailure, ServeRequest, Fail, Tick, vars, history, browser
  <1>4. \A u \in served' : ~u.late /\ u.account = sessions'[u.session].account
    <2>1. CASE \E s \in DOMAIN sessions : ServeRequest(s)
      <3>1. PICK s \in DOMAIN sessions : ServeRequest(s)
        BY <2>1
      <3> DEFINE u == [session |-> s, account |-> sessions[s].account,
                       late |-> s \in signed_out]
      <3>2. served' = served \cup {u} /\ sessions' = sessions
        BY <3>1 DEF ServeRequest, tables
      <3>3. s \notin signed_out
        BY <1>1, <3>1 DEF ServeRequest, IsActive, SessionsAreStored
      <3>4. ~u.late /\ u.account = sessions[u.session].account
        BY <3>3
      <3> HIDE DEF u
      <3> QED
        BY <1>1, <3>2, <3>4 DEF SessionsAreStored
    <2>2. CASE served' = served
      <3>1. \A u \in served : u.session \in DOMAIN sessions
        BY <1>1 DEF TypeOK
      <3> QED
        BY <1>1, <2>2, <3>1, SessionSteps DEF SessionsAreStored
    <2> QED
      BY <2>1, <2>2
      DEF Next, Sign, CreateAccount, RefuseLogin, RegisterOptions, LoginOptions,
          Store, ExpireChallenge, ConsumeRegistration, ConsumeLogin, UpdateAfterLogin,
          CreateCredential, CreateSession, LoginRaises, AnswerRegistration, AnswerLogin,
          LogFailure, Logout, Fail, Tick, vars, history, browser
  <1> QED
    BY <1>2, <1>3, <1>4 DEF SessionsAreStored

LEMMA InvInit == Init => IInv
  <1> SUFFICES ASSUME Init PROVE IInv
    OBVIOUS
  <1>1. /\ challenges = <<>> /\ credentials = <<>> /\ sessions = <<>>
        /\ now = 0 /\ accounts = 0 /\ events = {} /\ responses = {}
        /\ counter = [d \in Device |-> 0] /\ handler = Idle
        /\ told = {} /\ interrupted = {} /\ cookies = {} /\ signed_out = {} /\ served = {}
    BY DEF Init
  <1>2. TypeOK
    <2>1. 0 \in 0..MaxTime /\ 0 \in 0..MaxAccounts /\ 0 \in Count /\ 0 <= MaxChallenges
      BY PasskeyConstants DEF Count
    <2>2. counter \in [Device -> Count]
      BY <1>1, <2>1
    <2>3. /\ challenges \in Seq(Challenge) /\ Len(challenges) = 0
          /\ credentials \in Seq(Credential) /\ sessions \in Seq(Session)
      BY <1>1
    <2> QED
      BY <1>1, <2>1, <2>2, <2>3 DEF TypeOK, Handler
  <1>3. CountersFit
    <2>1. Answered = {}
      BY <1>1 DEF Answered
    <2>2. \A d \in Device : counter[d] <= Cardinality(Answered)
      BY <1>1, <2>1, FS_EmptySet
    <2> QED
      BY <1>1, <2>1, <2>2 DEF CountersFit
  <1>4. \A d \in Device : RowsOf(d) = {}
    BY <1>1 DEF RowsOf
  <1>5. handler.at = "idle"
    BY <1>1 DEF Idle
  <1>6. CountersGoUp /\ OneSessionPerChallenge
    BY <1>1 DEF CountersGoUp, OneSessionPerChallenge
  <1>7. ResponsesFit /\ ChallengesAreSpent
    BY <1>1, <1>5 DEF ResponsesFit, ChallengesAreSpent, LoggingIn
  <1>8. FirstRowsExist /\ RegisteredOnce
    BY <1>1, <1>4, <1>5 DEF FirstRowsExist, RegisteredOnce
  <1>9. CountersAreStored /\ AccountsHaveRows /\ SessionsAreStored
    BY <1>1, <1>5
    DEF CountersAreStored, AccountsHaveRows, SessionsAreStored, LoggingIn, Enrolled
  <1> QED
    BY <1>2, <1>3, <1>6, <1>7, <1>8, <1>9 DEF IInv

LEMMA InvStep == IInv /\ [Next]_vars => IInv'
  BY TypeStep, CounterSteps, ResponsesStep, SpentStep, FirstRowStep, CountStep,
     AccountStep, RegisteredStep, StoredStep
  DEF IInv

-----------------------------------------------------------------------------
(* The theorems                                                            *)

\* The inductive invariant holds in every reachable state.
THEOREM Invariance == Spec => []IInv
  BY InvInit, InvStep, PTL DEF Spec

\* Every variable keeps its type.
THEOREM TypeCorrect == Spec => []TypeOK
  <1>1. IInv => TypeOK
    BY DEF IInv
  <1> QED
    BY <1>1, Invariance, PTL

\* However often and in whatever order responses arrive, and wherever the
\* process fails, a challenge opens at most one session.
THEOREM ChallengesOpenOnce == Spec => []OneSessionPerChallenge
  <1>1. IInv => OneSessionPerChallenge
    BY DEF IInv
  <1> QED
    BY <1>1, Invariance, PTL

\* The sessions of a passkey that counts carry counters that only go up.
THEOREM CountersRise == Spec => []CountersGoUp
  <1>1. IInv => CountersGoUp
    BY DEF IInv
  <1> QED
    BY <1>1, Invariance, PTL

\* Requests are served as the account the owner of the passkey was told of, and
\* not after the sign-out.
THEOREM ServedAsOwner == Spec => []RequestsAreOwn
  <1>1. IInv => RequestsAreOwn
    <2> SUFFICES ASSUME IInv, NEW u \in served
                 PROVE  /\ ~u.late
                        /\ \A t \in told :
                             sessions[u.session].device = t.device
                               /\ t.device \notin interrupted => u.account = t.account
      BY DEF RequestsAreOwn
    <2>1. ~u.late /\ u.account = sessions[u.session].account
      BY DEF IInv, SessionsAreStored
    <2>2. ASSUME NEW t \in told, sessions[u.session].device = t.device,
                 t.device \notin interrupted
          PROVE  u.account = t.account
      <3>1. /\ t.device \in Device /\ t.account \in AccountId
            /\ t = [device |-> t.device, account |-> t.account]
        BY DEF IInv, TypeOK
      <3>2. u.session \in DOMAIN sessions /\ u.account \in AccountId
        BY DEF IInv, TypeOK
      <3>3. HasRow(t.device, t.account)
        BY <3>1 DEF IInv, AccountsHaveRows
      <3>4. HasRow(t.device, u.account)
        BY <2>1, <2>2, <3>1, <3>2 DEF IInv, AccountsHaveRows
      <3>5. \A i, j \in RowsOf(t.device) : i = j
        BY <2>2, <3>1 DEF IInv, RegisteredOnce
      <3> QED
        BY <3>3, <3>4, <3>5 DEF HasRow, RowsOf
    <2> QED
      BY <2>1, <2>2
  <1> QED
    BY <1>1, Invariance, PTL

=============================================================================
