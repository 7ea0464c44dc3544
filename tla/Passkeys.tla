------------------------------- MODULE Passkeys -------------------------------
(***************************************************************************)
(* Registration, sign-in and sign-out with passkeys, and the requests made *)
(* with a session: PasskeyService, SessionService, the /auth endpoints and *)
(* their session dependency, over the challenges, accounts, credentials,   *)
(* sessions and events tables.                                             *)
(*                                                                         *)
(* The handlers run one at a time in the single server process; each       *)
(* repository call commits, so a handler is a sequence of steps, between   *)
(* any two of which the process may fail.  The signature check of the      *)
(* WebAuthn library is external: a response here is one an authenticator   *)
(* signed.  It may arrive late, and any number of times.  attempt_count is *)
(* written and never read, and left out.                                   *)
(***************************************************************************)
EXTENDS Naturals, Sequences, FiniteSetsExt

CONSTANTS
  Device,         \* authenticators: each is one credential_id
  Counting,       \* those that count their signatures; the others send 0
  Lifetime,       \* intake_challenge_expiry
  SessionLife,    \* intake_session_ttl_seconds
  MaxChallenges,  \* bound: challenges issued
  MaxAccounts,    \* bound: accounts created
  MaxTime         \* bound: the clock

ASSUME PasskeyConstants ==
  /\ Counting \subseteq Device
  /\ Lifetime \in Nat \ {0} /\ SessionLife \in Nat \ {0}
  /\ MaxChallenges \in Nat /\ MaxAccounts \in Nat /\ MaxTime \in Nat

VARIABLES
  now,
  challenges,   \* passkey_challenges, in the order of issue
  accounts,     \* how many accounts there are; they are numbered
  credentials,  \* passkey_credentials, in the order of insertion
  sessions,     \* sessions, in the order of insertion
  events,       \* what the event log says of each account
  counter,      \* counter[d]: the signature counter inside authenticator d
  responses,    \* what authenticators have signed
  handler,      \* what the process is in the middle of
  told,         \* history: the registrations that were answered
  interrupted,  \* history: authenticators whose registration was cut short
  cookies,      \* history: the sessions handed to browsers
  signed_out,   \* history: the sessions whose logout was answered
  served        \* history: the requests that were answered for a session

vars == <<now, challenges, accounts, credentials, sessions, events, counter,
          responses, handler, told, interrupted, cookies, signed_out, served>>
tables == <<challenges, accounts, credentials, sessions, events>>
history == <<told, interrupted, cookies, signed_out, served>>
browser == <<cookies, signed_out, served>>

ChallengeId == 1..MaxChallenges
AccountId == 1..MaxAccounts
Count == 0..MaxChallenges

Challenge == [action : {"register", "login"}, status : {"pending", "consumed"},
              expires_at : Nat]
Credential == [device : Device, account : AccountId, sign_count : Count]
Session == [account : AccountId, expires_at : Nat, revoked : BOOLEAN,
            device : Device, challenge : ChallengeId, count : Count]
Response == [action : {"register", "login"}, challenge : ChallengeId,
             device : Device, count : Count]
Idle == [at |-> "idle"]
Handler ==
  {Idle} \cup [at : {"credential", "consume_register", "log_register",
                     "consume_login", "session", "log_login", "log_failure"},
               response : Response, account : AccountId]
Event == [account : AccountId, type : {"registered", "success", "failure"}]

Init ==
  /\ now = 0 /\ accounts = 0
  /\ challenges = <<>> /\ credentials = <<>> /\ sessions = <<>>
  /\ events = {} /\ responses = {}
  /\ counter = [d \in Device |-> 0]
  /\ handler = Idle
  /\ told = {} /\ interrupted = {}
  /\ cookies = {} /\ signed_out = {} /\ served = {}

Serving(step) == handler.at = step
Then(step)    == handler' = [handler EXCEPT !.at = step]
Log(type)     == events' = events \cup {[account |-> handler.account, type |-> type]}

-----------------------------------------------------------------------------
(* Challenges, and what authenticators make of them                        *)

NewChallenge(action) ==
  [action |-> action, status |-> "pending", expires_at |-> now + Lifetime]

Store(challenge) ==
  /\ Serving("idle")
  /\ Len(challenges) < MaxChallenges
  /\ challenges' = Append(challenges, challenge)
  /\ UNCHANGED <<now, accounts, credentials, sessions, events, counter,
                 responses, handler, history>>

\* Neither endpoint names an account: any passkey may answer a login challenge.
RegisterOptions == Store(NewChallenge("register"))
LoginOptions    == Store(NewChallenge("login"))

\* An authenticator answers a challenge it was shown.  A registration starts
\* its counter; every assertion advances it.
Sign(d, c) ==
  /\ c \in DOMAIN challenges
  /\ \A r \in responses : r.challenge # c
  /\ IF challenges[c].action = "register"
     THEN /\ \A r \in responses : r.device # d
          /\ UNCHANGED counter
     ELSE /\ \E r \in responses : r.device = d
          /\ counter' = [counter EXCEPT ![d] = IF d \in Counting THEN @ + 1 ELSE 0]
  /\ responses' = responses \cup
       {[action |-> challenges[c].action, challenge |-> c, device |-> d,
         count |-> counter'[d]]}
  /\ UNCHANGED <<now, tables, handler, history>>

\* Mutant: a challenge that was used is as good as one that was not.
Usable_AnyStatus(c, action) ==
  challenges[c].action = action /\ now <= challenges[c].expires_at

Usable(c, action) ==
  /\ challenges[c].action = action
  /\ challenges[c].status = "pending"
  /\ now <= challenges[c].expires_at

Consumed(c) == [challenges EXCEPT ![c].status = "consumed"]

\* Either handler marks a pending challenge that has expired, and rejects.
ExpireChallenge(r) ==
  /\ Serving("idle")
  /\ challenges[r.challenge].action = r.action
  /\ challenges[r.challenge].status = "pending"
  /\ challenges[r.challenge].expires_at < now
  /\ challenges' = Consumed(r.challenge)
  /\ UNCHANGED <<now, accounts, credentials, sessions, events, counter,
                 responses, handler, history>>

-----------------------------------------------------------------------------
(* POST /auth/register/verify                                              *)

\* The options endpoint names no account, so each registration creates one.
CreateAccount(r) ==
  /\ Serving("idle")
  /\ r.action = "register" /\ Usable(r.challenge, "register")
  /\ accounts < MaxAccounts
  /\ accounts' = accounts + 1
  /\ handler' = [at |-> "credential", response |-> r, account |-> accounts + 1]
  /\ UNCHANGED <<now, challenges, credentials, sessions, events, counter,
                 responses, history>>

\* credential_id is not unique in the table.
InsertCredential(row) == credentials' = Append(credentials, row)

CreateCredential ==
  /\ Serving("credential")
  /\ InsertCredential([device |-> handler.response.device,
                       account |-> handler.account,
                       sign_count |-> handler.response.count])
  /\ Then("consume_register")
  /\ UNCHANGED <<now, challenges, accounts, sessions, events, counter,
                 responses, history>>

\* Mutant: mark_consumed is forgotten.
ConsumeRegistration_Unmarked ==
  /\ Serving("consume_register")
  /\ Then("log_register")
  /\ UNCHANGED <<now, tables, counter, responses, history>>

ConsumeRegistration ==
  /\ Serving("consume_register")
  /\ challenges' = Consumed(handler.response.challenge)
  /\ Then("log_register")
  /\ UNCHANGED <<now, accounts, credentials, sessions, events, counter,
                 responses, history>>

TellAccount ==
  told' = told \cup {[device |-> handler.response.device,
                     account |-> handler.account]}

AnswerRegistration ==
  /\ Serving("log_register")
  /\ Log("registered")
  /\ TellAccount
  /\ handler' = Idle
  /\ UNCHANGED <<now, challenges, accounts, credentials, sessions, counter,
                 responses, interrupted, browser>>

-----------------------------------------------------------------------------
(* POST /auth/login/verify and /auth/logout                                *)

RowsOf(d) == {i \in DOMAIN credentials : credentials[i].device = d}

\* get_credential and update_after_login take the first row there is.
FirstRow(d) == Min(RowsOf(d))

\* The library's check: the counter has advanced, or is not used at all.
CounterAdvances(stored, count) == count > stored \/ (count = 0 /\ stored = 0)

\* Mutant: the counter of the assertion is not stored.
AfterLogin_SameCount(row, count) == row

AfterLogin(row, count) == [row EXCEPT !.sign_count = count]

UpdateAfterLogin(r) ==
  /\ Serving("idle")
  /\ r.action = "login" /\ Usable(r.challenge, "login")
  /\ RowsOf(r.device) # {}
  /\ LET i == FirstRow(r.device)
     IN /\ CounterAdvances(credentials[i].sign_count, r.count)
        /\ credentials' = [credentials EXCEPT ![i] = AfterLogin(@, r.count)]
        /\ handler' = [at |-> "consume_login", response |-> r,
                       account |-> credentials[i].account]
  /\ UNCHANGED <<now, challenges, accounts, sessions, events, counter,
                 responses, history>>

\* The assertion is refused; its challenge stays pending.
RefuseLogin(r) ==
  /\ Serving("idle")
  /\ r.action = "login" /\ Usable(r.challenge, "login")
  /\ RowsOf(r.device) # {}
  /\ LET i == FirstRow(r.device)
     IN /\ ~CounterAdvances(credentials[i].sign_count, r.count)
        /\ handler' = [at |-> "log_failure", response |-> r,
                       account |-> credentials[i].account]
  /\ UNCHANGED <<now, tables, counter, responses, history>>

ConsumeLogin ==
  /\ Serving("consume_login")
  /\ challenges' = Consumed(handler.response.challenge)
  /\ Then("session")
  /\ UNCHANGED <<now, accounts, credentials, sessions, events, counter,
                 responses, history>>

NewSession ==
  [account |-> handler.account, expires_at |-> now + SessionLife,
   revoked |-> FALSE, device |-> handler.response.device,
   challenge |-> handler.response.challenge, count |-> handler.response.count]

\* Mutant: the session is built and not stored.
CreateSession_Unsaved ==
  /\ Serving("session")
  /\ Then("log_login")
  /\ UNCHANGED <<now, tables, counter, responses, history>>

InsertSession(row) == sessions' = Append(sessions, row)

CreateSession ==
  /\ Serving("session")
  /\ InsertSession(NewSession)
  /\ Then("log_login")
  /\ UNCHANGED <<now, challenges, accounts, credentials, events, counter,
                 responses, history>>

\* The cookie holds the id of the session that was just created.
SetCookie == cookies' = cookies \cup {Len(sessions)}

AnswerLogin ==
  /\ Serving("log_login")
  /\ Log("success")
  /\ SetCookie
  /\ handler' = Idle
  /\ UNCHANGED <<now, challenges, accounts, credentials, sessions, counter,
                 responses, told, interrupted, signed_out, served>>

\* Anything that raises after the assertion was accepted ends as a failed
\* login, a session that was already created included.
LoginRaises ==
  /\ handler.at \in {"consume_login", "session", "log_login"}
  /\ Then("log_failure")
  /\ UNCHANGED <<now, tables, counter, responses, history>>

LogFailure ==
  /\ Serving("log_failure")
  /\ Log("failure")
  /\ handler' = Idle
  /\ UNCHANGED <<now, challenges, accounts, credentials, sessions, counter,
                 responses, history>>

Revoke(s) == sessions' = [sessions EXCEPT ![s].revoked = TRUE]

\* Revoking is done once; repeating it answers the same.  The cookie is deleted
\* with the answer, but a request that carries it may still be on its way.
Logout(s) ==
  /\ Serving("idle") /\ s \in cookies
  /\ Revoke(s)
  /\ signed_out' = signed_out \cup {s}
  /\ UNCHANGED <<now, challenges, accounts, credentials, events, counter,
                 responses, handler, told, interrupted, cookies, served>>

-----------------------------------------------------------------------------
(* Requests that carry a session                                           *)

\* Mutant: revoked_at is not looked at.
IsActive_Revoked(session) == now < session.expires_at

IsActive(session) == ~session.revoked /\ now < session.expires_at

\* get_current_account_id: the session dependency of every account endpoint.
ServeRequest(s) ==
  /\ Serving("idle") /\ s \in cookies
  /\ IsActive(sessions[s])
  /\ served' = served \cup
       {[session |-> s, account |-> sessions[s].account,
         late |-> s \in signed_out]}
  /\ UNCHANGED <<now, tables, counter, responses, handler, told, interrupted,
                 cookies, signed_out>>

-----------------------------------------------------------------------------

\* The process fails and restarts, or a commit outside the try block raises.
Fail ==
  /\ ~Serving("idle")
  /\ interrupted' = interrupted \cup
       (IF handler.response.action = "register"
        THEN {handler.response.device} ELSE {})
  /\ handler' = Idle
  /\ UNCHANGED <<now, tables, counter, responses, told, browser>>

Tick ==
  /\ now < MaxTime
  /\ now' = now + 1
  /\ UNCHANGED <<tables, counter, responses, handler, history>>

Next ==
  \/ RegisterOptions \/ LoginOptions
  \/ \E d \in Device, c \in DOMAIN challenges : Sign(d, c)
  \/ \E r \in responses :
       \/ ExpireChallenge(r) \/ CreateAccount(r)
       \/ UpdateAfterLogin(r) \/ RefuseLogin(r)
  \/ CreateCredential \/ ConsumeRegistration \/ AnswerRegistration
  \/ ConsumeLogin \/ CreateSession \/ AnswerLogin \/ LoginRaises \/ LogFailure
  \/ \E s \in DOMAIN sessions : Logout(s) \/ ServeRequest(s)
  \/ Fail \/ Tick

Spec == Init /\ [][Next]_vars

-----------------------------------------------------------------------------
(* Properties                                                              *)

\* Types of the tables, the handler and the histories.
TypeOK ==
  /\ now \in 0..MaxTime /\ accounts \in 0..MaxAccounts
  /\ challenges \in Seq(Challenge) /\ Len(challenges) <= MaxChallenges
  /\ credentials \in Seq(Credential) /\ sessions \in Seq(Session)
  /\ events \subseteq Event /\ responses \subseteq Response
  /\ counter \in [Device -> Count]
  /\ handler \in Handler
  /\ told \subseteq [device : Device, account : AccountId]
  /\ interrupted \subseteq Device
  /\ cookies \subseteq DOMAIN sessions /\ signed_out \subseteq cookies
  /\ served \subseteq [session : cookies, account : AccountId, late : BOOLEAN]

\* A login challenge opens at most one session, however often and however
\* late its answer arrives and wherever the process fails: verify_
\* authentication consumes the challenge before it creates the session.
OneSessionPerChallenge ==
  \A i, j \in DOMAIN sessions :
    sessions[i].challenge = sessions[j].challenge => i = j

\* sign_count is the "anti-replay counter": the sessions opened by a passkey
\* that counts carry counters that only go up, though its assertions may
\* arrive in any order.
CountersGoUp ==
  \A i, j \in DOMAIN sessions :
    i < j /\ sessions[i].device = sessions[j].device
          /\ sessions[i].device \in Counting =>
      sessions[i].count < sessions[j].count

\* A request is served as the account that the owner of the passkey was told
\* of at registration, unless that registration was cut short by a failure
\* and sent again (which leaves two accounts with one passkey), and only until
\* the owner signs out, however late it arrives.
RequestsAreOwn ==
  \A u \in served :
    /\ ~u.late
    /\ \A t \in told :
         sessions[u.session].device = t.device /\ t.device \notin interrupted =>
           u.account = t.account
=============================================================================
