--------------------------- MODULE EmailVerification ---------------------------
(***************************************************************************)
(* Verifying the email address of an account: EmailVerificationService and *)
(* its endpoints, over the accounts and email_verification_codes tables.   *)
(*                                                                         *)
(* The handlers run one at a time in the single server process.  Each      *)
(* repository call commits, so a handler is a sequence of steps and the    *)
(* process may fail between any two of them.  Email stands for the hash of *)
(* a normalised address; the code itself is one of Digits, drawn at random *)
(* and compared by hash.                                                   *)
(***************************************************************************)
EXTENDS Naturals, Sequences

CONSTANTS
  Account,      \* signed-in accounts; each has a row
  Email,        \* addresses
  NoEmail,      \* the address of an account that gave none
  Digits,       \* what a code, or a guess at one, can be
  MaxAttempts,  \* intake_email_code_max_attempts
  Lifetime,     \* intake_email_code_ttl_seconds
  Never,        \* consumed_at of a code that was not used
  MaxCodes,     \* bound: codes ever issued
  MaxGuesses,   \* bound: wrong guesses counted on one code
  MaxTime       \* bound: the clock

ASSUME EmailConstants ==
  /\ NoEmail \notin Email /\ Never \notin Nat
  /\ MaxAttempts \in Nat \ {0} /\ Lifetime \in Nat \ {0}
  /\ MaxCodes \in Nat /\ MaxTime \in Nat
  /\ MaxGuesses \in Nat /\ MaxGuesses >= MaxAttempts

VARIABLES
  accounts,  \* accounts[a]: its address and whether email_verified_at is set
  codes,     \* email_verification_codes, in the order of issue
  now,
  handler,   \* what the process is in the middle of
  sent,      \* the last mail that went out
  missed,    \* history: missed[i] wrong guesses answered while i was active
  answer     \* the last answer given

vars == <<accounts, codes, now, handler, sent, missed, answer>>

Time == 0..MaxTime
Code == [account : Account, email : Email, digits : Digits,
         attempts : 0..MaxGuesses, expires : Nat, consumed : Time \cup {Never}]

Idle == [at |-> "idle"]
Handler == {Idle}
  \cup [at : {"set_email", "send"}, account : Account, code : 1..MaxCodes]
  \cup [at : {"mark"}, account : Account]
  \cup [at : {"count"}, account : Account, asked : SUBSET (1..MaxCodes),
        left : SUBSET (1..MaxCodes)]
Answer == [account : Account, says : {"verified", "invalid", "error"}]
Mail == [email : Email, code : 1..MaxCodes]
None == [code |-> 0]

Init ==
  /\ accounts = [a \in Account |-> [email |-> NoEmail, verified |-> FALSE]]
  /\ codes = <<>> /\ missed = <<>>
  /\ now = 0
  /\ handler = Idle
  /\ sent = None /\ answer = None

Says(a, what) == answer' = [account |-> a, says |-> what]

-----------------------------------------------------------------------------
(* POST /account/email/start-verification                                  *)

Issued(a, e, d) ==
  [account |-> a, email |-> e, digits |-> d, attempts |-> 0,
   expires |-> now + Lifetime, consumed |-> Never]

\* Earlier codes for the address stay active.
InsertCode(code) == codes' = Append(codes, code)

IssueCode(a, e, d) ==
  /\ handler = Idle
  /\ Len(codes) < MaxCodes
  /\ InsertCode(Issued(a, e, d))
  /\ missed' = Append(missed, 0)
  /\ handler' = [at |-> "set_email", account |-> a, code |-> Len(codes) + 1]
  /\ UNCHANGED <<accounts, now, sent, answer>>

\* Mutant: the column is not unique.
Taken_Never(a, e) == FALSE

\* normalized_email_hash is a unique column.
Taken(a, e) == \E b \in Account \ {a} : accounts[b].email = e

\* email_verified_at is left as it was, though the address changes.
SetEmail ==
  /\ handler.at = "set_email"
  /\ LET a == handler.account
         e == codes[handler.code].email
     IN /\ ~Taken(a, e)
        /\ accounts' = [accounts EXCEPT ![a].email = e]
        /\ handler' = [handler EXCEPT !.at = "send"]
  /\ UNCHANGED <<codes, now, sent, missed, answer>>

\* The commit raises and the request ends in an error; the code stays.
SetEmailRaises ==
  /\ handler.at = "set_email"
  /\ Taken(handler.account, codes[handler.code].email)
  /\ Says(handler.account, "error")
  /\ handler' = Idle
  /\ UNCHANGED <<accounts, codes, now, sent, missed>>

\* The event log has no append_account_event: the request ends in an error
\* although the mail is out.
SendEmail ==
  /\ handler.at = "send"
  /\ sent' = [email |-> codes[handler.code].email, code |-> handler.code]
  /\ Says(handler.account, "error")
  /\ handler' = Idle
  /\ UNCHANGED <<accounts, codes, now, missed>>

-----------------------------------------------------------------------------
(* POST /account/email/verify                                              *)

\* Mutant: the codes are not filtered for the account.
Candidates_AnyAccount(a, e) ==
  {i \in DOMAIN codes : /\ codes[i].email = e
                        /\ codes[i].consumed = Never /\ codes[i].expires > now}

Candidates(a, e) ==
  {i \in DOMAIN codes : /\ codes[i].account = a /\ codes[i].email = e
                        /\ codes[i].consumed = Never /\ codes[i].expires > now}

Matching(a, e, d) == {i \in Candidates(a, e) : codes[i].digits = d}

\* Mutant: one guess too many.
CanAttempt_OneMore(c) == c.attempts <= MaxAttempts

CanAttempt(c) ==
  /\ c.attempts < MaxAttempts
  /\ c.consumed = Never
  /\ now <= c.expires

\* No active code, or the one that matches has had too many guesses.
RefuseCode(a, e, d) ==
  /\ handler = Idle
  /\ \/ Candidates(a, e) = {}
     \/ \E i \in Matching(a, e, d) : ~CanAttempt(codes[i])
  /\ Says(a, "invalid")
  /\ UNCHANGED <<accounts, codes, now, handler, sent, missed>>

\* A wrong guess is to be counted on every active code, one commit each.
MissCode(a, e, d) ==
  /\ handler = Idle
  /\ Candidates(a, e) # {} /\ Matching(a, e, d) = {}
  /\ \A i \in Candidates(a, e) : codes[i].attempts < MaxGuesses
  /\ handler' = [at |-> "count", account |-> a,
                 asked |-> Candidates(a, e), left |-> Candidates(a, e)]
  /\ UNCHANGED <<accounts, codes, now, sent, missed, answer>>

\* Both callers change the object they read, and write its two columns back.
UpdateCode(i, code) == codes' = [codes EXCEPT ![i] = code]

\* Mutant: attempts are counted down, from none.
CountAttempt_Down(i) ==
  /\ handler.at = "count"
  /\ i \in handler.left
  /\ UpdateCode(i, [codes[i] EXCEPT !.attempts = @ - 1])
  /\ handler' = [handler EXCEPT !.left = @ \ {i}]
  /\ UNCHANGED <<accounts, now, sent, missed, answer>>

CountAttempt(i) ==
  /\ handler.at = "count"
  /\ i \in handler.left
  /\ UpdateCode(i, [codes[i] EXCEPT !.attempts = @ + 1])
  /\ handler' = [handler EXCEPT !.left = @ \ {i}]
  /\ UNCHANGED <<accounts, now, sent, missed, answer>>

\* Mutant: only the first code is counted.
Counted_One(h) == h.left # h.asked

Counted(h) == h.left = {}

AnswerMiss ==
  /\ handler.at = "count"
  /\ Counted(handler)
  /\ missed' = [i \in DOMAIN missed |->
                  IF i \in handler.asked THEN missed[i] + 1 ELSE missed[i]]
  /\ Says(handler.account, "invalid")
  /\ handler' = Idle
  /\ UNCHANGED <<accounts, codes, now, sent>>

\* The first of the matching codes, in whatever order the query returns them.
ConsumeCode(a, e, d) ==
  /\ handler = Idle
  /\ \E i \in Matching(a, e, d) :
       /\ CanAttempt(codes[i])
       /\ UpdateCode(i, [codes[i] EXCEPT !.consumed = now])
  /\ handler' = [at |-> "mark", account |-> a]
  /\ UNCHANGED <<accounts, now, sent, missed, answer>>

\* The account is marked whatever its address is by now; then the event log
\* raises and the request ends in an error.
MarkVerified ==
  /\ handler.at = "mark"
  /\ accounts' = [accounts EXCEPT ![handler.account].verified = TRUE]
  /\ Says(handler.account, "error")
  /\ handler' = Idle
  /\ UNCHANGED <<codes, now, sent, missed>>

-----------------------------------------------------------------------------

\* The process fails and restarts: the tables stay, the request is lost.
Fail ==
  /\ handler # Idle
  /\ handler' = Idle
  /\ UNCHANGED <<accounts, codes, now, sent, missed, answer>>

Tick ==
  /\ now < MaxTime
  /\ now' = now + 1
  /\ UNCHANGED <<accounts, codes, handler, sent, missed, answer>>

Next ==
  \/ \E a \in Account, e \in Email, d \in Digits :
       \/ IssueCode(a, e, d) \/ RefuseCode(a, e, d)
       \/ MissCode(a, e, d)  \/ ConsumeCode(a, e, d)
  \/ SetEmail \/ SetEmailRaises \/ SendEmail
  \/ \E i \in DOMAIN codes : CountAttempt(i)
  \/ AnswerMiss \/ MarkVerified
  \/ Fail \/ Tick

Spec == Init /\ [][Next]_vars

-----------------------------------------------------------------------------
(* Properties                                                              *)

\* Types of the tables, the handler and the histories.
TypeOK ==
  /\ accounts \in [Account -> [email : Email \cup {NoEmail}, verified : BOOLEAN]]
  /\ codes \in Seq(Code) /\ Len(codes) <= MaxCodes
  /\ missed \in Seq(0..MaxGuesses) /\ Len(missed) = Len(codes)
  /\ now \in Time
  /\ handler \in Handler
  /\ sent \in Mail \cup {None}
  /\ answer \in Answer \cup {None}

\* verify_code gives up on a code after MaxAttempts wrong guesses: no code is
\* accepted once that many were answered while it was active, whichever of
\* several active codes they were meant for, expiries and failures included.
GuessLimit ==
  \A i \in DOMAIN codes : codes[i].consumed # Never => missed[i] < MaxAttempts

\* An account is verified only by a code issued to that very account and
\* used before it expired, though another may have asked for the same address.
VerifiedByOwnCode ==
  \A a \in Account : accounts[a].verified =>
    \E i \in DOMAIN codes :
      /\ codes[i].account = a
      /\ codes[i].consumed # Never /\ codes[i].consumed < codes[i].expires

\* Mail goes out only to an address that is by then the requester's in the
\* accounts table and nobody else's: start_verification stores it first.
MailOnlyToHolder ==
  [][sent' # sent =>
       LET a == codes[sent'.code].account
       IN /\ accounts[a].email = sent'.email
          /\ \A b \in Account \ {a} : accounts[b].email # sent'.email]_vars
=============================================================================
