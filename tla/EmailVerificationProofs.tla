------------------------ MODULE EmailVerificationProofs ------------------------
(***************************************************************************)
(* Proofs about email verification, for any accounts, addresses and codes, *)
(* any limits and any bounds: the types, the limit on wrong guesses, that  *)
(* an account is verified by a code of its own, and that mail goes only to *)
(* whoever holds the address.                                              *)
(***************************************************************************)
EXTENDS EmailVerification, SequenceTheorems, TLAPS

\* Code i was used by account a before it expired.
UsedBy(i, a) ==
  /\ codes[i].account = a
  /\ codes[i].consumed # Never /\ codes[i].consumed < codes[i].expires

\* What the handler is in the middle of is about codes of its account.
HandlerFits ==
  /\ handler.at \in {"set_email", "send"} =>
       /\ handler.code \in DOMAIN codes
       /\ codes[handler.code].account = handler.account
  /\ handler.at = "send" =>
       accounts[handler.account].email = codes[handler.code].email
  /\ handler.at = "mark" => \E i \in DOMAIN codes : UsedBy(i, handler.account)
  /\ handler.at = "count" =>
       /\ handler.left \subseteq handler.asked
       /\ \A i \in handler.asked :
            /\ i \in DOMAIN codes /\ codes[i].consumed = Never
            /\ i \in handler.left => codes[i].attempts < MaxGuesses
            /\ i \notin handler.left => missed[i] < codes[i].attempts

\* No two accounts have an address in common.
AddressesAreUnique ==
  \A a, b \in Account : accounts[a].email = accounts[b].email =>
    a = b \/ accounts[a].email = NoEmail

\* Every wrong guess that was answered was counted.
MissesAreCounted == \A i \in DOMAIN codes : missed[i] <= codes[i].attempts

IInv ==
  /\ TypeOK /\ HandlerFits /\ AddressesAreUnique /\ MissesAreCounted
  /\ GuessLimit /\ VerifiedByOwnCode

-----------------------------------------------------------------------------
(* What the helpers return                                                 *)

\* A function on 1..n is a sequence of length n.
LEMMA FunctionIsSeq ==
  ASSUME NEW S, NEW n \in Nat, NEW f \in [1..n -> S]
  PROVE  f \in Seq(S) /\ Len(f) = n
  <1>1. f \in Seq(S)
    BY SeqDef
  <1>2. DOMAIN f = 1..Len(f) /\ Len(f) \in Nat /\ DOMAIN f = 1..n
    BY <1>1
  <1>3. \A k \in Nat : k \in 1..n <=> k \in 1..Len(f)
    BY <1>2
  <1> QED
    BY <1>1, <1>2, <1>3

\* A code in the table, and the two ways it may change.
LEMMA CodeType ==
  ASSUME TypeOK, NEW i \in DOMAIN codes
  PROVE  /\ codes[i] \in Code /\ codes[i].account \in Account /\ codes[i].email \in Email
         /\ codes[i].attempts \in 0..MaxGuesses /\ codes[i].expires \in Nat
         /\ [codes[i] EXCEPT !.consumed = now] \in Code
         /\ codes[i].attempts < MaxGuesses =>
              [codes[i] EXCEPT !.attempts = @ + 1] \in Code
         /\ i \in 1..MaxCodes /\ missed[i] \in 0..MaxGuesses
         /\ missed[i] \in Nat /\ codes[i].attempts \in Nat
  <1>1. codes[i] \in Code /\ now \in Time
    BY DEF TypeOK
  <1>2. i \in 1..MaxCodes
    BY EmailConstants DEF TypeOK
  <1>3. missed[i] \in 0..MaxGuesses
    <2>1. i \in 1..Len(missed) /\ missed \in Seq(0..MaxGuesses)
      BY DEF TypeOK
    <2> QED
      BY <2>1, ElementOfSeq
  <1>4. codes[i].attempts \in 0..MaxGuesses
    BY <1>1 DEF Code
  <1>5. codes[i].attempts < MaxGuesses => codes[i].attempts + 1 \in 0..MaxGuesses
    BY <1>4, EmailConstants
  <1> QED
    BY <1>1, <1>2, <1>3, <1>4, <1>5 DEF Code

\* Updating a code leaves the others alone.
LEMMA UpdatedCodes ==
  ASSUME TypeOK, NEW i \in DOMAIN codes, NEW c \in Code, UpdateCode(i, c)
  PROVE  /\ codes' \in Seq(Code) /\ Len(codes') = Len(codes)
         /\ DOMAIN codes' = DOMAIN codes
         /\ codes'[i] = c /\ \A j \in DOMAIN codes : j # i => codes'[j] = codes[j]
  BY DEF TypeOK, UpdateCode

\* A code that was used is as good an explanation in the next state, if it is
\* still in the table.
LEMMA UsedStays ==
  ASSUME NEW i, NEW a, UsedBy(i, a), codes'[i].account = codes[i].account,
         codes'[i].consumed = codes[i].consumed, codes'[i].expires = codes[i].expires
  PROVE  UsedBy(i, a)'
  BY DEF UsedBy

-----------------------------------------------------------------------------
(* The steps                                                               *)

LEMMA InvInit == Init => IInv
  <1> SUFFICES ASSUME Init PROVE IInv
    OBVIOUS
  <1>1. /\ codes = <<>> /\ missed = <<>> /\ now = 0 /\ handler.at = "idle"
        /\ accounts = [a \in Account |-> [email |-> NoEmail, verified |-> FALSE]]
        /\ handler = Idle /\ sent = None /\ answer = None
    BY DEF Init, Idle
  <1>2. TypeOK
    <2>1. 0 \in Time /\ 0 <= MaxCodes
      BY EmailConstants DEF Time
    <2>2. accounts \in [Account -> [email : Email \cup {NoEmail}, verified : BOOLEAN]]
      BY <1>1
    <2>3. codes \in Seq(Code) /\ missed \in Seq(0..MaxGuesses) /\ Len(codes) = 0
          /\ Len(missed) = 0
      BY <1>1
    <2> QED
      BY <1>1, <2>1, <2>2, <2>3 DEF TypeOK, Handler
  <1> QED
    BY <1>1, <1>2
    DEF IInv, HandlerFits, AddressesAreUnique, MissesAreCounted, GuessLimit,
        VerifiedByOwnCode

\* A code is issued: no guess was made at it and it was not used.
LEMMA IssueStep ==
  ASSUME IInv, NEW a \in Account, NEW e \in Email, NEW d \in Digits, IssueCode(a, e, d)
  PROVE  IInv'
  <1> DEFINE n == Len(codes) + 1
             new == Issued(a, e, d)
  <1>1. TypeOK /\ Len(codes) < MaxCodes /\ Len(codes) \in Nat
    BY DEF IInv, TypeOK, IssueCode
  <1>2. /\ new \in Code /\ new.account = a /\ new.attempts = 0 /\ new.consumed = Never
    <2>1. now + Lifetime \in Nat /\ 0 \in 0..MaxGuesses
      BY <1>1, EmailConstants DEF TypeOK, Time
    <2> QED
      BY <2>1 DEF Issued, Code
  <1>3. /\ codes' = Append(codes, new) /\ missed' = Append(missed, 0)
        /\ handler' = [at |-> "set_email", account |-> a, code |-> n]
        /\ UNCHANGED <<accounts, now, sent, answer>>
    BY DEF IssueCode, InsertCode
  <1> HIDE DEF new
  <1>4. /\ codes' \in Seq(Code) /\ Len(codes') = n /\ DOMAIN codes' = DOMAIN codes \cup {n}
        /\ codes'[n] = new /\ \A i \in DOMAIN codes : i # n /\ codes'[i] = codes[i]
    BY <1>1, <1>2, <1>3 DEF TypeOK
  <1>5. /\ missed' \in Seq(0..MaxGuesses) /\ Len(missed') = n /\ missed'[n] = 0
        /\ \A i \in DOMAIN codes : missed'[i] = missed[i]
    <2>1. 0 \in 0..MaxGuesses
      BY EmailConstants
    <2> QED
      BY <1>1, <1>3, <2>1 DEF TypeOK
  <1>6. n \in 1..MaxCodes /\ n <= MaxCodes
    BY <1>1, EmailConstants
  <1> HIDE DEF n
  <1>7. TypeOK'
    <2>1. handler' \in Handler
      BY <1>3, <1>6 DEF Handler
    <2> QED
      BY <1>1, <1>3, <1>4, <1>5, <1>6, <2>1 DEF TypeOK
  <1>8. HandlerFits'
    BY <1>2, <1>3, <1>4 DEF HandlerFits
  <1>9. AddressesAreUnique' /\ MissesAreCounted' /\ GuessLimit'
    BY <1>2, <1>3, <1>4, <1>5 DEF IInv, AddressesAreUnique, MissesAreCounted, GuessLimit
  <1>10. VerifiedByOwnCode'
    BY <1>3, <1>4 DEF IInv, VerifiedByOwnCode
  <1> QED
    BY <1>7, <1>8, <1>9, <1>10 DEF IInv

\* The address goes into the accounts table, unless another account has it.
LEMMA SetEmailStep ==
  ASSUME IInv, SetEmail
  PROVE  IInv'
  <1> DEFINE a == handler.account
             e == codes[handler.code].email
  <1>1. TypeOK /\ handler.code \in DOMAIN codes /\ codes[handler.code].account = a
    BY DEF IInv, SetEmail, HandlerFits
  <1>2. a \in Account /\ e \in Email
    BY <1>1, CodeType
  <1>3. /\ ~Taken(a, e) /\ accounts' = [accounts EXCEPT ![a].email = e]
        /\ handler' = [handler EXCEPT !.at = "send"] /\ handler.at = "set_email"
        /\ UNCHANGED <<codes, now, sent, missed, answer>>
    BY DEF SetEmail
  <1>4. /\ handler' \in Handler /\ handler'.at = "send"
        /\ handler'.account = a /\ handler'.code = handler.code
    BY <1>1, <1>3 DEF TypeOK, Handler, Idle
  <1> HIDE DEF a, e
  <1>5. /\ accounts' \in [Account -> [email : Email \cup {NoEmail}, verified : BOOLEAN]]
        /\ accounts'[a].email = e /\ accounts'[a].verified = accounts[a].verified
        /\ \A b \in Account : b # a => accounts'[b] = accounts[b]
    BY <1>1, <1>2, <1>3 DEF TypeOK
  <1>6. TypeOK'
    BY <1>1, <1>3, <1>4, <1>5 DEF TypeOK
  <1>7. HandlerFits'
    BY <1>1, <1>3, <1>4, <1>5 DEF HandlerFits, e
  <1>8. AddressesAreUnique'
    BY <1>2, <1>3, <1>5 DEF IInv, AddressesAreUnique, Taken
  <1>9. MissesAreCounted' /\ GuessLimit' /\ VerifiedByOwnCode'
    BY <1>3, <1>5 DEF IInv, MissesAreCounted, GuessLimit, VerifiedByOwnCode
  <1> QED
    BY <1>6, <1>7, <1>8, <1>9 DEF IInv

\* A wrong guess begins to be counted, on codes that are active.
LEMMA MissStep ==
  ASSUME IInv, NEW a \in Account, NEW e \in Email, NEW d \in Digits, MissCode(a, e, d)
  PROVE  IInv'
  <1> DEFINE C == Candidates(a, e)
  <1>1. C \subseteq DOMAIN codes /\ C \subseteq 1..MaxCodes
    BY CodeType DEF IInv, Candidates
  <1>2. \A i \in C : codes[i].consumed = Never /\ codes[i].attempts < MaxGuesses
    BY DEF MissCode, Candidates
  <1>3. /\ handler' = [at |-> "count", account |-> a, asked |-> C, left |-> C]
        /\ UNCHANGED <<accounts, codes, now, sent, missed, answer>>
    BY DEF MissCode
  <1> HIDE DEF C
  <1>4. handler' \in Handler
    BY <1>1, <1>3 DEF Handler
  <1>5. HandlerFits'
    BY <1>1, <1>2, <1>3 DEF HandlerFits
  <1> QED
    BY <1>3, <1>4, <1>5
    DEF IInv, TypeOK, AddressesAreUnique, MissesAreCounted, GuessLimit, VerifiedByOwnCode

\* One active code has one guess more.
LEMMA CountStep ==
  ASSUME IInv, NEW i \in DOMAIN codes, CountAttempt(i)
  PROVE  IInv'
  <1> DEFINE new == [codes[i] EXCEPT !.attempts = @ + 1]
  <1>1. TypeOK /\ handler.at = "count" /\ i \in handler.left /\ i \in handler.asked
        /\ codes[i].attempts < MaxGuesses
    BY DEF IInv, CountAttempt, HandlerFits
  <1>2. new \in Code /\ codes[i] \in Code /\ codes[i].attempts \in Nat
    BY <1>1, CodeType
  <1>3. /\ new.attempts = codes[i].attempts + 1 /\ new.account = codes[i].account
        /\ new.email = codes[i].email
        /\ new.consumed = codes[i].consumed /\ new.expires = codes[i].expires
    BY <1>2 DEF Code
  <1>4. UpdateCode(i, new) /\ handler' = [handler EXCEPT !.left = @ \ {i}]
        /\ UNCHANGED <<accounts, now, sent, missed, answer>>
    BY DEF CountAttempt
  <1> HIDE DEF new
  <1>5. /\ codes' \in Seq(Code) /\ Len(codes') = Len(codes) /\ DOMAIN codes' = DOMAIN codes
        /\ codes'[i] = new /\ \A j \in DOMAIN codes : j # i => codes'[j] = codes[j]
    BY <1>1, <1>2, <1>4, UpdatedCodes
  <1>6. /\ handler' \in Handler /\ handler'.at = "count"
        /\ handler'.asked = handler.asked /\ handler'.left = handler.left \ {i}
    <2>1. handler \in [at : {"count"}, account : Account, asked : SUBSET (1..MaxCodes),
                       left : SUBSET (1..MaxCodes)]
      BY <1>1 DEF TypeOK, Handler, Idle
    <2>2. /\ handler' \in [at : {"count"}, account : Account, asked : SUBSET (1..MaxCodes),
                          left : SUBSET (1..MaxCodes)]
          /\ handler'.asked = handler.asked /\ handler'.left = handler.left \ {i}
      BY <1>4, <2>1
    <2> QED
      BY <2>2 DEF Handler
  <1>7. TypeOK'
    BY <1>1, <1>4, <1>5, <1>6 DEF TypeOK
  <1>8. \A j \in DOMAIN codes : missed[j] <= codes[j].attempts /\ missed[j] \in Nat
    BY <1>1, CodeType DEF IInv, MissesAreCounted
  <1>9. HandlerFits'
    BY <1>1, <1>2, <1>3, <1>4, <1>5, <1>6, <1>8 DEF IInv, HandlerFits
  <1>10. MissesAreCounted' /\ GuessLimit' /\ AddressesAreUnique'
    BY <1>2, <1>3, <1>4, <1>5, <1>8
    DEF IInv, MissesAreCounted, GuessLimit, AddressesAreUnique
  <1>11. VerifiedByOwnCode'
    BY <1>3, <1>4, <1>5 DEF IInv, VerifiedByOwnCode
  <1> QED
    BY <1>7, <1>9, <1>10, <1>11 DEF IInv

\* The guess is answered once it was counted on every code it was asked of.
LEMMA AnswerStep ==
  ASSUME IInv, AnswerMiss
  PROVE  IInv'
  <1>1. /\ TypeOK /\ handler.at = "count" /\ handler.left = {} /\ handler' = Idle
        /\ UNCHANGED <<accounts, codes, now, sent>>
        /\ missed' = [i \in DOMAIN missed |->
                        IF i \in handler.asked THEN missed[i] + 1 ELSE missed[i]]
    BY DEF IInv, AnswerMiss, Counted
  <1>2. \A i \in DOMAIN codes :
          i \in DOMAIN missed /\ missed[i] \in Nat /\ codes[i].attempts \in 0..MaxGuesses
    <2>1. DOMAIN missed = DOMAIN codes
      BY <1>1 DEF TypeOK
    <2> QED
      BY <1>1, <2>1, CodeType
  <1>3. \A i \in DOMAIN codes :
          /\ i \in handler.asked => missed[i] < codes[i].attempts /\ codes[i].consumed = Never
          /\ missed[i] <= codes[i].attempts
    BY <1>1 DEF IInv, HandlerFits, MissesAreCounted
  <1>4. \A i \in DOMAIN codes : missed'[i] \in 0..MaxGuesses /\ missed'[i] <= codes[i].attempts
    BY <1>1, <1>2, <1>3, EmailConstants
  <1>5. missed' \in Seq(0..MaxGuesses) /\ Len(missed') = Len(codes)
    <2>1. DOMAIN missed = 1..Len(codes) /\ DOMAIN codes = 1..Len(codes) /\ Len(codes) \in Nat
      BY <1>1 DEF TypeOK
    <2>2. missed' \in [1..Len(codes) -> 0..MaxGuesses]
      BY <1>1, <1>4, <2>1
    <2> QED
      BY <2>1, <2>2, FunctionIsSeq
  <1>6. answer' \in Answer
    <2>1. handler.account \in Account
      BY <1>1 DEF TypeOK, Handler, Idle
    <2> QED
      BY <2>1 DEF AnswerMiss, Says, Answer
  <1>7. TypeOK'
    BY <1>1, <1>5, <1>6 DEF TypeOK, Handler
  <1>8. HandlerFits' /\ MissesAreCounted'
    BY <1>1, <1>4 DEF HandlerFits, MissesAreCounted, Idle
  <1>9. GuessLimit'
    BY <1>1, <1>2, <1>3 DEF IInv, GuessLimit
  <1>10. AddressesAreUnique' /\ VerifiedByOwnCode'
    BY <1>1 DEF IInv, AddressesAreUnique, VerifiedByOwnCode
  <1> QED
    BY <1>7, <1>8, <1>9, <1>10 DEF IInv

\* A code is used: it is the account's, has not expired, and has few misses.
LEMMA ConsumeStep ==
  ASSUME IInv, NEW a \in Account, NEW e \in Email, NEW d \in Digits, ConsumeCode(a, e, d)
  PROVE  IInv'
  <1>1. PICK i \in Matching(a, e, d) :
          CanAttempt(codes[i]) /\ UpdateCode(i, [codes[i] EXCEPT !.consumed = now])
    BY DEF ConsumeCode
  <1> DEFINE new == [codes[i] EXCEPT !.consumed = now]
  <1>2. /\ TypeOK /\ i \in DOMAIN codes /\ codes[i].account = a
        /\ codes[i].consumed = Never /\ codes[i].expires > now
        /\ codes[i].attempts < MaxAttempts
    BY <1>1 DEF IInv, Matching, Candidates, CanAttempt
  <1>3. new \in Code /\ codes[i] \in Code /\ now \in Nat /\ now # Never
    <2>1. new \in Code /\ codes[i] \in Code
      BY <1>2, CodeType
    <2>2. now \in Nat
      BY <1>2, EmailConstants DEF TypeOK, Time
    <2> QED
      BY <2>1, <2>2, EmailConstants
  <1>4. /\ new.attempts = codes[i].attempts /\ new.account = a
        /\ new.consumed = now /\ new.expires = codes[i].expires
    BY <1>2, <1>3 DEF Code
  <1>5. /\ UpdateCode(i, new) /\ handler' = [at |-> "mark", account |-> a]
        /\ UNCHANGED <<accounts, now, sent, missed, answer>>
    BY <1>1 DEF ConsumeCode
  <1> HIDE DEF new
  <1>6. /\ codes' \in Seq(Code) /\ Len(codes') = Len(codes) /\ DOMAIN codes' = DOMAIN codes
        /\ codes'[i] = new /\ \A j \in DOMAIN codes : j # i => codes'[j] = codes[j]
    BY <1>2, <1>3, <1>5, UpdatedCodes
  <1>7. TypeOK'
    <2>1. handler' \in Handler
      BY <1>5 DEF Handler
    <2> QED
      BY <1>2, <1>5, <1>6, <2>1 DEF TypeOK
  <1>8. codes[i].expires \in Nat /\ missed[i] \in Nat /\ codes[i].attempts \in Nat
    BY <1>2, CodeType
  <1>9. UsedBy(i, a)'
    BY <1>2, <1>3, <1>4, <1>6, <1>8 DEF UsedBy
  <1>10. HandlerFits'
    BY <1>2, <1>5, <1>6, <1>9 DEF HandlerFits
  <1>11. missed[i] < MaxAttempts
    BY <1>2, <1>8, EmailConstants DEF IInv, MissesAreCounted
  <1>12. MissesAreCounted' /\ GuessLimit' /\ AddressesAreUnique'
    BY <1>4, <1>5, <1>6, <1>11 DEF IInv, MissesAreCounted, GuessLimit, AddressesAreUnique
  <1>13. VerifiedByOwnCode'
    BY <1>2, <1>5, <1>6 DEF IInv, VerifiedByOwnCode
  <1> QED
    BY <1>7, <1>10, <1>12, <1>13 DEF IInv

\* The account whose code was used is marked.
LEMMA MarkStep ==
  ASSUME IInv, MarkVerified
  PROVE  IInv'
  <1> DEFINE a == handler.account
  <1>1. /\ TypeOK /\ handler.at = "mark" /\ handler' = Idle
        /\ accounts' = [accounts EXCEPT ![a].verified = TRUE]
        /\ UNCHANGED <<codes, now, sent, missed>>
    BY DEF IInv, MarkVerified
  <1>2. a \in Account
    BY <1>1 DEF TypeOK, Handler, Idle
  <1>3. \E i \in DOMAIN codes : UsedBy(i, a)
    BY <1>1 DEF IInv, HandlerFits
  <1>4. answer' \in Answer
    BY <1>2 DEF MarkVerified, Says, Answer
  <1> HIDE DEF a
  <1>5. /\ accounts' \in [Account -> [email : Email \cup {NoEmail}, verified : BOOLEAN]]
        /\ \A b \in Account : /\ accounts'[b].email = accounts[b].email
                              /\ b # a => accounts'[b] = accounts[b]
    BY <1>1, <1>2 DEF TypeOK
  <1>6. TypeOK'
    BY <1>1, <1>4, <1>5 DEF TypeOK, Handler
  <1>7. VerifiedByOwnCode'
    BY <1>1, <1>3, <1>5 DEF IInv, VerifiedByOwnCode, UsedBy
  <1>8. HandlerFits' /\ AddressesAreUnique' /\ MissesAreCounted' /\ GuessLimit'
    BY <1>1, <1>5
    DEF IInv, HandlerFits, Idle, AddressesAreUnique, MissesAreCounted, GuessLimit
  <1> QED
    BY <1>6, <1>7, <1>8 DEF IInv

\* Steps that touch neither table.
LEMMA OtherSteps ==
  ASSUME IInv,
         \/ \E a \in Account, e \in Email, d \in Digits : RefuseCode(a, e, d)
         \/ SetEmailRaises \/ SendEmail \/ Fail \/ Tick \/ UNCHANGED vars
  PROVE  IInv'
  <1>1. TypeOK /\ UNCHANGED <<accounts, codes, missed>>
    BY DEF IInv, RefuseCode, SetEmailRaises, SendEmail, Fail, Tick, vars
  <1>2. handler' \in {handler, Idle}
    BY DEF RefuseCode, SetEmailRaises, SendEmail, Fail, Tick, vars
  <1>3. now' \in Time
    BY <1>1, EmailConstants
    DEF TypeOK, Time, RefuseCode, SetEmailRaises, SendEmail, Fail, Tick, vars
  <1>4. handler.at \in {"set_email", "send"} =>
          handler.account \in Account /\ handler.code \in DOMAIN codes
          /\ handler.code \in 1..MaxCodes /\ codes[handler.code].email \in Email
    BY <1>1, CodeType DEF IInv, HandlerFits
  <1>5. answer' \in Answer \cup {None}
    BY <1>1, <1>4
    DEF TypeOK, RefuseCode, SetEmailRaises, SendEmail, Fail, Tick, vars, Says, Answer
  <1>6. sent' \in Mail \cup {None}
    BY <1>1, <1>4
    DEF TypeOK, RefuseCode, SetEmailRaises, SendEmail, Fail, Tick, vars, Mail
  <1>7. TypeOK'
    BY <1>1, <1>2, <1>3, <1>5, <1>6 DEF TypeOK, Handler
  <1>8. HandlerFits'
    BY <1>1, <1>2 DEF IInv, HandlerFits, Idle, UsedBy
  <1> QED
    BY <1>1, <1>7, <1>8
    DEF IInv, AddressesAreUnique, MissesAreCounted, GuessLimit, VerifiedByOwnCode

LEMMA InvStep == IInv /\ [Next]_vars => IInv'
  BY IssueStep, SetEmailStep, MissStep, CountStep, AnswerStep, ConsumeStep, MarkStep,
     OtherSteps
  DEF Next

-----------------------------------------------------------------------------
(* The theorems                                                            *)

\* The inductive invariant holds in every reachable state.
THEOREM Invariance == Spec => []IInv
  BY InvInit, InvStep, PTL DEF Spec

\* Every variable keeps its type.
THEOREM TypeCorrect == Spec => []TypeOK
  <1>1. IInv => TypeOK
    BY DEF IInv
  <1> QED
    BY <1>1, Invariance, PTL

\* No code is accepted once MaxAttempts wrong guesses were answered while it
\* was active.
THEOREM GuessesAreLimited == Spec => []GuessLimit
  <1>1. IInv => GuessLimit
    BY DEF IInv
  <1> QED
    BY <1>1, Invariance, PTL

\* An account is verified only by a code issued to it and used in time.
THEOREM VerifiedByOwner == Spec => []VerifiedByOwnCode
  <1>1. IInv => VerifiedByOwnCode
    BY DEF IInv
  <1> QED
    BY <1>1, Invariance, PTL

\* Mail goes only to an address that is the requester's and nobody else's.
THEOREM MailGoesToHolder == Spec => MailOnlyToHolder
  <1>1. IInv /\ [Next]_vars =>
          [sent' # sent =>
             LET a == codes[sent'.code].account
             IN /\ accounts[a].email = sent'.email
                /\ \A b \in Account \ {a} : accounts[b].email # sent'.email]_vars
    <2> SUFFICES ASSUME IInv, Next, sent' # sent
                 PROVE  /\ accounts[codes[sent'.code].account].email = sent'.email
                        /\ \A b \in Account \ {codes[sent'.code].account} :
                             accounts[b].email # sent'.email
      OBVIOUS
    <2>1. SendEmail
      BY DEF Next, IssueCode, RefuseCode, MissCode, ConsumeCode, SetEmail,
             SetEmailRaises, CountAttempt, AnswerMiss, MarkVerified, Fail, Tick
    <2>2. /\ sent'.code = handler.code /\ sent'.email = codes[handler.code].email
          /\ handler.at = "send"
      BY <2>1 DEF SendEmail
    <2>3. /\ handler.code \in DOMAIN codes
          /\ codes[handler.code].account = handler.account
          /\ accounts[handler.account].email = codes[handler.code].email
      BY <2>2 DEF IInv, HandlerFits
    <2>4. handler.account \in Account /\ codes[handler.code].email # NoEmail
      BY <2>3, CodeType, EmailConstants DEF IInv
    <2> QED
      BY <2>2, <2>3, <2>4 DEF IInv, AddressesAreUnique
  <1> QED
    BY <1>1, Invariance, PTL DEF Spec, MailOnlyToHolder

=============================================================================
