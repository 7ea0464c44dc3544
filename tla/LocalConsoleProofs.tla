-------------------------- MODULE LocalConsoleProofs --------------------------
(***************************************************************************)
(* Proofs about what the local console keeps in memory.                    *)
(*                                                                         *)
(* The first part is about secure unlock, for any number of challenge      *)
(* tokens and of unlocks under way in the shell, and any lifetimes: the    *)
(* types, that a review is not overtaken by a lock, and that every opening *)
(* of the window was earned by an OS authentication of its own.  The       *)
(* second is about the cost ledger, for any scenarios, providers, entries  *)
(* and numbers of items: the types, that totals and quality are those of   *)
(* the items, and that receipts are snapshots.  The two share no state.    *)
(***************************************************************************)
EXTENDS SecureUnlock, CostLedger, FoldLemmas, SequenceTheorems

\* A request that could still open the window carries a token that was earned
\* and not used.
PostsAreEarned ==
  \A p \in posts : p.proof /\ Issued(p.token) /\ ~challenges[p.token].consumed =>
    p.token \in earned

IInv == TypeOK /\ NoReviewAfterLock /\ PostsAreEarned

-----------------------------------------------------------------------------
(* What may happen to the challenge store                                  *)

\* A challenge in the store is a Challenge, and no Challenge is NoChallenge.
LEMMA ChallengeType ==
  ASSUME BackendTypeOK, NEW c \in Token
  PROVE  /\ Issued(c) => challenges[c] \in Challenge
         /\ challenges[c].left \in 0..Lifetime
         /\ challenges[c].left > 0 => Issued(c)
  <1>1. challenges[c] \in Challenge \cup {NoChallenge}
    BY DEF BackendTypeOK
  <1>2. 0 \in 0..Lifetime
    BY AuthorizationConstants
  <1> QED
    BY <1>1, <1>2 DEF Issued, Challenge, NoChallenge

\* Cleaning the store keeps an entry or removes it.
LEMMA CleanedStore ==
  ASSUME NEW store \in [Token -> Challenge \cup {NoChallenge}]
  PROVE  /\ Cleaned(store) \in [Token -> Challenge \cup {NoChallenge}]
         /\ \A c \in Token : Cleaned(store)[c] \in {store[c], NoChallenge}
  BY DEF Cleaned

\* Issuing a challenge: a new token gets a fresh one, the others keep theirs
\* or lose it.
LEMMA GetChallengeStep ==
  ASSUME BackendTypeOK, NEW c \in Token, GetChallenge(c)
  PROVE  /\ challenges' \in [Token -> Challenge \cup {NoChallenge}]
         /\ \A d \in Token \ {c} : challenges'[d] \in {challenges[d], NoChallenge}
  <1> DEFINE fresh == [left |-> Lifetime, consumed |-> FALSE]
             store == [challenges EXCEPT ![c] = fresh]
  <1>1. fresh \in Challenge
    BY AuthorizationConstants DEF Challenge
  <1>2. /\ store \in [Token -> Challenge \cup {NoChallenge}]
        /\ \A d \in Token \ {c} : store[d] = challenges[d]
    BY <1>1 DEF BackendTypeOK
  <1>3. challenges' = Cleaned(store)
    BY DEF GetChallenge
  <1> HIDE DEF store
  <1> QED
    BY <1>2, <1>3, CleanedStore

\* Spending a challenge that is in the store changes nothing else.
LEMMA SpentStore ==
  ASSUME BackendTypeOK, NEW c \in Token, Issued(c)
  PROVE  /\ Spent(c) \in [Token -> Challenge \cup {NoChallenge}]
         /\ Spent(c)[c].consumed
         /\ \A d \in Token \ {c} : Spent(c)[d] = challenges[d]
  <1>1. challenges[c] \in Challenge
    BY ChallengeType
  <1>2. [challenges[c] EXCEPT !.consumed = TRUE] \in Challenge
    BY <1>1 DEF Challenge
  <1>3. [challenges[c] EXCEPT !.consumed = TRUE].consumed
    BY <1>1 DEF Challenge
  <1> QED
    BY <1>2, <1>3 DEF Spent, BackendTypeOK

\* A tick counts entries down and neither adds, removes nor spends one.
LEMMA TickStep ==
  ASSUME BackendTypeOK, BackendTick
  PROVE  /\ challenges' \in [Token -> Challenge \cup {NoChallenge}]
         /\ window' \in 0..WindowLife /\ window' <= window
         /\ \A c \in Token : challenges'[c] # NoChallenge =>
              Issued(c) /\ challenges'[c].consumed = challenges[c].consumed
  <1>1. window' \in 0..WindowLife /\ window' <= window
    BY AuthorizationConstants DEF BackendTypeOK, BackendTick, Open
  <1>2. \A c \in Token : challenges'[c] = IF challenges[c].left > 0
          THEN [challenges[c] EXCEPT !.left = @ - 1] ELSE challenges[c]
    BY DEF BackendTick
  <1>3. ASSUME NEW c \in Token
        PROVE  /\ challenges'[c] \in Challenge \cup {NoChallenge}
               /\ challenges'[c] # NoChallenge =>
                    Issued(c) /\ challenges'[c].consumed = challenges[c].consumed
    <2>1. CASE challenges[c].left > 0
      <3>1. challenges[c] \in Challenge /\ Issued(c)
        BY <2>1, ChallengeType
      <3>2. challenges[c].left - 1 \in 0..Lifetime
        BY <2>1, ChallengeType, AuthorizationConstants
      <3>3. challenges'[c] = [challenges[c] EXCEPT !.left = challenges[c].left - 1]
        BY <1>2, <2>1
      <3> QED
        BY <3>1, <3>2, <3>3 DEF Challenge
    <2>2. CASE ~(challenges[c].left > 0)
      BY <1>2, <2>2 DEF BackendTypeOK, Issued
    <2> QED
      BY <2>1, <2>2
  <1>4. challenges' = [c \in Token |-> challenges'[c]]
    BY DEF BackendTick
  <1> QED
    BY <1>1, <1>3, <1>4

-----------------------------------------------------------------------------
(* The steps                                                               *)

LEMMA InvInit == Init => IInv
  <1> SUFFICES ASSUME Init PROVE IInv
    OBVIOUS
  <1>1. TypeOK
    <2>1. 0 \in 0..WindowLife
      BY AuthorizationConstants
    <2>2. challenges \in [Token -> Challenge \cup {NoChallenge}]
      BY DEF Init, BackendInit
    <2>3. BackendTypeOK
      BY <2>1, <2>2 DEF Init, BackendInit, BackendTypeOK
    <2>4. task \in [Task -> {"idle", "dialog", "fetch", "wait"}]
      BY DEF Init
    <2> QED
      BY <2>3, <2>4 DEF Init, TypeOK
  <1>2. NoReviewAfterLock
    BY DEF Init, BackendInit, NoReviewAfterLock, Free
  <1> QED
    BY <1>1, <1>2 DEF IInv, Init, PostsAreEarned

\* Requests to the backend other than those about challenges: the loop gets
\* busy, free, or is left alone, the window is set to a length it may have.
LEMMA LoopSteps ==
  ASSUME IInv,
         (Lock \/ BeginReview \/ BeginSign \/ EndRequest \/ UnlockInsecure)
  PROVE  BackendTypeOK' /\ NoReviewAfterLock' /\ UNCHANGED challenges
  <1>1. /\ WindowLife \in 0..WindowLife /\ 0 \in 0..WindowLife
        /\ BackendTypeOK /\ NoReviewAfterLock
    BY AuthorizationConstants DEF IInv, TypeOK
  <1>2. UNCHANGED <<insecure, up, challenges>> /\ window' \in 0..WindowLife
    BY <1>1 DEF Lock, BeginReview, BeginSign, EndRequest, UnlockInsecure,
                BackendTypeOK
  <1>3. /\ loop' \in Busy \cup {Free}
        /\ loop'.busy = "review" /\ loop'.open => ~loop'.locked
    <2>1. CASE Lock
      BY <1>1, <2>1 DEF Lock, Serving, Free
    <2>2. CASE BeginReview
      BY <2>2 DEF BeginReview, Busy, Open
    <2>3. CASE BeginSign
      BY <2>3 DEF BeginSign, Busy, Open
    <2>4. CASE EndRequest
      BY <2>4 DEF EndRequest, Free
    <2>5. CASE UnlockInsecure
      BY <1>1, <2>5 DEF UnlockInsecure, BackendTypeOK, NoReviewAfterLock
    <2> QED
      BY <2>1, <2>2, <2>3, <2>4, <2>5
  <1> QED
    BY <1>1, <1>2, <1>3 DEF BackendTypeOK, NoReviewAfterLock

\* A challenge is issued, or the store is cleaned: no request on its way
\* carries the new token, and an entry that is removed opens nothing.
LEMMA ChallengeSteps ==
  ASSUME IInv, NEW c \in Token, Unseen(c), GetChallenge(c)
  PROVE  /\ BackendTypeOK' /\ NoReviewAfterLock'
         /\ \A p \in posts : p.proof /\ challenges'[p.token] # NoChallenge
              /\ ~challenges'[p.token].consumed => p.token \in earned
  <1>1. /\ challenges' \in [Token -> Challenge \cup {NoChallenge}]
        /\ \A d \in Token \ {c} : challenges'[d] \in {challenges[d], NoChallenge}
    BY GetChallengeStep DEF IInv, TypeOK
  <1>2. UNCHANGED <<insecure, up, window, loop>>
    BY DEF GetChallenge
  <1>3. \A p \in posts : p.token \in Token \ {c}
    BY DEF Unseen, IInv, TypeOK, Post
  <1> QED
    BY <1>1, <1>2, <1>3
    DEF IInv, TypeOK, BackendTypeOK, NoReviewAfterLock, PostsAreEarned, Issued

\* The challenge that arrives was earned by the task's authentication.
LEMMA FetchStep ==
  ASSUME IInv, NEW t \in Task, NEW c \in Token, FetchChallenge(t, c)
  PROVE  IInv'
  <1> DEFINE q == [token |-> c, proof |-> TRUE]
  <1>1. /\ BackendTypeOK' /\ NoReviewAfterLock'
        /\ \A p \in posts : p.proof /\ challenges'[p.token] # NoChallenge
             /\ ~challenges'[p.token].consumed => p.token \in earned
    BY ChallengeSteps DEF FetchChallenge
  <1>2. /\ task' = [task EXCEPT ![t] = "wait"] /\ posts' = posts \cup {q}
        /\ earned' = (earned \ {d \in Token : challenges'[d] = NoChallenge}) \cup {c}
        /\ lockSent' = lockSent
    BY DEF FetchChallenge, Goes
  <1>3. TypeOK'
    <2>1. q \in Post
      BY DEF Post
    <2>2. task' \in [Task -> {"idle", "dialog", "fetch", "wait"}]
      BY <1>2 DEF IInv, TypeOK
    <2>3. posts' \subseteq Post /\ earned' \subseteq Token /\ lockSent' \in BOOLEAN
      BY <1>2, <2>1 DEF IInv, TypeOK
    <2> QED
      BY <1>1, <2>2, <2>3 DEF TypeOK
  <1>4. \A p \in posts' : p.proof /\ challenges'[p.token] # NoChallenge
          /\ ~challenges'[p.token].consumed => p.token \in earned'
    BY <1>1, <1>2
  <1> QED
    BY <1>1, <1>3, <1>4 DEF IInv, PostsAreEarned, Issued

\* Somebody else fetches a challenge or asks for the status.
LEMMA OtherRequestStep ==
  ASSUME IInv, OtherRequest
  PROVE  IInv'
  <1>1. /\ task' = task /\ posts' = posts /\ lockSent' = lockSent
        /\ earned' = earned \ {d \in Token : challenges'[d] = NoChallenge}
    BY DEF OtherRequest
  <1>2. /\ BackendTypeOK' /\ NoReviewAfterLock'
        /\ \A p \in posts : p.proof /\ challenges'[p.token] # NoChallenge
             /\ ~challenges'[p.token].consumed => p.token \in earned
    <2>1. CASE \E c \in Token : Unseen(c) /\ GetChallenge(c)
      BY <2>1, ChallengeSteps
    <2>2. CASE GetStatus
      <3>1. /\ challenges' \in [Token -> Challenge \cup {NoChallenge}]
            /\ \A d \in Token : challenges'[d] \in {challenges[d], NoChallenge}
        BY <2>2, CleanedStore DEF GetStatus, IInv, TypeOK, BackendTypeOK
      <3>2. UNCHANGED <<insecure, up, window, loop>>
        BY <2>2 DEF GetStatus
      <3> QED
        BY <3>1, <3>2
        DEF IInv, TypeOK, BackendTypeOK, NoReviewAfterLock, PostsAreEarned, Issued, Post
    <2> QED
      BY <2>1, <2>2 DEF OtherRequest
  <1>3. TypeOK'
    BY <1>1, <1>2 DEF IInv, TypeOK
  <1>4. \A p \in posts' : p.proof /\ challenges'[p.token] # NoChallenge
          /\ ~challenges'[p.token].consumed => p.token \in earned'
    BY <1>1, <1>2 DEF IInv, TypeOK, Post
  <1> QED
    BY <1>2, <1>3, <1>4 DEF IInv, PostsAreEarned, Issued

\* A request that opens the window is one of the shell's, and earned.
LEMMA OpensByPost ==
  ASSUME IInv, NEW p \in posts \cup [token : Token, proof : {FALSE}],
         Unlock(p.token, p.proof)
  PROVE  p.token \in Token /\ p.token \in earned
  <1>1. p \in posts /\ p.proof /\ p.token \in Token
    BY DEF Unlock, ProofAccepted, IInv, TypeOK, Post
  <1> QED
    BY <1>1 DEF Unlock, Usable, IInv, PostsAreEarned

\* An unlock request is served: it spends its challenge or is refused.
LEMMA ServeUnlockStep ==
  ASSUME IInv, ServeUnlock
  PROVE  IInv'
  <1>1. /\ WindowLife \in 0..WindowLife /\ BackendTypeOK
        /\ task' = task /\ posts' = posts /\ lockSent' = lockSent
    BY AuthorizationConstants DEF ServeUnlock, IInv, TypeOK
  <1>2. PICK p \in posts \cup [token : Token, proof : {FALSE}] :
          \/ Unlock(p.token, p.proof) /\ earned' = earned \ {p.token}
          \/ RefuseUnlock(p.token, p.proof) /\ earned' = earned
    BY DEF ServeUnlock
  <1>3. p.token \in Token
    BY DEF IInv, TypeOK, Post
  <1>4. CASE Unlock(p.token, p.proof) /\ earned' = earned \ {p.token}
    <2>1. challenges' = Spent(p.token) /\ Issued(p.token)
      BY <1>4 DEF Unlock, Usable
    <2>2. UNCHANGED <<insecure, up, loop>> /\ window' = WindowLife
      BY <1>4 DEF Unlock
    <2>3. TypeOK' /\ NoReviewAfterLock'
      BY <1>1, <1>3, <1>4, <2>1, <2>2, SpentStore
      DEF IInv, TypeOK, BackendTypeOK, NoReviewAfterLock
    <2>4. PostsAreEarned'
      BY <1>1, <1>3, <1>4, <2>1, SpentStore DEF IInv, TypeOK, Post, PostsAreEarned, Issued
    <2> QED
      BY <2>3, <2>4 DEF IInv
  <1>5. CASE RefuseUnlock(p.token, p.proof) /\ earned' = earned
    <2>1. UNCHANGED <<insecure, up, window, loop>>
      BY <1>5 DEF RefuseUnlock
    <2>2. CASE Issued(p.token) /\ challenges' = Spent(p.token)
      <3>1. TypeOK' /\ NoReviewAfterLock'
        BY <1>1, <1>3, <1>5, <2>1, <2>2, SpentStore
        DEF IInv, TypeOK, BackendTypeOK, NoReviewAfterLock
      <3>2. PostsAreEarned'
        BY <1>1, <1>3, <1>5, <2>2, SpentStore DEF IInv, TypeOK, Post, PostsAreEarned, Issued
      <3> QED
        BY <3>1, <3>2 DEF IInv
    <2>3. CASE challenges' = challenges
      BY <1>1, <1>5, <2>1, <2>3
      DEF IInv, TypeOK, BackendTypeOK, NoReviewAfterLock, PostsAreEarned, Issued
    <2> QED
      BY <1>5, <2>2, <2>3 DEF RefuseUnlock
  <1> QED
    BY <1>2, <1>4, <1>5

\* A process starts or ends: what is on its way proves nothing, or there is no
\* challenge it could use.
LEMMA ProcessSteps ==
  ASSUME IInv, (LaunchBackend \/ Exits)
  PROVE  IInv'
  <1>1. CASE LaunchBackend
    <2>1. \A p \in posts : /\ [p EXCEPT !.proof = FALSE] \in Post
                           /\ ~[p EXCEPT !.proof = FALSE].proof
      BY DEF IInv, TypeOK, Post
    <2>2. posts' \subseteq Post /\ \A p \in posts' : ~p.proof
      BY <1>1, <2>1 DEF LaunchBackend
    <2>3. TypeOK' /\ NoReviewAfterLock'
      BY <1>1, <2>2
      DEF LaunchBackend, IInv, TypeOK, BackendTypeOK, NoReviewAfterLock
    <2> QED
      BY <2>2, <2>3 DEF IInv, PostsAreEarned
  <1>2. CASE Exits
    <2>1. 0 \in 0..WindowLife
      BY AuthorizationConstants
    <2>2. TypeOK' /\ NoReviewAfterLock'
      BY <1>2, <2>1 DEF Exits, BackendExits, IInv, TypeOK, BackendTypeOK,
                        NoReviewAfterLock, Free
    <2>3. PostsAreEarned'
      BY <1>2 DEF Exits, BackendExits, IInv, TypeOK, Post, PostsAreEarned, Issued
    <2> QED
      BY <2>2, <2>3 DEF IInv
  <1> QED
    BY <1>1, <1>2

\* Steps of the shell and the network that do not reach the backend.
LEMMA ShellSteps ==
  ASSUME IInv,
         \/ \E t \in Task : RequestUnlock(t) \/ Authenticate(t) \/ EndTask(t)
         \/ \E p \in posts : LosePost(p)
         \/ RequestLock \/ LoseLock
         \/ UNCHANGED vars
  PROVE  IInv'
  <1>1. UNCHANGED <<backend, earned>> /\ posts' \subseteq posts
    BY DEF RequestUnlock, Authenticate, EndTask, LosePost, RequestLock, LoseLock,
           vars, shell
  <1>2. /\ task' \in [Task -> {"idle", "dialog", "fetch", "wait"}]
        /\ lockSent' \in BOOLEAN
    BY DEF RequestUnlock, Authenticate, EndTask, LosePost, RequestLock, LoseLock,
           vars, shell, Goes, IInv, TypeOK
  <1> QED
    BY <1>1, <1>2
    DEF IInv, TypeOK, backend, BackendTypeOK, NoReviewAfterLock, PostsAreEarned, Issued

\* Requests that take the loop, and the end of one.
LEMMA ServeSteps ==
  ASSUME IInv, (ServeLock \/ Review \/ ServeInsecure)
  PROVE  IInv'
  <1>1. BackendTypeOK' /\ NoReviewAfterLock' /\ UNCHANGED challenges
    BY LoopSteps DEF ServeLock, Review, ServeInsecure
  <1>2. UNCHANGED <<task, posts, earned>> /\ lockSent' \in BOOLEAN
    BY DEF ServeLock, Review, ServeInsecure, shell, IInv, TypeOK
  <1> QED
    BY <1>1, <1>2 DEF IInv, TypeOK, PostsAreEarned, Issued

LEMMA TimeStep ==
  ASSUME IInv, Tick
  PROVE  IInv'
  <1>1. /\ challenges' \in [Token -> Challenge \cup {NoChallenge}]
        /\ window' \in 0..WindowLife
        /\ \A c \in Token : challenges'[c] # NoChallenge =>
             Issued(c) /\ challenges'[c].consumed = challenges[c].consumed
    BY TickStep DEF Tick, IInv, TypeOK
  <1>2. UNCHANGED <<insecure, up, loop, task, posts, lockSent, earned>>
    BY DEF Tick, BackendTick, shell
  <1>3. TypeOK' /\ NoReviewAfterLock'
    BY <1>1, <1>2 DEF IInv, TypeOK, BackendTypeOK, NoReviewAfterLock
  <1>4. PostsAreEarned'
    BY <1>1, <1>2 DEF IInv, TypeOK, Post, PostsAreEarned, Issued
  <1> QED
    BY <1>3, <1>4 DEF IInv

LEMMA InvStep == IInv /\ [Next]_vars => IInv'
  BY FetchStep, OtherRequestStep, ServeUnlockStep, ProcessSteps, ShellSteps,
     ServeSteps, TimeStep
  DEF Next

-----------------------------------------------------------------------------
(* The theorems about secure unlock                                        *)

\* The inductive invariant holds in every reachable state.
THEOREM Invariance == Spec => []IInv
  BY InvInit, InvStep, PTL DEF Spec

\* Every variable keeps its type.
THEOREM TypeCorrect == Spec => []TypeOK
  <1>1. IInv => TypeOK
    BY DEF IInv
  <1> QED
    BY <1>1, Invariance, PTL

\* Nobody locks the console between a review's look at the window and its
\* answer.
THEOREM ReviewsAreNotOvertaken == Spec => []NoReviewAfterLock
  <1>1. IInv => NoReviewAfterLock
    BY DEF IInv
  <1> QED
    BY <1>1, Invariance, PTL

\* However many unlocks run, fail, are lost, repeated or outlive a process,
\* outside development mode each opening uses up one authentication.
THEOREM OpeningsAreEarned == Spec => EveryOpeningIsEarned
  <1>1. IInv /\ [Next]_vars =>
          [~insecure /\ window' > window =>
             \E c \in earned : earned' = earned \ {c}]_vars
    <2> SUFFICES ASSUME IInv, Next, ~insecure, window' > window
                 PROVE  \E c \in earned : earned' = earned \ {c}
      OBVIOUS
    <2>1. window \in Nat /\ window' \in Nat
      BY InvStep, AuthorizationConstants DEF IInv, TypeOK, BackendTypeOK
    <2>2. ServeUnlock
      <3>1. ~(window' <= window)
        BY <2>1
      <3>2. ~Tick
        BY <3>1, TickStep DEF Tick, IInv, TypeOK
      <3>3. window' # window /\ window' # 0
        BY <2>1
      <3>4. ~Exits /\ ~ServeLock /\ ~ServeInsecure /\ ~Review /\ ~OtherRequest
        BY <3>3 DEF Exits, BackendExits, ServeLock, Lock, ServeInsecure, UnlockInsecure,
             Review, BeginReview, BeginSign, EndRequest,
             OtherRequest, GetChallenge, GetStatus
      <3>5. ~LaunchBackend /\ ~RequestLock /\ ~LoseLock
            /\ ~(\E p \in posts : LosePost(p))
            /\ ~(\E t \in Task : RequestUnlock(t) \/ Authenticate(t) \/ EndTask(t))
        BY <3>3 DEF LaunchBackend, RequestLock, LoseLock, LosePost, RequestUnlock,
             Authenticate, EndTask, backend
      <3>6. ~(\E t \in Task : \E c \in Token : FetchChallenge(t, c))
        BY <3>3 DEF FetchChallenge, GetChallenge
      <3> QED
        BY <3>2, <3>4, <3>5, <3>6 DEF Next
    <2>3. PICK p \in posts \cup [token : Token, proof : {FALSE}] :
            \/ Unlock(p.token, p.proof) /\ earned' = earned \ {p.token}
            \/ RefuseUnlock(p.token, p.proof) /\ earned' = earned
      BY <2>2 DEF ServeUnlock
    <2>4. Unlock(p.token, p.proof) /\ earned' = earned \ {p.token}
      BY <2>1, <2>3 DEF RefuseUnlock
    <2> QED
      BY <2>4, OpensByPost
  <1> QED
    BY <1>1, Invariance, PTL DEF Spec, EveryOpeningIsEarned

-----------------------------------------------------------------------------
(* What line items cost                                                    *)

\* An entry makes a line item.
LEMMA ItemFits == \A e \in Entry : ItemOf(e) \in Item
  <1> SUFFICES ASSUME NEW e \in Entry PROVE ItemOf(e) \in Item
    OBVIOUS
  <1>1. e \in [provider : Provider, frequency : Frequency, quantity : Nat,
               unit_price : Nat, confidence : Confidence, risk : Risk]
    BY LedgerConstants
  <1>2. e.quantity * e.unit_price \in Nat
    BY <1>1
  <1> QED
    BY <1>1, <1>2 DEF ItemOf, Item

\* Rows and totals that are there are not the ones that stand for none.
LEMMA Present ==
  /\ \A sc \in ScenarioRow : sc # NoScenario
  /\ \A t \in Priced : t # NoTotals
  <1>1. \A sc \in ScenarioRow : sc # NoScenario
    BY DEF ScenarioRow, NoScenario
  <1>2. \A t \in Priced : t # NoTotals
    BY DEF Priced, NoTotals
  <1> QED
    BY <1>1, <1>2

\* What the items with these numbers cost together.
Amounts(items, S) == MapThenSumSet(LAMBDA i : items[i].amount, S)

\* The true totals are three such costs.
LEMMA CostIsAmounts ==
  ASSUME NEW items
  PROVE  TrueTotals(items) =
           [monthly |-> Amounts(items, {i \in DOMAIN items : items[i].frequency # OneTime}),
            oneTime |-> Amounts(items, {i \in DOMAIN items : items[i].frequency = OneTime}),
            all     |-> Amounts(items, {i \in DOMAIN items : TRUE})]
  BY Zenon DEF TrueTotals, Cost, Amounts

\* It is a sum, in whatever order the amounts are added.
LEMMA AmountsAreSum ==
  ASSUME NEW items, NEW R, IsFiniteSet(R), \A i \in R : items[i].amount \in Nat
  PROVE  Amounts(items, R) = SumOver([i \in R |-> items[i].amount], R)
  <1> DEFINE w == [i \in R |-> items[i].amount]
             Eq(h) == h = [s \in SUBSET R |->
                             IF s = {} THEN 0
                             ELSE items[CHOOSE x \in s : TRUE].amount
                                  + h[s \ {CHOOSE x \in s : TRUE}]]
             iter == CHOOSE h : Eq(h)
  <1>1. Amounts(items, R) = iter[R]
    BY Zenon DEF Amounts, MapThenSumSet, MapThenFoldSet
  <1>2. \A x \in R : w[x] \in Nat
    OBVIOUS
  <1>3. \A h : Picked(h, w, R) <=> Eq(h)
    <2>1. \A s \in SUBSET R : s # {} => (CHOOSE x \in s : TRUE) \in R
      OBVIOUS
    <2>2. \A x \in R : w[x] = items[x].amount
      OBVIOUS
    <2> HIDE DEF w
    <2> QED
      BY <2>1, <2>2 DEF Picked
  <1> HIDE DEF w
  <1>4. \E h : Picked(h, w, R)
    BY <1>2, PickedExists
  <1> HIDE DEF Eq
  <1>5. Picked(iter, w, R)
    BY <1>3, <1>4
  <1>6. iter[R] = SumOver(w, R)
    <2> HIDE DEF iter
    <2> QED
      BY <1>2, <1>5, PickedIsSum
  <1> QED
    BY <1>1, <1>6 DEF w

\* A loop that adds, in the rounds in D, what the item costs, ends with what the
\* items in D cost together.
LEMMA LoopAddsAmounts ==
  ASSUME NEW items \in Seq(Item), NEW D \in SUBSET (DOMAIN items), NEW v, v[0] = 0,
         \A k \in DOMAIN items : v[k] = v[k - 1] + (IF k \in D THEN items[k].amount ELSE 0)
  PROVE  v[Len(items)] = Amounts(items, D)
  <1> DEFINE n == Len(items)
             w == [i \in 1..n |-> items[i].amount]
             z == [i \in D |-> items[i].amount]
  <1>1. /\ n \in Nat /\ DOMAIN items = 1..n /\ \A i \in 1..n : items[i].amount \in Nat
    <2>1. n \in Nat /\ DOMAIN items = 1..n /\ \A i \in 1..n : items[i] \in Item
      OBVIOUS
    <2> QED
      BY <2>1 DEF Item
  <1>2. /\ \A i \in 1..n : w[i] = items[i].amount
        /\ \A i \in D : z[i] = items[i].amount
    OBVIOUS
  <1> HIDE DEF n, w
  <1>3. D \in SUBSET (1..n) /\ IsFiniteSet(D) /\ \A i \in D : items[i].amount \in Nat
    <2>1. D \in SUBSET (1..n) /\ IsFiniteSet(1..n)
      BY <1>1, FS_Interval
    <2> QED
      BY <1>1, <2>1, FS_Subset
  <1>4. Amounts(items, D) = SumOver(z, D)
    BY <1>3, AmountsAreSum
  <1> HIDE DEF z
  <1>5. SumOver(z, D) = SumOver(w, D)
    <2>1. \A i \in D : z[i] \in Nat /\ z[i] = w[i]
      BY <1>2, <1>3
    <2> QED
      BY <1>3, <2>1, SumSame
  <1>6. \A k \in 1..n : v[k] = v[k - 1] + (IF k \in D THEN w[k] ELSE 0)
    BY <1>1, <1>2
  <1>7. v[n] = SumOver(w, D)
    <2>1. \A k \in 1..n : w[k] \in Nat
      BY <1>1, <1>2
    <2> QED
      BY <1>1, <1>3, <1>6, <2>1, LoopAddsUp
  <1> QED
    BY <1>4, <1>5, <1>7 DEF n

-----------------------------------------------------------------------------
(* The loops of the calculator                                             *)

\* The loop that sums up the totals.
LEMMA TotalsLoop ==
  ASSUME NEW items \in Seq(Item)
  PROVE  \E v : /\ v[0] = Zero
                /\ \A k \in 1..Len(items) : v[k] = Counted(v[k - 1], items[k])
                /\ \A k \in 0..Len(items) : v[k] \in Priced
                /\ v[Len(items)] = FoldLeft(Counted, Zero, items)
  <1> DEFINE n == Len(items)
             D == DOMAIN items
             step == [t \in Priced |-> [i \in Item |-> Counted(t, i)]]
             Eq(h) == h = [s \in SUBSET D |-> IF s = {} THEN Zero
                                             ELSE Counted(h[s \ {Max(s)}], items[Max(s)])]
             iter == CHOOSE h : Eq(h)
  <1>1. FoldLeft(Counted, Zero, items) = iter[D]
    BY Zenon DEF FoldLeft, MapThenFoldSet
  <1>2. Zero \in Priced /\ \A t \in Priced, i \in Item : Counted(t, i) \in Priced
    BY DEF Zero, Counted, Priced, Item
  <1>3. n \in Nat /\ D = 1..n /\ \A k \in D : items[k] \in Item
    OBVIOUS
  <1> HIDE DEF n, D
  <1>4. \E h : Eq(h)
    <2>1. /\ step \in [Priced -> [Item -> Priced]]
          /\ \A t \in Priced, i \in Item : step[t][i] = Counted(t, i)
      BY <1>2
    <2> HIDE DEF step
    <2>2. /\ \E h \in [SUBSET D -> Priced] : Folds(h, Zero, step, items)
          /\ \A s \in SUBSET D : s # {} => Max(s) \in s
      BY <1>2, <2>1, FoldsExists DEF D
    <2>3. PICK h \in [SUBSET D -> Priced] : Folds(h, Zero, step, items)
      BY <2>2
    <2>4. \A s \in SUBSET D : s # {} =>
            step[h[s \ {Max(s)}]][items[Max(s)]] = Counted(h[s \ {Max(s)}], items[Max(s)])
      BY <1>3, <2>1, <2>2
    <2>5. h = [s \in SUBSET D |-> IF s = {} THEN Zero
                                  ELSE step[h[s \ {Max(s)}]][items[Max(s)]]]
      BY <2>3 DEF Folds, D
    <2>6. Eq(h)
      BY <2>4, <2>5
    <2> QED
      BY <2>6
  <1>5. \A s \in SUBSET D :
          iter[s] = IF s = {} THEN Zero ELSE Counted(iter[s \ {Max(s)}], items[Max(s)])
    <2>1. Eq(iter)
      BY <1>4
    <2> HIDE DEF iter
    <2> QED
      BY <2>1
  <1> HIDE DEF iter
  <1>6. PICK v : Rounds(v, iter, items)
    BY RoundsExist
  <1>7. v[0] = Zero
    <2>1. {} \in SUBSET D
      OBVIOUS
    <2> QED
      BY <1>5, <1>6, <2>1 DEF Rounds
  <1>8. ASSUME NEW k \in 1..n PROVE v[k] = Counted(v[k - 1], items[k])
    <2>1. iter[1..k] = Counted(iter[(1..k) \ {k}], items[k])
      BY <1>5, <1>6 DEF Rounds, n, D
    <2> QED
      BY <1>6, <2>1 DEF Rounds, n
  <1>9. \A k \in 0..n : v[k] \in Priced
    BY <1>2, <1>3, <1>7, <1>8, LoopStays
  <1>10. v[n] = FoldLeft(Counted, Zero, items)
    BY <1>1, <1>6 DEF Rounds, n, D
  <1> QED
    BY <1>7, <1>8, <1>9, <1>10 DEF n

\* The larger of two numbers.
LEMMA Larger ==
  ASSUME NEW a \in Int, NEW b \in Int
  PROVE  Max({a, b}) \in {a, b} /\ Max({a, b}) >= a /\ Max({a, b}) >= b
  <1> DEFINE S == {a, b}
  <1>1. a \in S /\ b \in S /\ S \in SUBSET Int /\ S # {} /\ IsFiniteSet(S)
    <2>1. IsFiniteSet({a}) /\ S = {a} \cup {b}
      BY FS_Singleton
    <2>2. IsFiniteSet({a} \cup {b})
      BY <2>1, FS_AddElement
    <2> QED
      BY <2>1, <2>2
  <1> HIDE DEF S
  <1>2. Max(S) \in S /\ \A y \in S : Max(S) >= y
    BY <1>1, MaxIsLargest
  <1> QED
    BY <1>1, <1>2 DEF S

\* How sure a scenario is, and how risky.
QualityType == [confidence : Confidence, risk : Risk]

\* One item can make a scenario look worse, and never better than that item.
LEMMA WorseIsWorse ==
  ASSUME NEW q \in QualityType, NEW item \in Item
  PROVE  /\ Worse(q, item) \in QualityType
         /\ Worse(q, item).confidence >= q.confidence
         /\ Worse(q, item).confidence >= item.confidence
         /\ Worse(q, item).risk >= q.risk
         /\ Worse(q, item).risk >= item.risk
  <1>1. /\ q.confidence \in Confidence /\ item.confidence \in Confidence
        /\ q.risk \in Risk /\ item.risk \in Risk
    BY DEF QualityType, Item
  <1>2. Confidence \subseteq Int /\ Risk \subseteq Int
    BY DEF Confidence, Risk
  <1> DEFINE c == Max({q.confidence, item.confidence})
             r == Max({q.risk, item.risk})
  <1>3. c \in {q.confidence, item.confidence} /\ c >= q.confidence /\ c >= item.confidence
    BY <1>1, <1>2, Larger
  <1>4. r \in {q.risk, item.risk} /\ r >= q.risk /\ r >= item.risk
    BY <1>1, <1>2, Larger
  <1>5. Worse(q, item) = [confidence |-> c, risk |-> r]
    BY DEF Worse
  <1> HIDE DEF c, r
  <1> QED
    BY <1>1, <1>3, <1>4, <1>5 DEF QualityType

\* The loop that looks for the worst quality, from the one it starts with.
LEMMA QualityLoop ==
  ASSUME NEW items \in Seq(Item), NEW start \in QualityType
  PROVE  \E v : /\ v[0] = start
                /\ \A k \in 1..Len(items) : v[k] = Worse(v[k - 1], items[k])
                /\ \A k \in 0..Len(items) : v[k] \in QualityType
                /\ v[Len(items)] = FoldLeft(Worse, start, items)
  <1> DEFINE n == Len(items)
             D == DOMAIN items
             step == [t \in QualityType |-> [i \in Item |-> Worse(t, i)]]
             Eq(h) == h = [s \in SUBSET D |-> IF s = {} THEN start
                                             ELSE Worse(h[s \ {Max(s)}], items[Max(s)])]
             iter == CHOOSE h : Eq(h)
  <1>1. FoldLeft(Worse, start, items) = iter[D]
    BY Zenon DEF FoldLeft, MapThenFoldSet
  <1>2. start \in QualityType /\ \A t \in QualityType, i \in Item : Worse(t, i) \in QualityType
    BY WorseIsWorse
  <1>3. n \in Nat /\ D = 1..n /\ \A k \in D : items[k] \in Item
    OBVIOUS
  <1> HIDE DEF n, D
  <1>4. \E h : Eq(h)
    <2>1. /\ step \in [QualityType -> [Item -> QualityType]]
          /\ \A t \in QualityType, i \in Item : step[t][i] = Worse(t, i)
      BY <1>2
    <2> HIDE DEF step
    <2>2. /\ \E h \in [SUBSET D -> QualityType] : Folds(h, start, step, items)
          /\ \A s \in SUBSET D : s # {} => Max(s) \in s
      BY <1>2, <2>1, FoldsExists DEF D
    <2>3. PICK h \in [SUBSET D -> QualityType] : Folds(h, start, step, items)
      BY <2>2
    <2>4. \A s \in SUBSET D : s # {} =>
            step[h[s \ {Max(s)}]][items[Max(s)]] = Worse(h[s \ {Max(s)}], items[Max(s)])
      BY <1>3, <2>1, <2>2
    <2>5. h = [s \in SUBSET D |-> IF s = {} THEN start
                                  ELSE step[h[s \ {Max(s)}]][items[Max(s)]]]
      BY <2>3 DEF Folds, D
    <2>6. Eq(h)
      BY <2>4, <2>5
    <2> QED
      BY <2>6
  <1>5. \A s \in SUBSET D :
          iter[s] = IF s = {} THEN start ELSE Worse(iter[s \ {Max(s)}], items[Max(s)])
    <2>1. Eq(iter)
      BY <1>4
    <2> HIDE DEF iter
    <2> QED
      BY <2>1
  <1> HIDE DEF iter
  <1>6. PICK v : Rounds(v, iter, items)
    BY RoundsExist
  <1>7. v[0] = start
    <2>1. {} \in SUBSET D
      OBVIOUS
    <2> QED
      BY <1>5, <1>6, <2>1 DEF Rounds
  <1>8. ASSUME NEW k \in 1..n PROVE v[k] = Worse(v[k - 1], items[k])
    <2>1. iter[1..k] = Worse(iter[(1..k) \ {k}], items[k])
      BY <1>5, <1>6 DEF Rounds, n, D
    <2> QED
      BY <1>6, <2>1 DEF Rounds, n
  <1>9. \A k \in 0..n : v[k] \in QualityType
    BY <1>2, <1>3, <1>7, <1>8, LoopStays
  <1>10. v[n] = FoldLeft(Worse, start, items)
    BY <1>1, <1>6 DEF Rounds, n, D
  <1> QED
    BY <1>7, <1>8, <1>9, <1>10 DEF n

\* What each provider costs; at first nothing.
ByProvider == [Provider -> Nat]
NothingBy  == [p \in Provider |-> 0]

\* The loop that adds each item to the entry of its provider.
LEMMA BreakdownLoop ==
  ASSUME NEW items \in Seq(Item)
  PROVE  \E v : /\ v[0] = NothingBy
                /\ \A k \in 1..Len(items) : v[k] = CountedBy(v[k - 1], items[k])
                /\ \A k \in 0..Len(items) : v[k] \in ByProvider
                /\ v[Len(items)] = FoldLeft(CountedBy, NothingBy, items)
  <1> DEFINE n == Len(items)
             D == DOMAIN items
             step == [t \in ByProvider |-> [i \in Item |-> CountedBy(t, i)]]
             Eq(h) == h = [s \in SUBSET D |-> IF s = {} THEN NothingBy
                                             ELSE CountedBy(h[s \ {Max(s)}], items[Max(s)])]
             iter == CHOOSE h : Eq(h)
  <1>1. FoldLeft(CountedBy, NothingBy, items) = iter[D]
    BY Zenon DEF FoldLeft, MapThenFoldSet
  <1>2. NothingBy \in ByProvider /\ \A t \in ByProvider, i \in Item : CountedBy(t, i) \in ByProvider
    <2>1. NothingBy \in [Provider -> Nat]
      BY DEF NothingBy
    <2>2. ASSUME NEW t \in [Provider -> Nat], NEW i \in Item
          PROVE  CountedBy(t, i) \in [Provider -> Nat]
      BY DEF CountedBy, Item
    <2> QED
      BY <2>1, <2>2 DEF ByProvider
  <1>3. n \in Nat /\ D = 1..n /\ \A k \in D : items[k] \in Item
    OBVIOUS
  <1> HIDE DEF n, D
  <1>4. \E h : Eq(h)
    <2>1. /\ step \in [ByProvider -> [Item -> ByProvider]]
          /\ \A t \in ByProvider, i \in Item : step[t][i] = CountedBy(t, i)
      BY <1>2
    <2> HIDE DEF step
    <2>2. /\ \E h \in [SUBSET D -> ByProvider] : Folds(h, NothingBy, step, items)
          /\ \A s \in SUBSET D : s # {} => Max(s) \in s
      BY <1>2, <2>1, FoldsExists DEF D
    <2>3. PICK h \in [SUBSET D -> ByProvider] : Folds(h, NothingBy, step, items)
      BY <2>2
    <2>4. \A s \in SUBSET D : s # {} =>
            step[h[s \ {Max(s)}]][items[Max(s)]] = CountedBy(h[s \ {Max(s)}], items[Max(s)])
      BY <1>3, <2>1, <2>2
    <2>5. h = [s \in SUBSET D |-> IF s = {} THEN NothingBy
                                  ELSE step[h[s \ {Max(s)}]][items[Max(s)]]]
      BY <2>3 DEF Folds, D
    <2>6. Eq(h)
      BY <2>4, <2>5
    <2> QED
      BY <2>6
  <1>5. \A s \in SUBSET D :
          iter[s] = IF s = {} THEN NothingBy ELSE CountedBy(iter[s \ {Max(s)}], items[Max(s)])
    <2>1. Eq(iter)
      BY <1>4
    <2> HIDE DEF iter
    <2> QED
      BY <2>1
  <1> HIDE DEF iter
  <1>6. PICK v : Rounds(v, iter, items)
    BY RoundsExist
  <1>7. v[0] = NothingBy
    <2>1. {} \in SUBSET D
      OBVIOUS
    <2> QED
      BY <1>5, <1>6, <2>1 DEF Rounds
  <1>8. ASSUME NEW k \in 1..n PROVE v[k] = CountedBy(v[k - 1], items[k])
    <2>1. iter[1..k] = CountedBy(iter[(1..k) \ {k}], items[k])
      BY <1>5, <1>6 DEF Rounds, n, D
    <2> QED
      BY <1>6, <2>1 DEF Rounds, n
  <1>9. \A k \in 0..n : v[k] \in ByProvider
    BY <1>2, <1>3, <1>7, <1>8, LoopStays
  <1>10. v[n] = FoldLeft(CountedBy, NothingBy, items)
    BY <1>1, <1>6 DEF Rounds, n, D
  <1> QED
    BY <1>7, <1>8, <1>9, <1>10 DEF n

\* The totals of the calculator are the totals the items should have, and what
\* is called provider costs is all of them.
LEMMA TotalsAreTrue ==
  ASSUME NEW items \in Seq(Item)
  PROVE  /\ FoldLeft(Counted, Zero, items) \in Priced
         /\ FoldLeft(Counted, Zero, items) = TrueTotals(items)
         /\ TrueTotals(items).all = TrueTotals(items).monthly + TrueTotals(items).oneTime
  <1> DEFINE n == Len(items)
             total == FoldLeft(Counted, Zero, items)
  <1>1. PICK v : /\ v[0] = Zero
                 /\ \A k \in 1..n : v[k] = Counted(v[k - 1], items[k])
                 /\ \A k \in 0..n : v[k] \in Priced
                 /\ v[n] = total
    BY TotalsLoop
  <1>2. /\ n \in Nat /\ DOMAIN items = 1..n
        /\ \A k \in 1..n : items[k] \in Item /\ items[k].amount \in Nat
                           /\ k \in 0..n /\ k - 1 \in 0..n
    <2>1. n \in Nat /\ DOMAIN items = 1..n /\ \A k \in 1..n : items[k] \in Item
      OBVIOUS
    <2> QED
      BY <2>1 DEF Item
  <1> HIDE DEF n, total
  <1>3. total \in Priced
    BY <1>1, <1>2
  <1>4. \A k \in 1..n :
          /\ v[k - 1] \in Priced
          /\ v[k].monthly = v[k - 1].monthly
                            + (IF items[k].frequency # OneTime THEN items[k].amount ELSE 0)
          /\ v[k].oneTime = v[k - 1].oneTime
                            + (IF items[k].frequency = OneTime THEN items[k].amount ELSE 0)
          /\ v[k].all = v[k - 1].all + items[k].amount
    <2> SUFFICES ASSUME NEW k \in 1..n
                 PROVE  /\ v[k - 1] \in Priced
                        /\ v[k].monthly = v[k - 1].monthly
                            + (IF items[k].frequency # OneTime THEN items[k].amount ELSE 0)
                        /\ v[k].oneTime = v[k - 1].oneTime
                            + (IF items[k].frequency = OneTime THEN items[k].amount ELSE 0)
                        /\ v[k].all = v[k - 1].all + items[k].amount
      OBVIOUS
    <2>1. v[k - 1] \in Priced
      BY <1>1, <1>2
    <2>2. v[k] = Counted(v[k - 1], items[k])
      BY <1>1
    <2>3. CASE items[k].frequency = OneTime
      BY <2>1, <2>2, <2>3 DEF Counted
    <2>4. CASE items[k].frequency # OneTime
      BY <2>1, <2>2, <2>4 DEF Counted
    <2> QED
      BY <2>3, <2>4
  <1>5. v[0].monthly = 0 /\ v[0].oneTime = 0 /\ v[0].all = 0
    BY <1>1 DEF Zero
  <1>6. total.monthly = Amounts(items, {i \in DOMAIN items : items[i].frequency # OneTime})
    <2> DEFINE D == {i \in DOMAIN items : items[i].frequency # OneTime}
               u == [k \in 0..n |-> v[k].monthly]
    <2>1. /\ u[0] = 0
          /\ \A k \in DOMAIN items : u[k] = u[k - 1] + (IF k \in D THEN items[k].amount ELSE 0)
          /\ u[n] = total.monthly
      BY <1>1, <1>2, <1>4, <1>5
    <2> HIDE DEF u
    <2>2. u[Len(items)] = Amounts(items, D)
      BY <2>1, LoopAddsAmounts
    <2> QED
      BY <2>1, <2>2 DEF n
  <1>7. total.oneTime = Amounts(items, {i \in DOMAIN items : items[i].frequency = OneTime})
    <2> DEFINE D == {i \in DOMAIN items : items[i].frequency = OneTime}
               u == [k \in 0..n |-> v[k].oneTime]
    <2>1. /\ u[0] = 0
          /\ \A k \in DOMAIN items : u[k] = u[k - 1] + (IF k \in D THEN items[k].amount ELSE 0)
          /\ u[n] = total.oneTime
      BY <1>1, <1>2, <1>4, <1>5
    <2> HIDE DEF u
    <2>2. u[Len(items)] = Amounts(items, D)
      BY <2>1, LoopAddsAmounts
    <2> QED
      BY <2>1, <2>2 DEF n
  <1>8. total.all = Amounts(items, {i \in DOMAIN items : TRUE})
    <2> DEFINE D == {i \in DOMAIN items : TRUE}
               u == [k \in 0..n |-> v[k].all]
    <2>1. /\ u[0] = 0
          /\ \A k \in DOMAIN items : u[k] = u[k - 1] + (IF k \in D THEN items[k].amount ELSE 0)
          /\ u[n] = total.all
      BY <1>1, <1>2, <1>4, <1>5
    <2> HIDE DEF u
    <2>2. u[Len(items)] = Amounts(items, D)
      BY <2>1, LoopAddsAmounts
    <2> QED
      BY <2>1, <2>2 DEF n
  <1>9. total.all = total.monthly + total.oneTime
    <2> DEFINE D == {i \in DOMAIN items : TRUE}
               u == [k \in 0..n |-> v[k].monthly + v[k].oneTime]
    <2>1. ASSUME NEW k \in DOMAIN items
          PROVE  u[k] = u[k - 1] + (IF k \in D THEN items[k].amount ELSE 0)
      <3> DEFINE m == v[k - 1].monthly
                 o == v[k - 1].oneTime
                 a == items[k].amount
      <3>1. k \in 1..n /\ m \in Nat /\ o \in Nat /\ a \in Nat
        BY <1>2, <1>4 DEF Priced
      <3>2. /\ v[k].monthly = m + (IF items[k].frequency # OneTime THEN a ELSE 0)
            /\ v[k].oneTime = o + (IF items[k].frequency = OneTime THEN a ELSE 0)
        BY <1>4, <3>1
      <3>3. u[k] = v[k].monthly + v[k].oneTime /\ u[k - 1] = m + o
        BY <1>2, <3>1
      <3> HIDE DEF m, o, a, u
      <3>4. v[k].monthly + v[k].oneTime = (m + o) + a
        <4>1. CASE items[k].frequency = OneTime
          BY <3>1, <3>2, <4>1
        <4>2. CASE items[k].frequency # OneTime
          BY <3>1, <3>2, <4>2
        <4> QED
          BY <4>1, <4>2
      <3> QED
        BY <3>3, <3>4 DEF a
    <2>2. u[0] = 0 /\ u[n] = total.monthly + total.oneTime
      BY <1>1, <1>2, <1>5
    <2> HIDE DEF u
    <2>3. u[Len(items)] = Amounts(items, D)
      BY <2>1, <2>2, LoopAddsAmounts
    <2> QED
      BY <1>8, <2>2, <2>3 DEF n
  <1>10. total = TrueTotals(items)
    BY <1>3, <1>6, <1>7, <1>8, CostIsAmounts DEF Priced
  <1> QED
    BY <1>3, <1>9, <1>10 DEF total

\* The breakdown of a receipt says what the items of each provider cost together.
LEMMA BreakdownIsTrue ==
  ASSUME NEW items \in Seq(Item)
  PROVE  /\ Breakdown(items) \in [Provider -> Nat]
         /\ \A p \in Provider :
              Breakdown(items)[p] = Cost(items, LAMBDA item : item.provider = p)
  <1> DEFINE n == Len(items)
             all == FoldLeft(CountedBy, NothingBy, items)
  <1>0. Breakdown(items) = all
    BY DEF Breakdown, NothingBy
  <1>1. PICK v : /\ v[0] = NothingBy
                 /\ \A k \in 1..n : v[k] = CountedBy(v[k - 1], items[k])
                 /\ \A k \in 0..n : v[k] \in ByProvider
                 /\ v[n] = all
    BY BreakdownLoop
  <1>2. /\ n \in Nat /\ DOMAIN items = 1..n
        /\ \A k \in 1..n : items[k] \in Item /\ items[k].amount \in Nat
                           /\ items[k].provider \in Provider
                           /\ k \in 0..n /\ k - 1 \in 0..n
    <2>1. n \in Nat /\ DOMAIN items = 1..n /\ \A k \in 1..n : items[k] \in Item
      OBVIOUS
    <2> QED
      BY <2>1 DEF Item
  <1> HIDE DEF n, all
  <1>3. all \in [Provider -> Nat]
    BY <1>1, <1>2 DEF ByProvider
  <1>4. ASSUME NEW p \in Provider
        PROVE  all[p] = Amounts(items, {i \in DOMAIN items : items[i].provider = p})
    <2> DEFINE D == {i \in DOMAIN items : items[i].provider = p}
               u == [k \in 0..n |-> v[k][p]]
    <2>1. ASSUME NEW k \in DOMAIN items
          PROVE  u[k] = u[k - 1] + (IF k \in D THEN items[k].amount ELSE 0)
      <3>1. v[k - 1] \in [Provider -> Nat] /\ v[k] = CountedBy(v[k - 1], items[k])
        BY <1>1, <1>2 DEF ByProvider
      <3>2. v[k][p] = v[k - 1][p] + (IF items[k].provider = p THEN items[k].amount ELSE 0)
        BY <1>2, <3>1 DEF CountedBy
      <3> QED
        BY <1>2, <3>2
    <2>2. u[0] = 0 /\ u[n] = all[p]
      BY <1>1, <1>2 DEF NothingBy
    <2> HIDE DEF u
    <2>3. u[Len(items)] = Amounts(items, D)
      BY <2>1, <2>2, LoopAddsAmounts
    <2> QED
      BY <2>2, <2>3 DEF n
  <1>5. ASSUME NEW p \in Provider
        PROVE  all[p] = Cost(items, LAMBDA item : item.provider = p)
    <2>1. Cost(items, LAMBDA item : item.provider = p) =
            Amounts(items, {i \in DOMAIN items : items[i].provider = p})
      BY Zenon DEF Cost, Amounts
    <2> QED
      BY <1>4, <2>1, Zenon
  <1>6. Breakdown(items) \in [Provider -> Nat]
    BY <1>0, <1>3, Zenon
  <1> QED
    BY <1>0, <1>5, <1>6, Zenon

\* The quality of a scenario is no better than that of any of its items.
LEMMA QualityIsWorst ==
  ASSUME NEW sc \in ScenarioRow
  PROVE  /\ Quality(sc) \in QualityType
         /\ \A i \in DOMAIN sc.items :
              /\ Quality(sc).confidence >= sc.items[i].confidence
              /\ Quality(sc).risk >= sc.items[i].risk
  <1> DEFINE items == sc.items
             start == sc.quality
  <1>1. items \in Seq(Item) /\ start \in QualityType
    BY DEF ScenarioRow, QualityType
  <1>2. CASE items = <<>>
    <2>1. Quality(sc) = Unknown
      BY <1>2 DEF Quality
    <2>2. Unknown \in QualityType
      BY DEF Unknown, QualityType, Confidence, Risk
    <2> QED
      BY <1>2, <2>1, <2>2
  <1>3. CASE items # <<>>
    <2> DEFINE n == Len(items)
               worst == FoldLeft(Worse, start, items)
    <2>0. Quality(sc) = worst
      BY <1>3 DEF Quality
    <2> HIDE DEF items, start
    <2>1. PICK v : /\ v[0] = start
                   /\ \A k \in 1..n : v[k] = Worse(v[k - 1], items[k])
                   /\ \A k \in 0..n : v[k] \in QualityType
                   /\ v[n] = worst
      BY <1>1, QualityLoop
    <2>2. /\ n \in Nat /\ DOMAIN items = 1..n
          /\ \A k \in 1..n : items[k] \in Item /\ k \in 0..n /\ k - 1 \in 0..n
      BY <1>1
    <2> HIDE DEF n, worst
    <2> DEFINE Below(k) == \A i \in 1..k : /\ v[k].confidence >= items[i].confidence
                                           /\ v[k].risk >= items[i].risk
               T == {k \in Nat : k <= n => Below(k)}
    <2>3. 0 \in T
      OBVIOUS
    <2>4. ASSUME NEW k \in T PROVE k + 1 \in T
      <3> SUFFICES ASSUME k + 1 <= n PROVE Below(k + 1)
        OBVIOUS
      <3>1. /\ k + 1 \in 1..n /\ (k + 1) - 1 = k /\ k \in 0..n /\ k + 1 \in 0..n
            /\ Below(k)
        BY <2>2
      <3>2. v[k] \in QualityType /\ v[k + 1] = Worse(v[k], items[k + 1]) /\ items[k + 1] \in Item
        BY <2>1, <2>2, <3>1
      <3>3. /\ v[k + 1] \in QualityType
            /\ v[k + 1].confidence >= v[k].confidence
            /\ v[k + 1].confidence >= items[k + 1].confidence
            /\ v[k + 1].risk >= v[k].risk
            /\ v[k + 1].risk >= items[k + 1].risk
        BY <3>2, WorseIsWorse
      <3>4. ASSUME NEW i \in 1..(k + 1), i # k + 1
            PROVE  /\ v[k + 1].confidence >= items[i].confidence
                   /\ v[k + 1].risk >= items[i].risk
        <4>1. i \in 1..k /\ i \in 1..n
          BY <2>2, <3>1, <3>4
        <4>2. v[k].confidence >= items[i].confidence /\ v[k].risk >= items[i].risk
          BY <3>1, <4>1
        <4>3. /\ v[k].confidence \in Int /\ v[k].risk \in Int
              /\ v[k + 1].confidence \in Int /\ v[k + 1].risk \in Int
              /\ items[i].confidence \in Int /\ items[i].risk \in Int
          BY <2>2, <3>2, <3>3, <4>1 DEF QualityType, Item, Confidence, Risk
        <4> HIDE DEF T
        <4> QED
          BY <3>3, <4>2, <4>3
      <3> QED
        BY <3>3, <3>4
    <2>5. T \in SUBSET Nat
      OBVIOUS
    <2>6. T = Nat
      <3> HIDE DEF T
      <3> QED
        BY <2>3, <2>4, <2>5, Induction
    <2>7. Below(n)
      BY <2>2, <2>6
    <2> HIDE DEF T
    <2>8. worst \in QualityType
      BY <2>1, <2>2
    <2> QED
      BY <2>0, <2>1, <2>2, <2>7, <2>8 DEF items
  <1> QED
    BY <1>2, <1>3

-----------------------------------------------------------------------------
(* Every step                                                              *)

\* A change of the items ends with totals and quality that are those of the new
\* ones.
LEMMA RecalculatedIsCounted ==
  ASSUME NEW sc \in ScenarioRow
  PROVE  Recalculated(sc) \in ScenarioRow /\ IsCounted(Recalculated(sc))
  <1> DEFINE total == FoldLeft(Counted, Zero, sc.items)
             quality == Quality(sc)
  <1>1. /\ sc.items \in Seq(Item) /\ sc.assumptions \in 0..MaxNotes
    BY DEF ScenarioRow
  <1>2. total \in Priced /\ total = TrueTotals(sc.items)
    BY <1>1, TotalsAreTrue
  <1>3. quality \in QualityType /\ \A i \in DOMAIN sc.items :
          quality.confidence >= sc.items[i].confidence /\ quality.risk >= sc.items[i].risk
    BY QualityIsWorst
  <1>4. Recalculated(sc) = [sc EXCEPT !.totals = total, !.quality = quality]
    BY DEF Recalculated
  <1> HIDE DEF total, quality
  <1>5. /\ Recalculated(sc) \in ScenarioRow
        /\ Recalculated(sc).items = sc.items
        /\ Recalculated(sc).totals = total
        /\ Recalculated(sc).quality = quality
    BY <1>2, <1>3, <1>4 DEF ScenarioRow, QualityType
  <1> QED
    BY <1>2, <1>3, <1>5, Present DEF IsCounted

\* Storing a scenario that is counted, or forgetting one, leaves the others alone.
LEMMA StoreKeeps ==
  ASSUME LedgerTypeOK, TotalsMatchItems, NEW s \in Scenario,
         NEW sc \in ScenarioRow \cup {NoScenario}, Store(s, sc),
         sc # NoScenario => IsCounted(sc)
  PROVE  scenarios' \in [Scenario -> ScenarioRow \cup {NoScenario}] /\ TotalsMatchItems'
  <1>1. scenarios' = [scenarios EXCEPT ![s] = sc]
    BY DEF Store
  <1>2. scenarios' \in [Scenario -> ScenarioRow \cup {NoScenario}]
    BY <1>1 DEF LedgerTypeOK
  <1>3. ASSUME NEW r \in Scenario, scenarios'[r] # NoScenario PROVE IsCounted(scenarios'[r])
    BY <1>1, <1>3 DEF LedgerTypeOK, TotalsMatchItems, Known
  <1> QED
    BY <1>2, <1>3 DEF TotalsMatchItems, Known

\* A scenario that the process knows is one, and is counted.
LEMMA KnownRow ==
  ASSUME LedgerTypeOK, TotalsMatchItems, NEW s \in Scenario, Known(s)
  PROVE  scenarios[s] \in ScenarioRow /\ IsCounted(scenarios[s])
  BY DEF LedgerTypeOK, TotalsMatchItems, Known

\* Every answer that a step gives is one.
LEMMA ReplyTypes ==
  /\ Reply("none", FALSE) \in Replies /\ Reply("refused", FALSE) \in Replies
  /\ Reply("error", FALSE) \in Replies /\ Reply("error", TRUE) \in Replies
  /\ Reply("created", TRUE) \in Replies /\ Reply("updated", TRUE) \in Replies
  /\ Reply("deleted", TRUE) \in Replies
  BY DEF Reply, Replies

\* A change of the items, whatever it is, leaves the scenario counted.
LEMMA ChangeKeeps ==
  ASSUME LedgerTypeOK, TotalsMatchItems, NEW s \in Scenario, Known(s), NEW items \in Seq(Item),
         NEW answer \in {"error", "updated", "deleted"}, ChangeItems(s, items, answer)
  PROVE  LedgerTypeOK' /\ TotalsMatchItems'
  <1> DEFINE sc == [scenarios[s] EXCEPT !.items = items]
             new == Recalculated(sc)
  <1>1. sc \in ScenarioRow
    BY KnownRow DEF ScenarioRow
  <1>2. Store(s, new) /\ reply' = Reply(answer, TRUE) /\ UNCHANGED <<snapshots, receipts>>
    BY DEF ChangeItems
  <1> HIDE DEF sc
  <1>3. new \in ScenarioRow /\ IsCounted(new)
    BY <1>1, RecalculatedIsCounted
  <1> HIDE DEF new
  <1>4. scenarios' \in [Scenario -> ScenarioRow \cup {NoScenario}] /\ TotalsMatchItems'
    BY <1>2, <1>3, StoreKeeps
  <1> QED
    BY <1>2, <1>4, ReplyTypes DEF LedgerTypeOK

\* Adding, replacing and deleting an item are such changes.
LEMMA AddKeeps ==
  ASSUME LedgerTypeOK, TotalsMatchItems, NEW s \in Scenario, NEW e \in Entry, AddLineItem(s, e)
  PROVE  LedgerTypeOK' /\ TotalsMatchItems'
  <1> DEFINE items == Append(scenarios[s].items, ItemOf(e))
  <1>1. Known(s) /\ ChangeItems(s, items, "error")
    BY DEF AddLineItem
  <1>2. items \in Seq(Item)
    BY <1>1, KnownRow, ItemFits DEF ScenarioRow
  <1> HIDE DEF items
  <1> QED
    BY <1>1, <1>2, ChangeKeeps

LEMMA UpdateKeeps ==
  ASSUME LedgerTypeOK, TotalsMatchItems, NEW s \in Scenario, NEW e \in Entry, NEW i,
         UpdateLineItem(s, i, e)
  PROVE  LedgerTypeOK' /\ TotalsMatchItems'
  <1> DEFINE items == [scenarios[s].items EXCEPT ![i] = ItemOf(e)]
  <1>1. Known(s) /\ ChangeItems(s, items, "updated") /\ i \in DOMAIN scenarios[s].items
    BY DEF UpdateLineItem
  <1>2. items \in Seq(Item)
    <2>1. scenarios[s].items \in Seq(Item) /\ ItemOf(e) \in Item
      BY <1>1, KnownRow, ItemFits DEF ScenarioRow
    <2> QED
      BY <1>1, <2>1
  <1> HIDE DEF items
  <1> QED
    BY <1>1, <1>2, ChangeKeeps

LEMMA DeleteKeeps ==
  ASSUME LedgerTypeOK, TotalsMatchItems, NEW s \in Scenario, NEW i, DeleteLineItem(s, i)
  PROVE  LedgerTypeOK' /\ TotalsMatchItems'
  <1> DEFINE old == scenarios[s].items
             items == Without(old, i)
  <1>1. Known(s) /\ ChangeItems(s, items, "deleted")
    BY DEF DeleteLineItem
  <1>2. old \in Seq(Item)
    BY <1>1, KnownRow DEF ScenarioRow
  <1>3. items \in Seq(Item)
    <2> HIDE DEF old
    <2>1. CASE i \in DOMAIN old
      <3>1. i \in 1..Len(old) /\ Len(old) \in Nat /\ \A k \in 1..Len(old) : old[k] \in Item
        BY <1>2, <2>1
      <3>2. SubSeq(old, 1, i - 1) \in Seq(Item) /\ SubSeq(old, i + 1, Len(old)) \in Seq(Item)
        BY <1>2, <3>1, SubSeqProperties
      <3> QED
        BY <2>1, <3>2, ConcatProperties DEF Without, RemoveAt
    <2>2. CASE i \notin DOMAIN old
      BY <1>2, <2>2 DEF Without
    <2> QED
      BY <2>1, <2>2
  <1> HIDE DEF items
  <1> QED
    BY <1>1, <1>3, ChangeKeeps

\* Assumptions touch neither items nor totals.
LEMMA NotesKeep ==
  ASSUME LedgerTypeOK, TotalsMatchItems, NEW s \in Scenario, AddAssumption(s) \/ DeleteAssumption(s)
  PROVE  LedgerTypeOK' /\ TotalsMatchItems'
  <1>1. Known(s) /\ scenarios[s] \in ScenarioRow /\ IsCounted(scenarios[s])
    BY KnownRow DEF AddAssumption, DeleteAssumption
  <1>2. PICK n \in 0..MaxNotes, answer \in {"created", "deleted"} :
          /\ Store(s, [scenarios[s] EXCEPT !.assumptions = n])
          /\ reply' = Reply(answer, TRUE) /\ UNCHANGED <<snapshots, receipts>>
    <2>1. scenarios[s].assumptions \in 0..MaxNotes /\ MaxNotes \in Nat
      BY <1>1, LedgerConstants DEF ScenarioRow
    <2>2. CASE AddAssumption(s)
      <3> DEFINE n == scenarios[s].assumptions + 1
      <3>1. n \in 0..MaxNotes
        BY <2>1, <2>2 DEF AddAssumption
      <3>2. /\ Store(s, [scenarios[s] EXCEPT !.assumptions = n])
            /\ reply' = Reply("created", TRUE) /\ UNCHANGED <<snapshots, receipts>>
        BY <2>2 DEF AddAssumption
      <3> HIDE DEF n
      <3> QED
        BY <3>1, <3>2
    <2>3. CASE DeleteAssumption(s)
      <3> DEFINE n == scenarios[s].assumptions - 1
      <3>1. n \in 0..MaxNotes
        BY <2>1, <2>3 DEF DeleteAssumption
      <3>2. /\ Store(s, [scenarios[s] EXCEPT !.assumptions = n])
            /\ reply' = Reply("deleted", TRUE) /\ UNCHANGED <<snapshots, receipts>>
        BY <2>3 DEF DeleteAssumption
      <3> HIDE DEF n
      <3> QED
        BY <3>1, <3>2
    <2> QED
      BY <2>2, <2>3
  <1> DEFINE sc == [scenarios[s] EXCEPT !.assumptions = n]
  <1>3. sc \in ScenarioRow /\ IsCounted(sc)
    BY <1>1 DEF ScenarioRow, IsCounted
  <1> HIDE DEF sc
  <1>4. scenarios' \in [Scenario -> ScenarioRow \cup {NoScenario}] /\ TotalsMatchItems'
    BY <1>2, <1>3, StoreKeeps DEF sc
  <1> QED
    BY <1>2, <1>4, ReplyTypes DEF LedgerTypeOK

-----------------------------------------------------------------------------
(* Receipts                                                                *)

\* A receipt copies totals that are those of the items it lists.
LEMMA ReceiptFits ==
  ASSUME LedgerTypeOK, TotalsMatchItems, NEW s \in Scenario, Known(s),
         scenarios[s].totals # NoTotals
  PROVE  ReceiptOf(s) \in Receipt /\ IsSnapshot(ReceiptOf(s))
  <1> DEFINE sc == scenarios[s]
             all == sc.totals.monthly + sc.totals.oneTime
             parts == Breakdown(sc.items)
             r == [scenario |-> s, totals |-> sc.totals, items |-> sc.items,
                   providers |-> all, breakdown |-> parts]
  <1>0. ReceiptOf(s) = r
    BY DEF ReceiptOf
  <1>1. /\ sc.items \in Seq(Item) /\ sc.totals \in Priced
        /\ sc.totals = TrueTotals(sc.items)
    BY KnownRow DEF ScenarioRow, IsCounted
  <1>2. all = sc.totals.all /\ all \in Nat
    BY <1>1, TotalsAreTrue DEF Priced
  <1>3. /\ parts \in [Provider -> Nat]
        /\ \A p \in Provider : parts[p] = Cost(sc.items, LAMBDA item : item.provider = p)
    BY <1>1, BreakdownIsTrue, Zenon
  <1> HIDE DEF sc, all, parts
  <1>4. r \in Receipt
    BY <1>1, <1>2, <1>3 DEF Receipt
  <1>5. r.totals = sc.totals /\ r.items = sc.items /\ r.providers = all /\ r.breakdown = parts
    OBVIOUS
  <1> HIDE DEF r
  <1>6. r.totals = TrueTotals(r.items) /\ r.providers = r.totals.all
    BY <1>1, <1>2, <1>5
  <1>7. \A p \in Provider : r.breakdown[p] = Cost(r.items, LAMBDA item : item.provider = p)
    BY <1>3, <1>5, Zenon
  <1>8. IsSnapshot(r)
    BY <1>6, <1>7, Zenon DEF IsSnapshot
  <1> QED
    BY <1>0, <1>4, <1>8, Zenon

\* The scenarios, the totals in them and the receipts, together.
LedgerInv == LedgerTypeOK /\ TotalsMatchItems /\ ReceiptsAreSnapshots

\* A new receipt is a snapshot, and the earlier ones stay what they were.
LEMMA GenerateKeeps ==
  ASSUME LedgerInv, NEW s \in Scenario, GenerateReceipt(s)
  PROVE  LedgerInv'
  <1> DEFINE r == ReceiptOf(s)
  <1>1. /\ Known(s) /\ scenarios[s].totals # NoTotals
        /\ receipts' = Append(receipts, r)
        /\ reply' = Reply("created", TRUE) /\ UNCHANGED <<scenarios, snapshots>>
    BY DEF GenerateReceipt
  <1>2. r \in Receipt /\ IsSnapshot(r)
    BY <1>1, ReceiptFits DEF LedgerInv
  <1> HIDE DEF r
  <1>3. LedgerTypeOK'
    <2>1. receipts \in Seq(Receipt)
      BY DEF LedgerInv, LedgerTypeOK
    <2>2. receipts' \in Seq(Receipt)
      BY <1>1, <1>2, <2>1
    <2>3. reply' \in Replies
      BY <1>1, ReplyTypes
    <2> QED
      BY <1>1, <2>2, <2>3 DEF LedgerInv, LedgerTypeOK
  <1>4. TotalsMatchItems'
    BY <1>1 DEF LedgerInv, TotalsMatchItems, Known
  <1>5. ASSUME NEW i \in DOMAIN receipts' PROVE IsSnapshot(receipts'[i])
    <2>1. receipts \in Seq(Receipt)
      BY DEF LedgerInv, LedgerTypeOK
    <2>2. receipts'[i] = r \/ (i \in DOMAIN receipts /\ receipts'[i] = receipts[i])
      BY <1>1, <1>2, <1>5, <2>1
    <2> QED
      BY <1>2, <2>2 DEF LedgerInv, ReceiptsAreSnapshots
  <1> QED
    BY <1>3, <1>4, <1>5 DEF LedgerInv, ReceiptsAreSnapshots

\* No other step touches the receipts, short of a restart.
LEMMA SnapshotsStay ==
  ASSUME LedgerInv, UNCHANGED receipts
  PROVE  ReceiptsAreSnapshots'
  BY DEF LedgerInv, ReceiptsAreSnapshots

\* A request that is refused or fails changes nothing but the answer.
LEMMA RefuseKeeps ==
  ASSUME LedgerInv, UNCHANGED <<scenarios, snapshots, receipts>>,
         reply' = Reply("refused", FALSE) \/ reply' = Reply("error", FALSE) \/ UNCHANGED reply
  PROVE  LedgerInv'
  <1>1. LedgerTypeOK'
    BY ReplyTypes DEF LedgerInv, LedgerTypeOK
  <1>2. TotalsMatchItems'
    BY DEF LedgerInv, TotalsMatchItems, Known
  <1> QED
    BY <1>1, <1>2, SnapshotsStay DEF LedgerInv

\* A new scenario has no items, and is counted; a deleted one is none.
LEMMA CreateKeeps ==
  ASSUME LedgerInv, NEW s \in Scenario, CreateScenario(s) \/ DeleteScenario(s)
  PROVE  LedgerInv'
  <1>1. PICK sc \in {NewScenario, NoScenario}, answer \in {"created", "deleted"} :
          /\ Store(s, sc) /\ reply' = Reply(answer, TRUE) /\ UNCHANGED <<snapshots, receipts>>
    BY DEF CreateScenario, DeleteScenario
  <1>2. NewScenario \in ScenarioRow /\ IsCounted(NewScenario)
    <2>1. /\ <<>> \in Seq(Item) /\ 0 \in 0..MaxNotes /\ DOMAIN <<>> = {}
          /\ Unknown \in [confidence : Confidence, risk : Risk]
      BY LedgerConstants DEF Unknown, Confidence, Risk
    <2> QED
      BY <2>1 DEF NewScenario, ScenarioRow, IsCounted
  <1>3. scenarios' \in [Scenario -> ScenarioRow \cup {NoScenario}] /\ TotalsMatchItems'
    BY <1>1, <1>2, StoreKeeps DEF LedgerInv
  <1> QED
    BY <1>1, <1>3, ReplyTypes, SnapshotsStay DEF LedgerInv, LedgerTypeOK

\* A ledger without scenarios and receipts.
LEMMA EmptyLedger ==
  /\ [s \in Scenario |-> NoScenario] \in [Scenario -> ScenarioRow \cup {NoScenario}]
  /\ 0 \in 0..MaxNotes /\ <<>> \in Seq(Receipt) /\ DOMAIN <<>> = {}
  /\ Reply("none", FALSE) \in Replies
  <1>1. [s \in Scenario |-> NoScenario] \in [Scenario -> ScenarioRow \cup {NoScenario}]
    OBVIOUS
  <1>2. 0 \in 0..MaxNotes
    BY LedgerConstants
  <1>3. <<>> \in Seq(Receipt) /\ DOMAIN <<>> = {}
    OBVIOUS
  <1> QED
    BY <1>1, <1>2, <1>3, ReplyTypes, Zenon

\* A process starts with an empty ledger, the first one and every later one.
LEMMA LedgerInvInit == LedgerInit => LedgerInv
  <1> SUFFICES ASSUME LedgerInit PROVE LedgerInv
    OBVIOUS
  <1>1. LedgerTypeOK
    BY EmptyLedger, Zenon DEF LedgerInit, LedgerTypeOK
  <1>2. TotalsMatchItems
    BY DEF LedgerInit, TotalsMatchItems, Known
  <1>3. ReceiptsAreSnapshots
    BY EmptyLedger DEF LedgerInit, ReceiptsAreSnapshots
  <1> QED
    BY <1>1, <1>2, <1>3 DEF LedgerInv

LEMMA RestartKeeps == Restart => LedgerInv'
  <1> SUFFICES ASSUME Restart PROVE LedgerInv'
    OBVIOUS
  <1>1. LedgerTypeOK'
    BY EmptyLedger, Zenon DEF Restart, LedgerTypeOK
  <1>2. TotalsMatchItems'
    BY DEF Restart, TotalsMatchItems, Known
  <1>3. ReceiptsAreSnapshots'
    BY EmptyLedger DEF Restart, ReceiptsAreSnapshots
  <1> QED
    BY <1>1, <1>2, <1>3 DEF LedgerInv

\* So every step keeps the invariant.
LEMMA LedgerInvStep == LedgerInv /\ [LedgerNext]_ledger => LedgerInv'
  <1> SUFFICES ASSUME LedgerInv, [LedgerNext]_ledger PROVE LedgerInv'
    OBVIOUS
  <1>0. LedgerTypeOK /\ TotalsMatchItems
    BY DEF LedgerInv
  <1>1. ASSUME LedgerTypeOK', TotalsMatchItems', UNCHANGED receipts PROVE LedgerInv'
    BY <1>1, SnapshotsStay DEF LedgerInv
  <1>2. Refuse => LedgerInv'
    BY RefuseKeeps DEF Refuse
  <1>3. ASSUME NEW s \in Scenario, PostLineItem(s) PROVE LedgerInv'
    <2>1. ASSUME NEW e \in Entry, AddLineItem(s, e) PROVE LedgerInv'
      <3>1. UNCHANGED receipts
        BY <2>1 DEF AddLineItem, ChangeItems
      <3> QED
        BY <1>0, <1>1, <2>1, <3>1, AddKeeps
    <2> QED
      BY <1>2, <1>3, <2>1 DEF PostLineItem
  <1>4. ASSUME NEW s \in Scenario, NEW i, DeleteLineItem(s, i) PROVE LedgerInv'
    <2>1. UNCHANGED receipts
      BY <1>4 DEF DeleteLineItem, ChangeItems
    <2> QED
      BY <1>0, <1>1, <1>4, <2>1, DeleteKeeps
  <1>5. ASSUME NEW s \in Scenario, NEW i, NEW e \in Entry, UpdateLineItem(s, i, e) PROVE LedgerInv'
    <2>1. UNCHANGED receipts
      BY <1>5 DEF UpdateLineItem, ChangeItems
    <2> QED
      BY <1>0, <1>1, <1>5, <2>1, UpdateKeeps
  <1>6. ASSUME NEW s \in Scenario, PostAssumption(s) \/ DeleteAssumption(s) PROVE LedgerInv'
    <2>1. CASE AddAssumption(s) \/ DeleteAssumption(s)
      <3>1. UNCHANGED receipts
        BY <2>1 DEF AddAssumption, DeleteAssumption
      <3> QED
        BY <1>0, <1>1, <2>1, <3>1, NotesKeep
    <2> QED
      BY <1>2, <1>6, <2>1 DEF PostAssumption
  <1>7. ASSUME NEW s \in Scenario, PostReceipt(s) PROVE LedgerInv'
    <2>1. ReceiptFails(s) => LedgerInv'
      BY RefuseKeeps DEF ReceiptFails
    <2> QED
      BY <1>2, <1>7, <2>1, GenerateKeeps DEF PostReceipt
  <1>8. PostSnapshot => LedgerInv'
    <2>1. ASSUME AddSnapshot PROVE LedgerInv'
      <3>1. LedgerTypeOK'
        <4>1. reply' \in Replies
          BY <2>1, ReplyTypes DEF AddSnapshot
        <4>2. snapshots' \in 0..MaxNotes
          BY <1>0, <2>1, LedgerConstants DEF AddSnapshot, LedgerTypeOK
        <4> QED
          BY <1>0, <2>1, <4>1, <4>2 DEF AddSnapshot, LedgerTypeOK
      <3>2. TotalsMatchItems'
        BY <1>0, <2>1 DEF AddSnapshot, TotalsMatchItems, Known
      <3> QED
        BY <1>1, <2>1, <3>1, <3>2 DEF AddSnapshot
    <2> QED
      BY <1>2, <2>1 DEF PostSnapshot
  <1>9. CASE UNCHANGED ledger
    BY <1>9, RefuseKeeps DEF ledger
  <1> QED
    BY <1>3, <1>4, <1>5, <1>6, <1>7, <1>8, <1>9, CreateKeeps, RestartKeeps DEF LedgerNext

-----------------------------------------------------------------------------
(* The theorems about the ledger                                           *)

\* The inductive invariant of the ledger.
THEOREM LedgerInvariance == LedgerSpec => []LedgerInv
  BY LedgerInvInit, LedgerInvStep, PTL DEF LedgerSpec

\* The types hold: no calculation leaves them, and no receipt lacks its totals.
THEOREM LedgerTypeCorrect == LedgerSpec => []LedgerTypeOK
  <1>1. LedgerInv => LedgerTypeOK
    BY DEF LedgerInv
  <1> QED
    BY <1>1, LedgerInvariance, PTL

\* However line items are added, replaced and deleted, the stored totals are those
\* of the items, and no item is worse than its scenario looks.
THEOREM TotalsAreKept == LedgerSpec => []TotalsMatchItems
  <1>1. LedgerInv => TotalsMatchItems
    BY DEF LedgerInv
  <1> QED
    BY <1>1, LedgerInvariance, PTL

\* A receipt states the totals and the breakdown of the items it was made of,
\* whatever happens to the scenario afterwards.
THEOREM ReceiptsStayTrue == LedgerSpec => []ReceiptsAreSnapshots
  <1>1. LedgerInv => ReceiptsAreSnapshots
    BY DEF LedgerInv
  <1> QED
    BY <1>1, LedgerInvariance, PTL
=============================================================================
