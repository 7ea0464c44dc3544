----------------------------- MODULE SecureUnlock -----------------------------
(***************************************************************************)
(* The native shell (apps/IntakeMac) and the backend it launches: OS       *)
(* authentication, the challenge, the unlock request with the capability   *)
(* the shell gave the backend, the lock request, and the console page.     *)
(*                                                                         *)
(* Every unlock the user asks for is a task of its own, and each of its    *)
(* awaits may take any time or fail.  A request that is on its way may be  *)
(* lost, and may be served after the task has given up on it, or again.    *)
(* The flags of LocalAuthorizationState, which nothing reads, are left     *)
(* out; so is the launcher's development mode, which has no capability.    *)
(***************************************************************************)
EXTENDS LocalAuthorization

CONSTANT Task   \* unlocks the user may have under way at one time

VARIABLES
  task,      \* task[t]: where an unlock of the shell is
  posts,     \* unlock requests on their way, with the capability they carry
  lockSent,  \* whether a lock request is on its way
  earned     \* history: tokens fetched after an OS authentication and not used

shell == <<task, posts, lockSent, earned>>
vars == <<backend, shell>>

Post == [token : Token, proof : BOOLEAN]

Init ==
  /\ BackendInit
  /\ task = [t \in Task |-> "idle"]
  /\ posts = {} /\ lockSent = FALSE /\ earned = {}

Goes(t, step) == task' = [task EXCEPT ![t] = step]

\* BackendLauncher: a new process gets a new capability, so what is on its
\* way to the old one proves nothing any more.
LaunchBackend ==
  /\ ~up
  /\ up' = TRUE
  /\ posts' = {[p EXCEPT !.proof = FALSE] : p \in posts}
  /\ UNCHANGED <<insecure, challenges, window, loop, task, lockSent, earned>>

Exits == BackendExits /\ earned' = {} /\ UNCHANGED <<task, posts, lockSent>>

\* The page asks for an unlock: the shell opens the system dialog.
RequestUnlock(t) ==
  /\ up /\ task[t] = "idle"
  /\ Goes(t, "dialog")
  /\ UNCHANGED <<backend, posts, lockSent, earned>>

\* The user authenticates, or fails or cancels.
Authenticate(t) ==
  /\ task[t] = "dialog"
  /\ Goes(t, "fetch") \/ Goes(t, "idle")
  /\ UNCHANGED <<backend, posts, lockSent, earned>>

Unseen(c) == \A p \in posts : p.token # c

\* The challenge arrives and the unlock request goes out with it.
FetchChallenge(t, c) ==
  /\ task[t] = "fetch"
  /\ Unseen(c) /\ GetChallenge(c)
  /\ Goes(t, "wait")
  /\ posts' = posts \cup {[token |-> c, proof |-> TRUE]}
  /\ earned' = (earned \ {d \in Token : challenges'[d] = NoChallenge}) \cup {c}
  /\ UNCHANGED lockSent

\* The fetch or the unlock request fails, times out or is answered.
EndTask(t) ==
  /\ task[t] \in {"fetch", "wait"}
  /\ Goes(t, "idle")
  /\ UNCHANGED <<backend, posts, lockSent, earned>>

\* Anyone on the machine may fetch challenges and ask for the status.
OtherRequest ==
  /\ \/ \E c \in Token : Unseen(c) /\ GetChallenge(c)
     \/ GetStatus
  /\ earned' = earned \ {d \in Token : challenges'[d] = NoChallenge}
  /\ UNCHANGED <<task, posts, lockSent>>

\* An unlock request is served: one of the shell's, which may then be served
\* again, or one with a guessed proof.
ServeUnlock ==
  /\ \E p \in posts \cup [token : Token, proof : {FALSE}] :
       \/ /\ Unlock(p.token, p.proof)
          /\ earned' = earned \ {p.token}
       \/ RefuseUnlock(p.token, p.proof) /\ UNCHANGED earned
  /\ UNCHANGED <<task, posts, lockSent>>

ServeInsecure == UnlockInsecure /\ UNCHANGED shell

LosePost(p) ==
  /\ posts' = posts \ {p}
  /\ UNCHANGED <<backend, task, lockSent, earned>>

\* The page asks the shell to lock: it sends one request, unconfirmed.
RequestLock ==
  /\ ~lockSent
  /\ lockSent' = TRUE
  /\ UNCHANGED <<backend, task, posts, earned>>

ServeLock == lockSent /\ Lock /\ lockSent' = FALSE /\ UNCHANGED <<task, posts, earned>>

LoseLock ==
  /\ lockSent
  /\ lockSent' = FALSE
  /\ UNCHANGED <<backend, task, posts, earned>>

Review == (BeginReview \/ BeginSign \/ EndRequest) /\ UNCHANGED shell

Tick == BackendTick /\ UNCHANGED shell

Next ==
  \/ LaunchBackend \/ Exits
  \/ \E t \in Task :
       \/ RequestUnlock(t) \/ Authenticate(t) \/ EndTask(t)
       \/ \E c \in Token : FetchChallenge(t, c)
  \/ OtherRequest \/ ServeUnlock \/ ServeInsecure
  \/ \E p \in posts : LosePost(p)
  \/ RequestLock \/ ServeLock \/ LoseLock
  \/ Review \/ Tick

\* Time passes.  Nothing else is sure to happen.
Spec == Init /\ [][Next]_vars /\ WF_vars(Tick)

-----------------------------------------------------------------------------
(* Properties                                                              *)

\* Types of the backend and of the shell.
TypeOK ==
  /\ BackendTypeOK
  /\ task \in [Task -> {"idle", "dialog", "fetch", "wait"}]
  /\ posts \subseteq Post
  /\ lockSent \in BOOLEAN
  /\ earned \subseteq Token

\* "Challenge is single-use", "requires BOTH challenge_token AND
\* native_proof": outside development mode the window is opened, or its
\* deadline moved, only by a challenge the shell fetched after an OS
\* authentication and that opened nothing before, however the requests of
\* several tasks, old processes and other programs are served.
EveryOpeningIsEarned ==
  [][~insecure /\ window' > window =>
       \E c \in earned : earned' = earned \ {c}]_vars

\* A review that was told the window is open answers with decrypted fields:
\* nobody has locked the console between that check and the answer, though
\* the fetches in between take seconds (the window may have run out).
NoReviewAfterLock ==
  loop.busy = "review" /\ loop.open => ~loop.locked

\* "A time-bounded unlock state that expires after a configurable TTL": the
\* window closes by itself, though no timer runs and only a check compares the
\* clock: once the shell has no unlock under way and no request on its way,
\* reviewing quotes over and over does not keep it open.
WindowCloses ==
  <>[](posts = {} /\ \A t \in Task : task[t] = "idle") /\ ~insecure
    => <>[](window = 0)

\* "After 120s of inactivity, the window closes": inactivity ends with a use,
\* so a review that finds the window open gives it its whole time again.
UseKeepsOpen ==
  [][Open /\ loop = Free /\ loop'.busy = "review" => window' = WindowLife]_vars

=============================================================================
