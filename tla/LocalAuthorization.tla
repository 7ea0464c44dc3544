-------------------------- MODULE LocalAuthorization --------------------------
(***************************************************************************)
(* The backend of the local console as far as secure unlock goes: the      *)
(* challenge store and the endpoints of local_console/api/security.py, the *)
(* LocalAuthorizationWindow, and the review handlers that read it.         *)
(*                                                                         *)
(* One process with one event loop.  The security handlers take no time;   *)
(* a review handler calls the hosted service without awaiting, so the loop *)
(* is busy, and serves no other request, until it is done.  Deadlines are  *)
(* kept as the ticks left until they pass.  The state is in memory.        *)
(***************************************************************************)
EXTENDS Naturals

CONSTANTS
  Token,        \* bound: challenge tokens in use at one time
  Lifetime,     \* intake_challenge_expiry
  WindowLife    \* intake_local_unlock_ttl_seconds

ASSUME AuthorizationConstants ==
  Lifetime \in Nat \ {0} /\ WindowLife \in Nat \ {0}

VARIABLES
  insecure,    \* intake_enable_insecure_dev_unlock, which nothing changes
  up,          \* whether the process runs
  challenges,  \* _challenge_store: NoChallenge where it has no entry
  window,      \* ticks until _unlocked_until; 0 when closed
  loop         \* what the event loop is busy with

backend == <<insecure, up, challenges, window, loop>>

Challenge   == [left : 0..Lifetime, consumed : BOOLEAN]
NoChallenge == [left |-> 0]
Free == [busy |-> "no"]
Busy == [busy : {"review", "sign"}, open : BOOLEAN, locked : BOOLEAN]

BackendTypeOK ==
  /\ insecure \in BOOLEAN /\ up \in BOOLEAN
  /\ challenges \in [Token -> Challenge \cup {NoChallenge}]
  /\ window \in 0..WindowLife
  /\ loop \in Busy \cup {Free}

BackendInit ==
  /\ insecure \in BOOLEAN /\ up = FALSE
  /\ challenges = [c \in Token |-> NoChallenge]
  /\ window = 0 /\ loop = Free

Serving == up /\ loop = Free
Issued(c) == challenges[c] # NoChallenge
Open == window > 0

\* _cleanup_expired_challenges, which several endpoints call.
Cleaned(store) == [c \in Token |-> IF store[c] # NoChallenge /\ store[c].left = 0
                                   THEN NoChallenge ELSE store[c]]

\* GET /security/challenge, answered with a token that was never used.
GetChallenge(c) ==
  /\ Serving
  /\ ~Issued(c)
  /\ challenges' = Cleaned([challenges EXCEPT
                              ![c] = [left |-> Lifetime, consumed |-> FALSE]])
  /\ UNCHANGED <<insecure, up, window, loop>>

\* GET /security/status
GetStatus ==
  /\ Serving
  /\ challenges' = Cleaned(challenges)
  /\ UNCHANGED <<insecure, up, window, loop>>

\* Mutant: the proof is required and not compared.
ProofAccepted_Any(proof) == TRUE

\* _validate_native_proof: a proof is good or it is not.
ProofAccepted(proof) == proof

Usable(c) == Issued(c) /\ challenges[c].left > 0 /\ ~challenges[c].consumed

\* Mutant: the challenge is left as it was.
Spent_Not(c) == challenges

Spent(c) == [challenges EXCEPT ![c].consumed = TRUE]

\* POST /security/unlock with a challenge and a good proof of it.
Unlock(c, proof) ==
  /\ Serving
  /\ Usable(c) /\ ProofAccepted(proof)
  /\ challenges' = Spent(c)
  /\ window' = WindowLife
  /\ UNCHANGED <<insecure, up, loop>>

\* An expired challenge is spent; an unknown or a spent one is not touched,
\* nor is a challenge that came with a bad proof.
RefuseUnlock(c, proof) ==
  /\ Serving
  /\ ~Usable(c) \/ ~ProofAccepted(proof)
  /\ challenges' = IF Issued(c) /\ challenges[c].left = 0 THEN Spent(c) ELSE challenges
  /\ UNCHANGED <<insecure, up, window, loop>>

\* POST /security/unlock without either, in development mode.
UnlockInsecure ==
  /\ Serving /\ insecure
  /\ window' = WindowLife
  /\ UNCHANGED <<insecure, up, challenges, loop>>

\* Mutant: the handler runs in a worker thread, beside a busy loop.
Lock_Threaded ==
  /\ up
  /\ window' = 0
  /\ loop' = IF loop = Free THEN Free ELSE [loop EXCEPT !.locked = TRUE]
  /\ UNCHANGED <<insecure, up, challenges>>

\* POST /security/lock.  The last conjunct but one tells a busy loop of it.
Lock ==
  /\ Serving
  /\ window' = 0
  /\ loop' = IF loop = Free THEN Free ELSE [loop EXCEPT !.locked = TRUE]
  /\ UNCHANGED <<insecure, up, challenges>>

\* GET /quotes/{id}/review: the lock is looked at, then the projections and
\* the envelope are fetched, then what it said decides what is decrypted.  To
\* look at the lock does not move the deadline of the window.
BeginReview ==
  /\ Serving
  /\ loop' = [busy |-> "review", open |-> Open, locked |-> FALSE]
  /\ UNCHANGED <<insecure, up, challenges, window>>

\* POST /quotes/{id}/start-review signs and pushes; it asks for no window.
BeginSign ==
  /\ Serving
  /\ loop' = [busy |-> "sign", open |-> Open, locked |-> FALSE]
  /\ UNCHANGED <<insecure, up, challenges, window>>

\* The hosted service answered, refused or timed out.
EndRequest ==
  /\ up /\ loop # Free
  /\ loop' = Free
  /\ UNCHANGED <<insecure, up, challenges, window>>

BackendExits ==
  /\ up
  /\ up' = FALSE /\ UNCHANGED insecure
  /\ challenges' = [c \in Token |-> NoChallenge]
  /\ window' = 0 /\ loop' = Free

\* Mutant: the time left is counted on when the window has closed.
BackendTick_Below ==
  /\ \E c \in Token : challenges[c].left > 0
  /\ window' = window - 1
  /\ UNCHANGED <<insecure, up, challenges, loop>>

\* Mutant: a check does not compare the clock, so nothing but a lock closes it.
BackendTick_Unclosed ==
  /\ \E c \in Token : challenges[c].left > 0
  /\ challenges' = [c \in Token |-> IF challenges[c].left > 0
                      THEN [challenges[c] EXCEPT !.left = @ - 1] ELSE challenges[c]]
  /\ UNCHANGED <<insecure, up, window, loop>>

BackendTick ==
  /\ Open \/ \E c \in Token : challenges[c].left > 0
  /\ window' = IF Open THEN window - 1 ELSE 0
  /\ challenges' = [c \in Token |-> IF challenges[c].left > 0
                      THEN [challenges[c] EXCEPT !.left = @ - 1] ELSE challenges[c]]
  /\ UNCHANGED <<insecure, up, loop>>

=============================================================================
