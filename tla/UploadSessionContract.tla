------------------------ MODULE UploadSessionContract ------------------------
(***************************************************************************)
(* What an upload session promises, the local receiver's and the broker's, *)
(* whatever the storage behind it does:                                    *)
(*                                                                         *)
(*   - a session is opened once, and files are accepted only while it is   *)
(*     open;                                                               *)
(*   - sealing it yields a manifest of exactly the files accepted so far,  *)
(*     once, and the manifest never changes afterwards;                    *)
(*   - a session may be closed at any time (expiry, cleanup, a restart of  *)
(*     the receiver) and is never opened again.                            *)
(*                                                                         *)
(* LocalReceiver.tla is shown to implement this specification, and so is   *)
(* UploadBroker.tla, whose sessions are never sealed.                      *)
(***************************************************************************)
CONSTANTS
  SessionId,  \* ids a session may have
  FileId      \* ids an accepted file may have

VARIABLES
  phase,      \* phase[s]: how far session s has come
  accepted,   \* accepted[s]: the files stored for s, or receipts of them
  manifest    \* manifest[s]: what the completion receipt of s lists

vars == <<phase, accepted, manifest>>

Phase == {"unopened", "open", "sealed", "closed"}

Init ==
  /\ phase = [s \in SessionId |-> "unopened"]
  /\ accepted = [s \in SessionId |-> {}]
  /\ manifest = [s \in SessionId |-> {}]

Open(s) ==
  /\ phase[s] = "unopened"
  /\ phase' = [phase EXCEPT ![s] = "open"]
  /\ UNCHANGED <<accepted, manifest>>

\* File ids are fresh: none is accepted twice, in this session or another.
Accept(s, f) ==
  /\ phase[s] = "open"
  /\ \A t \in SessionId : f \notin accepted[t]
  /\ accepted' = [accepted EXCEPT ![s] = @ \cup {f}]
  /\ UNCHANGED <<phase, manifest>>

Seal(s) ==
  /\ phase[s] = "open"
  /\ phase' = [phase EXCEPT ![s] = "sealed"]
  /\ manifest' = [manifest EXCEPT ![s] = accepted[s]]
  /\ UNCHANGED accepted

\* One session expires, or a restart closes all of them at once.
Close(S) ==
  /\ \A s \in S : phase[s] \in {"open", "sealed"}
  /\ phase' = [s \in SessionId |-> IF s \in S THEN "closed" ELSE phase[s]]
  /\ UNCHANGED <<accepted, manifest>>

Next ==
  \/ \E S \in SUBSET SessionId : Close(S)
  \/ \E s \in SessionId : Open(s) \/ Seal(s)
  \/ \E s \in SessionId, f \in FileId : Accept(s, f)

Spec == Init /\ [][Next]_vars
=============================================================================
