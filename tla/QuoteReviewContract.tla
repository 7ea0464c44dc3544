------------------------- MODULE QuoteReviewContract -------------------------
(***************************************************************************)
(* What the hosted service promises about a quote on its way to review:    *)
(*                                                                         *)
(*   - a quote is started once, submitted once, and reviewed only after it *)
(*     was submitted; it never goes back;                                  *)
(*   - each signed action of a local device moves at most one quote, once. *)
(*                                                                         *)
(* HostedQuotes.tla implements it when a single process serves requests,   *)
(* whatever that process dies in the middle of.                            *)
(***************************************************************************)
CONSTANTS
  Quote,     \* quote ids
  ActionId   \* ids of signed actions

VARIABLES
  stage,     \* stage[q]: how far quote q has come
  applied    \* the actions that have moved a quote

vars == <<stage, applied>>

Stage == {"absent", "draft", "awaiting", "reviewing"}

Init ==
  /\ stage = [q \in Quote |-> "absent"]
  /\ applied = {}

Advance(q, from, to) ==
  /\ stage[q] = from
  /\ stage' = [stage EXCEPT ![q] = to]

Start(q)  == Advance(q, "absent", "draft") /\ UNCHANGED applied
Submit(q) == Advance(q, "draft", "awaiting") /\ UNCHANGED applied

Review(q, a) ==
  /\ Advance(q, "awaiting", "reviewing")
  /\ a \notin applied
  /\ applied' = applied \cup {a}

Next ==
  \E q \in Quote : Start(q) \/ Submit(q) \/ \E a \in ActionId : Review(q, a)

Spec == Init /\ [][Next]_vars
=============================================================================
