---------------------------- MODULE MCLocalConsole ----------------------------
(* The local console for TLC: secure unlock and the vendor cost ledger, which *)
(* share the process and nothing else.  Requests of both are served one at a  *)
(* time, so no step of one can tell what the other holds, and each is         *)
(* explored with the other as a launched process has it.                      *)
(*                                                                            *)
(* Three line items: two of one provider, on either side of monthly and       *)
(* one-time, and one of another, with confidence and risk of their own.       *)
EXTENDS SecureUnlock, CostLedger

CONSTANTS railway, yearly

MCEntry ==
  {[provider |-> railway, frequency |-> yearly, quantity |-> 2, unit_price |-> 3,
    confidence |-> 0, risk |-> 1],
   [provider |-> railway, frequency |-> OneTime, quantity |-> 1, unit_price |-> 4,
    confidence |-> 2, risk |-> 0]} \cup
  {[provider |-> p, frequency |-> yearly, quantity |-> 1, unit_price |-> 1,
    confidence |-> 4, risk |-> 3] : p \in Provider \ {railway}}

\* The process was launched, and nobody has asked for an unlock.
JustLaunched ==
  /\ up /\ ~insecure /\ loop = Free /\ window = 0
  /\ challenges = [c \in Token |-> NoChallenge]
  /\ task = [t \in Task |-> "idle"]
  /\ posts = {} /\ ~lockSent /\ earned = {}

MCNext ==
  \/ LedgerInit /\ Next /\ UNCHANGED ledger
  \/ JustLaunched /\ LedgerNext /\ UNCHANGED vars

MCInit == Init /\ LedgerInit

MCSpec ==
  /\ MCInit /\ [][MCNext]_<<vars, ledger>>
  /\ WF_<<vars, ledger>>(LedgerInit /\ Tick /\ UNCHANGED ledger)
=============================================================================
