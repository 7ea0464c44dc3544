-------------------------- MODULE MCEmailVerification --------------------------
(* EmailVerification with two accounts that ask for the same address: enough *)
(* codes for one account to have two active ones and the other a third.      *)
EXTENDS EmailVerification, TLC

CONSTANTS a1, a2, d1, d2

Interchangeable == Permutations({a1, a2}) \cup Permutations({d1, d2})

=============================================================================
