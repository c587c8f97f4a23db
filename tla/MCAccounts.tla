------------------------------ MODULE MCAccounts ------------------------------
(* Instances of Accounts for TLC. *)
EXTENDS Accounts, TLC

CONSTANTS w1, w2, t1, t2, t3

AlikeSlots == Permutations({w1, w2}) \cup Permutations({t1, t2, t3})
=============================================================================
