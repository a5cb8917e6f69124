----------------------------- MODULE MCAccounts -----------------------------
(* Accounts for TLC: the requests, names, addresses and passwords are      *)
(* interchangeable.                                                        *)
EXTENDS Accounts, TLC

Symmetry ==
  Permutations(Req) \cup Permutations(Name) \cup Permutations(Email) \cup Permutations(Password)
=============================================================================
