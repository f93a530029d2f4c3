--------------------------- MODULE MCUserAccounts ---------------------------
(* Instances of UserAccounts for TLC. *)
EXTENDS UserAccounts, TLC

CallAndAddressSymmetry == Permutations(Calls) \cup Permutations(Emails)
=============================================================================
