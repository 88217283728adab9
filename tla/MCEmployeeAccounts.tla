-------------------------- MODULE MCEmployeeAccounts --------------------------
(* Small instances of EmployeeAccounts.                                      *)
EXTENDS EmployeeAccounts, TLC

Symm == Permutations(Calls) \cup Permutations(Emails) \cup Permutations(Standing)
=============================================================================
