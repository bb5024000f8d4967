----------------------------- MODULE MCAccounts -----------------------------
(***************************************************************************)
(* Checking Accounts with TLC: the values are in the .cfg files.  Requests *)
(* are interchangeable, and so are the keys accounts are given and the     *)
(* addresses.                                                              *)
(***************************************************************************)
EXTENDS Accounts, TLC

Interchangeable ==
  Permutations(Workers) \cup Permutations(Ids) \cup Permutations(Emails)

=============================================================================
