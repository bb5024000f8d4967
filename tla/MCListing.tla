----------------------------- MODULE MCListing -----------------------------
(***************************************************************************)
(* Checking Listing with TLC: the values are in the .cfg file.  Items are  *)
(* interchangeable: only their place in the order matters.                 *)
(***************************************************************************)
EXTENDS Listing, TLC

InterchangeableItems == Permutations(Items)

=============================================================================
