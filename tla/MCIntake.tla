------------------------------ MODULE MCIntake ------------------------------
(***************************************************************************)
(* Checking Intake with TLC: one external id submitted padded and with     *)
(* another description, a second external id, and an administrator who     *)
(* gives items that second one and that other description.                 *)
(***************************************************************************)
EXTENDS Intake, TLC

Texts == {"A", " A", "B", "t", "t ", "d", "e"}

Stripped ==
  [r \in Texts |-> CASE r = " A" -> "A" [] r = "t " -> "t" [] OTHER -> r]

Sent == {
  [external_id |-> " A", title |-> "t ", description |-> "d"],
  [external_id |-> "A",  title |-> "t",  description |-> "e"],
  [external_id |-> "B",  title |-> "t",  description |-> "d"]}

Typed == {[external_id |-> "B", title |-> "t", description |-> "e"]}

Interchangeable == Permutations(Workers) \cup Permutations(Ids)

=============================================================================
