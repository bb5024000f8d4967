----------------------------- MODULE Lifecycle -----------------------------
(***************************************************************************)
(* What the system promises about one work item, whoever acts on it and in *)
(* whatever order: the state machine of work_items/domain, with the result *)
(* of the analysis as part of the state.  There are no requests, attempts, *)
(* reapers or clocks here; Analysis is shown to implement this module.     *)
(*                                                                         *)
(*   - an analysis starts from RECEIVED or FAILED only, and each start is  *)
(*     counted in `calls`;                                                 *)
(*   - READY_FOR_REVIEW and the result of one of those calls arrive        *)
(*     together, and the result is not replaced afterwards;                *)
(*   - a failed analysis leaves no trace of a result;                      *)
(*   - only a reviewable item is completed, and that is the end of it.     *)
(***************************************************************************)
EXTENDS Workflow

CONSTANTS Items, Deletable, Deleted

VARIABLES status, calls, result

vars == <<status, calls, result>>

Init ==
  /\ status = [i \in Items |-> "RECEIVED"]
  /\ calls = [i \in Items |-> 0]
  /\ result = [i \in Items |-> 0]

\* The item goes from one status to another; nothing else skips ahead of it.
Go(i, from, to) == status[i] = from /\ status' = [status EXCEPT ![i] = to]

Begin(i) ==
  /\ Go(i, "RECEIVED", "ANALYSING") \/ Go(i, "FAILED", "ANALYSING")
  /\ calls' = [calls EXCEPT ![i] = @ + 1]
  /\ UNCHANGED result

Succeed(i) ==
  /\ Go(i, "ANALYSING", "READY_FOR_REVIEW")
  /\ \E k \in 1 .. calls[i] : result' = [result EXCEPT ![i] = k]
  /\ UNCHANGED calls

Fail(i) == Go(i, "ANALYSING", "FAILED") /\ UNCHANGED <<calls, result>>

Complete(i) == Go(i, "READY_FOR_REVIEW", "COMPLETED") /\ UNCHANGED <<calls, result>>

Remove(i) ==
  /\ i \in Deletable
  /\ status[i] # Deleted
  /\ status' = [status EXCEPT ![i] = Deleted]
  /\ calls' = [calls EXCEPT ![i] = 0]
  /\ result' = [result EXCEPT ![i] = 0]

Next == \E i \in Items : Begin(i) \/ Succeed(i) \/ Fail(i) \/ Complete(i) \/ Remove(i)

Spec == Init /\ [][Next]_vars

=============================================================================
