-------------------------- MODULE AnalysisLifecycle --------------------------
(***************************************************************************)
(* The analysis engine implements the promised lifecycle: the columns of   *)
(* the row are the abstract state, and requests, attempts, audit rows,     *)
(* reapers and time are invisible.                                         *)
(***************************************************************************)
EXTENDS Analysis

L == INSTANCE Lifecycle WITH
       status <- [i \in Items |-> row[i].status],
       calls  <- [i \in Items |-> row[i].attempt_count],
       result <- [i \in Items |-> row[i].analysis]

\* Every behaviour of the engine is a behaviour of Lifecycle: status, attempt_count
\* and analysis only change together, in the ways the state machine allows.
ImplementsLifecycle == L!Spec

=============================================================================
