------------------------------ MODULE Workflow ------------------------------
(***************************************************************************)
(* The rules of the work item lifecycle: work_items/domain/status.py and   *)
(* work_items/domain/transitions.py.  Pure operators and no state; the     *)
(* modules that have the work_item table extend this one.                  *)
(***************************************************************************)
EXTENDS Naturals

\* WorkItemStatus.
Statuses == {"RECEIVED", "ANALYSING", "READY_FOR_REVIEW", "FAILED", "COMPLETED"}

\* TransitionActor.
Actors == {"system", "operator"}

\* AttemptOutcome.
Outcomes == {"SUCCEEDED", "FAILED"}

\* TRANSITIONS: from each status, the set of statuses it may move to.
TRANSITIONS ==
  [s \in Statuses |->
     CASE s = "RECEIVED"         -> {"ANALYSING"}
       [] s = "ANALYSING"        -> {"READY_FOR_REVIEW", "FAILED"}
       [] s = "FAILED"           -> {"ANALYSING"}
       [] s = "READY_FOR_REVIEW" -> {"COMPLETED"}
       [] s = "COMPLETED"        -> {}]

\* MANUAL_TRANSITIONS: what an operator may request through PATCH /status.
MANUAL_TRANSITIONS == {<<"READY_FOR_REVIEW", "COMPLETED">>}

\* can_transition: the pair is in the table (a status is never its own successor).
can_transition(from, to) == from \in Statuses /\ to \in TRANSITIONS[from]

\* is_manual_transition.
is_manual_transition(from, to) == <<from, to>> \in MANUAL_TRANSITIONS

\* Mutant of attempts_remaining: off by one, an exhausted item still offers a retry.
attempts_remaining_off_by_one(attempt_count, max_attempts) ==
  IF attempt_count > max_attempts THEN 0 ELSE max_attempts + 1 - attempt_count

\* WorkItem.attempts_remaining: what is left of AI_MAX_ATTEMPTS, never negative.
attempts_remaining(attempt_count, max_attempts) ==
  IF attempt_count >= max_attempts THEN 0 ELSE max_attempts - attempt_count

\* allowed_actions: the buttons an operator is offered.
allowed_actions(status, remaining) ==
  CASE status = "RECEIVED"                       -> {"analyse"}
    [] status = "FAILED" /\ remaining > 0        -> {"retry"}
    [] status = "READY_FOR_REVIEW"               -> {"complete"}
    [] OTHER                                     -> {}

=============================================================================
