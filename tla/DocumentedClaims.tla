-------------------------- MODULE DocumentedClaims --------------------------
(***************************************************************************)
(* What the repository's documentation and comments say of the analysis    *)
(* engine and the code does not quite do.  Each is checked by a run that   *)
(* finds the behaviour in which the two part; README.md explains them.     *)
(***************************************************************************)
EXTENDS Analysis

\* README.md: "A hard cap of AI_MAX_ATTEMPTS (default 5) prevents runaway retries".
HardCap == \A i \in Items : row[i].attempt_count <= MaxAttempts

\* _settle: "a result arriving after we gave up on it must not resurrect the row".
LateResultNeverResurrects ==
  \A i \in Items : row[i].analysis # 0 => ~GivenUp(i, row[i].analysis)

=============================================================================
