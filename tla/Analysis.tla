------------------------------ MODULE Analysis ------------------------------
(***************************************************************************)
(* The analysis engine: work_items/services/analysis.py and workflow.py,   *)
(* as the API views (analyse, retry, PATCH status), the reaper command and *)
(* an administrator's delete drive it, concurrently, on one database.      *)
(*                                                                         *)
(* A step is what the code does between two points where another process   *)
(* can intervene: one database statement or one atomic block, with the     *)
(* local computation before it.  A request that has read a row and not yet *)
(* written is a state of its own, so every check-then-act window is open.  *)
(***************************************************************************)
EXTENDS Workflow, Sequences, FiniteSets

CONSTANTS
  Items,        \* work items already taken in
  NoItem,       \* what an idle request holds
  Workers,      \* concurrent API requests (one per server thread)
  Reapers,      \* concurrent runs of reap_stale_analyses
  Crashable,    \* requests whose process may die
  Deletable,    \* items an administrator may delete
  CallCodes,    \* error codes a model call can end with (AIError.code, UNEXPECTED_ERROR)
  MaxAttempts,  \* settings.AI_MAX_ATTEMPTS
  Cutoffs,      \* ages a reaper may be run with: 2 * AI_TIMEOUT_SECONDS, --older-than-seconds
  AgeCap        \* ages saturate here: every age above all Cutoffs is the same to the code

NONE == "NONE"                      \* SQL NULL in a text column
Deleted == "DELETED"                \* no row
UNEXPECTED == "UNEXPECTED_ERROR"    \* UNEXPECTED_ERROR_CODE
STALE == "STALE_ANALYSIS"           \* STALE_ANALYSIS_CODE

ASSUME ItemsAssumption == NoItem \notin Items /\ Deletable \subseteq Items
ASSUME WorkersAssumption == 
  IsFiniteSet(Workers) /\ Workers # {} /\ Crashable \subseteq Workers
ASSUME CodesAssumption ==
  UNEXPECTED \in CallCodes /\ NONE \notin CallCodes /\ STALE \notin CallCodes
ASSUME NumbersAssumption ==
  /\ MaxAttempts \in Nat \ {0}
  /\ AgeCap \in Nat
  /\ Cutoffs \subseteq Nat
  /\ \A c \in Cutoffs : c < AgeCap

VARIABLES
  row,          \* row[i]: the work_item row
  attempts,     \* attempts[i][k]: the AnalysisAttempt row with attempt_no = k
  transitions,  \* transitions[i]: the StatusTransition rows, oldest first
  req,          \* req[w]: where request w is, and what it has read
  todo          \* todo[r]: the stale ids reaper r has not visited yet

vars == <<row, attempts, transitions, req, todo>>

Errors == CallCodes \cup {NONE, STALE}
Reasons == CallCodes \cup {"started", "succeeded", "reaped", "manual"}

\* `analysis` is the attempt whose result fills category, priority, summary,
\* recommended_action and analysis_model (0: all NULL).  `age` is the time since
\* analysis_started_at, read only while ANALYSING and kept at 0 otherwise.
WorkItem == [status : Statuses \cup {Deleted}, version : Nat, attempt_count : Nat,
             analysis : Nat, last_error_code : Errors, age : 0 .. AgeCap]

AnalysisAttempt == [outcome : Outcomes, error_code : CallCodes \cup {NONE}]

StatusTransition == [from : Statuses, to : Statuses, actor : Actors, reason : Reasons]

\* pc: "idle"; "claim": run_analysis entered, started_at taken `age` ago; "call":
\* the model is being called; "settle": the attempt row is saved; "patch": PATCH
\* has read the item.  from/to: the transition it will ask for; attempt: the
\* attempt row it opened; code: the failure it will record.
Request == [pc : {"idle", "claim", "call", "settle", "patch"}, item : Items \cup {NoItem},
            from : Statuses \cup {NONE}, to : Statuses \cup {NONE},
            attempt : Nat, code : CallCodes \cup {NONE}, age : 0 .. AgeCap]

Idle == [pc |-> "idle", item |-> NoItem, from |-> NONE, to |-> NONE,
         attempt |-> 0, code |-> NONE, age |-> 0]

NewRow == [status |-> "RECEIVED", version |-> 1, attempt_count |-> 0,
           analysis |-> 0, last_error_code |-> NONE, age |-> 0]

\* Mutant of OpenedAttempt: opened with the code that belongs to the reaper.
OpenedAttemptAsStale == [outcome |-> "FAILED", error_code |-> STALE]

\* The pessimistic attempt row: if the process dies now, it already reads FAILED.
OpenedAttempt == [outcome |-> "FAILED", error_code |-> UNEXPECTED]

NoRow == [status |-> Deleted, version |-> 0, attempt_count |-> 0,
          analysis |-> 0, last_error_code |-> NONE, age |-> 0]

Exists(i) == row[i].status # Deleted

-----------------------------------------------------------------------------
(* workflow.transition: the compare-and-set every status change goes       *)
(* through.  `fields` is the row with the caller's fields already written. *)

\* Mutant of transition: the UPDATE is not conditional on the status.
transition_unconditional(i, from, to, actor, reason, fields) ==
  /\ can_transition(from, to)
  /\ Exists(i)
  /\ row' = [row EXCEPT ![i] =
               [fields EXCEPT !.status = to,
                              !.version = row[i].version + 1,
                              !.age = IF to = "ANALYSING" THEN fields.age ELSE 0]]
  /\ transitions' = [transitions EXCEPT ![i] =
               Append(@, [from |-> from, to |-> to, actor |-> actor, reason |-> reason])]

transition(i, from, to, actor, reason, fields) ==
  /\ can_transition(from, to)
  /\ row[i].status = from
  /\ row' = [row EXCEPT ![i] =
               [fields EXCEPT !.status = to,
                              !.version = row[i].version + 1,
                              !.age = IF to = "ANALYSING" THEN fields.age ELSE 0]]
  /\ transitions' = [transitions EXCEPT ![i] =
               Append(@, [from |-> from, to |-> to, actor |-> actor, reason |-> reason])]

\* The two ways it raises, writing nothing: the row has moved on
\* (InvalidTransition) or is gone (WorkItemNotFound).
Refused(i, from) == row[i].status # from

Finish(w) == req' = [req EXCEPT ![w] = Idle]

-----------------------------------------------------------------------------
(* Requests.                                                               *)

\* analyse_work_item: the view has found the item; run_analysis takes started_at.
AnalyseWorkItem(w, i) ==
  /\ req[w].pc = "idle"
  /\ Exists(i)
  /\ req' = [req EXCEPT ![w] =
       [Idle EXCEPT !.pc = "claim", !.item = i, !.from = "RECEIVED", !.to = "ANALYSING"]]
  /\ UNCHANGED <<row, attempts, transitions, todo>>

\* Mutant of Retryable: the cap compared with > instead of >=.
RetryableOffByOne(i) == row[i].status = "FAILED" /\ row[i].attempt_count <= MaxAttempts

\* The checks of retry_work_item, on the row as it is read.
Retryable(i) == row[i].status = "FAILED" /\ row[i].attempt_count < MaxAttempts

\* retry_work_item: the checks pass, and the claim comes later.
RetryWorkItem(w, i) ==
  /\ req[w].pc = "idle"
  /\ Retryable(i)
  /\ req' = [req EXCEPT ![w] =
       [Idle EXCEPT !.pc = "claim", !.item = i, !.from = "FAILED", !.to = "ANALYSING"]]
  /\ UNCHANGED <<row, attempts, transitions, todo>>

\* Mutant of Claimed: the attempt is not counted.
ClaimedUncounted(w) == [row[req[w].item] EXCEPT !.age = req[w].age]

\* The fields _claim hands to transition: analysis_started_at and attempt_count.
Claimed(w) == [row[req[w].item] EXCEPT !.attempt_count = @ + 1, !.age = req[w].age]

\* Mutant of AttemptTaken: no unique constraint on the attempt numbers.
AttemptTakenNever(i) == FALSE

\* uniq_attempt_no_per_work_item would refuse the attempt row of the next claim.
AttemptTaken(i) == row[i].attempt_count + 1 \in DOMAIN attempts[i]

\* _claim: into ANALYSING and a pessimistic attempt row, in one transaction.
Claim(w) ==
  LET i == req[w].item
  IN  /\ req[w].pc = "claim"
      /\ ~AttemptTaken(i)
      /\ transition(i, req[w].from, req[w].to, "system", "started", Claimed(w))
      /\ attempts' = [attempts EXCEPT ![i] = Append(@, OpenedAttempt)]
      /\ req' = [req EXCEPT ![w] =
           [Idle EXCEPT !.pc = "call", !.item = i, !.from = "ANALYSING",
                        !.attempt = row[i].attempt_count + 1]]
      /\ UNCHANGED todo

\* The claim is refused and nothing is written: the caller gets 409 or 404, or 500 if
\* the attempt row clashes.  The model is not called.
ClaimRefused(w) ==
  /\ req[w].pc = "claim"
  /\ Refused(req[w].item, req[w].from) \/ AttemptTaken(req[w].item)
  /\ Finish(w)
  /\ UNCHANGED <<row, attempts, transitions, todo>>

\* Mutant of SaveAttempt: the item's latest attempt, whoever opened it.
SaveAttemptLatest(w, outcome, code) ==
  LET i == req[w].item
  IN  /\ Exists(i)
      /\ attempts' = [attempts EXCEPT ![i] =
           [@ EXCEPT ![Len(@)] = [outcome |-> outcome, error_code |-> code]]]

\* attempt.save(): the request's own attempt row, by primary key.
SaveAttempt(w, outcome, code) ==
  LET i == req[w].item
      k == req[w].attempt
  IN  /\ Exists(i)
      /\ attempts' = [attempts EXCEPT ![i] =
           [@ EXCEPT ![k] = [outcome |-> outcome, error_code |-> code]]]

\* Mutant of RecordSuccess: the item is settled without saving the attempt.
RecordSuccessUnsaved(w) ==
  /\ req[w].pc = "call"
  /\ Exists(req[w].item)
  /\ req' = [req EXCEPT ![w] = [@ EXCEPT !.pc = "settle", !.to = "READY_FOR_REVIEW"]]
  /\ UNCHANGED <<row, attempts, transitions, todo>>

\* The model answered and the answer parsed; _record_success saves the attempt.
RecordSuccess(w) ==
  /\ req[w].pc = "call"
  /\ SaveAttempt(w, "SUCCEEDED", NONE)
  /\ req' = [req EXCEPT ![w] = [@ EXCEPT !.pc = "settle", !.to = "READY_FOR_REVIEW"]]
  /\ UNCHANGED <<row, transitions, todo>>

\* Mutant of RecordFailure: only AIError is caught, other exceptions escape.
RecordFailureUncaught(w, code) ==
  /\ req[w].pc = "call"
  /\ IF code = UNEXPECTED
       THEN Finish(w) /\ UNCHANGED attempts
       ELSE /\ SaveAttempt(w, "FAILED", code)
            /\ req' = [req EXCEPT ![w] =
                 [@ EXCEPT !.pc = "settle", !.to = "FAILED", !.code = code]]
  /\ UNCHANGED <<row, transitions, todo>>

\* An AIError or any other exception; _record_failure saves the attempt.
RecordFailure(w, code) ==
  /\ req[w].pc = "call"
  /\ SaveAttempt(w, "FAILED", code)
  /\ req' = [req EXCEPT ![w] =
       [@ EXCEPT !.pc = "settle", !.to = "FAILED", !.code = code]]
  /\ UNCHANGED <<row, transitions, todo>>

\* The attempt row went away with its item: save(update_fields) raises.
SaveRefused(w) ==
  /\ req[w].pc = "call"
  /\ ~Exists(req[w].item)
  /\ Finish(w)
  /\ UNCHANGED <<row, attempts, transitions, todo>>

\* Mutant of Settled: the previous failure is not cleared by a success.
SettledKeepingError(w) ==
  LET old == row[req[w].item]
  IN  IF req[w].to = "READY_FOR_REVIEW"
        THEN [old EXCEPT !.analysis = req[w].attempt]
        ELSE [old EXCEPT !.last_error_code = req[w].code]

\* Mutant of Settled: the result is not in the UPDATE that sets the status.
SettledWithoutResult(w) ==
  [row[req[w].item] EXCEPT !.last_error_code = req[w].code]

\* The fields _record_success and _record_failure hand to _settle.
Settled(w) ==
  LET old == row[req[w].item]
  IN  IF req[w].to = "READY_FOR_REVIEW"
        THEN [old EXCEPT !.analysis = req[w].attempt, !.last_error_code = NONE]
        ELSE [old EXCEPT !.last_error_code = req[w].code]

\* _settle: out of ANALYSING with the outcome, whichever attempt put it there.
Settle(w) ==
  /\ req[w].pc = "settle"
  /\ transition(req[w].item, req[w].from, req[w].to, "system",
                IF req[w].to = "FAILED" THEN req[w].code ELSE "succeeded", Settled(w))
  /\ Finish(w)
  /\ UNCHANGED <<attempts, todo>>

\* _settle when the item left ANALYSING (or is gone): the outcome is discarded.
SettleDiscarded(w) ==
  /\ req[w].pc = "settle"
  /\ Refused(req[w].item, req[w].from)
  /\ Finish(w)
  /\ UNCHANGED <<row, attempts, transitions, todo>>

\* StatusView.patch reads the item and lets only a manual transition through.
PatchRead(w, i, target) ==
  /\ req[w].pc = "idle"
  /\ is_manual_transition(row[i].status, target)
  /\ req' = [req EXCEPT ![w] =
       [Idle EXCEPT !.pc = "patch", !.item = i, !.from = row[i].status, !.to = target]]
  /\ UNCHANGED <<row, attempts, transitions, todo>>

\* ... and then asks for the transition from the status it read.
PatchApply(w) ==
  /\ req[w].pc = "patch"
  /\ transition(req[w].item, req[w].from, req[w].to, "operator", "manual", row[req[w].item])
  /\ Finish(w)
  /\ UNCHANGED <<attempts, todo>>

PatchRefused(w) ==
  /\ req[w].pc = "patch"
  /\ Refused(req[w].item, req[w].from)
  /\ Finish(w)
  /\ UNCHANGED <<row, attempts, transitions, todo>>

\* The request ends without its next write: the process dies, the provider cannot
\* be built, or the database raises.
Crash(w) ==
  /\ w \in Crashable
  /\ req[w].pc # "idle"
  /\ Finish(w)
  /\ UNCHANGED <<row, attempts, transitions, todo>>

-----------------------------------------------------------------------------
(* reap_stale_analyses, the administrator and time.                        *)

\* Mutant of Stale: items without attempts left are not bothered with.
StaleAndRetryable(i, cutoff) ==
  /\ row[i].status = "ANALYSING"
  /\ row[i].age > cutoff
  /\ row[i].attempt_count < MaxAttempts

\* The reaper's query: ANALYSING and analysis_started_at before the cutoff.
Stale(i, cutoff) == row[i].status = "ANALYSING" /\ row[i].age > cutoff

\* One query collects the ids; the loop over them runs later, row by row.
ReapQuery(r) ==
  /\ todo[r] = {}
  /\ \E cutoff \in Cutoffs : todo' = [todo EXCEPT ![r] = {i \in Items : Stale(i, cutoff)}]
  /\ UNCHANGED <<row, attempts, transitions, req>>

\* An item of the list is still ANALYSING: it becomes FAILED, as abandoned.
Reap(r, i) ==
  /\ i \in todo[r]
  /\ transition(i, "ANALYSING", "FAILED", "system", "reaped",
                [row[i] EXCEPT !.last_error_code = STALE])
  /\ todo' = [todo EXCEPT ![r] = @ \ {i}]
  /\ UNCHANGED <<attempts, req>>

\* It left ANALYSING: InvalidTransition is caught and the loop goes on.
ReapSkipped(r, i) ==
  /\ i \in todo[r]
  /\ Exists(i) /\ Refused(i, "ANALYSING")
  /\ todo' = [todo EXCEPT ![r] = @ \ {i}]
  /\ UNCHANGED <<row, attempts, transitions, req>>

\* It was deleted: WorkItemNotFound is not caught and ends the whole run.
ReapAborted(r, i) ==
  /\ i \in todo[r]
  /\ ~Exists(i)
  /\ todo' = [todo EXCEPT ![r] = {}]
  /\ UNCHANGED <<row, attempts, transitions, req>>

\* The reaper process dies in the middle of its list.
ReaperCrash(r) ==
  /\ todo[r] # {}
  /\ todo' = [todo EXCEPT ![r] = {}]
  /\ UNCHANGED <<row, attempts, transitions, req>>

\* An administrator deletes the item; attempts and transitions cascade.
AdminDelete(i) ==
  /\ i \in Deletable
  /\ Exists(i)
  /\ row' = [row EXCEPT ![i] = NoRow]
  /\ attempts' = [attempts EXCEPT ![i] = <<>>]
  /\ transitions' = [transitions EXCEPT ![i] = <<>>]
  /\ UNCHANGED <<req, todo>>

Older(age) == IF age < AgeCap THEN age + 1 ELSE AgeCap

\* One unit of time passes.
Tick ==
  /\ row' = [i \in Items |-> IF row[i].status = "ANALYSING"
                               THEN [row[i] EXCEPT !.age = Older(@)] ELSE row[i]]
  /\ req' = [w \in Workers |-> IF req[w].pc = "claim"
                                 THEN [req[w] EXCEPT !.age = Older(@)] ELSE req[w]]
  /\ UNCHANGED <<attempts, transitions, todo>>

-----------------------------------------------------------------------------

Init ==
  /\ row = [i \in Items |-> NewRow]
  /\ attempts = [i \in Items |-> <<>>]
  /\ transitions = [i \in Items |-> <<>>]
  /\ req = [w \in Workers |-> Idle]
  /\ todo = [r \in Reapers |-> {}]

\* A request arrives.
Arrive(w) ==
  \E i \in Items : \/ AnalyseWorkItem(w, i)
                   \/ RetryWorkItem(w, i)
                   \/ \E target \in Statuses : PatchRead(w, i, target)

\* A request under way takes its next step.
Continue(w) ==
  \/ Claim(w) \/ ClaimRefused(w)
  \/ RecordSuccess(w) \/ SaveRefused(w)
  \/ \E code \in CallCodes : RecordFailure(w, code)
  \/ Settle(w) \/ SettleDiscarded(w)
  \/ PatchApply(w) \/ PatchRefused(w)

\* The reaper's loop visits one item.
ReapLoop(r) == \E i \in Items : Reap(r, i) \/ ReapSkipped(r, i) \/ ReapAborted(r, i)

Next ==
  \/ \E w \in Workers : Arrive(w) \/ Continue(w) \/ Crash(w)
  \/ \E r \in Reapers : ReapQuery(r) \/ ReapLoop(r) \/ ReaperCrash(r)
  \/ \E i \in Items : AdminDelete(i)
  \/ Tick

Spec == Init /\ [][Next]_vars

\* The reaper is a periodic job: it is started again and again, and not killed
\* before its first UPDATE every single time.  Nothing is asked of requests.
ReaperFairness ==
  /\ WF_vars(Tick)
  /\ \A r \in Reapers : WF_vars(ReapQuery(r)) /\ SF_vars(ReapLoop(r))

ReaperSpec == Spec /\ ReaperFairness

\* A request whose process does not die keeps running: the provider call is bounded by
\* its timeout and ends in an answer or an exception.
RequestFairness == \A w \in Workers \ Crashable : WF_vars(Continue(w))

LiveSpec == ReaperSpec /\ RequestFairness

-----------------------------------------------------------------------------
(* Properties.                                                             *)

\* Every variable has its type.
TypeOK ==
  /\ row \in [Items -> WorkItem]
  /\ attempts \in [Items -> Seq(AnalysisAttempt)]
  /\ transitions \in [Items -> Seq(StatusTransition)]
  /\ req \in [Workers -> Request]
  /\ todo \in [Reapers -> SUBSET Items]

LastReason(i) == transitions[i][Len(transitions[i])].reason

\* Positions of the moves into ANALYSING in the audit trail; the k-th opened attempt k.
Entries(i) == {n \in DOMAIN transitions[i] : transitions[i][n].to = "ANALYSING"}
Entry(i, k) == CHOOSE n \in Entries(i) : Cardinality({m \in Entries(i) : m <= n}) = k

\* The reaper declared attempt k abandoned: that is how its ANALYSING ended.
GivenUp(i, k) ==
  /\ Entry(i, k) + 1 \in DOMAIN transitions[i]
  /\ transitions[i][Entry(i, k) + 1].reason = "reaped"

Reaped(i) == {n \in DOMAIN transitions[i] : transitions[i][n].reason = "reaped"}

\* The requests that are in, or just after, a model call for the item.
InFlight(i) == {w \in Workers : req[w].pc \in {"call", "settle"} /\ req[w].item = i}

\* The retries of the item that have passed the cap check and not claimed yet.
Armed(i) == {w \in Workers : /\ req[w].pc = "claim"
                             /\ req[w].item = i
                             /\ req[w].from = "FAILED"}

\* The audit trail is the history of the status: it starts at RECEIVED, each row
\* begins where the previous one ended, makes a move of the table, ends at the
\* status the item has, and the version counts its rows (workflow.transition).
AuditTrailIsTheHistory ==
  \A i \in Items : Exists(i) =>
    LET t == transitions[i]
        At(n) == IF n = 0 THEN "RECEIVED" ELSE t[n].to
    IN  /\ \A n \in DOMAIN t : t[n].from = At(n - 1) /\ can_transition(t[n].from, t[n].to)
        /\ row[i].status = At(Len(t))
        /\ row[i].version = Len(t) + 1

\* Every model call is accounted for: as many attempt rows as attempt_count, and as
\* many as moves into ANALYSING (_claim).
EveryCallIsAnAttempt ==
  \A i \in Items : /\ row[i].attempt_count = Len(attempts[i])
                   /\ row[i].attempt_count = Cardinality(Entries(i))

\* What an operator reviews came from a call recorded as SUCCEEDED, and a result is
\* shown exactly when the item is reviewable (_record_success, the CHECK constraint
\* work_item_reviewable_has_analysis).
ResultProvenance ==
  \A i \in Items :
    LET k == row[i].analysis
    IN  /\ k # 0 <=> row[i].status \in {"READY_FOR_REVIEW", "COMPLETED"}
        /\ k # 0 => k \in DOMAIN attempts[i] /\ attempts[i][k].outcome = "SUCCEEDED"

\* The error an operator sees is the failure that happened: the one the last audit
\* row names, and, unless the reaper set it, the one of some failed attempt; a
\* reviewable item shows none (_record_failure, reap_stale_analyses).
ErrorIsExplained ==
  \A i \in Items :
    LET code == row[i].last_error_code
    IN  /\ row[i].status = "FAILED" =>
             \/ code = STALE /\ LastReason(i) = "reaped"
             \/ /\ code = LastReason(i)
                /\ \E k \in DOMAIN attempts[i] :
                     attempts[i][k] = [outcome |-> "FAILED", error_code |-> code]
        /\ row[i].status \in {"READY_FOR_REVIEW", "COMPLETED"} => code = NONE

\* How far the cap check of retry_work_item, made before the claim, can be overrun:
\* by one call for every request that passed it besides the first.
RetryOvershootBound ==
  \A i \in Items :
    row[i].attempt_count + Cardinality(Armed(i)) <= MaxAttempts + Cardinality(Workers) - 1

\* At most one live call per item, plus one for each time the reaper gave up on a
\* call that was in fact still running (run_analysis: "called exactly once").
CallsInFlightBounded ==
  \A i \in Items : Exists(i) =>
    Cardinality(InFlight(i)) <= 1 + Cardinality(Reaped(i))

\* The result shown is the last attempt's, unless the reaper gave up on that call or
\* an earlier one: one reaped call that answers late can put every later one out of
\* step with the item, and nothing else can (_settle).
OnlyReapedCallsAnswerLate ==
  \A i \in Items :
    LET k == row[i].analysis
    IN  k \notin {0, row[i].attempt_count} => \E j \in 1 .. k : GivenUp(i, j)

\* A call that succeeded is not lost in silence: its result is shown, or its request
\* is about to settle, or that request died with the item still ANALYSING, or the
\* reaper has intervened (_settle).
SuccessLostOnlyToReaper ==
  \A i \in Items : \A k \in DOMAIN attempts[i] :
    attempts[i][k].outcome = "SUCCEEDED" =>
      \/ row[i].analysis = k
      \/ row[i].status = "ANALYSING"
      \/ Reaped(i) # {}

\* Once a result is up for review nothing but its deletion changes it, and a
\* completed item is never moved again, whatever requests and reapers were under way.
OperatorDecisionStands ==
  [][\A i \in Items : row[i].analysis # 0 /\ row'[i].status # Deleted =>
       /\ row'[i].analysis = row[i].analysis
       /\ row[i].status = "COMPLETED" => row'[i] = row[i]]_vars

\* The history of an item only grows: audit rows are added and never changed, attempts
\* too, and one that succeeded stays so, whatever call ends late.  WorkItemDetailView
\* reads the item first and its attempts and transitions in two later queries, so what
\* it shows of the item is always explained by the history shown with it.
HistoryOnlyGrows ==
  [][\A i \in Items : Exists(i) /\ row'[i].status # Deleted =>
       /\ \A n \in DOMAIN transitions[i] :
            n \in DOMAIN transitions'[i] /\ transitions'[i][n] = transitions[i][n]
       /\ \A k \in DOMAIN attempts[i] :
            /\ k \in DOMAIN attempts'[i]
            /\ attempts[i][k].outcome = "SUCCEEDED" => attempts'[i][k] = attempts[i][k]]_vars

\* The buttons offered for an item are the requests the API would act on if they
\* arrived now (allowed_actions against the checks of the three endpoints).
OfferedIsAccepted ==
  \A i \in Items : Exists(i) =>
    allowed_actions(row[i].status, attempts_remaining(row[i].attempt_count, MaxAttempts)) =
      {a \in {"analyse", "retry", "complete"} :
         \/ a = "analyse" /\ ~Refused(i, "RECEIVED")
         \/ a = "retry" /\ Retryable(i)
         \/ a = "complete" /\ is_manual_transition(row[i].status, "COMPLETED")}

\* No item is stranded: whatever dies, a periodic reaper gets it out of ANALYSING.
NoItemStranded == \A i \in Items : row[i].status = "ANALYSING" ~> row[i].status # "ANALYSING"

\* A model call that its process survives is accounted for, whatever it raises and
\* whatever the reaper does meanwhile, unless an administrator deleted the item: its
\* outcome is saved, and it goes on to settle the item ("every exit is accounted for").
EveryCallIsRecorded ==
  \A w \in Workers \ Crashable, i \in Items :
    req[w].pc = "call" /\ req[w].item = i ~> req[w].pc = "settle" \/ ~Exists(i)

=============================================================================
