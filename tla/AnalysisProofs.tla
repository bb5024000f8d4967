--------------------------- MODULE AnalysisProofs ---------------------------
(***************************************************************************)
(* Theorems about Analysis, for any number of items, requests and reapers, *)
(* any cap and any cutoffs.                                                *)
(***************************************************************************)
EXTENDS AnalysisLifecycle, SequenceTheorems, FiniteSetTheorems, TLAPS

-----------------------------------------------------------------------------
(* Type correctness.                                                       *)

\* The transition table never leads out of the statuses.
LEMMA TableIsClosed ==
  ASSUME NEW from, NEW to, can_transition(from, to)
  PROVE  from \in Statuses /\ to \in Statuses
  BY DEF can_transition, TRANSITIONS, Statuses

\* The compare-and-set keeps the table and the audit trail well typed, whatever
\* well-typed fields it is given.
LEMMA TransitionTypes ==
  ASSUME TypeOK, NEW i \in Items, NEW from, NEW to,
         NEW actor \in Actors, NEW reason \in Reasons, NEW fields \in WorkItem,
         transition(i, from, to, actor, reason, fields)
  PROVE  row' \in [Items -> WorkItem] /\ transitions' \in [Items -> Seq(StatusTransition)]
<1>1. from \in Statuses /\ to \in Statuses
  BY TableIsClosed DEF transition
<1>2. row[i] \in WorkItem
  BY DEF TypeOK
<1>3. 0 \in 0 .. AgeCap
  BY NumbersAssumption
<1>4. [fields EXCEPT !.status = to, !.version = row[i].version + 1,
                     !.age = IF to = "ANALYSING" THEN fields.age ELSE 0] \in WorkItem
  <2>1. row[i].version + 1 \in Nat
    BY <1>2 DEF WorkItem
  <2>2. (IF to = "ANALYSING" THEN fields.age ELSE 0) \in 0 .. AgeCap
    BY <1>3 DEF WorkItem
  <2> QED
    BY <1>1, <2>1, <2>2 DEF WorkItem
<1>5. row' \in [Items -> WorkItem]
  BY <1>4 DEF transition, TypeOK
<1>6. [from |-> from, to |-> to, actor |-> actor, reason |-> reason] \in StatusTransition
  BY <1>1 DEF StatusTransition
<1>7. Append(transitions[i], [from |-> from, to |-> to, actor |-> actor, reason |-> reason])
        \in Seq(StatusTransition)
  BY <1>6 DEF TypeOK
<1>8. transitions' \in [Items -> Seq(StatusTransition)]
  BY <1>7 DEF transition, TypeOK
<1> QED
  BY <1>5, <1>8

\* The request states the actions build are well typed.
LEMMA IdleType == Idle \in Request
<1>1. 0 \in 0 .. AgeCap
  BY NumbersAssumption
<1> QED
  BY <1>1 DEF Idle, Request

LEMMA NewRowTypes == NewRow \in WorkItem /\ NoRow \in WorkItem
<1>1. 0 \in 0 .. AgeCap
  BY NumbersAssumption
<1> QED
  BY <1>1 DEF NewRow, NoRow, WorkItem, Statuses, Errors

LEMMA AgeType == ASSUME NEW a \in 0 .. AgeCap PROVE Older(a) \in 0 .. AgeCap
  BY NumbersAssumption DEF Older

\* What a request knows at each point: its item, the transition it will ask for and,
\* when it is about to settle a failure, the code of that failure.
ShapeOf(q) ==
  /\ q.pc # "idle" => q.item \in Items
  /\ q.pc = "claim" => q.from \in {"RECEIVED", "FAILED"} /\ q.to = "ANALYSING"
  /\ q.pc \in {"call", "settle"} => q.from = "ANALYSING"
  /\ q.pc = "settle" => \/ q.to = "READY_FOR_REVIEW"
                        \/ q.to = "FAILED" /\ q.code \in CallCodes
  /\ q.pc = "patch" => q.from = "READY_FOR_REVIEW" /\ q.to = "COMPLETED"

RequestShape == \A w \in Workers : ShapeOf(req[w])

LEMMA RequestStep ==
  ASSUME TypeOK, RequestShape, NEW w \in Workers, NEW q \in Request, ShapeOf(q),
         req' = [req EXCEPT ![w] = q]
  PROVE  req' \in [Workers -> Request] /\ RequestShape'
  BY DEF TypeOK, RequestShape, ShapeOf

LEMMA FinishStep ==
  ASSUME TypeOK, RequestShape, NEW w \in Workers, Finish(w)
  PROVE  req' \in [Workers -> Request] /\ RequestShape'
<1>1. ShapeOf(Idle)
  BY DEF ShapeOf, Idle
<1> QED
  BY <1>1, IdleType, RequestStep DEF Finish

LEMMA InitTypeOK == Init => TypeOK /\ RequestShape
<1> SUFFICES ASSUME Init PROVE TypeOK /\ RequestShape
  OBVIOUS
<1>1. row \in [Items -> WorkItem]
  BY NewRowTypes DEF Init
<1>2. attempts \in [Items -> Seq(AnalysisAttempt)] /\ transitions \in [Items -> Seq(StatusTransition)]
  BY DEF Init
<1>3. req \in [Workers -> Request]
  BY IdleType DEF Init
<1>4. todo \in [Reapers -> SUBSET Items]
  BY DEF Init
<1>5. RequestShape
  BY DEF Init, RequestShape, ShapeOf, Idle
<1> QED
  BY <1>1, <1>2, <1>3, <1>4, <1>5 DEF TypeOK

\* Arriving writes nothing: it leaves a request about to claim or to patch.
LEMMA ArriveStep ==
  ASSUME TypeOK, NEW w \in Workers, Arrive(w)
  PROVE  /\ UNCHANGED <<row, attempts, transitions, todo>>
         /\ \E q \in Request : /\ ShapeOf(q)
                              /\ q.pc \in {"claim", "patch"}
                              /\ req' = [req EXCEPT ![w] = q]
<1>1. PICK i \in Items : \/ AnalyseWorkItem(w, i)
                        \/ RetryWorkItem(w, i)
                        \/ \E target \in Statuses : PatchRead(w, i, target)
  BY DEF Arrive
<1>2. 0 \in 0 .. AgeCap
  BY NumbersAssumption
<1>3. UNCHANGED <<row, attempts, transitions, todo>>
  BY <1>1 DEF AnalyseWorkItem, RetryWorkItem, PatchRead
<1>4. \E q \in Request : /\ ShapeOf(q)
                         /\ q.pc \in {"claim", "patch"}
                         /\ req' = [req EXCEPT ![w] = q]
  <2>1. CASE AnalyseWorkItem(w, i)
    BY <2>1, <1>2 DEF AnalyseWorkItem, Idle, Request, Statuses, ShapeOf
  <2>2. CASE RetryWorkItem(w, i)
    BY <2>2, <1>2 DEF RetryWorkItem, Idle, Request, Statuses, ShapeOf
  <2>3. CASE \E target \in Statuses : PatchRead(w, i, target)
    <3>1. PICK target \in Statuses : PatchRead(w, i, target)
      BY <2>3
    <3>2. row[i].status = "READY_FOR_REVIEW" /\ target = "COMPLETED"
      BY <3>1 DEF PatchRead, is_manual_transition, MANUAL_TRANSITIONS
    <3> QED
      BY <3>1, <3>2, <1>2 DEF PatchRead, Idle, Request, Statuses, ShapeOf
  <2> QED
    BY <1>1, <2>1, <2>2, <2>3
<1> QED
  BY <1>3, <1>4

LEMMA ArriveTypeOK ==
  ASSUME TypeOK, RequestShape, NEW w \in Workers, Arrive(w)
  PROVE  TypeOK' /\ RequestShape'
  BY ArriveStep, RequestStep DEF TypeOK

LEMMA ContinueTypeOK ==
  ASSUME TypeOK, RequestShape, NEW w \in Workers, Continue(w)
  PROVE  TypeOK' /\ RequestShape'
<1> DEFINE i == req[w].item
<1>1. i \in Items
  BY DEF Continue, RequestShape, ShapeOf, Claim, ClaimRefused, RecordSuccess, SaveRefused,
         RecordFailure, Settle, SettleDiscarded, PatchApply, PatchRefused
<1>2. row[i] \in WorkItem /\ req[w] \in Request /\ ShapeOf(req[w])
  BY <1>1 DEF TypeOK, RequestShape
<1>3. CASE Claim(w)
  <2>1. Claimed(w) \in WorkItem
    <3>1. row[i].attempt_count + 1 \in Nat
      BY <1>2 DEF WorkItem
    <3>2. req[w].age \in 0 .. AgeCap
      BY <1>2 DEF Request
    <3> QED
      BY <1>2, <3>1, <3>2 DEF Claimed, WorkItem
  <2>2. row' \in [Items -> WorkItem] /\ transitions' \in [Items -> Seq(StatusTransition)]
    BY <1>1, <1>3, <2>1, TransitionTypes DEF Claim, Actors, Reasons
  <2>3. attempts' \in [Items -> Seq(AnalysisAttempt)]
    <3>1. OpenedAttempt \in AnalysisAttempt
      BY CodesAssumption DEF OpenedAttempt, AnalysisAttempt, Outcomes
    <3>2. Append(attempts[i], OpenedAttempt) \in Seq(AnalysisAttempt)
      BY <1>1, <3>1 DEF TypeOK
    <3> QED
      BY <1>3, <3>2 DEF Claim, TypeOK
  <2>4. \E q \in Request : ShapeOf(q) /\ req' = [req EXCEPT ![w] = q]
    <3>1. row[i].attempt_count + 1 \in Nat
      BY <1>2 DEF WorkItem
    <3>2. 0 \in 0 .. AgeCap
      BY NumbersAssumption
    <3> QED
      BY <1>1, <1>3, <3>1, <3>2 DEF Claim, Idle, Request, Statuses, ShapeOf
  <2>5. UNCHANGED todo
    BY <1>3 DEF Claim
  <2> QED
    BY <2>2, <2>3, <2>4, <2>5, RequestStep DEF TypeOK
<1>4. CASE \/ RecordSuccess(w)
           \/ \E code \in CallCodes : RecordFailure(w, code)
  <2>1. PICK outcome \in Outcomes, code \in CallCodes \cup {NONE} : SaveAttempt(w, outcome, code)
    BY <1>4 DEF RecordSuccess, RecordFailure, Outcomes
  <2>2. [outcome |-> outcome, error_code |-> code] \in AnalysisAttempt
    BY DEF AnalysisAttempt
  <2>3. attempts' \in [Items -> Seq(AnalysisAttempt)]
    <3>1. attempts[i] \in Seq(AnalysisAttempt)
      BY <1>1 DEF TypeOK
    <3>2. [attempts[i] EXCEPT ![req[w].attempt] = [outcome |-> outcome, error_code |-> code]]
            \in Seq(AnalysisAttempt)
      <4>1. CASE req[w].attempt \in 1 .. Len(attempts[i])
        BY <3>1, <2>2, <4>1, ExceptSeq
      <4>2. CASE req[w].attempt \notin 1 .. Len(attempts[i])
        <5> DEFINE s == attempts[i]
        <5>1. DOMAIN s = 1 .. Len(s) /\ s = [x \in DOMAIN s |-> s[x]]
          BY <3>1
        <5>2. [s EXCEPT ![req[w].attempt] = [outcome |-> outcome, error_code |-> code]] = s
          BY <5>1, <4>2
        <5> QED
          BY <3>1, <5>2
      <4> QED
        BY <4>1, <4>2
    <3> QED
      BY <2>1, <3>2 DEF SaveAttempt, TypeOK
  <2>4. req' \in [Workers -> Request] /\ RequestShape'
    <3>1. \E q \in Request : ShapeOf(q) /\ req' = [req EXCEPT ![w] = q]
      <4>1. CASE RecordSuccess(w)
        <5>1. [req[w] EXCEPT !.pc = "settle", !.to = "READY_FOR_REVIEW"] \in Request
          BY <1>2 DEF Request, Statuses
        <5> QED
          BY <4>1, <5>1, <1>1, <1>2 DEF RecordSuccess, Request, ShapeOf
      <4>2. CASE \E c \in CallCodes : RecordFailure(w, c)
        <5>1. PICK c \in CallCodes : RecordFailure(w, c)
          BY <4>2
        <5>2. [req[w] EXCEPT !.pc = "settle", !.to = "FAILED", !.code = c] \in Request
          BY <1>2 DEF Request, Statuses
        <5> QED
          BY <5>1, <5>2, <1>1, <1>2 DEF RecordFailure, Request, ShapeOf
      <4> QED
        BY <1>4, <4>1, <4>2
    <3> QED
      BY <3>1, RequestStep
  <2>5. UNCHANGED <<row, transitions, todo>>
    BY <1>4 DEF RecordSuccess, RecordFailure
  <2> QED
    BY <2>3, <2>4, <2>5 DEF TypeOK
<1>5. CASE Settle(w)
  <2>1. Settled(w) \in WorkItem
    BY <1>2 DEF Settled, WorkItem, Request, Errors
  <2>2. (IF req[w].to = "FAILED" THEN req[w].code ELSE "succeeded") \in Reasons
    BY <1>2, <1>5 DEF Request, Reasons, Settle, ShapeOf
  <2>3. row' \in [Items -> WorkItem] /\ transitions' \in [Items -> Seq(StatusTransition)]
    BY <1>1, <1>5, <2>1, <2>2, TransitionTypes DEF Settle, Actors
  <2>4. req' \in [Workers -> Request] /\ RequestShape'
    BY <1>5, FinishStep DEF Settle
  <2> QED
    BY <1>5, <2>3, <2>4 DEF Settle, TypeOK
<1>6. CASE PatchApply(w)
  <2>1. row' \in [Items -> WorkItem] /\ transitions' \in [Items -> Seq(StatusTransition)]
    BY <1>1, <1>2, <1>6, TransitionTypes DEF PatchApply, Actors, Reasons
  <2>2. req' \in [Workers -> Request] /\ RequestShape'
    BY <1>6, FinishStep DEF PatchApply
  <2> QED
    BY <1>6, <2>1, <2>2 DEF PatchApply, TypeOK
<1>7. CASE ClaimRefused(w) \/ SaveRefused(w) \/ SettleDiscarded(w) \/ PatchRefused(w)
  <2>1. Finish(w) /\ UNCHANGED <<row, attempts, transitions, todo>>
    BY <1>7 DEF ClaimRefused, SaveRefused, SettleDiscarded, PatchRefused
  <2> QED
    BY <2>1, FinishStep DEF TypeOK
<1> QED
  BY <1>3, <1>4, <1>5, <1>6, <1>7 DEF Continue

LEMMA ReapTypeOK ==
  ASSUME TypeOK, RequestShape, NEW r \in Reapers,
         ReapQuery(r) \/ ReapLoop(r) \/ ReaperCrash(r)
  PROVE  TypeOK' /\ RequestShape'
<1>1. CASE \E i \in Items : Reap(r, i)
  <2>1. PICK i \in Items : Reap(r, i)
    BY <1>1
  <2>2. [row[i] EXCEPT !.last_error_code = STALE] \in WorkItem
    BY DEF TypeOK, WorkItem, Errors
  <2>3. row' \in [Items -> WorkItem] /\ transitions' \in [Items -> Seq(StatusTransition)]
    BY <2>1, <2>2, TransitionTypes DEF Reap, Actors, Reasons
  <2> QED
    BY <2>1, <2>3 DEF Reap, TypeOK, RequestShape
<1>2. CASE ReapQuery(r)
  BY <1>2 DEF ReapQuery, TypeOK, RequestShape
<1>3. CASE ReaperCrash(r) \/ \E i \in Items : ReapSkipped(r, i) \/ ReapAborted(r, i)
  BY <1>3 DEF ReaperCrash, ReapSkipped, ReapAborted, TypeOK, RequestShape
<1> QED
  BY <1>1, <1>2, <1>3 DEF ReapLoop

LEMMA DeleteTypeOK ==
  ASSUME TypeOK, RequestShape, NEW i \in Items, AdminDelete(i)
  PROVE  TypeOK' /\ RequestShape'
  BY NewRowTypes DEF AdminDelete, TypeOK, RequestShape

LEMMA TickTypeOK ==
  ASSUME TypeOK, RequestShape, Tick
  PROVE  TypeOK' /\ RequestShape'
<1>1. \A i \in Items : [row[i] EXCEPT !.age = Older(@)] \in WorkItem
  BY AgeType DEF TypeOK, WorkItem
<1>2. row' \in [Items -> WorkItem]
  BY <1>1 DEF Tick, TypeOK
<1>3. \A w \in Workers : [req[w] EXCEPT !.age = Older(@)] \in Request
  BY AgeType DEF TypeOK, Request
<1>4. req' \in [Workers -> Request]
  BY <1>3 DEF Tick, TypeOK
<1>5. RequestShape'
  BY DEF Tick, TypeOK, Request, RequestShape, ShapeOf
<1> QED
  BY <1>2, <1>4, <1>5 DEF Tick, TypeOK

LEMMA NextTypeOK == TypeOK /\ RequestShape /\ [Next]_vars => TypeOK' /\ RequestShape'
<1> SUFFICES ASSUME TypeOK, RequestShape, [Next]_vars
             PROVE  TypeOK' /\ RequestShape'
  OBVIOUS
<1>1. ASSUME NEW w \in Workers, Arrive(w) PROVE TypeOK' /\ RequestShape'
  BY <1>1, ArriveTypeOK
<1>2. ASSUME NEW w \in Workers, Continue(w) PROVE TypeOK' /\ RequestShape'
  BY <1>2, ContinueTypeOK
<1>3. ASSUME NEW w \in Workers, Crash(w) PROVE TypeOK' /\ RequestShape'
  BY <1>3, FinishStep DEF Crash, TypeOK
<1>4. ASSUME NEW r \in Reapers, ReapQuery(r) \/ ReapLoop(r) \/ ReaperCrash(r)
      PROVE  TypeOK' /\ RequestShape'
  BY <1>4, ReapTypeOK
<1>5. ASSUME NEW i \in Items, AdminDelete(i) PROVE TypeOK' /\ RequestShape'
  BY <1>5, DeleteTypeOK
<1>6. CASE Tick
  BY <1>6, TickTypeOK
<1>7. CASE UNCHANGED vars
  BY <1>7 DEF vars, TypeOK, RequestShape
<1> QED
  BY <1>1, <1>2, <1>3, <1>4, <1>5, <1>6, <1>7 DEF Next

\* Every variable keeps its type, and no request loses its item or its error code.
THEOREM TypeCorrect == Spec => [](TypeOK /\ RequestShape)
  BY InitTypeOK, NextTypeOK, PTL DEF Spec

-----------------------------------------------------------------------------
(* Where a reviewed result comes from.  ResultProvenance is not inductive: *)
(* it survives a request saving its attempt row or settling only because   *)
(* that request still owns the row, alone, and the row is not the one the  *)
(* item's result came from.  Ownership says so.                            *)

Calling(w) == req[w].pc \in {"call", "settle"} /\ Exists(req[w].item)

\* attempt_count is the number of attempt rows (they are never removed one by one).
AttemptsCounted == \A i \in Items : Len(attempts[i]) = row[i].attempt_count

\* A request in a call holds an attempt row of its item that is not the source of the
\* item's result, and saves it before it settles a success.
OwnAttempt ==
  \A w \in Workers : Calling(w) =>
    LET i == req[w].item
        k == req[w].attempt
    IN  /\ k \in 1 .. row[i].attempt_count
        /\ k # row[i].analysis
        /\ req[w].pc = "settle" /\ req[w].to = "READY_FOR_REVIEW" =>
             attempts[i][k].outcome = "SUCCEEDED"

\* No two requests hold the same attempt row.
DistinctAttempts ==
  \A v, w \in Workers :
    v # w /\ Calling(v) /\ Calling(w) /\ req[v].item = req[w].item
      => req[v].attempt # req[w].attempt

Ownership == AttemptsCounted /\ OwnAttempt /\ DistinctAttempts

Inv == TypeOK /\ RequestShape /\ Ownership /\ ResultProvenance

\* A step that opens no attempt, saves none and produces no result leaves every item's
\* columns behind ownership as they were, and lets requests only stop calling.
Undisturbed ==
  /\ attempts' = attempts
  /\ \A i \in Items : /\ row'[i].attempt_count = row[i].attempt_count
                      /\ row'[i].analysis = row[i].analysis
                      /\ row'[i].status = Deleted <=> row[i].status = Deleted
  /\ \A w \in Workers :
       req'[w].pc \in {"call", "settle"} =>
         /\ req'[w].pc = req[w].pc
         /\ req'[w].item = req[w].item
         /\ req'[w].attempt = req[w].attempt
         /\ req'[w].to = req[w].to

LEMMA UndisturbedOwnership ==
  ASSUME TypeOK, RequestShape, Ownership, Undisturbed
  PROVE  Ownership'
<1>1. AttemptsCounted'
  BY DEF Ownership, AttemptsCounted, Undisturbed
<1>2. \A w \in Workers : Calling(w)' => /\ Calling(w)
                                        /\ req[w].item \in Items
                                        /\ req'[w].pc = req[w].pc
                                        /\ req'[w].item = req[w].item
                                        /\ req'[w].attempt = req[w].attempt
                                        /\ req'[w].to = req[w].to
  BY DEF Calling, Exists, Undisturbed, RequestShape, ShapeOf
<1>3. OwnAttempt'
  BY <1>2 DEF OwnAttempt, Ownership, Undisturbed
<1>4. DistinctAttempts'
  BY <1>2 DEF DistinctAttempts, Ownership
<1> QED
  BY <1>1, <1>3, <1>4 DEF Ownership

LEMMA InitOwnership == Init => Ownership /\ ResultProvenance
  BY DEF Init, Ownership, AttemptsCounted, OwnAttempt, DistinctAttempts, Calling,
         ResultProvenance, Idle, NewRow

LEMMA FinishStops ==
  ASSUME TypeOK, NEW w \in Workers, Finish(w)
  PROVE  /\ req'[w].pc = "idle"
         /\ \A v \in Workers \ {w} : req'[v] = req[v]
  BY DEF Finish, Idle, TypeOK

\* Steps that end a request, or start one, and write nothing.
LEMMA QuietOwnership ==
  ASSUME Inv, NEW w \in Workers,
         \/ Arrive(w)
         \/ Finish(w) /\ UNCHANGED <<row, attempts, transitions, todo>>
  PROVE  Ownership' /\ ResultProvenance'
<1>1. UNCHANGED <<row, attempts>>
  BY DEF Arrive, AnalyseWorkItem, RetryWorkItem, PatchRead
<1>2. req'[w].pc \notin {"call", "settle"} /\ \A v \in Workers \ {w} : req'[v] = req[v]
  <2>1. CASE Finish(w)
    BY <2>1, FinishStops DEF Inv
  <2>2. CASE Arrive(w)
    <3>1. \E q \in Request : q.pc \in {"claim", "patch"} /\ req' = [req EXCEPT ![w] = q]
      BY <2>2, ArriveStep DEF Inv
    <3> QED
      BY <3>1 DEF Inv, TypeOK
  <2> QED
    BY <2>1, <2>2
<1>3. Undisturbed
  BY <1>1, <1>2 DEF Undisturbed
<1> QED
  BY <1>1, <1>3, UndisturbedOwnership DEF Inv, ResultProvenance

\* A claim opens the next attempt row, which nobody holds and no result came from.
LEMMA ClaimOwnership ==
  ASSUME Inv, NEW w \in Workers, Claim(w)
  PROVE  Ownership' /\ ResultProvenance'
<1> DEFINE i == req[w].item
           k == row[i].attempt_count + 1
<1>1. /\ i \in Items
      /\ row[i] \in WorkItem
      /\ attempts[i] \in Seq(AnalysisAttempt)
      /\ req[w].from \in {"RECEIVED", "FAILED"}
      /\ req[w].to = "ANALYSING"
  BY DEF Claim, Inv, RequestShape, ShapeOf, TypeOK
<1>2. row[i].attempt_count \in Nat /\ k = Len(attempts[i]) + 1 /\ k \in Nat /\ k > 0
  BY <1>1 DEF Inv, Ownership, AttemptsCounted, WorkItem
<1>3. Claimed(w) \in WorkItem /\ Claimed(w).attempt_count = k /\ Claimed(w).analysis = row[i].analysis
  <2>1. req[w].age \in 0 .. AgeCap
    BY DEF Inv, TypeOK, Request
  <2> QED
    BY <1>1, <1>2, <2>1 DEF Claimed, WorkItem
<1>4. /\ row[i].status = req[w].from
      /\ row'[i].status = "ANALYSING"
      /\ row'[i].attempt_count = k
      /\ row'[i].analysis = row[i].analysis
      /\ \A j \in Items \ {i} : row'[j] = row[j]
  <2>1. transition(i, req[w].from, req[w].to, "system", "started", Claimed(w))
    BY DEF Claim
  <2>2. TypeOK
    BY DEF Inv
  <2>3. /\ row[i].status = req[w].from
        /\ row'[i].status = req[w].to
        /\ row'[i].attempt_count = Claimed(w).attempt_count
        /\ row'[i].analysis = Claimed(w).analysis
        /\ \A j \in Items \ {i} : row'[j] = row[j]
    BY <1>1, <1>3, <2>1, <2>2 DEF transition, TypeOK, WorkItem
  <2> QED
    BY <1>1, <1>3, <2>3
<1>5. row[i].analysis = 0
  BY <1>1, <1>4 DEF Inv, ResultProvenance
<1>6. /\ attempts'[i] = Append(attempts[i], OpenedAttempt)
      /\ \A j \in Items \ {i} : attempts'[j] = attempts[j]
  BY <1>1 DEF Claim, Inv, TypeOK
<1>7. /\ Len(attempts'[i]) = k
      /\ \A n \in 1 .. row[i].attempt_count : attempts'[i][n] = attempts[i][n]
  BY <1>1, <1>2, <1>6 DEF Inv, Ownership, AttemptsCounted
<1>8. /\ req'[w].pc = "call" /\ req'[w].item = i /\ req'[w].attempt = k
      /\ \A v \in Workers \ {w} : req'[v] = req[v]
  BY DEF Claim, Idle, Inv, TypeOK
<1>9. \A v \in Workers \ {w} :
        Calling(v)' => /\ Calling(v)
                       /\ req[v].item \in Items
                       /\ req'[v] = req[v]
                       /\ req[v].attempt \in 1 .. row[req[v].item].attempt_count
  <2> SUFFICES ASSUME NEW v \in Workers \ {w}, Calling(v)'
               PROVE  /\ Calling(v)
                      /\ req[v].item \in Items
                      /\ req'[v] = req[v]
                      /\ req[v].attempt \in 1 .. row[req[v].item].attempt_count
    OBVIOUS
  <2>1. req'[v] = req[v] /\ req[v].pc \in {"call", "settle"}
    BY <1>8 DEF Calling
  <2>2. req[v].item \in Items
    BY <2>1 DEF Inv, RequestShape, ShapeOf
  <2>3. row'[req[v].item].status # Deleted
    BY <2>1 DEF Calling, Exists
  <2>4. row[req[v].item].status # Deleted
    BY <2>2, <2>3, <1>1, <1>4 DEF Deleted
  <2> QED
    BY <2>1, <2>2, <2>4 DEF Calling, Exists, Inv, Ownership, OwnAttempt
<1>10. AttemptsCounted'
  BY <1>4, <1>6, <1>7 DEF Inv, Ownership, AttemptsCounted
<1>11. OwnAttempt'
  <2>1. ASSUME NEW v \in Workers, Calling(v)'
        PROVE  LET j == req[v].item
                   n == req[v].attempt
               IN  (/\ n \in 1 .. row[j].attempt_count
                    /\ n # row[j].analysis
                    /\ req[v].pc = "settle" /\ req[v].to = "READY_FOR_REVIEW" =>
                         attempts[j][n].outcome = "SUCCEEDED")'
    <3>1. CASE v = w
      BY <3>1, <1>2, <1>4, <1>5, <1>8
    <3>2. CASE v # w
      <4>1. /\ Calling(v) /\ req[v].item \in Items /\ req'[v] = req[v]
            /\ req[v].attempt \in 1 .. row[req[v].item].attempt_count
        BY <2>1, <3>2, <1>9
      <4>2. CASE req[v].item = i
        <5> DEFINE n == req[v].attempt
        <5>1. /\ n \in 1 .. row[i].attempt_count
              /\ n # row[i].analysis
              /\ req[v].pc = "settle" /\ req[v].to = "READY_FOR_REVIEW" =>
                   attempts[i][n].outcome = "SUCCEEDED"
          BY <4>1, <4>2 DEF Inv, Ownership, OwnAttempt
        <5>2. n \in 1 .. k
          BY <5>1, <1>2
        <5>3. attempts'[i][n] = attempts[i][n]
          BY <5>1, <1>7
        <5> QED
          BY <4>1, <4>2, <5>1, <5>2, <5>3, <1>4
      <4>3. CASE req[v].item # i
        BY <4>1, <4>3, <1>4, <1>6 DEF Inv, Ownership, OwnAttempt
      <4> QED
        BY <4>2, <4>3
    <3> QED
      BY <3>1, <3>2
  <2> QED
    BY <2>1 DEF OwnAttempt
<1>12. DistinctAttempts'
  BY <1>2, <1>8, <1>9 DEF Inv, Ownership, DistinctAttempts
<1>13. ResultProvenance'
  BY <1>1, <1>4, <1>5, <1>6 DEF Inv, ResultProvenance
<1> QED
  BY <1>10, <1>11, <1>12, <1>13 DEF Ownership

\* A request saves the attempt row it holds: nobody else's, and not the one the item's
\* result came from.
LEMMA RecordOwnership ==
  ASSUME Inv, NEW w \in Workers,
         RecordSuccess(w) \/ \E code \in CallCodes : RecordFailure(w, code)
  PROVE  Ownership' /\ ResultProvenance'
<1> DEFINE i == req[w].item
           k == req[w].attempt
<1>1. /\ i \in Items
      /\ attempts[i] \in Seq(AnalysisAttempt)
      /\ Calling(w)
      /\ req[w].pc = "call"
  BY DEF RecordSuccess, RecordFailure, SaveAttempt, Calling, Inv, RequestShape, ShapeOf, TypeOK
<1>2. k \in 1 .. Len(attempts[i]) /\ k # row[i].analysis
  BY <1>1 DEF Inv, Ownership, OwnAttempt, AttemptsCounted
<1>3. PICK a : /\ attempts' = [attempts EXCEPT ![i] = [@ EXCEPT ![k] = a]]
               /\ RecordSuccess(w) => a.outcome = "SUCCEEDED"
  <2>1. CASE RecordSuccess(w)
    <3> DEFINE b == [outcome |-> "SUCCEEDED", error_code |-> NONE]
    <3>1. attempts' = [attempts EXCEPT ![i] = [@ EXCEPT ![k] = b]]
      BY <2>1 DEF RecordSuccess, SaveAttempt
    <3>2. b.outcome = "SUCCEEDED"
      OBVIOUS
    <3> HIDE DEF b
    <3> QED
      BY <3>1, <3>2
  <2>2. CASE ~RecordSuccess(w)
    BY <2>2 DEF RecordFailure, SaveAttempt
  <2> QED
    BY <2>1, <2>2
<1>4. /\ \A j \in Items \ {i} : attempts'[j] = attempts[j]
      /\ attempts'[i] = [attempts[i] EXCEPT ![k] = a]
  BY <1>1, <1>3 DEF Inv, TypeOK
<1>5. /\ DOMAIN attempts'[i] = DOMAIN attempts[i]
      /\ attempts'[i][k] = a
      /\ \A n \in DOMAIN attempts[i] \ {k} : attempts'[i][n] = attempts[i][n]
  BY <1>1, <1>2, <1>4
<1>6. Len(attempts'[i]) = Len(attempts[i])
  <2>1. attempts' \in [Items -> Seq(AnalysisAttempt)]
    BY ContinueTypeOK DEF Inv, Continue, TypeOK
  <2>2. attempts'[i] \in Seq(AnalysisAttempt)
    BY <2>1, <1>1
  <2> QED
    BY <2>2, <1>1, <1>5
<1>7. /\ req'[w].pc = "settle" /\ req'[w].item = i /\ req'[w].attempt = k
      /\ req'[w].to = "READY_FOR_REVIEW" => RecordSuccess(w)
      /\ \A v \in Workers \ {w} : req'[v] = req[v]
  <2>1. req[w] \in Request /\ req \in [Workers -> Request]
    BY DEF Inv, TypeOK
  <2>2. CASE RecordSuccess(w)
    BY <2>1, <2>2 DEF RecordSuccess, Request
  <2>3. CASE \E code \in CallCodes : RecordFailure(w, code)
    <3>1. PICK code \in CallCodes : RecordFailure(w, code)
      BY <2>3
    <3>2. req'[w] = [req[w] EXCEPT !.pc = "settle", !.to = "FAILED", !.code = code]
      BY <2>1, <3>1 DEF RecordFailure
    <3>3. req'[w].pc = "settle" /\ req'[w].item = i /\ req'[w].attempt = k /\ req'[w].to = "FAILED"
      BY <2>1, <3>2 DEF Request
    <3> QED
      BY <2>1, <3>1, <3>3 DEF RecordFailure
  <2> QED
    BY <2>2, <2>3
<1>8. row' = row
  BY DEF RecordSuccess, RecordFailure
<1>9. AttemptsCounted'
  BY <1>4, <1>6, <1>8 DEF Inv, Ownership, AttemptsCounted
<1>10. \A v \in Workers : Calling(v)' => /\ Calling(v)
                                         /\ req'[v].item = req[v].item
                                         /\ req'[v].attempt = req[v].attempt
  BY <1>1, <1>7, <1>8 DEF Calling, Exists
<1>11. \A v \in Workers \ {w} :
         Calling(v) /\ req[v].item = i => req[v].attempt # k
  BY <1>1 DEF Inv, Ownership, DistinctAttempts
<1>12. OwnAttempt'
  <2>1. ASSUME NEW v \in Workers, Calling(v)'
        PROVE  LET j == req[v].item
                   n == req[v].attempt
               IN  (/\ n \in 1 .. row[j].attempt_count
                    /\ n # row[j].analysis
                    /\ req[v].pc = "settle" /\ req[v].to = "READY_FOR_REVIEW" =>
                         attempts[j][n].outcome = "SUCCEEDED")'
    <3>1. CASE v = w
      BY <3>1, <1>1, <1>3, <1>5, <1>7, <1>8 DEF Inv, Ownership, OwnAttempt
    <3>2. CASE v # w
      <4> DEFINE j == req[v].item
                 n == req[v].attempt
      <4>1. Calling(v) /\ req'[v] = req[v] /\ j \in Items
        BY <2>1, <3>2, <1>7, <1>10 DEF Calling, Inv, RequestShape, ShapeOf
      <4>2. /\ n \in 1 .. row[j].attempt_count
            /\ n # row[j].analysis
            /\ req[v].pc = "settle" /\ req[v].to = "READY_FOR_REVIEW" =>
                 attempts[j][n].outcome = "SUCCEEDED"
        BY <4>1 DEF Inv, Ownership, OwnAttempt
      <4>3. attempts'[j][n] = attempts[j][n]
        <5>1. CASE j = i
          <6>1. n # k
            BY <5>1, <4>1, <3>2, <1>11
          <6>2. n \in DOMAIN attempts[i]
            BY <5>1, <4>2, <1>1 DEF Inv, Ownership, AttemptsCounted
          <6> QED
            BY <5>1, <6>1, <6>2, <1>5
        <5>2. CASE j # i
          BY <5>2, <4>1, <1>4
        <5> QED
          BY <5>1, <5>2
      <4> QED
        BY <4>1, <4>2, <4>3, <1>8
    <3> QED
      BY <3>1, <3>2
  <2> QED
    BY <2>1 DEF OwnAttempt
<1>13. DistinctAttempts'
  BY <1>10 DEF Inv, Ownership, DistinctAttempts
<1>14. ResultProvenance'
  BY <1>2, <1>4, <1>5, <1>8 DEF Inv, ResultProvenance
<1> QED
  BY <1>9, <1>12, <1>13, <1>14 DEF Ownership

\* Settling a success makes the request's saved attempt the source of the item's result;
\* no other request holds that attempt.
LEMMA SettleOwnership ==
  ASSUME Inv, NEW w \in Workers, Settle(w)
  PROVE  Ownership' /\ ResultProvenance'
<1> DEFINE i == req[w].item
           k == req[w].attempt
<1>1. /\ i \in Items
      /\ row[i] \in WorkItem /\ req[w] \in Request
      /\ req[w].to \in {"READY_FOR_REVIEW", "FAILED"}
      /\ req[w].from = "ANALYSING"
      /\ row[i].status = "ANALYSING"
      /\ attempts' = attempts
  BY DEF Settle, transition, Inv, RequestShape, ShapeOf, TypeOK
<1>2. Calling(w)
  BY <1>1 DEF Calling, Exists, Deleted, Settle
<1>3. row[i].analysis = 0
  BY <1>1 DEF Inv, ResultProvenance
<1>4. /\ row'[i].status = req[w].to
      /\ row'[i].attempt_count = row[i].attempt_count
      /\ row'[i].analysis = IF req[w].to = "READY_FOR_REVIEW" THEN k ELSE 0
      /\ \A j \in Items \ {i} : row'[j] = row[j]
  BY <1>1, <1>3 DEF Settle, Settled, transition, Inv, TypeOK, WorkItem
<1>5. req'[w].pc = "idle" /\ \A v \in Workers \ {w} : req'[v] = req[v]
  BY FinishStops DEF Settle, Inv
<1>6. /\ k \in 1 .. row[i].attempt_count
      /\ req[w].to = "READY_FOR_REVIEW" => attempts[i][k].outcome = "SUCCEEDED"
  BY <1>2 DEF Settle, Inv, Ownership, OwnAttempt
<1>7. AttemptsCounted'
  BY <1>1, <1>4 DEF Inv, Ownership, AttemptsCounted
<1>8. \A v \in Workers : Calling(v)' =>
        /\ v # w /\ Calling(v) /\ req'[v] = req[v] /\ req[v].item \in Items
        /\ req[v].item = i => req[v].attempt # k
  <2> SUFFICES ASSUME NEW v \in Workers, Calling(v)'
               PROVE  /\ v # w /\ Calling(v) /\ req'[v] = req[v] /\ req[v].item \in Items
                      /\ req[v].item = i => req[v].attempt # k
    OBVIOUS
  <2>1. v # w /\ req'[v] = req[v] /\ req[v].pc \in {"call", "settle"}
    BY <1>5 DEF Calling
  <2>2. req[v].item \in Items
    BY <2>1 DEF Inv, RequestShape, ShapeOf
  <2>3. Calling(v)
    BY <2>1, <2>2, <1>1, <1>4 DEF Calling, Exists, Deleted
  <2> QED
    BY <2>1, <2>2, <2>3, <1>2 DEF Inv, Ownership, DistinctAttempts
<1>9. OwnAttempt'
  <2>1. ASSUME NEW v \in Workers, Calling(v)'
        PROVE  LET j == req[v].item
                   n == req[v].attempt
               IN  (/\ n \in 1 .. row[j].attempt_count
                    /\ n # row[j].analysis
                    /\ req[v].pc = "settle" /\ req[v].to = "READY_FOR_REVIEW" =>
                         attempts[j][n].outcome = "SUCCEEDED")'
    <3> DEFINE j == req[v].item
               n == req[v].attempt
    <3>1. Calling(v) /\ req'[v] = req[v] /\ j \in Items /\ (j = i => n # k)
      BY <2>1, <1>8
    <3>2. /\ n \in 1 .. row[j].attempt_count
          /\ n # row[j].analysis
          /\ req[v].pc = "settle" /\ req[v].to = "READY_FOR_REVIEW" =>
               attempts[j][n].outcome = "SUCCEEDED"
      BY <3>1 DEF Inv, Ownership, OwnAttempt
    <3>3. row'[j].attempt_count = row[j].attempt_count /\ n # row'[j].analysis
      BY <3>1, <3>2, <1>3, <1>4
    <3> QED
      BY <3>1, <3>2, <3>3, <1>1
  <2> QED
    BY <2>1 DEF OwnAttempt
<1>10. DistinctAttempts'
  BY <1>8 DEF Inv, Ownership, DistinctAttempts
<1>11. ResultProvenance'
  <2>1. k \in DOMAIN attempts[i] /\ k # 0
    <3>1. attempts[i] \in Seq(AnalysisAttempt)
      BY <1>1 DEF Inv, TypeOK
    <3> QED
      BY <3>1, <1>1, <1>6 DEF Inv, Ownership, AttemptsCounted, WorkItem
  <2> QED
    BY <2>1, <1>1, <1>4, <1>6 DEF Inv, ResultProvenance
<1> QED
  BY <1>7, <1>9, <1>10, <1>11 DEF Ownership

\* Every other step that writes leaves ownership undisturbed.
LEMMA OtherOwnership ==
  ASSUME Inv,
         \/ \E w \in Workers : PatchApply(w)
         \/ \E r \in Reapers : ReapQuery(r) \/ ReapLoop(r) \/ ReaperCrash(r)
         \/ Tick
         \/ UNCHANGED vars
  PROVE  Ownership' /\ ResultProvenance'
<1>1. CASE \E w \in Workers : PatchApply(w)
  <2>1. PICK w \in Workers : PatchApply(w)
    BY <1>1
  <2> DEFINE i == req[w].item
  <2>2. /\ i \in Items /\ req[w].from = "READY_FOR_REVIEW" /\ req[w].to = "COMPLETED"
    BY <2>1 DEF PatchApply, Inv, RequestShape, ShapeOf
  <2>3. /\ row[i].status = "READY_FOR_REVIEW"
        /\ row'[i].status = "COMPLETED"
        /\ row'[i].attempt_count = row[i].attempt_count
        /\ row'[i].analysis = row[i].analysis
        /\ \A j \in Items \ {i} : row'[j] = row[j]
        /\ attempts' = attempts
    BY <2>1, <2>2 DEF PatchApply, transition, Inv, TypeOK, WorkItem
  <2>4. req'[w].pc = "idle" /\ \A v \in Workers \ {w} : req'[v] = req[v]
    BY <2>1, FinishStops DEF PatchApply, Inv
  <2>5. Undisturbed
    BY <2>2, <2>3, <2>4 DEF Undisturbed, Deleted
  <2>6. ResultProvenance'
    BY <2>2, <2>3 DEF Inv, ResultProvenance
  <2> QED
    BY <2>5, <2>6, UndisturbedOwnership DEF Inv
<1>2. CASE \E r \in Reapers, i \in Items : Reap(r, i)
  <2>1. PICK r \in Reapers, i \in Items : Reap(r, i)
    BY <1>2
  <2>2. /\ row[i].status = "ANALYSING"
        /\ row'[i].status = "FAILED"
        /\ row'[i].attempt_count = row[i].attempt_count
        /\ row'[i].analysis = row[i].analysis
        /\ \A j \in Items \ {i} : row'[j] = row[j]
        /\ UNCHANGED <<attempts, req>>
    BY <2>1 DEF Reap, transition, Inv, TypeOK, WorkItem
  <2>3. Undisturbed
    BY <2>2 DEF Undisturbed, Deleted
  <2>4. ResultProvenance'
    BY <2>2 DEF Inv, ResultProvenance
  <2> QED
    BY <2>3, <2>4, UndisturbedOwnership DEF Inv
<1>3. CASE Tick
  <2>1. /\ \A i \in Items : /\ row'[i].status = row[i].status
                           /\ row'[i].attempt_count = row[i].attempt_count
                           /\ row'[i].analysis = row[i].analysis
        /\ attempts' = attempts
    BY <1>3 DEF Tick, Inv, TypeOK, WorkItem
  <2>2. \A w \in Workers : req[w].pc # "claim" => req'[w] = req[w]
    BY <1>3 DEF Tick
  <2>3. \A w \in Workers : req[w].pc = "claim" => req'[w].pc = "claim"
    BY <1>3 DEF Tick, Inv, TypeOK, Request
  <2>4. Undisturbed
    BY <2>1, <2>2, <2>3 DEF Undisturbed
  <2>5. ResultProvenance'
    BY <2>1 DEF Inv, ResultProvenance
  <2> QED
    BY <2>4, <2>5, UndisturbedOwnership DEF Inv
<1>4. CASE UNCHANGED <<row, attempts, transitions, req>>
  <2>1. Undisturbed
    BY <1>4 DEF Undisturbed
  <2> QED
    BY <1>4, <2>1, UndisturbedOwnership DEF Inv, ResultProvenance
<1> QED
  BY <1>1, <1>2, <1>3, <1>4
     DEF ReapQuery, ReapLoop, ReapSkipped, ReapAborted, ReaperCrash, vars

\* A deleted item has no attempts, and requests still calling for it own nothing.
LEMMA DeleteOwnership ==
  ASSUME Inv, NEW i \in Items, AdminDelete(i)
  PROVE  Ownership' /\ ResultProvenance'
<1>1. /\ row'[i] = NoRow /\ attempts'[i] = <<>>
      /\ \A j \in Items \ {i} : row'[j] = row[j] /\ attempts'[j] = attempts[j]
      /\ req' = req
  BY DEF AdminDelete, Inv, TypeOK
<1>2. AttemptsCounted'
  BY <1>1 DEF Inv, Ownership, AttemptsCounted, NoRow
<1>3. \A w \in Workers : Calling(w)' =>
        /\ Calling(w) /\ req'[w] = req[w] /\ req[w].item \in Items \ {i}
  <2> SUFFICES ASSUME NEW w \in Workers, Calling(w)'
               PROVE  Calling(w) /\ req'[w] = req[w] /\ req[w].item \in Items \ {i}
    OBVIOUS
  <2>1. req'[w] = req[w] /\ req[w].pc \in {"call", "settle"}
    BY <1>1 DEF Calling
  <2>2. req[w].item \in Items
    BY <2>1 DEF Inv, RequestShape, ShapeOf
  <2>3. req[w].item # i
    BY <2>1, <1>1 DEF Calling, Exists, NoRow
  <2> QED
    BY <2>1, <2>2, <2>3, <1>1 DEF Calling, Exists
<1>4. OwnAttempt'
  BY <1>1, <1>3 DEF Inv, Ownership, OwnAttempt
<1>5. DistinctAttempts'
  BY <1>3 DEF Inv, Ownership, DistinctAttempts
<1>6. ResultProvenance'
  BY <1>1 DEF Inv, ResultProvenance, NoRow, Deleted
<1> QED
  BY <1>2, <1>4, <1>5, <1>6 DEF Ownership

LEMMA NextOwnership == Inv /\ [Next]_vars => Ownership' /\ ResultProvenance'
<1> SUFFICES ASSUME Inv, [Next]_vars PROVE Ownership' /\ ResultProvenance'
  OBVIOUS
<1>1. ASSUME NEW w \in Workers, Continue(w) PROVE Ownership' /\ ResultProvenance'
  <2>1. CASE Claim(w)
    BY <2>1, ClaimOwnership
  <2>2. CASE RecordSuccess(w) \/ \E code \in CallCodes : RecordFailure(w, code)
    BY <2>2, RecordOwnership
  <2>3. CASE Settle(w)
    BY <2>3, SettleOwnership
  <2>4. CASE PatchApply(w)
    BY <2>4, OtherOwnership
  <2>5. CASE ClaimRefused(w) \/ SaveRefused(w) \/ SettleDiscarded(w) \/ PatchRefused(w)
    BY <2>5, QuietOwnership DEF ClaimRefused, SaveRefused, SettleDiscarded, PatchRefused
  <2> QED
    BY <1>1, <2>1, <2>2, <2>3, <2>4, <2>5 DEF Continue
<1>2. ASSUME NEW w \in Workers, Arrive(w) \/ Crash(w) PROVE Ownership' /\ ResultProvenance'
  BY <1>2, QuietOwnership DEF Crash
<1>3. ASSUME NEW r \in Reapers, ReapQuery(r) \/ ReapLoop(r) \/ ReaperCrash(r)
      PROVE  Ownership' /\ ResultProvenance'
  BY <1>3, OtherOwnership
<1>4. ASSUME NEW i \in Items, AdminDelete(i) PROVE Ownership' /\ ResultProvenance'
  BY <1>4, DeleteOwnership
<1>5. CASE Tick \/ UNCHANGED vars
  BY <1>5, OtherOwnership
<1> QED
  BY <1>1, <1>2, <1>3, <1>4, <1>5 DEF Next

LEMMA Inductive == Inv /\ [Next]_vars => Inv'
  BY NextTypeOK, NextOwnership DEF Inv

THEOREM InvCorrect == Spec => []Inv
<1>1. Init => Inv
  BY InitTypeOK, InitOwnership DEF Inv
<1> QED
  BY <1>1, Inductive, PTL DEF Spec

\* What an operator reviews came from a call recorded as SUCCEEDED, for any number of
\* concurrent requests and reapers, crashes included.
THEOREM ReviewedResultsSucceeded == Spec => []ResultProvenance
<1>1. Inv => ResultProvenance
  BY DEF Inv
<1> QED
  BY <1>1, InvCorrect, PTL

-----------------------------------------------------------------------------
(* The operator's decision.                                                *)

\* The step formula of OperatorDecisionStands, for one item.
Stands(i) ==
  row[i].analysis # 0 /\ row'[i].status # Deleted =>
    /\ row'[i].analysis = row[i].analysis
    /\ row[i].status = "COMPLETED" => row'[i] = row[i]

\* Every status change is a legal transition, so one that leaves a reviewable item can
\* only be its completion, and none leaves a completed one.
LEMMA DecisionStep ==
  ASSUME Inv, [Next]_vars, NEW i \in Items
  PROVE  Stands(i)
<1> SUFFICES ASSUME row[i].analysis # 0, row'[i].status # Deleted
             PROVE  /\ row'[i].analysis = row[i].analysis
                    /\ row[i].status = "COMPLETED" => row'[i] = row[i]
  BY DEF Stands
<1>0. TypeOK /\ row[i] \in WorkItem /\ row[i].status \in {"READY_FOR_REVIEW", "COMPLETED"}
  BY DEF Inv, ResultProvenance, TypeOK
<1>1. CASE row' = row
  BY <1>1
<1>2. ASSUME NEW w \in Workers, Claim(w) \/ Settle(w)
      PROVE  row'[i] = row[i]
  <2>1. req[w].from \in {"RECEIVED", "FAILED", "ANALYSING"} /\ req[w].item \in Items
    BY <1>2 DEF Claim, Settle, Inv, RequestShape, ShapeOf
  <2>2. row[req[w].item].status = req[w].from
    BY <1>2 DEF Claim, Settle, transition
  <2>3. i # req[w].item
    BY <2>1, <2>2, <1>0
  <2> QED
    BY <1>0, <1>2, <2>3 DEF Claim, Settle, transition, TypeOK
<1>3. ASSUME NEW w \in Workers, PatchApply(w)
      PROVE  /\ row'[i].analysis = row[i].analysis
             /\ row[i].status = "COMPLETED" => row'[i] = row[i]
  <2>1. req[w].from = "READY_FOR_REVIEW" /\ req[w].item \in Items
    BY <1>3 DEF PatchApply, Inv, RequestShape, ShapeOf
  <2>2. row[req[w].item].status = "READY_FOR_REVIEW"
    BY <1>3, <2>1 DEF PatchApply, transition
  <2> QED
    BY <1>0, <1>3, <2>1, <2>2 DEF PatchApply, transition, TypeOK, WorkItem
<1>4. ASSUME NEW r \in Reapers, ReapLoop(r)
      PROVE  row'[i] = row[i]
  BY <1>0, <1>4 DEF ReapLoop, Reap, ReapSkipped, ReapAborted, transition, TypeOK
<1>5. ASSUME NEW j \in Items, AdminDelete(j)
      PROVE  row'[i] = row[i]
  BY <1>0, <1>5 DEF AdminDelete, TypeOK, NoRow
<1>6. CASE Tick
  BY <1>0, <1>6 DEF Tick
<1>7. CASE ~(row' = row)
  BY <1>0, <1>2, <1>3, <1>4, <1>5, <1>6, <1>7
     DEF Next, Arrive, AnalyseWorkItem, RetryWorkItem, PatchRead, Continue, ClaimRefused,
         RecordSuccess, RecordFailure, SaveRefused, SettleDiscarded, PatchRefused, Crash,
         ReapQuery, ReaperCrash, vars
<1> QED
  BY <1>1, <1>7

\* Once a result is up for review it is not replaced, and a completed item is not moved
\* again, by any interleaving of requests and reapers.
THEOREM DecisionsStand == Spec => OperatorDecisionStands
<1>1. Inv /\ [Next]_vars => \A i \in Items : Stands(i)
  BY DecisionStep
<1>2. Spec => [][\A i \in Items : Stands(i)]_vars
  BY <1>1, InvCorrect, PTL DEF Spec
<1> QED
  BY <1>2 DEF OperatorDecisionStands, Stands

-----------------------------------------------------------------------------
(* Analysis implements Lifecycle: every step of a request, a reaper or the *)
(* administrator is a step of the promised state machine or invisible.     *)

LEMMA InitMaps == Init => L!Init
  BY DEF Init, L!Init, NewRow

\* One row changes, the way the abstract item does.
LEMMA GoMaps ==
  ASSUME TypeOK, TypeOK', NEW i \in Items, NEW from, NEW to,
         row[i].status = from, row'[i].status = to,
         \A j \in Items \ {i} : row'[j] = row[j]
  PROVE  L!Go(i, from, to)
  BY DEF L!Go

\* A step that leaves status, attempt_count and analysis of every row alone.
LEMMA InvisibleStep ==
  ASSUME \A i \in Items : /\ row'[i].status = row[i].status
                          /\ row'[i].attempt_count = row[i].attempt_count
                          /\ row'[i].analysis = row[i].analysis
  PROVE  UNCHANGED L!vars
  BY DEF L!vars

LEMMA ClaimMaps ==
  ASSUME Inv, TypeOK', NEW w \in Workers, Claim(w)
  PROVE  L!Next
<1>0. PICK i \in Items : i = req[w].item
  BY DEF Claim, Inv, RequestShape, ShapeOf
<1>1. /\ row[i] \in WorkItem
      /\ req[w].from \in {"RECEIVED", "FAILED"} /\ req[w].to = "ANALYSING"
      /\ req[w].age \in 0 .. AgeCap
  BY <1>0 DEF Claim, Inv, RequestShape, ShapeOf, TypeOK, Request
<1>2. /\ row[i].status = req[w].from
      /\ row'[i].status = "ANALYSING"
      /\ row'[i].attempt_count = row[i].attempt_count + 1
      /\ row'[i].analysis = row[i].analysis
      /\ \A j \in Items \ {i} : row'[j] = row[j]
  BY <1>0, <1>1 DEF Claim, Claimed, transition, Inv, TypeOK, WorkItem
<1>3. L!Go(i, "RECEIVED", "ANALYSING") \/ L!Go(i, "FAILED", "ANALYSING")
  BY <1>1, <1>2, GoMaps DEF Inv
<1>4. L!Begin(i)
  BY <1>1, <1>2, <1>3 DEF L!Begin
<1> QED
  BY <1>1, <1>4 DEF L!Next

LEMMA SettleMaps ==
  ASSUME Inv, TypeOK', NEW w \in Workers, Settle(w)
  PROVE  L!Next
<1>0. PICK i \in Items, k \in Nat : i = req[w].item /\ k = req[w].attempt
  BY DEF Settle, Inv, RequestShape, ShapeOf, TypeOK, Request
<1>1. /\ row[i] \in WorkItem
      /\ req[w].to \in {"READY_FOR_REVIEW", "FAILED"}
      /\ req[w].from = "ANALYSING"
      /\ row[i].status = "ANALYSING"
  BY <1>0 DEF Settle, transition, Inv, RequestShape, ShapeOf, TypeOK
<1>2. /\ row'[i].status = req[w].to
      /\ row'[i].attempt_count = row[i].attempt_count
      /\ row'[i].analysis = IF req[w].to = "READY_FOR_REVIEW" THEN k ELSE row[i].analysis
      /\ \A j \in Items \ {i} : row'[j] = row[j]
  BY <1>0, <1>1 DEF Settle, Settled, transition, Inv, TypeOK, WorkItem
<1>3. k \in 1 .. row[i].attempt_count
  BY <1>0, <1>1 DEF Settle, Inv, Ownership, OwnAttempt, Calling, Exists, Deleted
<1>4. CASE req[w].to = "READY_FOR_REVIEW"
  <2>1. L!Go(i, "ANALYSING", "READY_FOR_REVIEW")
    BY <1>1, <1>2, <1>4, GoMaps DEF Inv
  <2>2. L!Succeed(i)
    BY <1>2, <1>3, <1>4, <2>1 DEF L!Succeed
  <2> QED
    BY <2>2 DEF L!Next
<1>5. CASE req[w].to = "FAILED"
  <2>1. L!Go(i, "ANALYSING", "FAILED")
    BY <1>1, <1>2, <1>5, GoMaps DEF Inv
  <2>2. L!Fail(i)
    BY <1>2, <1>5, <2>1 DEF L!Fail
  <2> QED
    BY <2>2 DEF L!Next
<1> QED
  BY <1>1, <1>4, <1>5

LEMMA PatchMaps ==
  ASSUME Inv, TypeOK', NEW w \in Workers, PatchApply(w)
  PROVE  L!Next
<1>0. PICK i \in Items : i = req[w].item
  BY DEF PatchApply, Inv, RequestShape, ShapeOf
<1>1. req[w].from = "READY_FOR_REVIEW" /\ req[w].to = "COMPLETED"
  BY DEF PatchApply, Inv, RequestShape, ShapeOf
<1>2. /\ row[i].status = "READY_FOR_REVIEW"
      /\ row'[i].status = "COMPLETED"
      /\ row'[i].attempt_count = row[i].attempt_count
      /\ row'[i].analysis = row[i].analysis
      /\ \A j \in Items \ {i} : row'[j] = row[j]
  BY <1>0, <1>1 DEF PatchApply, transition, Inv, TypeOK, WorkItem
<1>3. L!Go(i, "READY_FOR_REVIEW", "COMPLETED")
  BY <1>1, <1>2, GoMaps DEF Inv
<1> QED
  BY <1>1, <1>2, <1>3 DEF L!Complete, L!Next

LEMMA ReapMaps ==
  ASSUME Inv, TypeOK', NEW r \in Reapers, NEW i \in Items, Reap(r, i)
  PROVE  L!Next
<1>1. /\ row[i].status = "ANALYSING"
      /\ row'[i].status = "FAILED"
      /\ row'[i].attempt_count = row[i].attempt_count
      /\ row'[i].analysis = row[i].analysis
      /\ \A j \in Items \ {i} : row'[j] = row[j]
  BY DEF Reap, transition, Inv, TypeOK, WorkItem
<1>2. L!Go(i, "ANALYSING", "FAILED")
  BY <1>1, GoMaps DEF Inv
<1> QED
  BY <1>1, <1>2 DEF L!Fail, L!Next

LEMMA DeleteMaps ==
  ASSUME Inv, NEW i \in Items, AdminDelete(i)
  PROVE  L!Next
<1>1. /\ i \in Deletable /\ row[i].status # Deleted
      /\ row'[i] = NoRow
      /\ \A j \in Items \ {i} : row'[j] = row[j]
  BY DEF AdminDelete, Exists, Inv, TypeOK
<1>2. /\ row'[i].status = Deleted
      /\ row'[i].attempt_count = 0
      /\ row'[i].analysis = 0
  BY <1>1 DEF NoRow
<1>3. L!Remove(i)
  BY <1>1, <1>2 DEF L!Remove
<1> QED
  BY <1>3 DEF L!Next

LEMMA StepMaps == Inv /\ TypeOK' /\ [Next]_vars => [L!Next]_(L!vars)
<1> SUFFICES ASSUME Inv, TypeOK', [Next]_vars PROVE L!Next \/ UNCHANGED L!vars
  OBVIOUS
<1>1. CASE row' = row
  BY <1>1, InvisibleStep
<1>2. CASE Tick
  <2>1. \A i \in Items : /\ row'[i].status = row[i].status
                         /\ row'[i].attempt_count = row[i].attempt_count
                         /\ row'[i].analysis = row[i].analysis
    BY <1>2 DEF Tick, Inv, TypeOK, WorkItem
  <2> QED
    BY <2>1, InvisibleStep
<1>3. CASE \E w \in Workers : Claim(w)
  BY <1>3, ClaimMaps
<1>4. CASE \E w \in Workers : Settle(w)
  BY <1>4, SettleMaps
<1>5. CASE \E w \in Workers : PatchApply(w)
  BY <1>5, PatchMaps
<1>6. CASE \E r \in Reapers, i \in Items : Reap(r, i)
  BY <1>6, ReapMaps
<1>7. CASE \E i \in Items : AdminDelete(i)
  BY <1>7, DeleteMaps
<1>8. CASE ~(row' = row)
  BY <1>2, <1>3, <1>4, <1>5, <1>6, <1>7, <1>8
     DEF Next, Arrive, AnalyseWorkItem, RetryWorkItem, PatchRead, Continue, ClaimRefused,
         RecordSuccess, RecordFailure, SaveRefused, SettleDiscarded, PatchRefused, Crash,
         ReapQuery, ReapLoop, ReapSkipped, ReapAborted, ReaperCrash, vars
<1> QED
  BY <1>1, <1>8

\* The engine implements the promised state machine, for any number of concurrent
\* requests and reapers: a status never moves except as the table allows, and the
\* result arrives in the very step that makes the item reviewable.
THEOREM LifecycleImplemented == Spec => ImplementsLifecycle
<1>1. Inv => TypeOK
  BY DEF Inv
<1> QED
  BY <1>1, InitMaps, StepMaps, InvCorrect, PTL DEF Spec, ImplementsLifecycle, L!Spec

=============================================================================
