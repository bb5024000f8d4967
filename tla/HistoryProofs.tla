---------------------------- MODULE HistoryProofs ----------------------------
(***************************************************************************)
(* The history of an item: its audit trail, its attempts and its live      *)
(* calls, for any number of items, requests and reapers.  The invariants   *)
(* of Analysis about them follow from one invariant per item, History,     *)
(* that also says what the requests under way still hold of the item.      *)
(***************************************************************************)
EXTENDS AnalysisProofs, DocumentedClaims

\* Where the audit trail t stands after its first n rows.
At(t, n) == IF n = 0 THEN "RECEIVED" ELSE t[n].to

\* AuditTrailIsTheHistory, for one item.
Trail(i) ==
  Exists(i) =>
    LET t == transitions[i]
    IN  /\ \A n \in DOMAIN t : /\ t[n].from = At(t, n - 1)
                               /\ can_transition(t[n].from, t[n].to)
        /\ row[i].status = At(t, Len(t))
        /\ row[i].version = Len(t) + 1

\* Every move into ANALYSING counted one call.
Counted(i) == row[i].attempt_count = Cardinality(Entries(i))

\* A deleted item has no attempts.
Swept(i) == ~Exists(i) => attempts[i] = <<>>

\* The attempt row a request holds is as it opened it until it saves it, and reads the
\* failure that it is about to settle.
InHand(i) ==
  \A w \in InFlight(i) : Exists(i) =>
    LET k == req[w].attempt
    IN  /\ req[w].pc = "call" => attempts[i][k] = OpenedAttempt
        /\ req[w].pc = "settle" /\ req[w].to = "FAILED" =>
             attempts[i][k] = [outcome |-> "FAILED", error_code |-> req[w].code]

\* Only a reaper can put a call out of step with its item's status.
LiveCalls(i) ==
  Exists(i) =>
    Cardinality(InFlight(i)) <=
      (IF row[i].status = "ANALYSING" THEN 1 ELSE 0) + Cardinality(Reaped(i))

\* While no reaper has intervened, the only call is the last one, its item is ANALYSING,
\* and a success is the result shown or that call's.
Undisputed(i) ==
  Exists(i) /\ Reaped(i) = {} =>
    /\ \A w \in InFlight(i) : /\ row[i].status = "ANALYSING"
                              /\ req[w].attempt = row[i].attempt_count
    /\ \A k \in DOMAIN attempts[i] :
         attempts[i][k].outcome = "SUCCEEDED" =>
           \/ row[i].analysis = k
           \/ row[i].status = "ANALYSING" /\ k = row[i].attempt_count

\* ErrorIsExplained, for one item, by an attempt that no request under way can change.
Explained(i) ==
  LET code == row[i].last_error_code
  IN  /\ row[i].status = "FAILED" =>
           \/ code = STALE /\ LastReason(i) = "reaped"
           \/ /\ code = LastReason(i)
              /\ \E k \in DOMAIN attempts[i] :
                   /\ attempts[i][k] = [outcome |-> "FAILED", error_code |-> code]
                   /\ \A w \in InFlight(i) : req[w].attempt # k
      /\ row[i].status \in {"READY_FOR_REVIEW", "COMPLETED"} => code = NONE

History(i) ==
  /\ Trail(i) /\ Counted(i) /\ Swept(i) /\ InHand(i)
  /\ LiveCalls(i) /\ Undisputed(i) /\ Explained(i)

Histories == \A i \in Items : History(i)

-----------------------------------------------------------------------------
(* What one step does to one item.                                         *)

\* The requests in W keep what they hold of the item, or let go of it.
Held(i, W) ==
  \A w \in W : w \in InFlight(i)' =>
    /\ w \in InFlight(i)
    /\ req'[w].pc = req[w].pc /\ req'[w].attempt = req[w].attempt
    /\ req'[w].to = req[w].to /\ req'[w].code = req[w].code

\* The compare-and-set has moved the item, and recorded why.
Moved(i, to, reason) ==
  /\ can_transition(row[i].status, to)
  /\ row'[i].status = to
  /\ row'[i].version = row[i].version + 1
  /\ \E actor \in Actors :
       transitions'[i] = Append(transitions[i],
         [from |-> row[i].status, to |-> to, actor |-> actor, reason |-> reason])

SameCount(i) == row'[i].attempt_count = row[i].attempt_count
SameResult(i) == row'[i].analysis = row[i].analysis
SameError(i) == row'[i].last_error_code = row[i].last_error_code
SameAttempts(i) == attempts'[i] = attempts[i]

\* A step about something else.
Aside(i) ==
  /\ SameCount(i) /\ SameResult(i) /\ SameError(i) /\ SameAttempts(i)
  /\ row'[i].status = row[i].status
  /\ row'[i].version = row[i].version
  /\ transitions'[i] = transitions[i]
  /\ Held(i, Workers)

ClaimedBy(i, w) ==
  /\ row[i].status \in {"RECEIVED", "FAILED"} /\ ~AttemptTaken(i)
  /\ Moved(i, "ANALYSING", "started")
  /\ row'[i].attempt_count = row[i].attempt_count + 1
  /\ SameResult(i)
  /\ attempts'[i] = Append(attempts[i], OpenedAttempt)
  /\ req'[w].pc = "call" /\ req'[w].attempt = row[i].attempt_count + 1
  /\ Held(i, Workers \ {w})

RecordedBy(i, w) ==
  /\ Exists(i)
  /\ w \in InFlight(i) /\ req[w].pc = "call"
  /\ row' = row /\ transitions' = transitions
  /\ \E a : /\ attempts'[i] = [attempts[i] EXCEPT ![req[w].attempt] = a]
            /\ req'[w].to = "FAILED" => a = [outcome |-> "FAILED", error_code |-> req'[w].code]
  /\ req'[w].pc = "settle" /\ req'[w].attempt = req[w].attempt
  /\ w \in InFlight(i)'
  /\ Held(i, Workers \ {w})

SettledBy(i, w) ==
  /\ row[i].status = "ANALYSING"
  /\ w \in InFlight(i) /\ req[w].pc = "settle"
  /\ \/ /\ Moved(i, "READY_FOR_REVIEW", "succeeded")
        /\ row'[i].analysis = req[w].attempt
        /\ row'[i].last_error_code = NONE
     \/ /\ Moved(i, "FAILED", req[w].code)
        /\ req[w].to = "FAILED"
        /\ SameResult(i)
        /\ row'[i].last_error_code = req[w].code
  /\ SameCount(i) /\ SameAttempts(i)
  /\ w \notin InFlight(i)'
  /\ Held(i, Workers)

Completed(i) ==
  /\ row[i].status = "READY_FOR_REVIEW"
  /\ Moved(i, "COMPLETED", "manual")
  /\ SameCount(i) /\ SameResult(i) /\ SameError(i) /\ SameAttempts(i)
  /\ Held(i, Workers)

ReapedNow(i) ==
  /\ row[i].status = "ANALYSING"
  /\ Moved(i, "FAILED", "reaped")
  /\ SameCount(i) /\ SameResult(i) /\ SameAttempts(i)
  /\ row'[i].last_error_code = STALE
  /\ Held(i, Workers)

DeletedNow(i) ==
  i \in Deletable /\ row'[i] = NoRow /\ attempts'[i] = <<>> /\ transitions'[i] = <<>>

\* The compare-and-set leaves the other items alone and moves this one.
LEMMA TransitionMoves ==
  ASSUME TypeOK, NEW i \in Items, NEW from, NEW to, NEW actor \in Actors, NEW reason,
         NEW fields \in WorkItem, transition(i, from, to, actor, reason, fields)
  PROVE  /\ row[i].status = from
         /\ Moved(i, to, reason)
         /\ row'[i].attempt_count = fields.attempt_count
         /\ row'[i].analysis = fields.analysis
         /\ row'[i].last_error_code = fields.last_error_code
         /\ \A j \in Items \ {i} : row'[j] = row[j] /\ transitions'[j] = transitions[j]
  BY DEF transition, Moved, TypeOK, WorkItem

\* A request that changes alone lets every other request keep what it holds.
LEMMA OthersHold ==
  ASSUME NEW w, \A v \in Workers \ {w} : req'[v] = req[v], NEW i
  PROVE  Held(i, Workers \ {w})
  BY DEF Held, InFlight

\* One that ends, or does not hold the item afterwards, leaves everybody with what they hold.
LEMMA AllHold ==
  ASSUME NEW w, \A v \in Workers \ {w} : req'[v] = req[v], NEW i, w \notin InFlight(i)'
  PROVE  Held(i, Workers)
  BY DEF Held, InFlight

\* A step that leaves an item's columns and history alone, and lets the requests on it
\* only go, is about something else.
LEMMA Untouched ==
  ASSUME NEW i \in Items, row'[i] = row[i], attempts'[i] = attempts[i],
         transitions'[i] = transitions[i], Held(i, Workers)
  PROVE  Aside(i)
  BY DEF Aside, SameCount, SameResult, SameError, SameAttempts

LEMMA ClaimHistory ==
  ASSUME TypeOK, RequestShape, NEW w \in Workers, Claim(w)
  PROVE  \A i \in Items : ClaimedBy(i, w) \/ Aside(i)
<1> DEFINE i == req[w].item
<1>1. /\ i \in Items /\ row[i] \in WorkItem /\ req[w] \in Request
      /\ req[w].from \in {"RECEIVED", "FAILED"} /\ req[w].to = "ANALYSING"
  BY DEF Claim, RequestShape, ShapeOf, TypeOK
<1>2. /\ Claimed(w) \in WorkItem
      /\ Claimed(w).attempt_count = row[i].attempt_count + 1
      /\ Claimed(w).analysis = row[i].analysis
  <2>1. row[i].attempt_count + 1 \in Nat /\ req[w].age \in 0 .. AgeCap
    BY <1>1 DEF WorkItem, Request
  <2> QED
    BY <1>1, <2>1 DEF Claimed, WorkItem
<1>3. /\ row[i].status \in {"RECEIVED", "FAILED"}
      /\ Moved(i, "ANALYSING", "started")
      /\ row'[i].attempt_count = row[i].attempt_count + 1
      /\ row'[i].analysis = row[i].analysis
      /\ \A j \in Items \ {i} : row'[j] = row[j] /\ transitions'[j] = transitions[j]
  <2>1. transition(i, req[w].from, "ANALYSING", "system", "started", Claimed(w))
    BY <1>1 DEF Claim
  <2>2. "system" \in Actors
    BY DEF Actors
  <2> HIDE DEF i
  <2> QED
    BY <1>1, <1>2, <2>1, <2>2, TransitionMoves
<1>4. /\ attempts'[i] = Append(attempts[i], OpenedAttempt)
      /\ \A j \in Items \ {i} : attempts'[j] = attempts[j]
  BY <1>1 DEF Claim, TypeOK
<1>5. /\ req'[w].pc = "call" /\ req'[w].item = i
      /\ req'[w].attempt = row[i].attempt_count + 1
      /\ \A v \in Workers \ {w} : req'[v] = req[v]
  BY DEF Claim, Idle, TypeOK
<1>6. ClaimedBy(i, w)
  <2>1. ~AttemptTaken(i)
    BY DEF Claim
  <2> QED
    BY <1>3, <1>4, <1>5, <2>1, OthersHold DEF ClaimedBy, SameResult
<1>7. \A j \in Items \ {i} : Aside(j)
  BY <1>3, <1>4, <1>5, AllHold, Untouched DEF InFlight
<1> QED
  BY <1>6, <1>7

LEMMA RecordHistory ==
  ASSUME TypeOK, RequestShape, NEW w \in Workers,
         RecordSuccess(w) \/ \E code \in CallCodes : RecordFailure(w, code)
  PROVE  \A i \in Items : RecordedBy(i, w) \/ Aside(i)
<1> DEFINE i == req[w].item
           k == req[w].attempt
<1>1. /\ i \in Items /\ req[w] \in Request /\ req[w].pc = "call" /\ Exists(i)
      /\ row' = row /\ transitions' = transitions
      /\ \A v \in Workers \ {w} : req'[v] = req[v]
  BY DEF RecordSuccess, RecordFailure, SaveAttempt, RequestShape, ShapeOf, TypeOK
<1>2. PICK a, to, code :
        /\ attempts' = [attempts EXCEPT ![i] = [@ EXCEPT ![k] = a]]
        /\ req' = [req EXCEPT ![w] = [@ EXCEPT !.pc = "settle", !.to = to, !.code = code]]
        /\ to = "FAILED" => a = [outcome |-> "FAILED", error_code |-> code]
  <2>1. CASE RecordSuccess(w)
    <3> DEFINE b == [outcome |-> "SUCCEEDED", error_code |-> NONE]
    <3>1. attempts' = [attempts EXCEPT ![i] = [@ EXCEPT ![k] = b]]
      BY <2>1 DEF RecordSuccess, SaveAttempt
    <3>2. [req[w] EXCEPT !.pc = "settle", !.to = "READY_FOR_REVIEW"] =
            [req[w] EXCEPT !.pc = "settle", !.to = "READY_FOR_REVIEW", !.code = req[w].code]
      BY <1>1 DEF Request
    <3>3. req' = [req EXCEPT ![w] =
            [@ EXCEPT !.pc = "settle", !.to = "READY_FOR_REVIEW", !.code = req[w].code]]
      BY <2>1, <3>2 DEF RecordSuccess
    <3>4. "READY_FOR_REVIEW" # "FAILED"
      OBVIOUS
    <3> HIDE DEF b
    <3> WITNESS b, "READY_FOR_REVIEW", req[w].code
    <3> QED
      BY <3>1, <3>3, <3>4
  <2>2. CASE \E c \in CallCodes : RecordFailure(w, c)
    <3>1. PICK c \in CallCodes : RecordFailure(w, c)
      BY <2>2
    <3> DEFINE b == [outcome |-> "FAILED", error_code |-> c]
    <3>2. attempts' = [attempts EXCEPT ![i] = [@ EXCEPT ![k] = b]]
      BY <3>1 DEF RecordFailure, SaveAttempt
    <3>3. req' = [req EXCEPT ![w] = [@ EXCEPT !.pc = "settle", !.to = "FAILED", !.code = c]]
      BY <3>1 DEF RecordFailure
    <3> QED
      BY <3>2, <3>3
  <2> QED
    BY <2>1, <2>2
<1>3. /\ attempts'[i] = [attempts[i] EXCEPT ![k] = a]
      /\ \A j \in Items \ {i} : attempts'[j] = attempts[j]
  BY <1>1, <1>2 DEF TypeOK
<1>4. /\ req'[w].pc = "settle" /\ req'[w].item = i /\ req'[w].attempt = k
      /\ req'[w].to = to /\ req'[w].code = code
  <2>1. req'[w] = [req[w] EXCEPT !.pc = "settle", !.to = to, !.code = code]
    BY <1>2 DEF TypeOK
  <2> QED
    BY <1>1, <2>1 DEF Request
<1>5. RecordedBy(i, w)
  BY <1>1, <1>2, <1>3, <1>4, OthersHold DEF RecordedBy, InFlight
<1>6. \A j \in Items \ {i} : Aside(j)
  BY <1>1, <1>3, <1>4, AllHold, Untouched DEF InFlight
<1> QED
  BY <1>5, <1>6

LEMMA SettleHistory ==
  ASSUME TypeOK, RequestShape, NEW w \in Workers, Settle(w)
  PROVE  \A i \in Items : SettledBy(i, w) \/ Aside(i)
<1>1. PICK i \in Items : i = req[w].item
  BY DEF Settle, RequestShape, ShapeOf
<1>2. /\ row[i] \in WorkItem /\ req[w] \in Request /\ req[w].pc = "settle"
      /\ req[w].from = "ANALYSING"
      /\ \/ req[w].to = "READY_FOR_REVIEW"
         \/ req[w].to = "FAILED" /\ req[w].code \in CallCodes
      /\ attempts' = attempts
  BY <1>1 DEF Settle, RequestShape, ShapeOf, TypeOK
<1>3. req'[w].pc = "idle" /\ \A v \in Workers \ {w} : req'[v] = req[v]
  BY FinishStops DEF Settle
<1>4. \A j \in Items : Held(j, Workers)
  BY <1>3, AllHold DEF InFlight
<1>5. Settled(w) \in WorkItem /\ Settled(w).attempt_count = row[i].attempt_count
  BY <1>1, <1>2 DEF Settled, WorkItem, Request, Errors
<1>6. "system" \in Actors
  BY DEF Actors
<1>7. CASE req[w].to = "READY_FOR_REVIEW"
  <2>1. transition(i, "ANALYSING", "READY_FOR_REVIEW", "system", "succeeded", Settled(w))
    BY <1>1, <1>2, <1>7 DEF Settle
  <2>2. Settled(w).analysis = req[w].attempt /\ Settled(w).last_error_code = NONE
    BY <1>1, <1>2, <1>7 DEF Settled, WorkItem
  <2>3. /\ row[i].status = "ANALYSING"
        /\ Moved(i, "READY_FOR_REVIEW", "succeeded")
        /\ row'[i].attempt_count = row[i].attempt_count
        /\ row'[i].analysis = req[w].attempt
        /\ row'[i].last_error_code = NONE
        /\ \A j \in Items \ {i} : row'[j] = row[j] /\ transitions'[j] = transitions[j]
    BY <1>5, <1>6, <2>1, <2>2, TransitionMoves
  <2>4. SettledBy(i, w)
    BY <1>1, <1>2, <1>3, <1>4, <2>3 DEF SettledBy, SameCount, SameAttempts, InFlight
  <2> QED
    BY <1>2, <1>4, <2>3, <2>4, Untouched
<1>8. CASE req[w].to = "FAILED"
  <2>1. transition(i, "ANALYSING", "FAILED", "system", req[w].code, Settled(w))
    BY <1>1, <1>2, <1>8 DEF Settle
  <2>2. Settled(w).analysis = row[i].analysis /\ Settled(w).last_error_code = req[w].code
    BY <1>1, <1>2, <1>8 DEF Settled, WorkItem
  <2>3. /\ row[i].status = "ANALYSING"
        /\ Moved(i, "FAILED", req[w].code)
        /\ row'[i].attempt_count = row[i].attempt_count
        /\ row'[i].analysis = row[i].analysis
        /\ row'[i].last_error_code = req[w].code
        /\ \A j \in Items \ {i} : row'[j] = row[j] /\ transitions'[j] = transitions[j]
    BY <1>5, <1>6, <2>1, <2>2, TransitionMoves
  <2>4. SettledBy(i, w)
    BY <1>1, <1>2, <1>3, <1>4, <1>8, <2>3
       DEF SettledBy, SameCount, SameResult, SameAttempts, InFlight
  <2> QED
    BY <1>2, <1>4, <2>3, <2>4, Untouched
<1> QED
  BY <1>2, <1>7, <1>8

LEMMA PatchHistory ==
  ASSUME TypeOK, RequestShape, NEW w \in Workers, PatchApply(w)
  PROVE  \A i \in Items : Completed(i) \/ Aside(i)
<1>1. PICK i \in Items : i = req[w].item
  BY DEF PatchApply, RequestShape, ShapeOf
<1>2. /\ row[i] \in WorkItem /\ attempts' = attempts
      /\ transition(i, "READY_FOR_REVIEW", "COMPLETED", "operator", "manual", row[i])
  BY <1>1 DEF PatchApply, RequestShape, ShapeOf, TypeOK
<1>3. \A j \in Items : Held(j, Workers)
  <2>1. req'[w].pc = "idle" /\ \A v \in Workers \ {w} : req'[v] = req[v]
    BY FinishStops DEF PatchApply
  <2> QED
    BY <2>1, AllHold DEF InFlight
<1>4. "operator" \in Actors
  BY DEF Actors
<1>5. /\ row[i].status = "READY_FOR_REVIEW"
      /\ Moved(i, "COMPLETED", "manual")
      /\ row'[i].attempt_count = row[i].attempt_count
      /\ row'[i].analysis = row[i].analysis
      /\ row'[i].last_error_code = row[i].last_error_code
      /\ \A j \in Items \ {i} : row'[j] = row[j] /\ transitions'[j] = transitions[j]
  BY <1>2, <1>4, TransitionMoves
<1>6. Completed(i)
  BY <1>2, <1>3, <1>5 DEF Completed, SameCount, SameResult, SameError, SameAttempts
<1> QED
  BY <1>2, <1>3, <1>5, <1>6, Untouched

LEMMA ReapHistory ==
  ASSUME TypeOK, RequestShape, NEW r \in Reapers, NEW i \in Items, Reap(r, i)
  PROVE  \A j \in Items : ReapedNow(j) \/ Aside(j)
<1> DEFINE fields == [row[i] EXCEPT !.last_error_code = STALE]
<1>1. /\ row[i] \in WorkItem /\ attempts' = attempts /\ req' = req
      /\ transition(i, "ANALYSING", "FAILED", "system", "reaped", fields)
  BY DEF Reap, TypeOK
<1>2. /\ fields \in WorkItem
      /\ fields.attempt_count = row[i].attempt_count
      /\ fields.analysis = row[i].analysis
      /\ fields.last_error_code = STALE
  BY <1>1 DEF WorkItem, Errors
<1>3. "system" \in Actors
  BY DEF Actors
<1> HIDE DEF fields
<1>4. /\ row[i].status = "ANALYSING"
      /\ Moved(i, "FAILED", "reaped")
      /\ row'[i].attempt_count = row[i].attempt_count
      /\ row'[i].analysis = row[i].analysis
      /\ row'[i].last_error_code = STALE
      /\ \A j \in Items \ {i} : row'[j] = row[j] /\ transitions'[j] = transitions[j]
  BY <1>1, <1>2, <1>3, TransitionMoves
<1>5. \A j \in Items : Held(j, Workers)
  BY <1>1 DEF Held, InFlight
<1>6. ReapedNow(i)
  BY <1>1, <1>4, <1>5 DEF ReapedNow, SameCount, SameResult, SameAttempts
<1> QED
  BY <1>1, <1>4, <1>5, <1>6, Untouched

LEMMA DeleteHistory ==
  ASSUME TypeOK, RequestShape, NEW i \in Items, AdminDelete(i)
  PROVE  \A j \in Items : DeletedNow(j) \/ Aside(j)
<1>1. /\ row'[i] = NoRow /\ attempts'[i] = <<>> /\ transitions'[i] = <<>>
      /\ \A j \in Items \ {i} : /\ row'[j] = row[j]
                                /\ attempts'[j] = attempts[j]
                                /\ transitions'[j] = transitions[j]
      /\ req' = req
  BY DEF AdminDelete, TypeOK
<1>2. \A j \in Items : Held(j, Workers)
  BY <1>1 DEF Held, InFlight
<1> QED
  BY <1>1, <1>2, Untouched DEF AdminDelete, DeletedNow

\* Arrivals, refusals, crashes, the reaper's bookkeeping and time touch no item's history.
LEMMA QuietHistory ==
  ASSUME TypeOK, RequestShape,
         \/ \E w \in Workers : \/ Arrive(w)
                               \/ Finish(w) /\ UNCHANGED <<row, attempts, transitions, todo>>
         \/ Tick
         \/ UNCHANGED <<row, attempts, transitions, req>>
  PROVE  \A i \in Items : Aside(i)
<1>1. ASSUME NEW w \in Workers,
             Arrive(w) \/ (Finish(w) /\ UNCHANGED <<row, attempts, transitions, todo>>)
      PROVE  \A i \in Items : Aside(i)
  <2>1. UNCHANGED <<row, attempts, transitions>>
    BY <1>1 DEF Arrive, AnalyseWorkItem, RetryWorkItem, PatchRead
  <2>2. req'[w].pc \notin {"call", "settle"} /\ \A v \in Workers \ {w} : req'[v] = req[v]
    <3>1. CASE Finish(w)
      BY <3>1, FinishStops
    <3>2. CASE Arrive(w)
      <4>1. \E q \in Request : q.pc \in {"claim", "patch"} /\ req' = [req EXCEPT ![w] = q]
        BY <3>2, ArriveStep
      <4> QED
        BY <4>1 DEF TypeOK
    <3> QED
      BY <1>1, <3>1, <3>2
  <2> QED
    BY <2>1, <2>2, AllHold, Untouched DEF InFlight
<1>2. CASE Tick
  <2>1. attempts' = attempts /\ transitions' = transitions
    BY <1>2 DEF Tick
  <2>2. \A i \in Items : /\ row'[i].status = row[i].status
                         /\ row'[i].version = row[i].version
                         /\ SameCount(i) /\ SameResult(i) /\ SameError(i)
    BY <1>2 DEF Tick, TypeOK, WorkItem, SameCount, SameResult, SameError
  <2>3. \A w \in Workers : /\ req[w].pc # "claim" => req'[w] = req[w]
                           /\ req[w].pc = "claim" => req'[w].pc = "claim"
    BY <1>2 DEF Tick, TypeOK, Request
  <2>4. \A i \in Items : Held(i, Workers)
    BY <2>3 DEF Held, InFlight
  <2> QED
    BY <2>1, <2>2, <2>4 DEF Aside, SameAttempts
<1>3. CASE UNCHANGED <<row, attempts, transitions, req>>
  BY <1>3, Untouched DEF Held, InFlight
<1> QED
  BY <1>1, <1>2, <1>3

\* Everything a step can do to an item.
LEMMA StepOfItem ==
  ASSUME TypeOK, RequestShape, [Next]_vars, NEW i \in Items
  PROVE  \/ Aside(i) \/ Completed(i) \/ ReapedNow(i) \/ DeletedNow(i)
         \/ \E w \in Workers : ClaimedBy(i, w) \/ RecordedBy(i, w) \/ SettledBy(i, w)
<1>1. CASE \E w \in Workers : Continue(w)
  <2>1. PICK w \in Workers : Continue(w)
    BY <1>1
  <2>2. CASE ClaimRefused(w) \/ SaveRefused(w) \/ SettleDiscarded(w) \/ PatchRefused(w)
    BY <2>2, QuietHistory DEF ClaimRefused, SaveRefused, SettleDiscarded, PatchRefused
  <2> QED
    BY <2>1, <2>2, ClaimHistory, RecordHistory, SettleHistory, PatchHistory DEF Continue
<1>2. CASE \E w \in Workers : Arrive(w) \/ Crash(w)
  BY <1>2, QuietHistory DEF Crash
<1>3. CASE \E r \in Reapers : ReapQuery(r) \/ ReapLoop(r) \/ ReaperCrash(r)
  <2>1. CASE \E r \in Reapers, j \in Items : Reap(r, j)
    BY <2>1, ReapHistory
  <2>2. CASE UNCHANGED <<row, attempts, transitions, req>>
    BY <2>2, QuietHistory
  <2> QED
    BY <1>3, <2>1, <2>2 DEF ReapQuery, ReapLoop, ReapSkipped, ReapAborted, ReaperCrash
<1>4. CASE \E j \in Items : AdminDelete(j)
  BY <1>4, DeleteHistory
<1>5. CASE Tick \/ UNCHANGED vars
  BY <1>5, QuietHistory DEF vars
<1> QED
  BY <1>1, <1>2, <1>3, <1>4, <1>5 DEF Next

-----------------------------------------------------------------------------
(* What one step does to the audit trail and to the calls.                 *)

LEMMA FiniteCounts ==
  ASSUME TypeOK, NEW i \in Items
  PROVE  /\ IsFiniteSet(Entries(i)) /\ Cardinality(Entries(i)) \in Nat
         /\ IsFiniteSet(Reaped(i)) /\ Cardinality(Reaped(i)) \in Nat
         /\ IsFiniteSet(InFlight(i)) /\ Cardinality(InFlight(i)) \in Nat
<1>1. transitions[i] \in Seq(StatusTransition)
  BY DEF TypeOK
<1>2. DOMAIN transitions[i] = 1 .. Len(transitions[i]) /\ Len(transitions[i]) \in Nat
  BY <1>1
<1>3. IsFiniteSet(DOMAIN transitions[i])
  BY <1>2, FS_Interval
<1>4. /\ Entries(i) \subseteq DOMAIN transitions[i]
      /\ Reaped(i) \subseteq DOMAIN transitions[i]
      /\ InFlight(i) \subseteq Workers
  BY DEF Entries, Reaped, InFlight
<1> QED
  BY <1>3, <1>4, WorkersAssumption, FS_Subset, FS_CardinalityType

\* Requests that only let go leave no more calls in flight.
LEMMA FewerInFlight ==
  ASSUME TypeOK, NEW i \in Items, Held(i, Workers)
  PROVE  /\ InFlight(i)' \subseteq InFlight(i)
         /\ Cardinality(InFlight(i)') \in Nat
         /\ Cardinality(InFlight(i)') <= Cardinality(InFlight(i))
<1>1. InFlight(i)' \subseteq InFlight(i)
  BY DEF Held, InFlight
<1> QED
  BY <1>1, FiniteCounts, FS_Subset, FS_CardinalityType

\* The audit row of a move: the trail grows by it, and with it what is counted.
LEMMA MovedTrail ==
  ASSUME TypeOK, NEW i \in Items, NEW to, NEW reason, Moved(i, to, reason)
  PROVE  /\ Len(transitions'[i]) = Len(transitions[i]) + 1
         /\ DOMAIN transitions'[i] = DOMAIN transitions[i] \cup {Len(transitions[i]) + 1}
         /\ \A n \in DOMAIN transitions[i] : transitions'[i][n] = transitions[i][n]
         /\ transitions'[i][Len(transitions[i]) + 1].from = row[i].status
         /\ transitions'[i][Len(transitions[i]) + 1].to = to
         /\ transitions'[i][Len(transitions[i]) + 1].reason = reason
<1>1. transitions[i] \in Seq(StatusTransition)
  BY DEF TypeOK
<1>2. PICK actor : transitions'[i] = Append(transitions[i],
         [from |-> row[i].status, to |-> to, actor |-> actor, reason |-> reason])
  BY DEF Moved
<1> DEFINE r == [from |-> row[i].status, to |-> to, actor |-> actor, reason |-> reason]
<1>3. r.from = row[i].status /\ r.to = to /\ r.reason = reason
  OBVIOUS
<1> HIDE DEF r
<1>4. transitions'[i] = Append(transitions[i], r)
  BY <1>2 DEF r
<1>5. /\ Len(transitions'[i]) = Len(transitions[i]) + 1
      /\ DOMAIN transitions'[i] = DOMAIN transitions[i] \cup {Len(transitions[i]) + 1}
      /\ \A n \in DOMAIN transitions[i] : transitions'[i][n] = transitions[i][n]
      /\ transitions'[i][Len(transitions[i]) + 1] = r
  BY <1>1, <1>4
<1> QED
  BY <1>3, <1>5

LEMMA MovedCounts ==
  ASSUME TypeOK, NEW i \in Items, NEW to, NEW reason, Moved(i, to, reason)
  PROVE  /\ Cardinality(Entries(i)') =
              Cardinality(Entries(i)) + (IF to = "ANALYSING" THEN 1 ELSE 0)
         /\ Cardinality(Reaped(i)') =
              Cardinality(Reaped(i)) + (IF reason = "reaped" THEN 1 ELSE 0)
         /\ Reaped(i)' = {} => Reaped(i) = {} /\ reason # "reaped"
<1> DEFINE n == Len(transitions[i]) + 1
<1>1. n \notin DOMAIN transitions[i]
  <2>1. transitions[i] \in Seq(StatusTransition)
    BY DEF TypeOK
  <2> QED
    BY <2>1
<1>2. /\ DOMAIN transitions'[i] = DOMAIN transitions[i] \cup {n}
      /\ \A m \in DOMAIN transitions[i] : transitions'[i][m] = transitions[i][m]
      /\ transitions'[i][n].to = to
      /\ transitions'[i][n].reason = reason
  BY MovedTrail
<1> HIDE DEF n
<1>3. /\ n \notin Entries(i) /\ n \notin Reaped(i)
      /\ Entries(i)' = IF to = "ANALYSING" THEN Entries(i) \cup {n} ELSE Entries(i)
      /\ Reaped(i)' = IF reason = "reaped" THEN Reaped(i) \cup {n} ELSE Reaped(i)
  BY <1>1, <1>2 DEF Entries, Reaped
<1>4. /\ IsFiniteSet(Entries(i)) /\ Cardinality(Entries(i)) \in Nat
      /\ IsFiniteSet(Reaped(i)) /\ Cardinality(Reaped(i)) \in Nat
  BY FiniteCounts
<1>5. /\ Cardinality(Entries(i) \cup {n}) = Cardinality(Entries(i)) + 1
      /\ Cardinality(Reaped(i) \cup {n}) = Cardinality(Reaped(i)) + 1
  BY <1>3, <1>4, FS_AddElement
<1> QED
  BY <1>3, <1>4, <1>5

\* Only a reaper's move adds to what the reaper gave up on.
LEMMA OnlyReapersReap ==
  ASSUME TypeOK, NEW i \in Items, NEW to, NEW reason, reason # "reaped", Moved(i, to, reason)
  PROVE  Reaped(i)' = Reaped(i)
<1>1. /\ DOMAIN transitions'[i] = DOMAIN transitions[i] \cup {Len(transitions[i]) + 1}
      /\ \A n \in DOMAIN transitions[i] : transitions'[i][n] = transitions[i][n]
      /\ transitions'[i][Len(transitions[i]) + 1].reason = reason
  BY MovedTrail
<1> QED
  BY <1>1 DEF Reaped

LEMMA MovedKeepsTrail ==
  ASSUME TypeOK, NEW i \in Items, NEW to, NEW reason, Moved(i, to, reason), Trail(i)
  PROVE  Trail(i)' /\ LastReason(i)' = reason
<1> DEFINE t == transitions[i]
           u == transitions'[i]
<1>1. t \in Seq(StatusTransition) /\ Len(t) \in Nat /\ DOMAIN t = 1 .. Len(t)
  BY DEF TypeOK
<1>2. /\ can_transition(row[i].status, to)
      /\ row'[i].status = to
      /\ row'[i].version = row[i].version + 1
  BY DEF Moved
<1>3. Exists(i)
  BY <1>2, TableIsClosed DEF Exists, Statuses, Deleted
<1>4. /\ \A n \in DOMAIN t : t[n].from = At(t, n - 1) /\ can_transition(t[n].from, t[n].to)
      /\ row[i].status = At(t, Len(t))
      /\ row[i].version = Len(t) + 1
  BY <1>3 DEF Trail
<1>5. /\ Len(u) = Len(t) + 1
      /\ DOMAIN u = DOMAIN t \cup {Len(t) + 1}
      /\ \A n \in DOMAIN t : u[n] = t[n]
      /\ u[Len(t) + 1].from = row[i].status
      /\ u[Len(t) + 1].to = to
      /\ u[Len(t) + 1].reason = reason
  BY MovedTrail
<1> HIDE DEF t, u
<1>6. \A n \in 0 .. Len(t) : At(u, n) = At(t, n)
  BY <1>1, <1>5 DEF At
<1>7. ASSUME NEW n \in DOMAIN u
      PROVE  u[n].from = At(u, n - 1) /\ can_transition(u[n].from, u[n].to)
  <2>1. CASE n \in DOMAIN t
    <3>1. n - 1 \in 0 .. Len(t)
      BY <1>1, <2>1
    <3> QED
      BY <1>4, <1>5, <1>6, <2>1, <3>1
  <2>2. CASE n = Len(t) + 1
    <3>1. n - 1 = Len(t) /\ n - 1 \in 0 .. Len(t)
      BY <1>1, <2>2
    <3> QED
      BY <1>2, <1>4, <1>5, <1>6, <2>2, <3>1
  <2> QED
    BY <1>5, <2>1, <2>2
<1>8. At(u, Len(u)) = to
  BY <1>1, <1>5 DEF At
<1>9. row'[i].version = Len(u) + 1
  BY <1>1, <1>2, <1>4, <1>5
<1> QED
  BY <1>2, <1>5, <1>7, <1>8, <1>9 DEF Trail, LastReason, t, u

-----------------------------------------------------------------------------
(* Every kind of step keeps the history of the item.                       *)

LEMMA AsideKeeps ==
  ASSUME Inv, NEW i \in Items, History(i), Aside(i)
  PROVE  History(i)'
<1>1. /\ row'[i].attempt_count = row[i].attempt_count
      /\ row'[i].analysis = row[i].analysis
      /\ row'[i].last_error_code = row[i].last_error_code
      /\ row'[i].status = row[i].status
      /\ row'[i].version = row[i].version
      /\ attempts'[i] = attempts[i]
      /\ transitions'[i] = transitions[i]
      /\ Held(i, Workers)
  BY DEF Aside, SameCount, SameResult, SameError, SameAttempts
<1>2. /\ Exists(i)' <=> Exists(i)
      /\ Entries(i)' = Entries(i)
      /\ Reaped(i)' = Reaped(i)
      /\ LastReason(i)' = LastReason(i)
  BY <1>1 DEF Exists, Entries, Reaped, LastReason
<1>3. /\ \A w \in InFlight(i)' : /\ w \in InFlight(i)
                                 /\ req'[w].pc = req[w].pc
                                 /\ req'[w].attempt = req[w].attempt
                                 /\ req'[w].to = req[w].to
                                 /\ req'[w].code = req[w].code
  BY <1>1 DEF Held, InFlight
<1>4. Trail(i)' /\ Counted(i)' /\ Swept(i)'
  BY <1>1, <1>2 DEF History, Trail, Counted, Swept
<1>5. InHand(i)'
  BY <1>1, <1>2, <1>3 DEF History, InHand
<1>6. LiveCalls(i)'
  <2>1. Cardinality(InFlight(i)') \in Nat /\ Cardinality(InFlight(i)') <= Cardinality(InFlight(i))
    BY <1>1, FewerInFlight DEF Inv
  <2>2. Cardinality(InFlight(i)) \in Nat /\ Cardinality(Reaped(i)) \in Nat
    BY FiniteCounts DEF Inv
  <2> QED
    BY <1>1, <1>2, <2>1, <2>2 DEF History, LiveCalls
<1>7. Undisputed(i)'
  BY <1>1, <1>2, <1>3 DEF History, Undisputed
<1>8. Explained(i)'
  BY <1>1, <1>2, <1>3 DEF History, Explained
<1> QED
  BY <1>4, <1>5, <1>6, <1>7, <1>8 DEF History

\* A move into ANALYSING: the item's only new attempt is the one just opened, and while
\* no reaper has intervened no other call was in flight.
LEMMA ClaimKeeps ==
  ASSUME Inv, Inv', NEW i \in Items, NEW w \in Workers, History(i), ClaimedBy(i, w)
  PROVE  History(i)'
<1> DEFINE k == row[i].attempt_count + 1
<1>0. TypeOK /\ row[i] \in WorkItem /\ attempts[i] \in Seq(AnalysisAttempt)
  BY DEF Inv, TypeOK
<1>1. /\ row[i].status \in {"RECEIVED", "FAILED"}
      /\ Moved(i, "ANALYSING", "started")
      /\ row'[i].attempt_count = k
      /\ row'[i].analysis = row[i].analysis
      /\ attempts'[i] = Append(attempts[i], OpenedAttempt)
      /\ req'[w].pc = "call" /\ req'[w].attempt = k
      /\ Held(i, Workers \ {w})
  BY DEF ClaimedBy, SameResult
<1>2. row'[i].status = "ANALYSING" /\ Exists(i) /\ Exists(i)'
  BY <1>1 DEF Moved, Exists, Deleted
<1>3. row[i].attempt_count \in Nat /\ Len(attempts[i]) = row[i].attempt_count
  BY <1>0 DEF Inv, Ownership, AttemptsCounted, WorkItem
<1>4. /\ DOMAIN attempts'[i] = DOMAIN attempts[i] \cup {k}
      /\ \A n \in DOMAIN attempts[i] : attempts'[i][n] = attempts[i][n]
      /\ attempts'[i][k] = OpenedAttempt
  BY <1>0, <1>1, <1>3
<1>5. Trail(i)'
  BY <1>0, <1>1, MovedKeepsTrail DEF History
<1>6. /\ Cardinality(Entries(i)') = Cardinality(Entries(i)) + 1
      /\ Cardinality(Reaped(i)') = Cardinality(Reaped(i))
      /\ Reaped(i)' = {} => Reaped(i) = {}
      /\ Cardinality(Reaped(i)) \in Nat /\ Cardinality(Entries(i)) \in Nat
  BY <1>0, <1>1, MovedCounts, FiniteCounts
<1>7. Counted(i)'
  BY <1>1, <1>6 DEF History, Counted
<1>8. Swept(i)'
  BY <1>2 DEF Swept
<1>9. \A v \in InFlight(i)' \ {w} : /\ v \in InFlight(i)
                                    /\ req'[v].pc = req[v].pc
                                    /\ req'[v].attempt = req[v].attempt
                                    /\ req'[v].to = req[v].to
                                    /\ req'[v].code = req[v].code
                                    /\ req[v].attempt \in DOMAIN attempts[i]
  <2> SUFFICES ASSUME NEW v \in InFlight(i)' \ {w}
               PROVE  /\ v \in InFlight(i)
                      /\ req'[v].pc = req[v].pc
                      /\ req'[v].attempt = req[v].attempt
                      /\ req'[v].to = req[v].to
                      /\ req'[v].code = req[v].code
                      /\ req[v].attempt \in DOMAIN attempts[i]
    OBVIOUS
  <2>1. /\ v \in InFlight(i)
        /\ req'[v].pc = req[v].pc
        /\ req'[v].attempt = req[v].attempt
        /\ req'[v].to = req[v].to
        /\ req'[v].code = req[v].code
    BY <1>1 DEF Held, InFlight
  <2>2. v \in Workers /\ Calling(v) /\ req[v].item = i
    BY <2>1, <1>2 DEF InFlight, Calling
  <2>3. req[v].attempt \in 1 .. row[i].attempt_count
    BY <2>2 DEF Inv, Ownership, OwnAttempt
  <2> QED
    BY <2>1, <2>3, <1>0, <1>3
<1>10. InHand(i)'
  <2> SUFFICES ASSUME NEW v \in InFlight(i)'
               PROVE  /\ req'[v].pc = "call" => attempts'[i][req'[v].attempt] = OpenedAttempt
                      /\ req'[v].pc = "settle" /\ req'[v].to = "FAILED" =>
                           attempts'[i][req'[v].attempt] =
                             [outcome |-> "FAILED", error_code |-> req'[v].code]
    BY DEF InHand
  <2>1. CASE v = w
    BY <2>1, <1>1, <1>4
  <2>2. CASE v # w
    <3>1. /\ v \in InFlight(i)
          /\ attempts'[i][req'[v].attempt] = attempts[i][req[v].attempt]
          /\ req'[v].pc = req[v].pc /\ req'[v].to = req[v].to /\ req'[v].code = req[v].code
      BY <2>2, <1>4, <1>9
    <3>2. /\ req[v].pc = "call" => attempts[i][req[v].attempt] = OpenedAttempt
          /\ req[v].pc = "settle" /\ req[v].to = "FAILED" =>
               attempts[i][req[v].attempt] = [outcome |-> "FAILED", error_code |-> req[v].code]
      BY <3>1, <1>2 DEF History, InHand
    <3> QED
      BY <3>1, <3>2
  <2> QED
    BY <2>1, <2>2
<1>11. LiveCalls(i)'
  <2>1. InFlight(i)' \subseteq InFlight(i) \cup {w}
    BY <1>9
  <2>2. /\ IsFiniteSet(InFlight(i)) /\ Cardinality(InFlight(i)) \in Nat
        /\ IsFiniteSet(InFlight(i) \cup {w})
        /\ Cardinality(InFlight(i) \cup {w}) <= Cardinality(InFlight(i)) + 1
        /\ Cardinality(InFlight(i) \cup {w}) \in Nat
    <3>1. IsFiniteSet(InFlight(i)) /\ Cardinality(InFlight(i)) \in Nat
      BY <1>0, FiniteCounts
    <3>2. /\ IsFiniteSet(InFlight(i) \cup {w})
          /\ \/ Cardinality(InFlight(i) \cup {w}) = Cardinality(InFlight(i))
             \/ Cardinality(InFlight(i) \cup {w}) = Cardinality(InFlight(i)) + 1
      BY <3>1, FS_AddElement
    <3> QED
      BY <3>1, <3>2
  <2>3. /\ Cardinality(InFlight(i)') <= Cardinality(InFlight(i) \cup {w})
        /\ Cardinality(InFlight(i)') \in Nat
    BY <2>1, <2>2, FS_Subset, FS_CardinalityType
  <2>4. Cardinality(InFlight(i)) <= 0 + Cardinality(Reaped(i))
    BY <1>1, <1>2 DEF History, LiveCalls
  <2> QED
    BY <1>2, <1>6, <2>2, <2>3, <2>4 DEF LiveCalls
<1>12. Undisputed(i)'
  <2> SUFFICES ASSUME Reaped(i)' = {}
               PROVE  /\ \A v \in InFlight(i)' : req'[v].attempt = k
                      /\ \A n \in DOMAIN attempts'[i] :
                           attempts'[i][n].outcome = "SUCCEEDED" => n = k
    BY <1>1, <1>2 DEF Undisputed
  <2>1. /\ InFlight(i) = {}
        /\ \A n \in DOMAIN attempts[i] :
             attempts[i][n].outcome = "SUCCEEDED" => row[i].analysis = n
    BY <1>1, <1>2, <1>6 DEF History, Undisputed
  <2>2. row[i].analysis = 0
    BY <1>1 DEF Inv, ResultProvenance
  <2>3. 0 \notin DOMAIN attempts[i]
    BY <1>0
  <2> QED
    BY <1>1, <1>4, <1>9, <2>1, <2>2, <2>3
<1>13. Explained(i)'
  BY <1>2 DEF Explained
<1> QED
  BY <1>5, <1>7, <1>8, <1>10, <1>11, <1>12, <1>13 DEF History

\* Saving an attempt changes a row that nobody else holds and that explains no error.
LEMMA RecordKeeps ==
  ASSUME Inv, Inv', NEW i \in Items, NEW w \in Workers, History(i), RecordedBy(i, w)
  PROVE  History(i)'
<1> DEFINE k == req[w].attempt
<1>0. TypeOK /\ row[i] \in WorkItem /\ attempts[i] \in Seq(AnalysisAttempt)
  BY DEF Inv, TypeOK
<1>1. PICK a : /\ attempts'[i] = [attempts[i] EXCEPT ![k] = a]
               /\ req'[w].to = "FAILED" =>
                    a = [outcome |-> "FAILED", error_code |-> req'[w].code]
  BY DEF RecordedBy
<1>2. /\ Exists(i) /\ w \in InFlight(i) /\ req[w].pc = "call"
      /\ row' = row /\ transitions' = transitions
      /\ req'[w].pc = "settle" /\ req'[w].attempt = k
      /\ w \in InFlight(i)'
      /\ Held(i, Workers \ {w})
  BY DEF RecordedBy
<1>3. /\ Exists(i)'
      /\ Entries(i)' = Entries(i)
      /\ Reaped(i)' = Reaped(i)
      /\ LastReason(i)' = LastReason(i)
  BY <1>2 DEF Exists, Entries, Reaped, LastReason
<1>4. Len(attempts[i]) = row[i].attempt_count /\ k \in DOMAIN attempts[i]
  <2>1. Calling(w) /\ req[w].item = i
    BY <1>2 DEF InFlight, Calling
  <2>2. k \in 1 .. row[i].attempt_count
    BY <2>1 DEF Inv, Ownership, OwnAttempt
  <2> QED
    BY <2>2, <1>0 DEF Inv, Ownership, AttemptsCounted
<1>5. /\ DOMAIN attempts'[i] = DOMAIN attempts[i]
      /\ attempts'[i][k] = a
      /\ \A n \in DOMAIN attempts[i] \ {k} : attempts'[i][n] = attempts[i][n]
  BY <1>0, <1>1, <1>4
<1>6. \A v \in InFlight(i)' \ {w} : /\ v \in InFlight(i)
                                    /\ req'[v].pc = req[v].pc
                                    /\ req'[v].attempt = req[v].attempt
                                    /\ req'[v].to = req[v].to
                                    /\ req'[v].code = req[v].code
                                    /\ req[v].attempt \in DOMAIN attempts[i] \ {k}
  <2> SUFFICES ASSUME NEW v \in InFlight(i)' \ {w}
               PROVE  /\ v \in InFlight(i)
                      /\ req'[v].pc = req[v].pc
                      /\ req'[v].attempt = req[v].attempt
                      /\ req'[v].to = req[v].to
                      /\ req'[v].code = req[v].code
                      /\ req[v].attempt \in DOMAIN attempts[i] \ {k}
    OBVIOUS
  <2>1. /\ v \in InFlight(i)
        /\ req'[v].pc = req[v].pc
        /\ req'[v].attempt = req[v].attempt
        /\ req'[v].to = req[v].to
        /\ req'[v].code = req[v].code
    BY <1>2 DEF Held, InFlight
  <2>2. v \in Workers /\ Calling(v) /\ req[v].item = i
    BY <2>1, <1>2 DEF InFlight, Calling
  <2>3. w \in Workers /\ Calling(w) /\ req[w].item = i /\ v # w
    BY <1>2 DEF InFlight, Calling
  <2>4. req[v].attempt \in 1 .. row[i].attempt_count /\ req[v].attempt # k
    BY <2>2, <2>3 DEF Inv, Ownership, OwnAttempt, DistinctAttempts
  <2> QED
    BY <2>1, <2>4, <1>0, <1>4
<1>7. InFlight(i)' \subseteq InFlight(i)
  BY <1>2, <1>6
<1>8. Trail(i)' /\ Counted(i)' /\ Swept(i)'
  BY <1>2, <1>3 DEF History, Trail, Counted, Swept
<1>9. InHand(i)'
  <2> SUFFICES ASSUME NEW v \in InFlight(i)'
               PROVE  /\ req'[v].pc = "call" => attempts'[i][req'[v].attempt] = OpenedAttempt
                      /\ req'[v].pc = "settle" /\ req'[v].to = "FAILED" =>
                           attempts'[i][req'[v].attempt] =
                             [outcome |-> "FAILED", error_code |-> req'[v].code]
    BY DEF InHand
  <2>1. CASE v = w
    BY <2>1, <1>1, <1>2, <1>5
  <2>2. CASE v # w
    <3>1. /\ v \in InFlight(i)
          /\ attempts'[i][req'[v].attempt] = attempts[i][req[v].attempt]
          /\ req'[v].pc = req[v].pc /\ req'[v].to = req[v].to /\ req'[v].code = req[v].code
      BY <2>2, <1>5, <1>6
    <3>2. /\ req[v].pc = "call" => attempts[i][req[v].attempt] = OpenedAttempt
          /\ req[v].pc = "settle" /\ req[v].to = "FAILED" =>
               attempts[i][req[v].attempt] = [outcome |-> "FAILED", error_code |-> req[v].code]
      BY <3>1, <1>2 DEF History, InHand
    <3> QED
      BY <3>1, <3>2
  <2> QED
    BY <2>1, <2>2
<1>10. LiveCalls(i)'
  <2>1. /\ IsFiniteSet(InFlight(i)) /\ Cardinality(InFlight(i)) \in Nat
        /\ Cardinality(Reaped(i)) \in Nat
    BY <1>0, FiniteCounts
  <2>2. /\ Cardinality(InFlight(i)') <= Cardinality(InFlight(i))
        /\ Cardinality(InFlight(i)') \in Nat
    BY <1>7, <2>1, FS_Subset, FS_CardinalityType
  <2> QED
    BY <1>2, <1>3, <2>1, <2>2 DEF History, LiveCalls
<1>11. Undisputed(i)'
  <2> SUFFICES ASSUME Reaped(i) = {}
               PROVE  /\ \A v \in InFlight(i)' : /\ row[i].status = "ANALYSING"
                                                 /\ req'[v].attempt = row[i].attempt_count
                      /\ \A n \in DOMAIN attempts[i] :
                           attempts'[i][n].outcome = "SUCCEEDED" =>
                             \/ row[i].analysis = n
                             \/ row[i].status = "ANALYSING" /\ n = row[i].attempt_count
    BY <1>2, <1>3, <1>5 DEF Undisputed
  <2>1. /\ \A v \in InFlight(i) : /\ row[i].status = "ANALYSING"
                                  /\ req[v].attempt = row[i].attempt_count
        /\ \A n \in DOMAIN attempts[i] :
             attempts[i][n].outcome = "SUCCEEDED" =>
               \/ row[i].analysis = n
               \/ row[i].status = "ANALYSING" /\ n = row[i].attempt_count
    BY <1>2 DEF History, Undisputed
  <2>2. row[i].status = "ANALYSING" /\ k = row[i].attempt_count
    BY <1>2, <2>1
  <2> QED
    BY <1>2, <1>5, <1>6, <2>1, <2>2
<1>12. Explained(i)'
  <2> DEFINE code == row[i].last_error_code
  <2>1. CASE row[i].status = "FAILED" /\ ~(code = STALE /\ LastReason(i) = "reaped")
    <3>1. PICK n \in DOMAIN attempts[i] :
            /\ attempts[i][n] = [outcome |-> "FAILED", error_code |-> code]
            /\ \A v \in InFlight(i) : req[v].attempt # n
      BY <2>1 DEF History, Explained
    <3>2. n # k /\ attempts'[i][n] = attempts[i][n] /\ n \in DOMAIN attempts'[i]
      BY <1>2, <1>5, <3>1
    <3>3. \A v \in InFlight(i)' : req'[v].attempt # n
      BY <1>2, <1>6, <3>1, <3>2
    <3>4. code = LastReason(i)
      BY <2>1 DEF History, Explained
    <3> QED
      BY <1>2, <1>3, <2>1, <3>1, <3>2, <3>3, <3>4 DEF Explained
  <2>2. CASE ~(row[i].status = "FAILED" /\ ~(code = STALE /\ LastReason(i) = "reaped"))
    BY <1>2, <1>3, <2>2 DEF History, Explained
  <2> QED
    BY <2>1, <2>2
<1> QED
  BY <1>8, <1>9, <1>10, <1>11, <1>12 DEF History

\* Settling out of ANALYSING: the request that settles lets go of its attempt, and while
\* no reaper has intervened it was the only one.
LEMMA SettleKeeps ==
  ASSUME Inv, Inv', NEW i \in Items, NEW w \in Workers, History(i), SettledBy(i, w)
  PROVE  History(i)'
<1> DEFINE k == req[w].attempt
<1>0. TypeOK /\ row[i] \in WorkItem /\ attempts[i] \in Seq(AnalysisAttempt)
  BY DEF Inv, TypeOK
<1>1. /\ row[i].status = "ANALYSING" /\ Exists(i)
      /\ w \in InFlight(i) /\ req[w].pc = "settle"
      /\ row'[i].attempt_count = row[i].attempt_count
      /\ attempts'[i] = attempts[i]
      /\ w \notin InFlight(i)'
      /\ Held(i, Workers)
  BY DEF SettledBy, SameCount, SameAttempts, Exists, Deleted
<1>2. PICK to, reason : /\ Moved(i, to, reason)
                        /\ \/ /\ to = "READY_FOR_REVIEW"
                              /\ row'[i].analysis = k
                              /\ row'[i].last_error_code = NONE
                           \/ /\ to = "FAILED" /\ reason = req[w].code
                              /\ req[w].to = "FAILED"
                              /\ row'[i].analysis = row[i].analysis
                              /\ row'[i].last_error_code = req[w].code
  BY DEF SettledBy, SameResult
<1>3. row'[i].status = to /\ to # "ANALYSING" /\ Exists(i)'
  BY <1>2 DEF Moved, Exists, Deleted
<1>4. Trail(i)' /\ LastReason(i)' = reason
  BY <1>0, <1>2, MovedKeepsTrail DEF History
<1>5. /\ Cardinality(Entries(i)') = Cardinality(Entries(i))
      /\ Cardinality(Reaped(i)') >= Cardinality(Reaped(i))
      /\ Reaped(i)' = {} => Reaped(i) = {}
      /\ Cardinality(Reaped(i)) \in Nat /\ Cardinality(Reaped(i)') \in Nat
  <2>1. /\ Cardinality(Entries(i)) \in Nat /\ Cardinality(Reaped(i)) \in Nat
        /\ Cardinality(Entries(i)') = Cardinality(Entries(i)) + (IF to = "ANALYSING" THEN 1 ELSE 0)
        /\ Cardinality(Reaped(i)') =
             Cardinality(Reaped(i)) + (IF reason = "reaped" THEN 1 ELSE 0)
        /\ Reaped(i)' = {} => Reaped(i) = {}
    BY <1>0, <1>2, MovedCounts, FiniteCounts
  <2> QED
    BY <1>3, <2>1
<1>6. Counted(i)' /\ Swept(i)'
  BY <1>1, <1>3, <1>5 DEF History, Counted, Swept
<1>7. \A v \in InFlight(i)' : /\ v \in InFlight(i) /\ v # w
                              /\ req'[v].pc = req[v].pc
                              /\ req'[v].attempt = req[v].attempt
                              /\ req'[v].to = req[v].to
                              /\ req'[v].code = req[v].code
                              /\ req[v].attempt # k
  <2> SUFFICES ASSUME NEW v \in InFlight(i)'
               PROVE  /\ v \in InFlight(i) /\ v # w
                      /\ req'[v].pc = req[v].pc
                      /\ req'[v].attempt = req[v].attempt
                      /\ req'[v].to = req[v].to
                      /\ req'[v].code = req[v].code
                      /\ req[v].attempt # k
    OBVIOUS
  <2>1. /\ v \in InFlight(i) /\ v # w
        /\ req'[v].pc = req[v].pc
        /\ req'[v].attempt = req[v].attempt
        /\ req'[v].to = req[v].to
        /\ req'[v].code = req[v].code
    BY <1>1 DEF Held, InFlight
  <2>2. v \in Workers /\ Calling(v) /\ req[v].item = i /\ Calling(w) /\ req[w].item = i
    BY <2>1, <1>1 DEF InFlight, Calling
  <2> QED
    BY <2>1, <2>2 DEF Inv, Ownership, DistinctAttempts
<1>8. InHand(i)'
  BY <1>1, <1>7 DEF History, InHand
<1>9. LiveCalls(i)'
  <2>1. IsFiniteSet(InFlight(i)) /\ Cardinality(InFlight(i)) \in Nat
    BY <1>0, FiniteCounts
  <2>2. /\ IsFiniteSet(InFlight(i) \ {w})
        /\ Cardinality(InFlight(i) \ {w}) = Cardinality(InFlight(i)) - 1
        /\ Cardinality(InFlight(i) \ {w}) \in Nat
    BY <1>1, <2>1, FS_RemoveElement, FS_CardinalityType
  <2>3. InFlight(i)' \subseteq InFlight(i) \ {w}
    BY <1>7
  <2>4. /\ Cardinality(InFlight(i)') \in Nat
        /\ Cardinality(InFlight(i)') <= Cardinality(InFlight(i) \ {w})
    BY <2>2, <2>3, FS_Subset, FS_CardinalityType
  <2>5. Cardinality(InFlight(i)) <= 1 + Cardinality(Reaped(i))
    BY <1>1 DEF History, LiveCalls
  <2> QED
    BY <1>3, <1>5, <2>1, <2>2, <2>4, <2>5 DEF LiveCalls
<1>10. Undisputed(i)'
  <2> SUFFICES ASSUME Reaped(i)' = {}
               PROVE  /\ InFlight(i)' = {}
                      /\ \A n \in DOMAIN attempts[i] :
                           attempts[i][n].outcome = "SUCCEEDED" => row'[i].analysis = n
    BY <1>1 DEF Undisputed
  <2>1. /\ \A v \in InFlight(i) : req[v].attempt = row[i].attempt_count
        /\ \A n \in DOMAIN attempts[i] :
             attempts[i][n].outcome = "SUCCEEDED" =>
               row[i].analysis = n \/ n = row[i].attempt_count
    BY <1>1, <1>5 DEF History, Undisputed
  <2>2. InFlight(i)' = {} /\ k = row[i].attempt_count
    BY <1>1, <1>7, <2>1
  <2>3. row[i].analysis = 0 /\ 0 \notin DOMAIN attempts[i]
    BY <1>0, <1>1 DEF Inv, ResultProvenance
  <2>4. to = "FAILED" => attempts[i][k].outcome # "SUCCEEDED"
    <3>1. to = "FAILED" => attempts[i][k] = [outcome |-> "FAILED", error_code |-> req[w].code]
      BY <1>1, <1>2 DEF History, InHand
    <3> QED
      BY <3>1
  <2> QED
    BY <1>2, <2>1, <2>2, <2>3, <2>4
<1>11. Explained(i)'
  <2>1. CASE to = "READY_FOR_REVIEW"
    BY <2>1, <1>2, <1>3 DEF Explained
  <2>2. CASE to = "FAILED"
    <3>1. attempts[i][k] = [outcome |-> "FAILED", error_code |-> req[w].code]
      BY <2>2, <1>1, <1>2 DEF History, InHand
    <3>2. k \in DOMAIN attempts'[i]
      <4>1. Calling(w) /\ req[w].item = i /\ w \in Workers
        BY <1>1 DEF InFlight, Calling
      <4>2. k \in 1 .. row[i].attempt_count
        BY <4>1 DEF Inv, Ownership, OwnAttempt
      <4> QED
        BY <4>2, <1>0, <1>1 DEF Inv, Ownership, AttemptsCounted
    <3>3. row'[i].last_error_code = req[w].code /\ reason = req[w].code
      BY <2>2, <1>2
    <3>4. attempts'[i][k] = [outcome |-> "FAILED", error_code |-> row'[i].last_error_code]
      BY <1>1, <3>1, <3>3
    <3>5. \A v \in InFlight(i)' : req'[v].attempt # k
      BY <1>7
    <3>6. row'[i].last_error_code = LastReason(i)'
      BY <1>4, <3>3
    <3> QED
      BY <2>2, <1>3, <3>2, <3>4, <3>5, <3>6 DEF Explained
  <2> QED
    BY <1>2, <2>1, <2>2
<1> QED
  BY <1>4, <1>6, <1>8, <1>9, <1>10, <1>11 DEF History

\* Completing an item and reaping one: no attempt and no call changes.
LEMMA MoveKeeps ==
  ASSUME Inv, NEW i \in Items, History(i), Completed(i) \/ ReapedNow(i)
  PROVE  History(i)'
<1>0. TypeOK
  BY DEF Inv
<1>1. /\ row'[i].attempt_count = row[i].attempt_count
      /\ row'[i].analysis = row[i].analysis
      /\ attempts'[i] = attempts[i]
      /\ Held(i, Workers)
      /\ Exists(i)
  BY DEF Completed, ReapedNow, SameCount, SameResult, SameAttempts, Exists, Deleted
<1>2. PICK to, reason :
        /\ Moved(i, to, reason)
        /\ \/ /\ row[i].status = "READY_FOR_REVIEW"
              /\ to = "COMPLETED"
              /\ row'[i].last_error_code = row[i].last_error_code
           \/ /\ row[i].status = "ANALYSING"
              /\ to = "FAILED" /\ reason = "reaped"
              /\ row'[i].last_error_code = STALE
  BY DEF Completed, ReapedNow, SameError
<1>3. row'[i].status = to /\ to # "ANALYSING" /\ Exists(i)'
  BY <1>2 DEF Moved, Exists, Deleted
<1>4. Trail(i)' /\ LastReason(i)' = reason
  BY <1>0, <1>2, MovedKeepsTrail DEF History
<1>5. /\ Cardinality(Entries(i)) \in Nat /\ Cardinality(Reaped(i)) \in Nat
      /\ Cardinality(Entries(i)') = Cardinality(Entries(i)) + (IF to = "ANALYSING" THEN 1 ELSE 0)
      /\ Cardinality(Reaped(i)') =
           Cardinality(Reaped(i)) + (IF reason = "reaped" THEN 1 ELSE 0)
      /\ Reaped(i)' = {} => Reaped(i) = {} /\ reason # "reaped"
  BY <1>0, <1>2, MovedCounts, FiniteCounts
<1>6. Counted(i)' /\ Swept(i)'
  <2>1. Cardinality(Entries(i)') = Cardinality(Entries(i))
    BY <1>3, <1>5
  <2> QED
    BY <1>1, <1>3, <2>1 DEF History, Counted, Swept
<1>7. \A v \in InFlight(i)' : /\ v \in InFlight(i)
                              /\ req'[v].pc = req[v].pc
                              /\ req'[v].attempt = req[v].attempt
                              /\ req'[v].to = req[v].to
                              /\ req'[v].code = req[v].code
  BY <1>1 DEF Held, InFlight
<1>8. InHand(i)'
  BY <1>1, <1>7 DEF History, InHand
<1>9. LiveCalls(i)'
  <2>1. Cardinality(InFlight(i)') \in Nat /\ Cardinality(InFlight(i)') <= Cardinality(InFlight(i))
    BY <1>0, <1>1, FewerInFlight
  <2>2. Cardinality(InFlight(i)) \in Nat
    BY <1>0, FiniteCounts
  <2>3. Cardinality(InFlight(i)) <= Cardinality(Reaped(i)')
    <3>1. CASE row[i].status = "READY_FOR_REVIEW"
      <4>1. Cardinality(InFlight(i)) <= 0 + Cardinality(Reaped(i))
        BY <3>1, <1>1 DEF History, LiveCalls
      <4> QED
        BY <4>1, <2>2, <1>5
    <3>2. CASE row[i].status = "ANALYSING"
      <4>1. Cardinality(InFlight(i)) <= 1 + Cardinality(Reaped(i))
        BY <3>2, <1>1 DEF History, LiveCalls
      <4>2. reason = "reaped"
        BY <3>2, <1>2
      <4> QED
        BY <4>1, <4>2, <2>2, <1>5
    <3> QED
      BY <1>2, <3>1, <3>2
  <2>4. Cardinality(Reaped(i)') \in Nat
    BY <1>5
  <2> QED
    BY <1>3, <2>1, <2>2, <2>3, <2>4 DEF LiveCalls
<1>10. Undisputed(i)'
  <2> SUFFICES ASSUME Reaped(i)' = {}
               PROVE  /\ InFlight(i)' = {}
                      /\ \A n \in DOMAIN attempts[i] :
                           attempts[i][n].outcome = "SUCCEEDED" => row[i].analysis = n
    BY <1>1 DEF Undisputed
  <2>1. Reaped(i) = {} /\ row[i].status # "ANALYSING"
    BY <1>2, <1>5
  <2> QED
    BY <1>1, <1>7, <2>1 DEF History, Undisputed
<1>11. Explained(i)'
  BY <1>2, <1>3, <1>4 DEF History, Explained
<1> QED
  BY <1>4, <1>6, <1>8, <1>9, <1>10, <1>11 DEF History

LEMMA DeleteKeeps ==
  ASSUME TypeOK, NEW i \in Items, DeletedNow(i)
  PROVE  History(i)'
<1>1. /\ row'[i].status = Deleted /\ row'[i].attempt_count = 0
      /\ attempts'[i] = <<>> /\ transitions'[i] = <<>>
  BY DEF DeletedNow, NoRow
<1>2. ~Exists(i)' /\ Entries(i)' = {}
  BY <1>1 DEF Exists, Entries
<1> QED
  BY <1>1, <1>2, FS_EmptySet
     DEF History, Trail, Counted, Swept, InHand, LiveCalls, Undisputed, Explained, Deleted

LEMMA InitHistories == Init => Histories
<1> SUFFICES ASSUME Init, NEW i \in Items PROVE History(i)
  BY DEF Histories
<1>1. /\ row[i].status = "RECEIVED" /\ row[i].version = 1 /\ row[i].attempt_count = 0
      /\ attempts[i] = <<>> /\ transitions[i] = <<>>
      /\ \A w \in Workers : req[w].pc = "idle"
  BY DEF Init, NewRow, Idle
<1>2. Entries(i) = {} /\ Reaped(i) = {} /\ InFlight(i) = {}
  BY <1>1 DEF Entries, Reaped, InFlight
<1>3. Cardinality({}) = 0
  BY FS_EmptySet
<1> QED
  BY <1>1, <1>2, <1>3
     DEF History, Trail, At, Counted, Swept, InHand, LiveCalls, Undisputed, Explained

\* Inv and the histories together are inductive.
LEMMA HistoriesInductive == Inv /\ Histories /\ [Next]_vars => Inv' /\ Histories'
<1> SUFFICES ASSUME Inv, Histories, [Next]_vars PROVE Inv' /\ Histories'
  OBVIOUS
<1>1. Inv'
  BY Inductive
<1>2. ASSUME NEW i \in Items PROVE History(i)'
  <2>1. History(i)
    BY DEF Histories
  <2> QED
    BY <1>1, <2>1, StepOfItem, AsideKeeps, ClaimKeeps, RecordKeeps, SettleKeeps, MoveKeeps,
       DeleteKeeps DEF Inv
<1> QED
  BY <1>1, <1>2 DEF Histories

THEOREM HistoriesCorrect == Spec => [](Inv /\ Histories)
<1>1. Init => Inv /\ Histories
  BY InitTypeOK, InitOwnership, InitHistories DEF Inv
<1> QED
  BY <1>1, HistoriesInductive, PTL DEF Spec

-----------------------------------------------------------------------------
(* The properties of Analysis that follow.                                 *)

\* The audit trail of every item is the history of its status, and its version counts
\* the rows, whatever requests, reapers and crashes interleave.
THEOREM TrailIsHistory == Spec => []AuditTrailIsTheHistory
<1>1. Histories => AuditTrailIsTheHistory
  <2> SUFFICES ASSUME Histories, NEW i \in Items, Exists(i)
               PROVE  LET t == transitions[i]
                          at(n) == IF n = 0 THEN "RECEIVED" ELSE t[n].to
                      IN  /\ \A n \in DOMAIN t : /\ t[n].from = at(n - 1)
                                                 /\ can_transition(t[n].from, t[n].to)
                          /\ row[i].status = at(Len(t))
                          /\ row[i].version = Len(t) + 1
    BY DEF AuditTrailIsTheHistory
  <2> QED
    BY DEF Histories, History, Trail, At
<1> QED
  BY <1>1, HistoriesCorrect, PTL

\* Every model call left an attempt row and a move into ANALYSING behind it.
THEOREM CallsAreAttempts == Spec => []EveryCallIsAnAttempt
<1>1. Inv /\ Histories => EveryCallIsAnAttempt
  BY DEF Inv, Ownership, AttemptsCounted, Histories, History, Counted, EveryCallIsAnAttempt
<1> QED
  BY <1>1, HistoriesCorrect, PTL

\* There is at most one live call per item, plus one for each call a reaper gave up on.
THEOREM CallsBounded == Spec => []CallsInFlightBounded
<1>1. Inv /\ Histories => CallsInFlightBounded
  <2> SUFFICES ASSUME Inv, Histories, NEW i \in Items, Exists(i)
               PROVE  Cardinality(InFlight(i)) <= 1 + Cardinality(Reaped(i))
    BY DEF CallsInFlightBounded
  <2>1. Cardinality(InFlight(i)) \in Nat /\ Cardinality(Reaped(i)) \in Nat
    BY FiniteCounts DEF Inv
  <2>2. \/ Cardinality(InFlight(i)) <= 0 + Cardinality(Reaped(i))
        \/ Cardinality(InFlight(i)) <= 1 + Cardinality(Reaped(i))
    BY DEF Histories, History, LiveCalls
  <2> QED
    BY <2>1, <2>2
<1> QED
  BY <1>1, HistoriesCorrect, PTL

\* A success is lost only where a reaper has intervened.
THEOREM SuccessesKept == Spec => []SuccessLostOnlyToReaper
<1>1. Histories => SuccessLostOnlyToReaper
  <2> SUFFICES ASSUME Histories, NEW i \in Items, NEW k \in DOMAIN attempts[i],
                      attempts[i][k].outcome = "SUCCEEDED"
               PROVE  row[i].analysis = k \/ row[i].status = "ANALYSING" \/ Reaped(i) # {}
    BY DEF SuccessLostOnlyToReaper
  <2>1. Exists(i)
    BY DEF Histories, History, Swept
  <2> QED
    BY <2>1 DEF Histories, History, Undisputed
<1> QED
  BY <1>1, HistoriesCorrect, PTL

\* The error shown for an item is a failure its history records.
THEOREM ErrorsExplained == Spec => []ErrorIsExplained
<1>1. Histories => ErrorIsExplained
  <2> SUFFICES ASSUME Histories, NEW i \in Items
               PROVE  LET code == row[i].last_error_code
                      IN  /\ row[i].status = "FAILED" =>
                               \/ code = STALE /\ LastReason(i) = "reaped"
                               \/ /\ code = LastReason(i)
                                  /\ \E k \in DOMAIN attempts[i] : attempts[i][k] =
                                       [outcome |-> "FAILED", error_code |-> code]
                          /\ row[i].status \in {"READY_FOR_REVIEW", "COMPLETED"} => code = NONE
    BY DEF ErrorIsExplained
  <2> QED
    BY DEF Histories, History, Explained
<1> QED
  BY <1>1, HistoriesCorrect, PTL

\* The step formula of HistoryOnlyGrows, for one item.
Grows(i) ==
  Exists(i) /\ row'[i].status # Deleted =>
    /\ \A n \in DOMAIN transitions[i] :
         n \in DOMAIN transitions'[i] /\ transitions'[i][n] = transitions[i][n]
    /\ \A k \in DOMAIN attempts[i] :
         /\ k \in DOMAIN attempts'[i]
         /\ attempts[i][k].outcome = "SUCCEEDED" => attempts'[i][k] = attempts[i][k]

\* A request saves only the attempt row it opened, which is still open, so nothing that
\* succeeded is overwritten.
LEMMA GrowsStep ==
  ASSUME Inv, Histories, [Next]_vars, NEW i \in Items
  PROVE  Grows(i)
<1> SUFFICES ASSUME Exists(i), row'[i].status # Deleted
             PROVE  /\ \A n \in DOMAIN transitions[i] :
                         n \in DOMAIN transitions'[i] /\ transitions'[i][n] = transitions[i][n]
                    /\ \A k \in DOMAIN attempts[i] :
                         /\ k \in DOMAIN attempts'[i]
                         /\ attempts[i][k].outcome = "SUCCEEDED" =>
                              attempts'[i][k] = attempts[i][k]
  BY DEF Grows
<1>0. TypeOK /\ attempts[i] \in Seq(AnalysisAttempt)
  BY DEF Inv, TypeOK
<1>1. CASE Aside(i)
  BY <1>1 DEF Aside, SameAttempts
<1>2. ASSUME NEW to, NEW reason, Moved(i, to, reason),
             attempts'[i] = attempts[i] \/ attempts'[i] = Append(attempts[i], OpenedAttempt)
      PROVE  /\ \A n \in DOMAIN transitions[i] :
                  n \in DOMAIN transitions'[i] /\ transitions'[i][n] = transitions[i][n]
             /\ \A k \in DOMAIN attempts[i] :
                  k \in DOMAIN attempts'[i] /\ attempts'[i][k] = attempts[i][k]
  <2>1. \A n \in DOMAIN transitions[i] :
          n \in DOMAIN transitions'[i] /\ transitions'[i][n] = transitions[i][n]
    BY <1>0, <1>2, MovedTrail
  <2>2. \A k \in DOMAIN attempts[i] :
          k \in DOMAIN attempts'[i] /\ attempts'[i][k] = attempts[i][k]
    BY <1>0, <1>2
  <2> QED
    BY <2>1, <2>2
<1>3. CASE \/ Completed(i) \/ ReapedNow(i)
           \/ \E w \in Workers : ClaimedBy(i, w) \/ SettledBy(i, w)
  BY <1>2, <1>3 DEF Completed, ReapedNow, ClaimedBy, SettledBy, SameAttempts
<1>4. ASSUME NEW w \in Workers, RecordedBy(i, w)
      PROVE  /\ transitions' = transitions
             /\ \A k \in DOMAIN attempts[i] :
                  /\ k \in DOMAIN attempts'[i]
                  /\ attempts[i][k].outcome = "SUCCEEDED" => attempts'[i][k] = attempts[i][k]
  <2> DEFINE n == req[w].attempt
  <2>1. /\ transitions' = transitions
        /\ w \in InFlight(i) /\ req[w].pc = "call"
        /\ \E a : attempts'[i] = [attempts[i] EXCEPT ![n] = a]
    BY <1>4 DEF RecordedBy
  <2>2. attempts[i][n] = OpenedAttempt
    BY <2>1 DEF Histories, History, InHand
  <2>3. attempts[i][n].outcome # "SUCCEEDED"
    BY <2>2 DEF OpenedAttempt
  <2> HIDE DEF n
  <2> QED
    BY <1>0, <2>1, <2>3
<1>5. CASE DeletedNow(i)
  BY <1>5 DEF DeletedNow, NoRow
<1> QED
  BY <1>1, <1>3, <1>4, <1>5, StepOfItem DEF Inv

\* Audit rows and attempts are never rewritten once they count: a row stays, and an
\* attempt that succeeded stays so, until an administrator deletes the item.
THEOREM HistoryGrows == Spec => HistoryOnlyGrows
<1>1. Inv /\ Histories /\ [Next]_vars => \A i \in Items : Grows(i)
  BY GrowsStep
<1>2. Spec => [][\A i \in Items : Grows(i)]_vars
  BY <1>1, HistoriesCorrect, PTL DEF Spec
<1> QED
  BY <1>2 DEF HistoryOnlyGrows, Grows

\* The buttons an operator is offered are the requests the API would act on.
THEOREM OffersAccepted == Spec => []OfferedIsAccepted
<1>1. TypeOK => OfferedIsAccepted
  <2> SUFFICES ASSUME TypeOK, NEW i \in Items, Exists(i)
               PROVE  allowed_actions(row[i].status,
                                      attempts_remaining(row[i].attempt_count, MaxAttempts)) =
                        {a \in {"analyse", "retry", "complete"} :
                           \/ a = "analyse" /\ ~Refused(i, "RECEIVED")
                           \/ a = "retry" /\ Retryable(i)
                           \/ a = "complete" /\ is_manual_transition(row[i].status, "COMPLETED")}
    BY DEF OfferedIsAccepted
  <2>1. row[i].status \in Statuses /\ row[i].attempt_count \in Nat /\ MaxAttempts \in Nat
    BY NumbersAssumption DEF TypeOK, WorkItem, Exists
  <2>2. attempts_remaining(row[i].attempt_count, MaxAttempts) > 0
          <=> row[i].attempt_count < MaxAttempts
    BY <2>1 DEF attempts_remaining
  <2>3. is_manual_transition(row[i].status, "COMPLETED") <=> row[i].status = "READY_FOR_REVIEW"
    BY DEF is_manual_transition, MANUAL_TRANSITIONS
  <2> QED
    BY <2>1, <2>2, <2>3 DEF allowed_actions, Refused, Retryable, Statuses
<1> QED
  BY <1>1, TypeCorrect, PTL

-----------------------------------------------------------------------------
(* Late answers.  GivenUp finds the k-th entry into ANALYSING with CHOOSE; *)
(* the invariant carries the entry itself.                                 *)

Upto(i, n) == {m \in Entries(i) : m <= n}

\* The attempts of the item that a reaper gave up on, and all later ones: the entry of
\* the abandoned attempt is at n.
Abandoned(i) ==
  {k \in Nat : \E n \in Entries(i) : /\ Cardinality(Upto(i, n)) \in 1 .. k
                                     /\ n + 1 \in DOMAIN transitions[i]
                                     /\ transitions[i][n + 1].reason = "reaped"}

\* Every call out of step with its item, under way or answered, follows an abandoned one.
Late(i) ==
  Exists(i) =>
    /\ \A w \in InFlight(i) :
         row[i].status # "ANALYSING" \/ req[w].attempt # row[i].attempt_count =>
           req[w].attempt \in Abandoned(i)
    /\ row[i].analysis \notin {0, row[i].attempt_count} => row[i].analysis \in Abandoned(i)

LateAnswers == \A i \in Items : Late(i)

LEMMA AbandonedLater ==
  ASSUME NEW i \in Items, NEW k \in Abandoned(i), NEW m \in Nat, k <= m
  PROVE  m \in Abandoned(i)
<1>1. k \in Nat /\ 1 .. k \subseteq 1 .. m
  BY DEF Abandoned
<1> QED
  BY <1>1 DEF Abandoned

\* What a reaper gave up on stays given up while the trail grows.
LEMMA AbandonedStays ==
  ASSUME TypeOK, NEW i \in Items, NEW k \in Abandoned(i),
         \/ transitions'[i] = transitions[i]
         \/ \E to, reason : Moved(i, to, reason)
  PROVE  k \in Abandoned(i)'
<1>1. CASE transitions'[i] = transitions[i]
  BY <1>1 DEF Abandoned, Upto, Entries
<1>2. CASE \E to, reason : Moved(i, to, reason)
  <2>1. PICK to, reason : Moved(i, to, reason)
    BY <1>2
  <2>2. /\ DOMAIN transitions'[i] = DOMAIN transitions[i] \cup {Len(transitions[i]) + 1}
        /\ \A n \in DOMAIN transitions[i] : transitions'[i][n] = transitions[i][n]
    BY <2>1, MovedTrail
  <2>3. DOMAIN transitions[i] = 1 .. Len(transitions[i]) /\ Len(transitions[i]) \in Nat
    <3>1. transitions[i] \in Seq(StatusTransition)
      BY DEF TypeOK
    <3> QED
      BY <3>1
  <2>4. PICK n \in Entries(i) : /\ Cardinality(Upto(i, n)) \in 1 .. k
                                /\ n + 1 \in DOMAIN transitions[i]
                                /\ transitions[i][n + 1].reason = "reaped"
    BY DEF Abandoned
  <2>5. n \in DOMAIN transitions[i] /\ n \in Nat /\ n <= Len(transitions[i])
    BY <2>3, <2>4 DEF Entries
  <2>6. n \in Entries(i)' /\ n + 1 \in DOMAIN transitions'[i]
        /\ transitions'[i][n + 1].reason = "reaped"
    BY <2>2, <2>4, <2>5 DEF Entries
  <2>7. Upto(i, n)' = Upto(i, n)
    <3>1. \A m \in DOMAIN transitions'[i] : m <= n => m \in DOMAIN transitions[i]
      BY <2>2, <2>3, <2>5
    <3> QED
      BY <2>2, <3>1 DEF Upto, Entries
  <2> QED
    BY <2>4, <2>6, <2>7 DEF Abandoned
<1> QED
  BY <1>1, <1>2

\* An item that is ANALYSING was moved there by its last audit row, which is the entry
\* of its last attempt: a reaper that moves it gives up on that attempt.
LEMMA ReapAbandons ==
  ASSUME Inv, NEW i \in Items, History(i), ReapedNow(i)
  PROVE  row'[i].attempt_count \in Abandoned(i)'
<1> PICK n : n = Len(transitions[i])
  OBVIOUS
<1>0. TypeOK /\ transitions[i] \in Seq(StatusTransition) /\ row[i] \in WorkItem
  BY DEF Inv, TypeOK
<1>1. /\ row[i].status = "ANALYSING" /\ Exists(i)
      /\ Moved(i, "FAILED", "reaped")
      /\ row'[i].attempt_count = row[i].attempt_count
  BY DEF ReapedNow, SameCount, Exists, Deleted
<1>2. row[i].status = At(transitions[i], n)
  BY <1>1 DEF History, Trail
<1>3. n \in Nat /\ n # 0 /\ n \in DOMAIN transitions[i] /\ transitions[i][n].to = "ANALYSING"
  BY <1>0, <1>1, <1>2 DEF At
<1>4. n \in Entries(i) /\ Upto(i, n) = Entries(i)
  <2>1. \A m \in DOMAIN transitions[i] : m <= n
    BY <1>0
  <2> QED
    BY <1>3, <2>1 DEF Entries, Upto
<1>5. /\ DOMAIN transitions'[i] = DOMAIN transitions[i] \cup {n + 1}
      /\ \A m \in DOMAIN transitions[i] : transitions'[i][m] = transitions[i][m]
      /\ transitions'[i][n + 1].to = "FAILED"
      /\ transitions'[i][n + 1].reason = "reaped"
  BY <1>0, <1>1, MovedTrail
<1>6. Entries(i)' = Entries(i)
  BY <1>5 DEF Entries
<1>7. Cardinality(Entries(i)) \in 1 .. row[i].attempt_count
  <2>1. IsFiniteSet(Entries(i)) /\ Cardinality(Entries(i)) \in Nat
    BY <1>0, FiniteCounts
  <2>2. Cardinality(Entries(i)) # 0
    BY <1>4, <2>1, FS_EmptySet
  <2>3. Cardinality(Entries(i)) = row[i].attempt_count
    BY DEF History, Counted
  <2> QED
    BY <2>1, <2>2, <2>3
<1>8. row[i].attempt_count \in Nat
  BY <1>0 DEF WorkItem
<1>9. Upto(i, n)' = Entries(i)
  BY <1>4, <1>6 DEF Upto
<1> QED
  BY <1>1, <1>3, <1>4, <1>5, <1>6, <1>7, <1>8, <1>9 DEF Abandoned

LEMMA LateStep ==
  ASSUME Inv, Inv', Histories, [Next]_vars, NEW i \in Items, Late(i)
  PROVE  Late(i)'
<1> SUFFICES ASSUME Exists(i)'
             PROVE  /\ \A w \in InFlight(i)' :
                         row'[i].status # "ANALYSING" \/ req'[w].attempt # row'[i].attempt_count =>
                           req'[w].attempt \in Abandoned(i)'
                    /\ row'[i].analysis \notin {0, row'[i].attempt_count} =>
                         row'[i].analysis \in Abandoned(i)'
  BY DEF Late
<1>0. TypeOK /\ History(i) /\ row[i].attempt_count \in Nat
  BY DEF Inv, TypeOK, WorkItem, Histories
<1>1. ASSUME NEW w \in InFlight(i), Exists(i)
      PROVE  req[w].attempt \in Nat /\ req[w].attempt <= row[i].attempt_count
  <2>1. w \in Workers /\ Calling(w) /\ req[w].item = i
    BY <1>1 DEF InFlight, Calling
  <2> QED
    BY <2>1, <1>0 DEF Inv, Ownership, OwnAttempt
<1>2. CASE Aside(i)
  <2>1. /\ Exists(i)
        /\ row'[i].status = row[i].status /\ row'[i].analysis = row[i].analysis
        /\ row'[i].attempt_count = row[i].attempt_count
        /\ transitions'[i] = transitions[i]
        /\ \A w \in InFlight(i)' : w \in InFlight(i) /\ req'[w].attempt = req[w].attempt
    BY <1>2 DEF Aside, SameCount, SameResult, Held, InFlight, Exists
  <2> QED
    BY <2>1, <1>0, AbandonedStays DEF Late
<1>3. CASE \E w \in Workers : ClaimedBy(i, w)
  <2>1. PICK w \in Workers : ClaimedBy(i, w)
    BY <1>3
  <2>2. /\ Moved(i, "ANALYSING", "started")
        /\ row[i].status # "ANALYSING" /\ row[i].analysis = 0 /\ Exists(i)
        /\ row'[i].analysis = 0
        /\ row'[i].status = "ANALYSING"
        /\ row'[i].attempt_count = row[i].attempt_count + 1
        /\ req'[w].attempt = row[i].attempt_count + 1
    BY <2>1 DEF ClaimedBy, SameResult, Moved, Exists, Deleted, Inv, ResultProvenance
  <2>3. \A v \in InFlight(i)' \ {w} : v \in InFlight(i) /\ req'[v].attempt = req[v].attempt
    BY <2>1 DEF ClaimedBy, Held, InFlight
  <2> QED
    BY <2>2, <2>3, <1>0, AbandonedStays DEF Late
<1>4. CASE \E w \in Workers : RecordedBy(i, w)
  <2>1. PICK w \in Workers : RecordedBy(i, w)
    BY <1>4
  <2>2. /\ Exists(i) /\ row' = row /\ transitions'[i] = transitions[i]
        /\ \A v \in InFlight(i)' : v \in InFlight(i) /\ req'[v].attempt = req[v].attempt
    BY <2>1 DEF RecordedBy, Held, InFlight
  <2> QED
    BY <2>2, <1>0, AbandonedStays DEF Late
<1>5. CASE \E w \in Workers : SettledBy(i, w)
  <2>1. PICK w \in Workers : SettledBy(i, w)
    BY <1>5
  <2> DEFINE k == req[w].attempt
  <2>2. /\ row[i].status = "ANALYSING" /\ Exists(i)
        /\ w \in InFlight(i) /\ w \notin InFlight(i)'
        /\ \E to, reason : Moved(i, to, reason)
        /\ row'[i].analysis = k \/ row'[i].analysis = row[i].analysis
        /\ row'[i].attempt_count = row[i].attempt_count
        /\ \A v \in InFlight(i)' : v \in InFlight(i) /\ req'[v].attempt = req[v].attempt
    BY <2>1 DEF SettledBy, SameResult, SameCount, Held, InFlight, Exists, Deleted
  <2>3. k # row[i].attempt_count => k \in Abandoned(i)
    BY <2>2 DEF Late
  <2>4. row[i].analysis = 0
    BY <2>2 DEF Inv, ResultProvenance
  <2>5. ASSUME NEW v \in InFlight(i)' PROVE req[v].attempt \in Abandoned(i)
    <3>1. v \in InFlight(i) /\ v # w
      BY <2>2, <2>5
    <3>2. CASE req[v].attempt # row[i].attempt_count
      BY <2>2, <3>1, <3>2 DEF Late
    <3>3. CASE req[v].attempt = row[i].attempt_count
      <4>1. Calling(v) /\ Calling(w) /\ req[v].item = i /\ req[w].item = i
            /\ v \in Workers /\ w \in Workers
        BY <2>2, <3>1 DEF InFlight, Calling
      <4>2. k # req[v].attempt
        BY <3>1, <4>1 DEF Inv, Ownership, DistinctAttempts
      <4>3. k \in Nat /\ k <= row[i].attempt_count
        BY <2>2, <1>1
      <4> QED
        BY <2>3, <3>3, <4>2, <4>3, <1>0, AbandonedLater
    <3> QED
      BY <3>2, <3>3
  <2> QED
    BY <2>2, <2>3, <2>4, <2>5, <1>0, AbandonedStays
<1>6. CASE Completed(i)
  <2>1. /\ Exists(i) /\ row[i].status # "ANALYSING"
        /\ \E to, reason : Moved(i, to, reason)
        /\ row'[i].analysis = row[i].analysis
        /\ row'[i].attempt_count = row[i].attempt_count
        /\ \A v \in InFlight(i)' : v \in InFlight(i) /\ req'[v].attempt = req[v].attempt
    BY <1>6 DEF Completed, SameResult, SameCount, Held, InFlight, Exists, Deleted
  <2> QED
    BY <2>1, <1>0, AbandonedStays DEF Late
<1>7. CASE ReapedNow(i)
  <2>1. /\ Exists(i)
        /\ \E to, reason : Moved(i, to, reason)
        /\ row'[i].analysis = row[i].analysis
        /\ row'[i].attempt_count = row[i].attempt_count
        /\ \A v \in InFlight(i)' : v \in InFlight(i) /\ req'[v].attempt = req[v].attempt
    BY <1>7 DEF ReapedNow, SameResult, SameCount, Held, InFlight, Exists, Deleted
  <2>2. row'[i].attempt_count \in Abandoned(i)'
    BY <1>0, <1>7, ReapAbandons
  <2> QED
    BY <2>1, <2>2, <1>0, AbandonedStays DEF Late
<1>8. CASE DeletedNow(i)
  BY <1>8 DEF DeletedNow, NoRow, Exists
<1> QED
  BY <1>2, <1>3, <1>4, <1>5, <1>6, <1>7, <1>8, StepOfItem DEF Inv

\* The entry that an abandoned attempt names is the one GivenUp chooses: two entries
\* have different numbers of entries up to them.
LEMMA AbandonedIsGivenUp ==
  ASSUME TypeOK, NEW i \in Items, NEW k \in Abandoned(i)
  PROVE  \E j \in 1 .. k : GivenUp(i, j)
<1>1. PICK n \in Entries(i) : /\ Cardinality(Upto(i, n)) \in 1 .. k
                              /\ n + 1 \in DOMAIN transitions[i]
                              /\ transitions[i][n + 1].reason = "reaped"
  BY DEF Abandoned
<1>2. PICK j \in 1 .. k : Cardinality(Upto(i, n)) = j
  BY <1>1
<1> DEFINE e == Entry(i, j)
<1>3. e \in Entries(i) /\ Cardinality(Upto(i, e)) = j
  <2>1. \E x \in Entries(i) : Cardinality({m \in Entries(i) : m <= x}) = j
    BY <1>2 DEF Upto
  <2> QED
    BY <2>1 DEF Entry, Upto
<1>4. Entries(i) \subseteq Nat /\ IsFiniteSet(Entries(i))
  <2>1. transitions[i] \in Seq(StatusTransition)
    BY DEF TypeOK
  <2>2. IsFiniteSet(Entries(i))
    BY FiniteCounts
  <2> QED
    BY <2>1, <2>2 DEF Entries
<1>5. ASSUME NEW x \in Entries(i), NEW y \in Entries(i), x < y
      PROVE  Cardinality(Upto(i, x)) # Cardinality(Upto(i, y))
  <2>1. Upto(i, x) \subseteq Upto(i, y) /\ y \in Upto(i, y) /\ y \notin Upto(i, x)
    BY <1>4, <1>5 DEF Upto
  <2>2. IsFiniteSet(Upto(i, y))
    <3>1. Upto(i, y) \subseteq Entries(i)
      BY DEF Upto
    <3> QED
      BY <3>1, <1>4, FS_Subset
  <2> QED
    BY <2>1, <2>2, FS_Subset
<1>6. e = n
  <2>1. e \in Nat /\ n \in Nat
    BY <1>1, <1>3, <1>4
  <2>2. ~(e < n) /\ ~(n < e)
    BY <1>1, <1>2, <1>3, <1>5
  <2> QED
    BY <2>1, <2>2
<1> QED
  BY <1>1, <1>2, <1>6 DEF GivenUp

\* A result that is not the last attempt's follows a call that a reaper gave up on.
THEOREM LateAnswersExplained == Spec => []OnlyReapedCallsAnswerLate
<1>1. Init => LateAnswers
  BY DEF Init, LateAnswers, Late, InFlight, Idle, NewRow
<1>2. Inv /\ Histories /\ Inv' /\ LateAnswers /\ [Next]_vars => LateAnswers'
  BY LateStep DEF LateAnswers
<1>3. Spec => []LateAnswers
  BY <1>1, <1>2, HistoriesCorrect, PTL DEF Spec
<1>4. Inv /\ LateAnswers => OnlyReapedCallsAnswerLate
  <2> SUFFICES ASSUME Inv, NEW i \in Items, Late(i),
                      row[i].analysis \notin {0, row[i].attempt_count}
               PROVE  \E j \in 1 .. row[i].analysis : GivenUp(i, j)
    BY DEF OnlyReapedCallsAnswerLate, LateAnswers
  <2>1. TypeOK /\ row[i].analysis \in Nat
    BY DEF Inv, TypeOK, WorkItem
  <2>2. Exists(i)
    BY DEF Inv, ResultProvenance, Exists, Deleted
  <2> QED
    BY <2>1, <2>2, AbandonedIsGivenUp DEF Late
<1> QED
  BY <1>3, <1>4, HistoriesCorrect, PTL

-----------------------------------------------------------------------------
(* How far AI_MAX_ATTEMPTS can be overrun.  retry_work_item compares the   *)
(* count with the cap and claims later, so every retry that has passed the *)
(* comparison (an armed one) can add one call; the sum of the count and of *)
(* the armed retries is what stays bounded.                                *)

\* An item never analysed has no count to compare and nobody armed against it.
FreshUnarmed ==
  \A i \in Items : row[i].status = "RECEIVED" => row[i].attempt_count = 0 /\ Armed(i) = {}

BoundInv == Inv /\ FreshUnarmed /\ RetryOvershootBound

\* There are never more armed retries than requests.
LEMMA ArmedBounded ==
  ASSUME NEW i \in Items
  PROVE  /\ IsFiniteSet(Armed(i))
         /\ Cardinality(Armed(i)) \in Nat
         /\ Cardinality(Workers) \in Nat \ {0}
         /\ Cardinality(Armed(i)) <= Cardinality(Workers)
<1>1. Armed(i) \subseteq Workers
  BY DEF Armed
<1>2. IsFiniteSet(Workers) /\ Workers # {}
  BY WorkersAssumption
<1>3. Cardinality(Workers) \in Nat /\ Cardinality(Workers) # 0
  BY <1>2, FS_CardinalityType, FS_EmptySet
<1> QED
  BY <1>1, <1>2, <1>3, FS_Subset, FS_CardinalityType

\* The bound for one item after a step that neither counts a call nor arms a retry.
LEMMA ShrinkingBound ==
  ASSUME Inv, TypeOK', RetryOvershootBound, NEW i \in Items,
         row'[i].attempt_count <= row[i].attempt_count,
         Armed(i)' \subseteq Armed(i)
  PROVE  row'[i].attempt_count + Cardinality(Armed(i)') <= MaxAttempts + Cardinality(Workers) - 1
<1>1. row[i].attempt_count \in Nat /\ row'[i].attempt_count \in Nat
  BY DEF Inv, TypeOK, WorkItem
<1>2. IsFiniteSet(Armed(i)) /\ Cardinality(Armed(i)) \in Nat
  BY ArmedBounded
<1>3. Cardinality(Armed(i)') \in Nat /\ Cardinality(Armed(i)') <= Cardinality(Armed(i))
  BY <1>2, FS_Subset, FS_CardinalityType
<1>4. row[i].attempt_count + Cardinality(Armed(i)) <= MaxAttempts + Cardinality(Workers) - 1
  BY DEF RetryOvershootBound
<1>5. MaxAttempts \in Nat /\ Cardinality(Workers) \in Nat
  BY ArmedBounded, NumbersAssumption
<1> QED
  BY <1>1, <1>2, <1>3, <1>4, <1>5

\* A step that neither counts a call, nor arms a retry, nor makes an item RECEIVED.
Shrinking ==
  \A i \in Items : /\ row'[i].attempt_count <= row[i].attempt_count
                   /\ Armed(i)' \subseteq Armed(i)
                   /\ row'[i].status = "RECEIVED" => row[i].status = "RECEIVED"

LEMMA ShrinkingStep ==
  ASSUME BoundInv, TypeOK', Shrinking
  PROVE  FreshUnarmed' /\ RetryOvershootBound'
<1>1. RetryOvershootBound'
  BY ShrinkingBound DEF BoundInv, Shrinking, RetryOvershootBound
<1>2. FreshUnarmed'
  <2> SUFFICES ASSUME NEW i \in Items, row'[i].status = "RECEIVED"
               PROVE  row'[i].attempt_count = 0 /\ Armed(i)' = {}
    BY DEF FreshUnarmed
  <2>1. row[i].attempt_count = 0 /\ Armed(i) = {}
    BY DEF Shrinking, BoundInv, FreshUnarmed
  <2>2. row'[i].attempt_count \in Nat
    BY DEF TypeOK, WorkItem
  <2> QED
    BY <2>1, <2>2 DEF Shrinking
<1> QED
  BY <1>1, <1>2

LEMMA InitBound == Init => FreshUnarmed /\ RetryOvershootBound
<1> SUFFICES ASSUME Init PROVE FreshUnarmed /\ RetryOvershootBound
  OBVIOUS
<1>1. \A i \in Items : row[i].attempt_count = 0 /\ Armed(i) = {}
  BY DEF Init, NewRow, Armed, Idle
<1>2. Cardinality({}) = 0
  BY FS_EmptySet
<1>3. \A i \in Items : Cardinality(Workers) \in Nat \ {0}
  BY ArmedBounded
<1> QED
  BY <1>1, <1>2, <1>3, NumbersAssumption DEF FreshUnarmed, RetryOvershootBound

\* A request with a new state changes who is armed only as far as it is concerned.
LEMMA ArmedStep ==
  ASSUME TypeOK, NEW w \in Workers, NEW q, req' = [req EXCEPT ![w] = q], NEW i \in Items
  PROVE  /\ q.pc # "claim" => Armed(i)' = Armed(i) \ {w}
         /\ q.item # i => Armed(i)' \subseteq Armed(i)
         /\ q.from # "FAILED" => Armed(i)' \subseteq Armed(i)
  BY DEF Armed, TypeOK

LEMMA ArriveBound ==
  ASSUME BoundInv, TypeOK', NEW w \in Workers, Arrive(w)
  PROVE  FreshUnarmed' /\ RetryOvershootBound'
<1>0. TypeOK /\ Inv
  BY DEF BoundInv, Inv
<1>1. PICK i \in Items : \/ AnalyseWorkItem(w, i)
                        \/ RetryWorkItem(w, i)
                        \/ \E target \in Statuses : PatchRead(w, i, target)
  BY DEF Arrive
<1>2. CASE RetryWorkItem(w, i)
  <2>1. PICK q : /\ q.pc = "claim" /\ q.item = i
                 /\ req' = [req EXCEPT ![w] = q]
    <3> DEFINE q == [Idle EXCEPT !.pc = "claim", !.item = i, !.from = "FAILED", !.to = "ANALYSING"]
    <3>1. req' = [req EXCEPT ![w] = q]
      BY <1>2 DEF RetryWorkItem
    <3>2. q.pc = "claim" /\ q.item = i
      BY DEF Idle
    <3> HIDE DEF q
    <3> QED
      BY <3>1, <3>2
  <2>2. row[i].status = "FAILED" /\ row[i].attempt_count < MaxAttempts /\ row' = row
    BY <1>2 DEF RetryWorkItem, Retryable
  <2>3. \A j \in Items \ {i} : Armed(j)' \subseteq Armed(j)
    BY <2>1, <1>0, ArmedStep
  <2>4. \A j \in Items : row[j].attempt_count \in Nat
    BY <1>0 DEF TypeOK, WorkItem
  <2>5. Cardinality(Armed(i)') \in Nat /\ Cardinality(Armed(i)') <= Cardinality(Workers)
    <3>1. Armed(i)' \subseteq Workers
      BY DEF Armed
    <3> QED
      BY <3>1, WorkersAssumption, FS_Subset, FS_CardinalityType
  <2>6. row'[i].attempt_count + Cardinality(Armed(i)') <= MaxAttempts + Cardinality(Workers) - 1
    BY <2>2, <2>4, <2>5, ArmedBounded, NumbersAssumption
  <2>7. \A j \in Items \ {i} :
          row'[j].attempt_count + Cardinality(Armed(j)') <= MaxAttempts + Cardinality(Workers) - 1
    BY <2>2, <2>3, <2>4, <1>0, ShrinkingBound DEF BoundInv
  <2>8. RetryOvershootBound'
    BY <2>6, <2>7 DEF RetryOvershootBound
  <2>9. FreshUnarmed'
    BY <2>2, <2>3 DEF BoundInv, FreshUnarmed
  <2> QED
    BY <2>8, <2>9
<1>3. CASE ~RetryWorkItem(w, i)
  <2>1. PICK q : q.from # "FAILED" /\ req' = [req EXCEPT ![w] = q]
    <3>1. CASE AnalyseWorkItem(w, i)
      <4> DEFINE q == [Idle EXCEPT !.pc = "claim", !.item = i, !.from = "RECEIVED", !.to = "ANALYSING"]
      <4>1. req' = [req EXCEPT ![w] = q]
        BY <3>1 DEF AnalyseWorkItem
      <4>2. q.from # "FAILED"
        BY DEF Idle
      <4> HIDE DEF q
      <4> QED
        BY <4>1, <4>2
    <3>2. CASE \E target \in Statuses : PatchRead(w, i, target)
      <4>1. PICK target \in Statuses : PatchRead(w, i, target)
        BY <3>2
      <4> DEFINE q == [Idle EXCEPT !.pc = "patch", !.item = i, !.from = row[i].status, !.to = target]
      <4>2. req' = [req EXCEPT ![w] = q]
        BY <4>1 DEF PatchRead
      <4>3. q.from # "FAILED"
        BY <4>1 DEF Idle, PatchRead, is_manual_transition, MANUAL_TRANSITIONS
      <4> HIDE DEF q
      <4> QED
        BY <4>2, <4>3
    <3> QED
      BY <1>1, <1>3, <3>1, <3>2
  <2>2. row' = row
    BY <1>1, <1>3 DEF AnalyseWorkItem, PatchRead
  <2>3. Shrinking
    <3>1. \A j \in Items : Armed(j)' \subseteq Armed(j)
      BY <2>1, <1>0, ArmedStep
    <3>2. \A j \in Items : row[j].attempt_count \in Nat
      BY <1>0 DEF TypeOK, WorkItem
    <3> QED
      BY <2>2, <3>1, <3>2 DEF Shrinking
  <2> QED
    BY <2>3, ShrinkingStep
<1> QED
  BY <1>2, <1>3

\* A claim from FAILED turns an armed retry into a counted call; one from RECEIVED counts
\* the first call of an item nobody could be armed against.
LEMMA ClaimBound ==
  ASSUME BoundInv, TypeOK', NEW w \in Workers, Claim(w)
  PROVE  FreshUnarmed' /\ RetryOvershootBound'
<1>0. TypeOK /\ Inv
  BY DEF BoundInv, Inv
<1>1. PICK i \in Items : i = req[w].item
  BY <1>0 DEF Claim, Inv, RequestShape, ShapeOf
<1>2. /\ req[w].from \in {"RECEIVED", "FAILED"} /\ req[w].to = "ANALYSING"
      /\ req[w].age \in 0 .. AgeCap
      /\ row[i] \in WorkItem
      /\ req[w].pc = "claim"
  BY <1>0 DEF Claim, Inv, RequestShape, ShapeOf, TypeOK, Request
<1>3. /\ row[i].status = req[w].from
      /\ row'[i].status = "ANALYSING"
      /\ row'[i].attempt_count = row[i].attempt_count + 1
      /\ \A j \in Items \ {i} : row'[j] = row[j]
  BY <1>0, <1>1, <1>2 DEF Claim, Claimed, transition, TypeOK, WorkItem
<1>4. PICK q : q.pc = "call" /\ req' = [req EXCEPT ![w] = q]
  <2> DEFINE q == [Idle EXCEPT !.pc = "call", !.item = i, !.from = "ANALYSING",
                               !.attempt = row[i].attempt_count + 1]
  <2>1. req' = [req EXCEPT ![w] = q]
    BY <1>1 DEF Claim
  <2>2. q.pc = "call"
    BY DEF Idle
  <2> HIDE DEF q
  <2> QED
    BY <2>1, <2>2
<1>5. \A j \in Items : Armed(j)' = Armed(j) \ {w}
  BY <1>0, <1>4, ArmedStep
<1>6. /\ row[i].attempt_count \in Nat
      /\ MaxAttempts \in Nat \ {0}
      /\ Cardinality(Workers) \in Nat \ {0}
      /\ IsFiniteSet(Armed(i)) /\ Cardinality(Armed(i)) \in Nat
  BY <1>2, ArmedBounded, NumbersAssumption DEF WorkItem
<1>7. row'[i].attempt_count + Cardinality(Armed(i)') <= MaxAttempts + Cardinality(Workers) - 1
  <2>1. CASE req[w].from = "FAILED"
    <3>1. w \in Armed(i)
      BY <1>1, <1>2, <2>1 DEF Armed
    <3>2. Cardinality(Armed(i)') = Cardinality(Armed(i)) - 1
      BY <1>5, <1>6, <3>1, FS_RemoveElement
    <3>3. row[i].attempt_count + Cardinality(Armed(i)) <= MaxAttempts + Cardinality(Workers) - 1
      BY DEF BoundInv, RetryOvershootBound
    <3> QED
      BY <1>3, <1>6, <3>2, <3>3
  <2>2. CASE req[w].from = "RECEIVED"
    <3>1. row[i].attempt_count = 0 /\ Armed(i)' = {}
      BY <1>3, <1>5, <2>2 DEF BoundInv, FreshUnarmed
    <3>2. Cardinality(Armed(i)') = 0
      BY <3>1, FS_EmptySet
    <3> QED
      BY <1>3, <1>6, <3>1, <3>2
  <2> QED
    BY <1>2, <2>1, <2>2
<1>8. \A j \in Items \ {i} :
        row'[j].attempt_count + Cardinality(Armed(j)') <= MaxAttempts + Cardinality(Workers) - 1
  <2>1. \A j \in Items : row[j].attempt_count \in Nat
    BY <1>0 DEF TypeOK, WorkItem
  <2> QED
    BY <1>0, <1>3, <1>5, <2>1, ShrinkingBound DEF BoundInv
<1>9. RetryOvershootBound'
  BY <1>7, <1>8 DEF RetryOvershootBound
<1>10. FreshUnarmed'
  BY <1>3, <1>5 DEF BoundInv, FreshUnarmed
<1> QED
  BY <1>9, <1>10

\* Every step but an arrival and a claim shrinks the sum, for every item.
LEMMA OtherBound ==
  ASSUME BoundInv, TypeOK', [Next]_vars,
         \A w \in Workers : ~Arrive(w) /\ ~Claim(w)
  PROVE  Shrinking
<1>0. TypeOK /\ Inv /\ \A i \in Items : row[i] \in WorkItem /\ row[i].attempt_count \in Nat
  BY DEF BoundInv, Inv, TypeOK, WorkItem
<1>1. ASSUME NEW w \in Workers, Continue(w) \/ Crash(w)
      PROVE  /\ \A i \in Items : Armed(i)' \subseteq Armed(i)
             /\ \A i \in Items : /\ row'[i].attempt_count = row[i].attempt_count
                                 /\ row'[i].status = "RECEIVED" => row[i].status = "RECEIVED"
  <2>1. PICK q : q.pc # "claim" /\ req' = [req EXCEPT ![w] = q]
    <3>1. CASE Finish(w)
      BY <3>1 DEF Finish, Idle
    <3>2. CASE RecordSuccess(w)
      <4> DEFINE q == [req[w] EXCEPT !.pc = "settle", !.to = "READY_FOR_REVIEW"]
      <4>1. req' = [req EXCEPT ![w] = q]
        BY <3>2 DEF RecordSuccess
      <4>2. q.pc # "claim"
        BY <1>0 DEF TypeOK, Request
      <4> HIDE DEF q
      <4> QED
        BY <4>1, <4>2
    <3>3. CASE \E code \in CallCodes : RecordFailure(w, code)
      <4>1. PICK code \in CallCodes : RecordFailure(w, code)
        BY <3>3
      <4> DEFINE q == [req[w] EXCEPT !.pc = "settle", !.to = "FAILED", !.code = code]
      <4>2. req' = [req EXCEPT ![w] = q]
        BY <4>1 DEF RecordFailure
      <4>3. q.pc # "claim"
        BY <1>0 DEF TypeOK, Request
      <4> HIDE DEF q
      <4> QED
        BY <4>2, <4>3
    <3> QED
      BY <1>1, <3>1, <3>2, <3>3
         DEF Continue, ClaimRefused, SaveRefused, Settle, SettleDiscarded, PatchApply,
             PatchRefused, Crash
  <2>2. \A i \in Items : Armed(i)' \subseteq Armed(i)
    BY <1>0, <2>1, ArmedStep
  <2>3. CASE Settle(w) \/ PatchApply(w)
    <3>1. PICK i \in Items : i = req[w].item
      BY <2>3, <1>0 DEF Settle, PatchApply, Inv, RequestShape, ShapeOf
    <3>2. req[w].to \in {"READY_FOR_REVIEW", "FAILED", "COMPLETED"}
      BY <2>3, <1>0 DEF Settle, PatchApply, Inv, RequestShape, ShapeOf
    <3>3. /\ row'[i].status = req[w].to
          /\ row'[i].attempt_count = row[i].attempt_count
          /\ \A j \in Items \ {i} : row'[j] = row[j]
      <4>1. CASE Settle(w)
        <5>1. Settled(w) \in WorkItem /\ Settled(w).attempt_count = row[i].attempt_count
          <6>1. /\ row[i] \in WorkItem /\ req[w].attempt \in Nat
                /\ req[w].code \in Errors /\ NONE \in Errors
            BY <1>0, <3>1 DEF TypeOK, Request, Errors
          <6> QED
            BY <3>1, <6>1 DEF Settled, WorkItem
        <5> HIDE DEF Settled
        <5> QED
          BY <3>1, <4>1, <5>1, <1>0 DEF Settle, transition, TypeOK, WorkItem
      <4>2. CASE PatchApply(w)
        BY <3>1, <4>2, <1>0 DEF PatchApply, transition, TypeOK, WorkItem
      <4> QED
        BY <2>3, <4>1, <4>2
    <3> QED
      BY <2>2, <3>2, <3>3
  <2>4. CASE row' = row
    BY <2>2, <2>4
  <2> QED
    BY <1>1, <2>3, <2>4
       DEF Continue, ClaimRefused, RecordSuccess, RecordFailure, SaveRefused,
           SettleDiscarded, PatchRefused, Crash
<1>2. ASSUME NEW r \in Reapers, ReapQuery(r) \/ ReapLoop(r) \/ ReaperCrash(r)
      PROVE  Shrinking
  <2>1. req' = req
    BY <1>2 DEF ReapQuery, ReapLoop, Reap, ReapSkipped, ReapAborted, ReaperCrash
  <2>2. \A i \in Items : Armed(i)' = Armed(i)
    BY <2>1 DEF Armed
  <2>3. CASE \E i \in Items : Reap(r, i)
    <3>1. PICK i \in Items : Reap(r, i)
      BY <2>3
    <3>2. /\ row'[i].status = "FAILED"
          /\ row'[i].attempt_count = row[i].attempt_count
          /\ \A j \in Items \ {i} : row'[j] = row[j]
      BY <3>1, <1>0 DEF Reap, transition, TypeOK, WorkItem
    <3> QED
      BY <1>0, <2>2, <3>2 DEF Shrinking
  <2>4. CASE row' = row
    BY <1>0, <2>2, <2>4 DEF Shrinking
  <2> QED
    BY <1>2, <2>3, <2>4 DEF ReapQuery, ReapLoop, ReapSkipped, ReapAborted, ReaperCrash
<1>3. ASSUME NEW i \in Items, AdminDelete(i)
      PROVE  Shrinking
  <2>1. \A j \in Items : Armed(j)' = Armed(j)
    BY <1>3 DEF AdminDelete, Armed
  <2>2. /\ row'[i].status # "RECEIVED" /\ row'[i].attempt_count = 0
        /\ \A j \in Items \ {i} : row'[j] = row[j]
    BY <1>0, <1>3 DEF AdminDelete, TypeOK, NoRow, Deleted
  <2> QED
    BY <1>0, <2>1, <2>2 DEF Shrinking
<1>4. CASE Tick
  <2>1. \A w \in Workers : /\ req'[w].pc = req[w].pc
                           /\ req'[w].item = req[w].item
                           /\ req'[w].from = req[w].from
    BY <1>0, <1>4 DEF Tick, TypeOK, Request
  <2>2. \A i \in Items : Armed(i)' = Armed(i)
    BY <2>1 DEF Armed
  <2>3. \A i \in Items : /\ row'[i].status = row[i].status
                         /\ row'[i].attempt_count = row[i].attempt_count
    BY <1>0, <1>4 DEF Tick, WorkItem
  <2> QED
    BY <1>0, <2>2, <2>3 DEF Shrinking
<1>5. CASE UNCHANGED vars
  <2>1. \A i \in Items : Armed(i)' = Armed(i)
    BY <1>5 DEF vars, Armed
  <2> QED
    BY <1>0, <1>5, <2>1 DEF vars, Shrinking
<1>6. ASSUME NEW w \in Workers, Continue(w) \/ Crash(w)
      PROVE  Shrinking
  <2> SUFFICES ASSUME NEW i \in Items
               PROVE  /\ row'[i].attempt_count <= row[i].attempt_count
                      /\ Armed(i)' \subseteq Armed(i)
                      /\ row'[i].status = "RECEIVED" => row[i].status = "RECEIVED"
    BY DEF Shrinking
  <2>1. Armed(i)' \subseteq Armed(i)
    BY <1>1, <1>6
  <2>2. /\ row'[i].attempt_count = row[i].attempt_count
        /\ row'[i].status = "RECEIVED" => row[i].status = "RECEIVED"
    BY <1>1, <1>6
  <2>3. row[i].attempt_count \in Nat
    BY <1>0
  <2>4. row'[i].attempt_count <= row[i].attempt_count
    BY <2>2, <2>3
  <2> QED
    BY <2>1, <2>2, <2>4
<1> QED
  BY <1>2, <1>3, <1>4, <1>5, <1>6 DEF Next

LEMMA BoundCorrect == Spec => []BoundInv
<1>1. BoundInv /\ [Next]_vars => BoundInv'
  <2> SUFFICES ASSUME BoundInv, [Next]_vars PROVE BoundInv'
    OBVIOUS
  <2>1. Inv' /\ TypeOK'
    BY Inductive DEF BoundInv, Inv
  <2>2. CASE \E w \in Workers : Arrive(w)
    BY <2>1, <2>2, ArriveBound DEF BoundInv
  <2>3. CASE \E w \in Workers : Claim(w)
    BY <2>1, <2>3, ClaimBound DEF BoundInv
  <2>4. CASE \A w \in Workers : ~Arrive(w) /\ ~Claim(w)
    BY <2>1, <2>4, OtherBound, ShrinkingStep DEF BoundInv
  <2> QED
    BY <2>2, <2>3, <2>4
<1>2. Init => BoundInv
  BY InitTypeOK, InitOwnership, InitBound DEF BoundInv, Inv
<1> QED
  BY <1>1, <1>2, PTL DEF Spec

\* The cap can be overrun by at most one call per concurrent request besides the first:
\* attempt_count never exceeds AI_MAX_ATTEMPTS + (number of requests) - 1.
THEOREM OvershootBounded == Spec => []RetryOvershootBound
<1>1. BoundInv => RetryOvershootBound
  BY DEF BoundInv
<1> QED
  BY <1>1, BoundCorrect, PTL

\* Where one request is served at a time the cap is the hard one that the documentation
\* says it is (README.md, retry_work_item): it takes two to overrun it.
THEOREM CapHardForOne == Spec => [](Cardinality(Workers) = 1 => HardCap)
<1>1. BoundInv => (Cardinality(Workers) = 1 => HardCap)
  <2> SUFFICES ASSUME BoundInv, Cardinality(Workers) = 1, NEW i \in Items
               PROVE  row[i].attempt_count <= MaxAttempts
    BY DEF HardCap
  <2>1. row[i].attempt_count + Cardinality(Armed(i)) <= MaxAttempts + 1 - 1
    BY DEF BoundInv, RetryOvershootBound
  <2>2. row[i].attempt_count \in Nat /\ MaxAttempts \in Nat
    BY NumbersAssumption DEF BoundInv, Inv, TypeOK, WorkItem
  <2> QED
    BY <2>1, <2>2, ArmedBounded
<1> QED
  BY <1>1, BoundCorrect, PTL

=============================================================================
