-------------------------- MODULE AdminFormProofs --------------------------
(***************************************************************************)
(* The engine beside the administrator's change form.  The invariant of    *)
(* AnalysisProofs does not carry over: a save puts columns back that were  *)
(* read earlier, attempt_count among them, so that neither the count nor   *)
(* the result of a row is what the last call left there.  What holds is    *)
(* weaker and must hold of every row a form may still write.               *)
(***************************************************************************)
EXTENDS AdminForm, HistoryProofs

\* Attempt k of the attempts s succeeded.
Succeeded(s, k) == k \in DOMAIN s /\ s[k].outcome = "SUCCEEDED"

\* The row r counts no more than the attempts s, shows the result of one of them or,
\* when o says so, what was typed, and is up for review only if one of them succeeded.
Sourced(s, r, o) ==
  /\ r.attempt_count <= Len(s)
  /\ r.analysis # 0 => o = "hand" \/ Succeeded(s, r.analysis)
  /\ r.status \in {"READY_FOR_REVIEW", "COMPLETED"} => \E k \in DOMAIN s : Succeeded(s, k)

Rows == \A i \in Items : Acceptable(row[i]) /\ Sourced(attempts[i], row[i], source[i])

\* So do the rows that forms will write, and the result a form shows is such a one.
Forms ==
  \A a \in Administrators :
    LET f == form[a]
    IN  /\ f.pc # "closed" => f.item \in Items
        /\ f.pc # "closed" /\ f.analysis # 0 =>
             f.source = "hand" \/ Succeeded(attempts[f.item], f.analysis)
        /\ f.pc = "loaded" => Sourced(attempts[f.item], f.row, f.source)

\* A request in a call has an attempt row that reads FAILED, alone; one about to settle
\* a success has saved it.
Calls ==
  /\ \A w \in Workers :
       LET s == attempts[req[w].item]
       IN  /\ req[w].pc = "call" =>
                req[w].attempt \in DOMAIN s /\ ~Succeeded(s, req[w].attempt)
           /\ req[w].pc = "settle" /\ req[w].to = "READY_FOR_REVIEW" =>
                Succeeded(s, req[w].attempt)
  /\ \A v, w \in Workers :
       v # w /\ req[v].pc = "call" /\ req[w].pc = "call" /\ req[v].item = req[w].item
         => req[v].attempt # req[w].attempt

FormInv == FormTypeOK /\ RequestShape /\ Rows /\ Forms /\ Calls

\* What a row is sourced by, it is sourced by for good: attempts are added, and one that
\* succeeded stays so.
Extended(s, t) == Len(s) <= Len(t) /\ \A k \in DOMAIN s : Succeeded(s, k) => Succeeded(t, k)

LEMMA SourcedStays ==
  ASSUME NEW s \in Seq(AnalysisAttempt), NEW t \in Seq(AnalysisAttempt), Extended(s, t),
         NEW r \in WorkItem, NEW o, Sourced(s, r, o)
  PROVE  Sourced(t, r, o)
<1>1. r.attempt_count \in Nat /\ Len(s) \in Nat /\ Len(t) \in Nat
  BY DEF WorkItem
<1>2. \A k : Succeeded(s, k) => k \in DOMAIN t /\ Succeeded(t, k)
  BY DEF Extended, Succeeded
<1> QED
  BY <1>1, <1>2 DEF Sourced, Extended

\* Forms are closed, or hold what stays sourced.
LEMMA ExtendedForms ==
  ASSUME FormInv, UNCHANGED form,
         \A i \in Items : /\ attempts'[i] \in Seq(AnalysisAttempt)
                          /\ Extended(attempts[i], attempts'[i])
  PROVE  Forms'
<1> SUFFICES ASSUME NEW a \in Administrators
             PROVE  LET f == form[a]
                    IN  /\ f.pc # "closed" => f.item \in Items
                        /\ f.pc # "closed" /\ f.analysis # 0 =>
                             f.source = "hand" \/ Succeeded(attempts'[f.item], f.analysis)
                        /\ f.pc = "loaded" => Sourced(attempts'[f.item], f.row, f.source)
  BY DEF Forms
<1> DEFINE f == form[a]
<1>1. CASE f.pc = "closed"
  BY <1>1
<1>2. CASE f.pc # "closed"
  <2>1. /\ f.item \in Items /\ f.row \in WorkItem
        /\ f.analysis # 0 => f.source = "hand" \/ Succeeded(attempts[f.item], f.analysis)
        /\ f.pc = "loaded" => Sourced(attempts[f.item], f.row, f.source)
    BY <1>2 DEF FormInv, Forms, FormTypeOK, Form
  <2>2. attempts[f.item] \in Seq(AnalysisAttempt)
    BY <2>1 DEF FormInv, FormTypeOK, TypeOK
  <2>3. f.analysis # 0 => f.source = "hand" \/ Succeeded(attempts'[f.item], f.analysis)
    BY <2>1 DEF Extended, Succeeded
  <2>4. f.pc = "loaded" => Sourced(attempts'[f.item], f.row, f.source)
    BY <2>1, <2>2, SourcedStays
  <2> QED
    BY <2>1, <2>3, <2>4
<1> QED
  BY <1>1, <1>2

LEMMA InitFormInv == FormInit => FormInv
<1> SUFFICES ASSUME FormInit PROVE FormInv
  OBVIOUS
<1>1. TypeOK /\ RequestShape
  BY InitTypeOK DEF FormInit
<1>2. Closed \in Form
  BY NewRowTypes DEF Closed, Form
<1>3. FormTypeOK
  BY <1>1, <1>2, AdministratorsAssumption DEF FormInit, FormTypeOK
<1>4. Rows
  BY DEF FormInit, Init, Rows, NewRow, Acceptable, Sourced
<1>5. Forms /\ Calls
  BY DEF FormInit, Init, Forms, Calls, Closed, Idle
<1> QED
  BY <1>1, <1>3, <1>4, <1>5 DEF FormInv

-----------------------------------------------------------------------------
(* The steps of the engine.                                                *)

\* What the compare-and-set does to the rows.
LEMMA TransitionRows ==
  ASSUME TypeOK, NEW i \in Items, NEW from, NEW to, NEW actor, NEW reason,
         NEW fields \in WorkItem, transition(i, from, to, actor, reason, fields)
  PROVE  /\ row[i].status = from /\ row'[i].status = to
         /\ row'[i].attempt_count = fields.attempt_count
         /\ row'[i].analysis = fields.analysis
         /\ \A j \in Items \ {i} : row'[j] = row[j]
  BY DEF transition, TypeOK, WorkItem

\* A step that saves no attempt, gives no item another result or count, puts none up for
\* review and lets requests only stop calling.
Calm ==
  /\ UNCHANGED attempts /\ Alongside
  /\ \A i \in Items : /\ row'[i].attempt_count = row[i].attempt_count
                      /\ row'[i].analysis = row[i].analysis
                      /\ row'[i].status = "READY_FOR_REVIEW" => row[i].status = row'[i].status
                      /\ row'[i].status = "COMPLETED" =>
                           row[i].status \in {"READY_FOR_REVIEW", "COMPLETED"}
  /\ \A w \in Workers :
       req'[w].pc \in {"call", "settle"} =>
         /\ req'[w].pc = req[w].pc
         /\ req'[w].item = req[w].item
         /\ req'[w].attempt = req[w].attempt
         /\ req'[w].to = req[w].to

LEMMA CalmStep ==
  ASSUME FormInv, Calm
  PROVE  Rows' /\ Forms' /\ Calls'
<1>1. Rows'
  <2> SUFFICES ASSUME NEW i \in Items
               PROVE  Acceptable(row'[i]) /\ Sourced(attempts'[i], row'[i], source'[i])
    BY DEF Rows
  <2>1. /\ attempts'[i] = attempts[i] /\ source'[i] = source[i]
        /\ row'[i].attempt_count = row[i].attempt_count /\ row'[i].analysis = row[i].analysis
        /\ row'[i].status \in {"READY_FOR_REVIEW", "COMPLETED"} =>
             row[i].status \in {"READY_FOR_REVIEW", "COMPLETED"}
    BY DEF Calm, Alongside
  <2> QED
    BY <2>1 DEF FormInv, Rows, Acceptable, Sourced
<1>2. Forms'
  BY DEF FormInv, Calm, Alongside, Forms
<1>3. Calls'
  <2>1. \A w \in Workers : req'[w].pc \in {"call", "settle"} =>
          /\ req'[w].pc = req[w].pc /\ req'[w].item = req[w].item
          /\ req'[w].attempt = req[w].attempt /\ req'[w].to = req[w].to
    BY DEF Calm
  <2>2. UNCHANGED attempts
    BY DEF Calm
  <2> QED
    BY <2>1, <2>2 DEF FormInv, Calls
<1> QED
  BY <1>1, <1>2, <1>3

\* Requests that arrive or end without writing.
LEMMA StoppingStep ==
  ASSUME FormInv, NEW w \in Workers, Alongside,
         \/ Arrive(w)
         \/ Finish(w) /\ UNCHANGED <<row, attempts, transitions, todo>>
  PROVE  Rows' /\ Forms' /\ Calls'
<1>1. UNCHANGED <<row, attempts>>
  BY DEF Arrive, AnalyseWorkItem, RetryWorkItem, PatchRead
<1>2. req'[w].pc \notin {"call", "settle"} /\ \A v \in Workers \ {w} : req'[v] = req[v]
  <2>1. CASE Finish(w)
    BY <2>1, FinishStops DEF FormInv, FormTypeOK
  <2>2. CASE Arrive(w)
    BY <2>2, ArriveStep DEF FormInv, FormTypeOK, TypeOK
  <2> QED
    BY <2>1, <2>2
<1>3. Calm
  BY <1>1, <1>2 DEF Calm
<1> QED
  BY <1>3, CalmStep

\* A manual transition, and a reaper giving an item up, keep its result and its count.
LEMMA MovingStep ==
  ASSUME FormInv, Alongside,
         \/ \E w \in Workers : PatchApply(w)
         \/ \E r \in Reapers, i \in Items : Reap(r, i)
  PROVE  Rows' /\ Forms' /\ Calls'
<1>1. TypeOK
  BY DEF FormInv, FormTypeOK
<1>2. CASE \E w \in Workers : PatchApply(w)
  <2>1. PICK w \in Workers : PatchApply(w)
    BY <1>2
  <2> DEFINE i == req[w].item
  <2>2. /\ i \in Items /\ row[i] \in WorkItem
        /\ req[w].from = "READY_FOR_REVIEW" /\ req[w].to = "COMPLETED"
    BY <2>1, <1>1 DEF PatchApply, FormInv, RequestShape, ShapeOf, TypeOK
  <2>3. /\ row[i].status = "READY_FOR_REVIEW"
        /\ row'[i].attempt_count = row[i].attempt_count
        /\ row'[i].analysis = row[i].analysis
        /\ \A j \in Items \ {i} : row'[j] = row[j]
    BY <2>1, <2>2, <1>1, TransitionRows DEF PatchApply
  <2>4. row'[i].status = "COMPLETED"
    BY <2>1, <2>2, <1>1, TransitionRows DEF PatchApply
  <2>5. req'[w].pc = "idle" /\ \A v \in Workers \ {w} : req'[v] = req[v]
    BY <2>1, <1>1, FinishStops DEF PatchApply
  <2>6. Calm
    BY <2>1, <2>3, <2>4, <2>5 DEF Calm, PatchApply
  <2> QED
    BY <2>6, CalmStep
<1>3. CASE \E r \in Reapers, i \in Items : Reap(r, i)
  <2>1. PICK r \in Reapers, i \in Items : Reap(r, i)
    BY <1>3
  <2> DEFINE given == [row[i] EXCEPT !.last_error_code = STALE]
  <2>2. /\ given \in WorkItem /\ given.attempt_count = row[i].attempt_count
        /\ given.analysis = row[i].analysis
    BY <1>1 DEF TypeOK, WorkItem, Errors
  <2>3. transition(i, "ANALYSING", "FAILED", "system", "reaped", given)
    BY <2>1 DEF Reap
  <2>4. /\ row'[i].status = "FAILED"
        /\ row'[i].attempt_count = given.attempt_count
        /\ row'[i].analysis = given.analysis
        /\ \A j \in Items \ {i} : row'[j] = row[j]
    <3> HIDE DEF given
    <3> QED
      BY <2>2, <2>3, <1>1, TransitionRows
  <2>5. Calm
    BY <2>1, <2>2, <2>4 DEF Calm, Reap
  <2> QED
    BY <2>5, CalmStep
<1> QED
  BY <1>2, <1>3

\* A claim opens the next attempt, which nobody holds and no result came from.
LEMMA ClaimStep ==
  ASSUME FormInv, NEW w \in Workers, Claim(w), Alongside
  PROVE  Rows' /\ Forms' /\ Calls'
<1> DEFINE i == req[w].item
           k == row[i].attempt_count + 1
<1>1. TypeOK
  BY DEF FormInv, FormTypeOK
<1>2. /\ i \in Items /\ row[i] \in WorkItem /\ attempts[i] \in Seq(AnalysisAttempt)
      /\ req[w].to = "ANALYSING"
  BY <1>1 DEF Claim, FormInv, RequestShape, ShapeOf, TypeOK
\* The attempt number is free, so it is the next one.
<1>3. k = Len(attempts[i]) + 1 /\ k \in Nat
  <2>1. row[i].attempt_count \in Nat /\ Len(attempts[i]) \in Nat
    BY <1>2 DEF WorkItem
  <2>2. row[i].attempt_count <= Len(attempts[i])
    BY <1>2 DEF FormInv, Rows, Sourced
  <2>3. k \notin 1 .. Len(attempts[i])
    BY <1>2 DEF Claim, AttemptTaken
  <2> QED
    BY <2>1, <2>2, <2>3
<1>4. attempts' = [attempts EXCEPT ![i] = Append(attempts[i], OpenedAttempt)]
  BY DEF Claim
<1>5. OpenedAttempt \in AnalysisAttempt /\ OpenedAttempt.outcome = "FAILED"
  BY CodesAssumption DEF OpenedAttempt, AnalysisAttempt, Outcomes
<1>6. /\ attempts'[i] = Append(attempts[i], OpenedAttempt)
      /\ \A j \in Items \ {i} : attempts'[j] = attempts[j]
      /\ attempts'[i] \in Seq(AnalysisAttempt)
  BY <1>1, <1>2, <1>4, <1>5 DEF TypeOK
<1>7. /\ Len(attempts'[i]) = k /\ ~Succeeded(attempts'[i], k)
      /\ \A n \in DOMAIN attempts[i] : n \in DOMAIN attempts'[i] /\ n # k
                                       /\ attempts'[i][n] = attempts[i][n]
  BY <1>2, <1>3, <1>5, <1>6 DEF Succeeded
<1>8. \A j \in Items : Extended(attempts[j], attempts'[j])
  <2>1. Extended(attempts[i], attempts'[i])
    BY <1>2, <1>3, <1>7 DEF Extended, Succeeded
  <2>2. \A j \in Items \ {i} : Extended(attempts[j], attempts'[j])
    BY <1>1, <1>6 DEF Extended, TypeOK
  <2> QED
    BY <2>1, <2>2
<1>9. Claimed(w) \in WorkItem /\ Claimed(w).attempt_count = k /\ Claimed(w).analysis = row[i].analysis
  <2>1. req[w].age \in 0 .. AgeCap
    BY <1>1 DEF TypeOK, Request
  <2> QED
    BY <1>2, <1>3, <2>1 DEF Claimed, WorkItem
<1>10. /\ row'[i].status = "ANALYSING" /\ row'[i].attempt_count = k
       /\ row'[i].analysis = row[i].analysis
       /\ \A j \in Items \ {i} : row'[j] = row[j]
  <2>1. transition(i, req[w].from, req[w].to, "system", "started", Claimed(w))
    BY DEF Claim
  <2> QED
    BY <1>1, <1>2, <1>9, <2>1, TransitionRows
<1>11. Rows'
  <2>1. \A j \in Items : source'[j] = source[j]
    BY <1>10 DEF Alongside
  <2>2. Acceptable(row'[i]) /\ Sourced(attempts'[i], row'[i], source'[i])
    BY <1>2, <1>3, <1>7, <1>8, <1>10, <2>1
       DEF FormInv, Rows, Acceptable, Sourced, Extended, Succeeded
  <2>3. \A j \in Items \ {i} : Acceptable(row'[j]) /\ Sourced(attempts'[j], row'[j], source'[j])
    BY <1>6, <1>10, <2>1 DEF FormInv, Rows
  <2> QED
    BY <2>2, <2>3 DEF Rows
<1>12. Forms'
  BY <1>1, <1>2, <1>6, <1>8, ExtendedForms DEF TypeOK, Alongside
<1>13. Calls'
  <2>1. /\ req'[w].pc = "call" /\ req'[w].item = i /\ req'[w].attempt = k
        /\ \A v \in Workers \ {w} : req'[v] = req[v]
    BY <1>1 DEF Claim, Idle, TypeOK
  <2>2. ASSUME NEW v \in Workers \ {w}, req[v].pc = "call", req[v].item = i
        PROVE  req[v].attempt \in DOMAIN attempts[i]
    BY <2>2 DEF FormInv, Calls
  <2>3. ASSUME NEW v \in Workers
        PROVE  LET s == attempts'[req'[v].item]
               IN  /\ req'[v].pc = "call" =>
                        req'[v].attempt \in DOMAIN s /\ ~Succeeded(s, req'[v].attempt)
                   /\ req'[v].pc = "settle" /\ req'[v].to = "READY_FOR_REVIEW" =>
                        Succeeded(s, req'[v].attempt)
    <3>1. CASE v = w
      BY <3>1, <2>1, <1>3, <1>6, <1>7
    <3>2. CASE v # w /\ req[v].pc \in {"call", "settle"}
      <4>1. req[v].item \in Items /\ req'[v] = req[v]
        BY <3>2, <2>1 DEF FormInv, RequestShape, ShapeOf
      <4>2. CASE req[v].item # i
        BY <4>1, <4>2, <1>6 DEF FormInv, Calls
      <4>3. CASE req[v].item = i
        BY <4>1, <4>3, <1>7 DEF FormInv, Calls, Succeeded
      <4> QED
        BY <4>2, <4>3
    <3>3. CASE v # w /\ req[v].pc \notin {"call", "settle"}
      BY <3>3, <2>1
    <3> QED
      BY <3>1, <3>2, <3>3
  <2>4. ASSUME NEW u \in Workers, NEW v \in Workers, u # v,
               req'[u].pc = "call", req'[v].pc = "call", req'[u].item = req'[v].item
        PROVE  req'[u].attempt # req'[v].attempt
    <3>1. CASE u # w /\ v # w
      BY <2>4, <2>1, <3>1 DEF FormInv, Calls
    <3>2. CASE u = w \/ v = w
      BY <2>4, <2>1, <2>2, <1>7, <3>2
    <3> QED
      BY <3>1, <3>2
  <2> QED
    BY <2>3, <2>4 DEF Calls
<1> QED
  BY <1>11, <1>12, <1>13

\* Saving an attempt touches a row that reads FAILED and that nobody else holds in a call.
LEMMA RecordStep ==
  ASSUME FormInv, NEW w \in Workers, Alongside,
         RecordSuccess(w) \/ \E code \in CallCodes : RecordFailure(w, code)
  PROVE  Rows' /\ Forms' /\ Calls'
<1> DEFINE i == req[w].item
           k == req[w].attempt
<1>1. TypeOK
  BY DEF FormInv, FormTypeOK
<1>2. PICK outcome \in Outcomes, code \in CallCodes \cup {NONE} :
        /\ SaveAttempt(w, outcome, code)
        /\ req[w].pc = "call" /\ req'[w].pc = "settle"
        /\ req'[w].item = i /\ req'[w].attempt = k
        /\ req'[w].to = "READY_FOR_REVIEW" => outcome = "SUCCEEDED"
        /\ \A v \in Workers \ {w} : req'[v] = req[v]
        /\ UNCHANGED row
  <2>1. CASE RecordSuccess(w)
    BY <2>1, <1>1 DEF RecordSuccess, Outcomes, TypeOK, Request
  <2>2. CASE \E code \in CallCodes : RecordFailure(w, code)
    <3>1. PICK code \in CallCodes : RecordFailure(w, code)
      BY <2>2
    <3>2. /\ req[w].pc = "call" /\ req'[w].pc = "settle" /\ req'[w].to = "FAILED"
          /\ req'[w].item = i /\ req'[w].attempt = k
          /\ \A v \in Workers \ {w} : req'[v] = req[v]
      BY <3>1, <1>1 DEF RecordFailure, TypeOK, Request
    <3> QED
      BY <3>1, <3>2 DEF RecordFailure, Outcomes
  <2> QED
    BY <2>1, <2>2
<1>3. /\ i \in Items /\ attempts[i] \in Seq(AnalysisAttempt)
      /\ k \in 1 .. Len(attempts[i]) /\ ~Succeeded(attempts[i], k)
  <2>1. i \in Items /\ attempts[i] \in Seq(AnalysisAttempt)
    BY <1>1, <1>2 DEF FormInv, RequestShape, ShapeOf, TypeOK
  <2> QED
    BY <2>1, <1>2 DEF FormInv, Calls
<1> DEFINE saved == [outcome |-> outcome, error_code |-> code]
<1>4. saved \in AnalysisAttempt /\ saved.outcome = outcome
  BY DEF AnalysisAttempt
<1>5. /\ attempts'[i] = [attempts[i] EXCEPT ![k] = saved]
      /\ \A j \in Items \ {i} : attempts'[j] = attempts[j]
  BY <1>1, <1>2, <1>3 DEF SaveAttempt, TypeOK
<1>6. /\ attempts'[i] \in Seq(AnalysisAttempt) /\ Len(attempts'[i]) = Len(attempts[i])
      /\ DOMAIN attempts'[i] = DOMAIN attempts[i]
      /\ attempts'[i][k] = saved
      /\ \A n \in DOMAIN attempts[i] \ {k} : attempts'[i][n] = attempts[i][n]
  <2> HIDE DEF saved
  <2>1. attempts'[i] \in Seq(AnalysisAttempt) /\ Len(attempts'[i]) = Len(attempts[i])
    BY <1>3, <1>4, <1>5, ExceptSeq
  <2> QED
    BY <2>1, <1>3, <1>4, <1>5
<1>7. \A n \in DOMAIN attempts[i] \ {k} : Succeeded(attempts'[i], n) <=> Succeeded(attempts[i], n)
  BY <1>6 DEF Succeeded
<1>8. \A j \in Items : /\ attempts'[j] \in Seq(AnalysisAttempt)
                        /\ Extended(attempts[j], attempts'[j])
  <2>1. Extended(attempts[i], attempts'[i])
    BY <1>3, <1>6, <1>7 DEF Extended
  <2>2. \A j \in Items \ {i} :
          attempts'[j] \in Seq(AnalysisAttempt) /\ Extended(attempts[j], attempts'[j])
    BY <1>1, <1>5 DEF Extended, TypeOK
  <2> QED
    BY <2>1, <2>2, <1>6
<1>9. Rows'
  <2> SUFFICES ASSUME NEW j \in Items
               PROVE  Acceptable(row[j]) /\ Sourced(attempts'[j], row[j], source[j])
    BY <1>2 DEF Rows, Alongside
  <2>1. /\ row[j] \in WorkItem /\ attempts[j] \in Seq(AnalysisAttempt)
        /\ Acceptable(row[j]) /\ Sourced(attempts[j], row[j], source[j])
    BY <1>1 DEF FormInv, Rows, TypeOK
  <2> QED
    BY <2>1, <1>8, SourcedStays
<1>10. Forms'
  BY <1>8, ExtendedForms DEF Alongside
<1>11. Calls'
  <2>1. ASSUME NEW v \in Workers \ {w}, req[v].pc = "call", req[v].item = i
        PROVE  req[v].attempt # k
    BY <2>1, <1>2 DEF FormInv, Calls
  <2>2. ASSUME NEW v \in Workers
        PROVE  LET s == attempts'[req'[v].item]
               IN  /\ req'[v].pc = "call" =>
                        req'[v].attempt \in DOMAIN s /\ ~Succeeded(s, req'[v].attempt)
                   /\ req'[v].pc = "settle" /\ req'[v].to = "READY_FOR_REVIEW" =>
                        Succeeded(s, req'[v].attempt)
    <3>1. CASE v = w
      BY <3>1, <1>2, <1>3, <1>4, <1>6 DEF Succeeded
    <3>2. CASE v # w /\ req[v].pc \in {"call", "settle"}
      <4>1. req[v].item \in Items /\ req'[v] = req[v]
        BY <3>2, <1>2 DEF FormInv, RequestShape, ShapeOf
      <4>2. CASE req[v].item # i
        BY <4>1, <4>2, <1>5 DEF FormInv, Calls
      <4>3. CASE req[v].item = i /\ req[v].pc = "call"
        BY <3>2, <4>1, <4>3, <2>1, <1>6, <1>7 DEF FormInv, Calls
      <4>4. CASE req[v].item = i /\ req[v].pc = "settle"
        BY <4>1, <4>4, <1>8 DEF FormInv, Calls, Extended, Succeeded
      <4> QED
        BY <3>2, <4>2, <4>3, <4>4
    <3>3. CASE v # w /\ req[v].pc \notin {"call", "settle"}
      BY <3>3, <1>2
    <3> QED
      BY <3>1, <3>2, <3>3
  <2>3. ASSUME NEW u \in Workers, NEW v \in Workers, u # v,
               req'[u].pc = "call", req'[v].pc = "call", req'[u].item = req'[v].item
        PROVE  req'[u].attempt # req'[v].attempt
    BY <2>3, <1>2 DEF FormInv, Calls
  <2> QED
    BY <2>2, <2>3 DEF Calls
<1> QED
  BY <1>9, <1>10, <1>11

\* A settled success is the result of the attempt just saved; a failure keeps the old one.
LEMMA SettleStep ==
  ASSUME FormInv, NEW w \in Workers, Settle(w), Alongside
  PROVE  Rows' /\ Forms' /\ Calls'
<1> DEFINE i == req[w].item
<1>1. TypeOK
  BY DEF FormInv, FormTypeOK
<1>2. /\ i \in Items /\ row[i] \in WorkItem /\ attempts[i] \in Seq(AnalysisAttempt)
      /\ req[w] \in Request /\ req[w].to \in {"READY_FOR_REVIEW", "FAILED"}
      /\ Acceptable(row[i]) /\ Sourced(attempts[i], row[i], source[i])
  BY <1>1 DEF Settle, FormInv, RequestShape, ShapeOf, TypeOK, Rows
<1>3. /\ Settled(w) \in WorkItem
      /\ Settled(w).attempt_count = row[i].attempt_count
      /\ Settled(w).analysis =
           IF req[w].to = "READY_FOR_REVIEW" THEN req[w].attempt ELSE row[i].analysis
  BY <1>2 DEF Settled, WorkItem, Request, Errors
<1>4. /\ row'[i].status = req[w].to
      /\ row'[i].attempt_count = row[i].attempt_count
      /\ row'[i].analysis =
           IF req[w].to = "READY_FOR_REVIEW" THEN req[w].attempt ELSE row[i].analysis
      /\ \A j \in Items \ {i} : row'[j] = row[j]
  <2>1. transition(i, req[w].from, req[w].to, "system",
                   IF req[w].to = "FAILED" THEN req[w].code ELSE "succeeded", Settled(w))
    BY DEF Settle
  <2> QED
    BY <1>1, <1>2, <1>3, <2>1, TransitionRows
<1>5. attempts' = attempts /\ req'[w].pc = "idle" /\ \A v \in Workers \ {w} : req'[v] = req[v]
  BY <1>1, FinishStops DEF Settle
<1>6. Rows'
  <2>1. CASE req[w].to = "READY_FOR_REVIEW"
    <3>1. Succeeded(attempts[i], req[w].attempt)
      BY <2>1 DEF Settle, FormInv, Calls
    <3>2. req[w].attempt # 0
      BY <3>1, <1>2 DEF Succeeded
    <3>3. Acceptable(row'[i]) /\ Sourced(attempts[i], row'[i], source'[i])
      BY <3>1, <3>2, <2>1, <1>2, <1>4 DEF Acceptable, Sourced, Succeeded
    <3> QED
      BY <3>3, <1>4, <1>5 DEF FormInv, Rows, Alongside
  <2>2. CASE req[w].to = "FAILED"
    <3>1. Acceptable(row'[i]) /\ Sourced(attempts[i], row'[i], source'[i])
      BY <2>2, <1>2, <1>4 DEF Acceptable, Sourced, Alongside
    <3> QED
      BY <3>1, <1>4, <1>5 DEF FormInv, Rows, Alongside
  <2> QED
    BY <1>2, <2>1, <2>2
<1>7. Forms'
  BY <1>5 DEF FormInv, Forms, Alongside
<1>8. Calls'
  BY <1>5 DEF FormInv, Calls
<1> QED
  BY <1>6, <1>7, <1>8

-----------------------------------------------------------------------------
(* The steps of the form.                                                  *)

\* Time passes for the rows that are there and for those that are held.
LEMMA TickStep ==
  ASSUME FormInv, FormTick
  PROVE  FormInv'
<1>1. TypeOK /\ TypeOK' /\ RequestShape'
  BY TickTypeOK DEF FormTick, FormInv, FormTypeOK
<1>2. ASSUME NEW a \in Administrators
      PROVE  /\ form'[a].pc = form[a].pc /\ form'[a].item = form[a].item
             /\ form'[a].analysis = form[a].analysis /\ form'[a].source = form[a].source
             /\ form'[a].row.attempt_count = form[a].row.attempt_count
             /\ form'[a].row.analysis = form[a].row.analysis
             /\ form'[a].row.status = form[a].row.status
             /\ form'[a] \in Form
  <2>1. form[a] \in Form /\ Older(form[a].row.age) \in 0 .. AgeCap
    BY AgeType DEF FormInv, FormTypeOK, Form, WorkItem
  <2>2. form'[a] = IF form[a].row.status = "ANALYSING"
                     THEN [form[a] EXCEPT !.row.age = Older(@)] ELSE form[a]
    BY DEF FormTick
  <2> QED
    BY <2>1, <2>2 DEF Form, WorkItem
<1>3. FormTypeOK'
  <2>1. form' = [a \in Administrators |-> form'[a]]
    BY DEF FormTick
  <2> QED
    BY <1>1, <1>2, <2>1 DEF FormTypeOK, FormInv, FormTick
<1>4. UNCHANGED attempts
  BY DEF FormTick, Tick
<1>5. \A i \in Items : /\ row'[i].status = row[i].status
                       /\ row'[i].attempt_count = row[i].attempt_count
                       /\ row'[i].analysis = row[i].analysis
  BY <1>1 DEF FormTick, Tick, TypeOK, WorkItem
<1>6. Rows'
  BY <1>4, <1>5 DEF FormInv, Rows, Acceptable, Sourced, FormTick
<1>7. Forms'
  BY <1>2, <1>4 DEF FormInv, Forms, Sourced
<1>8. Calls'
  <2>1. \A w \in Workers : /\ req'[w].pc = req[w].pc /\ req'[w].item = req[w].item
                           /\ req'[w].attempt = req[w].attempt /\ req'[w].to = req[w].to
    BY <1>1 DEF FormTick, Tick, TypeOK, Request
  <2> QED
    BY <2>1, <1>4 DEF FormInv, Calls
<1> QED
  BY <1>1, <1>3, <1>6, <1>7, <1>8 DEF FormInv

LEMMA FormStep ==
  ASSUME FormInv, NEW a \in Administrators,
         \/ \E i \in Items : FormOpen(a, i)
         \/ FormLoad(a) \/ FormSave(a) \/ FormDropped(a)
  PROVE  FormInv'
<1>1. /\ TypeOK /\ form \in [Administrators -> Form] /\ saves \in 0 .. MaxSaves
      /\ source \in [Items -> {"call", "hand"}]
  BY DEF FormInv, FormTypeOK
<1>2. UNCHANGED <<attempts, transitions, req, todo>>
  BY DEF FormOpen, FormLoad, FormSave, FormDropped, vars
<1>3. RequestShape' /\ Calls'
  BY <1>2 DEF FormInv, RequestShape, ShapeOf, Calls
<1>4. /\ Closed \in Form /\ Closed.pc = "closed"
  BY NewRowTypes DEF Closed, Form
\* Every step puts one form in place of another.
<1>5. ASSUME NEW f \in Form, form' = [form EXCEPT ![a] = f],
             /\ f.pc # "closed" => f.item \in Items
             /\ f.pc # "closed" /\ f.analysis # 0 =>
                  f.source = "hand" \/ Succeeded(attempts[f.item], f.analysis)
             /\ f.pc = "loaded" => Sourced(attempts[f.item], f.row, f.source)
      PROVE  form' \in [Administrators -> Form] /\ Forms'
  <2>1. \A b \in Administrators : form'[b] = IF b = a THEN f ELSE form[b]
    BY <1>1, <1>5
  <2>2. Forms'
    BY <1>2, <1>5, <2>1 DEF FormInv, Forms
  <2> QED
    BY <1>1, <1>5, <2>2
<1>6. CASE \E i \in Items : FormOpen(a, i)
  <2>1. PICK i \in Items : FormOpen(a, i)
    BY <1>6
  <2> DEFINE f == [Closed EXCEPT !.pc = "open", !.item = i, !.analysis = row[i].analysis,
                                 !.source = source[i]]
  <2>2. row[i] \in WorkItem /\ Sourced(attempts[i], row[i], source[i])
    BY <1>1 DEF TypeOK, FormInv, Rows
  <2>3. /\ f \in Form /\ f.pc = "open" /\ f.item = i /\ f.analysis = row[i].analysis
        /\ f.source = source[i]
    BY <1>1, <1>4, <2>2 DEF Closed, Form, WorkItem
  <2>4. form' = [form EXCEPT ![a] = f] /\ UNCHANGED <<row, source, saves>>
    BY <2>1 DEF FormOpen, vars
  <2>5. f.analysis # 0 => f.source = "hand" \/ Succeeded(attempts[f.item], f.analysis)
    BY <2>2, <2>3 DEF Sourced
  <2>6. form' \in [Administrators -> Form] /\ Forms'
    <3> HIDE DEF f
    <3> QED
      BY <1>5, <2>3, <2>4, <2>5
  <2> QED
    BY <1>1, <1>2, <1>3, <2>4, <2>6 DEF FormInv, FormTypeOK, TypeOK, Rows
<1>7. CASE FormLoad(a)
  <2> DEFINE i == form[a].item
  <2>1. /\ form[a] \in Form /\ form[a].pc = "open" /\ i \in Items
        /\ form[a].analysis # 0 =>
             form[a].source = "hand" \/ Succeeded(attempts[i], form[a].analysis)
    BY <1>1, <1>7 DEF FormLoad, FormInv, Forms
  <2>2. PICK result \in Submitted(form[a]), error \in Errors :
          form' = [form EXCEPT ![a] =
            [form[a] EXCEPT !.pc = "loaded", !.analysis = result.analysis,
                            !.source = result.source,
                            !.row = [row[i] EXCEPT !.analysis = result.analysis,
                                                   !.last_error_code = error]]]
    BY <1>7 DEF FormLoad
  <2>3. /\ result.analysis \in Nat /\ result.source \in {"call", "hand"}
        /\ result.analysis # 0 =>
             result.source = "hand" \/ Succeeded(attempts[i], result.analysis)
    BY <2>1 DEF Submitted, Form
  <2>4. row[i] \in WorkItem /\ Sourced(attempts[i], row[i], source[i])
    BY <1>1, <2>1 DEF TypeOK, FormInv, Rows
  <2> DEFINE r == [row[i] EXCEPT !.analysis = result.analysis, !.last_error_code = error]
             f == [form[a] EXCEPT !.pc = "loaded", !.analysis = result.analysis,
                                  !.source = result.source, !.row = r]
  <2>5. /\ r \in WorkItem /\ r.attempt_count = row[i].attempt_count
        /\ r.status = row[i].status /\ r.analysis = result.analysis
    BY <2>3, <2>4 DEF WorkItem
  <2>6. form' = [form EXCEPT ![a] = f] /\ UNCHANGED <<row, source, saves>>
    BY <1>7, <2>2 DEF FormLoad, vars
  <2>7. /\ f \in Form /\ f.pc = "loaded" /\ f.item = i /\ f.row = r
        /\ f.analysis = result.analysis /\ f.source = result.source
    <3> HIDE DEF r
    <3> QED
      BY <2>1, <2>3, <2>5 DEF Form
  <2> HIDE DEF r, f
  <2>8. Sourced(attempts[i], r, result.source)
    BY <2>3, <2>4, <2>5 DEF Sourced
  <2>9. form' \in [Administrators -> Form] /\ Forms'
    BY <1>5, <2>1, <2>3, <2>6, <2>7, <2>8
  <2> QED
    BY <1>1, <1>2, <1>3, <2>6, <2>9 DEF FormInv, FormTypeOK, TypeOK, Rows
<1>8. CASE FormSave(a)
  <2> DEFINE i == form[a].item
             r == form[a].row
             o == form[a].source
  <2>1. /\ i \in Items /\ r \in WorkItem /\ o \in {"call", "hand"}
        /\ Acceptable(r) /\ Sourced(attempts[i], r, o)
    BY <1>1, <1>8 DEF FormSave, FormInv, Forms, Form
  <2>2. /\ row' = [row EXCEPT ![i] = r] /\ saves' = saves + 1 /\ saves < MaxSaves
        /\ source' = [source EXCEPT ![i] = o]
    BY <1>8 DEF FormSave
  <2>3. form' \in [Administrators -> Form] /\ Forms'
    BY <1>4, <1>5, <1>8 DEF FormSave
  <2>4. \A j \in Items : /\ row'[j] = IF j = i THEN r ELSE row[j]
                         /\ source'[j] = IF j = i THEN o ELSE source[j]
    BY <1>1, <2>2 DEF TypeOK
  <2>5. row' \in [Items -> WorkItem] /\ source' \in [Items -> {"call", "hand"}]
    BY <1>1, <2>1, <2>2 DEF TypeOK
  <2>6. Rows'
    BY <1>2, <2>1, <2>4 DEF FormInv, Rows
  <2>7. saves' \in 0 .. MaxSaves
    BY <1>1, <2>2, AdministratorsAssumption
  <2> QED
    BY <1>1, <1>2, <1>3, <2>3, <2>5, <2>6, <2>7 DEF FormInv, FormTypeOK, TypeOK
<1>9. CASE FormDropped(a)
  <2>1. form' \in [Administrators -> Form] /\ Forms'
    BY <1>4, <1>5, <1>9 DEF FormDropped
  <2>2. UNCHANGED <<row, source, saves>>
    BY <1>9 DEF FormDropped, vars
  <2> QED
    BY <1>1, <1>2, <1>3, <2>1, <2>2 DEF FormInv, FormTypeOK, TypeOK, Rows
<1> QED
  BY <1>6, <1>7, <1>8, <1>9

-----------------------------------------------------------------------------
(* Calls in flight.  A form that is saved can put a row back from which a    *)
(* claim would start although a call is still running.  That claim fails:    *)
(* the count in the row is then an old one and its attempt number is taken.  *)

\* The reaper gave up on as many calls of the item as are in flight.
Room(i) == Cardinality(InFlight(i)) <= Cardinality(Reaped(i))

\* If a claim could start from the row r, there is room for its call.
Clears(i, r) == r.attempt_count = Len(attempts[i]) /\ r.status # "ANALYSING" => Room(i)

CallBound(i) ==
  /\ Cardinality(InFlight(i)) <= 1 + Cardinality(Reaped(i))
  /\ Clears(i, row[i])
  /\ \A a \in Administrators :
       form[a].pc = "loaded" /\ form[a].item = i => Clears(i, form[a].row)

CallBounds == \A i \in Items : CallBound(i)

\* Forms keep what CallBound reads of the rows they hold.
FormsKept ==
  \A a \in Administrators :
    /\ form'[a].pc = form[a].pc /\ form'[a].item = form[a].item
    /\ form'[a].row.attempt_count = form[a].row.attempt_count
    /\ form'[a].row.status = form[a].row.status

\* When calls only end and the reaper takes nothing back, room stays room.
LEMMA RoomStays ==
  ASSUME TypeOK, NEW i \in Items, InFlight(i)' \subseteq InFlight(i),
         Cardinality(Reaped(i)') \in Nat, Cardinality(Reaped(i)) <= Cardinality(Reaped(i)')
  PROVE  /\ Room(i) => Room(i)'
         /\ Cardinality(InFlight(i)) <= 1 + Cardinality(Reaped(i)) =>
              Cardinality(InFlight(i)') <= 1 + Cardinality(Reaped(i)')
<1>1. /\ IsFiniteSet(InFlight(i)) /\ Cardinality(InFlight(i)) \in Nat
      /\ Cardinality(Reaped(i)) \in Nat
  BY FiniteCounts
<1>2. Cardinality(InFlight(i)') \in Nat /\ Cardinality(InFlight(i)') <= Cardinality(InFlight(i))
  BY <1>1, FS_Subset, FS_CardinalityType
<1> QED
  BY <1>1, <1>2 DEF Room

\* With room for it, every row there is or will be clears a claim.
LEMMA RoomClears ==
  ASSUME NEW i \in Items, Room(i)',
         Cardinality(InFlight(i)') \in Nat, Cardinality(Reaped(i)') \in Nat
  PROVE  CallBound(i)'
  BY DEF Room, Clears, CallBound

\* A step that starts no call, gives no call up and changes nothing a claim depends on.
LEMMA CallBoundStays ==
  ASSUME TypeOK, FormsKept, NEW i \in Items, CallBound(i),
         InFlight(i)' \subseteq InFlight(i), Reaped(i)' = Reaped(i),
         Len(attempts'[i]) = Len(attempts[i]),
         row'[i].attempt_count = row[i].attempt_count,
         row[i].status = "ANALYSING" => row'[i].status = "ANALYSING"
  PROVE  CallBound(i)'
<1>1. /\ Cardinality(Reaped(i)') \in Nat
      /\ Cardinality(Reaped(i)) <= Cardinality(Reaped(i)')
  BY FiniteCounts
<1>2. /\ Room(i) => Room(i)'
      /\ Cardinality(InFlight(i)') <= 1 + Cardinality(Reaped(i)')
  BY <1>1, RoomStays DEF CallBound
<1>3. Clears(i, row[i])'
  BY <1>2 DEF CallBound, Clears
<1>4. ASSUME NEW a \in Administrators, form'[a].pc = "loaded", form'[a].item = i
      PROVE  Clears(i, form[a].row)'
  BY <1>2, <1>4 DEF CallBound, Clears, FormsKept
<1> QED
  BY <1>2, <1>3, <1>4 DEF CallBound

\* The engine's steps, which forms do not take part in.
LEMMA EngineCalls ==
  ASSUME FormInv, FormsKept, [Next]_vars, NEW i \in Items, CallBound(i)
  PROVE  CallBound(i)'
<1>1. /\ TypeOK /\ RequestShape /\ i \notin Deletable
      /\ row[i] \in WorkItem /\ attempts[i] \in Seq(AnalysisAttempt)
      /\ row[i].attempt_count <= Len(attempts[i])
  BY AdministratorsAssumption DEF FormInv, FormTypeOK, TypeOK, Rows, Sourced
<1>2. /\ IsFiniteSet(InFlight(i)) /\ Cardinality(InFlight(i)) \in Nat
      /\ Cardinality(Reaped(i)) \in Nat
  BY <1>1, FiniteCounts
<1>3. CASE Aside(i)
  <2>1. /\ attempts'[i] = attempts[i] /\ transitions'[i] = transitions[i]
        /\ row'[i].attempt_count = row[i].attempt_count
        /\ row'[i].status = row[i].status
    BY <1>3 DEF Aside, SameCount, SameAttempts
  <2>2. InFlight(i)' \subseteq InFlight(i)
    BY <1>3 DEF Aside, Held, InFlight
  <2>3. Reaped(i)' = Reaped(i)
    BY <2>1 DEF Reaped
  <2> QED
    BY <1>1, <2>1, <2>2, <2>3, CallBoundStays
<1>4. CASE Completed(i)
  <2>1. /\ Moved(i, "COMPLETED", "manual") /\ row[i].status = "READY_FOR_REVIEW"
        /\ attempts'[i] = attempts[i]
        /\ row'[i].attempt_count = row[i].attempt_count
        /\ InFlight(i)' \subseteq InFlight(i)
    BY <1>4 DEF Completed, SameCount, SameAttempts, Held, InFlight
  <2>2. Reaped(i)' = Reaped(i)
    BY <1>1, <2>1, OnlyReapersReap
  <2> QED
    BY <1>1, <2>1, <2>2, CallBoundStays
\* The reaper gives up on the call that held the item.
<1>5. CASE ReapedNow(i)
  <2>1. Cardinality(Reaped(i)') = Cardinality(Reaped(i)) + 1
    BY <1>1, <1>5, MovedCounts DEF ReapedNow
  <2>2. InFlight(i)' \subseteq InFlight(i)
    BY <1>5 DEF ReapedNow, Held, InFlight
  <2>3. Cardinality(InFlight(i)') \in Nat /\ Cardinality(InFlight(i)') <= Cardinality(InFlight(i))
    BY <1>2, <2>2, FS_Subset, FS_CardinalityType
  <2>4. Room(i)' /\ Cardinality(Reaped(i)') \in Nat
    BY <1>2, <2>1, <2>3 DEF CallBound, Room
  <2> QED
    BY <2>3, <2>4, RoomClears
<1>6. CASE DeletedNow(i)
  BY <1>1, <1>6 DEF DeletedNow
\* The claim uses up the room there is; every row held before it has an old count.
<1>7. ASSUME NEW w \in Workers, ClaimedBy(i, w)
      PROVE  CallBound(i)'
  <2>1. /\ row[i].status \in {"RECEIVED", "FAILED"} /\ ~AttemptTaken(i)
        /\ Moved(i, "ANALYSING", "started")
        /\ attempts'[i] = Append(attempts[i], OpenedAttempt)
        /\ InFlight(i)' \subseteq InFlight(i) \cup {w}
    BY <1>7 DEF ClaimedBy, Held, InFlight
  <2>2. /\ row[i].attempt_count = Len(attempts[i])
        /\ Len(attempts[i]) \in Nat /\ Len(attempts'[i]) = Len(attempts[i]) + 1
    <3>1. row[i].attempt_count \in Nat /\ Len(attempts[i]) \in Nat
      BY <1>1 DEF WorkItem
    <3>2. row[i].attempt_count + 1 \notin 1 .. Len(attempts[i])
      BY <1>1, <2>1 DEF AttemptTaken
    <3> QED
      BY <1>1, <2>1, <3>1, <3>2
  <2>3. Room(i)
    BY <2>1, <2>2 DEF CallBound, Clears
  <2>4. Reaped(i)' = Reaped(i)
    BY <1>1, <2>1, OnlyReapersReap
  <2>5. /\ Cardinality(InFlight(i)') \in Nat
        /\ Cardinality(InFlight(i)') <= Cardinality(InFlight(i)) + 1
    <3>1. /\ IsFiniteSet(InFlight(i) \cup {w})
          /\ Cardinality(InFlight(i) \cup {w}) \in Nat
          /\ Cardinality(InFlight(i) \cup {w}) <= Cardinality(InFlight(i)) + 1
      <4>1. /\ IsFiniteSet(InFlight(i) \cup {w})
            /\ Cardinality(InFlight(i) \cup {w}) =
                 IF w \in InFlight(i) THEN Cardinality(InFlight(i))
                                     ELSE Cardinality(InFlight(i)) + 1
        BY <1>2, FS_AddElement
      <4> QED
        BY <1>2, <4>1
    <3>2. /\ Cardinality(InFlight(i)') \in Nat
          /\ Cardinality(InFlight(i)') <= Cardinality(InFlight(i) \cup {w})
      BY <2>1, <3>1, FS_Subset, FS_CardinalityType
    <3> QED
      BY <1>2, <3>1, <3>2
  <2>6. Cardinality(InFlight(i)') <= 1 + Cardinality(Reaped(i)')
    BY <1>2, <2>3, <2>4, <2>5 DEF Room
  <2>7. Clears(i, row[i])'
    BY <2>1 DEF Moved, Clears
  <2>8. ASSUME NEW a \in Administrators, form'[a].pc = "loaded", form'[a].item = i
        PROVE  Clears(i, form[a].row)'
    <3>1. /\ form[a].row \in WorkItem
          /\ form'[a].row.attempt_count = form[a].row.attempt_count
          /\ form[a].row.attempt_count <= Len(attempts[i])
      BY <2>8 DEF FormsKept, FormInv, FormTypeOK, Forms, Form, Sourced
    <3>2. form'[a].row.attempt_count # Len(attempts'[i])
      BY <2>2, <3>1 DEF WorkItem
    <3> QED
      BY <3>2 DEF Clears
  <2> QED
    BY <2>6, <2>7, <2>8 DEF CallBound
<1>8. ASSUME NEW w \in Workers, RecordedBy(i, w)
      PROVE  CallBound(i)'
  <2>1. /\ row' = row /\ transitions' = transitions
        /\ InFlight(i)' \subseteq InFlight(i)
        /\ \E a : attempts'[i] = [attempts[i] EXCEPT ![req[w].attempt] = a]
    BY <1>8 DEF RecordedBy, Held, InFlight
  <2>2. Len(attempts'[i]) = Len(attempts[i])
    BY <1>1, <2>1
  <2>3. Reaped(i)' = Reaped(i)
    BY <2>1 DEF Reaped
  <2> QED
    BY <1>1, <2>1, <2>2, <2>3, CallBoundStays
\* The call that settles is one call fewer.
<1>9. ASSUME NEW w \in Workers, SettledBy(i, w)
      PROVE  CallBound(i)'
  <2>1. PICK to, reason : Moved(i, to, reason)
    BY <1>9 DEF SettledBy
  <2>2. /\ Cardinality(Reaped(i)') \in Nat
        /\ Cardinality(Reaped(i)) <= Cardinality(Reaped(i)')
    BY <1>1, <1>2, <2>1, MovedCounts
  <2>3. w \in InFlight(i) /\ InFlight(i)' \subseteq InFlight(i) \ {w}
    BY <1>9 DEF SettledBy, Held, InFlight
  <2>4. /\ Cardinality(InFlight(i)') \in Nat
        /\ Cardinality(InFlight(i)') <= Cardinality(InFlight(i)) - 1
    <3>1. /\ IsFiniteSet(InFlight(i) \ {w})
          /\ Cardinality(InFlight(i) \ {w}) = Cardinality(InFlight(i)) - 1
      BY <1>2, <2>3, FS_RemoveElement
    <3> QED
      BY <2>3, <3>1, FS_Subset, FS_CardinalityType
  <2>5. Room(i)'
    BY <1>2, <2>2, <2>4 DEF CallBound, Room
  <2> QED
    BY <2>2, <2>4, <2>5, RoomClears
<1> QED
  BY <1>1, <1>3, <1>4, <1>5, <1>6, <1>7, <1>8, <1>9, StepOfItem

\* The forms read a row, or put one back that they read; no call starts or ends.
LEMMA FormCalls ==
  ASSUME FormInv, NEW i \in Items, CallBound(i), NEW a \in Administrators,
         \/ \E j \in Items : FormOpen(a, j)
         \/ FormLoad(a) \/ FormSave(a) \/ FormDropped(a)
  PROVE  CallBound(i)'
<1> DEFINE f == form[a]
<1>1. /\ TypeOK
      /\ form \in [Administrators -> Form]
      /\ f.pc # "closed" => f.item \in Items
  BY DEF FormInv, FormTypeOK, Forms
<1>2. /\ UNCHANGED <<attempts, transitions, req>>
      /\ InFlight(i)' = InFlight(i) /\ Reaped(i)' = Reaped(i)
      /\ \A r : Clears(i, r)' <=> Clears(i, r)
  <2>1. UNCHANGED <<attempts, transitions, req>>
    BY DEF FormOpen, FormLoad, FormSave, FormDropped, vars
  <2> QED
    BY <2>1 DEF InFlight, Reaped, Clears, Room
<1>3. Clears(i, row'[i])
  <2>1. CASE FormSave(a) /\ f.item = i
    BY <1>1, <2>1 DEF FormSave, TypeOK, CallBound
  <2>2. CASE ~(FormSave(a) /\ f.item = i)
    BY <1>1, <2>2 DEF FormOpen, FormLoad, FormSave, FormDropped, vars, TypeOK, CallBound
  <2> QED
    BY <2>1, <2>2
<1>4. ASSUME NEW b \in Administrators, form'[b].pc = "loaded", form'[b].item = i
      PROVE  Clears(i, form'[b].row)
  <2>1. CASE FormLoad(a) /\ b = a
    <3>1. /\ row[i] \in WorkItem /\ f.item = i
          /\ form'[a].row.attempt_count = row[i].attempt_count
          /\ form'[a].row.status = row[i].status
      <4>1. row[i] \in WorkItem /\ f.item = i /\ f \in Form
        BY <1>1, <1>4, <2>1 DEF FormLoad, TypeOK, Form
      <4>2. PICK result \in Submitted(f), error \in Errors :
              form'[a] = [f EXCEPT !.pc = "loaded", !.analysis = result.analysis,
                                   !.source = result.source,
                                   !.row = [row[i] EXCEPT !.analysis = result.analysis,
                                                          !.last_error_code = error]]
        BY <1>1, <2>1, <4>1 DEF FormLoad
      <4> DEFINE r == [row[i] EXCEPT !.analysis = result.analysis, !.last_error_code = error]
      <4>3. r.attempt_count = row[i].attempt_count /\ r.status = row[i].status
        BY <4>1 DEF WorkItem
      <4>4. form'[a] = [f EXCEPT !.pc = "loaded", !.analysis = result.analysis,
                                 !.source = result.source, !.row = r]
        BY <4>2
      <4>5. form'[a].row = r
        <5> HIDE DEF f, r
        <5> QED
          BY <4>1, <4>4 DEF Form
      <4> QED
        BY <4>1, <4>3, <4>5
    <3> QED
      BY <2>1, <3>1 DEF CallBound, Clears
  <2>2. CASE ~(FormLoad(a) /\ b = a)
    <3>1. form'[b] = form[b] \/ b = a
      BY <1>1 DEF FormOpen, FormLoad, FormSave, FormDropped
    <3>2. ASSUME b = a PROVE form'[a].pc # "loaded"
      <4>1. CASE \E j \in Items : FormOpen(a, j)
        BY <1>1, <4>1 DEF FormOpen, Closed
      <4>2. CASE FormSave(a) \/ FormDropped(a)
        BY <1>1, <4>2 DEF FormSave, FormDropped, Closed
      <4> QED
        BY <2>2, <3>2, <4>1, <4>2
    <3>3. form'[b] = form[b]
      BY <1>4, <3>1, <3>2
    <3> QED
      BY <1>4, <3>3 DEF CallBound
  <2> QED
    BY <2>1, <2>2
<1> QED
  BY <1>2, <1>3, <1>4 DEF CallBound

LEMMA NextCallBound ==
  ASSUME FormInv, [FormNext]_formVars, NEW i \in Items, CallBound(i)
  PROVE  CallBound(i)'
<1>1. ASSUME NEW a \in Administrators,
             (\E j \in Items : FormOpen(a, j)) \/ FormLoad(a) \/ FormSave(a) \/ FormDropped(a)
      PROVE  CallBound(i)'
  BY <1>1, FormCalls
<1>2. CASE /\ \/ \E w \in Workers : Arrive(w) \/ Continue(w) \/ Crash(w)
              \/ \E r \in Reapers : ReapQuery(r) \/ ReapLoop(r) \/ ReaperCrash(r)
           /\ Alongside
  BY <1>2, EngineCalls DEF Next, FormsKept, Alongside
<1>3. CASE FormTick
  <2>1. FormsKept
    <3> SUFFICES ASSUME NEW a \in Administrators
                 PROVE  /\ form'[a].pc = form[a].pc /\ form'[a].item = form[a].item
                        /\ form'[a].row.attempt_count = form[a].row.attempt_count
                        /\ form'[a].row.status = form[a].row.status
      BY DEF FormsKept
    <3>1. form[a] \in Form
      BY DEF FormInv, FormTypeOK
    <3>2. form'[a] = IF form[a].row.status = "ANALYSING"
                       THEN [form[a] EXCEPT !.row.age = Older(@)] ELSE form[a]
      BY <1>3 DEF FormTick
    <3> QED
      BY <3>1, <3>2 DEF Form, WorkItem
  <2> QED
    BY <1>3, <2>1, EngineCalls DEF FormTick, Next
<1>4. CASE UNCHANGED formVars
  BY <1>4, EngineCalls DEF formVars, vars, FormsKept
<1> QED
  BY <1>1, <1>2, <1>3, <1>4 DEF FormNext

-----------------------------------------------------------------------------
(* Theorems.                                                               *)

LEMMA EngineStep ==
  ASSUME FormInv, Alongside,
         \/ \E w \in Workers : Arrive(w) \/ Continue(w) \/ Crash(w)
         \/ \E r \in Reapers : ReapQuery(r) \/ ReapLoop(r) \/ ReaperCrash(r)
  PROVE  FormInv'
<1>1. TypeOK' /\ RequestShape'
  BY NextTypeOK DEF Next, FormInv, FormTypeOK
<1>2. FormTypeOK'
  <2>1. source' \in [Items -> {"call", "hand"}]
    BY DEF Alongside, FormInv, FormTypeOK
  <2> QED
    BY <1>1, <2>1 DEF Alongside, FormInv, FormTypeOK
<1>3. Rows' /\ Forms' /\ Calls'
  <2>1. ASSUME NEW w \in Workers, Arrive(w) PROVE Rows' /\ Forms' /\ Calls'
    BY <2>1, StoppingStep
  <2>2. ASSUME NEW w \in Workers,
               \/ Crash(w) \/ ClaimRefused(w) \/ SaveRefused(w)
               \/ SettleDiscarded(w) \/ PatchRefused(w)
        PROVE  Rows' /\ Forms' /\ Calls'
    <3>1. Finish(w) /\ UNCHANGED <<row, attempts, transitions, todo>>
      BY <2>2 DEF Crash, ClaimRefused, SaveRefused, SettleDiscarded, PatchRefused
    <3> QED
      BY <3>1, StoppingStep
  <2>3. ASSUME NEW w \in Workers, Continue(w) PROVE Rows' /\ Forms' /\ Calls'
    BY <2>2, <2>3, ClaimStep, RecordStep, SettleStep, MovingStep DEF Continue
  <2>4. ASSUME NEW r \in Reapers, ReapQuery(r) \/ ReapLoop(r) \/ ReaperCrash(r)
        PROVE  Rows' /\ Forms' /\ Calls'
    <3>1. CASE \E i \in Items : Reap(r, i)
      BY <3>1, MovingStep
    <3>2. CASE ReapQuery(r) \/ ReaperCrash(r) \/ \E i \in Items : ReapSkipped(r, i) \/ ReapAborted(r, i)
      <4>1. UNCHANGED <<row, attempts, req>>
        BY <3>2 DEF ReapQuery, ReaperCrash, ReapSkipped, ReapAborted
      <4> QED
        BY <4>1, CalmStep DEF Calm
    <3> QED
      BY <2>4, <3>1, <3>2 DEF ReapLoop
  <2> QED
    BY <2>1, <2>2, <2>3, <2>4
<1> QED
  BY <1>1, <1>2, <1>3 DEF FormInv

LEMMA NextFormInv == FormInv /\ [FormNext]_formVars => FormInv'
<1> SUFFICES ASSUME FormInv, [FormNext]_formVars PROVE FormInv'
  OBVIOUS
<1>1. ASSUME NEW a \in Administrators,
             (\E i \in Items : FormOpen(a, i)) \/ FormLoad(a) \/ FormSave(a) \/ FormDropped(a)
      PROVE  FormInv'
  BY <1>1, FormStep
<1>2. CASE /\ \/ \E w \in Workers : Arrive(w) \/ Continue(w) \/ Crash(w)
              \/ \E r \in Reapers : ReapQuery(r) \/ ReapLoop(r) \/ ReaperCrash(r)
           /\ Alongside
  BY <1>2, EngineStep
<1>3. CASE FormTick
  BY <1>3, TickStep
<1>4. CASE UNCHANGED formVars
  BY <1>4 DEF formVars, FormInv, FormTypeOK, TypeOK, RequestShape, ShapeOf, Rows, Forms, Calls
<1> QED
  BY <1>1, <1>2, <1>3, <1>4 DEF FormNext

\* Rows, and those that forms are about to write, are sourced in recorded attempts.
THEOREM FormInvCorrect == FormSpec => []FormInv
  BY InitFormInv, NextFormInv, PTL DEF FormSpec

\* Every variable has its type (the change form of admin.py beside the engine).
THEOREM FormTyped == FormSpec => []FormTypeOK
<1>1. FormInv => FormTypeOK
  BY DEF FormInv
<1> QED
  BY <1>1, FormInvCorrect, PTL

\* Whatever forms overwrite and whatever is typed into them, what is up for review or
\* completed has a result, a call recorded as SUCCEEDED behind it, and, unless its result
\* was typed in, that of such a call (WorkItemAdmin, the CHECK constraint of models.py).
THEOREM FormsKeepProvenance == FormSpec => []ReviewedResultIsRecorded
<1>1. FormInv => ReviewedResultIsRecorded
  <2> SUFFICES ASSUME FormInv, NEW i \in Items
               PROVE  LET k == row[i].analysis
                          succeeded == {n \in DOMAIN attempts[i] :
                                          attempts[i][n].outcome = "SUCCEEDED"}
                      IN  /\ row[i].status \in {"READY_FOR_REVIEW", "COMPLETED"} =>
                               k # 0 /\ succeeded # {}
                          /\ k # 0 /\ source[i] = "call" => k \in succeeded
    BY DEF ReviewedResultIsRecorded
  <2>1. Acceptable(row[i]) /\ Sourced(attempts[i], row[i], source[i])
    BY DEF FormInv, Rows
  <2> QED
    BY <2>1 DEF Acceptable, Sourced, Succeeded
<1> QED
  BY <1>1, FormInvCorrect, PTL

\* What the forms put back never lets more calls of an item run at once than the reaper
\* gave up on, and one: each claim is refused unless its attempt number is free (_claim,
\* uniq_attempt_no_per_work_item).
THEOREM FormsKeepCallsBounded == FormSpec => []CallsInFlightBounded
<1>1. FormInit => CallBounds
  <2> SUFFICES ASSUME FormInit, NEW i \in Items PROVE CallBound(i)
    BY DEF CallBounds
  <2>1. InFlight(i) = {} /\ Reaped(i) = {} /\ \A a \in Administrators : form[a].pc = "closed"
    BY DEF FormInit, Init, Idle, Closed, InFlight, Reaped
  <2> QED
    BY <2>1, FS_EmptySet DEF CallBound, Clears, Room
<1>2. FormInv /\ CallBounds /\ [FormNext]_formVars => CallBounds'
  BY NextCallBound DEF CallBounds
<1>3. CallBounds => CallsInFlightBounded
  BY DEF CallBounds, CallBound, CallsInFlightBounded
<1> QED
  BY <1>1, <1>2, <1>3, FormInvCorrect, PTL DEF FormSpec

=============================================================================
