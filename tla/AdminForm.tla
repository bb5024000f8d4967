------------------------------ MODULE AdminForm ------------------------------
(***************************************************************************)
(* The change form of work_items/admin.py beside the analysis engine.  The *)
(* form shows the result and the error of an item and lets both be typed   *)
(* over.  When it is submitted, the row is read, what was submitted is put *)
(* over its editable columns, and save() writes every column, with nothing *)
(* to compare.  status, version and attempt_count are read-only in the     *)
(* form and are written back all the same, as they were when the row was   *)
(* read.                                                                   *)
(*                                                                         *)
(* The external id and the texts, editable too, are not in this module,    *)
(* and nothing is deleted here: Deletable is empty.                        *)
(***************************************************************************)
EXTENDS Analysis

CONSTANTS
  Administrators,  \* open change forms
  MaxSaves         \* bound on the number of saves, for TLC

ASSUME AdministratorsAssumption == Deletable = {} /\ MaxSaves \in Nat

VARIABLES
  form,    \* form[a]: what administrator a's form shows, and what save() will write
  source,  \* source[i]: whether a call or an administrator's hand filled the result columns
  saves    \* how many forms were saved

formVars == <<row, attempts, transitions, req, todo, form, source, saves>>

Closed == [pc |-> "closed", item |-> NoItem, analysis |-> 0, source |-> "call",
           row |-> NoRow]

\* The form is rendered.
FormOpen(a, i) ==
  /\ form[a].pc = "closed"
  /\ saves < MaxSaves
  /\ form' = [form EXCEPT ![a] =
       [Closed EXCEPT !.pc = "open", !.item = i, !.analysis = row[i].analysis,
                      !.source = source[i]]]
  /\ UNCHANGED <<vars, source, saves>>

\* What can stand in the result columns when the form f is submitted: what it showed,
\* too little to pass for a result, or a result typed in.  Of that one, the number says
\* only that the columns are filled.
Submitted(f) == {[analysis |-> f.analysis, source |-> f.source],
                 [analysis |-> 0, source |-> "call"], [analysis |-> 1, source |-> "hand"]}

\* It is submitted: get_object reads the row and construct_instance fills it in, with any
\* error too.
FormLoad(a) ==
  LET f == form[a]
  IN  /\ f.pc = "open"
      /\ \E result \in Submitted(f), error \in Errors :
           form' = [form EXCEPT ![a] =
             [f EXCEPT !.pc = "loaded", !.analysis = result.analysis,
                       !.source = result.source,
                       !.row = [row[f.item] EXCEPT !.analysis = result.analysis,
                                                   !.last_error_code = error]]]
      /\ UNCHANGED <<vars, source, saves>>

\* Mutant of Acceptable: the CHECK constraint is not there.
AcceptableAnyway(r) == TRUE

\* work_item_reviewable_has_analysis.
Acceptable(r) == r.status \in {"READY_FOR_REVIEW", "COMPLETED"} => r.analysis # 0

\* save(): an UPDATE of every column, by primary key.
FormSave(a) ==
  /\ form[a].pc = "loaded"
  /\ saves < MaxSaves
  /\ Acceptable(form[a].row)
  /\ row' = [row EXCEPT ![form[a].item] = form[a].row]
  /\ source' = [source EXCEPT ![form[a].item] = form[a].source]
  /\ form' = [form EXCEPT ![a] = Closed]
  /\ saves' = saves + 1
  /\ UNCHANGED <<attempts, transitions, req, todo>>

\* The database refuses the row, or the administrator leaves the form.
FormDropped(a) ==
  /\ \/ form[a].pc = "open"
     \/ form[a].pc = "loaded" /\ ~Acceptable(form[a].row)
  /\ form' = [form EXCEPT ![a] = Closed]
  /\ UNCHANGED <<vars, source, saves>>

\* analysis_started_at is a point in time: in a row that is held it grows old too.
FormTick ==
  /\ Tick
  /\ form' = [a \in Administrators |->
       IF form[a].row.status = "ANALYSING" THEN [form[a] EXCEPT !.row.age = Older(@)]
                                           ELSE form[a]]
  /\ UNCHANGED <<source, saves>>

\* What a step of the engine leaves of this module: _record_success, which alone moves an
\* item to READY_FOR_REVIEW, writes every result column.
Alongside ==
  /\ source' = [i \in Items |->
       IF row[i].status # "READY_FOR_REVIEW" /\ row'[i].status = "READY_FOR_REVIEW"
         THEN "call" ELSE source[i]]
  /\ UNCHANGED <<form, saves>>

FormInit ==
  /\ Init
  /\ form = [a \in Administrators |-> Closed]
  /\ source = [i \in Items |-> "call"]
  /\ saves = 0

FormNext ==
  \/ \E a \in Administrators :
       \/ \E i \in Items : FormOpen(a, i)
       \/ FormLoad(a) \/ FormSave(a) \/ FormDropped(a)
  \/ /\ \/ \E w \in Workers : Arrive(w) \/ Continue(w) \/ Crash(w)
        \/ \E r \in Reapers : ReapQuery(r) \/ ReapLoop(r) \/ ReaperCrash(r)
     /\ Alongside
  \/ FormTick

FormSpec == FormInit /\ [][FormNext]_formVars

\* The periodic reaper, as in Analysis.
FormReaperSpec ==
  /\ FormSpec
  /\ WF_formVars(FormTick)
  /\ \A r \in Reapers :
       /\ WF_formVars(ReapQuery(r) /\ Alongside)
       /\ SF_formVars(ReapLoop(r) /\ Alongside)

-----------------------------------------------------------------------------
(* Properties, besides CallsInFlightBounded and NoItemStranded of Analysis.*)

\* What a form can hold.
Form == [pc : {"closed", "open", "loaded"}, item : Items \cup {NoItem}, analysis : Nat,
         source : {"call", "hand"}, row : WorkItem]

\* Every variable has its type.
FormTypeOK ==
  /\ TypeOK
  /\ form \in [Administrators -> Form]
  /\ source \in [Items -> {"call", "hand"}]
  /\ saves \in 0 .. MaxSaves

\* Whatever forms overwrite, and whatever is typed into them: what is up for review or
\* completed has a result (the CHECK constraint: "even if a service is buggy") and a call
\* recorded as SUCCEEDED behind it, since no form can move an item on; and a result that
\* nobody typed in is that of such a call, although a save may bring back an older one.
ReviewedResultIsRecorded ==
  \A i \in Items :
    LET k == row[i].analysis
        succeeded == {n \in DOMAIN attempts[i] : attempts[i][n].outcome = "SUCCEEDED"}
    IN  /\ row[i].status \in {"READY_FOR_REVIEW", "COMPLETED"} => k # 0 /\ succeeded # {}
        /\ k # 0 /\ source[i] = "call" => k \in succeeded

\* admin.py: "status changes must go through the workflow service, never through an
\* admin form": a status that changes leaves a row in the audit trail.
StatusChangesAreAudited ==
  [][\A i \in Items : row'[i].status # row[i].status =>
       Len(transitions'[i]) = Len(transitions[i]) + 1]_formVars

=============================================================================
