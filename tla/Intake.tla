------------------------------- MODULE Intake -------------------------------
(***************************************************************************)
(* Idempotent intake: POST /work-items and create_or_get_work_item in      *)
(* work_items/services/intake.py.  The source system may deliver a         *)
(* submission any number of times and several at once; Django's            *)
(* get_or_create looks the external id up, inserts if it is missing, and   *)
(* looks it up again if the unique constraint refused the insert.  Each of *)
(* the three is a statement of its own, and anything can happen between.   *)
(***************************************************************************)
EXTENDS Naturals

CONSTANTS
  Ids,          \* the UUIDs there are to draw from (their number bounds the inserts)
  NoId,         \* the id in an answer that names no item
  Nothing,      \* no submission, no row
  Raw,          \* texts as they arrive
  strip,        \* str.strip, as a function on Raw
  Submissions,  \* the submissions the source system sends, past the serializer
  Workers,      \* concurrent requests
  Deletable,    \* ids whose item an administrator may delete
  Edits         \* what an administrator may type into the change form

ASSUME IdsAssumption == NoId \notin Ids /\ Deletable \subseteq Ids
ASSUME StripAssumption ==
  strip \in [Raw -> Raw] /\ \A r \in Raw : strip[strip[r]] = strip[r]
ASSUME SubmissionsAssumption ==
  Submissions \subseteq [external_id : Raw, title : Raw, description : Raw]
ASSUME EditsAssumption ==
  Edits \subseteq [external_id : Raw, title : Raw, description : Raw]

VARIABLES
  row,      \* row[i]: the work_item row with primary key i
  req,      \* req[w]: where request w is in get_or_create, and its submission
  answers,  \* every answer given so far, whether or not it arrived
  freed     \* history: the external ids that an administrator took from an item

vars == <<row, req, answers, freed>>

\* Mutant of content_hash_for: the description is left out of the hash.
content_hash_for_title(title, description) == [title |-> title]

\* content_hash_for: sha256, taken to be without collisions, of both stripped texts.
content_hash_for(title, description) ==
  [title |-> strip[title], description |-> strip[description]]

\* Mutant of WorkItemOf: the external id is stored as it arrived.
WorkItemOfUnstripped(s) ==
  [external_id |-> s.external_id, title |-> strip[s.title],
   description |-> strip[s.description],
   content_hash |-> content_hash_for(s.title, s.description),
   live |-> TRUE, edited |-> FALSE]

\* The row a submission becomes.
WorkItemOf(s) ==
  [external_id |-> strip[s.external_id], title |-> strip[s.title],
   description |-> strip[s.description],
   content_hash |-> content_hash_for(s.title, s.description),
   live |-> TRUE, edited |-> FALSE]

\* The rows there can be; `live` is FALSE once the row is deleted, `edited` TRUE once
\* an administrator's form was saved over it.
WorkItem == [external_id : Raw, title : Raw, description : Raw,
             content_hash : [title : Raw, description : Raw],
             live : BOOLEAN, edited : BOOLEAN]

Stored(i) == row[i] # Nothing /\ row[i].live

ASSUME NothingAssumption == Nothing \notin WorkItem \cup Submissions

\* WorkItem.objects.get(external_id=...), as a set of ids.
Lookup(s) == {i \in Ids : Stored(i) /\ row[i].external_id = strip[s.external_id]}

\* How the submission compares with the item it found: a replay or a conflict.
IsReplay(s, i) == row[i].content_hash = content_hash_for(s.title, s.description)

Idle == [pc |-> "idle", submission |-> Nothing]

Answer(w, s, code, i) ==
  /\ answers' = answers \cup {[submission |-> s, code |-> code, id |-> i]}
  /\ req' = [req EXCEPT ![w] = Idle]

-----------------------------------------------------------------------------

\* 200 for a replay; DuplicateConflict, 409, for different content.
AnswerExisting(w, s) ==
  \E i \in Lookup(s) : Answer(w, s, IF IsReplay(s, i) THEN 200 ELSE 409, i)

\* A submission arrives and get() finds its external id.
Find(w, s) ==
  /\ req[w].pc = "idle"
  /\ AnswerExisting(w, s)
  /\ UNCHANGED <<row, freed>>

\* get() raises DoesNotExist; the insert comes later.
Miss(w, s) ==
  /\ req[w].pc = "idle"
  /\ Lookup(s) = {}
  /\ req' = [req EXCEPT ![w] = [pc |-> "create", submission |-> s]]
  /\ UNCHANGED <<row, answers, freed>>

\* Mutant of Insertable: no unique constraint on external_id.
InsertableAnyway(s) == TRUE

\* uniq_work_item_external_id lets the row in.
Insertable(s) == Lookup(s) = {}

\* create(): the insert commits, with a new UUID.
Create(w) ==
  LET s == req[w].submission
  IN  /\ req[w].pc = "create"
      /\ Insertable(s)
      /\ \E i \in Ids : /\ row[i] = Nothing
                        /\ row' = [row EXCEPT ![i] = WorkItemOf(s)]
                        /\ Answer(w, s, 201, i)
      /\ UNCHANGED freed

\* create() raises IntegrityError: somebody else's insert was first.
CreateRefused(w) ==
  /\ req[w].pc = "create"
  /\ ~Insertable(req[w].submission)
  /\ req' = [req EXCEPT ![w].pc = "get again"]
  /\ UNCHANGED <<row, answers, freed>>

\* Mutant of FindAgain: the row that was first is taken for a replay unseen.
FindAgainUnchecked(w) ==
  /\ req[w].pc = "get again"
  /\ \E i \in Lookup(req[w].submission) : Answer(w, req[w].submission, 200, i)
  /\ UNCHANGED <<row, freed>>

\* The second get() finds the row that was first.
FindAgain(w) ==
  /\ req[w].pc = "get again"
  /\ AnswerExisting(w, req[w].submission)
  /\ UNCHANGED <<row, freed>>

\* It is gone again: get_or_create re-raises the IntegrityError, and the client
\* gets INTERNAL_ERROR.
MissAgain(w) ==
  /\ req[w].pc = "get again"
  /\ Lookup(req[w].submission) = {}
  /\ Answer(w, req[w].submission, 500, NoId)
  /\ UNCHANGED <<row, freed>>

\* The process dies between two statements.  An answer lost after the last one needs
\* no action: the source system sends the submission again, as it may at any time.
Crash(w) ==
  /\ req[w].pc # "idle"
  /\ req' = [req EXCEPT ![w] = Idle]
  /\ UNCHANGED <<row, answers, freed>>

\* An administrator deletes an item.
AdminDelete(i) ==
  /\ i \in Deletable
  /\ Stored(i)
  /\ row' = [row EXCEPT ![i].live = FALSE]
  /\ freed' = freed \cup {row[i].external_id}
  /\ UNCHANGED <<req, answers>>

\* The form's check of uniqueness, and the constraint behind it.
Renamable(i, e) ==
  \A j \in Ids \ {i} : Stored(j) => row[j].external_id # strip[e.external_id]

\* Mutant of Edited: content_hash follows the texts.
EditedRehashed(r, e) ==
  [r EXCEPT !.external_id = strip[e.external_id], !.title = strip[e.title],
            !.description = strip[e.description],
            !.content_hash = content_hash_for(e.title, e.description), !.edited = TRUE]

\* What is typed is stripped and stored; content_hash is read-only in the form.
Edited(r, e) ==
  [r EXCEPT !.external_id = strip[e.external_id], !.title = strip[e.title],
            !.description = strip[e.description], !.edited = TRUE]

\* An administrator saves the change form, with other texts or another external id.
AdminEdit(i, e) ==
  /\ Stored(i)
  /\ Renamable(i, e)
  /\ row' = [row EXCEPT ![i] = Edited(row[i], e)]
  /\ freed' = freed \cup ({row[i].external_id} \ {strip[e.external_id]})
  /\ UNCHANGED <<req, answers>>

Init ==
  /\ row = [i \in Ids |-> Nothing]
  /\ req = [w \in Workers |-> Idle]
  /\ answers = {}
  /\ freed = {}

Next ==
  \/ \E w \in Workers :
       \/ \E s \in Submissions : Find(w, s) \/ Miss(w, s)
       \/ Create(w) \/ CreateRefused(w) \/ FindAgain(w) \/ MissAgain(w)
       \/ Crash(w)
  \/ \E i \in Ids : AdminDelete(i) \/ \E e \in Edits : AdminEdit(i, e)

Spec == Init /\ [][Next]_vars

-----------------------------------------------------------------------------
(* Properties.                                                             *)

\* Every variable has its type.
TypeOK ==
  /\ row \in [Ids -> WorkItem \cup {Nothing}]
  /\ req \in [Workers -> {Idle} \cup
                [pc : {"create", "get again"}, submission : Submissions]]
  /\ answers \subseteq [submission : Submissions, code : {200, 201, 409, 500},
                        id : Ids \cup {NoId}]
  /\ freed \subseteq Raw

\* However many submissions race, an external id has one item (get_or_create and the
\* unique constraint).
OneItemPerExternalId ==
  \A i, j \in Ids :
    Stored(i) /\ Stored(j) /\ row[i].external_id = row[j].external_id => i = j

\* The contract each answer states is kept: 201 and 200 name an item that was taken in
\* with just what was submitted, 409 one that was taken in with something else.  The item
\* holds the submitted texts until an administrator edits it (README.md:312 says that they
\* never change), and the external id until an administrator takes it away.  So a client
\* that never saw an answer can send the submission again, after an edit too.
AnswersAreTruthful ==
  \A a \in answers : a.code # 500 =>
    LET key == strip[a.submission.external_id]
        accepted == a.code \in {200, 201}
    IN  /\ a.id \in Ids /\ row[a.id] # Nothing
        /\ \/ row[a.id].external_id = key
           \/ row[a.id].edited /\ key \in freed
        /\ accepted <=> row[a.id].content_hash =
                          content_hash_for(a.submission.title, a.submission.description)
        /\ accepted /\ ~row[a.id].edited =>
             /\ row[a.id].title = strip[a.submission.title]
             /\ row[a.id].description = strip[a.submission.description]

\* Accepted submissions of one external id are answered with one item, however they race
\* and whatever is edited, as long as no administrator takes the external id from an item,
\* by deleting the item or by giving it another.
SameItemForEveryReplay ==
  \A a, b \in answers :
    /\ a.code \in {200, 201} /\ b.code \in {200, 201}
    /\ strip[a.submission.external_id] = strip[b.submission.external_id]
    => a.id = b.id \/ strip[a.submission.external_id] \in freed

-----------------------------------------------------------------------------
(* Refinement.                                                             *)

\* What the item was taken in with, under the external id it has now: content_hash
\* remembers the texts.
Kept(i) == [id |-> i, external_id |-> row[i].external_id,
            title |-> row[i].content_hash.title,
            description |-> row[i].content_hash.description]

C == INSTANCE IntakeContract WITH
       stored  <- {Kept(i) : i \in {j \in Ids : Stored(j)}},
       removed <- {i \in Ids : row[i] # Nothing /\ ~row[i].live},
       lost    <- freed,
       answers <- answers

\* Three statements that anything may come between behave as one.
ImplementsContract == C!Spec

=============================================================================
