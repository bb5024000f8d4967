---------------------------- MODULE IntakeProofs ----------------------------
(***************************************************************************)
(* Proofs about Intake: one item per external id, truthful answers, and    *)
(* that get_or_create's three statements implement the atomic contract.    *)
(***************************************************************************)
EXTENDS Intake, TLAPS

\* The stored hash is the hash of the stored texts, until somebody edits them.
HashFits ==
  \A i \in Ids : row[i] # Nothing /\ ~row[i].edited =>
    row[i].content_hash = [title |-> row[i].title, description |-> row[i].description]

\* A deleted item has given its external id up.
DeletedIsFreed ==
  \A i \in Ids : row[i] # Nothing /\ ~row[i].live => row[i].external_id \in freed

\* A request whose insert was refused was refused by a row that has the external id, or
\* that has lost it since.
RefusedByARow ==
  \A w \in Workers : req[w].pc = "get again" =>
    LET key == strip[req[w].submission.external_id]
    IN  key \in freed \/ \E i \in Ids : Stored(i) /\ row[i].external_id = key

IInv ==
  /\ TypeOK
  /\ HashFits
  /\ DeletedIsFreed
  /\ OneItemPerExternalId
  /\ AnswersAreTruthful
  /\ RefusedByARow

-----------------------------------------------------------------------------

\* strip maps every text of a submission to a text.
LEMMA StripTyped ==
  ASSUME NEW s \in Submissions
  PROVE  /\ s.external_id \in Raw /\ s.title \in Raw /\ s.description \in Raw
         /\ strip[s.external_id] \in Raw /\ strip[s.title] \in Raw
         /\ strip[s.description] \in Raw
  BY SubmissionsAssumption, StripAssumption

\* The row a submission becomes is a live row with its key and its texts.
LEMMA WorkItemOfTyped ==
  ASSUME NEW s \in Submissions
  PROVE  /\ WorkItemOf(s) \in WorkItem /\ WorkItemOf(s) # Nothing
         /\ WorkItemOf(s).live /\ ~WorkItemOf(s).edited
         /\ WorkItemOf(s).external_id = strip[s.external_id]
         /\ WorkItemOf(s).title = strip[s.title]
         /\ WorkItemOf(s).description = strip[s.description]
         /\ WorkItemOf(s).content_hash =
              [title |-> strip[s.title], description |-> strip[s.description]]
<1>1. WorkItemOf(s) \in WorkItem
  BY StripTyped DEF WorkItemOf, WorkItem, content_hash_for
<1>2. WorkItemOf(s) # Nothing
  BY <1>1, NothingAssumption
<1> QED
  BY <1>1, <1>2 DEF WorkItemOf, content_hash_for

\* A replay is a submission with the texts the stored row was taken in with.
LEMMA ReplayMeansSameTexts ==
  ASSUME TypeOK, NEW i \in Ids, row[i] # Nothing, NEW s \in Submissions
  PROVE  IsReplay(s, i) <=> /\ row[i].content_hash.title = strip[s.title]
                            /\ row[i].content_hash.description = strip[s.description]
<1>1. row[i].content_hash \in [title : Raw, description : Raw]
  BY DEF TypeOK, WorkItem
<1> DEFINE b == [title |-> strip[s.title], description |-> strip[s.description]]
<1>2. \A a \in [title : Raw, description : Raw] :
        a = b <=> a.title = b.title /\ a.description = b.description
  OBVIOUS
<1> QED
  BY <1>1, <1>2 DEF IsReplay, content_hash_for

\* As long as nobody edited it, the row then has these texts.
LEMMA ReplayFindsSameTexts ==
  ASSUME HashFits, NEW i \in Ids, row[i] # Nothing, ~row[i].edited,
         NEW s \in Submissions, IsReplay(s, i)
  PROVE  row[i].title = strip[s.title] /\ row[i].description = strip[s.description]
<1> DEFINE a == [title |-> row[i].title, description |-> row[i].description]
           b == [title |-> strip[s.title], description |-> strip[s.description]]
<1>1. a = b
  BY DEF HashFits, IsReplay, content_hash_for
<1>2. a.title = b.title /\ a.description = b.description
  BY <1>1
<1> QED
  BY <1>2

\* A request in get_or_create holds a submission.
LEMMA BusyHoldsSubmission ==
  ASSUME TypeOK, NEW w \in Workers, req[w].pc # "idle"
  PROVE  /\ req[w] \in [pc : {"create", "get again"}, submission : Submissions]
         /\ req[w].submission \in Submissions
<1>1. req[w] \in {Idle} \cup [pc : {"create", "get again"}, submission : Submissions]
  BY DEF TypeOK
<1>2. req[w] # Idle
  BY DEF Idle
<1>3. req[w] \in [pc : {"create", "get again"}, submission : Submissions]
  BY <1>1, <1>2
<1> QED
  BY <1>3

\* The steps that only answer an existing row keep the invariant.
LEMMA AnswerExistingKeeps ==
  ASSUME IInv, NEW w \in Workers, NEW s \in Submissions, AnswerExisting(w, s), row' = row,
         freed' = freed
  PROVE  IInv'
<1> USE DEF IInv
<1>1. PICK i \in Lookup(s) : Answer(w, s, IF IsReplay(s, i) THEN 200 ELSE 409, i)
  BY DEF AnswerExisting
<1>2. i \in Ids /\ row[i] # Nothing /\ row[i].external_id = strip[s.external_id]
  BY <1>1 DEF Lookup, Stored
<1> DEFINE code == IF IsReplay(s, i) THEN 200 ELSE 409
           a == [submission |-> s, code |-> code, id |-> i]
<1>3. answers' = answers \cup {a} /\ req' = [req EXCEPT ![w] = Idle]
  BY <1>1 DEF Answer
<1>4. code \in {200, 409} /\ (code = 200 <=> IsReplay(s, i))
  OBVIOUS
<1>5. TypeOK'
  <2> DEFINE Answers == [submission : Submissions, code : {200, 201, 409, 500},
                         id : Ids \cup {NoId}]
  <2>1. a \in Answers /\ answers \subseteq Answers
    BY <1>2, <1>4 DEF TypeOK
  <2>2. answers' \subseteq Answers
    <3> HIDE DEF a, code, Answers
    <3> QED
      BY <1>3, <2>1
  <2>3. req' \in [Workers -> {Idle} \cup
                    [pc : {"create", "get again"}, submission : Submissions]]
    BY <1>3 DEF TypeOK
  <2> QED
    BY <2>2, <2>3 DEF TypeOK
<1>6. HashFits' /\ DeletedIsFreed' /\ OneItemPerExternalId'
  BY DEF HashFits, DeletedIsFreed, OneItemPerExternalId, Stored
<1>7. AnswersAreTruthful'
  <2>1. IsReplay(s, i) /\ ~row[i].edited =>
          row[i].title = strip[s.title] /\ row[i].description = strip[s.description]
    BY <1>2, ReplayFindsSameTexts
  <2>2. a.submission = s /\ a.code = code /\ a.id = i
    OBVIOUS
  <2>3. IsReplay(s, i) <=> row[i].content_hash = content_hash_for(s.title, s.description)
    BY DEF IsReplay
  <2> HIDE DEF code, a
  <2> QED
    BY <1>2, <1>3, <1>4, <2>1, <2>2, <2>3 DEF AnswersAreTruthful
<1>8. RefusedByARow'
  BY <1>3 DEF RefusedByARow, TypeOK, Idle, Stored
<1> QED
  BY <1>5, <1>6, <1>7, <1>8

\* An insert keeps the invariant: the unique constraint saw no row with the key.
LEMMA CreateKeeps ==
  ASSUME IInv, NEW w \in Workers, Create(w)
  PROVE  IInv'
<1> USE DEF IInv
<1> DEFINE s == req[w].submission
<1>1. s \in Submissions
  BY BusyHoldsSubmission DEF Create
<1>2. PICK i \in Ids : /\ row[i] = Nothing
                       /\ row' = [row EXCEPT ![i] = WorkItemOf(s)]
                       /\ Answer(w, s, 201, i)
  BY DEF Create
<1> DEFINE a == [submission |-> s, code |-> 201, id |-> i]
<1>3. answers' = answers \cup {a} /\ req' = [req EXCEPT ![w] = Idle] /\ freed' = freed
  BY <1>2 DEF Answer, Create
<1>4. a.submission = s /\ a.code = 201 /\ a.id = i
  OBVIOUS
<1>5. /\ WorkItemOf(s) \in WorkItem /\ WorkItemOf(s) # Nothing
      /\ WorkItemOf(s).external_id = strip[s.external_id] /\ WorkItemOf(s).live
      /\ WorkItemOf(s).title = strip[s.title]
      /\ WorkItemOf(s).description = strip[s.description]
      /\ WorkItemOf(s).content_hash =
           [title |-> strip[s.title], description |-> strip[s.description]]
      /\ WorkItemOf(s).content_hash = content_hash_for(s.title, s.description)
  BY <1>1, WorkItemOfTyped DEF content_hash_for
<1>6. Lookup(s) = {}
  BY DEF Create, Insertable
<1>7. row'[i] = WorkItemOf(s) /\ \A j \in Ids \ {i} : row'[j] = row[j]
  BY <1>2 DEF TypeOK
<1>8. TypeOK'
  <2> DEFINE Answers == [submission : Submissions, code : {200, 201, 409, 500},
                         id : Ids \cup {NoId}]
  <2>1. a \in Answers /\ answers \subseteq Answers
    BY <1>1 DEF TypeOK
  <2>2. answers' \subseteq Answers
    <3> HIDE DEF a, s, Answers
    <3> QED
      BY <1>3, <2>1
  <2>3. req' \in [Workers -> {Idle} \cup
                    [pc : {"create", "get again"}, submission : Submissions]]
    BY <1>3 DEF TypeOK
  <2>4. row' \in [Ids -> WorkItem \cup {Nothing}]
    BY <1>2, <1>5 DEF TypeOK
  <2> QED
    BY <1>3, <2>2, <2>3, <2>4 DEF TypeOK
<1> HIDE DEF a, s
<1>9. HashFits' /\ DeletedIsFreed'
  BY <1>3, <1>5, <1>7 DEF HashFits, DeletedIsFreed
<1>10. OneItemPerExternalId'
  BY <1>5, <1>6, <1>7 DEF OneItemPerExternalId, Lookup, Stored
<1>11. AnswersAreTruthful'
  <2>1. \A b \in answers : b.code # 500 => b.id # i
    BY <1>2 DEF AnswersAreTruthful
  <2> QED
    BY <1>3, <1>4, <1>5, <1>7, <2>1 DEF AnswersAreTruthful
<1>12. RefusedByARow'
  <2> SUFFICES ASSUME NEW v \in Workers, req'[v].pc = "get again",
                      strip[req'[v].submission.external_id] \notin freed'
               PROVE  \E j \in Ids : /\ Stored(j)'
                                     /\ row'[j].external_id =
                                          strip[req'[v].submission.external_id]
    BY DEF RefusedByARow
  <2>1. v # w /\ req'[v] = req[v]
    BY <1>3 DEF TypeOK, Idle
  <2>2. req[v].pc = "get again" /\ strip[req[v].submission.external_id] \notin freed
    <3>1. freed' = freed
      BY <1>3
    <3> QED
      BY <2>1, <3>1
  <2>3. PICK j \in Ids : /\ Stored(j)
                         /\ row[j].external_id = strip[req[v].submission.external_id]
    BY <2>2 DEF RefusedByARow
  <2>4. j # i
    BY <1>2, <2>3 DEF Stored
  <2> QED
    BY <1>7, <2>1, <2>3, <2>4 DEF Stored
<1> QED
  BY <1>8, <1>9, <1>10, <1>11, <1>12

\* Giving up, with the constraint's error, keeps the invariant.
LEMMA MissAgainKeeps ==
  ASSUME IInv, NEW w \in Workers, MissAgain(w)
  PROVE  IInv'
<1> USE DEF IInv
<1> DEFINE s == req[w].submission
           a == [submission |-> s, code |-> 500, id |-> NoId]
<1>1. s \in Submissions
  BY BusyHoldsSubmission DEF MissAgain
<1>2. /\ answers' = answers \cup {a} /\ req' = [req EXCEPT ![w] = Idle]
      /\ row' = row /\ freed' = freed
  BY DEF MissAgain, Answer
<1>3. a.submission = s /\ a.code = 500
  OBVIOUS
<1>4. TypeOK'
  <2> DEFINE Answers == [submission : Submissions, code : {200, 201, 409, 500},
                         id : Ids \cup {NoId}]
  <2>1. a \in Answers /\ answers \subseteq Answers
    BY <1>1 DEF TypeOK
  <2>2. answers' \subseteq Answers
    <3> HIDE DEF a, s, Answers
    <3> QED
      BY <1>2, <2>1
  <2>3. req' \in [Workers -> {Idle} \cup
                    [pc : {"create", "get again"}, submission : Submissions]]
    BY <1>2 DEF TypeOK
  <2> QED
    BY <1>2, <2>2, <2>3 DEF TypeOK
<1> HIDE DEF a, s
<1>5. HashFits' /\ DeletedIsFreed' /\ OneItemPerExternalId'
  BY <1>2 DEF HashFits, DeletedIsFreed, OneItemPerExternalId, Stored
<1>6. AnswersAreTruthful'
  BY <1>2, <1>3 DEF AnswersAreTruthful
<1>7. RefusedByARow'
  BY <1>2 DEF RefusedByARow, TypeOK, Idle, Stored
<1> QED
  BY <1>4, <1>5, <1>6, <1>7

\* The other steps of a request give no answer and touch no row.
LEMMA SilentStepKeeps ==
  ASSUME IInv, NEW w \in Workers,
         (\E s \in Submissions : Miss(w, s)) \/ CreateRefused(w) \/ Crash(w)
  PROVE  IInv'
<1> USE DEF IInv
<1>1. row' = row /\ answers' = answers /\ freed' = freed
  BY DEF Miss, CreateRefused, Crash
<1>2. HashFits' /\ DeletedIsFreed' /\ OneItemPerExternalId' /\ AnswersAreTruthful'
  BY <1>1 DEF HashFits, DeletedIsFreed, OneItemPerExternalId, AnswersAreTruthful, Stored
<1>3. CASE \E s \in Submissions : Miss(w, s)
  <2>1. PICK s \in Submissions : req' = [req EXCEPT ![w] = [pc |-> "create", submission |-> s]]
    BY <1>3 DEF Miss
  <2>2. TypeOK'
    BY <1>1, <2>1 DEF TypeOK
  <2>3. RefusedByARow'
    BY <1>1, <2>1 DEF RefusedByARow, TypeOK, Stored
  <2> QED
    BY <1>2, <2>2, <2>3
<1>4. CASE CreateRefused(w)
  <2>1. req[w].submission \in Submissions
    BY <1>4, BusyHoldsSubmission DEF CreateRefused
  <2>2. req[w] \in [pc : {"create", "get again"}, submission : Submissions]
    BY <1>4, BusyHoldsSubmission DEF CreateRefused
  <2>3. /\ req' = [req EXCEPT ![w].pc = "get again"]
        /\ req'[w] \in [pc : {"create", "get again"}, submission : Submissions]
        /\ req'[w].submission = req[w].submission
        /\ \A v \in Workers \ {w} : req'[v] = req[v]
    BY <1>4, <2>2 DEF CreateRefused, TypeOK
  <2>4. TypeOK'
    BY <1>1, <2>3 DEF TypeOK
  <2>5. \E i \in Ids : /\ Stored(i)
                       /\ row[i].external_id = strip[req[w].submission.external_id]
    BY <1>4 DEF CreateRefused, Insertable, Lookup
  <2>6. RefusedByARow'
    <3> SUFFICES ASSUME NEW v \in Workers, req'[v].pc = "get again",
                        strip[req'[v].submission.external_id] \notin freed
                 PROVE  \E i \in Ids : /\ Stored(i)
                                       /\ row[i].external_id =
                                            strip[req'[v].submission.external_id]
      BY <1>1 DEF RefusedByARow, Stored
    <3>1. CASE v = w
      BY <2>3, <2>5, <3>1
    <3>2. CASE v # w
      BY <2>3, <3>2 DEF RefusedByARow
    <3> QED
      BY <3>1, <3>2
  <2> QED
    BY <1>2, <2>4, <2>6
<1>5. CASE Crash(w)
  <2>1. req' = [req EXCEPT ![w] = Idle]
    BY <1>5 DEF Crash
  <2> QED
    BY <1>1, <1>2, <2>1 DEF TypeOK, RefusedByARow, Idle, Stored
<1> QED
  BY <1>3, <1>4, <1>5

\* A deletion keeps the row as a record of what was there.
LEMMA AdminDeleteKeeps ==
  ASSUME IInv, NEW i \in Ids, AdminDelete(i)
  PROVE  IInv'
<1> USE DEF IInv
<1>1. row[i] \in WorkItem
  BY DEF AdminDelete, Stored, TypeOK
<1>2. /\ row' = [row EXCEPT ![i] = [row[i] EXCEPT !.live = FALSE]]
      /\ req' = req /\ answers' = answers /\ freed' = freed \cup {row[i].external_id}
  BY DEF AdminDelete
<1>3. /\ row'[i] \in WorkItem
      /\ row'[i].external_id = row[i].external_id /\ row'[i].title = row[i].title
      /\ row'[i].description = row[i].description
      /\ row'[i].content_hash = row[i].content_hash
      /\ row'[i].edited = row[i].edited
      /\ ~row'[i].live
      /\ \A j \in Ids \ {i} : row'[j] = row[j]
  <2> DEFINE r == [row[i] EXCEPT !.live = FALSE]
  <2>1. /\ r \in WorkItem
        /\ r.external_id = row[i].external_id /\ r.title = row[i].title
        /\ r.description = row[i].description /\ r.content_hash = row[i].content_hash
        /\ r.edited = row[i].edited /\ ~r.live
    BY <1>1 DEF WorkItem
  <2> HIDE DEF r
  <2>2. row'[i] = r /\ \A j \in Ids \ {i} : row'[j] = row[j]
    BY <1>2 DEF TypeOK, r
  <2> QED
    BY <2>1, <2>2
<1>4. row[i] # Nothing /\ row'[i] # Nothing
  BY <1>1, <1>3, NothingAssumption
<1>5. TypeOK'
  <2>1. row[i].external_id \in Raw
    BY <1>1 DEF WorkItem
  <2> QED
    BY <1>2, <1>3, <2>1 DEF TypeOK
<1>6. HashFits' /\ DeletedIsFreed'
  BY <1>2, <1>3, <1>4 DEF HashFits, DeletedIsFreed
<1>7. OneItemPerExternalId'
  BY <1>3 DEF OneItemPerExternalId, Stored
<1>8. AnswersAreTruthful'
  BY <1>2, <1>3, <1>4 DEF AnswersAreTruthful
<1>9. RefusedByARow'
  <2> SUFFICES ASSUME NEW v \in Workers, req[v].pc = "get again",
                      strip[req[v].submission.external_id] \notin freed'
               PROVE  \E j \in Ids : /\ Stored(j)'
                                     /\ row'[j].external_id =
                                          strip[req[v].submission.external_id]
    BY <1>2 DEF RefusedByARow
  <2>1. PICK j \in Ids : /\ Stored(j)
                         /\ row[j].external_id = strip[req[v].submission.external_id]
    BY <1>2 DEF RefusedByARow
  <2>2. j # i
    BY <1>2, <2>1
  <2> QED
    BY <1>3, <2>1, <2>2 DEF Stored
<1> QED
  BY <1>5, <1>6, <1>7, <1>8, <1>9

\* What an edit does to the rows.
LEMMA AdminEditWrites ==
  ASSUME TypeOK, NEW i \in Ids, NEW e \in Edits, AdminEdit(i, e)
  PROVE  /\ row[i] \in WorkItem /\ row[i] # Nothing /\ row[i].external_id \in Raw
         /\ row'[i] \in WorkItem /\ row'[i] # Nothing
         /\ row'[i].external_id = strip[e.external_id] /\ strip[e.external_id] \in Raw
         /\ row'[i].content_hash = row[i].content_hash
         /\ row[i].live /\ row'[i].live /\ row'[i].edited
         /\ \A j \in Ids \ {i} : row'[j] = row[j]
         /\ row' \in [Ids -> WorkItem \cup {Nothing}]
<1>1. row[i] \in WorkItem /\ row[i].live
  BY DEF AdminEdit, Stored, TypeOK
<1>2. /\ strip[e.title] \in Raw /\ strip[e.description] \in Raw
      /\ strip[e.external_id] \in Raw
  BY EditsAssumption, StripAssumption
<1> DEFINE r == Edited(row[i], e)
<1>3. /\ r \in WorkItem /\ r.external_id = strip[e.external_id]
      /\ r.content_hash = row[i].content_hash /\ r.live = row[i].live /\ r.edited
  BY <1>1, <1>2 DEF WorkItem, Edited
<1>4. row' = [row EXCEPT ![i] = r]
  BY DEF AdminEdit
<1>5. row[i].external_id \in Raw
  BY <1>1 DEF WorkItem
<1> HIDE DEF r
<1>6. row'[i] = r /\ \A j \in Ids \ {i} : row'[j] = row[j]
  BY <1>4 DEF TypeOK
<1>7. row' \in [Ids -> WorkItem \cup {Nothing}]
  BY <1>3, <1>4 DEF TypeOK
<1> QED
  BY <1>1, <1>2, <1>3, <1>5, <1>6, <1>7, NothingAssumption

\* An edit leaves the hash alone, and an external id that it takes away is on record.
LEMMA AdminEditKeeps ==
  ASSUME IInv, NEW i \in Ids, NEW e \in Edits, AdminEdit(i, e)
  PROVE  IInv'
<1> USE DEF IInv
<1>1. /\ req' = req /\ answers' = answers
      /\ freed' = freed \cup ({row[i].external_id} \ {strip[e.external_id]})
  BY DEF AdminEdit
<1>0. /\ row[i].external_id \in Raw /\ row'[i] # Nothing
      /\ row'[i].live /\ row'[i].edited
      /\ \A j \in Ids \ {i} : row'[j] = row[j]
      /\ row' \in [Ids -> WorkItem \cup {Nothing}]
  BY AdminEditWrites
<1>2. TypeOK'
  BY <1>1, <1>0 DEF TypeOK
<1>3. HashFits' /\ DeletedIsFreed'
  BY <1>1, <1>0 DEF HashFits, DeletedIsFreed
<1>4. OneItemPerExternalId'
  <2>1. row'[i].external_id = strip[e.external_id] /\ row[i].live
    BY AdminEditWrites
  <2>2. \A j \in Ids \ {i} : Stored(j) => row[j].external_id # row'[i].external_id
    BY <2>1 DEF AdminEdit, Renamable
  <2>3. \A j \in Ids \ {i} : row'[j] = row[j]
    BY <1>0
  <2> QED
    BY <2>2, <2>3 DEF OneItemPerExternalId, Stored
<1>5. AnswersAreTruthful'
  <2> SUFFICES ASSUME NEW a \in answers, a.code # 500
               PROVE  (/\ a.id \in Ids /\ row[a.id] # Nothing
                       /\ \/ row[a.id].external_id = strip[a.submission.external_id]
                          \/ /\ row[a.id].edited
                             /\ strip[a.submission.external_id] \in freed
                       /\ a.code \in {200, 201} <=> row[a.id].content_hash =
                            content_hash_for(a.submission.title, a.submission.description)
                       /\ a.code \in {200, 201} /\ ~row[a.id].edited =>
                            /\ row[a.id].title = strip[a.submission.title]
                            /\ row[a.id].description = strip[a.submission.description])'
    BY <1>1 DEF AnswersAreTruthful
  <2>1. /\ a.id \in Ids /\ row[a.id] # Nothing
        /\ \/ row[a.id].external_id = strip[a.submission.external_id]
           \/ row[a.id].edited /\ strip[a.submission.external_id] \in freed
        /\ a.code \in {200, 201} <=> row[a.id].content_hash =
             content_hash_for(a.submission.title, a.submission.description)
        /\ a.code \in {200, 201} /\ ~row[a.id].edited =>
             /\ row[a.id].title = strip[a.submission.title]
             /\ row[a.id].description = strip[a.submission.description]
    BY DEF AnswersAreTruthful
  <2>2. CASE a.id = i
    BY <1>1, <2>1, <2>2, AdminEditWrites DEF content_hash_for
  <2>3. CASE a.id # i
    BY <1>1, <2>1, <2>3, AdminEditWrites DEF content_hash_for
  <2> QED
    BY <2>2, <2>3
<1>6. RefusedByARow'
  <2> SUFFICES ASSUME NEW v \in Workers, req[v].pc = "get again",
                      strip[req[v].submission.external_id] \notin freed'
               PROVE  \E j \in Ids : /\ Stored(j)'
                                     /\ row'[j].external_id =
                                          strip[req[v].submission.external_id]
    BY <1>1 DEF RefusedByARow
  <2>1. PICK j \in Ids : /\ Stored(j)
                         /\ row[j].external_id = strip[req[v].submission.external_id]
    BY <1>1 DEF RefusedByARow
  <2>2. j = i => row'[j].external_id = row[j].external_id
    BY <1>1, <2>1, AdminEditWrites
  <2>3. Stored(j)' /\ row'[j].external_id = row[j].external_id
    BY <2>1, <2>2, AdminEditWrites DEF Stored
  <2> QED
    BY <2>1, <2>3
<1> QED
  BY <1>2, <1>3, <1>4, <1>5, <1>6

\* The invariant holds in every reachable state, whatever arrives, dies, is edited or
\* is deleted.
THEOREM IntakeInvariant == Spec => []IInv
<1>1. Init => IInv
  <2> SUFFICES ASSUME Init PROVE IInv
    OBVIOUS
  <2>1. \A i \in Ids : row[i] = Nothing
    BY DEF Init
  <2>2. TypeOK
    BY DEF Init, TypeOK
  <2>3. HashFits /\ DeletedIsFreed /\ OneItemPerExternalId
    BY <2>1 DEF HashFits, DeletedIsFreed, OneItemPerExternalId, Stored
  <2>4. AnswersAreTruthful /\ RefusedByARow
    BY DEF Init, AnswersAreTruthful, RefusedByARow, Idle
  <2> QED
    BY <2>2, <2>3, <2>4 DEF IInv
<1>2. IInv /\ [Next]_vars => IInv'
  <2> SUFFICES ASSUME IInv, [Next]_vars PROVE IInv'
    OBVIOUS
  <2>1. ASSUME NEW w \in Workers, NEW s \in Submissions, Find(w, s)
        PROVE  IInv'
    BY <2>1, AnswerExistingKeeps DEF Find
  <2>2. ASSUME NEW w \in Workers, FindAgain(w)
        PROVE  IInv'
    <3>1. req[w].submission \in Submissions
      BY <2>2, BusyHoldsSubmission DEF FindAgain, IInv
    <3> QED
      BY <2>2, <3>1, AnswerExistingKeeps DEF FindAgain
  <2>3. CASE UNCHANGED vars
    <3>1. row' = row /\ req' = req /\ answers' = answers /\ freed' = freed
      BY <2>3 DEF vars
    <3>2. TypeOK' /\ HashFits' /\ DeletedIsFreed'
      BY <3>1 DEF IInv, TypeOK, HashFits, DeletedIsFreed
    <3>3. OneItemPerExternalId'
      BY <3>1 DEF IInv, OneItemPerExternalId, Stored
    <3>4. AnswersAreTruthful'
      BY <3>1 DEF IInv, AnswersAreTruthful
    <3>5. RefusedByARow'
      BY <3>1 DEF IInv, RefusedByARow, Stored
    <3> QED
      BY <3>2, <3>3, <3>4, <3>5 DEF IInv
  <2> QED
    BY <2>1, <2>2, <2>3, CreateKeeps, MissAgainKeeps, SilentStepKeeps, AdminDeleteKeeps,
       AdminEditKeeps DEF Next
<1> QED
  BY <1>1, <1>2, PTL DEF Spec

\* Every variable keeps its type.
THEOREM Typed == Spec => []TypeOK
<1>1. IInv => TypeOK
  BY DEF IInv
<1> QED
  BY <1>1, IntakeInvariant, PTL

\* An external id has one item, for any number of requests and submissions.
THEOREM OneItem == Spec => []OneItemPerExternalId
<1>1. IInv => OneItemPerExternalId
  BY DEF IInv
<1> QED
  BY <1>1, IntakeInvariant, PTL

\* No answer is ever wrong about the item it names.
THEOREM Truthful == Spec => []AnswersAreTruthful
<1>1. IInv => AnswersAreTruthful
  BY DEF IInv
<1> QED
  BY <1>1, IntakeInvariant, PTL

\* Accepted submissions of one external id get one item, unless it was taken from one.
THEOREM SameItem == Spec => []SameItemForEveryReplay
<1>1. IInv => SameItemForEveryReplay
  <2> SUFFICES ASSUME IInv, NEW a \in answers, NEW b \in answers,
                      a.code \in {200, 201}, b.code \in {200, 201},
                      strip[a.submission.external_id] = strip[b.submission.external_id],
                      strip[a.submission.external_id] \notin freed
               PROVE  a.id = b.id
    BY DEF SameItemForEveryReplay
  <2>1. /\ a.id \in Ids /\ row[a.id] # Nothing
        /\ row[a.id].external_id = strip[a.submission.external_id]
        /\ b.id \in Ids /\ row[b.id] # Nothing
        /\ row[b.id].external_id = strip[b.submission.external_id]
    BY DEF IInv, AnswersAreTruthful
  <2>2. Stored(a.id) /\ Stored(b.id)
    BY <2>1 DEF IInv, DeletedIsFreed, Stored
  <2> QED
    BY <2>1, <2>2 DEF IInv, OneItemPerExternalId
<1> QED
  BY <1>1, IntakeInvariant, PTL

-----------------------------------------------------------------------------
(* The refinement.                                                         *)

\* The rows that were deleted.
Gone == {i \in Ids : row[i] # Nothing /\ ~row[i].live}

\* A request that answers an existing row is the contract's Repeat.
LEMMA AnswerIsRepeat ==
  ASSUME IInv, NEW w \in Workers, NEW s \in Submissions, AnswerExisting(w, s), row' = row,
         freed' = freed
  PROVE  C!Repeat(s)
<1>1. PICK i \in Lookup(s) : Answer(w, s, IF IsReplay(s, i) THEN 200 ELSE 409, i)
  BY DEF AnswerExisting
<1>2. i \in Ids /\ Stored(i) /\ row[i] # Nothing /\ row[i].external_id = strip[s.external_id]
  BY <1>1 DEF Lookup, Stored
<1>3. IsReplay(s, i) <=> /\ row[i].content_hash.title = strip[s.title]
                         /\ row[i].content_hash.description = strip[s.description]
  BY <1>2, ReplayMeansSameTexts DEF IInv
<1>4. /\ Kept(i).id = i /\ Kept(i).external_id = row[i].external_id
      /\ Kept(i).title = row[i].content_hash.title
      /\ Kept(i).description = row[i].content_hash.description
  BY DEF Kept
<1>5. C!SameContent(s, Kept(i)) <=> IsReplay(s, i)
  BY <1>3, <1>4 DEF C!SameContent
<1>6. Kept(i) \in C!Known(s)
  BY <1>2, <1>4 DEF C!Known, C!Key
<1>7. C!Say(s, IF C!SameContent(s, Kept(i)) THEN 200 ELSE 409, Kept(i).id)
  BY <1>1, <1>4, <1>5 DEF Answer, C!Say
<1>8. UNCHANGED <<{Kept(j) : j \in {k \in Ids : Stored(k)}}, Gone, freed>>
  BY DEF Kept, Stored, Gone
<1> QED
  BY <1>6, <1>7, <1>8 DEF C!Repeat, Gone

\* An insert is the contract's Accept.
LEMMA CreateIsAccept ==
  ASSUME IInv, NEW w \in Workers, Create(w)
  PROVE  C!Accept(req[w].submission)
<1> DEFINE s == req[w].submission
<1>1. s \in Submissions
  BY BusyHoldsSubmission DEF Create, IInv
<1>2. PICK i \in Ids : /\ row[i] = Nothing
                       /\ row' = [row EXCEPT ![i] = WorkItemOf(s)]
                       /\ Answer(w, s, 201, i)
  BY DEF Create
<1>3. /\ WorkItemOf(s) # Nothing /\ WorkItemOf(s).live
      /\ WorkItemOf(s).external_id = strip[s.external_id]
      /\ WorkItemOf(s).content_hash.title = strip[s.title]
      /\ WorkItemOf(s).content_hash.description = strip[s.description]
  <2> DEFINE h == [title |-> strip[s.title], description |-> strip[s.description]]
  <2>1. WorkItemOf(s).content_hash = h
    BY <1>1, WorkItemOfTyped
  <2>2. h.title = strip[s.title] /\ h.description = strip[s.description]
    OBVIOUS
  <2> HIDE DEF s, h
  <2>3. /\ WorkItemOf(s).content_hash.title = strip[s.title]
        /\ WorkItemOf(s).content_hash.description = strip[s.description]
    BY <2>1, <2>2
  <2> QED
    BY <1>1, <2>3, WorkItemOfTyped
<1>4. row'[i] = WorkItemOf(s) /\ \A j \in Ids \ {i} : row'[j] = row[j]
  BY <1>2 DEF IInv, TypeOK
<1> HIDE DEF s
<1> DEFINE new == [id |-> i, external_id |-> C!Key(s), title |-> strip[s.title],
                   description |-> strip[s.description]]
<1>5. Kept(i)' = new
  BY <1>3, <1>4 DEF Kept, C!Key
<1>6. \A j \in Ids \ {i} : Stored(j)' = Stored(j) /\ Kept(j)' = Kept(j)
  BY <1>4 DEF Stored, Kept
<1>7. ~Stored(i) /\ Stored(i)'
  BY <1>2, <1>3, <1>4 DEF Stored
<1> HIDE DEF new
<1>8. {Kept(j) : j \in {k \in Ids : Stored(k)}}' =
        {Kept(j) : j \in {k \in Ids : Stored(k)}} \cup {new}
  BY <1>5, <1>6, <1>7
<1>9. Gone' = Gone
  BY <1>2, <1>4, <1>6, <1>7 DEF Gone, Stored
<1>10. freed' = freed
  BY DEF Create
<1>11. C!Known(s) = {}
  <2>1. Lookup(s) = {}
    BY DEF Create, Insertable, s
  <2>2. \A j \in Ids : Kept(j).external_id = row[j].external_id
    BY DEF Kept
  <2> QED
    BY <2>1, <2>2 DEF C!Known, C!Key, Lookup
<1>12. i \notin Gone \cup {x.id : x \in {Kept(j) : j \in {k \in Ids : Stored(k)}}}
  <2>1. \A j \in Ids : Kept(j).id = j
    BY DEF Kept
  <2> QED
    BY <1>2, <1>7, <2>1 DEF Gone
<1>13. C!Say(s, 201, i)
  BY <1>2 DEF Answer, C!Say
<1>14. C!Accept(s)
  BY <1>8, <1>9, <1>10, <1>11, <1>12, <1>13 DEF C!Accept, new, Gone
<1> QED
  BY <1>14 DEF s

\* Giving up is the contract's Apologise: the row that refused the insert lost the key.
LEMMA MissAgainIsApologise ==
  ASSUME IInv, NEW w \in Workers, MissAgain(w)
  PROVE  C!Apologise(req[w].submission)
<1> DEFINE s == req[w].submission
<1>1. ~\E i \in Ids : Stored(i) /\ row[i].external_id = strip[s.external_id]
  BY DEF MissAgain, Lookup
<1>2. C!Key(s) \in freed
  BY <1>1 DEF MissAgain, IInv, RefusedByARow, C!Key
<1>3. C!Say(s, 500, NoId) /\ row' = row /\ freed' = freed
  BY DEF MissAgain, Answer, C!Say
<1>4. UNCHANGED <<{Kept(j) : j \in {k \in Ids : Stored(k)}}, Gone, freed>>
  BY <1>3 DEF Kept, Stored, Gone
<1> QED
  BY <1>2, <1>3, <1>4 DEF C!Apologise, Gone

\* A deletion is the contract's Remove.
LEMMA AdminDeleteIsRemove ==
  ASSUME IInv, NEW i \in Ids, AdminDelete(i)
  PROVE  \E x \in {Kept(j) : j \in {k \in Ids : Stored(k)}} : C!Remove(x)
<1>0. PICK x : x = Kept(i)
  OBVIOUS
<1>1. Stored(i) /\ row[i] \in WorkItem /\ row[i] # Nothing
  BY DEF AdminDelete, Stored, IInv, TypeOK
<1> DEFINE r == [row[i] EXCEPT !.live = FALSE]
<1>2. r \in WorkItem /\ ~r.live /\ r.external_id = row[i].external_id
  BY <1>1 DEF WorkItem
<1>3. r # Nothing
  BY <1>2, NothingAssumption
<1>4. /\ row' = [row EXCEPT ![i] = r] /\ answers' = answers
      /\ freed' = freed \cup {row[i].external_id}
  BY DEF AdminDelete
<1> HIDE DEF r
<1>5. row'[i] = r /\ \A j \in Ids \ {i} : row'[j] = row[j]
  BY <1>4 DEF IInv, TypeOK
<1>6. ~Stored(i)' /\ \A j \in Ids \ {i} : Stored(j)' = Stored(j) /\ Kept(j)' = Kept(j)
  BY <1>2, <1>5 DEF Stored, Kept
<1>7. x.id = i /\ x.external_id = row[i].external_id
      /\ \A j \in Ids : Kept(j).id = j
  BY <1>0 DEF Kept
<1>8. {Kept(j) : j \in {k \in Ids : Stored(k)}}' =
        {Kept(j) : j \in {k \in Ids : Stored(k)}} \ {x}
  BY <1>0, <1>1, <1>6, <1>7
<1>9. Gone' = Gone \cup {i}
  BY <1>2, <1>3, <1>5 DEF Gone
<1>10. C!Remove(x)
  BY <1>4, <1>7, <1>8, <1>9 DEF C!Remove, Gone
<1>11. x \in {Kept(j) : j \in {k \in Ids : Stored(k)}}
  BY <1>0, <1>1
<1> QED
  BY <1>10, <1>11

\* An edit is the contract's Rename: what was submitted is remembered, under the external
\* id the item has now.
LEMMA AdminEditIsRename ==
  ASSUME IInv, NEW i \in Ids, NEW e \in Edits, AdminEdit(i, e)
  PROVE  \E x \in {Kept(j) : j \in {k \in Ids : Stored(k)}} : C!Rename(x)
<1>0. PICK x : x = Kept(i)
  OBVIOUS
<1>1. PICK k \in Raw : k = strip[e.external_id]
  BY AdminEditWrites DEF IInv
<1>2. /\ answers' = answers /\ TypeOK /\ Stored(i)
      /\ freed' = freed \cup ({row[i].external_id} \ {k})
      /\ \A j \in Ids \ {i} : Stored(j) => row[j].external_id # k
  BY <1>1 DEF AdminEdit, IInv, Renamable
<1>3. /\ row'[i].external_id = k /\ row'[i].content_hash = row[i].content_hash
      /\ Stored(i)'
      /\ \A j \in Ids \ {i} : Stored(j)' = Stored(j) /\ Kept(j)' = Kept(j)
  BY <1>1, <1>2, AdminEditWrites DEF Stored, Kept
<1>4. /\ x.id = i /\ x.external_id = row[i].external_id
      /\ \A j \in Ids : Kept(j).id = j /\ Kept(j).external_id = row[j].external_id
  BY <1>0 DEF Kept
<1>5. Kept(i)' = [x EXCEPT !.external_id = k]
  BY <1>0, <1>3 DEF Kept
<1> HIDE DEF Kept
<1>6. {Kept(j) : j \in {n \in Ids : Stored(n)}}' =
        ({Kept(j) : j \in {n \in Ids : Stored(n)}} \ {x}) \cup {[x EXCEPT !.external_id = k]}
  <2>1. \A j \in Ids \ {i} : Kept(j) # x
    BY <1>4
  <2> QED
    BY <1>0, <1>2, <1>3, <1>5, <2>1
<1>7. Gone' = Gone
  BY <1>2, AdminEditWrites DEF Gone
<1>8. \A y \in {Kept(j) : j \in {n \in Ids : Stored(n)}} \ {x} : y.external_id # k
  BY <1>0, <1>2, <1>4
<1>9. C!Rename(x)
  BY <1>1, <1>2, <1>4, <1>6, <1>7, <1>8 DEF C!Rename, Gone
<1>10. x \in {Kept(j) : j \in {n \in Ids : Stored(n)}}
  BY <1>0, <1>2
<1> QED
  BY <1>9, <1>10

\* get_or_create's three statements, with anything in between, implement the contract:
\* each submission is dealt with as if at one instant.
THEOREM ContractImplemented == Spec => ImplementsContract
<1>1. Init => C!Init
  <2> SUFFICES ASSUME Init PROVE C!Init
    OBVIOUS
  <2>1. \A i \in Ids : row[i] = Nothing
    BY DEF Init
  <2>2. {k \in Ids : Stored(k)} = {} /\ Gone = {}
    BY <2>1 DEF Stored, Gone
  <2> QED
    BY <2>2 DEF Init, C!Init, Gone
<1>2. IInv /\ [Next]_vars => [C!Next]_(C!vars)
  <2> SUFFICES ASSUME IInv, [Next]_vars PROVE [C!Next]_(C!vars)
    OBVIOUS
  <2>1. ASSUME NEW w \in Workers, NEW s \in Submissions, Find(w, s)
        PROVE  C!Next
    BY <2>1, AnswerIsRepeat DEF Find, C!Next
  <2>2. ASSUME NEW w \in Workers, FindAgain(w) \/ Create(w) \/ MissAgain(w)
        PROVE  C!Next
    <3>1. req[w].submission \in Submissions
      BY <2>2, BusyHoldsSubmission DEF FindAgain, Create, MissAgain, IInv
    <3>2. CASE FindAgain(w)
      BY <3>1, <3>2, AnswerIsRepeat DEF FindAgain, C!Next
    <3>3. CASE Create(w)
      BY <3>1, <3>3, CreateIsAccept DEF C!Next
    <3>4. CASE MissAgain(w)
      BY <3>1, <3>4, MissAgainIsApologise DEF C!Next
    <3> QED
      BY <2>2, <3>2, <3>3, <3>4
  <2>3. ASSUME NEW i \in Ids, AdminDelete(i)
        PROVE  C!Next
    BY <2>3, AdminDeleteIsRemove DEF C!Next
  <2>4. ASSUME row' = row, answers' = answers, freed' = freed
        PROVE  UNCHANGED C!vars
    BY <2>4 DEF C!vars, Kept, Stored
  <2>5. ASSUME NEW i \in Ids, NEW e \in Edits, AdminEdit(i, e)
        PROVE  C!Next
    BY <2>5, AdminEditIsRename DEF C!Next
  <2>6. ASSUME NEW w \in Workers,
               (\E s \in Submissions : Miss(w, s)) \/ CreateRefused(w) \/ Crash(w)
        PROVE  UNCHANGED C!vars
    BY <2>4, <2>6 DEF Miss, CreateRefused, Crash
  <2>7. CASE UNCHANGED vars
    BY <2>4, <2>7 DEF vars
  <2> QED
    BY <2>1, <2>2, <2>3, <2>5, <2>6, <2>7 DEF Next
<1> QED
  BY <1>1, <1>2, IntakeInvariant, PTL DEF Spec, ImplementsContract, C!Spec

=============================================================================
