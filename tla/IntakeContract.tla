--------------------------- MODULE IntakeContract ---------------------------
(***************************************************************************)
(* The table at the head of work_items/services/intake.py, as a state      *)
(* machine: a submission is dealt with in one step, however many arrive at *)
(* once.  Intake is shown to implement it.                                 *)
(*                                                                         *)
(*   - a new external id is stored, as one item;                           *)
(*   - a known one with the same content is answered with that item;       *)
(*   - a known one with different content is a conflict, and the stored    *)
(*     item stays as it is;                                                *)
(*   - an error is excused only for an external id that was taken from an  *)
(*     item, which was removed or given another one.                       *)
(***************************************************************************)
CONSTANTS Ids, NoId, Raw, Submissions, strip

VARIABLES
  stored,   \* the items: [id, external_id, title, description]
  removed,  \* ids of the items that were removed
  lost,     \* external ids that were taken from an item
  answers   \* the answers given: [submission, code, id]

vars == <<stored, removed, lost, answers>>

Init == stored = {} /\ removed = {} /\ lost = {} /\ answers = {}

Say(s, code, id) ==
  answers' = answers \cup {[submission |-> s, code |-> code, id |-> id]}

Key(s) == strip[s.external_id]

Known(s) == {x \in stored : x.external_id = Key(s)}

SameContent(s, x) == x.title = strip[s.title] /\ x.description = strip[s.description]

Accept(s) ==
  /\ Known(s) = {}
  /\ \E i \in Ids \ (removed \cup {x.id : x \in stored}) :
       /\ stored' = stored \cup {[id |-> i, external_id |-> Key(s), title |-> strip[s.title],
                                  description |-> strip[s.description]]}
       /\ Say(s, 201, i)
  /\ UNCHANGED <<removed, lost>>

Repeat(s) ==
  /\ \E x \in Known(s) : Say(s, IF SameContent(s, x) THEN 200 ELSE 409, x.id)
  /\ UNCHANGED <<stored, removed, lost>>

Apologise(s) ==
  /\ Key(s) \in lost
  /\ Say(s, 500, NoId)
  /\ UNCHANGED <<stored, removed, lost>>

Remove(x) ==
  /\ stored' = stored \ {x}
  /\ removed' = removed \cup {x.id}
  /\ lost' = lost \cup {x.external_id}
  /\ UNCHANGED answers

Rename(x) ==
  /\ \E k \in Raw :
       /\ \A y \in stored \ {x} : y.external_id # k
       /\ stored' = (stored \ {x}) \cup {[x EXCEPT !.external_id = k]}
       /\ lost' = lost \cup ({x.external_id} \ {k})
  /\ UNCHANGED <<removed, answers>>

Next ==
  \/ \E s \in Submissions : Accept(s) \/ Repeat(s) \/ Apologise(s)
  \/ \E x \in stored : Remove(x) \/ Rename(x)

Spec == Init /\ [][Next]_vars

=============================================================================
