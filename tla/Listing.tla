------------------------------ MODULE Listing ------------------------------
(***************************************************************************)
(* Reading the list of work items page by page while it changes:           *)
(* GET /work-items (api/v1/views.py), WorkItemPagination and the ordering  *)
(* of WorkItem.Meta, newest first.                                         *)
(*                                                                         *)
(* A page costs two queries, a COUNT and a slice, and the pages of one     *)
(* reading are separate requests; items are created, moved and deleted     *)
(* between any two of them.  An item's place in the order is fixed when    *)
(* its created_at is taken, which is before the item can be seen.          *)
(***************************************************************************)
EXTENDS Workflow, FiniteSets

CONSTANTS
  Items,          \* the items that may ever be created
  Readers,        \* clients reading the list
  Filters,        \* the ?status= a reader may ask for, EveryStatus being none
  EveryStatus,
  Asked,          \* the ?pageSize= a reader may ask for
  max_page_size,  \* WorkItemPagination.max_page_size
  MaxChanges      \* bound on the changes to the list during one reading, for TLC

Unborn == "UNBORN"     \* never created
Pending == "PENDING"   \* created_at is taken, the INSERT is not committed
Deleted == "DELETED"   \* rolled back, or deleted by an administrator

ASSUME FiltersAssumption == EveryStatus \notin Statuses /\ Filters \subseteq Statuses \cup {EveryStatus}
ASSUME SizesAssumption == max_page_size \in Nat \ {0} /\ Asked \subseteq Nat \ {0}
ASSUME ListBoundsAssumption == IsFiniteSet(Items) /\ MaxChanges \in Nat

VARIABLES
  newer,   \* Meta.ordering, newest first: the pairs <<i, j>> with i before j
  status,  \* status[i]: the column, or why there is no such row
  reading  \* reading[r]: how far reader r is, and what happened since it began

vars == <<newer, status, reading>>

\* pc: "page": about to ask for `page`; "rows": its COUNT is made; "idle": done.
\* `shown` are the items it was given, in `rows` rows.  The rest is what the properties
\* compare them with: the items that were listed all the time, how many left the list and came into
\* it, and how many came since the COUNT of this page.
Reading == [pc : {"idle", "page", "rows"}, filter : Filters \cup {EveryStatus}, size : 1 .. max_page_size,
            page : Nat, count : Nat, shown : SUBSET Items, rows : Nat,
            stable : SUBSET Items, left : Nat, came : Nat, late : Nat]

NoReading == [pc |-> "idle", filter |-> EveryStatus, size |-> 1, page |-> 1, count |-> 0,
              shown |-> {}, rows |-> 0, stable |-> {}, left |-> 0, came |-> 0, late |-> 0]

-----------------------------------------------------------------------------
(* The list and its pages.                                                 *)

\* Mutant of get_page_size: the cap is forgotten.
get_page_size_uncapped(asked) == asked

\* get_page_size: ?pageSize= up to max_page_size.
get_page_size(asked) == IF asked > max_page_size THEN max_page_size ELSE asked

\* get_queryset: all items, or those with the status asked for.
InList(s, filter) == IF filter = EveryStatus THEN s \in Statuses ELSE s = filter

Listed(filter) == {i \in Items : InList(status[i], filter)}

\* How many rows of the list are before item i.
Rank(list, i) == Cardinality({j \in list : <<j, i>> \in newer})

\* Paginator.num_pages: there is always a first page.
num_pages(count, size) == IF count = 0 THEN 1 ELSE (count + size - 1) \div size

\* Paginator.page: the last page ends where the COUNT said the list ends.
Slice(list, page, size, count) ==
  LET bottom == (page - 1) * size
      top == IF bottom + size >= count THEN count ELSE bottom + size
  IN  {i \in list : Rank(list, i) >= bottom /\ Rank(list, i) < top}

-----------------------------------------------------------------------------
(* What changes the list.                                                  *)

\* Item i gets status s.  Every reading under way is told what that did to its list; one
\* that is over is forgotten.
Becomes(i, s) ==
  /\ status' = [status EXCEPT ![i] = s]
  /\ reading' = [r \in Readers |->
       LET in == InList(status[i], reading[r].filter)
           stays == InList(s, reading[r].filter)
       IN  IF reading[r].pc = "idle" THEN NoReading
           ELSE IF in = stays THEN reading[r]
           ELSE IF in
             THEN [reading[r] EXCEPT !.left = @ + 1, !.stable = @ \ {i}]
             ELSE [reading[r] EXCEPT !.came = @ + 1, !.late = @ + 1]]
  /\ \A r \in Readers : reading'[r].left + reading'[r].came <= MaxChanges

Create(i) ==
  /\ status[i] = Unborn
  /\ newer' = newer \cup ({i} \X {j \in Items : status[j] # Unborn})
  /\ Becomes(i, Pending)

Commit(i) ==
  /\ status[i] = Pending
  /\ Becomes(i, "RECEIVED")
  /\ UNCHANGED newer

Delete(i) ==
  /\ status[i] \in Statuses \cup {Pending}
  /\ Becomes(i, Deleted)
  /\ UNCHANGED newer

\* Mutant of Move: ordered by modified_at, which every transition sets.
MoveToTheHead(i, to) ==
  /\ can_transition(status[i], to)
  /\ newer' = {p \in newer : p[2] # i} \cup ({i} \X {j \in Items \ {i} : status[j] # Unborn})
  /\ Becomes(i, to)

\* workflow.transition, whoever asks for it: created_at stays.
Move(i, to) ==
  /\ can_transition(status[i], to)
  /\ Becomes(i, to)
  /\ UNCHANGED newer

-----------------------------------------------------------------------------
(* A client reads the pages one after another, up to totalPages.           *)

Begin(r, filter, asked) ==
  /\ reading[r].pc = "idle"
  /\ reading' = [reading EXCEPT ![r] =
       [NoReading EXCEPT !.pc = "page", !.filter = filter, !.size = get_page_size(asked),
                         !.stable = Listed(filter)]]
  /\ UNCHANGED <<newer, status>>

\* The first query of a page: COUNT(*).
CountRows(r) ==
  LET count == Cardinality(Listed(reading[r].filter))
  IN  /\ reading[r].pc = "page"
      /\ reading[r].page <= num_pages(count, reading[r].size)
      /\ reading' = [reading EXCEPT ![r] =
                       [@ EXCEPT !.pc = "rows", !.count = count, !.late = 0]]
      /\ UNCHANGED <<newer, status>>

\* The list got so short that there is no such page: 404, and the reader stops.
PageGone(r) ==
  /\ reading[r].pc = "page"
  /\ reading[r].page > num_pages(Cardinality(Listed(reading[r].filter)), reading[r].size)
  /\ reading' = [reading EXCEPT ![r].pc = "idle"]
  /\ UNCHANGED <<newer, status>>

\* The second query: the rows of the page.  totalPages comes from the COUNT.
FetchRows(r) ==
  LET d == reading[r]
      slice == Slice(Listed(d.filter), d.page, d.size, d.count)
  IN  /\ d.pc = "rows"
      /\ reading' = [reading EXCEPT ![r] =
           [d EXCEPT !.shown = @ \cup slice,
                     !.rows = @ + Cardinality(slice),
                     !.pc = IF d.page < num_pages(d.count, d.size) THEN "page" ELSE "idle",
                     !.page = @ + 1]]
      /\ UNCHANGED <<newer, status>>

Init ==
  /\ newer = {}
  /\ status = [i \in Items |-> Unborn]
  /\ reading = [r \in Readers |-> NoReading]

Next ==
  \/ \E i \in Items :
       \/ Create(i) \/ Commit(i) \/ Delete(i)
       \/ \E to \in Statuses : Move(i, to)
  \/ \E r \in Readers :
       \/ \E filter \in Filters, asked \in Asked : Begin(r, filter, asked)
       \/ CountRows(r) \/ PageGone(r) \/ FetchRows(r)

Spec == Init /\ [][Next]_vars

-----------------------------------------------------------------------------
(* Properties.                                                             *)

\* Every variable has its type.
TypeOK ==
  /\ newer \subseteq Items \X Items
  /\ status \in [Items -> Statuses \cup {Unborn, Pending, Deleted}]
  /\ reading \in [Readers -> Reading]

\* A reading loses an item that was in the list from beginning to end only if another
\* left the list (and then one for each), or came into it between the two queries of
\* the last page (models.py: "a paginated list must never lose one").
LostIsExplained ==
  \A r \in Readers : reading[r].pc = "idle" =>
    Cardinality(reading[r].stable \ reading[r].shown) <= reading[r].left + reading[r].late

\* It shows an item twice only if another came into the list, and once for each.
TwiceIsExplained ==
  \A r \in Readers :
    reading[r].rows - Cardinality(reading[r].shown) <= reading[r].came

=============================================================================
