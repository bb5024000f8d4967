--------------------------- MODULE ListingProofs ---------------------------
(***************************************************************************)
(* Theorems about Listing, for any number of items, readers, pages and     *)
(* changes.  The argument counts: the rows a reading has passed are those  *)
(* of rank below (page - 1) * page_size, one change of the list carries at *)
(* most one row over that line, and so every loss and every repetition can *)
(* be charged to a change of its own.                                      *)
(***************************************************************************)
EXTENDS Listing, FiniteSetTheorems, TLAPS

-----------------------------------------------------------------------------
(* Finite sets.                                                            *)

\* A set without two elements has at most one.
LEMMA AtMostOne ==
  ASSUME NEW S, IsFiniteSet(S), \A a, b \in S : a = b
  PROVE  Cardinality(S) \in {0, 1}
<1>1. CASE S = {}
  BY <1>1, FS_EmptySet
<1>2. CASE S # {}
  <2>1. PICK a \in S : TRUE
    BY <1>2
  <2>2. S = {a}
    BY <2>1
  <2> QED
    BY <2>2, FS_Singleton
<1> QED
  BY <1>1, <1>2

\* One extra element at most.
LEMMA OneMore ==
  ASSUME NEW S, NEW T, NEW E, IsFiniteSet(S), IsFiniteSet(E),
         T \subseteq S \cup E, \A a, b \in E : a = b
  PROVE  /\ IsFiniteSet(T)
         /\ Cardinality(S) \in Nat /\ Cardinality(T) \in Nat
         /\ Cardinality(T) <= Cardinality(S) + 1
<1>1. Cardinality(E) \in {0, 1}
  BY AtMostOne
<1>2. /\ IsFiniteSet(S \cup E)
      /\ Cardinality(S \cup E) = Cardinality(S) + Cardinality(E) - Cardinality(S \cap E)
  BY FS_Union
<1>3. IsFiniteSet(S \cap E)
  BY FS_Intersection
<1>4. IsFiniteSet(T) /\ Cardinality(T) <= Cardinality(S \cup E)
  BY <1>2, FS_Subset
<1>5. /\ Cardinality(S) \in Nat /\ Cardinality(T) \in Nat
      /\ Cardinality(S \cap E) \in Nat /\ Cardinality(S \cup E) \in Nat
  BY <1>2, <1>3, <1>4, FS_CardinalityType
<1> QED
  BY <1>1, <1>2, <1>4, <1>5

-----------------------------------------------------------------------------
(* Ranks in a list.                                                        *)

\* o is a strict total order of B.
Orders(o, B) ==
  /\ o \subseteq B \X B
  /\ \A i \in B : <<i, i>> \notin o
  /\ \A i, j, k \in B : <<i, j>> \in o /\ <<j, k>> \in o => <<i, k>> \in o
  /\ \A i, j \in B : i = j \/ <<i, j>> \in o \/ <<j, i>> \in o

\* The rows of list L before i, and their number (which is Rank, for the order of the
\* table).
Ahead(o, L, i) == {j \in L : <<j, i>> \in o}

RankIn(o, L, i) == Cardinality(Ahead(o, L, i))

\* The rows of S before rank n of list L, and those behind it.
Front(o, L, S, n) == {j \in S : RankIn(o, L, j) < n}

Back(o, L, S, n) == {j \in S : RankIn(o, L, j) >= n}

LEMMA RankIsRankIn == \A L, i : Rank(L, i) = RankIn(newer, L, i)
  BY DEF Rank, RankIn, Ahead

LEMMA AheadFinite ==
  ASSUME NEW o, NEW L, IsFiniteSet(L), NEW i
  PROVE  IsFiniteSet(Ahead(o, L, i)) /\ RankIn(o, L, i) \in Nat
<1>1. Ahead(o, L, i) \in SUBSET L
  BY DEF Ahead
<1> QED
  BY <1>1, FS_Subset, FS_CardinalityType DEF RankIn

\* Of two rows the earlier one has the smaller rank.
LEMMA RankFollowsOrder ==
  ASSUME NEW B, NEW o, Orders(o, B), NEW L \in SUBSET B, IsFiniteSet(L),
         NEW i \in L, NEW j \in B, <<i, j>> \in o
  PROVE  RankIn(o, L, i) < RankIn(o, L, j)
<1>1. Ahead(o, L, i) \in SUBSET Ahead(o, L, j)
  BY DEF Ahead, Orders
<1>2. i \in Ahead(o, L, j) /\ i \notin Ahead(o, L, i)
  BY DEF Ahead, Orders
<1>3. IsFiniteSet(Ahead(o, L, j)) /\ RankIn(o, L, i) \in Nat /\ RankIn(o, L, j) \in Nat
  BY AheadFinite
<1>4. /\ RankIn(o, L, i) <= RankIn(o, L, j)
      /\ RankIn(o, L, i) # RankIn(o, L, j)
  BY <1>1, <1>2, <1>3, FS_Subset DEF RankIn
<1> QED
  BY <1>3, <1>4

\* No two rows have the same rank.
LEMMA RankTellsApart ==
  ASSUME NEW B, NEW o, Orders(o, B), NEW L \in SUBSET B, IsFiniteSet(L),
         NEW i \in L, NEW j \in L, RankIn(o, L, i) = RankIn(o, L, j)
  PROVE  i = j
<1>1. RankIn(o, L, i) \in Nat
  BY AheadFinite
<1>2. ~ <<i, j>> \in o /\ ~ <<j, i>> \in o
  BY <1>1, RankFollowsOrder
<1> QED
  BY <1>2 DEF Orders

\* Ranks stay below the length of the list.
LEMMA RankInList ==
  ASSUME NEW B, NEW o, Orders(o, B), NEW L \in SUBSET B, IsFiniteSet(L), NEW i \in L
  PROVE  RankIn(o, L, i) < Cardinality(L) /\ Cardinality(L) \in Nat
<1>1. Ahead(o, L, i) \in SUBSET L
  BY DEF Ahead
<1>2. Ahead(o, L, i) # L
  BY DEF Ahead, Orders
<1>3. RankIn(o, L, i) \in Nat /\ Cardinality(L) \in Nat
  BY AheadFinite, FS_CardinalityType
<1> QED
  BY <1>1, <1>2, <1>3, FS_Subset DEF RankIn

\* Of a list of l rows, at most l - c have rank c or more.
LEMMA TailOfList ==
  ASSUME NEW B, NEW o, Orders(o, B), NEW L \in SUBSET B, IsFiniteSet(L),
         NEW c \in Nat, NEW late \in Nat, Cardinality(L) <= c + late
  PROVE  /\ IsFiniteSet(Back(o, L, L, c)) /\ Cardinality(Back(o, L, L, c)) \in Nat
         /\ Cardinality(Back(o, L, L, c)) <= late
<1> DEFINE S == Back(o, L, L, c)
           f == [i \in S |-> RankIn(o, L, i)]
           T == c .. c + late - 1
<1>1. \A i \in S : RankIn(o, L, i) \in T
  <2> SUFFICES ASSUME NEW i \in S PROVE RankIn(o, L, i) \in T
    OBVIOUS
  <2>1. /\ RankIn(o, L, i) < Cardinality(L) /\ Cardinality(L) \in Nat
        /\ RankIn(o, L, i) >= c
    BY RankInList DEF Back
  <2>2. RankIn(o, L, i) \in Nat
    BY AheadFinite
  <2> QED
    BY <2>1, <2>2
<1>2. \A i, j \in S : f[i] = f[j] => i = j
  <2>1. S \subseteq L
    BY DEF Back
  <2> QED
    BY <2>1, RankTellsApart
<1>3. f \in Injection(S, T)
  BY <1>1, <1>2 DEF Injection, IsInjective
<1>4. IsFiniteSet(T) /\ Cardinality(T) = late
  BY FS_Interval
<1>5. IsFiniteSet(S) /\ Cardinality(S) <= Cardinality(T)
  <2> HIDE DEF S, T, f
  <2> QED
    BY <1>3, <1>4, FS_Injection
<1> QED
  BY <1>4, <1>5, FS_CardinalityType

-----------------------------------------------------------------------------
(* What one change of the list does to the line at rank n.                 *)

\* Without row x, every rank stays or falls by one.
LEMMA RankWithout ==
  ASSUME NEW o, NEW L, IsFiniteSet(L), NEW x, NEW K, K = L \ {x}, NEW i
  PROVE  /\ RankIn(o, K, i) \in Nat /\ RankIn(o, L, i) \in Nat
         /\ RankIn(o, K, i) <= RankIn(o, L, i)
         /\ RankIn(o, L, i) <= RankIn(o, K, i) + 1
<1>1. Ahead(o, K, i) = Ahead(o, L, i) \ {x}
  BY DEF Ahead
<1>2. IsFiniteSet(Ahead(o, L, i)) /\ RankIn(o, L, i) \in Nat
  BY AheadFinite
<1>3. RankIn(o, K, i) =
        IF x \in Ahead(o, L, i) THEN RankIn(o, L, i) - 1 ELSE RankIn(o, L, i)
  BY <1>1, <1>2, FS_RemoveElement DEF RankIn
<1>4. IsFiniteSet(K)
  BY FS_RemoveElement
<1>5. RankIn(o, K, i) \in Nat
  BY <1>4, AheadFinite
<1> QED
  BY <1>2, <1>3, <1>5

\* The shorter of two lists has the smaller ranks.
LEMMA RankInSublist ==
  ASSUME NEW o, NEW L, IsFiniteSet(L), NEW K \in SUBSET L, NEW i
  PROVE  /\ RankIn(o, K, i) \in Nat /\ RankIn(o, L, i) \in Nat
         /\ RankIn(o, K, i) <= RankIn(o, L, i)
<1>1. Ahead(o, K, i) \in SUBSET Ahead(o, L, i)
  BY DEF Ahead
<1>2. IsFiniteSet(K)
  BY FS_Subset
<1> QED
  BY <1>1, <1>2, AheadFinite, FS_Subset DEF RankIn

\* A row that leaves draws at most one other over the line, to the front.
LEMMA OneDrawnForward ==
  ASSUME NEW B, NEW o, Orders(o, B), NEW L \in SUBSET B, IsFiniteSet(L),
         NEW x, NEW K, K = L \ {x}, NEW S \in SUBSET L, NEW n \in Nat
  PROVE  Cardinality(Front(o, K, S \ {x}, n)) <= Cardinality(Front(o, L, S, n)) + 1
<1> DEFINE A == Front(o, L, S, n)
           T == Front(o, K, S \ {x}, n)
           E == T \ A
<1>1. IsFiniteSet(A) /\ IsFiniteSet(E)
  <2>1. A \in SUBSET L /\ E \in SUBSET L
    BY DEF Front
  <2> HIDE DEF A, E
  <2> QED
    BY <2>1, FS_Subset
<1>2. \A j : /\ RankIn(o, L, j) \in Nat /\ RankIn(o, K, j) \in Nat
             /\ RankIn(o, K, j) <= RankIn(o, L, j)
             /\ RankIn(o, L, j) <= RankIn(o, K, j) + 1
  BY RankWithout
<1>3. \A a \in E : RankIn(o, L, a) = n /\ a \in L
  BY <1>2 DEF Front
<1>4. \A a, b \in E : a = b
  BY <1>3, RankTellsApart
<1>5. T \subseteq A \cup E
  OBVIOUS
<1> HIDE DEF A, T, E
<1>6. Cardinality(T) <= Cardinality(A) + 1
  BY <1>1, <1>4, <1>5, OneMore
<1> QED
  BY <1>6 DEF A, T

\* Nothing moves to the back when a row leaves.
LEMMA NonePushedBack ==
  ASSUME NEW o, NEW L, IsFiniteSet(L), NEW K \in SUBSET L, NEW S, NEW n \in Nat
  PROVE  Cardinality(Back(o, K, S \cap K, n)) <= Cardinality(Back(o, L, S \cap L, n))
<1> DEFINE A == Back(o, L, S \cap L, n)
           T == Back(o, K, S \cap K, n)
<1>1. \A j : /\ RankIn(o, L, j) \in Nat /\ RankIn(o, K, j) \in Nat
             /\ RankIn(o, K, j) <= RankIn(o, L, j)
  BY RankInSublist
<1>2. T \in SUBSET A
  BY <1>1 DEF Back
<1>3. A \in SUBSET L
  BY DEF Back
<1> HIDE DEF A, T
<1>4. IsFiniteSet(A)
  BY <1>3, FS_Subset
<1>5. Cardinality(T) <= Cardinality(A)
  BY <1>2, <1>4, FS_Subset
<1> QED
  BY <1>5 DEF A, T

\* Row x comes, and list L becomes K.
Comes(x, L, K) == x \notin L /\ K = L \cup {x}

\* A row that comes pushes at most one over the line, to the back: the one that stood
\* before it, or itself, and not both.
LEMMA OnePushedBack ==
  ASSUME NEW B, NEW o, Orders(o, B), NEW L \in SUBSET B, IsFiniteSet(L),
         NEW x \in B, NEW K, Comes(x, L, K), NEW S, NEW n \in Nat
  PROVE  Cardinality(Back(o, K, S \cap K, n)) <= Cardinality(Back(o, L, S \cap L, n)) + 1
<1> DEFINE A == Back(o, L, S \cap L, n)
           T == Back(o, K, S \cap K, n)
           E == T \ A
<1>1. IsFiniteSet(K) /\ K \in SUBSET B /\ L = K \ {x} /\ K = L \cup {x}
  BY FS_AddElement DEF Comes
<1>2. IsFiniteSet(A) /\ IsFiniteSet(E)
  <2>1. A \in SUBSET K /\ E \in SUBSET K
    BY <1>1 DEF Back
  <2> HIDE DEF A, E
  <2> QED
    BY <1>1, <2>1, FS_Subset
<1>3. \A j : /\ RankIn(o, L, j) \in Nat /\ RankIn(o, K, j) \in Nat
             /\ RankIn(o, L, j) <= RankIn(o, K, j)
             /\ RankIn(o, K, j) <= RankIn(o, L, j) + 1
  BY <1>1, RankWithout
<1>4. \A a \in E : a # x => a \in L /\ RankIn(o, K, a) = n /\ <<x, a>> \in o
  <2> SUFFICES ASSUME NEW a \in E, a # x
               PROVE  a \in L /\ RankIn(o, K, a) = n /\ <<x, a>> \in o
    OBVIOUS
  <2>1. a \in L /\ RankIn(o, L, a) < n /\ RankIn(o, K, a) >= n
    <3>1. a \in S /\ a \in K /\ RankIn(o, K, a) >= n
      BY DEF Back
    <3>2. a \in L
      BY <1>1, <3>1
    <3>3. ~ (RankIn(o, L, a) >= n)
      BY <3>1, <3>2 DEF Back
    <3> QED
      BY <3>1, <3>2, <3>3, <1>3
  <2>2. RankIn(o, K, a) = n
    BY <1>3, <2>1
  <2>3. CASE ~ <<x, a>> \in o
    <3>1. Ahead(o, K, a) = Ahead(o, L, a)
      BY <1>1, <2>3 DEF Ahead
    <3> QED
      BY <2>1, <3>1, <1>3 DEF RankIn
  <2> QED
    BY <2>1, <2>2, <2>3
<1>5. \A a, b \in E : a = b
  <2>1. \A a, b \in E : a # x /\ b # x => a = b
    <3>1. \A a, b \in K : RankIn(o, K, a) = RankIn(o, K, b) => a = b
      BY <1>1, RankTellsApart
    <3> HIDE DEF E
    <3> QED
      BY <1>1, <1>4, <3>1
  <2>2. ASSUME NEW c \in E, c # x, x \in E PROVE FALSE
    <3>1. RankIn(o, K, c) = n /\ <<x, c>> \in o /\ c \in L
      BY <2>2, <1>4
    <3>2. x \in K /\ RankIn(o, K, x) >= n
      BY <2>2 DEF Back
    <3>3. RankIn(o, K, x) < RankIn(o, K, c)
      BY <1>1, <3>1, <3>2, RankFollowsOrder
    <3>4. RankIn(o, K, x) \in Nat /\ RankIn(o, K, c) \in Nat
      BY <1>3
    <3> HIDE DEF E
    <3> QED
      BY <3>1, <3>2, <3>3, <3>4
  <2> QED
    BY <2>1, <2>2
<1>6. T \subseteq A \cup E
  OBVIOUS
<1> HIDE DEF A, T, E
<1>7. Cardinality(T) <= Cardinality(A) + 1
  BY <1>2, <1>5, <1>6, OneMore
<1> QED
  BY <1>7 DEF A, T

\* Nothing moves to the front when a row comes.
LEMMA NoneDrawnForward ==
  ASSUME NEW o, NEW K, IsFiniteSet(K), NEW L \in SUBSET K, NEW S \in SUBSET L, NEW n \in Nat
  PROVE  Cardinality(Front(o, K, S, n)) <= Cardinality(Front(o, L, S, n))
<1> DEFINE A == Front(o, L, S, n)
           T == Front(o, K, S, n)
<1>1. IsFiniteSet(L)
  BY FS_Subset
<1>2. \A j : /\ RankIn(o, L, j) \in Nat /\ RankIn(o, K, j) \in Nat
             /\ RankIn(o, L, j) <= RankIn(o, K, j)
  BY RankInSublist
<1>3. T \in SUBSET A
  BY <1>2 DEF Front
<1>4. A \in SUBSET L
  BY DEF Front
<1> HIDE DEF A, T
<1>5. IsFiniteSet(A)
  BY <1>1, <1>4, FS_Subset
<1>6. Cardinality(T) <= Cardinality(A)
  BY <1>3, <1>5, FS_Subset
<1> QED
  BY <1>6 DEF A, T

-----------------------------------------------------------------------------
(* One reading, against the list L in the order o.                         *)

\* The rank at which its next page begins.
Behind(d) == (d.page - 1) * d.size

\* What it has passed without being shown it, and what it was shown and will meet again.
Missed(d, o, L) == Front(o, L, d.stable \ d.shown, Behind(d))

Again(d, o, L) == Back(o, L, d.shown \cap L, Behind(d))

\* A reading under way: every miss so far is charged to a row that left, every
\* repetition, made or still to come, to a row that came; and after the COUNT of a page
\* only the late rows are beyond what was counted.
Fits(d, o, L) ==
  /\ d.page >= 1
  /\ d.stable \subseteq L
  /\ Cardinality(Missed(d, o, L)) <= d.left
  /\ d.rows - Cardinality(d.shown) + Cardinality(Again(d, o, L)) <= d.came
  /\ d.pc = "rows" => /\ d.page <= num_pages(d.count, d.size)
                      /\ Cardinality(L) <= d.count + d.late

\* A reading that is over.
Explained(d) ==
  /\ Cardinality(d.stable \ d.shown) <= d.left + d.late
  /\ d.rows - Cardinality(d.shown) <= d.came

\* The sets a reading counts are finite.
LEMMA ReadingFinite ==
  ASSUME NEW d \in Reading, NEW o, NEW L \in SUBSET Items
  PROVE  /\ IsFiniteSet(L) /\ Cardinality(L) \in Nat
         /\ IsFiniteSet(d.shown) /\ Cardinality(d.shown) \in Nat
         /\ IsFiniteSet(d.stable \ d.shown) /\ Cardinality(d.stable \ d.shown) \in Nat
         /\ IsFiniteSet(Missed(d, o, L)) /\ Cardinality(Missed(d, o, L)) \in Nat
         /\ IsFiniteSet(Again(d, o, L)) /\ Cardinality(Again(d, o, L)) \in Nat
<1>1. /\ d.shown \in SUBSET Items /\ d.stable \ d.shown \in SUBSET Items
      /\ Missed(d, o, L) \in SUBSET Items /\ Again(d, o, L) \in SUBSET Items
  BY DEF Reading, Missed, Again, Front, Back
<1>2. \A S \in SUBSET Items : IsFiniteSet(S) /\ Cardinality(S) \in Nat
  BY ListBoundsAssumption, FS_Subset, FS_CardinalityType
<1> QED
  BY <1>1, <1>2

LEMMA BehindTyped ==
  ASSUME NEW d \in Reading, d.page >= 1
  PROVE  Behind(d) \in Nat
<1>1. d.page - 1 \in Nat /\ d.size \in Nat
  BY SizesAssumption DEF Reading
<1> QED
  BY <1>1 DEF Behind

\* Row x leaves the list.
LEMMA FitsLeaving ==
  ASSUME NEW B \in SUBSET Items, NEW o, Orders(o, B), NEW L \in SUBSET B, NEW x \in L,
         NEW d \in Reading, Fits(d, o, L), NEW K, K = L \ {x}, NEW e \in Reading,
         e = [d EXCEPT !.left = @ + 1, !.stable = @ \ {x}]
  PROVE  Fits(e, o, K)
<1>1. /\ e.stable = d.stable \ {x} /\ e.left = d.left + 1 /\ e.shown = d.shown
      /\ e.rows = d.rows /\ e.came = d.came /\ e.late = d.late /\ e.page = d.page
      /\ e.size = d.size /\ e.count = d.count /\ e.pc = d.pc
  BY DEF Reading
<1>2. Behind(e) = Behind(d) /\ Behind(d) \in Nat
  BY <1>1, BehindTyped DEF Behind, Fits
<1>3. L \in SUBSET Items /\ IsFiniteSet(L)
  BY ReadingFinite
<1>4. Cardinality(Missed(e, o, K)) <= Cardinality(Missed(d, o, L)) + 1
  <2> DEFINE S == d.stable \ d.shown
  <2>1. S \in SUBSET L /\ S \ {x} = e.stable \ e.shown
    BY <1>1 DEF Fits
  <2>2. /\ Missed(d, o, L) = Front(o, L, S, Behind(d))
        /\ Missed(e, o, K) = Front(o, K, S \ {x}, Behind(d))
    BY <1>2, <2>1 DEF Missed
  <2> HIDE DEF S
  <2> QED
    BY <1>2, <1>3, <2>1, <2>2, OneDrawnForward
<1>5. Cardinality(Again(e, o, K)) <= Cardinality(Again(d, o, L))
  <2>1. /\ Again(d, o, L) = Back(o, L, d.shown \cap L, Behind(d))
        /\ Again(e, o, K) = Back(o, K, d.shown \cap K, Behind(d))
    BY <1>1, <1>2 DEF Again
  <2> QED
    BY <1>2, <1>3, <2>1, NonePushedBack
<1>6. Cardinality(K) \in Nat /\ Cardinality(K) <= Cardinality(L)
  BY <1>3, FS_Subset, FS_CardinalityType
<1>7. /\ Cardinality(Missed(d, o, L)) \in Nat /\ Cardinality(Missed(e, o, K)) \in Nat
      /\ Cardinality(Again(d, o, L)) \in Nat /\ Cardinality(Again(e, o, K)) \in Nat
      /\ Cardinality(d.shown) \in Nat /\ Cardinality(L) \in Nat
  BY <1>3, ReadingFinite
<1>8. /\ d.left \in Nat /\ d.rows \in Nat /\ d.came \in Nat /\ d.count \in Nat
      /\ d.late \in Nat
  BY DEF Reading
<1>9. e.stable \subseteq K
  BY <1>1 DEF Fits
<1> QED
  BY <1>1, <1>4, <1>5, <1>6, <1>7, <1>8, <1>9 DEF Fits

\* Row x comes into the list.
LEMMA FitsComing ==
  ASSUME NEW B \in SUBSET Items, NEW o, Orders(o, B), NEW L \in SUBSET B,
         NEW x \in B, NEW K, Comes(x, L, K),
         NEW d \in Reading, Fits(d, o, L), NEW e \in Reading,
         e = [d EXCEPT !.came = @ + 1, !.late = @ + 1]
  PROVE  Fits(e, o, K)
<1>1. /\ e.stable = d.stable /\ e.left = d.left /\ e.shown = d.shown
      /\ e.rows = d.rows /\ e.came = d.came + 1 /\ e.late = d.late + 1
      /\ e.page = d.page /\ e.size = d.size /\ e.count = d.count /\ e.pc = d.pc
  BY DEF Reading
<1>2. Behind(e) = Behind(d) /\ Behind(d) \in Nat
  BY <1>1, BehindTyped DEF Behind, Fits
<1>3. L \in SUBSET Items /\ IsFiniteSet(L) /\ K \in SUBSET Items /\ IsFiniteSet(K)
  BY ReadingFinite DEF Comes
<1>4. Cardinality(Missed(e, o, K)) <= Cardinality(Missed(d, o, L))
  <2> DEFINE S == d.stable \ d.shown
  <2>1. S \in SUBSET L /\ S = e.stable \ e.shown
    BY <1>1 DEF Fits
  <2>2. /\ Missed(d, o, L) = Front(o, L, S, Behind(d))
        /\ Missed(e, o, K) = Front(o, K, S, Behind(d))
    BY <1>2, <2>1 DEF Missed
  <2> HIDE DEF S
  <2>3. Cardinality(Front(o, K, S, Behind(d))) <= Cardinality(Front(o, L, S, Behind(d)))
    BY <1>2, <1>3, <2>1, NoneDrawnForward DEF Comes
  <2> QED
    BY <2>2, <2>3
<1>5. Cardinality(Again(e, o, K)) <= Cardinality(Again(d, o, L)) + 1
  <2>1. /\ Again(d, o, L) = Back(o, L, d.shown \cap L, Behind(d))
        /\ Again(e, o, K) = Back(o, K, d.shown \cap K, Behind(d))
    BY <1>1, <1>2 DEF Again
  <2> QED
    BY <1>2, <1>3, <2>1, OnePushedBack
<1>6. Cardinality(K) \in Nat /\ Cardinality(K) = Cardinality(L) + 1
  BY <1>3, FS_AddElement, FS_CardinalityType DEF Comes
<1>7. /\ Cardinality(Missed(d, o, L)) \in Nat /\ Cardinality(Missed(e, o, K)) \in Nat
      /\ Cardinality(Again(d, o, L)) \in Nat /\ Cardinality(Again(e, o, K)) \in Nat
      /\ Cardinality(d.shown) \in Nat /\ Cardinality(L) \in Nat
  BY <1>3, ReadingFinite
<1>8. /\ d.left \in Nat /\ d.rows \in Nat /\ d.came \in Nat /\ d.count \in Nat
      /\ d.late \in Nat
  BY DEF Reading
<1>9. e.stable \subseteq K
  BY <1>1 DEF Fits, Comes
<1> QED
  BY <1>1, <1>4, <1>5, <1>6, <1>7, <1>8, <1>9 DEF Fits

\* A change that is none of this list's.
LEMMA FitsUntouched ==
  ASSUME NEW d, NEW L, NEW o, NEW q, Fits(d, o, L), d.stable \subseteq L,
         \A j \in L : Ahead(q, L, j) = Ahead(o, L, j)
  PROVE  Fits(d, q, L)
<1>1. \A j \in L : RankIn(q, L, j) = RankIn(o, L, j)
  BY DEF RankIn
<1>2. Missed(d, q, L) = Missed(d, o, L) /\ Again(d, q, L) = Again(d, o, L)
  BY <1>1 DEF Missed, Again, Front, Back
<1> QED
  BY <1>2 DEF Fits

-----------------------------------------------------------------------------
(* The steps of a reading.                                                 *)

\* What the quotient is, and that it grows with its factor.
LEMMA Quotient ==
  ASSUME NEW a \in Nat, NEW b \in Nat \ {0}
  PROVE  /\ a \div b \in Nat
         /\ (a \div b) * b <= a /\ a < (a \div b) * b + b
  OBVIOUS

LEMMA TimesGrows ==
  ASSUME NEW p \in Nat, NEW q \in Nat, NEW b \in Nat, p <= q
  PROVE  p * b <= q * b
  OBVIOUS

\* num_pages is the first page number behind which nothing was counted.
LEMMA PagesReach ==
  ASSUME NEW c \in Nat, NEW b \in Nat \ {0}, NEW p \in Nat
  PROVE  /\ num_pages(c, b) \in Nat \ {0}
         /\ p < num_pages(c, b) => p * b < c \/ p = 0
         /\ p >= num_pages(c, b) => p * b >= c
<1>1. CASE c = 0
  BY <1>1 DEF num_pages
<1>2. CASE c # 0
  <2> DEFINE q == (c + b - 1) \div b
  <2>1. q \in Nat /\ q * b <= c + b - 1 /\ c + b - 1 < q * b + b
    BY <1>2, Quotient
  <2>2. num_pages(c, b) = q
    BY <1>2 DEF num_pages
  <2> HIDE DEF q
  <2>3. ASSUME p < q PROVE p * b < c
    <3>1. (p + 1) * b <= q * b
      BY <2>1, <2>3, TimesGrows
    <3>2. (p + 1) * b = p * b + b
      OBVIOUS
    <3> QED
      BY <2>1, <3>1, <3>2
  <2>4. ASSUME p >= q PROVE p * b >= c
    <3>1. q * b <= p * b
      BY <2>1, <2>4, TimesGrows
    <3> QED
      BY <2>1, <3>1
  <2>5. q # 0
    BY <2>1, <1>2
  <2> QED
    BY <2>1, <2>2, <2>3, <2>4, <2>5
<1> QED
  BY <1>1, <1>2

\* The rows of list L from rank m up to rank n.
Between(o, L, m, n) == {i \in L : RankIn(o, L, i) >= m /\ RankIn(o, L, i) < n}

\* Rows shown again were to be expected.
LEMMA RowsGiven ==
  ASSUME NEW d \in Reading, NEW o, NEW L \in SUBSET Items, NEW n \in Nat, Fits(d, o, L),
         NEW P, P = Between(o, L, Behind(d), n)
  PROVE  /\ IsFiniteSet(P) /\ Cardinality(P) \in Nat
         /\ IsFiniteSet(d.shown \cup P) /\ Cardinality(d.shown \cup P) \in Nat
         /\ Cardinality(Again(d, o, L) \ P) \in Nat
         /\ d.rows + Cardinality(P) - Cardinality(d.shown \cup P)
              + Cardinality(Again(d, o, L) \ P) <= d.came
<1> DEFINE A == Again(d, o, L)
           R == d.shown \cap P
<1>1. /\ IsFiniteSet(L) /\ IsFiniteSet(d.shown) /\ IsFiniteSet(A)
      /\ Cardinality(d.shown) \in Nat /\ Cardinality(A) \in Nat
  BY ReadingFinite
<1>2. P \in SUBSET L
  BY DEF Between
<1>3. IsFiniteSet(P) /\ Cardinality(P) \in Nat
  BY <1>1, <1>2, FS_Subset, FS_CardinalityType
<1>4. A \cap P = R
  BY DEF Again, Back, Between
<1>5. /\ IsFiniteSet(d.shown \cup P) /\ Cardinality(d.shown \cup P) \in Nat
      /\ Cardinality(d.shown \cup P) = Cardinality(d.shown) + Cardinality(P) - Cardinality(R)
  BY <1>1, <1>3, FS_Union, FS_CardinalityType
<1>6. /\ IsFiniteSet(A \ P) /\ Cardinality(A \ P) \in Nat
      /\ Cardinality(A \ P) = Cardinality(A) - Cardinality(R)
  <2> HIDE DEF A, R
  <2> QED
    BY <1>1, <1>4, FS_Difference, FS_CardinalityType
<1>7. IsFiniteSet(R) /\ Cardinality(R) \in Nat
  BY <1>3, FS_Intersection, FS_CardinalityType
<1>8. d.rows - Cardinality(d.shown) + Cardinality(A) <= d.came /\ d.rows \in Nat /\ d.came \in Nat
  BY DEF Fits, Reading
<1> HIDE DEF A, R
<1>9. d.rows + Cardinality(P) - Cardinality(d.shown \cup P) + Cardinality(A \ P) <= d.came
  BY <1>1, <1>3, <1>5, <1>6, <1>7, <1>8
<1> QED
  BY <1>3, <1>5, <1>6, <1>9 DEF A

\* A page that is not the last.
LEMMA FitsNextPage ==
  ASSUME NEW d \in Reading, NEW o, NEW L \in SUBSET Items, Fits(d, o, L), d.pc = "rows",
         NEW P, P = Between(o, L, Behind(d), Behind(d) + d.size), NEW e \in Reading,
         e = [d EXCEPT !.shown = @ \cup P, !.rows = @ + Cardinality(P), !.pc = "page",
                       !.page = @ + 1]
  PROVE  Fits(e, o, L)
<1>1. /\ e.stable = d.stable /\ e.left = d.left /\ e.shown = d.shown \cup P
      /\ e.rows = d.rows + Cardinality(P) /\ e.came = d.came /\ e.late = d.late
      /\ e.page = d.page + 1 /\ e.size = d.size /\ e.count = d.count /\ e.pc = "page"
  BY DEF Reading
<1>2. d.page \in Nat /\ d.page >= 1 /\ d.size \in Nat /\ Behind(d) \in Nat
  BY BehindTyped, SizesAssumption DEF Fits, Reading
<1>3. Behind(e) = Behind(d) + d.size
  BY <1>1, <1>2 DEF Behind
<1>4. \A j \in L : RankIn(o, L, j) \in Nat
  BY ReadingFinite, AheadFinite
<1>5. Cardinality(Missed(e, o, L)) <= d.left
  <2>1. Missed(e, o, L) \in SUBSET Missed(d, o, L)
    <3> SUFFICES ASSUME NEW j \in Missed(e, o, L) PROVE j \in Missed(d, o, L)
      OBVIOUS
    <3>1. j \in d.stable /\ j \notin d.shown /\ j \notin P /\ RankIn(o, L, j) < Behind(d) + d.size
      BY <1>1, <1>3 DEF Missed, Front
    <3>2. j \in L /\ RankIn(o, L, j) \in Nat
      BY <1>4, <3>1 DEF Fits
    <3>3. ~ (RankIn(o, L, j) >= Behind(d))
      BY <3>1, <3>2 DEF Between
    <3> QED
      BY <1>2, <3>1, <3>2, <3>3 DEF Missed, Front
  <2>2. IsFiniteSet(Missed(d, o, L)) /\ Cardinality(Missed(d, o, L)) \in Nat
    BY ReadingFinite
  <2>3. Cardinality(Missed(e, o, L)) <= Cardinality(Missed(d, o, L)) /\ d.left \in Nat
        /\ Cardinality(Missed(e, o, L)) \in Nat
    BY <2>1, <2>2, FS_Subset, FS_CardinalityType DEF Reading
  <2> QED
    BY <2>2, <2>3 DEF Fits
<1>6. Cardinality(Again(e, o, L)) <= Cardinality(Again(d, o, L) \ P)
  <2>1. Again(e, o, L) \in SUBSET (Again(d, o, L) \ P)
    <3> SUFFICES ASSUME NEW j \in Again(e, o, L) PROVE j \in Again(d, o, L) /\ j \notin P
      OBVIOUS
    <3>1. j \in d.shown \cup P /\ j \in L /\ RankIn(o, L, j) >= Behind(d) + d.size
      BY <1>1, <1>3 DEF Again, Back
    <3>2. RankIn(o, L, j) \in Nat
      BY <1>4, <3>1
    <3>3. j \notin P
      BY <1>2, <3>1, <3>2 DEF Between
    <3> QED
      BY <1>2, <3>1, <3>2, <3>3 DEF Again, Back
  <2>2. IsFiniteSet(Again(d, o, L) \ P)
    BY ReadingFinite, FS_Difference
  <2> QED
    BY <2>1, <2>2, FS_Subset
<1>7. /\ Cardinality(P) \in Nat /\ Cardinality(d.shown \cup P) \in Nat
      /\ Cardinality(Again(d, o, L) \ P) \in Nat
      /\ d.rows + Cardinality(P) - Cardinality(d.shown \cup P)
           + Cardinality(Again(d, o, L) \ P) <= d.came
  BY <1>2, RowsGiven
<1>8. Cardinality(Again(e, o, L)) \in Nat /\ d.rows \in Nat /\ d.came \in Nat
  BY ReadingFinite DEF Reading
<1> QED
  BY <1>1, <1>2, <1>5, <1>6, <1>7, <1>8 DEF Fits

\* The last page: what is beyond the COUNT came late.
LEMMA LastPageExplained ==
  ASSUME NEW B \in SUBSET Items, NEW o, Orders(o, B), NEW L \in SUBSET B,
         NEW d \in Reading, Fits(d, o, L), d.pc = "rows",
         NEW P, P = Between(o, L, Behind(d), d.count), NEW e \in Reading,
         e = [d EXCEPT !.shown = @ \cup P, !.rows = @ + Cardinality(P), !.pc = "idle",
                       !.page = @ + 1]
  PROVE  Explained(e)
<1> DEFINE T == Back(o, L, L, d.count)
           M == Missed(d, o, L)
<1>1. /\ e.stable = d.stable /\ e.left = d.left /\ e.shown = d.shown \cup P
      /\ e.rows = d.rows + Cardinality(P) /\ e.came = d.came /\ e.late = d.late
  BY DEF Reading
<1>2. /\ d.page >= 1 /\ Behind(d) \in Nat /\ d.count \in Nat /\ d.late \in Nat
      /\ d.left \in Nat /\ d.rows \in Nat /\ d.came \in Nat
  BY BehindTyped DEF Fits, Reading
<1>3. IsFiniteSet(L) /\ L \in SUBSET Items
  BY ReadingFinite
<1>4. IsFiniteSet(T) /\ Cardinality(T) \in Nat /\ Cardinality(T) <= d.late
  <2>1. Cardinality(L) <= d.count + d.late
    BY DEF Fits
  <2> QED
    BY <1>2, <1>3, <2>1, TailOfList
<1>5. IsFiniteSet(M) /\ Cardinality(M) \in Nat /\ Cardinality(M) <= d.left
  BY <1>3, ReadingFinite DEF Fits
<1>6. e.stable \ e.shown \in SUBSET (M \cup T)
  <2>1. \A j \in L : RankIn(o, L, j) \in Nat
    BY <1>3, AheadFinite
  <2> QED
    BY <1>1, <1>2, <2>1 DEF Fits, Missed, Front, Back, Between
<1>7. Cardinality(e.stable \ e.shown) <= d.left + d.late
  <2> HIDE DEF M, T
  <2>1. /\ IsFiniteSet(M \cup T)
        /\ Cardinality(M \cup T) = Cardinality(M) + Cardinality(T) - Cardinality(M \cap T)
    BY <1>4, <1>5, FS_Union
  <2>2. IsFiniteSet(M \cap T) /\ Cardinality(M \cap T) \in Nat
    BY <1>4, FS_Intersection, FS_CardinalityType
  <2>3. Cardinality(e.stable \ e.shown) <= Cardinality(M \cup T)
    BY <1>6, <2>1, FS_Subset
  <2>4. Cardinality(M \cup T) \in Nat /\ Cardinality(e.stable \ e.shown) \in Nat
    BY <2>1, <1>6, FS_Subset, FS_CardinalityType
  <2> QED
    BY <1>2, <1>4, <1>5, <2>1, <2>2, <2>3, <2>4
<1>8. /\ Cardinality(P) \in Nat /\ Cardinality(d.shown \cup P) \in Nat
      /\ Cardinality(Again(d, o, L) \ P) \in Nat
      /\ d.rows + Cardinality(P) - Cardinality(d.shown \cup P)
           + Cardinality(Again(d, o, L) \ P) <= d.came
  BY <1>2, <1>3, RowsGiven
<1> QED
  BY <1>1, <1>2, <1>7, <1>8 DEF Explained

\* There is no such page any more: the reading has passed the whole list.
LEMMA GoneExplained ==
  ASSUME NEW B \in SUBSET Items, NEW o, Orders(o, B), NEW L \in SUBSET B,
         NEW d \in Reading, Fits(d, o, L), d.page > num_pages(Cardinality(L), d.size)
  PROVE  Explained(d)
<1>1. IsFiniteSet(L) /\ L \in SUBSET Items /\ Cardinality(L) \in Nat
  BY ReadingFinite
<1>2. /\ d.page - 1 \in Nat /\ d.size \in Nat \ {0} /\ Behind(d) \in Nat
      /\ d.late \in Nat /\ d.left \in Nat /\ d.rows \in Nat /\ d.came \in Nat
  BY BehindTyped, SizesAssumption DEF Fits, Reading
<1>3. num_pages(Cardinality(L), d.size) \in Nat
  BY <1>1, <1>2, PagesReach
<1>4. Behind(d) >= Cardinality(L)
  <2>1. d.page - 1 >= num_pages(Cardinality(L), d.size)
    BY <1>2, <1>3 DEF Reading
  <2>2. (d.page - 1) * d.size >= Cardinality(L)
    BY <1>1, <1>2, <2>1, PagesReach
  <2> QED
    BY <2>2 DEF Behind
<1>5. d.stable \ d.shown = Missed(d, o, L)
  <2>1. \A j \in L : RankIn(o, L, j) \in Nat /\ RankIn(o, L, j) < Cardinality(L)
    BY <1>1, AheadFinite, RankInList
  <2> QED
    BY <1>1, <1>2, <1>4, <2>1 DEF Fits, Missed, Front
<1>6. /\ Cardinality(Missed(d, o, L)) \in Nat /\ Cardinality(Again(d, o, L)) \in Nat
      /\ Cardinality(d.shown) \in Nat
  BY <1>1, ReadingFinite
<1>7. /\ Cardinality(Missed(d, o, L)) <= d.left
      /\ d.rows - Cardinality(d.shown) + Cardinality(Again(d, o, L)) <= d.came
  BY DEF Fits
<1> QED
  BY <1>2, <1>5, <1>6, <1>7 DEF Explained

-----------------------------------------------------------------------------
(* Type correctness.                                                       *)

LEMMA ListedFinite ==
  ASSUME NEW filter
  PROVE  /\ Listed(filter) \in SUBSET Items
         /\ IsFiniteSet(Listed(filter)) /\ Cardinality(Listed(filter)) \in Nat
<1>1. Listed(filter) \in SUBSET Items
  BY DEF Listed
<1> QED
  BY <1>1, ListBoundsAssumption, FS_Subset, FS_CardinalityType

LEMMA SizeTyped ==
  ASSUME NEW asked \in Asked
  PROVE  get_page_size(asked) \in 1 .. max_page_size
  BY SizesAssumption DEF get_page_size

LEMMA NoReadingTyped == NoReading \in Reading
  BY SizesAssumption DEF NoReading, Reading

\* What Becomes does to reading d, if row i gets status s.
Told(d, i, s) ==
  LET in == InList(status[i], d.filter)
      stays == InList(s, d.filter)
  IN  IF d.pc = "idle" THEN NoReading
      ELSE IF in = stays THEN d
      ELSE IF in THEN [d EXCEPT !.left = @ + 1, !.stable = @ \ {i}]
      ELSE [d EXCEPT !.came = @ + 1, !.late = @ + 1]

LEMMA ToldTyped ==
  ASSUME NEW d \in Reading, NEW i, NEW s
  PROVE  Told(d, i, s) \in Reading
<1>0. /\ d.left + 1 \in Nat /\ d.came + 1 \in Nat /\ d.late + 1 \in Nat
      /\ d.stable \ {i} \in SUBSET Items
  BY DEF Reading
<1>1. \A n \in Nat, S \in SUBSET Items : [d EXCEPT !.left = n, !.stable = S] \in Reading
  BY DEF Reading
<1>2. \A m, n \in Nat : [d EXCEPT !.came = m, !.late = n] \in Reading
  BY DEF Reading
<1> QED
  BY <1>0, <1>1, <1>2, NoReadingTyped DEF Told

LEMMA BecomesTyped ==
  ASSUME TypeOK, NEW i \in Items, NEW s \in Statuses \cup {Unborn, Pending, Deleted},
         Becomes(i, s)
  PROVE  /\ status' \in [Items -> Statuses \cup {Unborn, Pending, Deleted}]
         /\ reading' \in [Readers -> Reading]
<1>1. status' = [status EXCEPT ![i] = s]
  BY DEF Becomes
<1>2. reading' = [r \in Readers |-> Told(reading[r], i, s)]
  BY DEF Becomes, Told
<1>3. \A r \in Readers : Told(reading[r], i, s) \in Reading
  BY ToldTyped DEF TypeOK
<1> QED
  BY <1>1, <1>2, <1>3 DEF TypeOK

\* A table entry leads to a status.
LEMMA TableIsClosed ==
  ASSUME NEW from, NEW to, can_transition(from, to)
  PROVE  from \in Statuses /\ to \in Statuses
  BY DEF can_transition, TRANSITIONS, Statuses

\* The rows of a page are those between two ranks.
LEMMA SliceIsBetween ==
  ASSUME NEW L, NEW d, NEW n, n = IF Behind(d) + d.size >= d.count THEN d.count ELSE Behind(d) + d.size
  PROVE  Slice(L, d.page, d.size, d.count) = Between(newer, L, Behind(d), n)
  BY RankIsRankIn DEF Slice, Between, Behind

LEMMA PageTyped ==
  ASSUME NEW d \in Reading
  PROVE  LET slice == Slice(Listed(d.filter), d.page, d.size, d.count)
         IN  slice \in SUBSET Items /\ Cardinality(slice) \in Nat
<1>1. Slice(Listed(d.filter), d.page, d.size, d.count) \in SUBSET Listed(d.filter)
  BY DEF Slice
<1> QED
  BY <1>1, ListedFinite, FS_Subset, FS_CardinalityType

LEMMA TypeStep == TypeOK /\ [Next]_vars => TypeOK'
<1> SUFFICES ASSUME TypeOK, [Next]_vars PROVE TypeOK'
  OBVIOUS
<1>1. ASSUME NEW i \in Items, Create(i) PROVE TypeOK'
  <2>1. newer' \subseteq Items \X Items
    BY <1>1 DEF Create, TypeOK
  <2> QED
    BY <1>1, <2>1, BecomesTyped DEF Create, TypeOK
<1>2. ASSUME NEW i \in Items, Commit(i) PROVE TypeOK'
  <2>1. "RECEIVED" \in Statuses
    BY DEF Statuses
  <2> QED
    BY <1>2, <2>1, BecomesTyped DEF Commit, TypeOK
<1>3. ASSUME NEW i \in Items, Delete(i) PROVE TypeOK'
  BY <1>3, BecomesTyped DEF Delete, TypeOK
<1>4. ASSUME NEW i \in Items, NEW to \in Statuses, Move(i, to) PROVE TypeOK'
  BY <1>4, BecomesTyped DEF Move, TypeOK
<1>5. ASSUME NEW r \in Readers, NEW filter \in Filters, NEW asked \in Asked,
             Begin(r, filter, asked)
      PROVE  TypeOK'
  <2> DEFINE e == [NoReading EXCEPT !.pc = "page", !.filter = filter,
                     !.size = get_page_size(asked), !.stable = Listed(filter)]
  <2>1. e \in Reading
    BY NoReadingTyped, SizeTyped, ListedFinite DEF Reading
  <2>2. reading' = [reading EXCEPT ![r] = e] /\ UNCHANGED <<newer, status>>
    BY <1>5 DEF Begin
  <2> HIDE DEF e
  <2> QED
    BY <2>1, <2>2 DEF TypeOK
<1>6. ASSUME NEW r \in Readers, CountRows(r) PROVE TypeOK'
  <2> DEFINE count == Cardinality(Listed(reading[r].filter))
             e == [reading[r] EXCEPT !.pc = "rows", !.count = count, !.late = 0]
  <2>1. count \in Nat
    BY ListedFinite
  <2>2. e \in Reading
    <3> HIDE DEF count
    <3> QED
      BY <2>1 DEF Reading, TypeOK
  <2>3. reading' = [reading EXCEPT ![r] = e] /\ UNCHANGED <<newer, status>>
    BY <1>6 DEF CountRows
  <2> HIDE DEF e
  <2> QED
    BY <2>2, <2>3 DEF TypeOK
<1>7. ASSUME NEW r \in Readers, PageGone(r) PROVE TypeOK'
  <2> DEFINE e == [reading[r] EXCEPT !.pc = "idle"]
  <2>1. e \in Reading
    BY DEF Reading, TypeOK
  <2>2. reading' = [reading EXCEPT ![r] = e] /\ UNCHANGED <<newer, status>>
    BY <1>7 DEF PageGone
  <2> HIDE DEF e
  <2> QED
    BY <2>1, <2>2 DEF TypeOK
<1>8. ASSUME NEW r \in Readers, FetchRows(r) PROVE TypeOK'
  <2> DEFINE d == reading[r]
             P == Slice(Listed(d.filter), d.page, d.size, d.count)
             pc == IF d.page < num_pages(d.count, d.size) THEN "page" ELSE "idle"
             e == [d EXCEPT !.shown = @ \cup P, !.rows = @ + Cardinality(P), !.pc = pc,
                            !.page = @ + 1]
  <2>1. d \in Reading
    BY DEF TypeOK
  <2>2. P \in SUBSET Items /\ Cardinality(P) \in Nat
    BY <2>1, PageTyped
  <2>3. pc \in {"idle", "page", "rows"}
    OBVIOUS
  <2>4. reading' = [reading EXCEPT ![r] = e] /\ UNCHANGED <<newer, status>>
    BY <1>8 DEF FetchRows
  <2>5. e \in Reading
    <3> HIDE DEF d, P, pc
    <3>1. /\ d.rows + Cardinality(P) \in Nat /\ d.page + 1 \in Nat
          /\ d.shown \cup P \in SUBSET Items
      BY <2>1, <2>2 DEF Reading
    <3>2. \A S \in SUBSET Items, m, n \in Nat :
            [d EXCEPT !.shown = S, !.rows = m, !.pc = pc, !.page = n] \in Reading
      BY <2>1, <2>3 DEF Reading
    <3> QED
      BY <3>1, <3>2
  <2> HIDE DEF e
  <2> QED
    BY <2>4, <2>5 DEF TypeOK
<1>9. CASE UNCHANGED vars
  BY <1>9 DEF vars, TypeOK
<1> QED
  BY <1>1, <1>2, <1>3, <1>4, <1>5, <1>6, <1>7, <1>8, <1>9 DEF Next

LEMMA TypeInit == Init => TypeOK
  BY NoReadingTyped DEF Init, TypeOK

\* Every variable of the list and of its readers has its type.
THEOREM Typed == Spec => []TypeOK
  BY TypeInit, TypeStep, PTL DEF Spec

-----------------------------------------------------------------------------
(* The inductive invariant.                                                *)

Born == {i \in Items : status[i] # Unborn}

\* One reader: Explained when it is done, Fits while it is under way.
Reader(r) ==
  IF reading[r].pc = "idle" THEN Explained(reading[r])
  ELSE Fits(reading[r], newer, Listed(reading[r].filter))

Inv ==
  /\ TypeOK
  /\ Orders(newer, Born)
  /\ \A r \in Readers : Reader(r)

\* Only items that were created are listed.
LEMMA ListedBorn ==
  ASSUME TypeOK, NEW filter \in Filters \cup {EveryStatus}
  PROVE  Listed(filter) \in SUBSET Born
<1>1. \A s : InList(s, filter) => s \in Statuses
  BY FiltersAssumption DEF InList
<1> QED
  BY <1>1 DEF Listed, Born, Statuses, Unborn

LEMMA NoReadingExplained == Explained(NoReading)
  BY FS_EmptySet DEF Explained, NoReading

\* A step that keeps the list and the reading.
LEMMA ReaderKept ==
  ASSUME NEW r \in Readers, Reader(r), reading'[r] = reading[r], UNCHANGED <<newer, status>>
  PROVE  Reader(r)'
<1>1. Listed(reading[r].filter)' = Listed(reading[r].filter)
  BY DEF Listed
<1> QED
  BY <1>1 DEF Reader, Fits, Explained, Missed, Again, Front, Back, Behind, RankIn, Ahead

\* Row i gets status s, and a new row the first place of the order: every reader's
\* list loses it, gains it or stays.
LEMMA ReaderTold ==
  ASSUME Inv, TypeOK', NEW i \in Items, NEW s, Becomes(i, s),
         \/ status[i] # Unborn /\ UNCHANGED newer
         \/ /\ status[i] = Unborn /\ s = Pending
            /\ newer' = newer \cup ({i} \X Born),
         NEW r \in Readers
  PROVE  Reader(r)'
<1> DEFINE d == reading[r]
           e == reading'[r]
           L == Listed(d.filter)
           K == {j \in Items : InList(status'[j], d.filter)}
<1>1. d \in Reading /\ e \in Reading /\ d.filter \in Filters \cup {EveryStatus}
  BY DEF Inv, TypeOK, Reading
<1>2. e = Told(d, i, s)
  BY DEF Becomes, Told
<1>3. L \in SUBSET Born /\ Born \in SUBSET Items /\ Orders(newer, Born)
  BY <1>1, ListedBorn DEF Inv, Born
<1>4. \A j \in Items : /\ j # i => (j \in K <=> j \in L)
                       /\ i \in L <=> InList(status[i], d.filter)
                       /\ i \in K <=> InList(s, d.filter)
  <2>1. status'[i] = s /\ \A j \in Items : j # i => status'[j] = status[j]
    BY DEF Becomes, Inv, TypeOK
  <2>2. \A j : j \in L <=> j \in Items /\ InList(status[j], d.filter)
    BY DEF Listed
  <2>3. \A j : j \in K <=> j \in Items /\ InList(status'[j], d.filter)
    OBVIOUS
  <2> HIDE DEF d, L, K
  <2> QED
    BY <2>1, <2>2, <2>3
<1>5. K \subseteq Items /\ L \subseteq Items
  BY DEF Listed
<1>6. e.filter = d.filter => Listed(reading[r].filter)' = K
  BY DEF Listed
<1>7. CASE d.pc = "idle"
  <2>1. e = NoReading
    BY <1>2, <1>7 DEF Told
  <2> QED
    BY <2>1, NoReadingExplained DEF Reader, NoReading, Explained
<1>8. CASE d.pc # "idle"
  <2>0. Fits(d, newer, L)
    BY <1>8 DEF Inv, Reader
  <2>1. CASE InList(status[i], d.filter) = InList(s, d.filter)
    <3>1. e = d
      BY <1>2, <1>8, <2>1 DEF Told
    <3>2. K = L
      BY <1>4, <1>5, <2>1
    <3>3. i \in L => status[i] # Unborn
      BY <1>3 DEF Born
    <3>4. \A j \in L : Ahead(newer', L, j) = Ahead(newer, L, j)
      BY <3>3 DEF Ahead
    <3>5. Fits(d, newer', L)
      BY <2>0, <3>4, FitsUntouched DEF Fits
    <3> QED
      BY <1>6, <1>8, <3>1, <3>2, <3>5
         DEF Reader, Fits, Missed, Again, Front, Back, Behind, RankIn, Ahead
  <2>2. CASE InList(status[i], d.filter) # InList(s, d.filter) /\ InList(status[i], d.filter)
    <3>1. e = [d EXCEPT !.left = @ + 1, !.stable = @ \ {i}]
      BY <1>2, <1>8, <2>2 DEF Told
    <3>2. i \in L /\ K = L \ {i}
      BY <1>4, <1>5, <2>2
    <3>3. newer' = newer
      BY <1>3, <3>2 DEF Born
    <3>4. e.pc = d.pc /\ e.filter = d.filter
      BY <1>1, <3>1 DEF Reading
    <3>5. Fits(e, newer, K)
      <4> HIDE DEF d, e, L, K
      <4> QED
        BY <1>1, <1>3, <2>0, <3>1, <3>2, FitsLeaving
    <3> QED
      BY <1>6, <1>8, <3>3, <3>4, <3>5
         DEF Reader, Fits, Missed, Again, Front, Back, Behind, RankIn, Ahead
  <2>3. CASE InList(status[i], d.filter) # InList(s, d.filter) /\ ~InList(status[i], d.filter)
    <3>1. e = [d EXCEPT !.came = @ + 1, !.late = @ + 1]
      BY <1>2, <1>8, <2>3 DEF Told
    <3>2. InList(s, d.filter)
      BY <2>3 DEF InList
    <3>3. Comes(i, L, K)
      BY <1>4, <1>5, <2>3, <3>2 DEF Comes
    <3>4. s # Pending
      BY <1>1, <3>2, FiltersAssumption DEF InList, Statuses, Pending
    <3>5. newer' = newer /\ i \in Born
      BY <3>4 DEF Born
    <3>6. e.pc = d.pc /\ e.filter = d.filter
      BY <1>1, <3>1 DEF Reading
    <3>7. Fits(e, newer, K)
      <4> HIDE DEF d, e, L, K
      <4> QED
        BY <1>1, <1>3, <2>0, <3>1, <3>3, <3>5, FitsComing
    <3> QED
      BY <1>6, <1>8, <3>5, <3>6, <3>7
         DEF Reader, Fits, Missed, Again, Front, Back, Behind, RankIn, Ahead
  <2> QED
    BY <2>1, <2>2, <2>3
<1> QED
  BY <1>7, <1>8

\* The steps of reader r itself: only reading[r] changes.
LEMMA BeginFits ==
  ASSUME Inv, NEW r \in Readers, NEW filter \in Filters, NEW asked \in Asked,
         Begin(r, filter, asked)
  PROVE  Reader(r)'
<1> DEFINE L == Listed(filter)
           size == get_page_size(asked)
           e == [NoReading EXCEPT !.pc = "page", !.filter = filter, !.size = size,
                                  !.stable = L]
<1>1. e = reading'[r] /\ UNCHANGED <<newer, status>>
  BY DEF Begin, Inv, TypeOK
<1>2. /\ e.pc = "page" /\ e.filter = filter /\ e.size = size /\ e.stable = L /\ e.page = 1
      /\ e.shown = {} /\ e.rows = 0 /\ e.left = 0 /\ e.came = 0
  BY DEF NoReading
<1>3. size \in Nat
  BY SizeTyped
<1>4. Behind(e) = 0
  BY <1>2, <1>3 DEF Behind
<1>5. \A i : RankIn(newer, L, i) \in Nat
  BY ListedFinite, AheadFinite
<1>6. Missed(e, newer, L) = {} /\ Again(e, newer, L) = {}
  <2> HIDE DEF e, L
  <2> QED
    BY <1>2, <1>4, <1>5 DEF Missed, Again, Front, Back
<1>7. Fits(e, newer, L)
  <2> HIDE DEF e, L
  <2> QED
    BY <1>2, <1>6, FS_EmptySet DEF Fits
<1>8. reading'[r].filter = filter => Listed(reading[r].filter)' = L
  BY <1>1 DEF Listed
<1> HIDE DEF e, L
<1> QED
  BY <1>1, <1>2, <1>7, <1>8 DEF Reader, Fits, Missed, Again, Front, Back, Behind, RankIn, Ahead

LEMMA CountFits ==
  ASSUME Inv, NEW r \in Readers, CountRows(r)
  PROVE  Reader(r)'
<1> DEFINE d == reading[r]
           L == Listed(d.filter)
           e == [d EXCEPT !.pc = "rows", !.count = Cardinality(L), !.late = 0]
<1>1. e = reading'[r] /\ UNCHANGED <<newer, status>>
  BY DEF CountRows, Inv, TypeOK
<1>2. d \in Reading /\ Fits(d, newer, L) /\ d.page <= num_pages(Cardinality(L), d.size)
  BY DEF CountRows, Inv, TypeOK, Reader
<1>3. /\ e.pc = "rows" /\ e.filter = d.filter /\ e.size = d.size /\ e.stable = d.stable
      /\ e.page = d.page /\ e.shown = d.shown /\ e.rows = d.rows /\ e.left = d.left
      /\ e.came = d.came /\ e.count = Cardinality(L) /\ e.late = 0
  BY <1>2 DEF Reading
<1>4. Cardinality(L) \in Nat
  BY ListedFinite
<1>5. Missed(e, newer, L) = Missed(d, newer, L) /\ Again(e, newer, L) = Again(d, newer, L)
  BY <1>3 DEF Missed, Again, Behind
<1>6. Fits(e, newer, L)
  <2> HIDE DEF e, L, d
  <2> QED
    BY <1>2, <1>3, <1>4, <1>5 DEF Fits
<1>7. reading'[r].filter = d.filter => Listed(reading[r].filter)' = L
  BY <1>1 DEF Listed
<1> HIDE DEF e, L
<1> QED
  BY <1>1, <1>3, <1>6, <1>7 DEF Reader, Fits, Missed, Again, Front, Back, Behind, RankIn, Ahead

LEMMA PageGoneFits ==
  ASSUME Inv, NEW r \in Readers, PageGone(r)
  PROVE  Reader(r)'
<1> DEFINE d == reading[r]
           L == Listed(d.filter)
           e == [d EXCEPT !.pc = "idle"]
<1>1. e = reading'[r]
  BY DEF PageGone, Inv, TypeOK
<1>2. /\ d \in Reading /\ d.filter \in Filters \cup {EveryStatus} /\ Fits(d, newer, L)
      /\ d.page > num_pages(Cardinality(L), d.size)
  BY DEF PageGone, Inv, TypeOK, Reader, Reading
<1>3. L \in SUBSET Born /\ Born \in SUBSET Items /\ Orders(newer, Born)
  BY <1>2, ListedBorn DEF Inv, Born
<1>4. Explained(d)
  <2> HIDE DEF d, L
  <2> QED
    BY <1>2, <1>3, GoneExplained
<1>5. /\ e.pc = "idle" /\ e.stable = d.stable /\ e.shown = d.shown /\ e.rows = d.rows
      /\ e.left = d.left /\ e.came = d.came /\ e.late = d.late
  BY <1>2 DEF Reading
<1> HIDE DEF e, d
<1>6. Explained(e)
  BY <1>4, <1>5 DEF Explained
<1> QED
  BY <1>1, <1>5, <1>6 DEF Reader, Explained

LEMMA FetchFits ==
  ASSUME Inv, TypeOK', NEW r \in Readers, FetchRows(r)
  PROVE  Reader(r)'
<1> DEFINE d == reading[r]
           L == Listed(d.filter)
           P == Slice(L, d.page, d.size, d.count)
           more == d.page < num_pages(d.count, d.size)
           n == IF Behind(d) + d.size >= d.count THEN d.count ELSE Behind(d) + d.size
           e == reading'[r]
<1>1. /\ e = [d EXCEPT !.shown = @ \cup P, !.rows = @ + Cardinality(P),
                       !.pc = IF more THEN "page" ELSE "idle", !.page = @ + 1]
      /\ UNCHANGED <<newer, status>>
  BY DEF FetchRows, Inv, TypeOK
<1>2. /\ d \in Reading /\ e \in Reading /\ d.filter \in Filters \cup {EveryStatus}
      /\ Fits(d, newer, L) /\ d.pc = "rows"
  BY DEF FetchRows, Inv, TypeOK, Reader, Reading
<1>3. L \in SUBSET Born /\ Born \in SUBSET Items /\ L \in SUBSET Items /\ Orders(newer, Born)
  BY <1>2, ListedBorn DEF Inv, Born
<1>4. P = Between(newer, L, Behind(d), n)
  BY SliceIsBetween
<1>5. /\ d.page \in Nat /\ d.page - 1 \in Nat /\ d.page # 0 /\ d.size \in Nat \ {0}
      /\ d.count \in Nat /\ Behind(d) \in Nat
  BY <1>2, BehindTyped, SizesAssumption DEF Fits, Reading
<1>6. Behind(d) + d.size = d.page * d.size
  BY <1>5 DEF Behind
<1>7. CASE more
  <2>1. d.page * d.size < d.count
    BY <1>5, <1>7, PagesReach
  <2>2. n = Behind(d) + d.size
    BY <1>5, <1>6, <2>1
  <2>3. Fits(e, newer, L)
    <3>1. e = [d EXCEPT !.shown = @ \cup P, !.rows = @ + Cardinality(P), !.pc = "page",
                        !.page = @ + 1]
      BY <1>1, <1>7
    <3> HIDE DEF d, e, L, P, n
    <3> QED
      BY <1>2, <1>3, <1>4, <2>2, <3>1, FitsNextPage
  <2>4. e.pc = "page" /\ e.filter = d.filter
    BY <1>1, <1>2, <1>7 DEF Reading
  <2>5. e.filter = d.filter => Listed(reading[r].filter)' = L
    BY <1>1 DEF Listed
  <2>6. reading'[r] = e
    OBVIOUS
  <2> HIDE DEF L, P, n, more, d, e
  <2> QED
    BY <1>1, <2>3, <2>4, <2>5, <2>6
       DEF Reader, Fits, Missed, Again, Front, Back, Behind, RankIn, Ahead
<1>8. CASE ~more
  <2>1. d.page * d.size >= d.count
    <3>1. num_pages(d.count, d.size) \in Nat
      BY <1>5, PagesReach
    <3>2. d.page >= num_pages(d.count, d.size)
      BY <1>5, <1>8, <3>1
    <3> QED
      BY <1>5, <3>2, PagesReach
  <2>2. n = d.count
    BY <1>6, <2>1
  <2>3. Explained(e)
    <3>1. e = [d EXCEPT !.shown = @ \cup P, !.rows = @ + Cardinality(P), !.pc = "idle",
                        !.page = @ + 1]
      BY <1>1, <1>8
    <3> HIDE DEF d, e, L, P, n
    <3> QED
      BY <1>2, <1>3, <1>4, <2>2, <3>1, LastPageExplained
  <2>4. e.pc = "idle"
    BY <1>1, <1>2, <1>8 DEF Reading
  <2> QED
    BY <2>3, <2>4 DEF Reader, Explained
<1> QED
  BY <1>7, <1>8

LEMMA StepKeepsInv == Inv /\ [Next]_vars => Inv'
<1> SUFFICES ASSUME Inv, [Next]_vars PROVE Inv'
  OBVIOUS
<1>0. TypeOK'
  BY TypeStep DEF Inv
<1>1. ASSUME NEW i \in Items, Create(i) PROVE Inv'
  <2>1. status[i] = Unborn /\ newer' = newer \cup ({i} \X Born) /\ Becomes(i, Pending)
    BY <1>1 DEF Create, Born
  <2>2. Born' = Born \cup {i} /\ i \notin Born
    BY <1>0, <2>1 DEF Becomes, Inv, TypeOK, Born, Unborn, Pending
  <2>3. Orders(newer', Born')
    BY <2>1, <2>2 DEF Inv, Orders
  <2>4. \A r \in Readers : Reader(r)'
    BY <1>0, <2>1, ReaderTold
  <2> QED
    BY <1>0, <2>3, <2>4 DEF Inv
<1>2. ASSUME NEW i \in Items, NEW s, s # Unborn, status[i] # Unborn, Becomes(i, s),
             UNCHANGED newer
      PROVE  Inv'
  <2>1. Born' = Born
    BY <1>2 DEF Becomes, Inv, TypeOK, Born
  <2>2. \A r \in Readers : Reader(r)'
    BY <1>0, <1>2, ReaderTold
  <2> QED
    BY <1>0, <1>2, <2>1, <2>2 DEF Inv
<1>3. ASSUME NEW i \in Items, Commit(i) PROVE Inv'
  BY <1>2, <1>3 DEF Commit, Unborn, Pending
<1>4. ASSUME NEW i \in Items, Delete(i) PROVE Inv'
  BY <1>2, <1>4 DEF Delete, Unborn, Pending, Deleted, Statuses
<1>5. ASSUME NEW i \in Items, NEW to \in Statuses, Move(i, to) PROVE Inv'
  <2>1. status[i] \in Statuses
    BY <1>5, TableIsClosed DEF Move
  <2> QED
    BY <1>2, <1>5, <2>1 DEF Move, Unborn, Statuses
<1>6. ASSUME NEW r \in Readers, UNCHANGED <<newer, status>>, Reader(r)',
             \A q \in Readers \ {r} : reading'[q] = reading[q]
      PROVE  Inv'
  <2>1. Born' = Born
    BY <1>6 DEF Born
  <2>2. \A q \in Readers : Reader(q)'
    BY <1>6, ReaderKept DEF Inv
  <2> QED
    BY <1>0, <1>6, <2>1, <2>2 DEF Inv
<1>7. ASSUME NEW r \in Readers, NEW filter \in Filters, NEW asked \in Asked,
             Begin(r, filter, asked)
      PROVE  Inv'
  BY <1>6, <1>7, BeginFits DEF Begin, Inv, TypeOK
<1>8. ASSUME NEW r \in Readers, CountRows(r) PROVE Inv'
  BY <1>6, <1>8, CountFits DEF CountRows, Inv, TypeOK
<1>9. ASSUME NEW r \in Readers, PageGone(r) PROVE Inv'
  BY <1>6, <1>9, PageGoneFits DEF PageGone, Inv, TypeOK
<1>10. ASSUME NEW r \in Readers, FetchRows(r) PROVE Inv'
  BY <1>0, <1>6, <1>10, FetchFits DEF FetchRows, Inv, TypeOK
<1>11. CASE UNCHANGED vars
  <2>1. Born' = Born
    BY <1>11 DEF Born, vars
  <2>2. \A q \in Readers : Reader(q)'
    BY <1>11, ReaderKept DEF Inv, vars
  <2> QED
    BY <1>0, <1>11, <2>1, <2>2 DEF Inv, vars
<1> QED
  BY <1>1, <1>3, <1>4, <1>5, <1>7, <1>8, <1>9, <1>10, <1>11 DEF Next

LEMMA InitHasInv == Init => Inv
<1> SUFFICES ASSUME Init PROVE Inv
  OBVIOUS
<1>1. newer = {} /\ Born = {}
  BY DEF Init, Born
<1>2. Orders(newer, Born)
  BY <1>1 DEF Orders
<1>3. \A r \in Readers : Reader(r)
  BY NoReadingExplained DEF Init, Reader, NoReading
<1> QED
  BY <1>2, <1>3, TypeInit DEF Inv

\* At every moment of every reading each miss so far is charged to a row that left and
\* each repetition, made or still to come, to a row that came.
THEOREM Accounted == Spec => []Inv
  BY InitHasInv, StepKeepsInv, PTL DEF Spec

\* A client that reads all pages misses no more of the items that were there all the
\* time than left the list meanwhile or came between the two queries of its last page.
THEOREM LossesExplained == Spec => []LostIsExplained
<1>1. Inv => LostIsExplained
  BY DEF Inv, Reader, Explained, LostIsExplained
<1> QED
  BY <1>1, Accounted, PTL

\* It is shown no more rows twice than came into the list meanwhile.
THEOREM RepeatsExplained == Spec => []TwiceIsExplained
<1>1. Inv => TwiceIsExplained
  <2> SUFFICES ASSUME Inv, NEW r \in Readers
               PROVE  reading[r].rows - Cardinality(reading[r].shown) <= reading[r].came
    BY DEF TwiceIsExplained
  <2>1. CASE reading[r].pc = "idle"
    BY <2>1 DEF Inv, Reader, Explained
  <2>2. CASE reading[r].pc # "idle"
    <3> DEFINE d == reading[r]
               A == Again(d, newer, Listed(d.filter))
    <3>1. d \in Reading /\ d.rows - Cardinality(d.shown) + Cardinality(A) <= d.came
      BY <2>2 DEF Inv, TypeOK, Reader, Fits
    <3>2. /\ Cardinality(A) \in Nat /\ Cardinality(d.shown) \in Nat
          /\ d.rows \in Nat /\ d.came \in Nat
      BY <3>1, ListedFinite, ReadingFinite DEF Reading
    <3> HIDE DEF d, A
    <3>3. d.rows - Cardinality(d.shown) <= d.came
      BY <3>1, <3>2
    <3> QED
      BY <3>3 DEF d
  <2> QED
    BY <2>1, <2>2
<1> QED
  BY <1>1, Accounted, PTL

=============================================================================
