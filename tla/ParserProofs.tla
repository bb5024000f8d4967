---------------------------- MODULE ParserProofs ----------------------------
(***************************************************************************)
(* What the parser reads, for every text.  The scanner of                  *)
(* _first_json_object follows the counting definition of an object for as  *)
(* long as there is one, and every other reading _candidates tries is a    *)
(* part of the text with no brace before it, so that the only object it    *)
(* can hold is the one that starts at the first brace.                     *)
(*                                                                         *)
(* Where a proof goes along a text it takes the first position at which    *)
(* the claim would fail (Least) and shows that it cannot fail there.       *)
(***************************************************************************)
EXTENDS Parser, FiniteSetTheorems, SequenceTheorems, WellFoundedInduction, TLAPS

-----------------------------------------------------------------------------
(* Numbers and counting.                                                   *)

\* A set of natural numbers has a least one: of the intervals up to its members, ordered
\* by inclusion, one is minimal.
LEMMA Least ==
  ASSUME NEW T \in SUBSET Nat, T # {}
  PROVE  \E x \in T : \A y \in T : x <= y
<1> DEFINE R == StrictSubsetOrdering(Nat)
           S == FiniteSubsetsOf(Nat)
           P == {1 .. n : n \in T}
<1>1. IsWellFoundedOn(R, S) /\ P \subseteq S /\ P # {}
  <2>1. IsWellFoundedOn(R, S)
    BY FS_StrictSubsetOrderingWellFounded
  <2>2. P \subseteq S
    BY FS_Interval DEF FiniteSubsetsOf
  <2> QED
    BY <2>1, <2>2
<1>2. PICK p \in P : \A q \in P : <<q, p>> \notin R
  <2> HIDE DEF R, S, P
  <2> QED
    BY <1>1, WFMin
<1>3. PICK x \in T : p = 1 .. x
  OBVIOUS
<1>4. ASSUME NEW y \in T, y < x PROVE FALSE
  <2>1. <<1 .. y, 1 .. x>> \notin R
    BY <1>2, <1>3
  <2>2. /\ 1 .. y \in SUBSET Nat /\ 1 .. x \in SUBSET Nat
        /\ 1 .. y \subseteq 1 .. x
        /\ x \in 1 .. x /\ x \notin 1 .. y
    BY <1>4
  <2> QED
    BY <2>1, <2>2 DEF StrictSubsetOrdering
<1> QED
  BY <1>4

LEMMA MinIs ==
  ASSUME NEW T \in SUBSET Nat, T # {}
  PROVE  Min(T) \in T /\ \A y \in T : Min(T) <= y
<1>1. \E x \in T : \A y \in T : x <= y
  BY Least
<1> QED
  BY <1>1 DEF Min

LEMMA MaxIs ==
  ASSUME NEW N \in Nat, NEW T \in SUBSET (1 .. N), T # {}
  PROVE  Max(T) \in T /\ \A y \in T : y <= Max(T)
<1> DEFINE D == {N - x : x \in T}
<1>1. D \in SUBSET Nat /\ D # {}
  <2>1. \A x \in T : N - x \in Nat
    OBVIOUS
  <2> QED
    BY <2>1
<1>2. PICK d \in D : \A e \in D : d <= e
  <2> HIDE DEF D
  <2> QED
    BY <1>1, Least
<1>3. PICK x \in T : d = N - x
  OBVIOUS
<1>4. \A y \in T : y <= x
  <2> TAKE y \in T
  <2>1. N - x <= N - y /\ x \in 1 .. N /\ y \in 1 .. N
    BY <1>2, <1>3
  <2> QED
    BY <2>1
<1>5. \E z \in T : \A y \in T : z >= y
  BY <1>4
<1> QED
  BY <1>5 DEF Max

\* Counting the members below a number, one by one.
Below(S, n) == {q \in S : q < n}

LEMMA CountNext ==
  ASSUME NEW N \in Nat, NEW S \in SUBSET (1 .. N), NEW n \in Nat
  PROVE  /\ Cardinality(Below(S, n)) \in Nat
         /\ Cardinality(Below(S, n + 1)) =
              IF n \in S THEN Cardinality(Below(S, n)) + 1 ELSE Cardinality(Below(S, n))
<1>1. IsFiniteSet(1 .. N)
  BY FS_Interval
<1>2. Below(S, n) \subseteq 1 .. N
  BY DEF Below
<1>3. IsFiniteSet(Below(S, n)) /\ Cardinality(Below(S, n)) \in Nat
  BY <1>1, <1>2, FS_Subset, FS_CardinalityType
<1>4. n \notin Below(S, n)
  BY DEF Below
<1>5. Below(S, n + 1) = IF n \in S THEN Below(S, n) \cup {n} ELSE Below(S, n)
  <2>1. \A q \in S : q < n + 1 <=> q < n \/ q = n
    OBVIOUS
  <2> QED
    BY <2>1 DEF Below
<1>6. Cardinality(Below(S, n) \cup {n}) = Cardinality(Below(S, n)) + 1
  BY <1>3, <1>4, FS_AddElement
<1> QED
  BY <1>3, <1>5, <1>6

LEMMA Odd == \A n \in Nat : (n + 1) % 2 = 1 <=> ~(n % 2 = 1)
  BY SMT

LEMMA NothingIsEven == ~(Cardinality({}) % 2 = 1)
<1>1. ~(0 % 2 = 1)
  BY SMT
<1> QED
  BY <1>1, FS_EmptySet

-----------------------------------------------------------------------------
(* Escapes, strings and depth, from one token to the next.                 *)

LEMMA EscapedNext ==
  ASSUME NEW text \in Seq(Tokens), NEW n \in 1 .. Len(text)
  PROVE  /\ ~Escaped(text, 1)
         /\ Escaped(text, n + 1) <=> text[n] = "backslash" /\ ~Escaped(text, n)
<1> DEFINE Run(k) == {m \in 1 .. k - 1 : \A i \in m .. k - 1 : text[i] = "backslash"}
<1>1. Len(text) \in Nat /\ n \in Nat \ {0}
  OBVIOUS
<1>2. ~Escaped(text, 1)
  <2>1. Run(1) = {}
    OBVIOUS
  <2> QED
    BY <2>1, NothingIsEven DEF Escaped
<1>3. CASE text[n] # "backslash"
  <2>1. Run(n + 1) = {}
    BY <1>1, <1>3
  <2> QED
    BY <1>2, <1>3, <2>1, NothingIsEven DEF Escaped
<1>4. CASE text[n] = "backslash"
  <2>1. Run(n + 1) = Run(n) \cup {n}
    BY <1>1, <1>4
  <2>2. n \notin Run(n) /\ Run(n) \subseteq 1 .. n
    BY <1>1
  <2>3. IsFiniteSet(1 .. n)
    BY FS_Interval
  <2> HIDE DEF Run
  <2>4. IsFiniteSet(Run(n)) /\ Cardinality(Run(n)) \in Nat
    BY <2>2, <2>3, FS_Subset, FS_CardinalityType
  <2>5. Cardinality(Run(n + 1)) = Cardinality(Run(n)) + 1
    BY <2>1, <2>2, <2>4, FS_AddElement
  <2>6. Cardinality(Run(n + 1)) % 2 = 1 <=> ~(Cardinality(Run(n)) % 2 = 1)
    BY <2>4, <2>5, Odd
  <2>7. Escaped(text, n + 1) <=> ~Escaped(text, n)
    BY <1>1, <2>6 DEF Escaped, Run
  <2> QED
    BY <1>2, <1>4, <2>7
<1> QED
  BY <1>3, <1>4

LEMMA InStringNext ==
  ASSUME NEW text \in Seq(Tokens), NEW n \in 1 .. Len(text)
  PROVE  /\ ~InString(text, 1)
         /\ InString(text, n + 1) <=>
              IF text[n] = "quote" /\ ~Escaped(text, n) THEN ~InString(text, n)
                                                        ELSE InString(text, n)
<1>1. Quotes(text) \in SUBSET (1 .. Len(text)) /\ Len(text) \in Nat /\ n \in Nat
  BY DEF Quotes
<1>2. \A k : InString(text, k) <=> Cardinality(Below(Quotes(text), k)) % 2 = 1
  BY DEF InString, Below
<1>3. Below(Quotes(text), 1) = {}
  BY <1>1 DEF Below
<1>4. n \in Quotes(text) <=> text[n] = "quote" /\ ~Escaped(text, n)
  BY DEF Quotes
<1>5. /\ Cardinality(Below(Quotes(text), n)) \in Nat
      /\ Cardinality(Below(Quotes(text), n + 1)) =
           IF n \in Quotes(text) THEN Cardinality(Below(Quotes(text), n)) + 1
                                 ELSE Cardinality(Below(Quotes(text), n))
  BY <1>1, CountNext
<1>6. InString(text, n + 1) <=>
        IF n \in Quotes(text) THEN ~InString(text, n) ELSE InString(text, n)
  BY <1>2, <1>5, Odd
<1> QED
  BY <1>2, <1>3, <1>4, <1>6, NothingIsEven

LEMMA OutsideNext ==
  ASSUME NEW text \in Seq(Tokens), NEW n \in 1 .. Len(text), NEW token
  PROVE  LET Count(k) == Cardinality(Outside(text, token) \cap (1 .. k))
         IN  /\ Count(0) = 0
             /\ Count(n - 1) \in Nat
             /\ text[n] = token /\ ~InString(text, n) => Count(n) = Count(n - 1) + 1
             /\ text[n] # token \/ InString(text, n) => Count(n) = Count(n - 1)
<1> DEFINE A == Outside(text, token)
<1>1. A \subseteq 1 .. Len(text) /\ Len(text) \in Nat
  BY DEF Outside
<1>2. n \in A <=> text[n] = token /\ ~InString(text, n)
  BY DEF Outside
<1> HIDE DEF A
<1>3. A \cap (1 .. 0) = {}
  OBVIOUS
<1>4. A \cap (1 .. n - 1) = Below(A, n) /\ A \cap (1 .. n) = Below(A, n + 1)
  <2>1. \A q \in A : /\ q \in 1 .. n - 1 <=> q < n
                     /\ q \in 1 .. n <=> q < n + 1
    BY <1>1
  <2> QED
    BY <2>1 DEF Below
<1>5. /\ Cardinality(Below(A, n)) \in Nat
      /\ Cardinality(Below(A, n + 1)) =
           IF n \in A THEN Cardinality(Below(A, n)) + 1 ELSE Cardinality(Below(A, n))
  <2>1. A \in SUBSET (1 .. Len(text)) /\ Len(text) \in Nat /\ n \in Nat
    BY <1>1
  <2> QED
    BY <2>1, CountNext
<1> QED
  BY <1>2, <1>3, <1>4, <1>5, FS_EmptySet DEF A

LEMMA DepthNext ==
  ASSUME NEW text \in Seq(Tokens), NEW n \in 1 .. Len(text)
  PROVE  /\ Depth(text, 0) = 0
         /\ Depth(text, n - 1) \in Int
         /\ InString(text, n) => Depth(text, n) = Depth(text, n - 1)
         /\ ~InString(text, n) => Depth(text, n) = Depth(text, n - 1) + Nesting(text[n])
<1> DEFINE A(k) == Cardinality(Outside(text, "open") \cap (1 .. k))
           B(k) == Cardinality(Outside(text, "close") \cap (1 .. k))
<1>1. /\ A(0) = 0
      /\ A(n - 1) \in Nat
      /\ text[n] = "open" /\ ~InString(text, n) => A(n) = A(n - 1) + 1
      /\ text[n] # "open" \/ InString(text, n) => A(n) = A(n - 1)
  BY OutsideNext
<1>2. /\ B(0) = 0
      /\ B(n - 1) \in Nat
      /\ text[n] = "close" /\ ~InString(text, n) => B(n) = B(n - 1) + 1
      /\ text[n] # "close" \/ InString(text, n) => B(n) = B(n - 1)
  BY OutsideNext
<1>3. /\ Depth(text, 0) = A(0) - B(0)
      /\ Depth(text, n - 1) = A(n - 1) - B(n - 1)
      /\ Depth(text, n) = A(n) - B(n)
  BY DEF Depth, Balance
<1> HIDE DEF A, B
<1>4. CASE InString(text, n)
  BY <1>1, <1>2, <1>3, <1>4
<1>5. CASE ~InString(text, n)
  BY <1>1, <1>2, <1>3, <1>5 DEF Nesting
<1> QED
  BY <1>4, <1>5

\* They depend on the tokens up to there only.
LEMMA SameStart ==
  ASSUME NEW s \in Seq(Tokens), NEW t \in Seq(Tokens), NEW m \in Nat,
         m <= Len(s), m <= Len(t), \A i \in 1 .. m : s[i] = t[i]
  PROVE  \A n \in 1 .. m : Depth(s, n) = Depth(t, n)
<1>1. \A n \in 1 .. m + 1 : Escaped(s, n) <=> Escaped(t, n)
  <2> TAKE n \in 1 .. m + 1
  <2>1. {k \in 1 .. n - 1 : \A i \in k .. n - 1 : s[i] = "backslash"} =
          {k \in 1 .. n - 1 : \A i \in k .. n - 1 : t[i] = "backslash"}
    OBVIOUS
  <2> QED
    BY <2>1 DEF Escaped
<1>2. \A n \in 1 .. m : InString(s, n) <=> InString(t, n)
  <2> TAKE n \in 1 .. m
  <2>1. {q \in Quotes(s) : q < n} = {q \in Quotes(t) : q < n}
    BY <1>1 DEF Quotes
  <2> QED
    BY <2>1 DEF InString
<1>3. \A n \in 1 .. m : \A token : Outside(s, token) \cap (1 .. n) = Outside(t, token) \cap (1 .. n)
  BY <1>2 DEF Outside
<1> QED
  BY <1>3 DEF Depth, Balance

-----------------------------------------------------------------------------
(* Objects.                                                                *)

\* The brace that opens an object is closed by its last token and not before.
LEMMA ObjectShape ==
  ASSUME NEW o \in Seq(Tokens), JsonObject(o)
  PROVE  /\ Len(o) > 1 /\ o[1] = "open" /\ o[Len(o)] = "close"
         /\ Depth(o, 0) = 0
         /\ \A n \in 1 .. Len(o) - 1 : Depth(o, n) > 0
         /\ Depth(o, Len(o)) = 0
<1>1. /\ Len(o) \in Nat /\ Len(o) > 0 /\ o[1] = "open"
      /\ \A n \in 1 .. Len(o) : Depth(o, n) = 0 <=> n = Len(o)
  <2>1. o # <<>> /\ o[1] = "open" /\ \A n \in DOMAIN o : Depth(o, n) = 0 <=> n = Len(o)
    BY DEF JsonObject
  <2> QED
    BY <2>1, EmptySeq
<1>2. Depth(o, 0) = 0 /\ Depth(o, 1) = 1
  <2>1. 1 \in 1 .. Len(o)
    BY <1>1
  <2>2. /\ Depth(o, 0) = 0
        /\ ~InString(o, 1) => Depth(o, 1) = Depth(o, 1 - 1) + Nesting(o[1])
    BY <2>1, DepthNext
  <2>3. ~InString(o, 1) /\ Nesting(o[1]) = 1 /\ 1 - 1 = 0 /\ 0 + 1 = 1
    BY <1>1, <2>1, InStringNext DEF Nesting
  <2> QED
    BY <2>2, <2>3, Zenon
<1>3. Len(o) > 1
  BY <1>1, <1>2
<1>4. \A n \in 1 .. Len(o) : /\ Depth(o, n) \in Int
                             /\ Depth(o, n) >= Depth(o, n - 1) - 1
                             /\ Depth(o, n) < Depth(o, n - 1) =>
                                  ~InString(o, n) /\ o[n] = "close"
  <2> TAKE n \in 1 .. Len(o)
  <2>1. /\ Depth(o, n - 1) \in Int
        /\ InString(o, n) => Depth(o, n) = Depth(o, n - 1)
        /\ ~InString(o, n) => Depth(o, n) = Depth(o, n - 1) + Nesting(o[n])
    BY DepthNext
  <2>2. Nesting(o[n]) \in {-1, 0, 1} /\ (Nesting(o[n]) = -1 => o[n] = "close")
    BY DEF Nesting
  <2> QED
    BY <2>1, <2>2
<1>5. \A n \in 1 .. Len(o) - 1 : Depth(o, n) > 0
  <2> SUFFICES ASSUME NEW k \in 1 .. Len(o) - 1, ~(Depth(o, k) > 0) PROVE FALSE
    OBVIOUS
  <2> DEFINE T == {n \in Nat : n \in 1 .. Len(o) - 1 /\ ~(Depth(o, n) > 0)}
  <2>1. T \in SUBSET Nat /\ T # {}
    BY <1>1
  <2>2. PICK n \in T : \A m \in T : n <= m
    <3> HIDE DEF T
    <3> QED
      BY <2>1, Least
  <2>3. n \in 2 .. Len(o) - 1 /\ ~(Depth(o, n) > 0)
    BY <1>1, <1>2
  <2>4. Depth(o, n - 1) > 0
    <3>1. n - 1 \in Nat /\ n - 1 < n /\ n - 1 \in 1 .. Len(o) - 1
      BY <1>1, <2>3
    <3>2. n - 1 \notin T
      BY <2>2, <3>1
    <3> QED
      BY <3>1, <3>2
  <2>5. /\ Depth(o, n) \in Int /\ Depth(o, n - 1) \in Int
        /\ Depth(o, n) >= Depth(o, n - 1) - 1
        /\ Depth(o, n) # 0
    BY <1>1, <1>4, <2>3
  <2> QED
    BY <2>3, <2>4, <2>5
<1>6. o[Len(o)] = "close"
  <2>1. Depth(o, Len(o)) = 0 /\ Depth(o, Len(o) - 1) > 0
    BY <1>1, <1>3, <1>5
  <2> QED
    BY <1>1, <1>4, <2>1
<1> QED
  BY <1>1, <1>2, <1>3, <1>5, <1>6

\* A part of a text, and what it shares with another that starts at the same place.
LEMMA Part ==
  ASSUME NEW t \in Seq(Tokens), NEW a \in 1 .. Len(t), NEW b \in a .. Len(t)
  PROVE  /\ SubSeq(t, a, b) \in Seq(Tokens)
         /\ Len(SubSeq(t, a, b)) = b - a + 1
         /\ \A i \in 1 .. b - a + 1 : SubSeq(t, a, b)[i] = t[a + i - 1]
<1>1. a \in Int /\ b \in Int /\ a <= b /\ \A i \in a .. b : t[i] \in Tokens
  BY ElementOfSeq
<1> QED
  BY <1>1, SubSeqProperties

\* At most one object starts at a given place.
LEMMA OneObject ==
  ASSUME NEW t \in Seq(Tokens), NEW a \in 1 .. Len(t), NEW m \in a .. Len(t),
         NEW n \in a .. Len(t), JsonObject(SubSeq(t, a, m)), JsonObject(SubSeq(t, a, n))
  PROVE  m = n
<1>1. ASSUME NEW i \in a .. Len(t), NEW j \in a .. Len(t), i < j,
             JsonObject(SubSeq(t, a, i)), JsonObject(SubSeq(t, a, j))
      PROVE  FALSE
  <2> DEFINE p == SubSeq(t, a, i)
             q == SubSeq(t, a, j)
  <2>1. /\ p \in Seq(Tokens) /\ Len(p) = i - a + 1
        /\ q \in Seq(Tokens) /\ Len(q) = j - a + 1
        /\ \A k \in 1 .. i - a + 1 : p[k] = q[k]
    <3>1. /\ p \in Seq(Tokens) /\ Len(p) = i - a + 1
          /\ \A k \in 1 .. i - a + 1 : p[k] = t[a + k - 1]
      BY Part
    <3>2. /\ q \in Seq(Tokens) /\ Len(q) = j - a + 1
          /\ \A k \in 1 .. j - a + 1 : q[k] = t[a + k - 1]
      BY Part
    <3>3. \A k \in 1 .. i - a + 1 : k \in 1 .. j - a + 1
      BY <1>1
    <3>4. \A k \in 1 .. i - a + 1 : p[k] = q[k]
      <4> HIDE DEF p, q
      <4> QED
        BY <3>1, <3>2, <3>3
    <3> QED
      BY <3>1, <3>2, <3>4
  <2>2. JsonObject(p) /\ JsonObject(q)
    BY <1>1
  <2> HIDE DEF p, q
  <2>3. Depth(p, Len(p)) = 0
    BY <2>1, <2>2, ObjectShape
  <2>4. Len(p) \in 1 .. Len(q) - 1
    BY <1>1, <2>1
  <2>5. Depth(q, Len(p)) > 0
    BY <2>1, <2>2, <2>4, ObjectShape
  <2>6. Depth(p, Len(p)) = Depth(q, Len(p))
    <3>1. Len(p) \in Nat /\ Len(p) <= Len(q) /\ Len(p) \in 1 .. Len(p)
      BY <2>1, <2>4
    <3>2. \A k \in 1 .. Len(p) : p[k] = q[k]
      BY <2>1, Zenon
    <3> QED
      BY <2>1, <3>1, <3>2, SameStart
  <2> QED
    BY <2>3, <2>5, <2>6
<1> QED
  BY <1>1

-----------------------------------------------------------------------------
(* The scanner along an object.                                            *)

LEMMA ReadTyped ==
  ASSUME NEW s \in ScanState, NEW char
  PROVE  /\ Read(s, char) \in ScanState
         /\ Read(s, char).depth =
              IF s.in_string THEN s.depth ELSE s.depth + Nesting(char)
         /\ Read(s, char).in_string =
              IF s.in_string THEN s.escaped \/ char # "quote" ELSE char = "quote"
         /\ Read(s, char).escaped =
              IF s.in_string THEN ~s.escaped /\ char = "backslash" ELSE s.escaped
<1> DEFINE d == IF s.in_string THEN s.depth ELSE s.depth + Nesting(char)
           q == IF s.in_string THEN s.escaped \/ char # "quote" ELSE char = "quote"
           e == IF s.in_string THEN ~s.escaped /\ char = "backslash" ELSE s.escaped
<1>1. s.depth \in Int /\ s.in_string \in BOOLEAN /\ s.escaped \in BOOLEAN
  BY DEF ScanState
<1>2. d \in Int
  <2>1. s.depth + Nesting(char) \in Int
    BY <1>1 DEF Nesting
  <2> QED
    BY <1>1, <2>1, Zenon
<1>3. q \in BOOLEAN /\ e \in BOOLEAN
  BY <1>1, Zenon
<1>4. Read(s, char) = [depth |-> d, in_string |-> q, escaped |-> e]
  BY Zenon DEF Read
<1>5. /\ Read(s, char) \in ScanState
      /\ Read(s, char).depth = d /\ Read(s, char).in_string = q /\ Read(s, char).escaped = e
  <2> HIDE DEF d, q, e
  <2> QED
    BY <1>2, <1>3, <1>4 DEF ScanState
<1> QED
  BY <1>5, Zenon

\* The scanner over the tokens from start to m.
ScansTo(g, text, start, m) ==
  /\ g \in [start - 1 .. m -> ScanState]
  /\ g[start - 1] = Start
  /\ \A n \in start .. m : g[n] = Read(g[n - 1], text[n])

LEMMA ScansOneMore ==
  ASSUME NEW text, NEW start \in Nat \ {0}, NEW m \in Nat, start <= m,
         NEW g, ScansTo(g, text, start, m - 1)
  PROVE  \E h : ScansTo(h, text, start, m)
<1> DEFINE v == Read(g[m - 1], text[m])
           h == [n \in start - 1 .. m |-> IF n = m THEN v ELSE g[n]]
<1>1. /\ g \in [start - 1 .. m - 1 -> ScanState]
      /\ g[start - 1] = Start
      /\ \A n \in start .. m - 1 : g[n] = Read(g[n - 1], text[n])
  BY DEF ScansTo
<1>2. v \in ScanState
  <2>1. g[m - 1] \in ScanState
    BY <1>1
  <2> QED
    BY <2>1, ReadTyped
<1> HIDE DEF v
<1>3. h \in [start - 1 .. m -> ScanState] /\ h[start - 1] = Start
  BY <1>1, <1>2
<1>4. ASSUME NEW n \in start .. m PROVE h[n] = Read(h[n - 1], text[n])
  <2>1. /\ n \in start - 1 .. m /\ n - 1 \in start - 1 .. m /\ n - 1 # m
        /\ n # m => n \in start .. m - 1
    OBVIOUS
  <2>2. h[n - 1] = g[n - 1]
    BY <2>1
  <2>3. CASE n = m
    <3>1. h[n] = v
      BY <2>1, <2>3
    <3> QED
      BY <2>2, <2>3, <3>1, Zenon DEF v
  <2>4. CASE n # m
    <3>1. h[n] = g[n]
      BY <2>1, <2>4
    <3> QED
      BY <1>1, <2>1, <2>2, <2>4, <3>1, Zenon
  <2> QED
    BY <2>3, <2>4
<1>5. ScansTo(h, text, start, m)
  <2> HIDE DEF h
  <2> QED
    BY <1>3, <1>4 DEF ScansTo
<1> QED
  BY <1>5

LEMMA ScanExists ==
  ASSUME NEW text, NEW start \in Nat \ {0}, NEW m \in Nat, start <= m
  PROVE  \E g : ScansTo(g, text, start, m)
<1>1. \E g : ScansTo(g, text, start, start - 1)
  <2> DEFINE g == [n \in start - 1 .. start - 1 |-> Start]
  <2>1. Start \in ScanState
    BY DEF Start, ScanState
  <2>2. g \in [start - 1 .. start - 1 -> ScanState] /\ g[start - 1] = Start
    BY <2>1
  <2>3. start .. start - 1 = {}
    OBVIOUS
  <2> QED
    BY <2>2, <2>3 DEF ScansTo
<1> SUFFICES ASSUME ~\E g : ScansTo(g, text, start, m) PROVE FALSE
  OBVIOUS
<1> DEFINE T == {n \in Nat : start <= n /\ ~\E g : ScansTo(g, text, start, n)}
<1>2. T \in SUBSET Nat /\ T # {}
  OBVIOUS
<1>3. PICK n \in T : \A k \in T : n <= k
  BY ONLY <1>2, Least
<1>4. /\ n \in Nat /\ start <= n /\ ~\E g : ScansTo(g, text, start, n)
      /\ n - 1 \in Nat /\ n - 1 < n
  BY <1>3
<1>5. n - 1 \notin T
  <2> HIDE DEF T
  <2> QED
    BY <1>3, <1>4
<1>6. \E g : ScansTo(g, text, start, n - 1)
  <2>1. CASE start <= n - 1
    BY <1>4, <1>5, <2>1
  <2>2. CASE ~(start <= n - 1)
    <3>1. n - 1 = start - 1
      BY <1>4, <2>2
    <3> QED
      BY <1>1, <3>1
  <2> QED
    BY <2>1, <2>2
<1>7. PICK g : ScansTo(g, text, start, n - 1)
  BY <1>6
<1>8. \E h : ScansTo(h, text, start, n)
  BY <1>4, <1>7, ScansOneMore
<1> QED
  BY <1>4, <1>8

\* The recursion of the loop has a solution, so Scan is one: it begins at Start and
\* takes one turn per token.
LEMMA ScanIs ==
  ASSUME NEW text \in Seq(Tokens), NEW start \in 1 .. Len(text)
  PROVE  /\ Scan(text, start)[start - 1] = Start
         /\ \A n \in start .. Len(text) :
              Scan(text, start)[n] = Read(Scan(text, start)[n - 1], text[n])
<1> DEFINE D == start - 1 .. Len(text)
           Solves(f) == f = [n \in D |-> IF n < start THEN Start
                                                      ELSE Read(f[n - 1], text[n])]
           scan == CHOOSE f : Solves(f)
<1>1. PICK g : ScansTo(g, text, start, Len(text))
  <2>1. start \in Nat \ {0} /\ Len(text) \in Nat /\ start <= Len(text)
    OBVIOUS
  <2> QED
    BY <2>1, ScanExists
<1>2. Solves(g)
  <2>1. /\ g \in [D -> ScanState] /\ g[start - 1] = Start
        /\ \A n \in start .. Len(text) : g[n] = Read(g[n - 1], text[n])
    BY <1>1 DEF ScansTo
  <2>2. \A n \in D : g[n] = IF n < start THEN Start ELSE Read(g[n - 1], text[n])
    <3> TAKE n \in D
    <3>1. CASE n < start
      <4>1. n = start - 1
        BY <3>1
      <4> QED
        BY <2>1, <3>1, <4>1
    <3>2. CASE ~(n < start)
      <4>1. n \in start .. Len(text)
        BY <3>2
      <4> QED
        BY <2>1, <3>2, <4>1, Zenon
    <3> QED
      BY <3>1, <3>2
  <2> HIDE DEF D
  <2> QED
    BY <2>1, <2>2
<1>3. Solves(scan)
  <2> HIDE DEF Solves
  <2> QED
    BY <1>2
<1>4. Scan(text, start) = scan
  BY DEF Scan
<1>5. \A n \in D : scan[n] = IF n < start THEN Start ELSE Read(scan[n - 1], text[n])
  <2> HIDE DEF D, scan
  <2> QED
    BY <1>3
<1>6. start - 1 \in D /\ start - 1 < start
  OBVIOUS
<1>7. \A n \in start .. Len(text) : n \in D /\ ~(n < start)
  OBVIOUS
<1> HIDE DEF D, scan
<1> QED
  BY <1>4, <1>5, <1>6, <1>7, Zenon

\* Outside a string an object has no backslash, so none escapes anything there.
LEMMA EscapedInString ==
  ASSUME NEW o \in Seq(Tokens), JsonObject(o), NEW n \in 1 .. Len(o), ~InString(o, n)
  PROVE  ~Escaped(o, n) /\ o[n] # "backslash"
<1>1. \A k \in 1 .. Len(o) : ~InString(o, k) => o[k] # "backslash"
  BY DEF JsonObject, Structured
<1>2. CASE n = 1
  BY <1>1, <1>2, EscapedNext
<1>3. CASE n # 1
  <2>1. n - 1 \in 1 .. Len(o) /\ (n - 1) + 1 = n
    BY <1>3
  <2>2. Escaped(o, n) => o[n - 1] = "backslash"
    BY <2>1, EscapedNext
  <2>3. o[n - 1] = "backslash" => (InString(o, n) <=> InString(o, n - 1))
    BY <2>1, InStringNext
  <2> QED
    BY <1>1, <2>1, <2>2, <2>3
<1> QED
  BY <1>2, <1>3

\* The state after n tokens says what the counts say of the next.
Follows(s, o, n) ==
  /\ s \in ScanState
  /\ s.depth = Depth(o, n)
  /\ s.in_string <=> InString(o, n + 1)
  /\ s.escaped <=> Escaped(o, n + 1)

LEMMA TurnFollows ==
  ASSUME NEW o \in Seq(Tokens), JsonObject(o), NEW n \in 1 .. Len(o),
         NEW s, Follows(s, o, n - 1)
  PROVE  Follows(Read(s, o[n]), o, n)
<1> DEFINE r == Read(s, o[n])
<1>1. /\ s \in ScanState /\ s.depth = Depth(o, n - 1)
      /\ s.in_string <=> InString(o, n)
      /\ s.escaped <=> Escaped(o, n)
  <2>1. (n - 1) + 1 = n
    OBVIOUS
  <2> QED
    BY <2>1, Zenon DEF Follows
<1>2. /\ r \in ScanState
      /\ r.depth = IF s.in_string THEN s.depth ELSE s.depth + Nesting(o[n])
      /\ r.in_string = IF s.in_string THEN s.escaped \/ o[n] # "quote" ELSE o[n] = "quote"
      /\ r.escaped = IF s.in_string THEN ~s.escaped /\ o[n] = "backslash" ELSE s.escaped
  BY <1>1, ReadTyped
<1> HIDE DEF r
<1>3. /\ InString(o, n) => Depth(o, n) = Depth(o, n - 1)
      /\ ~InString(o, n) => Depth(o, n) = Depth(o, n - 1) + Nesting(o[n])
  BY DepthNext
<1>4. InString(o, n + 1) <=> IF o[n] = "quote" /\ ~Escaped(o, n) THEN ~InString(o, n)
                                                                ELSE InString(o, n)
  BY InStringNext
<1>5. Escaped(o, n + 1) <=> o[n] = "backslash" /\ ~Escaped(o, n)
  BY EscapedNext
<1>6. ~InString(o, n) => ~Escaped(o, n) /\ o[n] # "backslash"
  BY EscapedInString
<1>7. r.depth = Depth(o, n)
  BY <1>1, <1>2, <1>3, Zenon
<1>8. r.in_string <=> InString(o, n + 1)
  BY <1>1, <1>2, <1>4, <1>6, Zenon
<1>9. r.escaped <=> Escaped(o, n + 1)
  BY <1>1, <1>2, <1>5, <1>6, Zenon
<1> QED
  BY <1>2, <1>7, <1>8, <1>9 DEF Follows, r

LEMMA ScanFollows ==
  ASSUME NEW t \in Seq(Tokens), NEW a \in 1 .. Len(t), NEW b \in a .. Len(t),
         JsonObject(SubSeq(t, a, b))
  PROVE  \A n \in a .. b : Scan(t, a)[n].depth = Depth(SubSeq(t, a, b), n - a + 1)
<1> DEFINE o == SubSeq(t, a, b)
           f == Scan(t, a)
<1>1. /\ o \in Seq(Tokens) /\ Len(o) = b - a + 1
      /\ \A i \in 1 .. b - a + 1 : o[i] = t[a + i - 1]
  BY Part
<1>2. f[a - 1] = Start /\ \A n \in a .. Len(t) : f[n] = Read(f[n - 1], t[n])
  BY ScanIs
<1>3. JsonObject(o)
  OBVIOUS
<1> HIDE DEF o, f
<1>4. Follows(f[a - 1], o, 0)
  <2>1. Depth(o, 0) = 0 /\ ~InString(o, 1) /\ ~Escaped(o, 1)
    <3>1. 1 \in 1 .. Len(o)
      BY <1>1
    <3> QED
      BY <1>1, <3>1, DepthNext, InStringNext, EscapedNext
  <2>2. /\ Start \in ScanState /\ Start.depth = 0
        /\ Start.in_string = FALSE /\ Start.escaped = FALSE
    BY DEF Start, ScanState
  <2>3. 0 + 1 = 1
    OBVIOUS
  <2> QED
    BY <1>2, <2>1, <2>2, <2>3, Zenon DEF Follows
<1>5. ASSUME NEW n \in a .. b, Follows(f[n - 1], o, n - a)
      PROVE  Follows(f[n], o, n - a + 1)
  <2>1. /\ n - a + 1 \in 1 .. Len(o) /\ (n - a + 1) - 1 = n - a
        /\ n \in a .. Len(t) /\ a + (n - a + 1) - 1 = n
        /\ n - a + 1 \in 1 .. b - a + 1
    BY <1>1
  <2>2. o[n - a + 1] = t[n]
    <3>1. o[n - a + 1] = t[a + (n - a + 1) - 1]
      BY <1>1, <2>1
    <3> QED
      BY <2>1, <3>1
  <2>3. Follows(f[n - 1], o, (n - a + 1) - 1)
    BY <1>5, <2>1, Zenon
  <2>4. Follows(Read(f[n - 1], o[n - a + 1]), o, n - a + 1)
    BY <1>1, <1>3, <2>1, <2>3, TurnFollows
  <2> QED
    BY <1>2, <2>1, <2>2, <2>4, Zenon
<1>6. \A n \in a .. b : Follows(f[n], o, n - a + 1)
  <2> SUFFICES ASSUME NEW k \in a .. b, ~Follows(f[k], o, k - a + 1) PROVE FALSE
    OBVIOUS
  <2> DEFINE T == {n \in Nat : n \in a .. b /\ ~Follows(f[n], o, n - a + 1)}
  <2>1. T \in SUBSET Nat /\ T # {}
    OBVIOUS
  <2>2. PICK n \in T : \A m \in T : n <= m
    BY ONLY <2>1, Least
  <2>3. n \in a .. b /\ ~Follows(f[n], o, n - a + 1) /\ n - 1 \notin T
    BY <2>2
  <2>4. Follows(f[n - 1], o, n - a)
    <3>1. CASE n = a
      <4>1. n - 1 = a - 1 /\ n - a = 0
        BY <3>1
      <4> QED
        BY <1>4, <4>1, Zenon
    <3>2. CASE n # a
      <4>1. n - 1 \in Nat /\ n - 1 \in a .. b /\ (n - 1) - a + 1 = n - a
        BY <2>3, <3>2
      <4>2. Follows(f[n - 1], o, (n - 1) - a + 1)
        BY <2>3, <4>1
      <4> QED
        BY <4>1, <4>2, Zenon
    <3> QED
      BY <3>1, <3>2
  <2> QED
    BY <1>5, <2>3, <2>4
<1> QED
  BY <1>6, Zenon DEF Follows, o, f

-----------------------------------------------------------------------------
(* The object that starts at the first brace.                              *)

ObjectFromTo(t, a, b) ==
  /\ a \in 1 .. Len(t) /\ b \in a .. Len(t)
  /\ t[a] = "open" /\ \A n \in 1 .. a - 1 : t[n] # "open"
  /\ JsonObject(SubSeq(t, a, b))

LEMMA FirstBraceIs ==
  ASSUME NEW t \in Seq(Tokens), NEW a \in 1 .. Len(t), t[a] = "open",
         \A n \in 1 .. a - 1 : t[n] # "open"
  PROVE  Braces(t) # {} /\ Min(Braces(t)) = a
<1>1. /\ Braces(t) \in SUBSET Nat /\ a \in Braces(t)
      /\ \A n \in Braces(t) : n \in 1 .. Len(t) /\ a <= n
  BY DEF Braces
<1>2. Min(Braces(t)) \in Braces(t) /\ \A y \in Braces(t) : Min(Braces(t)) <= y
  BY <1>1, MinIs
<1> QED
  BY <1>1, <1>2

LEMMA BraceIsFirst ==
  ASSUME NEW t \in Seq(Tokens), Braces(t) # {}
  PROVE  /\ Min(Braces(t)) \in 1 .. Len(t) /\ t[Min(Braces(t))] = "open"
         /\ \A n \in 1 .. Min(Braces(t)) - 1 : t[n] # "open"
<1>1. Braces(t) \in SUBSET Nat
  BY DEF Braces
<1>2. Min(Braces(t)) \in Braces(t) /\ \A y \in Braces(t) : Min(Braces(t)) <= y
  BY <1>1, MinIs
<1>3. Min(Braces(t)) \in 1 .. Len(t) /\ t[Min(Braces(t))] = "open"
  BY <1>2 DEF Braces
<1>4. ASSUME NEW n \in 1 .. Min(Braces(t)) - 1, t[n] = "open" PROVE FALSE
  <2>1. n \in 1 .. Len(t) /\ n < Min(Braces(t))
    BY <1>3
  <2>2. n \in Braces(t)
    BY <1>4, <2>1 DEF Braces
  <2> QED
    BY <1>2, <1>3, <2>1, <2>2
<1> QED
  BY <1>3, <1>4

LEMMA NoneIsNoObject == ~JsonObject(None)
  BY DEF None, JsonObject

LEMMA TheObject ==
  ASSUME NEW t \in Seq(Tokens), NEW a, NEW b, ObjectFromTo(t, a, b)
  PROVE  ObjectAtFirstBrace(t) = SubSeq(t, a, b)
<1> DEFINE spans == IF Braces(t) = {} THEN {}
                    ELSE {o \in {SubSeq(t, Min(Braces(t)), n) : n \in DOMAIN t} : JsonObject(o)}
<1>1. /\ a \in 1 .. Len(t) /\ b \in a .. Len(t) /\ b \in DOMAIN t
      /\ JsonObject(SubSeq(t, a, b))
  BY DEF ObjectFromTo
<1>2. Braces(t) # {} /\ Min(Braces(t)) = a
  BY FirstBraceIs DEF ObjectFromTo
<1>3. SubSeq(t, a, b) \in spans
  BY <1>1, <1>2
<1>4. ASSUME NEW o \in spans PROVE o = SubSeq(t, a, b)
  <2>1. PICK n \in DOMAIN t : o = SubSeq(t, a, n) /\ JsonObject(o)
    BY <1>2
  <2>2. n >= a
    <3> SUFFICES ASSUME n < a PROVE FALSE
      BY <1>1, <2>1
    <3>1. n \in Int /\ a \in Int
      BY <1>1, <2>1
    <3>2. o = <<>>
      BY <2>1, <3>1, SubSeqEmpty
    <3> QED
      BY <2>1, <3>2 DEF JsonObject
  <2>3. n \in a .. Len(t) /\ JsonObject(SubSeq(t, a, n))
    BY <1>1, <2>1, <2>2
  <2>4. n = b
    BY <1>1, <2>3, OneObject
  <2> QED
    BY <2>1, <2>4
<1>5. ObjectAtFirstBrace(t) = IF spans = {} THEN None ELSE CHOOSE o \in spans : TRUE
  BY DEF ObjectAtFirstBrace
<1> HIDE DEF spans
<1> QED
  BY <1>3, <1>4, <1>5

LEMMA NoObject ==
  ASSUME NEW t \in Seq(Tokens), \A a, b : ~ObjectFromTo(t, a, b)
  PROVE  ObjectAtFirstBrace(t) = None
<1> DEFINE spans == IF Braces(t) = {} THEN {}
                    ELSE {o \in {SubSeq(t, Min(Braces(t)), n) : n \in DOMAIN t} : JsonObject(o)}
<1>1. ASSUME NEW o \in spans PROVE FALSE
  <2>1. Braces(t) # {}
    OBVIOUS
  <2> DEFINE a == Min(Braces(t))
  <2>2. PICK n \in DOMAIN t : o = SubSeq(t, a, n) /\ JsonObject(o)
    OBVIOUS
  <2>3. a \in 1 .. Len(t) /\ t[a] = "open" /\ \A m \in 1 .. a - 1 : t[m] # "open"
    BY <2>1, BraceIsFirst
  <2> HIDE DEF a
  <2>4. n >= a
    <3> SUFFICES ASSUME n < a PROVE FALSE
      BY <2>2, <2>3
    <3>1. n \in Int /\ a \in Int
      BY <2>2, <2>3
    <3>2. o = <<>>
      BY <2>2, <3>1, SubSeqEmpty
    <3> QED
      BY <2>2, <3>2 DEF JsonObject
  <2>5. ObjectFromTo(t, a, n)
    BY <2>2, <2>3, <2>4 DEF ObjectFromTo
  <2> QED
    BY <2>5
<1>2. ObjectAtFirstBrace(t) = IF spans = {} THEN None ELSE CHOOSE o \in spans : TRUE
  BY DEF ObjectAtFirstBrace
<1> HIDE DEF spans
<1> QED
  BY <1>1, <1>2

\* Where there is an object at the first brace, the scanner ends where it ends.
LEMMA FirstObject ==
  ASSUME NEW t \in Seq(Tokens), NEW a, NEW b, ObjectFromTo(t, a, b)
  PROVE  first_json_object(t) = SubSeq(t, a, b)
<1> DEFINE o == SubSeq(t, a, b)
           ends == {n \in a .. Len(t) : t[n] = "close" /\ Scan(t, a)[n].depth = 0}
<1>1. a \in 1 .. Len(t) /\ b \in a .. Len(t) /\ JsonObject(o)
  BY DEF ObjectFromTo
<1>2. Braces(t) # {} /\ Min(Braces(t)) = a
  BY FirstBraceIs DEF ObjectFromTo
<1>3. \A n \in a .. b : Scan(t, a)[n].depth = Depth(o, n - a + 1)
  BY <1>1, ScanFollows
<1>4. /\ o \in Seq(Tokens) /\ Len(o) = b - a + 1
      /\ \A i \in 1 .. b - a + 1 : o[i] = t[a + i - 1]
  BY <1>1, Part
<1> HIDE DEF o
<1>5. /\ o[Len(o)] = "close" /\ Depth(o, Len(o)) = 0
      /\ \A n \in 1 .. Len(o) - 1 : Depth(o, n) > 0
  BY <1>1, <1>4, ObjectShape
<1>6. t[b] = "close"
  <2>1. Len(o) \in 1 .. b - a + 1 /\ a + Len(o) - 1 = b
    BY <1>1, <1>4
  <2> QED
    BY <1>4, <1>5, <2>1
<1>7. b \in ends
  <2>1. b \in a .. b /\ b - a + 1 = Len(o)
    BY <1>1, <1>4
  <2>2. Scan(t, a)[b].depth = 0
    BY <1>3, <1>5, <2>1
  <2> QED
    BY <1>1, <1>6, <2>2
<1>8. ASSUME NEW n \in ends, n < b PROVE FALSE
  <2>1. n \in a .. b /\ n - a + 1 \in 1 .. Len(o) - 1 /\ Scan(t, a)[n].depth = 0
    BY <1>1, <1>4, <1>8
  <2>2. Depth(o, n - a + 1) = 0 /\ Depth(o, n - a + 1) > 0
    BY <1>3, <1>5, <2>1
  <2> QED
    BY <2>2
<1>9. ends \in SUBSET Nat /\ b \in Nat
  BY <1>1
<1>10. first_json_object(t) = IF ends = {} THEN None ELSE SubSeq(t, a, Min(ends))
  BY <1>2 DEF first_json_object
<1> HIDE DEF ends
<1>11. Min(ends) = b
  <2>1. Min(ends) \in ends /\ \A y \in ends : Min(ends) <= y
    BY <1>7, <1>9, MinIs
  <2>2. Min(ends) <= b /\ ~(Min(ends) < b) /\ Min(ends) \in Nat
    BY <1>7, <1>8, <1>9, <2>1
  <2> QED
    BY <1>9, <2>2
<1> QED
  BY <1>7, <1>10, <1>11 DEF o

-----------------------------------------------------------------------------
(* The candidates are parts of the text with no brace before them.         *)

PartOf(c, t) ==
  \/ c = <<>>
  \/ \E a \in 1 .. Len(t) : \E b \in a .. Len(t) :
       c = SubSeq(t, a, b) /\ \A n \in 1 .. a - 1 : t[n] # "open"

LEMMA Whole == ASSUME NEW t \in Seq(Tokens) PROVE PartOf(t, t)
<1>1. CASE t = <<>>
  BY <1>1 DEF PartOf
<1>2. CASE t # <<>>
  <2>1. 1 \in 1 .. Len(t) /\ Len(t) \in 1 .. Len(t)
    BY <1>2, EmptySeq
  <2>2. t = SubSeq(t, 1, Len(t)) /\ \A n \in 1 .. 1 - 1 : t[n] # "open"
    BY SubSeqFull
  <2> QED
    BY <2>1, <2>2 DEF PartOf
<1> QED
  BY <1>1, <1>2

LEMMA PartTyped ==
  ASSUME NEW t \in Seq(Tokens), NEW c, PartOf(c, t)
  PROVE  c \in Seq(Tokens)
BY Part, EmptySeq DEF PartOf

LEMMA PartOfPart ==
  ASSUME NEW t \in Seq(Tokens), NEW c, PartOf(c, t), NEW d, PartOf(d, c)
  PROVE  PartOf(d, t)
<1>1. CASE d = <<>>
  BY <1>1 DEF PartOf
<1>2. CASE d # <<>>
  <2>1. PICK i, j :
          /\ i \in 1 .. Len(c) /\ j \in i .. Len(c)
          /\ d = SubSeq(c, i, j)
          /\ \A n \in 1 .. i - 1 : c[n] # "open"
    BY <1>2 DEF PartOf
  <2>2. c # <<>>
    BY <2>1, EmptySeq
  <2>3. PICK a, b :
          /\ a \in 1 .. Len(t) /\ b \in a .. Len(t)
          /\ c = SubSeq(t, a, b)
          /\ \A n \in 1 .. a - 1 : t[n] # "open"
    BY <2>2 DEF PartOf
  <2>4. Len(c) = b - a + 1 /\ \A n \in 1 .. b - a + 1 : c[n] = t[a + n - 1]
    BY <2>3, Part
  <2>5. /\ a + i - 1 \in 1 .. Len(t) /\ a + j - 1 \in a + i - 1 .. Len(t)
        /\ b \in 1 .. Len(t) /\ i \in 1 .. b - a + 1 /\ j \in 1 .. b - a + 1
    BY <2>1, <2>3, <2>4
  <2>6. d = SubSeq(t, a + i - 1, a + j - 1)
    BY <2>1, <2>3, <2>5, SubSeqOfSubSeq
  <2>7. ASSUME NEW n \in 1 .. (a + i - 1) - 1 PROVE t[n] # "open"
    <3>1. CASE n < a
      BY <2>3, <3>1
    <3>2. CASE ~(n < a)
      <4>1. /\ n - a + 1 \in 1 .. i - 1 /\ n - a + 1 \in 1 .. b - a + 1
            /\ a + (n - a + 1) - 1 = n
        BY <2>1, <2>3, <2>4, <3>2
      <4>2. c[n - a + 1] = t[a + (n - a + 1) - 1] /\ c[n - a + 1] # "open"
        BY <2>1, <2>4, <4>1
      <4> QED
        BY <4>1, <4>2
    <3> QED
      BY <3>1, <3>2
  <2> QED
    BY <2>5, <2>6, <2>7 DEF PartOf
<1> QED
  BY <1>1, <1>2

\* str.strip takes blank ends away.
LEMMA Stripped ==
  ASSUME NEW t \in Seq(Tokens)
  PROVE  \/ strip(t) = <<>> /\ \A n \in 1 .. Len(t) : t[n] = "nl"
         \/ \E a \in 1 .. Len(t) : \E b \in a .. Len(t) :
              /\ strip(t) = SubSeq(t, a, b) /\ t[a] # "nl" /\ t[b] # "nl"
              /\ \A n \in 1 .. Len(t) : t[n] # "nl" => n \in a .. b
<1> DEFINE kept == {n \in DOMAIN t : t[n] # "nl"}
<1>1. strip(t) = IF kept = {} THEN <<>> ELSE SubSeq(t, Min(kept), Max(kept))
  BY DEF strip
<1>2. CASE kept = {}
  BY <1>1, <1>2
<1>3. CASE kept # {}
  <2>1. kept \in SUBSET Nat /\ kept \in SUBSET (1 .. Len(t)) /\ Len(t) \in Nat
    OBVIOUS
  <2>2. /\ \A n \in 1 .. Len(t) : t[n] # "nl" => n \in kept
        /\ \A n \in kept : t[n] # "nl"
    OBVIOUS
  <2> HIDE DEF kept
  <2>3. Min(kept) \in kept /\ \A y \in kept : Min(kept) <= y
    BY <1>3, <2>1, MinIs
  <2>4. Max(kept) \in kept /\ \A y \in kept : y <= Max(kept)
    BY <1>3, <2>1, MaxIs
  <2>5. Min(kept) \in 1 .. Len(t) /\ Max(kept) \in Min(kept) .. Len(t)
    <3>1. Min(kept) <= Max(kept)
      BY <2>3, <2>4
    <3>2. Min(kept) \in 1 .. Len(t) /\ Max(kept) \in 1 .. Len(t)
      BY <2>1, <2>3, <2>4, Zenon
    <3> QED
      BY <3>1, <3>2
  <2>6. \A n \in 1 .. Len(t) : t[n] # "nl" => n \in Min(kept) .. Max(kept)
    BY <2>2, <2>3, <2>4, <2>5
  <2>7. t[Min(kept)] # "nl" /\ t[Max(kept)] # "nl"
    BY <2>2, <2>3, <2>4
  <2> QED
    BY <1>1, <1>3, <2>5, <2>6, <2>7
<1> QED
  BY <1>2, <1>3

LEMMA StripIsPart == ASSUME NEW t \in Seq(Tokens) PROVE PartOf(strip(t), t)
<1>1. CASE strip(t) = <<>>
  BY <1>1 DEF PartOf
<1>2. CASE strip(t) # <<>>
  <2>1. PICK a, b :
          /\ a \in 1 .. Len(t) /\ b \in a .. Len(t)
          /\ strip(t) = SubSeq(t, a, b)
          /\ \A n \in 1 .. Len(t) : t[n] # "nl" => n \in a .. b
    BY <1>2, Stripped
  <2>2. \A n \in 1 .. a - 1 : t[n] # "open"
    <3> TAKE n \in 1 .. a - 1
    <3>1. n \in 1 .. Len(t) /\ n \notin a .. b
      BY <2>1
    <3> QED
      BY <2>1, <3>1
  <2> QED
    BY <2>1, <2>2 DEF PartOf
<1> QED
  BY <1>1, <1>2

LEMMA RestIsPart ==
  ASSUME NEW t \in Seq(Tokens), NEW a \in 1 .. Len(t) + 1,
         \A n \in 1 .. a - 1 : t[n] # "open"
  PROVE  PartOf(SubSeq(t, a, Len(t)), t)
<1>1. CASE a = Len(t) + 1
  <2>1. a \in Int /\ Len(t) \in Int /\ Len(t) < a
    BY <1>1
  <2>2. SubSeq(t, a, Len(t)) = <<>>
    BY <2>1, SubSeqEmpty
  <2> QED
    BY <2>2 DEF PartOf
<1>2. CASE a # Len(t) + 1
  <2>1. a \in 1 .. Len(t) /\ Len(t) \in a .. Len(t)
    BY <1>2
  <2> QED
    BY <2>1 DEF PartOf
<1> QED
  BY <1>1, <1>2

LEMMA StartIsPart ==
  ASSUME NEW t \in Seq(Tokens), NEW b \in 0 .. Len(t)
  PROVE  PartOf(SubSeq(t, 1, b), t)
<1>1. CASE b = 0
  <2>1. 1 \in Int /\ b \in Int /\ b < 1
    BY <1>1
  <2>2. SubSeq(t, 1, b) = <<>>
    BY <2>1, SubSeqEmpty
  <2> QED
    BY <2>2 DEF PartOf
<1>2. CASE b # 0
  <2>1. 1 \in 1 .. Len(t) /\ b \in 1 .. Len(t) /\ \A n \in 1 .. 1 - 1 : t[n] # "open"
    BY <1>2
  <2> QED
    BY <2>1 DEF PartOf
<1> QED
  BY <1>1, <1>2

LEMMA AfterOpeningIsPart == ASSUME NEW t \in Seq(Tokens) PROVE PartOf(AfterOpening(t), t)
<1> DEFINE breaks == {n \in DOMAIN t : t[n] = "nl"}
           m == Min(breaks)
           first_line == SubSeq(t, 1, m - 1)
           tag == first_line = <<"literal">> \/ \A n \in DOMAIN first_line : first_line[n] = "word"
<1>1. AfterOpening(t) = IF breaks # {} /\ tag THEN SubSeq(t, m + 1, Len(t)) ELSE t
  BY DEF AfterOpening
<1>2. CASE breaks # {} /\ tag
  <2>1. breaks \in SUBSET Nat
    OBVIOUS
  <2>2. m \in breaks
    <3> HIDE DEF breaks
    <3> QED
      BY <1>2, <2>1, MinIs
  <2>3. m \in 1 .. Len(t) /\ t[m] = "nl"
    BY <2>2
  <2> HIDE DEF breaks, m
  <2>4. ASSUME NEW n \in 1 .. m - 1 PROVE t[n] \in {"word", "literal"}
    <3>1. 1 \in 1 .. Len(t) /\ m - 1 \in 1 .. Len(t)
      BY <2>3
    <3>2. /\ first_line \in Seq(Tokens) /\ Len(first_line) = (m - 1) - 1 + 1
          /\ \A i \in 1 .. (m - 1) - 1 + 1 : first_line[i] = t[1 + i - 1]
      BY <3>1, Part
    <3>3. (m - 1) - 1 + 1 = m - 1 /\ 1 + n - 1 = n
      BY <2>3
    <3>4. first_line = <<"literal">> \/ \A k \in DOMAIN first_line : first_line[k] = "word"
      BY <1>2
    <3> HIDE DEF first_line
    <3>5. n \in DOMAIN first_line /\ first_line[n] = t[n]
      BY <3>2, <3>3
    <3> QED
      BY <3>4, <3>5
  <2>5. \A n \in 1 .. (m + 1) - 1 : t[n] # "open"
    <3> TAKE n \in 1 .. (m + 1) - 1
    <3>1. n = m \/ n \in 1 .. m - 1
      BY <2>3
    <3> QED
      BY <2>3, <2>4, <3>1
  <2>6. m + 1 \in 1 .. Len(t) + 1
    BY <2>3
  <2>7. PartOf(SubSeq(t, m + 1, Len(t)), t)
    BY <2>5, <2>6, RestIsPart
  <2> QED
    BY <1>1, <1>2, <2>7
<1>3. CASE ~(breaks # {} /\ tag)
  BY <1>1, <1>3, Whole
<1> QED
  BY <1>2, <1>3

\* What strip_code_fence strips is a part of a text that starts with a fence.
LEMMA FenceHolds ==
  ASSUME NEW t \in Seq(Tokens), t # <<>>, Head(t) = "fence"
  PROVE  \E kept \in Seq(Tokens) : strip_code_fence(t) = strip(kept) /\ PartOf(kept, t)
<1> DEFINE inside == AfterOpening(Tail(t))
           closing == {n \in DOMAIN inside : inside[n] = "fence"}
           kept == IF closing = {} THEN inside ELSE SubSeq(inside, 1, Max(closing) - 1)
<1>1. strip_code_fence(t) = strip(kept)
  BY DEF strip_code_fence
<1>2. PartOf(Tail(t), t)
  <2>1. Tail(t) = SubSeq(t, 2, Len(t)) /\ t[1] = "fence" /\ 2 \in 1 .. Len(t) + 1
    BY TailIsSubSeq, EmptySeq
  <2>2. \A n \in 1 .. 2 - 1 : t[n] # "open"
    BY <2>1
  <2> QED
    BY <2>1, <2>2, RestIsPart
<1>3. Tail(t) \in Seq(Tokens)
  BY <1>2, PartTyped
<1>4. PartOf(inside, Tail(t)) /\ inside \in Seq(Tokens)
  BY <1>3, AfterOpeningIsPart, PartTyped
<1> HIDE DEF inside
<1>5. PartOf(kept, inside)
  <2>1. CASE closing = {}
    BY <1>4, <2>1, Whole
  <2>2. CASE closing # {}
    <3>1. Len(inside) \in Nat /\ closing \in SUBSET (1 .. Len(inside))
      BY <1>4
    <3>2. Max(closing) \in closing
      <4> HIDE DEF closing
      <4> QED
        BY <2>2, <3>1, MaxIs
    <3>3. Max(closing) - 1 \in 0 .. Len(inside)
      BY <3>1, <3>2
    <3> HIDE DEF closing
    <3>4. PartOf(SubSeq(inside, 1, Max(closing) - 1), inside)
      BY <1>4, <3>3, StartIsPart
    <3> QED
      BY <2>2, <3>4
  <2> QED
    BY <2>1, <2>2
<1> HIDE DEF kept
<1>6. PartOf(kept, t) /\ kept \in Seq(Tokens)
  BY <1>2, <1>3, <1>4, <1>5, PartOfPart, PartTyped
<1> QED
  BY <1>1, <1>6

LEMMA StripFenceIsPart == ASSUME NEW t \in Seq(Tokens) PROVE PartOf(strip_code_fence(t), t)
<1>1. CASE t = <<>> \/ Head(t) # "fence"
  BY <1>1, Whole DEF strip_code_fence
<1>2. CASE t # <<>> /\ Head(t) = "fence"
  <2>1. PICK kept \in Seq(Tokens) : strip_code_fence(t) = strip(kept) /\ PartOf(kept, t)
    BY <1>2, FenceHolds
  <2> QED
    BY <2>1, StripIsPart, PartOfPart
<1> QED
  BY <1>1, <1>2

LEMMA FirstObjectIsPart ==
  ASSUME NEW t \in Seq(Tokens)
  PROVE  first_json_object(t) = None \/ PartOf(first_json_object(t), t)
<1>1. CASE Braces(t) = {}
  BY <1>1 DEF first_json_object
<1>2. CASE Braces(t) # {}
  <2> DEFINE start == Min(Braces(t))
             ends == {n \in start .. Len(t) : t[n] = "close" /\ Scan(t, start)[n].depth = 0}
  <2>1. first_json_object(t) = IF ends = {} THEN None ELSE SubSeq(t, start, Min(ends))
    BY <1>2 DEF first_json_object
  <2>2. /\ start \in 1 .. Len(t) /\ \A n \in 1 .. start - 1 : t[n] # "open"
    BY <1>2, BraceIsFirst
  <2>3. CASE ends = {}
    BY <2>1, <2>3
  <2>4. CASE ends # {}
    <3> HIDE DEF start
    <3>1. ends \in SUBSET Nat
      BY <2>2
    <3>2. Min(ends) \in ends
      <4> HIDE DEF ends
      <4> QED
        BY <2>4, <3>1, MinIs
    <3>3. Min(ends) \in start .. Len(t)
      BY <3>2
    <3> HIDE DEF ends
    <3> QED
      BY <2>1, <2>2, <2>4, <3>3 DEF PartOf
  <2> QED
    BY <2>3, <2>4
<1> QED
  BY <1>1, <1>2

\* So an object that is a part is the one at the first brace.
LEMMA PartIsTheObject ==
  ASSUME NEW t \in Seq(Tokens), NEW c, PartOf(c, t), JsonObject(c)
  PROVE  ObjectAtFirstBrace(t) = c
<1>1. PICK a, b :
        /\ a \in 1 .. Len(t) /\ b \in a .. Len(t)
        /\ c = SubSeq(t, a, b)
        /\ \A n \in 1 .. a - 1 : t[n] # "open"
  BY DEF PartOf, JsonObject
<1>2. t[a] = "open"
  <2>1. 1 \in 1 .. b - a + 1 /\ a + 1 - 1 = a
    BY <1>1
  <2>2. c[1] = t[a + 1 - 1]
    BY <1>1, <2>1, Part
  <2> QED
    BY <2>1, <2>2 DEF JsonObject
<1>3. ObjectFromTo(t, a, b)
  BY <1>1, <1>2 DEF ObjectFromTo
<1> QED
  BY <1>1, <1>3, TheObject

\* The ends that str.strip takes away leave the object where it is.
LEMMA StripKeepsObject ==
  ASSUME NEW t \in Seq(Tokens), NEW a, NEW b, ObjectFromTo(t, a, b)
  PROVE  \E i, j : ObjectFromTo(strip(t), i, j) /\ SubSeq(strip(t), i, j) = SubSeq(t, a, b)
<1>1. /\ a \in 1 .. Len(t) /\ b \in a .. Len(t) /\ t[a] = "open"
      /\ \A n \in 1 .. a - 1 : t[n] # "open"
      /\ JsonObject(SubSeq(t, a, b))
  BY DEF ObjectFromTo
<1>2. t[b] = "close"
  <2> DEFINE o == SubSeq(t, a, b)
  <2>1. /\ o \in Seq(Tokens) /\ Len(o) = b - a + 1
        /\ \A i \in 1 .. b - a + 1 : o[i] = t[a + i - 1]
    BY <1>1, Part
  <2>2. JsonObject(o)
    BY <1>1
  <2> HIDE DEF o
  <2>3. o[Len(o)] = "close"
    BY <2>1, <2>2, ObjectShape
  <2>4. Len(o) \in 1 .. b - a + 1 /\ a + Len(o) - 1 = b
    BY <1>1, <2>1
  <2> QED
    BY <2>1, <2>3, <2>4
<1>3. PICK k, l :
        /\ k \in 1 .. Len(t) /\ l \in k .. Len(t)
        /\ strip(t) = SubSeq(t, k, l)
        /\ \A n \in 1 .. Len(t) : t[n] # "nl" => n \in k .. l
  BY <1>1, Stripped
<1>4. a \in k .. l /\ b \in k .. l
  BY <1>1, <1>2, <1>3
<1> DEFINE s == SubSeq(t, k, l)
           i == a - k + 1
           j == b - k + 1
<1>5. /\ s \in Seq(Tokens) /\ Len(s) = l - k + 1
      /\ \A n \in 1 .. l - k + 1 : s[n] = t[k + n - 1]
  BY <1>3, Part
<1>6. SubSeq(s, i, j) = SubSeq(t, a, b)
  <2>1. /\ l \in 1 .. Len(t) /\ i \in 1 .. l - k + 1 /\ j \in 1 .. l - k + 1
        /\ k + i - 1 = a /\ k + j - 1 = b
    BY <1>1, <1>3, <1>4
  <2> HIDE DEF i, j
  <2>2. SubSeq(SubSeq(t, k, l), i, j) = SubSeq(t, k + i - 1, k + j - 1)
    BY <1>3, <2>1, SubSeqOfSubSeq
  <2> QED
    BY <2>1, <2>2
<1>7. i \in 1 .. Len(s) /\ j \in i .. Len(s) /\ k + i - 1 = a
  BY <1>1, <1>3, <1>4, <1>5
<1> HIDE DEF s, j
<1>8. s[i] = "open"
  BY <1>1, <1>5, <1>7
<1>9. ASSUME NEW n \in 1 .. i - 1 PROVE s[n] # "open"
  <2>1. n \in 1 .. l - k + 1 /\ k + n - 1 \in 1 .. a - 1
    BY <1>1, <1>3, <1>4
  <2> QED
    BY <1>1, <1>5, <2>1
<1>10. ObjectFromTo(s, i, j)
  <2> HIDE DEF i
  <2> QED
    BY <1>1, <1>6, <1>7, <1>8, <1>9 DEF ObjectFromTo
<1> QED
  BY <1>3, <1>6, <1>10 DEF s

\* An object has nothing to strip.
LEMMA ObjectIsStripped ==
  ASSUME NEW t \in Seq(Tokens), NEW a, NEW b, ObjectFromTo(t, a, b)
  PROVE  strip(SubSeq(t, a, b)) = SubSeq(t, a, b)
<1> DEFINE o == SubSeq(t, a, b)
<1>1. o \in Seq(Tokens) /\ JsonObject(o)
  BY Part DEF ObjectFromTo
<1> HIDE DEF o
<1>2. Len(o) > 1 /\ o[1] = "open" /\ o[Len(o)] = "close" /\ Len(o) \in Nat
  BY <1>1, ObjectShape
<1>3. 1 \in 1 .. Len(o) /\ Len(o) \in 1 .. Len(o) /\ o[1] # "nl" /\ o[Len(o)] # "nl"
  BY <1>2
<1>4. PICK k, l :
        /\ k \in 1 .. Len(o) /\ l \in k .. Len(o)
        /\ strip(o) = SubSeq(o, k, l)
        /\ \A n \in 1 .. Len(o) : o[n] # "nl" => n \in k .. l
  BY <1>1, <1>3, Stripped
<1>5. 1 \in k .. l /\ Len(o) \in k .. l
  BY <1>3, <1>4
<1>6. k = 1 /\ l = Len(o)
  BY <1>2, <1>4, <1>5
<1>7. strip(o) = o
  BY <1>1, <1>4, <1>6, SubSeqFull
<1> QED
  BY <1>7 DEF o

-----------------------------------------------------------------------------
(* _extract_json_object.                                                   *)

LEMMA NothingStripped == strip(None) = None /\ ~Json(None)
<1> DEFINE kept == {n \in DOMAIN None : None[n] # "nl"}
<1>1. DOMAIN None = {1} /\ None[1] = "no text" /\ Len(None) = 1
  BY DEF None
<1>2. kept = {1}
  BY <1>1
<1>3. strip(None) = SubSeq(None, Min({1}), Max({1}))
  BY <1>2 DEF strip
<1>4. Min({1}) = 1 /\ Max({1}) = 1
  <2>1. {1} \in SUBSET Nat /\ {1} \in SUBSET (1 .. 1) /\ {1} # {} /\ 1 \in Nat
    OBVIOUS
  <2> QED
    BY <2>1, MinIs, MaxIs
<1>5. SubSeq(None, 1, 1) = None
  <2>1. None \in Seq({"no text"})
    BY DEF None
  <2> QED
    BY <1>1, <2>1, SubSeqFull
<1>6. ~JsonString(None)
  <2>1. JsonString(None) => Len(None) > 1
    BY Zenon DEF JsonString
  <2>2. ~(Len(None) > 1)
    BY SMT DEF None
  <2> QED
    BY <2>1, <2>2, Zenon
<1>7. ~Json(None)
  <2>1. None[1] # "lbracket" /\ None \notin {<<"number">>, <<"literal">>}
    <3>1. None[1] = "no text" /\ <<"number">>[1] = "number" /\ <<"literal">>[1] = "literal"
      BY SMT DEF None
    <3> QED
      BY <3>1
  <2>2. ~JsonArray(None)
    BY <2>1, Zenon DEF JsonArray
  <2> QED
    BY <1>6, <2>1, <2>2, NoneIsNoObject, Zenon DEF Json
<1>8. strip(None) = None
  <2>1. SubSeq(None, Min({1}), Max({1})) = SubSeq(None, 1, 1)
    BY <1>4, Zenon
  <2> QED
    BY <1>3, <1>5, <2>1, Zenon
<1> QED
  BY <1>7, <1>8

LEMMA Candidates ==
  ASSUME NEW t \in Seq(Tokens), NEW n \in 1 .. 4
  PROVE  candidates(t)[n] = None \/ PartOf(candidates(t)[n], t)
<1>1. PartOf(strip_code_fence(t), t) /\ strip_code_fence(t) \in Seq(Tokens)
  BY StripFenceIsPart, PartTyped
<1>2. \/ first_json_object(strip_code_fence(t)) = None
      \/ PartOf(first_json_object(strip_code_fence(t)), t)
  BY <1>1, FirstObjectIsPart, PartOfPart
<1>3. PartOf(t, t)
  BY Whole
<1>4. first_json_object(t) = None \/ PartOf(first_json_object(t), t)
  BY FirstObjectIsPart
<1> QED
  BY <1>1, <1>2, <1>3, <1>4 DEF candidates

\* What starts with a brace is an object if it is anything.
LEMMA OpenIsObject ==
  ASSUME NEW t, Json(t), t[1] = "open"
  PROVE  JsonObject(t)
<1>1. ~JsonArray(t)
  BY DEF JsonArray
<1>2. ~JsonString(t)
  BY DEF JsonString, Quotes
<1>3. t \notin {<<"number">>, <<"literal">>}
  OBVIOUS
<1> QED
  BY <1>1, <1>2, <1>3 DEF Json

LEMMA StripAgain == ASSUME NEW t \in Seq(Tokens) PROVE strip(strip(t)) = strip(t)
<1>1. CASE strip(t) = <<>>
  <2>1. {n \in DOMAIN <<>> : <<>>[n] # "nl"} = {}
    OBVIOUS
  <2>2. strip(<<>>) = <<>>
    BY <2>1, Zenon DEF strip
  <2> QED
    BY <1>1, <2>2, Zenon
<1>2. CASE strip(t) # <<>>
  <2>1. PICK a, b :
          /\ a \in 1 .. Len(t) /\ b \in a .. Len(t)
          /\ strip(t) = SubSeq(t, a, b) /\ t[a] # "nl" /\ t[b] # "nl"
    BY <1>2, Stripped
  <2> DEFINE s == SubSeq(t, a, b)
  <2>2. /\ s \in Seq(Tokens) /\ Len(s) = b - a + 1
        /\ \A i \in 1 .. b - a + 1 : s[i] = t[a + i - 1]
    BY <2>1, Part
  <2>3. /\ 1 \in 1 .. b - a + 1 /\ b - a + 1 \in 1 .. b - a + 1
        /\ a + 1 - 1 = a /\ a + (b - a + 1) - 1 = b
    BY <2>1
  <2> HIDE DEF s
  <2>4. s[1] # "nl" /\ s[Len(s)] # "nl" /\ 1 \in 1 .. Len(s) /\ Len(s) \in 1 .. Len(s)
    BY <2>1, <2>2, <2>3
  <2>5. PICK k, l :
          /\ k \in 1 .. Len(s) /\ l \in k .. Len(s)
          /\ strip(s) = SubSeq(s, k, l)
          /\ \A n \in 1 .. Len(s) : s[n] # "nl" => n \in k .. l
    BY <2>2, <2>4, Stripped
  <2>6. k = 1 /\ l = Len(s)
    BY <2>4, <2>5
  <2>7. strip(s) = s
    BY <2>2, <2>5, <2>6, SubSeqFull
  <2> QED
    BY <2>1, <2>7 DEF s
<1> QED
  BY <1>1, <1>2

LEMMA OpenStaysFirst ==
  ASSUME NEW t \in Seq(Tokens), t # <<>>, t[1] = "open"
  PROVE  strip(t)[1] = "open"
<1>1. 1 \in 1 .. Len(t) /\ t[1] # "nl"
  BY EmptySeq
<1>2. PICK a, b :
        /\ a \in 1 .. Len(t) /\ b \in a .. Len(t)
        /\ strip(t) = SubSeq(t, a, b)
        /\ \A n \in 1 .. Len(t) : t[n] # "nl" => n \in a .. b
  BY <1>1, Stripped
<1>3. a = 1 /\ 1 \in 1 .. b - a + 1 /\ a + 1 - 1 = 1
  BY <1>1, <1>2
<1>4. SubSeq(t, a, b)[1] = t[a + 1 - 1]
  BY <1>2, <1>3, Part
<1> QED
  BY <1>2, <1>3, <1>4

LEMMA FirstObjectOpens ==
  ASSUME NEW t \in Seq(Tokens), first_json_object(t) # None
  PROVE  /\ first_json_object(t) \in Seq(Tokens) /\ first_json_object(t) # <<>>
         /\ first_json_object(t)[1] = "open"
<1>1. Braces(t) # {}
  BY DEF first_json_object
<1> DEFINE start == Min(Braces(t))
           ends == {n \in start .. Len(t) : t[n] = "close" /\ Scan(t, start)[n].depth = 0}
<1>2. first_json_object(t) = SubSeq(t, start, Min(ends)) /\ ends # {}
  BY <1>1 DEF first_json_object
<1>3. start \in 1 .. Len(t) /\ t[start] = "open"
  BY <1>1, BraceIsFirst
<1> HIDE DEF start
<1>4. Min(ends) \in start .. Len(t)
  <2>1. ends \in SUBSET Nat
    BY <1>3
  <2>2. ends \subseteq start .. Len(t)
    OBVIOUS
  <2> HIDE DEF ends
  <2> QED
    BY <1>2, <2>1, <2>2, MinIs
<1> DEFINE e == Min(ends)
<1> HIDE DEF e, ends
<1>5. e \in start .. Len(t) /\ first_json_object(t) = SubSeq(t, start, e)
  BY <1>2, <1>4 DEF e
<1>6. /\ SubSeq(t, start, e) \in Seq(Tokens) /\ Len(SubSeq(t, start, e)) = e - start + 1
      /\ \A i \in 1 .. e - start + 1 : SubSeq(t, start, e)[i] = t[start + i - 1]
  BY <1>3, <1>5, Part
<1>7. 1 \in 1 .. e - start + 1 /\ start + 1 - 1 = start /\ e - start + 1 > 0
  BY <1>3, <1>5
<1> QED
  BY <1>3, <1>5, <1>6, <1>7, EmptySeq

\* Out of its fence a text is stripped.
LEMMA FenceStripped ==
  ASSUME NEW raw \in Seq(Tokens)
  PROVE  strip(strip_code_fence(strip(raw))) = strip_code_fence(strip(raw))
<1> DEFINE t == strip(raw)
<1>1. t \in Seq(Tokens) /\ strip(t) = t
  BY StripIsPart, PartTyped, StripAgain
<1> SUFFICES strip(strip_code_fence(t)) = strip_code_fence(t)
  OBVIOUS
<1> HIDE DEF t
<1>2. CASE t = <<>> \/ Head(t) # "fence"
  BY <1>1, <1>2 DEF strip_code_fence
<1>3. CASE t # <<>> /\ Head(t) = "fence"
  <2>1. PICK kept : strip_code_fence(t) = strip(kept) /\ kept \in Seq(Tokens)
    BY <1>1, <1>3, FenceHolds
  <2> QED
    BY <2>1, StripAgain
<1> QED
  BY <1>2, <1>3

LEMMA Extracted ==
  ASSUME NEW raw \in Seq(Tokens)
  PROVE  LET read == extract_json_object(raw)
         IN  \/ read = ObjectAtFirstBrace(raw)
             \/ read \in WholeReadings(raw) /\ Json(read) /\ ~JsonObject(read)
<1> DEFINE t == strip(raw)
           tries == candidates(t)
           good == {n \in DOMAIN tries : Json(strip(tries[n]))}
<1>1. extract_json_object(raw) = IF good = {} THEN None ELSE strip(tries[Min(good)])
  BY DEF extract_json_object
<1>2. PartOf(t, raw) /\ t \in Seq(Tokens)
  BY StripIsPart, PartTyped
<1>3. DOMAIN tries = 1 .. 4 /\ tries[3] = first_json_object(t)
  BY DEF candidates
<1>4. CASE good # {}
  <2>1. good \in SUBSET Nat
    BY <1>3
  <2>2. Min(good) \in good
    <3> HIDE DEF good
    <3> QED
      BY <1>4, <2>1, MinIs
  <2> DEFINE c == tries[Min(good)]
  <2>3. Json(strip(c)) /\ Min(good) \in 1 .. 4
    BY <1>3, <2>2
  <2>4. c = None \/ PartOf(c, t)
    BY <1>2, <2>3, Candidates
  <2>5. extract_json_object(raw) = strip(c)
    BY <1>1, <1>4
  <2> HIDE DEF c, tries, good, t
  <2>6. PartOf(c, t)
    BY <2>3, <2>4, NothingStripped
  <2>7. PartOf(strip(c), raw)
    BY <1>2, <2>6, StripIsPart, PartOfPart, PartTyped
  <2>8. CASE JsonObject(strip(c))
    BY <2>5, <2>7, <2>8, PartIsTheObject
  <2>9. CASE ~JsonObject(strip(c))
    <3>1. CASE Min(good) = 1
      <4>1. strip(c) = t
        BY <3>1, StripAgain DEF c, tries, candidates, t
      <4> QED
        BY <2>3, <2>5, <2>9, <4>1 DEF WholeReadings, t
    <3>2. CASE Min(good) = 2
      <4>1. strip(c) = strip_code_fence(t)
        BY <3>2, FenceStripped DEF c, tries, candidates, t
      <4> QED
        BY <2>3, <2>5, <2>9, <4>1 DEF WholeReadings, t
    <3>3. ASSUME Min(good) \notin {1, 2} PROVE FALSE
      <4>1. c = first_json_object(t) \/ c = first_json_object(strip_code_fence(t))
        BY <2>3, <3>3 DEF c, tries, candidates
      <4>2. strip_code_fence(t) \in Seq(Tokens) /\ c # None
        BY <1>2, <2>3, StripFenceIsPart, PartTyped, NothingStripped
      <4>3. c \in Seq(Tokens) /\ c # <<>> /\ c[1] = "open"
        BY <1>2, <4>1, <4>2, FirstObjectOpens
      <4>4. strip(c)[1] = "open"
        BY <4>3, OpenStaysFirst
      <4> QED
        BY <2>3, <2>9, <4>4, OpenIsObject
    <3> QED
      BY <3>1, <3>2, <3>3
  <2> QED
    BY <2>8, <2>9
<1>5. CASE good = {}
  <2>1. extract_json_object(raw) = None
    BY <1>1, <1>5
  <2>2. ASSUME NEW a, NEW b, ObjectFromTo(raw, a, b) PROVE FALSE
    <3>1. PICK i, j : ObjectFromTo(t, i, j)
      BY <2>2, StripKeepsObject
    <3>2. tries[3] = SubSeq(t, i, j) /\ JsonObject(SubSeq(t, i, j))
      BY <1>2, <1>3, <3>1, FirstObject DEF ObjectFromTo
    <3>3. strip(SubSeq(t, i, j)) = SubSeq(t, i, j)
      BY <1>2, <3>1, ObjectIsStripped
    <3>4. 3 \in DOMAIN tries /\ Json(strip(tries[3]))
      BY <1>3, <3>2, <3>3 DEF Json
    <3>5. 3 \in good
      BY <3>4
    <3> QED
      BY <1>5, <3>5
  <2>3. ObjectAtFirstBrace(raw) = None
    BY <2>2, NoObject
  <2> QED
    BY <2>1, <2>3
<1> QED
  BY <1>4, <1>5

\* Whatever the text: what is read is the object that starts at its first brace, and
\* nothing is read just when none starts there; unless the text as a whole, or what its
\* fence holds, is JSON that is no object (an array around one, a string, a number, true,
\* false or null), which is what is read and starts with no brace.
THEOREM ReadsTheObject ==
  ASSUME NEW raw \in Seq(Tokens)
  PROVE  LET read == extract_json_object(raw)
         IN  \/ read = ObjectAtFirstBrace(raw)
             \/ /\ read \in WholeReadings(raw) /\ Json(read) /\ ~JsonObject(read)
                /\ read[1] # "open"
<1> DEFINE read == extract_json_object(raw)
<1>1. CASE read \in WholeReadings(raw) /\ Json(read) /\ ~JsonObject(read)
  BY <1>1, OpenIsObject
<1> QED
  BY <1>1, Extracted

=============================================================================
