----------------------------- MODULE PagingProofs -----------------------------
(***************************************************************************)
(* Safety of a scan for every table, page size, list of default            *)
(* attributes and number of writes in between.                             *)
(***************************************************************************)
EXTENDS Paging, FiniteSetTheorems, TLAPS

Row == [id : Ids, val : Values]

-----------------------------------------------------------------------------
\* Numbers and finite sets.

LEMMA Least ==
    ASSUME NEW T \in SUBSET Nat, T # {}
    PROVE  \E x \in T : \A y \in T : x <= y
<1>1. IsWellFoundedOn(OpToRel(<, Nat), Nat)
  BY NatLessThanWellFounded
<1>2. PICK x \in T : \A y \in T : ~ (<<y, x>> \in OpToRel(<, Nat))
  BY <1>1, WFMin
<1>3. ASSUME NEW y \in T PROVE x <= y
  <2>1. ~ (y < x)
    BY <1>2 DEF OpToRel
  <2>2. x \in Nat /\ y \in Nat
    OBVIOUS
  <2> QED
    BY <2>1, <2>2
<1> QED
  BY <1>3

LEMMA Greatest ==
    ASSUME NEW n \in Nat, NEW T \in SUBSET (0..n), T # {}
    PROVE  \E x \in T : \A y \in T : x >= y
<1> DEFINE U == {u \in 0..n : n - u \in T}
<1>1. U # {} /\ U \in SUBSET Nat
  <2>1. PICK x \in T : TRUE
    OBVIOUS
  <2>2. x \in 0..n
    OBVIOUS
  <2>3. n - x \in 0..n /\ n - (n - x) = x
    BY <2>2
  <2>4. n - x \in U
    BY <2>3
  <2>5. U \subseteq Nat
    OBVIOUS
  <2> HIDE DEF U
  <2> QED
    BY <2>4, <2>5
<1>2. PICK u \in U : \A v \in U : u <= v
  <2> HIDE DEF U
  <2> QED
    BY <1>1, Least
<1>3. n - u \in T /\ u \in 0..n
  BY <1>2
<1>4. ASSUME NEW y \in T PROVE n - u >= y
  <2>1. y \in 0..n
    OBVIOUS
  <2>2. n - y \in 0..n /\ n - (n - y) = y
    BY <2>1
  <2>3. u <= n - y
    BY <1>2, <2>2
  <2> HIDE DEF U
  <2> QED
    BY <1>3, <2>1, <2>3
<1> QED
  BY <1>3, <1>4

LEMMA Minimal ==
    ASSUME NEW S, IsFiniteSet(S), NEW T \in SUBSET SUBSET S, T # {}
    PROVE  \E x \in T : \A y \in T : y \subseteq x => y = x
<1>1. IsWellFoundedOn(StrictSubsetOrdering(S), FiniteSubsetsOf(S))
  BY FS_StrictSubsetOrderingWellFounded
<1>2. T \subseteq FiniteSubsetsOf(S)
  BY FS_Subset DEF FiniteSubsetsOf
<1>3. \E x \in T : \A y \in T : ~ (<<y, x>> \in StrictSubsetOrdering(S))
  BY <1>1, <1>2, WFMin
<1> QED
  BY <1>3 DEF StrictSubsetOrdering

-----------------------------------------------------------------------------
\* The order of rows.

LEMMA AfterIsOrder ==
    ASSUME NEW order \in Orders, NEW r \in Row, NEW s \in Row, NEW t \in Row
    PROVE  /\ ~ After(order, r, r)
           /\ After(order, r, s) /\ After(order, s, t) => After(order, r, t)
           /\ After(order, r, s) \/ After(order, s, r) \/ r.id = s.id
<1>1. /\ r.id \in Int /\ s.id \in Int /\ t.id \in Int
      /\ r.val \in Int /\ s.val \in Int /\ t.val \in Int
  BY PagingAssumption DEF Row
<1>2. ~ After(order, r, r)
  BY <1>1 DEF After, Beyond
<1>3. After(order, r, s) /\ After(order, s, t) => After(order, r, t)
  BY <1>1 DEF After, Beyond
<1>4. After(order, r, s) \/ After(order, s, r) \/ r.id = s.id
  BY <1>1 DEF After, Beyond, Orders
<1> QED
  BY <1>2, <1>3, <1>4

\* The rows that a continuation after s has.
Follows(order, r, s) ==
    IF KeyMisread THEN Beyond(order, r.val, s.val) \/ (order = "desc" /\ r.val = s.val)
    ELSE After(order, r, s)

LEMMA OnwardIs ==
    ASSUME NEW order \in Orders, NEW r \in Row, NEW s \in Row, NEW t \in Row
    PROVE  /\ After(order, r, s) \/ Follows(order, r, s) => Onward(order, r, s)
           /\ Onward(order, r, s) /\ Onward(order, s, t) => Onward(order, r, t)
           /\ After(order, r, s) =>
                 \/ Follows(order, r, s)
                 \/ KeyMisread /\ order = "asc" /\ r.val = s.val
<1>1. r.val \in Int /\ s.val \in Int /\ t.val \in Int
  BY PagingAssumption DEF Row
<1>2. CASE ~KeyMisread
  BY <1>2, AfterIsOrder DEF Onward, Follows
<1>3. CASE KeyMisread
  <2>1. setup.by = "value" /\ order \in {"asc", "desc"}
    BY <1>3 DEF KeyMisread, Orders
  <2>2. After(order, r, s) \/ Follows(order, r, s) => Onward(order, r, s)
    BY <1>1, <1>3, <2>1 DEF Onward, Follows, After, Beyond
  <2>3. Onward(order, r, s) /\ Onward(order, s, t) => Onward(order, r, t)
    <3>1. CASE order = "desc"
      BY <1>1, <1>3, <3>1 DEF Onward, Beyond
    <3>2. CASE order = "asc"
      BY <1>3, <3>2, AfterIsOrder DEF Onward
    <3> QED
      BY <2>1, <3>1, <3>2
  <2>4. After(order, r, s) => Follows(order, r, s) \/ (order = "asc" /\ r.val = s.val)
    BY <1>1, <1>3, <2>1 DEF Follows, After, Beyond
  <2> QED
    BY <1>3, <2>2, <2>3, <2>4
<1> QED
  BY <1>2, <1>3

\* Rows of one state of the table.
Table(S) ==
    /\ S \subseteq Row /\ IsFiniteSet(S)
    /\ \A r, s \in S : r.id = s.id => r = s

Sorted(order, q) == \A i, j \in DOMAIN q : i < j => After(order, q[j], q[i])

Advancing(order, q) == \A i, j \in DOMAIN q : i < j => Onward(order, q[j], q[i])

\* The sequence q has every row of S once, in order.
ListingOf(order, q, S) == q \in Seq(S) /\ ToSet(q) = S /\ Sorted(order, q)

\* The rows before r.
Before(order, r, S) == {s \in S : After(order, r, s)}

LEMMA BeforeGrows ==
    ASSUME NEW order \in Orders, NEW S, Table(S), NEW r \in S, NEW s \in S
    PROVE  /\ IsFiniteSet(Before(order, r, S))
           /\ Cardinality(Before(order, r, S)) \in 0..(Cardinality(S) - 1)
           /\ After(order, r, s) =>
                Cardinality(Before(order, s, S)) < Cardinality(Before(order, r, S))
<1>1. \A t \in S : t \in Row
  BY DEF Table
<1>2. Before(order, r, S) \subseteq S /\ r \notin Before(order, r, S)
  BY <1>1, AfterIsOrder DEF Before
<1>3. /\ IsFiniteSet(Before(order, r, S)) /\ Cardinality(S) \in Nat
      /\ Cardinality(Before(order, r, S)) \in Nat
      /\ Cardinality(Before(order, r, S)) < Cardinality(S)
  <2>1. IsFiniteSet(S)
    BY DEF Table
  <2>2. PICK B : B = Before(order, r, S)
    OBVIOUS
  <2>3. B \subseteq S /\ B # S
    BY <1>2, <2>2
  <2>4. /\ IsFiniteSet(B) /\ Cardinality(B) <= Cardinality(S)
        /\ Cardinality(B) = Cardinality(S) => B = S
    BY <2>1, <2>3, FS_Subset
  <2>5. Cardinality(B) \in Nat /\ Cardinality(S) \in Nat
    BY <2>1, <2>4, FS_CardinalityType
  <2> QED
    BY <2>2, <2>3, <2>4, <2>5
<1>4. ASSUME After(order, r, s)
      PROVE  Cardinality(Before(order, s, S)) < Cardinality(Before(order, r, S))
  <2>1. PICK B : B = Before(order, r, S)
    OBVIOUS
  <2>2. PICK C : C = Before(order, s, S)
    OBVIOUS
  <2>3. s \in B /\ s \notin C
    BY <1>1, <1>4, <2>1, <2>2, AfterIsOrder DEF Before
  <2>4. C \subseteq B
    <3> SUFFICES ASSUME NEW t \in S, After(order, s, t) PROVE After(order, r, t)
      BY <2>1, <2>2 DEF Before
    <3> QED
      BY <1>1, <1>4, AfterIsOrder
  <2>5. IsFiniteSet(B) /\ Cardinality(B) \in Nat
    BY <1>3, <2>1
  <2>6. IsFiniteSet(C) /\ Cardinality(C) <= Cardinality(B) /\ Cardinality(C) # Cardinality(B)
    BY <2>3, <2>4, <2>5, FS_Subset
  <2>7. Cardinality(C) \in Nat
    BY <2>6, FS_CardinalityType
  <2> QED
    BY <2>1, <2>2, <2>5, <2>6, <2>7
<1> QED
  BY <1>3, <1>4

\* InOrder lists the rows of a table.
LEMMA InOrderLists ==
    ASSUME NEW order \in Orders, NEW S, Table(S)
    PROVE  ListingOf(order, InOrder(order, S), S)
<1>1. PICK n \in Nat : n = Cardinality(S)
  BY FS_CardinalityType DEF Table
<1>2. PICK rank : rank = [r \in S |-> Cardinality(Before(order, r, S))]
  OBVIOUS
<1>3. /\ rank \in [S -> 0..(n - 1)]
      /\ \A r, s \in S : After(order, r, s) => rank[s] < rank[r]
  BY <1>1, <1>2, BeforeGrows
<1>4. \A r, s \in S : rank[r] = rank[s] => r = s
  <2> SUFFICES ASSUME NEW r \in S, NEW s \in S, rank[r] = rank[s] PROVE r = s
    OBVIOUS
  <2>1. ~ After(order, r, s) /\ ~ After(order, s, r)
    BY <1>3
  <2>2. r \in Row /\ s \in Row
    BY DEF Table
  <2>3. r.id = s.id
    BY <2>1, <2>2, AfterIsOrder
  <2> QED
    BY <2>3 DEF Table
<1>5. \A i \in 0..(n - 1) : \E r \in S : rank[r] = i
  <2>1. rank \in Injection(S, 0..(n - 1))
    BY <1>3, <1>4 DEF Injection, IsInjective
  <2>2. IsFiniteSet(0..(n - 1)) /\ Cardinality(0..(n - 1)) = n
    BY FS_Interval
  <2>3. rank \in Surjection(S, 0..(n - 1))
    BY <1>1, <2>1, <2>2, FS_Injection
  <2> QED
    BY <2>3 DEF Surjection
<1>6. PICK q : q = InOrder(order, S)
  OBVIOUS
<1>7. q = [i \in 1..n |-> CHOOSE r \in S : Cardinality(Before(order, r, S)) = i - 1]
  BY <1>1, <1>6 DEF InOrder, Before
<1>8. \A i \in 1..n : q[i] \in S /\ rank[q[i]] = i - 1
  <2> SUFFICES ASSUME NEW i \in 1..n PROVE q[i] \in S /\ rank[q[i]] = i - 1
    OBVIOUS
  <2>1. i - 1 \in 0..(n - 1)
    OBVIOUS
  <2>2. \E r \in S : Cardinality(Before(order, r, S)) = i - 1
    BY <1>2, <1>5, <2>1
  <2>3. q[i] \in S /\ Cardinality(Before(order, q[i], S)) = i - 1
    BY <1>7, <2>2
  <2> QED
    BY <1>2, <2>3
<1>9. q \in [1..n -> S]
  BY <1>7, <1>8
<1>10. q \in Seq(S) /\ DOMAIN q = 1..n
  BY <1>9
<1>11. S \subseteq ToSet(q)
  <2> SUFFICES ASSUME NEW r \in S PROVE \E i \in 1..n : q[i] = r
    BY <1>10 DEF ToSet
  <2>1. rank[r] \in 0..(n - 1)
    BY <1>3
  <2>2. PICK i \in 1..n : i = rank[r] + 1
    BY <2>1
  <2>3. rank[q[i]] = rank[r] /\ q[i] \in S
    BY <1>8, <2>1, <2>2
  <2> QED
    BY <1>4, <2>3
<1>12. ToSet(q) \subseteq S
  BY <1>8, <1>10 DEF ToSet
<1>13. Sorted(order, q)
  <2> SUFFICES ASSUME NEW i \in 1..n, NEW j \in 1..n, i < j
               PROVE  After(order, q[j], q[i])
    BY <1>10 DEF Sorted
  <2>1. rank[q[i]] < rank[q[j]] /\ q[i] \in S /\ q[j] \in S
    BY <1>8
  <2>2. q[i] # q[j] /\ ~ After(order, q[i], q[j])
    BY <1>3, <1>8, <2>1
  <2>3. q[i] \in Row /\ q[j] \in Row /\ q[i].id # q[j].id
    BY <2>1, <2>2 DEF Table
  <2> QED
    BY <2>2, <2>3, AfterIsOrder
<1> QED
  BY <1>6, <1>10, <1>11, <1>12, <1>13 DEF ListingOf

-----------------------------------------------------------------------------
\* Queries one after the other: InTurn folds over the set of their numbers.

Turn(order, queries, g, s) ==
    IF s = {} THEN <<>> ELSE g[s \ {Max(s)}] \o InOrder(order, queries[Max(s)])

\* g gives what the queries in each subset of S return.
Turns(order, queries, g, S) == g = [s \in SUBSET S |-> Turn(order, queries, g, s)]

TurnsOf(order, queries, S) == CHOOSE g : Turns(order, queries, g, S)

LEMMA InTurnIsFold ==
    ASSUME NEW order, NEW queries
    PROVE  InTurn(order, queries) = TurnsOf(order, queries, DOMAIN queries)[DOMAIN queries]
BY DEF InTurn, FoldLeft, MapThenFoldSet, TurnsOf, Turns, Turn

\* The numbers of a sequence.
Numbered(D) == \E n \in Nat : D = 1..n

LEMMA MaxIsGreatest ==
    ASSUME NEW D, Numbered(D), NEW s \in SUBSET D, s # {}
    PROVE  /\ Max(s) \in s /\ \A y \in s : Max(s) >= y
           /\ s \ {Max(s)} \in SUBSET D /\ s \ {Max(s)} # s
<1>1. PICK n \in Nat : D = 1..n
  BY DEF Numbered
<1>2. s \in SUBSET (0..n)
  BY <1>1
<1>3. \E x \in s : \A y \in s : x >= y
  BY <1>2, Greatest
<1> QED
  BY <1>3 DEF Max

LEMMA TurnsAgree ==
    ASSUME NEW order, NEW queries, NEW D, Numbered(D), NEW g, NEW h,
           NEW T \in SUBSET D, NEW U \in SUBSET D,
           Turns(order, queries, g, T), Turns(order, queries, h, U),
           NEW s, s \subseteq T, s \subseteq U
    PROVE  g[s] = h[s]
<1> DEFINE differ == {x \in SUBSET D : x \subseteq T /\ x \subseteq U /\ g[x] # h[x]}
<1>1. SUFFICES ASSUME differ # {} PROVE FALSE
  BY <1>1
<1>2. PICK x \in differ : \A y \in differ : y \subseteq x => y = x
  <2>1. differ \in SUBSET SUBSET D /\ IsFiniteSet(D)
    BY FS_Interval DEF Numbered
  <2> HIDE DEF differ
  <2> QED
    BY ONLY <1>1, <2>1, Minimal
<1>3. g[x] = Turn(order, queries, g, x) /\ h[x] = Turn(order, queries, h, x)
  BY DEF Turns
<1>4. CASE x = {}
  BY <1>2, <1>3, <1>4 DEF Turn
<1>5. CASE x # {}
  <2>1. PICK y : y = x \ {Max(x)}
    OBVIOUS
  <2>2. y \in SUBSET D /\ y \subseteq x /\ y # x
    BY <1>5, <2>1, MaxIsGreatest
  <2>3. g[y] = h[y]
    BY <1>2, <2>2
  <2> QED
    BY <1>2, <1>3, <1>5, <2>1, <2>3 DEF Turn
<1> QED
  BY <1>4, <1>5

LEMMA TurnsExist ==
    ASSUME NEW order, NEW queries, NEW D, Numbered(D)
    PROVE  Turns(order, queries, TurnsOf(order, queries, D), D)
<1> DEFINE Of(s) == TurnsOf(order, queries, s)
           without == {T \in SUBSET D : ~ \E g : Turns(order, queries, g, T)}
<1>1. ASSUME without # {} PROVE FALSE
  <2>1. PICK T \in without : \A y \in without : y \subseteq T => y = T
    <3>1. without \in SUBSET SUBSET D /\ IsFiniteSet(D)
      BY FS_Interval DEF Numbered
    <3> HIDE DEF without
    <3> QED
      BY ONLY <1>1, <3>1, Minimal
  <2>2. \A y \in SUBSET T : y # T => Turns(order, queries, Of(y), y)
    BY <2>1 DEF TurnsOf
  <2> DEFINE Value(s) ==
               IF s = {} THEN <<>>
               ELSE Of(s \ {Max(s)})[s \ {Max(s)}] \o InOrder(order, queries[Max(s)])
             g == [s \in SUBSET T |-> Value(s)]
  <2>3. ASSUME NEW s \in SUBSET T PROVE Value(s) = Turn(order, queries, g, s)
    <3>1. CASE s = {}
      BY <3>1 DEF Turn
    <3>2. CASE s # {}
      <4>1. PICK y : y = s \ {Max(s)}
        OBVIOUS
      <4>2. y \in SUBSET T /\ y # T
        BY <3>2, <4>1, MaxIsGreatest
      <4>3. PICK h : h = Of(y)
        OBVIOUS
      <4>4. Turns(order, queries, h, y)
        BY <2>2, <4>2, <4>3
      <4>5. h[y] = Turn(order, queries, h, y)
        BY <4>4 DEF Turns
      <4>6. Value(y) = h[y]
        <5>1. CASE y = {}
          BY <4>5, <5>1 DEF Turn
        <5>2. CASE y # {}
          <6>1. PICK z : z = y \ {Max(y)}
            OBVIOUS
          <6>2. z \subseteq y /\ z # T
            BY <4>2, <5>2, <6>1, MaxIsGreatest
          <6>3. PICK k : k = Of(z)
            OBVIOUS
          <6>4. Turns(order, queries, k, z)
            BY <2>2, <4>2, <6>2, <6>3
          <6>5. y \in SUBSET D /\ z \in SUBSET D
            BY <4>2, <6>2
          <6>6. h[z] = k[z]
            <7>1. z \subseteq y /\ z \subseteq z
              BY <6>2
            <7>2. Numbered(D)
              OBVIOUS
            <7> QED
              BY ONLY <4>4, <6>4, <6>5, <7>1, <7>2, TurnsAgree
          <6> QED
            BY <4>5, <5>2, <6>1, <6>3, <6>6 DEF Turn
        <5> QED
          BY <5>1, <5>2
      <4>7. g[y] = h[y]
        BY <4>2, <4>6
      <4> QED
        BY <3>2, <4>1, <4>3, <4>7 DEF Turn
    <3> QED
      BY <3>1, <3>2
  <2>4. Turns(order, queries, g, T)
    BY <2>3 DEF Turns
  <2> QED
    BY <2>1, <2>4
<1>2. \E g : Turns(order, queries, g, D)
  BY <1>1
<1> QED
  BY <1>2 DEF TurnsOf

\* The sequence q has the rows of the first k queries, those of one before those
\* of the next, and those of each in order.
TurnsOut(order, queries, k, q) ==
    /\ q \in Seq(Row)
    /\ ToSet(q) = UNION {queries[i] : i \in 1..k}
    /\ \A i, j \in DOMAIN q : i < j =>
          \E a, b \in 1..k :
              /\ q[i] \in queries[a] /\ q[j] \in queries[b]
              /\ a < b \/ (a = b /\ After(order, q[j], q[i]))

\* A sequence followed by the listing of one more query.
LEMMA OneMoreTurn ==
    ASSUME NEW order \in Orders, NEW queries, NEW k \in Nat, NEW p,
           TurnsOut(order, queries, k, p), NEW l,
           ListingOf(order, l, queries[k + 1]), queries[k + 1] \subseteq Row
    PROVE  TurnsOut(order, queries, k + 1, p \o l)
<1>1. p \in Seq(Row) /\ l \in Seq(Row)
  BY DEF TurnsOut, ListingOf
<1>2. PICK m \in Nat, n \in Nat : m = Len(p) /\ n = Len(l)
  BY <1>1
<1>3. PICK q : q = p \o l
  OBVIOUS
<1>4. /\ q \in Seq(Row) /\ DOMAIN q = 1..(m + n)
      /\ DOMAIN p = 1..m /\ DOMAIN l = 1..n
      /\ \A i \in 1..(m + n) : q[i] = IF i <= m THEN p[i] ELSE l[i - m]
  BY <1>1, <1>2, <1>3
<1>5. \A i \in 1..m : q[i] = p[i] /\ \E a \in 1..k : q[i] \in queries[a]
  <2> SUFFICES ASSUME NEW i \in 1..m
               PROVE  q[i] = p[i] /\ \E a \in 1..k : q[i] \in queries[a]
    OBVIOUS
  <2>1. q[i] = p[i]
    BY <1>4
  <2>2. p[i] \in ToSet(p)
    BY <1>4 DEF ToSet
  <2> QED
    BY <2>1, <2>2 DEF TurnsOut
<1>6. \A i \in (m + 1)..(m + n) :
         i - m \in 1..n /\ q[i] = l[i - m] /\ q[i] \in queries[k + 1]
  <2> SUFFICES ASSUME NEW i \in (m + 1)..(m + n)
               PROVE  i - m \in 1..n /\ q[i] = l[i - m] /\ q[i] \in queries[k + 1]
    OBVIOUS
  <2>1. i - m \in 1..n /\ q[i] = l[i - m]
    BY <1>4
  <2>2. l[i - m] \in ToSet(l)
    BY <1>4, <2>1 DEF ToSet
  <2> QED
    BY <2>1, <2>2 DEF ListingOf
<1>7. ToSet(q) = UNION {queries[i] : i \in 1..(k + 1)}
  <2>1. ASSUME NEW r \in ToSet(q) PROVE \E a \in 1..(k + 1) : r \in queries[a]
    <3>1. PICK i \in 1..(m + n) : r = q[i]
      BY <1>4, <2>1 DEF ToSet
    <3>2. CASE i <= m
      BY <1>5, <3>1, <3>2
    <3>3. CASE i > m
      BY <1>6, <3>1, <3>3
    <3> QED
      BY <3>2, <3>3
  <2>2. ASSUME NEW a \in 1..(k + 1), NEW r \in queries[a] PROVE r \in ToSet(q)
    <3>1. CASE a <= k
      <4>1. r \in ToSet(p)
        BY <3>1 DEF TurnsOut
      <4>2. PICK i \in 1..m : r = p[i]
        BY <1>4, <4>1 DEF ToSet
      <4>3. i \in DOMAIN q /\ q[i] = r
        BY <1>4, <4>2
      <4> QED
        BY <4>3 DEF ToSet
    <3>2. CASE a = k + 1
      <4>1. r \in ToSet(l)
        BY <3>2 DEF ListingOf
      <4>2. PICK i \in 1..n : r = l[i]
        BY <1>4, <4>1 DEF ToSet
      <4>3. i + m \in DOMAIN q /\ q[i + m] = r
        BY <1>4, <4>2
      <4> QED
        BY <4>3 DEF ToSet
    <3> QED
      BY <3>1, <3>2
  <2> QED
    BY <2>1, <2>2
<1>8. ASSUME NEW i \in DOMAIN q, NEW j \in DOMAIN q, i < j
      PROVE  \E a, b \in 1..(k + 1) :
                 /\ q[i] \in queries[a] /\ q[j] \in queries[b]
                 /\ a < b \/ (a = b /\ After(order, q[j], q[i]))
  <2>1. i \in 1..(m + n) /\ j \in 1..(m + n)
    BY <1>4
  <2>2. CASE j <= m
    <3>1. i \in DOMAIN p /\ j \in DOMAIN p /\ q[i] = p[i] /\ q[j] = p[j]
      BY <1>4, <1>5, <1>8, <2>1, <2>2
    <3>2. PICK a \in 1..k, b \in 1..k :
              /\ p[i] \in queries[a] /\ p[j] \in queries[b]
              /\ a < b \/ (a = b /\ After(order, p[j], p[i]))
      BY <1>8, <3>1 DEF TurnsOut
    <3>3. a \in 1..(k + 1) /\ b \in 1..(k + 1)
      OBVIOUS
    <3> QED
      BY <3>1, <3>2, <3>3
  <2>3. CASE i <= m /\ j > m
    <3>1. PICK a \in 1..k : q[i] \in queries[a]
      BY <1>5, <2>1, <2>3
    <3>2. q[j] \in queries[k + 1]
      BY <1>6, <2>1, <2>3
    <3>3. a \in 1..(k + 1) /\ k + 1 \in 1..(k + 1) /\ a < k + 1
      OBVIOUS
    <3> QED
      BY <3>1, <3>2, <3>3
  <2>4. CASE i > m
    <3>1. /\ q[i] \in queries[k + 1] /\ q[j] \in queries[k + 1]
          /\ q[i] = l[i - m] /\ q[j] = l[j - m]
          /\ i - m \in DOMAIN l /\ j - m \in DOMAIN l /\ i - m < j - m
      BY <1>4, <1>6, <1>8, <2>1, <2>4
    <3>2. After(order, q[j], q[i])
      BY <3>1 DEF ListingOf, Sorted
    <3>3. k + 1 \in 1..(k + 1)
      OBVIOUS
    <3> QED
      BY <3>1, <3>2, <3>3
  <2> QED
    BY <1>8, <2>1, <2>2, <2>3, <2>4
<1> QED
  BY <1>3, <1>4, <1>7, <1>8 DEF TurnsOut

LEMMA InTurnTurnsOut ==
    ASSUME NEW order \in Orders, NEW n \in Nat, NEW queries, DOMAIN queries = 1..n,
           \A i \in 1..n : Table(queries[i])
    PROVE  TurnsOut(order, queries, n, InTurn(order, queries))
<1>1. PICK D : D = 1..n
  OBVIOUS
<1>2. Numbered(D)
  BY <1>1 DEF Numbered
<1>3. PICK g : g = TurnsOf(order, queries, D)
  OBVIOUS
<1>4. \A s \in SUBSET D : g[s] = Turn(order, queries, g, s)
  <2>1. Turns(order, queries, g, D)
    BY <1>2, <1>3, TurnsExist
  <2> QED
    BY <2>1 DEF Turns
<1> DEFINE wrong == {k \in 0..n : ~ TurnsOut(order, queries, k, g[1..k])}
<1>5. ASSUME wrong # {} PROVE FALSE
  <2>1. PICK k \in wrong : \A i \in wrong : k <= i
    <3>1. wrong \in SUBSET Nat
      OBVIOUS
    <3> HIDE DEF wrong
    <3> QED
      BY ONLY <1>5, <3>1, Least
  <2>2. k # 0
    <3>1. g[1..0] = <<>>
      <4>1. 1..0 = {}
        OBVIOUS
      <4> QED
        BY <1>4, <4>1 DEF Turn
    <3>2. TurnsOut(order, queries, 0, <<>>)
      BY DEF TurnsOut, ToSet
    <3> QED
      BY <2>1, <3>1, <3>2
  <2>3. PICK i \in 0..n : k = i + 1 /\ i \notin wrong
    <3>1. k - 1 \in 0..n /\ k = (k - 1) + 1 /\ k - 1 \notin wrong
      BY <2>1, <2>2
    <3> QED
      BY <3>1
  <2>4. TurnsOut(order, queries, i, g[1..i])
    BY <2>3
  <2>5. PICK s : s = 1..k
    OBVIOUS
  <2>6. s \in SUBSET D /\ s # {} /\ k \in s /\ \A y \in s : y <= k
    <3>1. k \in 1..n /\ n \in Nat
      BY <2>1, <2>2
    <3>2. s \subseteq 1..n
      BY <2>5, <3>1
    <3> QED
      BY <1>1, <2>5, <3>1, <3>2
  <2>7. Max(s) = k
    <3>1. Max(s) \in s /\ \A y \in s : Max(s) >= y
      BY <1>2, <2>6, MaxIsGreatest
    <3>2. Max(s) >= k /\ Max(s) <= k /\ Max(s) \in Int
      BY <2>5, <2>6, <3>1
    <3> QED
      BY <2>1, <3>2
  <2>8. s \ {k} = 1..i
    BY <2>3, <2>5
  <2>9. g[s] = g[1..i] \o InOrder(order, queries[k])
    BY <1>4, <2>6, <2>7, <2>8 DEF Turn
  <2>10. Table(queries[k]) /\ queries[k] \subseteq Row
    BY <2>1, <2>2 DEF Table
  <2>11. ListingOf(order, InOrder(order, queries[k]), queries[k])
    BY <2>10, InOrderLists
  <2>12. TurnsOut(order, queries, k, g[s])
    BY <2>3, <2>4, <2>9, <2>10, <2>11, OneMoreTurn
  <2> QED
    BY <2>1, <2>5, <2>12
<1>6. TurnsOut(order, queries, n, g[D])
  BY <1>1, <1>5
<1> QED
  BY <1>1, <1>3, <1>6, InTurnIsFold

-----------------------------------------------------------------------------
\* Pages.

LEMMA PrefixIs ==
    ASSUME NEW T, NEW q \in Seq(T), NEW n \in Nat
    PROVE  /\ AtMost(n, q) \in Seq(T)
           /\ Len(AtMost(n, q)) = IF n < Len(q) THEN n ELSE Len(q)
           /\ \A i \in 1..Len(AtMost(n, q)) : i \in 1..Len(q) /\ AtMost(n, q)[i] = q[i]
<1>1. PICK m \in Nat : m = IF n < Len(q) THEN n ELSE Len(q)
  OBVIOUS
<1>2. m <= Len(q) /\ 1 \in 1..(Len(q) + 1) /\ Len(q) \in Nat
  BY <1>1
<1>3. PICK d : d = AtMost(n, q)
  OBVIOUS
<1>4. d = SubSeq(q, 1, m)
  BY <1>1, <1>3 DEF AtMost
<1>5. d \in Seq(T) /\ Len(d) = m /\ \A i \in 1..m : d[i] = q[i]
  BY <1>2, <1>4
<1> QED
  BY <1>1, <1>2, <1>3, <1>5

\* The first rows of a listing, at most n.
LEMMA FirstRows ==
    ASSUME NEW order \in Orders, NEW S, NEW q, ListingOf(order, q, S), NEW n \in Nat \ {0},
           NEW d, d = AtMost(n, q)
    PROVE  /\ d \in Seq(S) /\ Sorted(order, d)
           /\ Len(q) <= n \/ d = <<>> => S \subseteq ToSet(d)
           /\ Len(q) > n => /\ Len(d) = n /\ Last(d) = q[n]
                            /\ \A r \in S : r \in ToSet(d) \/ After(order, r, Last(d))
<1>1. q \in Seq(S) /\ n \in Nat
  BY DEF ListingOf
<1>2. PICK k \in Nat, l \in Nat : k = Len(d) /\ l = Len(q)
  <2>1. d \in Seq(S)
    BY <1>1, PrefixIs
  <2> QED
    BY <1>1, <2>1
<1>3. /\ d \in Seq(S) /\ k = (IF n < l THEN n ELSE l)
      /\ DOMAIN d = 1..k /\ DOMAIN q = 1..l
      /\ \A i \in 1..k : i \in 1..l /\ d[i] = q[i]
  <2>1. /\ d \in Seq(S) /\ Len(d) = IF n < Len(q) THEN n ELSE Len(q)
        /\ \A i \in 1..Len(d) : i \in 1..Len(q) /\ d[i] = q[i]
    BY <1>1, PrefixIs
  <2> QED
    BY <1>1, <1>2, <2>1
<1>4. Sorted(order, d)
  BY <1>3 DEF Sorted, ListingOf
<1>5. \A r \in S : \E i \in 1..l : r = q[i]
  BY <1>3 DEF ListingOf, ToSet
<1>6. \A i \in 1..k : q[i] \in ToSet(d)
  BY <1>3 DEF ToSet
<1>7. ASSUME Len(q) <= n \/ d = <<>> PROVE S \subseteq ToSet(d)
  <2>1. k = l
    BY <1>2, <1>3, <1>7
  <2> QED
    BY <1>5, <1>6, <2>1
<1>8. ASSUME Len(q) > n
      PROVE  /\ Len(d) = n /\ Last(d) = q[n]
             /\ \A r \in S : r \in ToSet(d) \/ After(order, r, Last(d))
  <2>1. k = n /\ n < l /\ n \in 1..k
    BY <1>2, <1>3, <1>8
  <2>2. Len(d) = n /\ Last(d) = q[n]
    BY <1>2, <1>3, <2>1 DEF Last
  <2>3. ASSUME NEW r \in S, r \notin ToSet(d) PROVE After(order, r, q[n])
    <3>1. PICK i \in 1..l : r = q[i]
      BY <1>5
    <3>2. n < i
      BY <1>6, <2>1, <2>3, <3>1
    <3>3. n \in DOMAIN q /\ i \in DOMAIN q
      BY <1>3, <2>1
    <3> QED
      BY <3>1, <3>2, <3>3 DEF ListingOf, Sorted
  <2> QED
    BY <2>2, <2>3
<1> QED
  BY <1>3, <1>4, <1>7, <1>8

\* What a page is of the rows S that a query has left: the first of them, in
\* order, and a bookmark after the last one unless there are no more.
PageOf(order, attr, S, page) ==
    /\ page.docs \in Seq(S) /\ Sorted(order, page.docs)
    /\ page.next = NoBookmark \/ page.docs = <<>> => S \subseteq ToSet(page.docs)
    /\ page.next # NoBookmark /\ page.docs # <<>> =>
          /\ page.next \in Bookmarks
          /\ page.next.row = Last(page.docs)
          /\ \A r \in S : r \in ToSet(page.docs) \/ After(order, r, page.next.row)
          /\ page.next.kind = "private" => page.next.hash = QueryHash(order, attr)

\* The variables that a query reads have their types.
Queried ==
    /\ world \in [Ids -> Values \cup {Absent}]
    /\ setup \in Setups

LEMMA RowsAreTable ==
    ASSUME Queried
    PROVE  Table(Rows)
<1>1. Rows \subseteq Row
  BY DEF Rows, Row, Queried
<1>2. \A r, s \in Rows : r.id = s.id => r = s
  BY DEF Rows
<1>3. IsFiniteSet(Rows)
  <2>1. PICK f : f = [r \in Rows |-> r.id]
    OBVIOUS
  <2>2. f \in Injection(Rows, Ids)
    BY <1>1, <1>2, <2>1 DEF Injection, IsInjective, Row
  <2>3. IsFiniteSet(Ids)
    BY PagingAssumption
  <2> QED
    BY <2>2, <2>3, FS_Injection
<1> QED
  BY <1>1, <1>2, <1>3 DEF Table

LEMMA PartOfTable ==
    ASSUME NEW S, Table(S), NEW U \in SUBSET S
    PROVE  Table(U)
BY FS_Subset DEF Table

LEMMA SelectedIsTable ==
    ASSUME Queried, NEW attr
    PROVE  Table(Selected(attr)) /\ Selected(attr) \subseteq Rows
<1>1. Selected(attr) \in SUBSET Rows
  BY DEF Selected
<1> QED
  BY <1>1, RowsAreTable, PartOfTable

LEMMA RestIsTable ==
    ASSUME Queried, NEW order, NEW attr, NEW bookmark
    PROVE  Table(Rest(order, attr, bookmark))
<1>1. Rest(order, attr, bookmark) \in SUBSET Selected(attr)
  BY DEF Rest
<1> QED
  BY <1>1, SelectedIsTable, PartOfTable

\* The rows that are left after a bookmark, of the state or of a collection.
Left(order, attr, bookmark) ==
    {r \in Selected(attr) : bookmark # NoBookmark => Follows(order, r, bookmark.row)}

LEMMA LeftIsTable ==
    ASSUME Queried, NEW order, NEW attr, NEW bookmark
    PROVE  /\ Table(Left(order, attr, bookmark))
           /\ ~KeyMisread => Left(order, attr, bookmark) = Rest(order, attr, bookmark)
<1>1. Left(order, attr, bookmark) \in SUBSET Selected(attr)
  BY DEF Left
<1>2. ~KeyMisread => Left(order, attr, bookmark) = Rest(order, attr, bookmark)
  BY DEF Left, Rest, Follows
<1> QED
  BY <1>1, <1>2, SelectedIsTable, PartOfTable

\* What is asked for is pages of the rows of a collection.
OfCollection ==
    /\ setup.method \in {"paginateBy", "page"}
    /\ QueriedAs = "segregated" \/ (QueriedAs = "mixed" /\ setup.sortAt = "private")

LEMMA LengthOfListing ==
    ASSUME NEW order, NEW S, IsFiniteSet(S)
    PROVE  Len(InOrder(order, S)) = Cardinality(S) /\ Cardinality(S) \in Nat
<1>1. PICK n \in Nat : n = Cardinality(S)
  BY FS_CardinalityType
<1> QED
  BY <1>1 DEF InOrder

LEMMA LastOfDocs ==
    ASSUME NEW S, NEW d \in Seq(S), d # <<>>
    PROVE  Last(d) \in S /\ Last(d) \in ToSet(d) /\ Len(d) \in DOMAIN d
BY DEF Last, ToSet

LEMMA PublicPages ==
    ASSUME Queried, NEW order \in Orders, NEW attr, NEW bookmark,
           NEW page \in PublicPage(order, attr, bookmark)
    PROVE  PageOf(order, attr, Rest(order, attr, bookmark), page)
<1>1. PICK S : S = Rest(order, attr, bookmark)
  OBVIOUS
<1>2. Table(S) /\ S \subseteq Row /\ IsFiniteSet(S)
  BY <1>1, RestIsTable DEF Table
<1>3. PICK q : q = InOrder(order, S)
  OBVIOUS
<1>4. PICK d : d = AtMost(PageSize, q)
  OBVIOUS
<1>5. PICK last : last = [kind |-> "public", row |-> Last(d), hash |-> <<>>]
  OBVIOUS
<1>6. /\ page.docs = d
      /\ d # <<>> /\ Cardinality(S) > PageSize => page.next = last
      /\ d # <<>> => page.next = last \/ (page.next = NoBookmark /\ Cardinality(S) <= PageSize)
  <2>1. PICK marks : marks = CASE d = <<>> -> {bookmark}
                               [] d # <<>> /\ Cardinality(S) > PageSize -> {last}
                               [] d # <<>> /\ Cardinality(S) <= PageSize -> {last, NoBookmark}
    OBVIOUS
  <2>2. PICK next \in marks : page = [docs |-> d, next |-> next]
    <3>1. PICK docs : /\ docs = d
                      /\ page \in {[docs |-> docs, next |-> next] : next \in marks}
      BY <1>1, <1>3, <1>4, <1>5, <2>1, ZenonT(40) DEF PublicPage
    <3> QED
      BY <3>1
  <2>3. Cardinality(S) \in Nat /\ PageSize \in Nat
    BY <1>2, FS_CardinalityType, PagingAssumption
  <2> QED
    BY <2>1, <2>2, <2>3
<1>7. ListingOf(order, q, S) /\ Len(q) = Cardinality(S) /\ Cardinality(S) \in Nat
  BY <1>2, <1>3, InOrderLists, LengthOfListing
<1>8. /\ d \in Seq(S) /\ Sorted(order, d)
      /\ Len(q) <= PageSize \/ d = <<>> => S \subseteq ToSet(d)
      /\ Len(q) > PageSize => \A r \in S : r \in ToSet(d) \/ After(order, r, Last(d))
  BY <1>4, <1>7, FirstRows, PagingAssumption
<1>9. PageSize \in Nat
  BY PagingAssumption
<1>10. page.next = NoBookmark \/ d = <<>> => S \subseteq ToSet(d)
  <2> SUFFICES ASSUME page.next = NoBookmark, d # <<>> PROVE S \subseteq ToSet(d)
    BY <1>8
  <2>1. last \in Bookmarks
    BY <1>2, <1>5, <1>8, LastOfDocs DEF Bookmarks, Row
  <2>2. last # NoBookmark
    BY <2>1, PagingAssumption
  <2> QED
    BY <1>6, <1>7, <1>8, <2>2
<1>11. ASSUME page.next # NoBookmark, d # <<>>
       PROVE  /\ page.next \in Bookmarks /\ page.next.row = Last(d)
              /\ \A r \in S : r \in ToSet(d) \/ After(order, r, page.next.row)
              /\ page.next.kind # "private"
  <2>1. page.next = last
    BY <1>6, <1>11
  <2>2. last \in Bookmarks /\ last.row = Last(d) /\ last.kind = "public"
    BY <1>2, <1>5, <1>8, <1>11, LastOfDocs DEF Bookmarks, Row
  <2>3. \A r \in S : r \in ToSet(d) \/ After(order, r, Last(d))
    BY <1>7, <1>8, <1>9
  <2> QED
    BY <2>1, <2>2, <2>3
<1> QED
  BY <1>1, <1>6, <1>8, <1>10, <1>11 DEF PageOf

-----------------------------------------------------------------------------
\* The queries of a page of a private collection.

LEMMA OneQuery ==
    ASSUME NEW order \in Orders, NEW S, Table(S)
    PROVE  ListingOf(order, InTurn(order, <<S>>), S)
<1>1. PICK queries : queries = <<S>>
  OBVIOUS
<1>2. DOMAIN queries = 1..1 /\ queries[1] = S /\ \A i \in 1..1 : i = 1
  BY <1>1
<1>3. PICK q : q = InTurn(order, queries)
  OBVIOUS
<1>4. TurnsOut(order, queries, 1, q)
  BY <1>2, <1>3, InTurnTurnsOut
<1>5. q \in Seq(Row) /\ ToSet(q) = S
  BY <1>2, <1>4 DEF TurnsOut
<1>6. q \in Seq(S)
  <2>1. Len(q) \in Nat /\ DOMAIN q = 1..Len(q) /\ \A i \in 1..Len(q) : q[i] \in S
    BY <1>5 DEF ToSet
  <2>2. q = [i \in 1..Len(q) |-> q[i]]
    BY <1>5, <2>1
  <2> QED
    BY <2>1, <2>2
<1>7. Sorted(order, q)
  BY <1>2, <1>4 DEF TurnsOut, Sorted
<1> QED
  BY <1>1, <1>3, <1>5, <1>6, <1>7 DEF ListingOf

LEMMA TwoQueries ==
    ASSUME NEW order \in Orders, NEW S, NEW U, Table(S), Table(U),
           \A r \in S : \A t \in U : After(order, t, r)
    PROVE  ListingOf(order, InTurn(order, <<S, U>>), S \cup U)
<1>1. PICK queries : queries = <<S, U>>
  OBVIOUS
<1>2. DOMAIN queries = 1..2 /\ queries[1] = S /\ queries[2] = U /\ \A i \in 1..2 : i = 1 \/ i = 2
  BY <1>1
<1>3. PICK q : q = InTurn(order, queries)
  OBVIOUS
<1>4. TurnsOut(order, queries, 2, q)
  <2>1. \A i \in 1..2 : Table(queries[i])
    BY <1>2
  <2> QED
    BY <1>2, <1>3, <2>1, InTurnTurnsOut
<1>5. q \in Seq(Row) /\ ToSet(q) = S \cup U
  BY <1>2, <1>4 DEF TurnsOut
<1>6. q \in Seq(S \cup U)
  <2>1. Len(q) \in Nat /\ DOMAIN q = 1..Len(q) /\ \A i \in 1..Len(q) : q[i] \in S \cup U
    BY <1>5 DEF ToSet
  <2>2. q = [i \in 1..Len(q) |-> q[i]]
    BY <1>5, <2>1
  <2> QED
    BY <2>1, <2>2
<1>7. Sorted(order, q)
  <2> SUFFICES ASSUME NEW i \in DOMAIN q, NEW j \in DOMAIN q, i < j
               PROVE  After(order, q[j], q[i])
    BY DEF Sorted
  <2>1. PICK a \in 1..2, b \in 1..2 :
            /\ q[i] \in queries[a] /\ q[j] \in queries[b]
            /\ a < b \/ (a = b /\ After(order, q[j], q[i]))
    BY <1>4 DEF TurnsOut
  <2>2. CASE a < b
    <3>1. a = 1 /\ b = 2
      BY <2>2
    <3> QED
      BY <1>2, <2>1, <3>1
  <2> QED
    BY <2>1, <2>2
<1> QED
  BY <1>1, <1>3, <1>5, <1>6, <1>7 DEF ListingOf

LEMMA ContinuationsList ==
    ASSUME Queried, OfCollection, NEW order \in Orders, NEW S, Table(S), NEW last \in Row
    PROVE  ListingOf(order, InTurn(order, Continuations(order, S, last)),
                     {r \in S : Follows(order, r, last)})
<1>1. /\ setup.by \in {"value", "id"} /\ setup.key \in {"text", "number"}
      /\ KeyMisread <=> setup.key = "number" /\ setup.by = "value"
  BY PagingAssumption DEF Queried, OfCollection, KeyMisread
<1>2. CASE setup.by = "id"
  <2>1. PICK U : U = {r \in S : Follows(order, r, last)}
    OBVIOUS
  <2>2. Continuations(order, S, last) = <<U>>
    BY <1>1, <1>2, <2>1 DEF Continuations, Follows, After
  <2>3. Table(U)
    BY <2>1, PartOfTable
  <2> QED
    BY <2>1, <2>2, <2>3, OneQuery
<1>3. CASE setup.by = "value"
  <2>1. PICK U : U = {r \in S : r.val = last.val /\ BeyondText(order, r.id, last.id)}
    OBVIOUS
  <2>2. PICK V : V = {r \in S : Beyond(order, r.val, last.val)}
    OBVIOUS
  <2>3. Continuations(order, S, last) = <<U, V>>
    BY <1>3, <2>1, <2>2 DEF Continuations
  <2>4. Table(U) /\ Table(V)
    BY <2>1, <2>2, PartOfTable
  <2>5. \A r \in U : \A t \in V : After(order, t, r)
    BY <1>3, <2>1, <2>2 DEF After
  <2>6. U \cup V = {r \in S : Follows(order, r, last)}
    <3>1. CASE setup.key = "number"
      BY <1>1, <1>3, <2>1, <2>2, <3>1 DEF Follows, BeyondText
    <3>2. CASE setup.key = "text"
      BY <1>1, <1>3, <2>1, <2>2, <3>2 DEF Follows, BeyondText, After
    <3> QED
      BY <1>1, <3>1, <3>2
  <2>7. ListingOf(order, InTurn(order, <<U, V>>), U \cup V)
    BY <2>4, <2>5, TwoQueries
  <2> QED
    BY <2>3, <2>6, <2>7
<1> QED
  BY <1>1, <1>2, <1>3

\* The queries of a page list what is left after the bookmark.
LEMMA QueriesListLeft ==
    ASSUME Queried, OfCollection, NEW order \in Orders, NEW attr,
           NEW bookmark \in Bookmarks \cup {NoBookmark}
    PROVE  ListingOf(order,
                     InTurn(order, IF bookmark = NoBookmark THEN <<Selected(attr)>>
                                   ELSE Continuations(order, Selected(attr), bookmark.row)),
                     Left(order, attr, bookmark))
<1>1. Table(Selected(attr))
  BY SelectedIsTable
<1>2. CASE bookmark = NoBookmark
  <2>1. Left(order, attr, bookmark) = Selected(attr)
    BY <1>2 DEF Left
  <2> QED
    BY <1>1, <1>2, <2>1, OneQuery
<1>3. CASE bookmark # NoBookmark
  <2>1. PICK row \in Row : row = bookmark.row
    BY <1>3 DEF Bookmarks, Row
  <2>2. Left(order, attr, bookmark) = {r \in Selected(attr) : Follows(order, r, row)}
    BY <1>3, <2>1 DEF Left
  <2>3. ListingOf(order, InTurn(order, Continuations(order, Selected(attr), row)),
                  {r \in Selected(attr) : Follows(order, r, row)})
    BY <1>1, ContinuationsList
  <2> QED
    BY <1>3, <2>1, <2>2, <2>3
<1> QED
  BY <1>2, <1>3

LEMMA PrivatePages ==
    ASSUME Queried, OfCollection, NEW order \in Orders, NEW attr \in ToSet(Attrs),
           NEW bookmark \in Bookmarks \cup {NoBookmark},
           NEW page \in PrivatePage(order, attr, bookmark)
    PROVE  /\ PageOf(order, attr, Left(order, attr, bookmark), page)
           /\ ~ PrivateRefuses(bookmark, QueryHash(order, attr))
<1>1. PICK S : S = Left(order, attr, bookmark)
  OBVIOUS
<1>2. PICK hash : hash = QueryHash(order, attr)
  OBVIOUS
<1>3. PICK q : q = InTurn(order, IF bookmark = NoBookmark THEN <<Selected(attr)>>
                                 ELSE Continuations(order, Selected(attr), bookmark.row))
  OBVIOUS
<1>4. PICK found : found = AtMost(PageSize + 1, q)
  OBVIOUS
<1>5. PICK d : d = AtMost(PageSize, found)
  OBVIOUS
<1>6. /\ page.docs = d /\ page.next = NextPrivate(found, hash)
      /\ ~ PrivateRefuses(bookmark, hash)
  <2>1. PICK queries : queries = IF bookmark = NoBookmark THEN <<Selected(attr)>>
                                 ELSE Continuations(order, Selected(attr), bookmark.row)
    OBVIOUS
  <2>2. RunQueries(order, queries) = found
    BY <1>3, <1>4, <2>1 DEF RunQueries
  <2> QED
    BY <1>2, <1>5, <2>1, <2>2 DEF PrivatePage
<1>7. ListingOf(order, q, S)
  BY <1>1, <1>3, QueriesListLeft
<1>8. Table(S) /\ S \subseteq Row
  BY <1>1, LeftIsTable DEF Table
<1>9. PICK n \in Nat \ {0} : n = PageSize
  BY PagingAssumption
<1>10. /\ found \in Seq(S) /\ d = AtMost(n, q)
       /\ Len(found) > n <=> Len(q) > n
       /\ Len(found) > n => found[n] = q[n]
  <2>1. q \in Seq(S) /\ n + 1 \in Nat
    BY <1>7 DEF ListingOf
  <2>2. PICK l \in Nat : l = Len(q)
    BY <2>1
  <2>3. /\ found \in Seq(S)
        /\ Len(found) = IF n + 1 < l THEN n + 1 ELSE l
        /\ \A i \in 1..Len(found) : found[i] = q[i]
    BY <1>4, <1>9, <2>1, <2>2, PrefixIs
  <2>4. PICK k \in Nat : k = IF n < l THEN n ELSE l
    BY <2>2
  <2>5. /\ d \in Seq(S) /\ Len(d) = k
        /\ \A i \in 1..k : i \in 1..Len(found) /\ d[i] = found[i]
    <3>1. /\ d \in Seq(S) /\ Len(d) = IF n < Len(found) THEN n ELSE Len(found)
          /\ \A i \in 1..Len(d) : i \in 1..Len(found) /\ d[i] = found[i]
      BY <1>5, <1>9, <2>3, PrefixIs
    <3>2. Len(d) = k
      BY <2>2, <2>3, <2>4, <3>1
    <3> QED
      BY <3>1, <3>2
  <2>6. PICK e : e = AtMost(n, q)
    OBVIOUS
  <2>7. e \in Seq(S) /\ Len(e) = k /\ \A i \in 1..k : e[i] = q[i]
    <3>1. /\ e \in Seq(S) /\ Len(e) = IF n < Len(q) THEN n ELSE Len(q)
          /\ \A i \in 1..Len(e) : i \in 1..Len(q) /\ e[i] = q[i]
      BY <1>9, <2>1, <2>6, PrefixIs
    <3> QED
      BY <2>2, <2>4, <3>1
  <2>8. d = e
    <3>1. \A i \in 1..k : d[i] = e[i]
      BY <2>3, <2>5, <2>7
    <3> QED
      BY <2>5, <2>7, <3>1
  <2>9. Len(found) > n <=> l > n
    BY <2>2, <2>3
  <2>10. ASSUME Len(found) > n PROVE found[n] = q[n]
    BY <2>3, <2>10
  <2> QED
    BY <2>2, <2>3, <2>6, <2>8, <2>9, <2>10
<1>11. /\ d \in Seq(S) /\ Sorted(order, d)
       /\ Len(q) <= n \/ d = <<>> => S \subseteq ToSet(d)
       /\ Len(q) > n => /\ Len(d) = n /\ Last(d) = q[n]
                        /\ \A r \in S : r \in ToSet(d) \/ After(order, r, Last(d))
  BY <1>7, <1>10, FirstRows
<1>12. Len(q) \in Nat
  BY <1>7 DEF ListingOf
<1>13. CASE Len(q) > n
  <2>1. page.next = [kind |-> "private", row |-> Last(d), hash |-> hash]
    BY <1>6, <1>9, <1>10, <1>11, <1>13 DEF NextPrivate
  <2>2. d # <<>>
    BY <1>11, <1>13
  <2>3. Last(d) \in Row
    BY <1>8, <1>11, <2>2, LastOfDocs
  <2>4. hash \in Orders \X ToSet(Attrs) \X {"value", "id"}
    BY <1>2, PagingAssumption DEF QueryHash, Queried
  <2>5. page.next \in Bookmarks
    BY <2>1, <2>3, <2>4 DEF Bookmarks, Row
  <2>6. page.next # NoBookmark /\ page.next.row = Last(d) /\ page.next.hash = hash
    BY <2>1, <2>5, PagingAssumption
  <2> QED
    BY <1>1, <1>2, <1>6, <1>11, <1>13, <2>2, <2>5, <2>6 DEF PageOf
<1>14. CASE Len(q) <= n
  <2>1. page.next = NoBookmark
    BY <1>6, <1>9, <1>10, <1>12, <1>14 DEF NextPrivate
  <2> QED
    BY <1>1, <1>2, <1>6, <1>11, <1>14, <2>1 DEF PageOf
<1> QED
  BY <1>12, <1>13, <1>14

-----------------------------------------------------------------------------
\* The pages of the adapter and of the repository.

LEMMA PageOfNothing ==
    ASSUME NEW order, NEW attr, NEW S, S = {}, NEW page,
           page.docs = <<>>, page.next = NoBookmark
    PROVE  PageOf(order, attr, S, page)
BY DEF PageOf, Sorted, ToSet

LEMMA RawPages ==
    ASSUME Queried, setup.method \in {"paginateBy", "page"}, NEW order \in Orders, NEW attr \in ToSet(Attrs),
           NEW bookmark \in Bookmarks \cup {NoBookmark},
           NEW page \in Raw(order, attr, bookmark)
    PROVE  /\ PageOf(order, attr, Left(order, attr, bookmark), page)
           /\ QueriedAs = "segregated" => ~ PrivateRefuses(bookmark, QueryHash(order, attr))
<1>1. /\ QueriedAs \in {"public", "segregated", "mixed"}
      /\ setup.sortAt \in {"public", "private"}
  BY PagingAssumption DEF Queried, QueriedAs
<1>2. ASSUME ~OfCollection, NEW p \in PublicPage(order, attr, bookmark)
      PROVE  PageOf(order, attr, Left(order, attr, bookmark), p)
  <2>1. ~KeyMisread
    BY <1>2 DEF KeyMisread, OfCollection
  <2> QED
    BY <1>2, <2>1, PublicPages, LeftIsTable
<1>3. CASE QueriedAs = "public"
  <2>1. page \in PublicPage(order, attr, bookmark)
    BY <1>3 DEF Raw
  <2> QED
    BY <1>2, <1>3, <2>1 DEF OfCollection
<1>4. CASE QueriedAs = "segregated"
  <2>1. page \in PrivatePage(order, attr, bookmark)
    BY <1>4 DEF Raw
  <2>2. OfCollection
    BY <1>4 DEF OfCollection
  <2> QED
    BY <1>4, <2>1, <2>2, PrivatePages
<1>5. CASE QueriedAs = "mixed"
  <2>1. PICK S : S = Left(order, attr, bookmark)
    OBVIOUS
  <2>2. PICK public \in Halves(order, attr, bookmark).public,
             private \in Halves(order, attr, bookmark).private :
          page = IF Len(private.docs) >= Len(public.docs) THEN private ELSE public
    BY <1>5 DEF Raw
  <2>3. CASE setup.sortAt = "public"
    <3>1. public \in PublicPage(order, attr, bookmark)
      BY <2>2, <2>3 DEF Halves
    <3>2. PageOf(order, attr, S, public)
      BY <1>2, <1>5, <2>1, <2>3, <3>1 DEF OfCollection
    <3>3. private.docs = <<>> /\ private.next = NoBookmark
      BY <2>2, <2>3 DEF Halves, EmptyPage
    <3>4. public.docs \in Seq(S)
      BY <3>2 DEF PageOf
    <3>5. CASE public.docs = <<>>
      <4>1. page = private
        BY <2>2, <3>3, <3>5
      <4>2. S = {}
        BY <3>2, <3>5 DEF PageOf, ToSet
      <4> QED
        BY <1>5, <2>1, <3>3, <4>1, <4>2, PageOfNothing
    <3>6. CASE public.docs # <<>>
      <4>1. Len(public.docs) \in Nat /\ Len(public.docs) # 0 /\ Len(private.docs) = 0
        BY <3>3, <3>4, <3>6
      <4>2. page = public
        BY <2>2, <4>1
      <4> QED
        BY <1>5, <2>1, <3>2, <4>2
    <3> QED
      BY <3>5, <3>6
  <2>4. CASE setup.sortAt = "private"
    <3>1. private \in PrivatePage(order, attr, bookmark)
      BY <2>2, <2>4 DEF Halves
    <3>2. PageOf(order, attr, S, private)
      <4>1. OfCollection
        BY <1>5, <2>4 DEF OfCollection
      <4> QED
        BY <2>1, <3>1, <4>1, PrivatePages
    <3>3. public.docs = <<>>
      BY <2>2, <2>4 DEF Halves, EmptyPage
    <3>4. Len(private.docs) \in Nat /\ Len(public.docs) = 0
      BY <3>2, <3>3 DEF PageOf
    <3>5. page = private
      BY <2>2, <3>4
    <3> QED
      BY <1>5, <2>1, <3>2, <3>5
  <2> QED
    BY <1>1, <2>3, <2>4
<1> QED
  BY <1>1, <1>3, <1>4, <1>5

\* The variables of the client.
Scanning ==
    /\ Queried
    /\ scan \in [state : {"going", "ended", "emptied", "refused"}, order : Orders,
                 attr : ToSet(Attrs), bookmark : Bookmarks \cup {NoBookmark}]

\* What the paginator gets is a page of the rows left with the attribute it names.
NextOf(order, page) ==
    /\ page.attr \in ToSet(Attrs)
    /\ setup.method = "page" /\ scan.bookmark # NoBookmark => page.attr = scan.attr
    /\ PageOf(order, page.attr, Left(order, page.attr, scan.bookmark), page)
    /\ QueriedAs = "segregated" =>
          ~ PrivateRefuses(scan.bookmark, QueryHash(order, page.attr))

LEMMA AttrsAre ==
    ASSUME Scanning
    PROVE  /\ \E n \in Nat \ {0} : DOMAIN AttrsToTry = 1..n
           /\ \A i \in DOMAIN AttrsToTry :
                 /\ AttrsToTry[i] \in ToSet(Attrs)
                 /\ scan.bookmark # NoBookmark => AttrsToTry[i] = scan.attr
           /\ Attrs[1] \in ToSet(Attrs)
<1>1. CASE scan.bookmark # NoBookmark
  <2>1. AttrsToTry = <<scan.attr>>
    BY <1>1 DEF AttrsToTry
  <2>2. DOMAIN AttrsToTry = 1..1 /\ 1 \in Nat \ {0} /\ \A i \in 1..1 : AttrsToTry[i] = scan.attr
    BY <2>1
  <2> QED
    BY <1>1, <2>2, PagingAssumption DEF Scanning, ToSet
<1>2. CASE scan.bookmark = NoBookmark
  <2>1. AttrsToTry = Attrs
    BY <1>2, SMTT(30) DEF AttrsToTry
  <2>2. PICK n \in Nat \ {0} : DOMAIN Attrs = 1..n
    BY PagingAssumption
  <2>3. 1 \in DOMAIN Attrs
    BY <2>2
  <2>4. \A i \in DOMAIN Attrs : Attrs[i] \in ToSet(Attrs)
    BY DEF ToSet
  <2> QED
    BY <1>2, <2>1, <2>2, <2>3, <2>4
<1> QED
  BY <1>1, <1>2

LEMMA PagesByAttrs ==
    ASSUME Scanning, setup.method = "page", NEW order \in Orders,
           NEW page \in PageByAttrs(order)
    PROVE  NextOf(order, page)
<1>1. PICK b \in Bookmarks \cup {NoBookmark} : b = scan.bookmark
  BY DEF Scanning
<1>2. PICK n \in Nat \ {0} : DOMAIN AttrsToTry = 1..n
  BY AttrsAre
<1> DEFINE try == AttrsToTry
<1>4. \A i \in 1..n : try[i] \in ToSet(Attrs) /\ (b # NoBookmark => try[i] = scan.attr)
  BY <1>1, <1>2, AttrsAre
<1> DEFINE raw == [i \in DOMAIN try |-> PageByDefaultAttr(order, try[i])]
           hits(i) == {r \in raw[i] : r.docs # <<>>}
           tried == {i \in DOMAIN raw : hits(i) # {}}
           first == CHOOSE i \in tried : \A j \in tried : i <= j
<1>7. first = CHOOSE i \in tried : \A j \in tried : i <= j
  OBVIOUS
<1>8. /\ \A i \in 1..n : raw[i] # {}
      /\ tried = {i \in 1..n : hits(i) # {}}
      /\ \A i \in 1..n : raw[i] = PageByDefaultAttr(order, try[i])
      /\ tried = {} => page = [docs |-> <<>>, next |-> NoBookmark, attr |-> try[1]]
      /\ tried # {} => \E r \in hits(first) :
                page = [docs |-> r.docs, next |-> r.next, attr |-> try[first]]
  <2>1. DOMAIN raw = 1..n /\ \A i \in 1..n : raw[i] = PageByDefaultAttr(order, try[i])
    BY <1>2
  <2>2. page \in IF \E i \in DOMAIN raw : raw[i] = {} THEN {}
                ELSE IF tried = {}
                THEN {[docs |-> <<>>, next |-> NoBookmark, attr |-> try[1]]}
                ELSE {[docs |-> r.docs, next |-> r.next, attr |-> try[first]] :
                        r \in hits(first)}
    BY DEF PageByAttrs
  <2> HIDE DEF try, raw, hits, tried, first
  <2>3. \A i \in 1..n : raw[i] # {}
    BY <2>1, <2>2
  <2>4. tried = {} => page = [docs |-> <<>>, next |-> NoBookmark, attr |-> try[1]]
    BY <2>1, <2>2, <2>3
  <2>5. tried # {} => \E r \in hits(first) :
                page = [docs |-> r.docs, next |-> r.next, attr |-> try[first]]
    BY <2>1, <2>2, <2>3
  <2>6. tried = {i \in 1..n : hits(i) # {}}
    BY <2>1 DEF tried
  <2> QED
    BY <2>1, <2>3, <2>4, <2>5, <2>6
<1> HIDE DEF try, raw, tried, first
<1>9. ASSUME NEW i \in 1..n, NEW r \in raw[i]
      PROVE  /\ PageOf(order, try[i], Left(order, try[i], b), r)
             /\ QueriedAs = "segregated" => ~ PrivateRefuses(b, QueryHash(order, try[i]))
  <2>1. r \in Raw(order, try[i], b)
    BY <1>1, <1>8 DEF PageByDefaultAttr
  <2> QED
    BY <1>4, <2>1, RawPages DEF Scanning
<1>10. CASE tried = {}
  <2>1. PICK r \in raw[1] : r.docs = <<>>
    BY <1>8, <1>10
  <2>2. 1 \in 1..n
    OBVIOUS
  <2>3. PageOf(order, try[1], Left(order, try[1], b), r)
    BY <1>9, <2>2
  <2>4. Left(order, try[1], b) = {}
    BY <2>1, <2>3 DEF PageOf, ToSet
  <2>5. page.docs = <<>> /\ page.next = NoBookmark /\ page.attr = try[1]
    BY <1>8, <1>10
  <2>6. PageOf(order, try[1], Left(order, try[1], b), page)
    BY <2>4, <2>5, PageOfNothing
  <2>7. QueriedAs = "segregated" => ~ PrivateRefuses(b, QueryHash(order, try[1]))
    BY <1>9, <2>2
  <2> QED
    BY <1>1, <1>4, <2>2, <2>5, <2>6, <2>7 DEF NextOf
<1>11. CASE tried # {}
  <2>1. first \in tried
    <3>1. tried \in SUBSET Nat
      BY <1>8
    <3>2. \E i \in tried : \A j \in tried : i <= j
      BY ONLY <1>11, <3>1, Least
    <3> QED
      BY <1>7, <3>2
  <2>2. first \in 1..n
    BY <1>8, <2>1
  <2>3. PICK r \in raw[first] :
            page = [docs |-> r.docs, next |-> r.next, attr |-> try[first]]
    BY <1>8, <1>11
  <2>4. /\ PageOf(order, try[first], Left(order, try[first], b), r)
        /\ QueriedAs = "segregated" => ~ PrivateRefuses(b, QueryHash(order, try[first]))
    BY <1>9, <2>2
  <2>5. page.docs = r.docs /\ page.next = r.next /\ page.attr = try[first]
    BY <2>3
  <2>6. PageOf(order, try[first], Left(order, try[first], b), page)
    BY <2>4, <2>5 DEF PageOf
  <2> QED
    BY <1>1, <1>4, <2>2, <2>4, <2>5, <2>6 DEF NextOf
<1> QED
  BY <1>10, <1>11

LEMMA NextPages ==
    ASSUME Scanning, setup.method \in {"paginateBy", "page"}, NEW order \in Orders, NEW page \in Pages(order)
    PROVE  NextOf(order, page)
<1>1. CASE setup.method = "page"
  BY <1>1, PagesByAttrs DEF Pages
<1>2. CASE setup.method # "page"
  <2>1. PICK r \in Raw(order, Attrs[1], scan.bookmark) :
            page = [docs |-> r.docs, next |-> r.next, attr |-> Attrs[1]]
    BY <1>2 DEF Pages, PaginateBy, ByQuery
  <2>2. PICK b \in Bookmarks \cup {NoBookmark} : b = scan.bookmark
    BY DEF Scanning
  <2>3. Attrs[1] \in ToSet(Attrs)
    BY AttrsAre
  <2>4. /\ PageOf(order, Attrs[1], Left(order, Attrs[1], b), r)
        /\ QueriedAs = "segregated" => ~ PrivateRefuses(b, QueryHash(order, Attrs[1]))
    BY <2>1, <2>2, <2>3, RawPages DEF Scanning
  <2>5. page.docs = r.docs /\ page.next = r.next /\ page.attr = Attrs[1]
    BY <2>1
  <2>6. PageOf(order, Attrs[1], Left(order, Attrs[1], b), page)
    BY <2>4, <2>5 DEF PageOf
  <2> QED
    BY <1>2, <2>2, <2>3, <2>4, <2>5, <2>6 DEF NextOf
<1> QED
  BY <1>1, <1>2

-----------------------------------------------------------------------------
\* Pages of a range of keys.

LEMMA LengthOfSorted ==
    ASSUME NEW order \in Orders, NEW S, S \subseteq Row, NEW q \in Seq(S), Sorted(order, q)
    PROVE  IsFiniteSet(ToSet(q)) /\ Cardinality(ToSet(q)) = Len(q)
<1>1. PICK n \in Nat : n = Len(q) /\ DOMAIN q = 1..n
  OBVIOUS
<1>2. \A i, j \in 1..n : q[i] = q[j] => i = j
  <2> SUFFICES ASSUME NEW i \in 1..n, NEW j \in 1..n, q[i] = q[j], i < j PROVE FALSE
    OBVIOUS
  <2>1. q[i] \in Row /\ q[j] \in Row
    BY <1>1
  <2>2. After(order, q[i], q[i])
    BY <1>1 DEF Sorted
  <2> QED
    BY <2>1, <2>2, AfterIsOrder
<1>3. q \in Bijection(1..n, ToSet(q))
  BY <1>1, <1>2 DEF Bijection, Injection, Surjection, IsInjective, ToSet
<1>4. PICK D : D = 1..n
  OBVIOUS
<1>5. IsFiniteSet(D) /\ Cardinality(D) = n
  BY <1>4, FS_Interval
<1>6. PICK U : U = ToSet(q)
  OBVIOUS
<1>7. q \in Bijection(D, U)
  BY <1>3, <1>4, <1>6
<1>8. Cardinality(U) = Cardinality(D) /\ IsFiniteSet(U)
  BY ONLY <1>5, <1>7, FS_Bijection DEF ExistsBijection
<1> QED
  BY <1>1, <1>5, <1>6, <1>8

\* The row of the bookmark is left out; a page that is the last one has all
\* the others.
RangeOf(bookmark, page) ==
    /\ page.docs \in Seq(Rows)
    /\ page.next = NoBookmark \/ page.docs = <<>> =>
          \A r \in Rows : (bookmark # NoBookmark => r.id # bookmark.row.id)
                             => r \in ToSet(page.docs)
    /\ page.next # NoBookmark /\ page.docs # <<>> =>
          /\ page.next \in Bookmarks /\ page.next.kind = "range"
          /\ page.next.row = Last(page.docs)
          /\ bookmark # NoBookmark => page.next.row.id # bookmark.row.id

LEMMA RangePages ==
    ASSUME Queried, NEW order \in Orders, NEW bookmark,
           NEW page \in RangePage(order, bookmark)
    PROVE  RangeOf(bookmark, page)
<1>1. PICK S : S = {r \in Rows : bookmark # NoBookmark => r.id # bookmark.row.id}
  OBVIOUS
<1>2. Table(S) /\ S \subseteq Rows /\ S \subseteq Row
  <2>1. S \in SUBSET Rows
    BY <1>1
  <2> QED
    BY <2>1, RowsAreTable, PartOfTable DEF Table
<1>3. PICK n \in Nat \ {0} : n = PageSize
  BY PagingAssumption
<1>4. PICK q : q = InOrder("asc", S)
  OBVIOUS
<1>5. PICK read : read = AtMost(n + 1, q)
  OBVIOUS
<1>6. PICK T : T = ToSet(read)
  OBVIOUS
<1>7. PICK sorted : sorted = InOrder(order, T)
  OBVIOUS
<1>8. PICK d : d = AtMost(n, sorted)
  OBVIOUS
<1>9. /\ page.docs = d
      /\ page.next = IF Len(sorted) > n
                     THEN [kind |-> "range", row |-> Last(d), hash |-> <<>>]
                     ELSE NoBookmark
  BY <1>1, <1>3, <1>4, <1>5, <1>6, <1>7, <1>8 DEF RangePage
<1>10. "asc" \in Orders /\ n + 1 \in Nat \ {0}
  BY DEF Orders
<1>11. ListingOf("asc", q, S)
  BY <1>2, <1>4, <1>10, InOrderLists
<1>12. /\ read \in Seq(S) /\ Sorted("asc", read)
       /\ Len(q) <= n + 1 \/ read = <<>> => S \subseteq T
       /\ Len(q) > n + 1 => Len(read) = n + 1
  BY <1>5, <1>6, <1>10, <1>11, FirstRows
<1>13. T \subseteq S /\ Cardinality(T) = Len(read) /\ IsFiniteSet(T)
  <2>1. IsFiniteSet(T) /\ Cardinality(T) = Len(read)
    BY <1>2, <1>6, <1>10, <1>12, LengthOfSorted
  <2>2. T \subseteq S
    BY <1>6, <1>12 DEF ToSet
  <2> QED
    BY <2>1, <2>2
<1>14. Table(T)
  BY <1>2, <1>13, PartOfTable
<1>15. ListingOf(order, sorted, T) /\ Len(sorted) = Len(read)
  BY <1>7, <1>13, <1>14, InOrderLists, LengthOfListing
<1>16. /\ d \in Seq(T)
       /\ Len(sorted) <= n \/ d = <<>> => T \subseteq ToSet(d)
       /\ Len(sorted) > n => Len(d) = n
  BY <1>8, <1>15, FirstRows
<1>17. Len(q) \in Nat /\ Len(read) \in Nat
  BY <1>11, <1>12 DEF ListingOf
<1>18. CASE Len(sorted) > n
  <2>1. Len(d) = n /\ d # <<>>
    BY <1>16, <1>18
  <2>2. Last(d) \in T /\ Last(d) \in S /\ Last(d) \in Row
    BY <1>2, <1>13, <1>16, <2>1, LastOfDocs
  <2>3. page.next = [kind |-> "range", row |-> Last(d), hash |-> <<>>]
    BY <1>9, <1>18
  <2>4. page.next \in Bookmarks /\ page.next.kind = "range" /\ page.next.row = Last(d)
    BY <2>2, <2>3 DEF Bookmarks, Row
  <2>5. bookmark # NoBookmark => page.next.row.id # bookmark.row.id
    BY <1>1, <2>2, <2>4
  <2>6. page.next # NoBookmark
    BY <2>4, PagingAssumption
  <2>7. d \in Seq(Rows)
    BY <1>2, <1>13, <1>16
  <2> QED
    BY <1>9, <2>1, <2>4, <2>5, <2>6, <2>7 DEF RangeOf
<1>19. CASE Len(sorted) <= n
  <2>1. Len(q) <= n + 1
    BY <1>12, <1>15, <1>17, <1>19
  <2>2. S \subseteq ToSet(d)
    BY <1>12, <1>16, <1>19, <2>1
  <2>3. page.next = NoBookmark
    BY <1>9, <1>15, <1>17, <1>19
  <2>4. d \in Seq(Rows)
    BY <1>2, <1>13, <1>16
  <2> QED
    BY <1>1, <1>9, <2>2, <2>3, <2>4 DEF RangeOf
<1> QED
  BY <1>15, <1>17, <1>18, <1>19

-----------------------------------------------------------------------------
\* The inductive invariant.

Shapes ==
    /\ Scanning
    /\ got \in Seq(Row)
    /\ steady \subseteq Rows
    /\ scan.bookmark # NoBookmark => scan.state # "ended" /\ scan.bookmark.row \in ToSet(got)
    /\ setup.method \in Listings => scan.order = setup.order /\ scan.bookmark = NoBookmark

\* The bookmark of a scan that goes on is after the last row that was returned,
\* and of the query that is made again.
Linked ==
    scan.state = "going" =>
        /\ scan.bookmark = NoBookmark => got = <<>>
        /\ scan.bookmark # NoBookmark /\ ByQuery =>
              /\ scan.bookmark.row = Last(got)
              /\ scan.bookmark.kind = "private" =>
                    scan.bookmark.hash = QueryHash(scan.order, scan.attr)

\* The rows a query with the attribute is about.
Wanted(attr, r) == setup.method \in {"page", "find"} => r.id \in Matches[attr]

\* A row has been returned, or a misread key has lost it.
Settled(order, q, r) == r \in ToSet(q) \/ MissedByKey(order, q, r)

\* A row that stays is settled or still to come.
Kept ==
    scan.state = "going" /\ scan.bookmark # NoBookmark =>
        \A r \in steady :
            IF ByQuery
            THEN Wanted(scan.attr, r) =>
                    \/ Settled(scan.order, got, r)
                    \/ Follows(scan.order, r, scan.bookmark.row)
            ELSE r.id = scan.bookmark.row.id => r = scan.bookmark.row

PagingInv == Shapes /\ Linked /\ Kept /\ PagesAdvance /\ ScanComplete

LEMMA PagingInit == Init => PagingInv
<1> SUFFICES ASSUME Init PROVE PagingInv
  OBVIOUS
<1>1. Scanning
  <2>1. Attrs[1] \in ToSet(Attrs)
    <3>1. 1 \in DOMAIN Attrs
      BY PagingAssumption
    <3> QED
      BY <3>1 DEF ToSet
  <2>2. setup.order \in Orders
    BY PagingAssumption DEF Init
  <2> QED
    BY <2>1, <2>2 DEF Init, Scanning, Queried
<1>2. Shapes
  BY <1>1 DEF Init, Shapes
<1>3. Linked /\ Kept
  BY DEF Init, Linked, Kept
<1>4. PagesAdvance /\ ScanComplete
  BY DEF Init, PagesAdvance, ScanComplete
<1> QED
  BY <1>2, <1>3, <1>4 DEF PagingInv

LEMMA Appended ==
    ASSUME NEW S, NEW p \in Seq(S), NEW d \in Seq(S)
    PROVE  /\ p \o d \in Seq(S) /\ ToSet(p \o d) = ToSet(p) \cup ToSet(d)
           /\ d # <<>> => Last(p \o d) = Last(d)
<1>1. PICK m \in Nat, n \in Nat : m = Len(p) /\ n = Len(d)
  OBVIOUS
<1>2. PICK q : q = p \o d
  OBVIOUS
<1>3. /\ q \in Seq(S) /\ Len(q) = m + n /\ DOMAIN q = 1..(m + n)
      /\ DOMAIN p = 1..m /\ DOMAIN d = 1..n
      /\ \A i \in 1..(m + n) : q[i] = IF i <= m THEN p[i] ELSE d[i - m]
  BY <1>1, <1>2
<1>4. \A i \in 1..m : i \in 1..(m + n) /\ q[i] = p[i]
  BY <1>3
<1>5. \A i \in 1..n : i + m \in 1..(m + n) /\ q[i + m] = d[i]
  BY <1>3
<1>6. ToSet(p) \subseteq ToSet(q)
  <2>1. \A i \in DOMAIN p : i \in DOMAIN q /\ p[i] = q[i]
    BY ONLY <1>3, <1>4
  <2> QED
    BY ONLY <2>1 DEF ToSet
<1>7. ToSet(d) \subseteq ToSet(q)
  <2>1. \A i \in DOMAIN d : i + m \in DOMAIN q /\ d[i] = q[i + m]
    BY ONLY <1>3, <1>5
  <2> QED
    BY ONLY <2>1 DEF ToSet
<1>8. ToSet(q) \subseteq ToSet(p) \cup ToSet(d)
  <2> SUFFICES ASSUME NEW i \in 1..(m + n) PROVE q[i] \in ToSet(p) \cup ToSet(d)
    BY <1>3 DEF ToSet
  <2>1. CASE i <= m
    <3>1. i \in 1..m /\ q[i] = p[i]
      BY <1>3, <2>1
    <3> QED
      BY <1>3, <3>1 DEF ToSet
  <2>2. CASE i > m
    <3>1. i - m \in 1..n /\ q[i] = d[i - m]
      BY <1>3, <2>2
    <3> QED
      BY <1>3, <3>1 DEF ToSet
  <2> QED
    BY <2>1, <2>2
<1>9. ASSUME d # <<>> PROVE Last(q) = Last(d)
  <2>1. n # 0
    BY <1>1, <1>9
  <2>2. n \in 1..n
    BY <2>1
  <2>3. q[n + m] = d[n]
    BY <1>5, <2>2
  <2> QED
    BY <1>1, <1>3, <2>3 DEF Last
<1> QED
  BY <1>2, <1>3, <1>6, <1>7, <1>8, <1>9

LEMMA AdvancingAppended ==
    ASSUME NEW order \in Orders, NEW p \in Seq(Row), NEW d \in Seq(Row),
           Advancing(order, p), Advancing(order, d),
           p # <<>> => \A i \in DOMAIN d : Onward(order, d[i], Last(p))
    PROVE  Advancing(order, p \o d)
<1>1. PICK m \in Nat, n \in Nat : m = Len(p) /\ n = Len(d)
  OBVIOUS
<1>2. PICK q : q = p \o d
  OBVIOUS
<1>3. /\ q \in Seq(Row) /\ DOMAIN q = 1..(m + n)
      /\ DOMAIN p = 1..m /\ DOMAIN d = 1..n
      /\ \A i \in 1..(m + n) : q[i] = IF i <= m THEN p[i] ELSE d[i - m]
  BY <1>1, <1>2
<1> SUFFICES ASSUME NEW i \in 1..(m + n), NEW j \in 1..(m + n), i < j
             PROVE  Onward(order, q[j], q[i])
  BY <1>2, <1>3 DEF Advancing
<1>4. CASE j <= m
  <2>1. i \in DOMAIN p /\ j \in DOMAIN p /\ q[i] = p[i] /\ q[j] = p[j]
    BY <1>3, <1>4
  <2> QED
    BY <2>1 DEF Advancing
<1>5. CASE i > m
  <2>1. /\ i - m \in DOMAIN d /\ j - m \in DOMAIN d /\ i - m < j - m
        /\ q[i] = d[i - m] /\ q[j] = d[j - m]
    BY <1>3, <1>5
  <2> QED
    BY <2>1 DEF Advancing
<1>6. CASE i <= m /\ j > m
  <2>1. i \in 1..m /\ m \in 1..m /\ j - m \in 1..n /\ q[i] = p[i] /\ q[j] = d[j - m]
    BY <1>3, <1>6
  <2>2. p # <<>> /\ Last(p) = p[m]
    BY <1>1, <2>1 DEF Last
  <2>3. Onward(order, q[j], p[m])
    BY <1>3, <2>1, <2>2
  <2>4. p[m] = q[i] \/ Onward(order, p[m], q[i])
    <3>1. i \in DOMAIN p /\ m \in DOMAIN p /\ (i = m \/ i < m)
      BY <1>3, <2>1
    <3>2. \A k, l \in DOMAIN p : k < l => Onward(order, p[l], p[k])
      BY DEF Advancing
    <3> QED
      BY <2>1, <3>1, <3>2
  <2>5. q[j] \in Row /\ q[i] \in Row /\ p[m] \in Row
    BY <1>3, <2>1
  <2> QED
    BY <2>3, <2>4, <2>5, OnwardIs
<1> QED
  BY <1>4, <1>5, <1>6

\* What is settled stays so, and a row that comes again settles the others of a
\* descending scan.
LEMMA SettledAppended ==
    ASSUME NEW order, NEW p \in Seq(Row), NEW d \in Seq(Row), NEW q, q = p \o d
    PROVE  /\ \A r : Settled(order, p, r) => Settled(order, q, r)
           /\ p # <<>> /\ d # <<>> /\ Last(p) = Last(d) =>
                 \E i, j \in DOMAIN q : i < j /\ q[i] = q[j]
<1>1. PICK m \in Nat, n \in Nat : m = Len(p) /\ n = Len(d)
  OBVIOUS
<1>2. /\ DOMAIN q = 1..(m + n) /\ DOMAIN p = 1..m /\ DOMAIN d = 1..n
      /\ \A i \in 1..(m + n) : q[i] = IF i <= m THEN p[i] ELSE d[i - m]
  BY <1>1
<1>3. \A i \in DOMAIN p : i \in DOMAIN q /\ q[i] = p[i]
  BY <1>2
<1>4. ToSet(p) \subseteq ToSet(q)
  BY Appended
<1>5. \A r : Settled(order, p, r) => Settled(order, q, r)
  BY <1>3, <1>4 DEF Settled, MissedByKey
<1>6. ASSUME p # <<>>, d # <<>>, Last(p) = Last(d)
      PROVE  \E i, j \in DOMAIN q : i < j /\ q[i] = q[j]
  <2>1. m # 0 /\ n # 0
    BY <1>1, <1>6
  <2>2. m \in DOMAIN q /\ m + n \in DOMAIN q /\ m < m + n
    BY <1>2, <2>1
  <2>3. q[m] = p[m] /\ q[m + n] = d[n]
    BY <1>2, <2>1, <2>2
  <2> QED
    BY <1>1, <1>6, <2>2, <2>3 DEF Last
<1> QED
  BY <1>5, <1>6

-----------------------------------------------------------------------------
\* The next page.

LEMMA WantedIsSelected ==
    ASSUME NEW attr, NEW r \in Rows
    PROVE  Wanted(attr, r) <=> r \in Selected(attr)
BY DEF Wanted, Selected

\* A page of a query is in the order of the scan.
LEMMA OrderIsKept ==
    ASSUME PagingInv, scan.state = "going", setup.method \in {"paginateBy", "page"},
           NEW order \in Orders, NEW page \in Pages(order),
           order = scan.order \/ (QueriedAs = "segregated" /\ scan.bookmark # NoBookmark)
    PROVE  order = scan.order
<1> SUFFICES ASSUME order # scan.order PROVE FALSE
  OBVIOUS
<1>1. ~ PrivateRefuses(scan.bookmark, QueryHash(order, page.attr))
  BY NextPages DEF PagingInv, Shapes, NextOf
<1>2. QueryHash(scan.order, scan.attr) = QueryHash(order, page.attr)
  BY <1>1 DEF PrivateRefuses, PagingInv, Linked, ByQuery
<1> QED
  BY <1>2 DEF QueryHash

\* What the client has after a page of a query.
LEMMA QueryStep ==
    ASSUME PagingInv, scan.state = "going", setup.method \in {"paginateBy", "page"},
           NEW order \in Orders, order = scan.order,
           NEW page \in Pages(order),
           NEW more \in BOOLEAN, more = HasNext(page.docs, page.next, scan.bookmark),
           NEW q, q = got \o page.docs
    PROVE  /\ page.attr \in ToSet(Attrs) /\ q \in Seq(Row) /\ Advancing(order, q)
           /\ more => /\ page.next \in Bookmarks /\ page.next.row \in ToSet(q)
                      /\ page.next.row = Last(q)
                      /\ page.next.kind = "private" =>
                            page.next.hash = QueryHash(order, page.attr)
           /\ \A r \in steady : Wanted(page.attr, r) =>
                 Settled(order, q, r) \/ (more /\ Follows(order, r, page.next.row))
<1>1. PICK b \in Bookmarks \cup {NoBookmark} : b = scan.bookmark
  BY DEF PagingInv, Shapes, Scanning
<1>2. PICK S : S = Left(order, page.attr, b)
  OBVIOUS
<1>3. PICK d : d = page.docs
  OBVIOUS
<1>4. /\ page.attr \in ToSet(Attrs)
      /\ setup.method = "page" /\ b # NoBookmark => page.attr = scan.attr
      /\ PageOf(order, page.attr, S, page)
  BY <1>1, <1>2, NextPages DEF NextOf, PagingInv, Shapes
<1>5. Queried /\ S \subseteq Row /\ steady \subseteq Rows /\ steady \subseteq Row
  <2>1. Queried /\ steady \subseteq Rows
    BY DEF PagingInv, Shapes, Scanning
  <2> QED
    BY <1>2, <2>1, LeftIsTable, RowsAreTable DEF Table
<1>6. /\ d \in Seq(S) /\ d \in Seq(Row) /\ Sorted(order, d) /\ got \in Seq(Row)
      /\ d # <<>> => Last(d) \in S
  BY <1>3, <1>4, <1>5, LastOfDocs DEF PageOf, PagingInv, Shapes
<1>7. /\ q \in Seq(Row) /\ ToSet(q) = ToSet(got) \cup ToSet(d)
      /\ d # <<>> => Last(q) = Last(d) /\ Last(d) \in ToSet(d)
  BY <1>3, <1>6, Appended, LastOfDocs
<1>8. b # NoBookmark => b.row = Last(got) /\ got # <<>> /\ b.row \in Row
  <2>1. SUFFICES ASSUME b # NoBookmark
                 PROVE  b.row = Last(got) /\ got # <<>> /\ b.row \in Row
    OBVIOUS
  <2>2. b.row = Last(got) /\ b.row \in ToSet(got)
    BY <1>1, <2>1 DEF PagingInv, Linked, Shapes, ByQuery
  <2>3. ToSet(<<>>) = {}
    BY DEF ToSet
  <2> QED
    BY <2>1, <2>2, <2>3 DEF Bookmarks, Row
<1>9. got # <<>> => b # NoBookmark
  BY <1>1 DEF PagingInv, Linked
<1>10. Advancing(order, q)
  <2>1. Advancing(order, got)
    BY DEF PagingInv, PagesAdvance, Advancing, ByQuery
  <2>2. Advancing(order, d)
    <3> SUFFICES ASSUME NEW i \in DOMAIN d, NEW j \in DOMAIN d, i < j
                 PROVE  Onward(order, d[j], d[i])
      BY DEF Advancing
    <3>1. After(order, d[j], d[i]) /\ d[j] \in Row /\ d[i] \in Row
      BY <1>6 DEF Sorted
    <3> QED
      BY <3>1, OnwardIs
  <2>3. ASSUME got # <<>>, NEW i \in DOMAIN d PROVE Onward(order, d[i], Last(got))
    <3>1. b # NoBookmark /\ b.row = Last(got) /\ b.row \in Row
      BY <1>8, <1>9, <2>3
    <3>2. d[i] \in S /\ d[i] \in Row
      BY <1>6
    <3>3. Follows(order, d[i], b.row)
      BY <1>2, <3>1, <3>2 DEF Left
    <3> QED
      BY <3>1, <3>2, <3>3, OnwardIs
  <2> QED
    BY <1>3, <1>6, <2>1, <2>2, <2>3, AdvancingAppended
<1>11. ASSUME more
       PROVE  /\ d # <<>> /\ page.next \in Bookmarks /\ page.next.row = Last(d)
              /\ \A r \in S : r \in ToSet(d) \/ After(order, r, page.next.row)
              /\ page.next.kind = "private" => page.next.hash = QueryHash(order, page.attr)
  BY <1>3, <1>4, <1>11 DEF HasNext, PageOf
<1>12. ASSUME ~more, NEW r \in S PROVE Settled(order, q, r)
  <2>1. CASE page.next = NoBookmark \/ d = <<>>
    BY <1>3, <1>4, <1>7, <1>12, <2>1 DEF PageOf, Settled
  <2>2. CASE page.next # NoBookmark /\ d # <<>>
    <3>1. page.next = b /\ b # NoBookmark
      BY <1>1, <1>3, <1>12, <2>2 DEF HasNext
    <3>2. b.row = Last(d) /\ Last(d) \in S /\ b.row \in Row
      BY <1>3, <1>4, <1>6, <1>8, <2>2, <3>1 DEF PageOf
    <3>3. Follows(order, b.row, b.row)
      BY <1>2, <3>1, <3>2 DEF Left
    <3>4. b.row.val \in Int
      BY <3>2, PagingAssumption DEF Row
    <3>5. KeyMisread /\ order # "asc"
      <4>1. KeyMisread
        BY <3>2, <3>3, AfterIsOrder DEF Follows
      <4> QED
        BY <3>3, <3>4, <4>1 DEF Follows, Beyond
    <3>6. \E i, j \in DOMAIN q : i < j /\ q[i] = q[j]
      <4>1. got # <<>> /\ Last(got) = Last(d)
        BY <1>8, <3>1, <3>2
      <4>2. q = got \o d /\ got \in Seq(Row) /\ d \in Seq(Row)
        BY <1>3, <1>6
      <4> QED
        BY ONLY <2>2, <4>1, <4>2, SettledAppended
    <3> QED
      BY <3>5, <3>6 DEF Settled, MissedByKey
  <2> QED
    BY <2>1, <2>2
<1>13. ASSUME NEW r \in steady, Wanted(page.attr, r), ~ Settled(order, q, r)
       PROVE  more /\ Follows(order, r, page.next.row)
  <2>1. r \in Selected(page.attr) /\ r \in Row
    BY <1>5, <1>13, WantedIsSelected
  <2>2. b # NoBookmark => Follows(order, r, b.row)
    <3>1. SUFFICES ASSUME b # NoBookmark PROVE Follows(order, r, b.row)
      OBVIOUS
    <3>2. Wanted(scan.attr, r)
      BY <1>4, <1>13, <3>1 DEF Wanted
    <3>3. ~ Settled(order, got, r)
      BY <1>3, <1>6, <1>13, SettledAppended
    <3> QED
      BY <1>1, <3>1, <3>2, <3>3 DEF PagingInv, Kept, ByQuery
  <2>3. r \in S
    BY <1>2, <2>1, <2>2 DEF Left
  <2>4. more
    BY <1>12, <1>13, <2>3
  <2>5. r \notin ToSet(q) /\ page.next.row = Last(d) /\ Last(d) \in ToSet(q) /\ Last(d) \in Row
    BY <1>5, <1>6, <1>7, <1>11, <1>13, <2>4 DEF Settled
  <2>6. After(order, r, Last(d))
    BY <1>7, <1>11, <2>3, <2>4, <2>5
  <2>7. ~ (KeyMisread /\ order = "asc" /\ r.val = Last(d).val)
    BY <1>13, <2>5, <2>6 DEF Settled, MissedByKey
  <2> QED
    BY <2>1, <2>4, <2>5, <2>6, <2>7, OnwardIs
<1>14. ASSUME more PROVE page.next.row \in ToSet(q) /\ page.next.row = Last(q)
  BY <1>7, <1>11, <1>14
<1> QED
  BY <1>4, <1>7, <1>10, <1>11, <1>13, <1>14

\* What the client has after a page of a range.
LEMMA RangeStep ==
    ASSUME PagingInv, scan.state = "going", ~ByQuery, NEW order \in Orders,
           NEW page \in Pages(order),
           NEW more \in BOOLEAN, more = HasNext(page.docs, page.next, scan.bookmark),
           NEW q, q = got \o page.docs
    PROVE  /\ page.attr \in ToSet(Attrs) /\ q \in Seq(Row)
           /\ more => /\ page.next \in Bookmarks /\ page.next.row \in ToSet(q)
                      /\ \A r \in steady : r.id = page.next.row.id => r = page.next.row
           /\ ~more => steady \subseteq ToSet(q)
<1>1. PICK b \in Bookmarks \cup {NoBookmark} : b = scan.bookmark
  BY DEF PagingInv, Shapes, Scanning
<1>2. Queried /\ Table(Rows) /\ Rows \subseteq Row /\ steady \subseteq Rows /\ got \in Seq(Row)
  <2>1. Queried /\ steady \subseteq Rows /\ got \in Seq(Row)
    BY DEF PagingInv, Shapes, Scanning
  <2> QED
    BY <2>1, RowsAreTable DEF Table
<1>3. PICK p \in RangePage(order, b) :
          page = [docs |-> p.docs, next |-> p.next, attr |-> Attrs[1]]
  BY <1>1 DEF Pages, PaginateBy, ByQuery
<1>4. page.docs = p.docs /\ page.next = p.next /\ page.attr = Attrs[1]
  BY <1>3
<1>5. RangeOf(b, page)
  <2>1. RangeOf(b, p)
    BY <1>2, <1>3, RangePages
  <2> QED
    BY <1>4, <2>1 DEF RangeOf
<1>6. PICK d : d = page.docs
  OBVIOUS
<1>7. /\ d \in Seq(Rows) /\ d \in Seq(Row)
      /\ d # <<>> => Last(d) \in Rows /\ Last(d) \in ToSet(d)
  <2>1. d \in Seq(Rows)
    BY <1>5, <1>6 DEF RangeOf
  <2> QED
    BY <1>2, <2>1, LastOfDocs
<1>8. q \in Seq(Row) /\ ToSet(q) = ToSet(got) \cup ToSet(d)
  BY <1>2, <1>6, <1>7, Appended
<1>9. page.attr \in ToSet(Attrs)
  BY <1>4, AttrsAre DEF PagingInv, Shapes
<1>10. ASSUME more
       PROVE  /\ page.next \in Bookmarks /\ page.next.row \in ToSet(q)
              /\ \A r \in steady : r.id = page.next.row.id => r = page.next.row
  <2>1. d # <<>> /\ page.next \in Bookmarks /\ page.next.row = Last(d)
    BY <1>5, <1>6, <1>10 DEF HasNext, RangeOf
  <2> QED
    BY <1>2, <1>7, <1>8, <2>1 DEF Table
<1>11. ASSUME ~more, NEW r \in steady PROVE r \in ToSet(q)
  <2>1. page.next = NoBookmark \/ d = <<>>
    BY <1>1, <1>5, <1>6, <1>11 DEF HasNext, RangeOf
  <2>2. CASE b # NoBookmark => r.id # b.row.id
    BY <1>2, <1>5, <1>6, <1>8, <2>1, <2>2 DEF RangeOf
  <2>3. CASE b # NoBookmark /\ r.id = b.row.id
    <3>1. r = b.row
      BY <1>1, <2>3 DEF PagingInv, Kept
    <3>2. b.row \in ToSet(got)
      BY <1>1, <2>3 DEF PagingInv, Shapes
    <3> QED
      BY <1>8, <3>1, <3>2
  <2> QED
    BY <2>2, <2>3
<1> QED
  BY <1>8, <1>9, <1>10, <1>11

-----------------------------------------------------------------------------
\* Every step keeps the invariant.

\* What the order of rows means does not change.
LEMMA ReadingStays ==
    ASSUME setup' = setup, NEW order, NEW q, NEW r, NEW s
    PROVE  /\ After(order, r, s)' <=> After(order, r, s)
           /\ Onward(order, r, s)' <=> Onward(order, r, s)
           /\ Follows(order, r, s)' <=> Follows(order, r, s)
           /\ MissedByKey(order, q, r)' <=> MissedByKey(order, q, r)
           /\ Settled(order, q, r)' <=> Settled(order, q, r)
<1>1. KeyMisread' <=> KeyMisread
  BY DEF KeyMisread, QueriedAs
<1>2. \A t, u : After(order, t, u)' <=> After(order, t, u)
  BY DEF After, Beyond
<1> QED
  BY <1>1, <1>2 DEF Onward, Follows, MissedByKey, Settled, Beyond

\* A step that returns no row, and after which no more rows are steady.
LEMMA NothingReturned ==
    ASSUME PagingInv, setup' = setup, got' = got,
           scan' = scan \/ scan' = [scan EXCEPT !.state = "refused"],
           world' \in [Ids -> Values \cup {Absent}],
           steady' \subseteq steady, steady' \subseteq Rows'
    PROVE  PagingInv'
<1>1. Scanning /\ got \in Seq(Row)
  BY DEF PagingInv, Shapes
<1>2. /\ scan'.order = scan.order /\ scan'.attr = scan.attr /\ scan'.bookmark = scan.bookmark
      /\ scan'.state = scan.state \/ scan'.state = "refused"
      /\ scan' \in [state : {"going", "ended", "emptied", "refused"}, order : Orders,
                    attr : ToSet(Attrs), bookmark : Bookmarks \cup {NoBookmark}]
  BY <1>1 DEF Scanning
<1>3. Shapes'
  <2>1. Queried'
    BY <1>1 DEF Queried, Scanning
  <2>2. Scanning'
    BY <1>2, <2>1 DEF Scanning
  <2>3. /\ scan.bookmark # NoBookmark =>
              scan.state # "ended" /\ scan.bookmark.row \in ToSet(got)
        /\ setup.method \in Listings =>
              scan.order = setup.order /\ scan.bookmark = NoBookmark
    BY DEF PagingInv, Shapes
  <2> QED
    BY <1>1, <1>2, <2>2, <2>3 DEF Shapes
<1>4. Linked'
  BY <1>2 DEF PagingInv, Linked, ByQuery, QueryHash
<1>5. Kept'
  <2>1. ASSUME NEW r, NEW s
        PROVE  /\ Follows(scan.order, r, s)' <=> Follows(scan.order, r, s)
               /\ Settled(scan.order, got, r)' <=> Settled(scan.order, got, r)
    BY <1>2, ReadingStays
  <2>2. ASSUME NEW r PROVE Wanted(scan.attr, r)' <=> Wanted(scan.attr, r)
    BY <1>2 DEF Wanted
  <2> QED
    BY <1>2, <2>1, <2>2 DEF PagingInv, Kept, ByQuery
<1>6. PagesAdvance'
  <2>1. ASSUME NEW r, NEW s
        PROVE  Onward(scan.order, r, s)' <=> Onward(scan.order, r, s)
    BY <1>2, ReadingStays
  <2> QED
    BY <1>2, <2>1 DEF PagingInv, PagesAdvance, ByQuery
<1>7. ScanComplete'
  <2>1. ASSUME NEW r
        PROVE  MissedByKey(scan.order, got, r)' <=> MissedByKey(scan.order, got, r)
    BY <1>2, ReadingStays
  <2> QED
    BY <1>2, <2>1, SMTT(30) DEF PagingInv, ScanComplete
<1> QED
  BY <1>3, <1>4, <1>5, <1>6, <1>7 DEF PagingInv

\* The next page keeps the invariant, whatever the order it is asked for in.
LEMMA NextPageKeeps ==
    ASSUME PagingInv, NEW order \in Orders, NextPage(order),
           \/ order = scan.order
           \/ ByQuery /\ QueriedAs = "segregated" /\ scan.bookmark # NoBookmark
    PROVE  PagingInv'
<1>1. /\ scan.state = "going" /\ setup.method \notin Listings
      /\ world' = world /\ setup' = setup /\ steady' = steady
      /\ ByQuery => setup.method \in {"paginateBy", "page"}
  <2>1. setup.method \in Listings \cup {"paginateBy", "page", "range", "view"}
    BY PagingAssumption DEF PagingInv, Shapes, Scanning, Queried
  <2> QED
    BY <2>1 DEF NextPage, ByQuery
<1>2. /\ Scanning /\ Queried /\ got \in Seq(Row) /\ steady \subseteq Rows
  BY DEF PagingInv, Shapes, Scanning
<1>3. Rows' = Rows /\ Queried'
  BY <1>1, <1>2 DEF Rows, Queried
<1>4. PICK pages : pages = Pages(order)
  OBVIOUS
<1>5. CASE got' = got /\ scan' = [scan EXCEPT !.state = "refused"]
  <2>1. world' \in [Ids -> Values \cup {Absent}] /\ steady' \subseteq Rows'
    BY <1>1, <1>2, <1>3 DEF Queried
  <2> QED
    BY <1>1, <1>5, <2>1, NothingReturned
<1> DEFINE Returned(page, more) ==
            /\ got' = got \o page.docs
            /\ scan' = [scan EXCEPT !.order = order, !.attr = page.attr,
                                    !.state = IF more THEN "going" ELSE "ended",
                                    !.bookmark = IF more THEN page.next ELSE NoBookmark]
<1>6. ASSUME NEW page \in pages, NEW more \in BOOLEAN,
             more = HasNext(page.docs, page.next, scan.bookmark), Returned(page, more)
      PROVE  PagingInv'
  <2>1. page \in Pages(order)
    BY <1>4, <1>6
  <2>2. order = scan.order
    BY <1>1, <2>1, OrderIsKept
  <2>3. PICK q : q = got \o page.docs
    OBVIOUS
  <2>4. /\ page.attr \in ToSet(Attrs) /\ q \in Seq(Row)
        /\ more => page.next \in Bookmarks /\ page.next.row \in ToSet(q)
    <3>1. CASE ByQuery
      BY <1>1, <1>6, <2>1, <2>2, <2>3, <3>1, QueryStep
    <3>2. CASE ~ByQuery
      BY <1>1, <1>6, <2>1, <2>3, <3>2, RangeStep
    <3> QED
      BY <3>1, <3>2
  <2>5. ASSUME ByQuery
        PROVE  /\ Advancing(order, q)
               /\ more => /\ page.next.row = Last(q)
                          /\ page.next.kind = "private" =>
                                page.next.hash = QueryHash(order, page.attr)
               /\ \A r \in steady : Wanted(page.attr, r) =>
                     Settled(order, q, r) \/ (more /\ Follows(order, r, page.next.row))
    BY <1>1, <1>6, <2>1, <2>2, <2>3, <2>5, QueryStep
  <2>6. ASSUME ~ByQuery
        PROVE  /\ more => \A r \in steady : r.id = page.next.row.id => r = page.next.row
               /\ ~more => steady \subseteq ToSet(q)
    BY <1>1, <1>6, <2>1, <2>3, <2>6, RangeStep
  <2>7. /\ scan' \in [state : {"going", "ended", "emptied", "refused"}, order : Orders,
                      attr : ToSet(Attrs), bookmark : Bookmarks \cup {NoBookmark}]
        /\ scan'.order = order /\ scan'.attr = page.attr
        /\ scan'.state = IF more THEN "going" ELSE "ended"
        /\ scan'.bookmark = IF more THEN page.next ELSE NoBookmark
    BY <1>2, <1>6, <2>4 DEF Scanning
  <2>8. NoBookmark \notin Bookmarks
    BY PagingAssumption
  <2>9. got' = q
    BY <1>6, <2>3
  <2>10. Shapes'
    <3>1. Scanning'
      BY <1>3, <2>7 DEF Scanning
    <3> QED
      BY <1>1, <1>2, <1>3, <2>4, <2>7, <2>9, <3>1 DEF Shapes
  <2>11. ByQuery' <=> ByQuery
    BY <1>1 DEF ByQuery
  <2>12. Linked'
    <3>1. QueryHash(scan.order, scan.attr)' = QueryHash(order, page.attr)
      BY <1>1, <2>7 DEF QueryHash
    <3> QED
      BY <2>4, <2>5, <2>7, <2>8, <2>9, <2>11, <3>1 DEF Linked
  <2>13. ASSUME NEW r, NEW s
         PROVE  /\ Onward(scan.order, r, s)' <=> Onward(order, r, s)
                /\ Follows(scan.order, r, s)' <=> Follows(order, r, s)
                /\ MissedByKey(scan.order, got, r)' <=> MissedByKey(order, q, r)
                /\ Settled(scan.order, got, r)' <=> Settled(order, q, r)
    BY <1>1, <2>7, <2>9, ReadingStays
  <2>14. ASSUME NEW r PROVE Wanted(scan.attr, r)' <=> Wanted(page.attr, r)
    BY <1>1, <2>7 DEF Wanted
  <2>15. Kept'
    <3>1. CASE ByQuery
      BY <1>1, <2>5, <2>7, <2>9, <2>11, <2>13, <2>14, <3>1 DEF Kept
    <3>2. CASE ~ByQuery
      BY <1>1, <2>6, <2>7, <2>9, <2>11, <3>2 DEF Kept
    <3> QED
      BY <3>1, <3>2
  <2>16. PagesAdvance'
    <3>1. setup.method # "find"
      BY <1>1 DEF Listings
    <3> QED
      BY <1>1, <2>5, <2>9, <2>11, <2>13, <3>1 DEF PagesAdvance, Advancing
  <2>17. ScanComplete'
    <3>1. SUFFICES ASSUME ~more, NEW r \in steady,
                          setup.method = "page" => r.id \in Matches[page.attr]
                   PROVE  Settled(order, q, r)
      BY <1>1, <2>7, <2>9, <2>13 DEF ScanComplete, Settled
    <3>2. CASE ByQuery
      <4>1. Wanted(page.attr, r)
        BY <1>1, <3>1 DEF Wanted, Listings
      <4> QED
        BY <2>5, <3>1, <3>2, <4>1
    <3>3. CASE ~ByQuery
      BY <2>6, <3>1, <3>3, SMTT(30) DEF Settled
    <3> QED
      BY <3>2, <3>3
  <2> QED
    BY <2>10, <2>12, <2>15, <2>16, <2>17 DEF PagingInv
<1>7. \/ got' = got /\ scan' = [scan EXCEPT !.state = "refused"]
      \/ \E page \in pages : Returned(page, HasNext(page.docs, page.next, scan.bookmark))
  BY <1>4, ZenonT(40) DEF NextPage
<1>8. ASSUME NEW page \in pages,
             Returned(page, HasNext(page.docs, page.next, scan.bookmark))
      PROVE  PagingInv'
  <2> HIDE DEF Returned
  <2>1. PICK more \in BOOLEAN : more = HasNext(page.docs, page.next, scan.bookmark)
    BY DEF HasNext
  <2> QED
    BY <1>6, <1>8, <2>1
<1> QED
  BY <1>5, <1>7, <1>8

-----------------------------------------------------------------------------
\* Calls without pages.

\* A number of queries, each without the rows of those before it.
LEMMA FoundInTurn ==
    ASSUME Queried, NEW order \in Orders, NEW q, q = Found(order)
    PROVE  /\ q \in Seq(Row)
           /\ \A i, j \in DOMAIN q : i < j => q[i].id # q[j].id
           /\ \A r \in Rows : \A i \in DOMAIN Attrs :
                 r \in Selected(Attrs[i]) => r \in ToSet(q)
<1>1. PICK n \in Nat : DOMAIN Attrs = 1..n
  BY PagingAssumption
<1>2. PICK queries : queries = [i \in DOMAIN Attrs |->
        {r \in Selected(Attrs[i]) : \A j \in 1..(i - 1) : r \notin Selected(Attrs[j])}]
  OBVIOUS
<1>3. /\ DOMAIN queries = 1..n /\ q = InTurn(order, queries)
      /\ \A i \in 1..n : \A r : r \in queries[i] <=>
            r \in Selected(Attrs[i]) /\ \A j \in 1..(i - 1) : r \notin Selected(Attrs[j])
  BY <1>1, <1>2 DEF Found
<1>4. \A i \in 1..n : Table(queries[i]) /\ queries[i] \subseteq Rows
  <2> SUFFICES ASSUME NEW i \in 1..n PROVE Table(queries[i]) /\ queries[i] \subseteq Rows
    OBVIOUS
  <2>1. PICK U : U = queries[i]
    OBVIOUS
  <2>2. U \subseteq Selected(Attrs[i])
    BY <1>3, <2>1
  <2>3. Table(Selected(Attrs[i])) /\ Selected(Attrs[i]) \subseteq Rows
    BY SelectedIsTable
  <2> QED
    BY <2>1, <2>2, <2>3, PartOfTable
<1>5. TurnsOut(order, queries, n, q)
  BY <1>3, <1>4, InTurnTurnsOut
<1>6. q \in Seq(Row) /\ ToSet(q) = UNION {queries[i] : i \in 1..n}
  BY <1>5 DEF TurnsOut
<1>7. Table(Rows)
  BY RowsAreTable
<1>8. ASSUME NEW i \in DOMAIN q, NEW j \in DOMAIN q, i < j PROVE q[i].id # q[j].id
  <2>1. PICK a \in 1..n, b \in 1..n :
            /\ q[i] \in queries[a] /\ q[j] \in queries[b]
            /\ a < b \/ (a = b /\ After(order, q[j], q[i]))
    BY <1>5, <1>8 DEF TurnsOut
  <2>2. q[i] \in Rows /\ q[j] \in Rows /\ q[i] \in Row
    BY <1>4, <1>7, <2>1 DEF Table
  <2>3. q[i] # q[j]
    <3>1. CASE a < b
      <4>1. a \in 1..(b - 1)
        BY <3>1
      <4> QED
        BY <1>3, <2>1, <4>1
    <3>2. CASE After(order, q[j], q[i])
      BY <2>2, <3>2, AfterIsOrder
    <3> QED
      BY <2>1, <3>1, <3>2
  <2> QED
    BY <1>7, <2>2, <2>3 DEF Table
<1>9. ASSUME NEW r \in Rows, NEW i \in DOMAIN Attrs, r \in Selected(Attrs[i])
      PROVE  r \in ToSet(q)
  <2>1. PICK T : T = {k \in 1..n : r \in Selected(Attrs[k])}
    OBVIOUS
  <2>2. T \in SUBSET Nat /\ T # {}
    BY <1>1, <1>9, <2>1
  <2>3. PICK k \in T : \A y \in T : k <= y
    BY ONLY <2>2, Least
  <2>4. k \in 1..n /\ r \in Selected(Attrs[k])
    BY <2>1
  <2>5. ASSUME NEW j \in 1..(k - 1) PROVE r \notin Selected(Attrs[j])
    <3>1. j \in 1..n /\ j < k
      BY <1>1, <2>4
    <3>2. j \notin T
      BY <2>3, <2>4, <3>1
    <3> QED
      BY <2>1, <3>1, <3>2
  <2>6. r \in queries[k]
    BY <1>3, <2>4, <2>5
  <2> QED
    BY <1>6, <2>4, <2>6
<1> QED
  BY <1>6, <1>8, <1>9

\* The rows in order, or for find those of each attribute, and whether they are
\* all there are.
Answers(order, q) ==
    /\ q \in Seq(Row)
    /\ \A i, j \in DOMAIN q : i < j =>
          IF setup.method = "find" THEN q[i].id # q[j].id ELSE After(order, q[j], q[i])
    /\ \A r \in Rows :
          /\ setup.method = "raw" => setup.shape # "segregated" /\ Len(q) < QueryLimit
          /\ setup.method = "find" => \E i \in DOMAIN Attrs : r.id \in Matches[Attrs[i]]
          => r \in ToSet(q)

LEMMA AnswersToList ==
    ASSUME Queried, NEW order \in Orders, order = setup.order, setup.method \in Listings
    PROVE  Answers(order, Answer(order))
<1>1. PICK q : q = Answer(order)
  OBVIOUS
<1>2. Table(Rows) /\ Rows \subseteq Row
  BY RowsAreTable DEF Table
<1>3. PICK full : full = InOrder(order, Rows)
  OBVIOUS
<1>4. ListingOf(order, full, Rows)
  BY <1>2, <1>3, InOrderLists
<1>5. full \in Seq(Row) /\ ToSet(full) = Rows /\ Sorted(order, full)
  BY <1>2, <1>4 DEF ListingOf
<1>6. CASE setup.method \in {"list", "aggregate", "rangeList"}
  <2>1. setup.method # "list" => order = "asc"
    BY <1>6, PagingAssumption DEF Queried
  <2>2. q = full
    BY <1>1, <1>3, <1>6, <2>1 DEF Answer, Listed, Aggregated, RangeList, Selected
  <2> QED
    BY <1>1, <1>5, <1>6, <2>2 DEF Answers, Sorted
<1>7. CASE setup.method = "raw"
  <2>1. PICK n \in Nat \ {0} : n = QueryLimit
    BY PagingAssumption
  <2>2. q = AtMost(n, IF setup.shape = "segregated" THEN <<>> ELSE full)
    BY <1>1, <1>3, <1>7, <2>1 DEF Answer, RawStatement, EvaluatedRaw, Selected
  <2>3. CASE setup.shape = "segregated"
    <3>1. q = <<>>
      BY <2>2, <2>3 DEF AtMost
    <3> QED
      BY <1>1, <1>7, <2>3, <3>1 DEF Answers
  <2>4. CASE setup.shape # "segregated"
    <3>1. q = AtMost(n, full)
      BY <2>2, <2>4
    <3>2. /\ q \in Seq(Rows) /\ Sorted(order, q)
          /\ Len(full) <= n => Rows \subseteq ToSet(q)
          /\ Len(full) > n => Len(q) = n
      BY <1>4, <3>1, FirstRows
    <3>3. q \in Seq(Row) /\ (Len(q) < n => Rows \subseteq ToSet(q))
      BY <1>2, <1>5, <3>2
    <3> QED
      BY <1>1, <1>7, <2>1, <3>2, <3>3 DEF Answers, Sorted
  <2> QED
    BY <2>3, <2>4
<1>8. CASE setup.method = "find"
  <2>1. q = Found(order)
    BY <1>1, <1>8 DEF Answer
  <2>2. /\ q \in Seq(Row)
        /\ \A i, j \in DOMAIN q : i < j => q[i].id # q[j].id
        /\ \A r \in Rows : \A i \in DOMAIN Attrs :
              r \in Selected(Attrs[i]) => r \in ToSet(q)
    BY <2>1, FoundInTurn
  <2>3. \A r \in Rows : \A i \in DOMAIN Attrs :
            r.id \in Matches[Attrs[i]] => r \in Selected(Attrs[i])
    BY <1>8 DEF Selected
  <2> QED
    BY <1>1, <1>8, <2>2, <2>3 DEF Answers
<1> QED
  BY <1>6, <1>7, <1>8 DEF Listings

LEMMA ListKeeps ==
    ASSUME PagingInv, List
    PROVE  PagingInv'
<1>1. /\ scan.state = "going" /\ setup.method \in Listings
      /\ world' = world /\ setup' = setup /\ steady' = steady
  BY DEF List
<1>2. /\ Scanning /\ Queried /\ steady \subseteq Rows /\ scan.order = setup.order
      /\ scan.order \in Orders
  BY <1>1 DEF PagingInv, Shapes, Scanning
<1>3. PICK answer : answer = Answer(scan.order)
  OBVIOUS
<1>4. Answers(scan.order, answer)
  BY <1>1, <1>2, <1>3, AnswersToList
<1>5. PICK tooLarge \in BOOLEAN : tooLarge <=> Len(answer) > MaxAnswer
  OBVIOUS
<1>6. /\ got' = IF tooLarge THEN <<>> ELSE answer
      /\ scan' = [scan EXCEPT !.state =
            IF ~tooLarge THEN "ended"
            ELSE IF setup.method = "list" THEN "emptied" ELSE "refused"]
  BY <1>3, <1>5 DEF List
<1>7. /\ scan'.order = scan.order /\ scan'.attr = scan.attr /\ scan'.bookmark = NoBookmark
      /\ scan'.state = IF ~tooLarge THEN "ended"
                       ELSE IF setup.method = "list" THEN "emptied" ELSE "refused"
      /\ scan' \in [state : {"going", "ended", "emptied", "refused"}, order : Orders,
                    attr : ToSet(Attrs), bookmark : Bookmarks \cup {NoBookmark}]
  <2>1. scan.bookmark = NoBookmark
    BY <1>1 DEF PagingInv, Shapes
  <2> QED
    BY <1>2, <1>6, <2>1 DEF Scanning
<1>8. got' \in Seq(Row)
  BY <1>4, <1>6 DEF Answers
<1>9. Rows' = Rows /\ Queried'
  BY <1>1, <1>2 DEF Rows, Queried
<1>10. Shapes'
  <2>1. Scanning'
    BY <1>7, <1>9 DEF Scanning
  <2> QED
    BY <1>1, <1>2, <1>7, <1>8, <1>9, <2>1 DEF Shapes
<1>11. Linked' /\ Kept'
  BY <1>7 DEF Linked, Kept
<1>12. PagesAdvance'
  <2>1. ASSUME NEW r, NEW s
        PROVE  Onward(scan.order, r, s)' <=> After(scan.order, r, s)
    <3>1. ~KeyMisread
      BY <1>1 DEF KeyMisread, Listings
    <3>2. Onward(scan.order, r, s) <=> After(scan.order, r, s)
      BY <3>1 DEF Onward
    <3> QED
      BY <1>1, <1>7, <3>2, ReadingStays
  <2> QED
    BY <1>1, <1>4, <1>6, <2>1 DEF PagesAdvance, Answers
<1>13. ScanComplete'
  <2>1. SUFFICES ASSUME ~tooLarge PROVE ScanComplete'
    BY <1>7 DEF ScanComplete
  <2>2. got' = answer
    BY <1>6, <2>1
  <2>3. setup.method # "page"
    BY <1>1 DEF Listings
  <2> QED
    BY <1>1, <1>2, <1>4, <2>2, <2>3 DEF ScanComplete, Answers
<1> QED
  BY <1>10, <1>11, <1>12, <1>13 DEF PagingInv

-----------------------------------------------------------------------------
\* The theorems.

LEMMA WriteKeeps ==
    ASSUME PagingInv, NEW id \in Ids, NEW value \in Values \cup {Absent}, Write(id, value)
    PROVE  PagingInv'
<1>1. /\ world \in [Ids -> Values \cup {Absent}] /\ steady \subseteq Rows
      /\ world' = [world EXCEPT ![id] = value] /\ steady' = {r \in steady : r.id # id}
  BY DEF PagingInv, Shapes, Scanning, Queried, Write
<1>2. world' \in [Ids -> Values \cup {Absent}]
  BY <1>1
<1>3. ASSUME NEW r \in steady' PROVE r \in Rows'
  <2>1. r \in Rows /\ r.id # id
    BY <1>1
  <2>2. PICK i \in Ids : r = [id |-> i, val |-> world[i]] /\ world[i] # Absent
    BY <2>1 DEF Rows
  <2>3. world'[i] = world[i]
    BY <1>1, <2>1, <2>2
  <2> QED
    BY <2>2, <2>3 DEF Rows
<1> QED
  BY <1>1, <1>2, <1>3, NothingReturned DEF Write

LEMMA EveryStepKeeps == PagingInv /\ [Next]_vars => PagingInv'
<1> SUFFICES ASSUME PagingInv, [Next]_vars PROVE PagingInv'
  OBVIOUS
<1>1. CASE List
  BY <1>1, ListKeeps
<1>2. CASE ViewAggregate
  <2>1. /\ world' = world /\ setup' = setup /\ got' = got /\ steady' = steady
        /\ scan' = [scan EXCEPT !.state = "refused"]
    BY <1>2 DEF ViewAggregate
  <2>2. Rows' = Rows /\ world \in [Ids -> Values \cup {Absent}] /\ steady \subseteq Rows
    BY <2>1 DEF Rows, PagingInv, Shapes, Scanning, Queried
  <2> QED
    BY <2>1, <2>2, NothingReturned
<1>3. CASE Continue
  <2>1. scan.order \in Orders
    BY DEF PagingInv, Shapes, Scanning
  <2> QED
    BY <1>3, <2>1, NextPageKeeps DEF Continue
<1>4. CASE TurnAround
  <2>1. PICK order \in Orders : order = IF scan.order = "asc" THEN "desc" ELSE "asc"
    BY DEF Orders
  <2>2. /\ NextPage(order) /\ ByQuery
        /\ QueriedAs = "segregated" /\ scan.bookmark # NoBookmark
    BY <1>4, <2>1 DEF TurnAround, ByQuery
  <2> QED
    BY <2>2, NextPageKeeps
<1>5. ASSUME NEW id \in Ids, NEW value \in Values \cup {Absent}, Write(id, value)
      PROVE  PagingInv'
  BY <1>5, WriteKeeps
<1>6. CASE UNCHANGED vars
  <2>1. world' = world /\ setup' = setup /\ got' = got /\ steady' = steady /\ scan' = scan
    BY <1>6 DEF vars
  <2>2. Rows' = Rows /\ world \in [Ids -> Values \cup {Absent}] /\ steady \subseteq Rows
    BY <2>1 DEF Rows, PagingInv, Shapes, Scanning, Queried
  <2> QED
    BY <2>1, <2>2, NothingReturned
<1> QED
  BY <1>1, <1>2, <1>3, <1>4, <1>5, <1>6 DEF Next

\* The invariant of a scan: whatever other transactions write between two pages,
\* the bookmark is after the last row returned, and a row that is left alone has
\* been returned, is among those the next page goes on with, or was lost where the
\* key is misread.
THEOREM PagingInvariant == Spec => []PagingInv
<1>1. Init => PagingInv
  BY PagingInit
<1>2. PagingInv /\ [Next]_vars => PagingInv'
  BY EveryStepKeeps
<1> QED
  BY <1>1, <1>2, PTL DEF Spec

\* The variables of the scan have their types, and a bookmark is that of a row
\* the client was given.
THEOREM PagingTypes == Spec => []TypeOK
<1>1. PagingInv => TypeOK
  BY DEF PagingInv, Shapes, Scanning, Queried, TypeOK, ToSet
<1> QED
  BY <1>1, PagingInvariant, PTL

\* The pages that paginateBy and page return one after the other are in the
\* order asked for, and no row comes twice, for every table, page size and
\* number of writes between the pages.  Of descending pages of a collection whose
\* rows have numbers as keys only the values are in order.
THEOREM PagesNeverGoBack == Spec => []PagesAdvance
<1>1. PagingInv => PagesAdvance
  BY DEF PagingInv
<1> QED
  BY <1>1, PagingInvariant, PTL

\* A scan that the paginator takes to be at its end has returned every row that
\* nobody wrote in the meantime, from the state, a collection, a mirror or a
\* range of keys.  Of a collection whose rows have numbers as keys it may lack
\* rows with the value of one it returned, or rows after one that came twice.
THEOREM ScansAreComplete == Spec => []ScanComplete
<1>1. PagingInv => ScanComplete
  BY DEF PagingInv
<1> QED
  BY <1>1, PagingInvariant, PTL
=============================================================================
