---------------------------- MODULE SafeMathProofs ----------------------------
(***************************************************************************)
(* add and sub are exact or refused for every significand of two bits or   *)
(* more values, and every range of exponents.                              *)
(***************************************************************************)
EXTENDS SafeMath, WellFoundedInduction, TLAPS

-----------------------------------------------------------------------------
\* Powers of two.  Power is a CHOOSE of a recursive function, which exists
\* because the functions on its initial parts do and agree.

LEMMA Least ==
    ASSUME NEW T \in SUBSET Nat, T # {}
    PROVE  \E x \in T : \A y \in T : x <= y
<1>1. IsWellFoundedOn(OpToRel(<, Nat), Nat)
  BY NatLessThanWellFounded
<1>2. PICK x \in T : \A y \in T : ~ (<<y, x>> \in OpToRel(<, Nat))
  BY <1>1, WFMin
<1>3. ASSUME NEW y \in T PROVE x <= y
  <2>1. ~ (y < x)
    BY <1>2 DEF OpToRel
  <2>2. x \in Nat /\ y \in Nat
    OBVIOUS
  <2> QED
    BY <2>1, <2>2
<1> QED
  BY <1>3

\* g doubles from number to number up to n.
Doubles(g, n) == g = [i \in 0..n |-> IF i = 0 THEN 1 ELSE 2 * g[i - 1]]

LEMMA DoublesAgree ==
    ASSUME NEW m \in Nat, NEW n \in Nat, NEW g, NEW h, Doubles(g, m), Doubles(h, n),
           NEW i \in Nat, i <= m, i <= n
    PROVE  g[i] = h[i]
<1>1. /\ \A j \in 0..m : g[j] = IF j = 0 THEN 1 ELSE 2 * g[j - 1]
      /\ \A j \in 0..n : h[j] = IF j = 0 THEN 1 ELSE 2 * h[j - 1]
  BY DEF Doubles
<1>2. PICK T : T = {j \in Nat : j <= m /\ j <= n /\ g[j] # h[j]}
  OBVIOUS
<1>3. ASSUME T # {} PROVE FALSE
  <2>1. T \in SUBSET Nat
    BY <1>2
  <2>2. PICK j \in T : \A k \in T : j <= k
    BY ONLY <1>3, <2>1, Least
  <2>3. j \in Nat /\ j <= m /\ j <= n /\ g[j] # h[j]
    BY <1>2, <2>2
  <2>4. j # 0
    BY <1>1, <2>3
  <2>5. PICK k \in Nat : j = k + 1
    <3>1. j - 1 \in Nat /\ j = (j - 1) + 1
      BY <2>3, <2>4
    <3> QED
      BY <3>1
  <2>6. k \notin T
    BY <2>2, <2>5
  <2>7. g[k] = h[k]
    BY <1>2, <2>3, <2>5, <2>6
  <2>8. j \in 0..m /\ j \in 0..n /\ j - 1 = k
    BY <2>3, <2>5
  <2> QED
    BY <1>1, <2>3, <2>4, <2>7, <2>8
<1> QED
  BY <1>2, <1>3

LEMMA DoublesExist == \A n \in Nat : \E g : Doubles(g, n)
<1>1. PICK T : T = {n \in Nat : ~ \E g : Doubles(g, n)}
  OBVIOUS
<1>2. ASSUME T # {} PROVE FALSE
  <2>1. T \in SUBSET Nat
    BY <1>1
  <2>2. PICK n \in T : \A k \in T : n <= k
    BY ONLY <1>2, <2>1, Least
  <2>3. n \in Nat /\ ~ \E g : Doubles(g, n)
    BY <1>1, <2>2
  <2>4. n # 0
    <3>1. Doubles([i \in 0..0 |-> 1], 0)
      BY DEF Doubles
    <3> QED
      BY <2>3, <3>1
  <2>5. PICK k \in Nat : n = k + 1
    <3>1. n - 1 \in Nat /\ n = (n - 1) + 1
      BY <2>3, <2>4
    <3> QED
      BY <3>1
  <2>6. PICK g : Doubles(g, k)
    <3>1. k \notin T
      BY <2>2, <2>5
    <3> QED
      BY <1>1, <3>1
  <2>7. \A i \in 0..k : g[i] = IF i = 0 THEN 1 ELSE 2 * g[i - 1]
    BY <2>6 DEF Doubles
  <2>8. PICK h : h = [i \in 0..n |-> IF i = n THEN 2 * g[k] ELSE g[i]]
    OBVIOUS
  <2>9. \A i \in 0..n : h[i] = IF i = 0 THEN 1 ELSE 2 * h[i - 1]
    <3> SUFFICES ASSUME NEW i \in 0..n PROVE h[i] = IF i = 0 THEN 1 ELSE 2 * h[i - 1]
      OBVIOUS
    <3>1. CASE i = n
      <4>1. i - 1 \in 0..n /\ i - 1 # n /\ i - 1 = k /\ i # 0
        BY <2>5, <3>1
      <4> QED
        BY <2>8, <3>1, <4>1
    <3>2. CASE i # n /\ i # 0
      <4>1. i \in 0..k /\ i - 1 \in 0..n /\ i - 1 # n
        BY <2>5, <3>2
      <4> QED
        BY <2>7, <2>8, <3>2, <4>1
    <3>3. CASE i # n /\ i = 0
      BY <2>7, <2>8, <3>3
    <3> QED
      BY <3>1, <3>2, <3>3
  <2>10. Doubles(h, n)
    BY <2>8, <2>9 DEF Doubles
  <2> QED
    BY <2>3, <2>10
<1> QED
  BY <1>1, <1>2

LEMMA PowerIs == Power = [n \in Nat |-> IF n = 0 THEN 1 ELSE 2 * Power[n - 1]]
<1> DEFINE Part(n) == CHOOSE g : Doubles(g, n)
<1>1. \A n \in Nat : Doubles(Part(n), n)
  BY DoublesExist
<1> HIDE DEF Part
<1>2. PICK f : f = [n \in Nat |-> Part(n)[n]]
  OBVIOUS
<1>3. ASSUME NEW n \in Nat PROVE f[n] = IF n = 0 THEN 1 ELSE 2 * f[n - 1]
  <2>1. \A i \in 0..n : Part(n)[i] = IF i = 0 THEN 1 ELSE 2 * Part(n)[i - 1]
    BY <1>1 DEF Doubles
  <2>2. n \in 0..n
    OBVIOUS
  <2>3. CASE n = 0
    BY <1>2, <2>1, <2>2, <2>3
  <2>4. CASE n # 0
    <3>1. PICK k \in Nat : k = n - 1 /\ k <= n
      BY <2>4
    <3>2. Part(n)[k] = Part(k)[k]
      BY <1>1, <3>1, DoublesAgree
    <3> QED
      BY <1>2, <2>1, <2>2, <2>4, <3>1, <3>2
  <2> QED
    BY <2>3, <2>4
<1>4. f = [n \in Nat |-> IF n = 0 THEN 1 ELSE 2 * f[n - 1]]
  BY <1>2, <1>3
<1> QED
  BY <1>4 DEF Power

\* The step of an induction over the exponents, by the least counterexample.
LEMMA PowerDoubles ==
    /\ Power[0] = 1
    /\ \A n \in Nat : Power[n + 1] = 2 * Power[n]
<1>1. \A n \in Nat : Power[n] = IF n = 0 THEN 1 ELSE 2 * Power[n - 1]
  BY ONLY PowerIs
<1>2. ASSUME NEW n \in Nat PROVE Power[n + 1] = 2 * Power[n]
  <2>1. n + 1 \in Nat /\ n + 1 # 0 /\ (n + 1) - 1 = n
    OBVIOUS
  <2> QED
    BY <1>1, <2>1
<1> QED
  BY <1>1, <1>2

LEMMA PowerPositive == \A n \in Nat : Power[n] \in Nat \ {0}
<1>1. PICK T : T = {n \in Nat : Power[n] \notin Nat \ {0}}
  OBVIOUS
<1>2. ASSUME T # {} PROVE FALSE
  <2>1. T \in SUBSET Nat
    BY <1>1
  <2>2. PICK n \in T : \A k \in T : n <= k
    BY ONLY <1>2, <2>1, Least
  <2>3. n \in Nat /\ n # 0
    BY <1>1, <2>2, PowerDoubles
  <2>4. PICK k \in Nat : n = k + 1
    <3>1. n - 1 \in Nat /\ n = (n - 1) + 1
      BY <2>3
    <3> QED
      BY <3>1
  <2>5. Power[k] \in Nat \ {0}
    BY <1>1, <2>2, <2>4
  <2>6. Power[n] \in Nat \ {0}
    BY <2>4, <2>5, PowerDoubles
  <2> QED
    BY <1>1, <2>2, <2>6
<1> QED
  BY <1>1, <1>2

LEMMA PowerSplits ==
    ASSUME NEW m \in Nat, NEW n \in Nat
    PROVE  Power[m + n] = Power[m] * Power[n]
<1>1. PICK T : T = {i \in Nat : Power[m + i] # Power[m] * Power[i]}
  OBVIOUS
<1>2. ASSUME T # {} PROVE FALSE
  <2>1. T \in SUBSET Nat
    BY <1>1
  <2>2. PICK i \in T : \A k \in T : i <= k
    BY ONLY <1>2, <2>1, Least
  <2>3. i \in Nat /\ i # 0
    <3>1. Power[m] * 1 = Power[m] /\ m + 0 = m
      BY PowerPositive
    <3> QED
      BY <1>1, <2>2, <3>1, PowerDoubles
  <2>4. PICK k \in Nat : i = k + 1
    <3>1. i - 1 \in Nat /\ i = (i - 1) + 1
      BY <2>3
    <3> QED
      BY <3>1
  <2>5. Power[m + k] = Power[m] * Power[k]
    BY <1>1, <2>2, <2>4
  <2>6. Power[m + i] = 2 * Power[m + k] /\ Power[i] = 2 * Power[k]
    <3>1. m + k \in Nat /\ m + i = (m + k) + 1
      BY <2>4
    <3> QED
      BY <2>4, <3>1, PowerDoubles
  <2>7. Power[m] \in Nat /\ Power[k] \in Nat
    BY PowerPositive
  <2>8. Power[m + i] = Power[m] * Power[i]
    BY <2>5, <2>6, <2>7
  <2> QED
    BY <1>1, <2>2, <2>8
<1> QED
  BY <1>1, <1>2

LEMMA PowerDivides ==
    ASSUME NEW m \in Nat, NEW n \in Nat, m <= n
    PROVE  \E k \in Nat \ {0} : Power[n] = k * Power[m] /\ (m < n => k >= 2)
<1>1. PICK i \in Nat : i = n - m
  OBVIOUS
<1>2. Power[n] = Power[i] * Power[m]
  <2>1. n = i + m
    BY <1>1
  <2> QED
    BY <2>1, PowerSplits
<1>3. Power[i] \in Nat \ {0}
  BY PowerPositive
<1>4. ASSUME m < n PROVE Power[i] >= 2
  <2>1. PICK j \in Nat : i = j + 1
    <3>1. i - 1 \in Nat /\ i = (i - 1) + 1
      BY <1>1, <1>4
    <3> QED
      BY <3>1
  <2>2. Power[i] = 2 * Power[j] /\ Power[j] \in Nat \ {0}
    BY <2>1, PowerDoubles, PowerPositive
  <2> QED
    BY <2>2
<1> QED
  BY <1>2, <1>3, <1>4

-----------------------------------------------------------------------------
\* Rounding.

Width == Power[Precision]

Largest == Precision + MaxExponent + 1

\* What is known of the spacing s around n: it is the power of some exponent,
\* the first with which n does not need more than the bits there are.
SpacedBy(n, e, s) ==
    /\ e \in 0..(MaxExponent + 1) /\ s = Power[e]
    /\ Magnitude(n) <= Width * s
    /\ \A d \in 0..(e - 1) : Magnitude(n) > Width * Power[d]

LEMMA SpacingIs ==
    ASSUME NEW n \in Int, Magnitude(n) <= Power[Largest]
    PROVE  \E e \in 0..(MaxExponent + 1) : SpacedBy(n, e, Spacing(n))
<1>1. Precision \in Nat \ {0} /\ MaxExponent \in Nat
  BY SafeMathAssumption
<1>2. PICK T : T = {e \in 0..(MaxExponent + 1) : Magnitude(n) <= Power[Precision + e]}
  OBVIOUS
<1>3. T \in SUBSET Nat
  BY <1>1, <1>2
<1>4. T # {}
  <2>1. MaxExponent + 1 \in 0..(MaxExponent + 1) /\ Precision + (MaxExponent + 1) = Largest
    BY <1>1 DEF Largest
  <2> QED
    BY <1>2, <2>1
<1>5. PICK e : e = Min(T)
  OBVIOUS
<1>6. e \in T /\ \A d \in T : e <= d
  <2>1. \E x \in T : \A y \in T : x <= y
    BY ONLY <1>3, <1>4, Least
  <2> QED
    BY <1>5, <2>1 DEF Min
<1>7. Spacing(n) = Power[e]
  BY <1>2, <1>5 DEF Spacing
<1>8. \A d \in 0..(MaxExponent + 1) : Power[Precision + d] = Width * Power[d]
  BY <1>1, PowerSplits DEF Width
<1>9. e \in 0..(MaxExponent + 1) /\ Magnitude(n) <= Width * Power[e]
  BY <1>2, <1>6, <1>8
<1>10. ASSUME NEW d \in 0..(e - 1) PROVE Magnitude(n) > Width * Power[d]
  <2>1. d \in 0..(MaxExponent + 1) /\ d \in Nat /\ e \in Nat /\ d < e
    BY <1>1, <1>9
  <2>2. d \notin T
    BY <1>6, <2>1
  <2>3. ~ (Magnitude(n) <= Width * Power[d])
    BY <1>2, <1>8, <2>1, <2>2
  <2>4. Width \in Nat /\ Power[d] \in Nat
    BY <1>1, <2>1, PowerPositive DEF Width
  <2>5. Width * Power[d] \in Nat /\ Magnitude(n) \in Nat
    BY <2>4 DEF Magnitude
  <2> QED
    BY <2>3, <2>5
<1> QED
  BY <1>7, <1>9, <1>10 DEF SpacedBy

LEMMA WidthIs == Width \in Nat /\ Width >= 2
<1>1. PICK p \in Nat : Precision = p + 1
  <2>1. Precision - 1 \in Nat /\ Precision = (Precision - 1) + 1
    BY SafeMathAssumption
  <2> QED
    BY <2>1
<1>2. Power[p] \in Nat \ {0} /\ Power[p + 1] = 2 * Power[p]
  BY PowerPositive, PowerDoubles
<1> QED
  BY <1>1, <1>2 DEF Width

\* Rounding to the multiples of s: not farther than half of it, and a multiple
\* is left as it is.
Nearest(n, s, c) ==
    \E k \in Int :
        /\ c = k * s
        /\ 2 * (c - n) <= s /\ 2 * (n - c) <= s
        /\ Magnitude(k) <= Width
        /\ (\E i \in Int : n = i * s) => c = n

LEMMA RoundsMagnitude ==
    ASSUME NEW m \in Nat, NEW s \in Nat \ {0}, m <= Width * s,
           NEW q, q = m \div s, NEW r, r = m % s,
           NEW k, k \in {q, q + 1},
           k = q + 1 <=> 2 * r > s \/ (2 * r = s /\ q % 2 = 1)
    PROVE  /\ k \in Nat /\ k <= Width
           /\ 2 * (k * s - m) <= s /\ 2 * (m - k * s) <= s
           /\ (\E i \in Int : m = i * s) => k * s = m
<1>1. q \in Nat /\ r \in 0..(s - 1) /\ m = q * s + r
  OBVIOUS
<1>2. Width \in Nat
  BY WidthIs
<1>3. k \in Nat
  BY <1>1
<1>4. k = q \/ k = q + 1
  OBVIOUS
<1>5. k = q + 1 => 2 * r >= s
  BY <1>1
<1>6. k = q => 2 * r <= s
  <2>1. ASSUME k = q PROVE ~ (2 * r > s)
    BY <1>1, <2>1
  <2> QED
    BY <1>1, <2>1
<1>7. 2 * (k * s - m) <= s /\ 2 * (m - k * s) <= s
  <2>1. CASE k = q
    <3>1. m - k * s = r /\ k * s - m = -r
      BY <1>1, <2>1
    <3> QED
      BY <1>1, <1>6, <2>1, <3>1
  <2>2. CASE k = q + 1
    <3>1. (q + 1) * s = q * s + s
      BY <1>1
    <3>2. k * s - m = s - r /\ m - k * s = r - s
      BY <1>1, <2>2, <3>1
    <3> QED
      BY <1>1, <1>5, <2>2, <3>2
  <2> QED
    BY <1>4, <2>1, <2>2
<1>8. k <= Width
  <2>1. q * s <= Width * s
    BY <1>1, <1>2
  <2>2. q <= Width
    BY <1>1, <1>2, <2>1
  <2>3. ASSUME k = q + 1, q = Width PROVE FALSE
    <3>1. r = 0
      BY <1>1, <1>2, <2>3
    <3> QED
      BY <1>5, <2>3, <3>1
  <2> QED
    BY <1>1, <1>2, <1>4, <2>2, <2>3
<1>9. ASSUME NEW i \in Int, m = i * s PROVE k * s = m
  <2>1. r = (i - q) * s
    <3>1. (i - q) * s = i * s - q * s
      BY <1>1
    <3>2. r = i * s - q * s
      <4>1. q * s \in Int
        BY <1>1
      <4> QED
        BY <1>1, <1>9, <4>1
    <3> QED
      BY <3>1, <3>2
  <2>2. r = 0
    <3>1. i - q < 1
      <4>1. ASSUME i - q >= 1 PROVE (i - q) * s >= s
        BY <1>1, <4>1
      <4> QED
        BY <1>1, <2>1, <4>1
    <3>2. i - q > -1
      <4>1. ASSUME i - q <= -1 PROVE (i - q) * s <= -s
        BY <1>1, <4>1
      <4> QED
        BY <1>1, <2>1, <4>1
    <3>3. i - q = 0
      BY <1>1, <3>1, <3>2
    <3> QED
      BY <2>1, <3>3
  <2>3. k = q
    BY <1>4, <1>5, <2>2
  <2> QED
    BY <1>1, <2>2, <2>3
<1> QED
  BY <1>3, <1>7, <1>8, <1>9

LEMMA RoundIs ==
    ASSUME NEW n \in Int, NEW s \in Nat \ {0}, s = Spacing(n), Magnitude(n) <= Width * s
    PROVE  Nearest(n, s, Round(n))
<1>1. PICK m \in Nat : m = Magnitude(n)
  BY DEF Magnitude
<1>2. PICK q : q = m \div s
  OBVIOUS
<1>3. PICK r : r = m % s
  OBVIOUS
<1>4. q \in Nat /\ r \in Nat
  BY <1>2, <1>3
<1>5. PICK k \in {q, q + 1} : k = q + 1 <=> 2 * r > s \/ (2 * r = s /\ q % 2 = 1)
  BY <1>4
<1>6. k = IF 2 * r > s \/ (2 * r = s /\ q % 2 = 1) THEN q + 1 ELSE q
  BY <1>4, <1>5
<1>7. Round(n) = IF n < 0 THEN -(k * s) ELSE k * s
  BY <1>1, <1>2, <1>3, <1>6 DEF Round
<1>8. /\ k \in Nat /\ k <= Width
      /\ 2 * (k * s - m) <= s /\ 2 * (m - k * s) <= s
      /\ (\E i \in Int : m = i * s) => k * s = m
  BY <1>1, <1>2, <1>3, <1>5, RoundsMagnitude
<1>9. CASE n < 0
  <2>1. n = -m /\ (-k) * s = -(k * s) /\ Magnitude(-k) = k
    BY <1>1, <1>8, <1>9 DEF Magnitude
  <2>2. ASSUME NEW i \in Int, n = i * s PROVE k * s = m
    <3>1. m = (-i) * s /\ -i \in Int
      BY <2>1, <2>2
    <3> QED
      BY <1>8, <3>1
  <2> QED
    BY <1>7, <1>8, <1>9, <2>1, <2>2 DEF Nearest
<1>10. CASE n >= 0
  <2>1. n = m /\ Magnitude(k) = k
    BY <1>1, <1>8, <1>10 DEF Magnitude
  <2> QED
    BY <1>7, <1>8, <1>10, <2>1 DEF Nearest
<1> QED
  BY <1>9, <1>10

-----------------------------------------------------------------------------
\* Numbers.

LEMMA LimitIs ==
    /\ Limit = Width * Power[MaxExponent] /\ Limit \in Nat
    /\ Limit <= Power[Largest]
<1>1. Precision \in Nat \ {0} /\ MaxExponent \in Nat
  BY SafeMathAssumption
<1>2. Limit = Width * Power[MaxExponent]
  BY <1>1, PowerSplits DEF Limit, Width
<1>3. PICK n \in Nat : n = Precision + MaxExponent
  BY <1>1
<1>4. Limit = Power[n] /\ Largest = n + 1
  BY <1>3 DEF Limit, Largest
<1>5. Power[n] \in Nat /\ Power[n + 1] = 2 * Power[n]
  BY <1>3, PowerPositive, PowerDoubles
<1> QED
  BY <1>2, <1>4, <1>5

LEMMA InLimit ==
    ASSUME NEW n \in Int, Magnitude(n) <= Limit
    PROVE  \E e \in 0..MaxExponent :
              SpacedBy(n, e, Spacing(n)) /\ Nearest(n, Spacing(n), Round(n))
<1>1. MaxExponent \in Nat /\ Magnitude(n) \in Nat
  BY SafeMathAssumption DEF Magnitude
<1>2. PICK s : s = Spacing(n)
  OBVIOUS
<1>3. Magnitude(n) <= Power[Largest]
  <2>1. Power[Largest] \in Nat
    BY <1>1, SafeMathAssumption, PowerPositive DEF Largest
  <2> QED
    BY <1>1, <2>1, LimitIs
<1>4. PICK e \in 0..(MaxExponent + 1) : SpacedBy(n, e, s)
  BY <1>2, <1>3, SpacingIs
<1>5. e \in 0..MaxExponent
  <2>1. ASSUME e = MaxExponent + 1 PROVE FALSE
    <3>1. MaxExponent \in 0..(e - 1)
      BY <1>1, <2>1
    <3>2. Magnitude(n) > Width * Power[MaxExponent]
      BY <1>4, <3>1 DEF SpacedBy
    <3> QED
      BY <1>1, <3>2, LimitIs
  <2> QED
    BY <1>1, <2>1
<1>6. s \in Nat \ {0} /\ Magnitude(n) <= Width * s
  BY <1>4, <1>5, PowerPositive DEF SpacedBy
<1> QED
  BY <1>2, <1>4, <1>5, <1>6, RoundIs

LEMMA Representable ==
    ASSUME NEW e \in 0..MaxExponent, NEW k \in Int, Magnitude(k) <= Width,
           NEW n, n = k * Power[e]
    PROVE  n \in Numbers
<1>1. MaxExponent \in Nat /\ e \in Nat
  BY SafeMathAssumption
<1>2. PICK p \in Nat \ {0} : p = Power[e]
  BY <1>1, PowerPositive
<1>3. n \in Int /\ Magnitude(n) <= Width * p
  <2>1. Width \in Nat
    BY WidthIs
  <2>2. k <= Width /\ -Width <= k
    BY <2>1 DEF Magnitude
  <2>3. k * p <= Width * p /\ -(Width * p) <= k * p
    <3>1. k * p <= Width * p
      BY <1>2, <2>1, <2>2
    <3>2. (-Width) * p <= k * p /\ (-Width) * p = -(Width * p)
      BY <1>2, <2>1, <2>2
    <3> QED
      BY <3>1, <3>2
  <2>4. n = k * p /\ n \in Int /\ Width * p \in Nat
    BY <1>2, <2>1
  <2> QED
    BY <2>3, <2>4 DEF Magnitude
<1>4. Magnitude(n) <= Limit
  <2>1. PICK j \in Nat \ {0} : Power[MaxExponent] = j * p
    <3>1. e <= MaxExponent
      BY <1>1
    <3> QED
      BY <1>1, <1>2, <3>1, PowerDivides
  <2>2. p <= j * p
    BY <1>2
  <2>3. Width * p <= Width * (j * p)
    BY <1>2, <2>2, WidthIs
  <2>4. Limit = Width * (j * p) /\ Width * p \in Nat /\ Magnitude(n) \in Nat
    BY <1>2, <1>3, <2>1, LimitIs, WidthIs DEF Magnitude
  <2> QED
    BY <1>3, <2>3, <2>4, LimitIs
<1>5. PICK f \in 0..MaxExponent : SpacedBy(n, f, Spacing(n)) /\ Nearest(n, Spacing(n), Round(n))
  BY <1>3, <1>4, InLimit
<1>6. f <= e
  <2>1. ASSUME f > e PROVE FALSE
    <3>1. e \in 0..(f - 1)
      BY <1>1, <2>1
    <3>2. Magnitude(n) > Width * p
      BY <1>2, <1>5, <3>1 DEF SpacedBy
    <3>3. Width * p \in Nat /\ Magnitude(n) \in Nat
      BY <1>2, <1>3, WidthIs DEF Magnitude
    <3> QED
      BY <1>3, <3>2, <3>3
  <2> QED
    BY <1>1, <2>1
<1>7. PICK s : s = Spacing(n)
  OBVIOUS
<1>8. PICK j \in Nat \ {0} : p = j * s /\ s \in Nat
  <2>1. f \in Nat /\ s = Power[f]
    BY <1>1, <1>5, <1>7 DEF SpacedBy
  <2> QED
    BY <1>1, <1>2, <1>6, <2>1, PowerDivides, PowerPositive
<1>9. n = (k * j) * s /\ k * j \in Int
  BY <1>2, <1>8
<1>10. Round(n) = n
  BY <1>5, <1>7, <1>9 DEF Nearest
<1>11. n \in -Limit..Limit
  BY <1>3, <1>4, LimitIs DEF Magnitude
<1> QED
  BY <1>10, <1>11 DEF Numbers

\* A number is a multiple of its spacing.
LEMMA NumberIs ==
    ASSUME NEW n \in Numbers
    PROVE  /\ n \in Int /\ Magnitude(n) <= Limit /\ Round(n) = n
           /\ \E e \in 0..MaxExponent, k \in Int :
                 SpacedBy(n, e, Power[e]) /\ n = k * Power[e] /\ Magnitude(k) <= Width
<1>1. n \in Int /\ Magnitude(n) <= Limit /\ Round(n) = n
  BY LimitIs DEF Numbers, Magnitude
<1>2. PICK e \in 0..MaxExponent : SpacedBy(n, e, Spacing(n)) /\ Nearest(n, Spacing(n), n)
  BY <1>1, InLimit
<1>3. Spacing(n) = Power[e]
  BY <1>2 DEF SpacedBy
<1> QED
  BY <1>1, <1>2, <1>3 DEF Nearest

LEMMA MinusNumber ==
    ASSUME NEW n \in Numbers
    PROVE  -n \in Numbers
<1>1. n \in Int
  BY NumberIs
<1>2. PICK e \in 0..MaxExponent, k \in Int : n = k * Power[e] /\ Magnitude(k) <= Width
  BY NumberIs
<1>3. -n = (-k) * Power[e] /\ Magnitude(-k) <= Width
  <2>1. Power[e] \in Nat
    BY SafeMathAssumption, PowerPositive
  <2> QED
    BY <1>2, <2>1 DEF Magnitude
<1> QED
  BY <1>2, <1>3, Representable

\* Numbers that need less than a spacing have a smaller one.
LEMMA SpacingGrows ==
    ASSUME NEW m \in Int, NEW n \in Int, Magnitude(m) <= Magnitude(n),
           NEW d \in 0..MaxExponent, SpacedBy(m, d, Power[d]),
           NEW e \in 0..MaxExponent, SpacedBy(n, e, Power[e])
    PROVE  d <= e
<1>1. SUFFICES ASSUME d > e PROVE FALSE
  BY SafeMathAssumption
<1>2. e \in 0..(d - 1) /\ Power[e] \in Nat
  BY <1>1, PowerPositive, SafeMathAssumption
<1>3. Magnitude(m) > Width * Power[e] /\ Magnitude(n) <= Width * Power[e]
  BY <1>2 DEF SpacedBy
<1>4. Magnitude(m) \in Nat /\ Magnitude(n) \in Nat /\ Width * Power[e] \in Nat
  BY <1>2, WidthIs DEF Magnitude
<1> QED
  BY <1>3, <1>4

-----------------------------------------------------------------------------
\* What remains of a rounded sum without the larger operand is a number, so
\* that it is computed without rounding.

\* A multiple of t that is not much more than what the significand holds.
LEMMA FewBits ==
    ASSUME NEW t \in Nat \ {0}, NEW l \in Int,
           2 * (l * t) <= 2 * (Width * t) + t, -(2 * (Width * t) + t) <= 2 * (l * t)
    PROVE  Magnitude(l) <= Width
<1>1. Width \in Nat
  BY WidthIs
<1>2. l <= Width
  <2>1. ASSUME l >= Width + 1 PROVE FALSE
    <3>1. l * t >= (Width + 1) * t /\ (Width + 1) * t = Width * t + t
      BY <1>1, <2>1
    <3>2. l * t \in Int /\ Width * t \in Int
      BY <1>1
    <3> QED
      BY <3>1, <3>2
  <2> QED
    BY <1>1, <2>1
<1>3. -Width <= l
  <2>1. ASSUME l <= -Width - 1 PROVE FALSE
    <3>1. l * t <= (-Width - 1) * t /\ (-Width - 1) * t = -(Width * t) - t
      BY <1>1, <2>1
    <3>2. l * t \in Int /\ Width * t \in Int
      BY <1>1
    <3> QED
      BY <3>1, <3>2
  <2> QED
    BY <1>1, <2>1
<1> QED
  BY <1>1, <1>2, <1>3 DEF Magnitude

LEMMA RestIsNumber ==
    ASSUME NEW a \in Numbers, NEW b \in Numbers, Magnitude(b) <= Magnitude(a),
           Magnitude(a + b) <= Limit, NEW c, c = Round(a + b)
    PROVE  c \in Int /\ c - a \in Numbers
<1>1. a \in Int /\ b \in Int /\ Width \in Nat /\ Width >= 2 /\ MaxExponent \in Nat
  BY NumberIs, WidthIs, SafeMathAssumption
<1>2. PICK ea \in 0..MaxExponent, ka \in Int :
          SpacedBy(a, ea, Power[ea]) /\ a = ka * Power[ea] /\ Magnitude(ka) <= Width
  BY NumberIs
<1>3. PICK eb \in 0..MaxExponent, kb \in Int :
          SpacedBy(b, eb, Power[eb]) /\ b = kb * Power[eb] /\ Magnitude(kb) <= Width
  BY NumberIs
<1>4. PICK e \in 0..MaxExponent :
          /\ SpacedBy(a + b, e, Spacing(a + b))
          /\ Nearest(a + b, Spacing(a + b), c)
  BY <1>1, InLimit
<1>5. PICK sa \in Nat \ {0}, sb \in Nat \ {0} : sa = Power[ea] /\ sb = Power[eb]
  BY <1>1, PowerPositive
<1>6. PICK s \in Nat \ {0} : s = Power[e]
  BY <1>1, PowerPositive
<1>7. Spacing(a + b) = s
  BY <1>4, <1>6 DEF SpacedBy
<1>8. PICK k \in Int :
          /\ c = k * s
          /\ 2 * (c - (a + b)) <= s /\ 2 * ((a + b) - c) <= s
          /\ (\E i \in Int : a + b = i * s) => c = a + b
  BY <1>4, <1>7 DEF Nearest
<1>9. c \in Int
  BY <1>8
<1>10. eb <= ea
  BY <1>1, <1>2, <1>3, SpacingGrows
<1>11. b <= Width * sb /\ -(Width * sb) <= b /\ Width * sb \in Nat
  <2>1. Magnitude(b) <= Width * sb /\ Width * sb \in Nat
    BY <1>1, <1>3, <1>5 DEF SpacedBy
  <2> QED
    BY <1>1, <2>1 DEF Magnitude
<1>12. CASE c = a + b
  <2>1. c - a = b
    BY <1>1, <1>12
  <2> QED
    BY <1>9, <2>1
<1>13. PICK j \in Nat \ {0} : sa = j * sb /\ (eb < ea => j >= 2)
  BY <1>1, <1>5, <1>10, PowerDivides
<1>14. CASE e < eb
  <2>1. PICK i \in Nat \ {0} : sb = i * s
    BY <1>1, <1>5, <1>6, <1>14, PowerDivides
  <2>2. a = ((ka * j) * i) * s /\ (ka * j) * i \in Int
    <3>1. a = ka * (j * (i * s))
      BY <1>2, <1>5, <1>13, <2>1
    <3> QED
      BY <3>1
  <2>3. b = (kb * i) * s /\ kb * i \in Int
    BY <1>3, <1>5, <2>1
  <2>4. a + b = ((ka * j) * i + kb * i) * s /\ (ka * j) * i + kb * i \in Int
    BY <2>2, <2>3
  <2> QED
    BY <1>8, <1>12, <2>4
<1>15. CASE eb <= e /\ e <= ea
  <2>1. PICK i \in Nat \ {0} : sa = i * s
    BY <1>1, <1>5, <1>6, <1>15, PowerDivides
  <2>2. PICK l \in Int : l = k - ka * i
    BY <2>1
  <2>3. c - a = l * s
    <3>1. a = (ka * i) * s
      BY <1>2, <1>5, <2>1
    <3>2. (k - ka * i) * s = k * s - (ka * i) * s
      BY <2>1
    <3> QED
      BY <1>8, <2>2, <3>1, <3>2
  <2>4. Width * sb <= Width * s
    <3>1. PICK h \in Nat \ {0} : s = h * sb
      BY <1>1, <1>5, <1>6, <1>15, PowerDivides
    <3>2. sb <= s
      BY <3>1
    <3> QED
      BY <1>1, <3>2
  <2>5. 2 * (c - a) <= 2 * (Width * s) + s /\ -(2 * (Width * s) + s) <= 2 * (c - a)
    <3>1. Width * s \in Nat
      BY <1>1
    <3> QED
      BY <1>1, <1>8, <1>9, <1>11, <2>4, <3>1
  <2>6. Magnitude(l) <= Width
    BY <2>3, <2>5, FewBits
  <2> QED
    BY <1>6, <1>9, <2>3, <2>6, Representable
<1>16. CASE ea < e
  <2>1. s = 2 * sa
    <3>1. e = ea + 1
      <4>1. SUFFICES ASSUME ea + 1 < e PROVE FALSE
        BY <1>1, <1>16
      <4>2. ea + 1 \in 0..(e - 1) /\ Power[ea + 1] = 2 * sa
        BY <1>1, <1>5, <4>1, PowerDoubles
      <4>3. Magnitude(a + b) > Width * (2 * sa)
        BY <1>4, <4>2 DEF SpacedBy
      <4>4. Magnitude(a) <= Width * sa
        BY <1>2, <1>5 DEF SpacedBy
      <4>5. Width * (2 * sa) = 2 * (Width * sa) /\ Width * sa \in Nat
        BY <1>1
      <4>6. Magnitude(a + b) <= 2 * Magnitude(a) /\ Magnitude(a) \in Nat
            /\ Magnitude(a + b) \in Nat
        BY <1>1 DEF Magnitude
      <4> QED
        BY <4>3, <4>4, <4>5, <4>6
    <3> QED
      BY <1>1, <1>5, <1>6, <3>1, PowerDoubles
  <2>2. PICK l \in Int : l = 2 * k - ka
    <3>1. 2 * k - ka \in Int
      BY <1>2, <1>8
    <3> QED
      BY ONLY <3>1
  <2>3. c - a = l * sa
    <3>1. (2 * k - ka) * sa = 2 * (k * sa) - ka * sa /\ k * (2 * sa) = 2 * (k * sa)
      OBVIOUS
    <3> QED
      BY <1>2, <1>5, <1>8, <2>1, <2>2, <3>1
  <2>4. c - a <= b + sa /\ b - sa <= c - a
    BY <1>1, <1>8, <1>9, <2>1
  <2>5. CASE eb < ea
    <3>1. 2 * (Width * sb) <= Width * sa
      <4>1. 2 * sb <= sa
        BY <1>13, <2>5
      <4>2. Width * (2 * sb) <= Width * sa
        BY <1>1, <4>1
      <4> QED
        BY <1>1, <4>2
    <3>2. 2 * sa <= Width * sa /\ Width * sa \in Nat
      BY <1>1
    <3>3. 2 * (c - a) <= 2 * (Width * sa) + sa /\ -(2 * (Width * sa) + sa) <= 2 * (c - a)
      BY <1>1, <1>9, <1>11, <2>4, <3>1, <3>2
    <3>4. Magnitude(l) <= Width
      BY <2>3, <3>3, FewBits
    <3> QED
      BY <1>5, <1>9, <2>3, <3>4, Representable
  <2>6. CASE eb = ea
    <3>1. sb = sa /\ b = kb * sa /\ a = ka * sa
      BY <1>2, <1>3, <1>5, <2>6
    <3>2. kb <= Width /\ -Width <= kb /\ ka <= Width /\ -Width <= ka
      BY <1>1, <1>2, <1>3 DEF Magnitude
    <3>3. CASE kb < Width /\ -Width < kb
      <4>1. kb <= Width - 1 /\ -(Width - 1) <= kb
        BY <1>1, <3>3
      <4>2. kb * sa <= (Width - 1) * sa /\ (-(Width - 1)) * sa <= kb * sa
        BY <1>1, <4>1
      <4>3. (Width - 1) * sa = Width * sa - sa /\ (-(Width - 1)) * sa = -(Width * sa) + sa
            /\ Width * sa \in Nat
        BY <1>1
      <4>4. 2 * (c - a) <= 2 * (Width * sa) + sa /\ -(2 * (Width * sa) + sa) <= 2 * (c - a)
        BY <1>1, <1>9, <2>4, <3>1, <4>2, <4>3
      <4>5. Magnitude(l) <= Width
        BY <2>3, <4>4, FewBits
      <4> QED
        BY <1>5, <1>9, <2>3, <4>5, Representable
    <3>4. CASE kb = Width \/ kb = -Width
      <4>1. Magnitude(b) = Width * sa
        <5>1. Width * sa \in Nat /\ (-Width) * sa = -(Width * sa)
          BY <1>1
        <5> QED
          BY <1>1, <3>1, <3>4, <5>1 DEF Magnitude
      <4>2. a = b \/ a = -b
        <5>1. Magnitude(a) <= Width * sa
          BY <1>2, <1>5 DEF SpacedBy
        <5>2. Magnitude(a) = Magnitude(b)
          <6>1. Magnitude(a) \in Nat /\ Magnitude(b) \in Nat
            BY <1>1 DEF Magnitude
          <6> QED
            BY <4>1, <5>1, <6>1
        <5> QED
          BY <1>1, <5>2 DEF Magnitude
      <4>3. CASE a = -b
        <5>1. a + b = 0 * s
          BY <1>1, <4>3
        <5> QED
          BY <1>8, <1>12, <5>1
      <4>4. CASE a = b
        <5>1. a + b = kb * s
          BY <1>1, <2>1, <3>1, <4>4
        <5> QED
          BY <1>8, <1>12, <5>1
      <4> QED
        BY <4>2, <4>3, <4>4
    <3> QED
      BY <1>1, <3>2, <3>3, <3>4
  <2> QED
    BY <1>1, <1>10, <2>5, <2>6
<1> QED
  BY <1>1, <1>14, <1>15, <1>16

-----------------------------------------------------------------------------
\* The checks.

LEMMA RefusedIfInexact ==
    ASSUME NEW a \in Numbers, NEW b \in Numbers
    PROVE  /\ Magnitude(a + b) <= Limit /\ ~AddThrows(a, b) => Plus(a, b) = a + b
           /\ Magnitude(a - b) <= Limit /\ ~SubThrows(a, b) => Minus(a, b) = a - b
<1>1. a \in Int /\ b \in Int /\ -b \in Numbers
  BY NumberIs, MinusNumber
<1>2. Magnitude(a) \in Nat /\ Magnitude(b) \in Nat /\ Magnitude(-b) = Magnitude(b)
  BY <1>1 DEF Magnitude
<1>3. ASSUME Magnitude(a + b) <= Limit, ~AddThrows(a, b) PROVE Plus(a, b) = a + b
  <2>1. PICK c : c = Round(a + b)
    OBVIOUS
  <2>2. a = Round(c - b) /\ b = Round(c - a) /\ Plus(a, b) = c
    BY <1>3, <2>1 DEF AddThrows, Plus, Minus
  <2>3. CASE Magnitude(b) <= Magnitude(a)
    <3>1. c \in Int /\ c - a \in Numbers
      BY <1>3, <2>1, <2>3, RestIsNumber
    <3>2. Round(c - a) = c - a
      BY <3>1, NumberIs
    <3> QED
      BY <1>1, <2>2, <3>1, <3>2
  <2>4. CASE Magnitude(a) <= Magnitude(b)
    <3>1. a + b = b + a
      BY <1>1
    <3>2. c \in Int /\ c - b \in Numbers
      BY <1>3, <2>1, <2>4, <3>1, RestIsNumber
    <3>3. Round(c - b) = c - b
      BY <3>2, NumberIs
    <3> QED
      BY <1>1, <2>2, <3>2, <3>3
  <2> QED
    BY <1>2, <2>3, <2>4
<1>4. ASSUME Magnitude(a - b) <= Limit, ~SubThrows(a, b) PROVE Minus(a, b) = a - b
  <2>1. PICK c : c = Round(a - b)
    OBVIOUS
  <2>2. a = Round(c + b) /\ b = Round(a - c) /\ Minus(a, b) = c
    BY <1>4, <2>1 DEF SubThrows, Plus, Minus
  <2>3. a - b = a + (-b) /\ a - b = (-b) + a
    BY <1>1
  <2>4. CASE Magnitude(b) <= Magnitude(a)
    <3>1. c \in Int /\ c - a \in Numbers
      BY <1>1, <1>2, <1>4, <2>1, <2>3, <2>4, RestIsNumber
    <3>2. a - c = -(c - a)
      BY <1>1, <3>1
    <3>3. Round(a - c) = a - c
      BY <3>1, <3>2, MinusNumber, NumberIs
    <3> QED
      BY <1>1, <2>2, <3>1, <3>3
  <2>5. CASE Magnitude(a) <= Magnitude(b)
    <3>1. c \in Int /\ c - (-b) \in Numbers
      BY <1>1, <1>2, <1>4, <2>1, <2>3, <2>5, RestIsNumber
    <3>2. c - (-b) = c + b
      BY <1>1, <3>1
    <3>3. Round(c + b) = c + b
      BY <3>1, <3>2, NumberIs
    <3> QED
      BY <1>1, <2>2, <3>1, <3>3
  <2> QED
    BY <1>2, <2>4, <2>5
<1> QED
  BY <1>3, <1>4

\* An account that is credited and debited with add and sub holds the exact sum
\* of what it was given: the check that both operands are recovered finds every
\* rounded result, for any precision and range of the numbers.
THEOREM BalancesAreExact == Spec => []BalanceExact
<1>1. Init => BalanceExact
  <2>1. 0 \in 0..MaxExponent /\ Power[0] = 1 /\ Magnitude(0) <= Width
    BY SafeMathAssumption, PowerDoubles, WidthIs DEF Magnitude
  <2>2. 0 = 0 * Power[0]
    BY <2>1
  <2>3. 0 \in Numbers
    BY <2>1, <2>2, Representable
  <2> QED
    BY <2>3 DEF Init, BalanceExact
<1>2. BalanceExact /\ [Next]_vars => BalanceExact'
  <2> SUFFICES ASSUME BalanceExact, [Next]_vars PROVE BalanceExact'
    OBVIOUS
  <2>1. balance \in Numbers /\ balance \in Int /\ exact = balance
    BY NumberIs DEF BalanceExact
  <2>2. ASSUME NEW n \in Int, Magnitude(n) <= Limit, Round(n) = n PROVE n \in Numbers
    BY <2>2, LimitIs DEF Numbers, Magnitude
  <2>3. ASSUME NEW v \in Numbers, Magnitude(balance + v) <= Limit, Add(v)
        PROVE  BalanceExact'
    <3>1. Plus(balance, v) = balance + v /\ v \in Int
      BY <2>1, <2>3, RefusedIfInexact, NumberIs DEF Add
    <3>2. balance + v \in Numbers
      BY <2>1, <2>2, <2>3, <3>1 DEF Plus
    <3> QED
      BY <2>1, <2>3, <3>1, <3>2 DEF Add, BalanceExact
  <2>4. ASSUME NEW v \in Numbers, Magnitude(balance - v) <= Limit, Sub(v)
        PROVE  BalanceExact'
    <3>1. Minus(balance, v) = balance - v /\ v \in Int
      BY <2>1, <2>4, RefusedIfInexact, NumberIs DEF Sub
    <3>2. balance - v \in Numbers
      BY <2>1, <2>2, <2>4, <3>1 DEF Minus
    <3> QED
      BY <2>1, <2>4, <3>1, <3>2 DEF Sub, BalanceExact
  <2>5. CASE UNCHANGED vars
    BY <2>5 DEF vars, BalanceExact
  <2> QED
    BY <2>3, <2>4, <2>5 DEF Next
<1> QED
  BY <1>1, <1>2, PTL DEF Spec

\* No amount is refused whose sum or difference with the balance is a number,
\* also above the safe integers.
THEOREM RefusalsAreJust == Spec => []RefusedOnlyIfInexact
<1>1. BalanceExact => RefusedOnlyIfInexact
  <2> SUFFICES ASSUME BalanceExact, NEW v \in Numbers
               PROVE  /\ AddThrows(balance, v) => balance + v # Plus(balance, v)
                      /\ SubThrows(balance, v) => balance - v # Minus(balance, v)
    BY DEF RefusedOnlyIfInexact
  <2>1. /\ balance \in Int /\ Round(balance) = balance
        /\ v \in Int /\ Round(v) = v
    BY NumberIs DEF BalanceExact
  <2>2. ASSUME balance + v = Plus(balance, v) PROVE ~AddThrows(balance, v)
    <3>1. PICK c \in Int : c = balance + v
      BY <2>1
    <3>2. c - v = balance /\ c - balance = v
      BY <2>1, <3>1
    <3> QED
      BY <2>1, <2>2, <3>1, <3>2 DEF AddThrows, Minus
  <2>3. ASSUME balance - v = Minus(balance, v) PROVE ~SubThrows(balance, v)
    <3>1. PICK c \in Int : c = balance - v
      BY <2>1
    <3>2. c + v = balance /\ balance - c = v
      BY <2>1, <3>1
    <3>3. Minus(balance, v) = c
      BY <2>3, <3>1
    <3> QED
      BY <2>1, <3>2, <3>3 DEF SubThrows, Plus, Minus
  <2> QED
    BY <2>2, <2>3
<1> QED
  BY <1>1, BalancesAreExact, PTL
=============================================================================
