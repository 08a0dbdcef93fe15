---------------------------- MODULE DeltaProofs ----------------------------
(***************************************************************************)
(* Proofs about Delta, for any byte strings and any limits: what           *)
(* computeDelta copies is the longest match of its windows, the windows    *)
(* move on, the instructions fit their encoding and make up the result,    *)
(* and applyDelta makes the result of them.                                *)
(***************************************************************************)
EXTENDS Delta, FiniteSetTheorems, WellFoundedInduction, TLAPS

(* Numbers are well ordered.                                               *)
LEMMA Least ==
    ASSUME NEW S \in SUBSET Nat, S # {}
    PROVE  \E m \in S : \A k \in S : m <= k
<1>. DEFINE R == {ss \in Nat \X Nat : ss[1] < ss[2]}
<1>1. IsWellFoundedOn(R, Nat)  BY NatLessThanWellFounded DEF OpToRel
<1>2. \A k, m \in Nat : k < m => <<k, m>> \in R  OBVIOUS
<1>. HIDE DEF R
<1>3. PICK m \in S : \A k \in S : ~ (<<k, m>> \in R)  BY <1>1, WFMin
<1>4. \A k \in S : k \in Nat /\ m \in Nat /\ ~ (k < m)  BY <1>2, <1>3
<1>5. \A k \in S : m <= k  BY <1>4
<1>. QED  BY <1>5

LEMMA MinIsLeast ==
    ASSUME NEW S \in SUBSET Nat, S # {}
    PROVE  Min(S) \in S /\ Min(S) \in Nat /\ \A k \in S : Min(S) <= k
<1>1. \E m \in S : \A k \in S : m <= k  BY Least
<1>. QED  BY <1>1 DEF Min

(* Numbers up to n have a greatest.                                        *)
LEMMA MaxIsGreatest ==
    ASSUME NEW n \in Nat, NEW S \in SUBSET (0..n), S # {}
    PROVE  \E m \in S : \A k \in S : k <= m
<1>. DEFINE below == {n - k : k \in S}
<1>1. below \in SUBSET Nat /\ below # {}
  <2>1. \A k \in S : n - k \in Nat  OBVIOUS
  <2>2. \E k : k \in S  OBVIOUS
  <2>. QED  BY <2>1, <2>2
<1>2. PICK m \in below : \A k \in below : m <= k
  <2>. HIDE DEF below
  <2>. QED  BY <1>1, Least
<1>3. PICK x \in S : m = n - x  OBVIOUS
<1>4. \A k \in S : k <= x
  <2>. SUFFICES ASSUME NEW k \in S  PROVE k <= x
    OBVIOUS
  <2>1. n - x <= n - k  BY <1>2, <1>3
  <2>. QED  BY <2>1
<1>. QED  BY <1>4

-----------------------------------------------------------------------------
(* Numbers and limits.                                                     *)

LEMMA WeightUnfolds ==
    /\ Weight \in [0..4 -> Nat \ {0}]
    /\ Weight[0] = 1
    /\ \A k \in 0..3 : Weight[k + 1] = Base * Weight[k]
<1>. DEFINE w(n) == CASE n = 0 -> 1
                      [] n = 1 -> Base
                      [] n = 2 -> Base * Base
                      [] n = 3 -> Base * (Base * Base)
                      [] n = 4 -> Base * (Base * (Base * Base))
            f == [k \in 0..4 |-> w(k)]
            Value(k, g) == IF k = 0 THEN 1 ELSE Base * g[k - 1]
<1>1. Base \in Nat \ {0}  BY DeltaAssumption
<1>2. \A x \in Nat \ {0} : Base * x \in Nat \ {0}
  <2>. SUFFICES ASSUME NEW x \in Nat \ {0}  PROVE Base * x \in Nat \ {0}
    OBVIOUS
  <2>. QED  BY <1>1
<1>3. f[0] = 1 /\ \A k \in 1..4 : f[k] = Base * f[k - 1]
  <2>1. f[0] = 1 /\ f[1] = Base * f[0] /\ f[2] = Base * f[1] /\ f[3] = Base * f[2] /\ f[4] = Base * f[3]
    BY <1>1
  <2>2. \A k \in 1..4 : k \in {1, 2, 3, 4}  OBVIOUS
  <2>. HIDE DEF f
  <2>. QED  BY <2>1, <2>2
<1>4. f = [k \in 0..4 |-> Value(k, f)]
  <2>1. \A k \in 0..4 : f[k] = Value(k, f)
    <3>. HIDE DEF f
    <3>. QED  BY <1>3
  <2>2. f = [k \in 0..4 |-> f[k]]  OBVIOUS
  <2>. HIDE DEF f, Value
  <2>. QED  BY <2>1, <2>2
<1>5. Weight = [k \in 0..4 |-> Value(k, Weight)]
  <2>. HIDE DEF f
  <2>. QED  BY <1>4 DEF Weight, Offsets
<1>6. Weight[0] = 1 /\ \A k \in 0..3 : Weight[k + 1] = Base * Weight[k]
  <2>1. \A k \in 0..4 : Weight[k] = Value(k, Weight)
    <3>. HIDE DEF Value
    <3>. QED  BY <1>5
  <2>2. \A k \in 0..3 : k + 1 \in 0..4 /\ k + 1 # 0 /\ (k + 1) - 1 = k  OBVIOUS
  <2>. QED  BY <2>1, <2>2
<1>7. \A k \in 0..4 : Weight[k] \in Nat \ {0}
  <2>1. Weight[1] = Base * Weight[0] /\ Weight[2] = Base * Weight[1]
        /\ Weight[3] = Base * Weight[2] /\ Weight[4] = Base * Weight[3]
    BY <1>6
  <2>2. Weight[0] \in Nat \ {0}  BY <1>6
  <2>3. Weight[1] \in Nat \ {0}  BY <1>2, <2>1, <2>2
  <2>4. Weight[2] \in Nat \ {0}  BY <1>2, <2>1, <2>3
  <2>5. Weight[3] \in Nat \ {0}  BY <1>2, <2>1, <2>4
  <2>6. Weight[4] \in Nat \ {0}  BY <1>2, <2>1, <2>5
  <2>7. \A k \in 0..4 : k \in {0, 1, 2, 3, 4}  OBVIOUS
  <2>. QED  BY <2>2, <2>3, <2>4, <2>5, <2>6, <2>7
<1>8. Weight \in [0..4 -> Nat \ {0}]
  <2>1. Weight = [k \in 0..4 |-> Weight[k]]
    <3>. HIDE DEF Value
    <3>. QED  BY <1>5
  <2>. QED  BY <1>7, <2>1
<1>. QED  BY <1>6, <1>8

LEMMA Limits ==
    /\ Base \in Nat /\ Base > 1
    /\ MaxInsertLen \in Nat /\ MaxInsertLen > 1
    /\ MinCopyLen \in Nat /\ 0 < MinCopyLen /\ MinCopyLen < MaxInsertLen
    /\ MaxCopyLen \in Nat /\ MaxInsertLen <= MaxCopyLen /\ MaxCopyLen < Weight[3]
    /\ MaxCopyOff \in Nat /\ MaxInsertLen <= MaxCopyOff /\ MaxCopyOff < Weight[4]
<1>1. Weight[3] \in Nat /\ Weight[4] \in Nat  BY WeightUnfolds
<1>2. MaxInsertLen \in Nat /\ MaxInsertLen > 1  BY DeltaAssumption
<1>3. MaxCopyLen \in MaxInsertLen..(Weight[3] - 1) /\ MaxCopyOff \in MaxInsertLen..(Weight[4] - 1)
  BY DeltaAssumption DEF Lengths, Offsets
<1>. QED  BY <1>1, <1>2, <1>3, DeltaAssumption

-----------------------------------------------------------------------------
(* The longest common substring.                                           *)

(* How far back from the i-th and j-th bytes a and b agree.                *)
Stops(a, b, j, i) ==
    {k \in Nat : k <= i /\ k <= j /\ (k = i \/ k = j \/ a[i - k] # b[j - k])}

Common(a, b, j, i) == Min(Stops(a, b, j, i))

LEMMA CommonIsLeast ==
    ASSUME NEW a, NEW b, NEW j \in Nat, NEW i \in Nat
    PROVE  /\ Common(a, b, j, i) \in Stops(a, b, j, i)
           /\ Common(a, b, j, i) \in Nat
           /\ \A k \in Stops(a, b, j, i) : Common(a, b, j, i) <= k
<1>1. (IF i <= j THEN i ELSE j) \in Stops(a, b, j, i)  BY DEF Stops
<1>2. Stops(a, b, j, i) \in SUBSET Nat  BY DEF Stops
<1>. QED  BY <1>1, <1>2, MinIsLeast DEF Common

LEMMA CommonUnfolds ==
    ASSUME NEW a, NEW b, NEW j \in Nat, NEW i \in Nat
    PROVE  Common(a, b, j, i) =
               IF j = 0 \/ i = 0 THEN 0
               ELSE IF a[i] = b[j] THEN Common(a, b, j - 1, i - 1) + 1 ELSE 0
<1>. DEFINE here == Common(a, b, j, i)
<1>1. /\ here \in Stops(a, b, j, i) /\ here \in Nat
      /\ \A k \in Stops(a, b, j, i) : here <= k
  BY CommonIsLeast
<1>2. CASE j = 0 \/ i = 0
  <2>1. here = 0
    <3>. HIDE DEF here
    <3>. QED  BY <1>1, <1>2 DEF Stops
  <2>. QED  BY <1>2, <2>1
<1>3. CASE ~ (j = 0 \/ i = 0) /\ a[i] # b[j]
  <2>1. 0 \in Stops(a, b, j, i)  BY <1>3 DEF Stops
  <2>2. here = 0
    <3>. HIDE DEF here
    <3>. QED  BY <1>1, <2>1
  <2>. QED  BY <1>3, <2>2
<1>4. CASE ~ (j = 0 \/ i = 0) /\ a[i] = b[j]
  <2>. DEFINE before == Common(a, b, j - 1, i - 1)
  <2>1. j - 1 \in Nat /\ i - 1 \in Nat  BY <1>4
  <2>2. /\ before \in Stops(a, b, j - 1, i - 1) /\ before \in Nat
        /\ \A k \in Stops(a, b, j - 1, i - 1) : before <= k
    BY <2>1, CommonIsLeast
  <2>. HIDE DEF here, before
  <2>3. before + 1 \in Stops(a, b, j, i)
    <3>1. i - 1 - before = i - (before + 1) /\ j - 1 - before = j - (before + 1)
      BY <2>2
    <3>. QED  BY <1>4, <2>2, <3>1 DEF Stops
  <2>4. here # 0  BY <1>1, <1>4 DEF Stops
  <2>5. here - 1 \in Stops(a, b, j - 1, i - 1)
    <3>1. here - 1 \in Nat /\ i - 1 - (here - 1) = i - here /\ j - 1 - (here - 1) = j - here
      BY <1>1, <2>4
    <3>. QED  BY <1>1, <1>4, <3>1 DEF Stops
  <2>6. here <= before + 1 /\ before <= here - 1  BY <1>1, <2>2, <2>3, <2>5
  <2>7. here = before + 1  BY <1>1, <2>2, <2>6
  <2>. QED  BY <1>4, <2>7 DEF here, before
<1>. QED  BY <1>2, <1>3, <1>4

Cells(a, b) == (0..Len(b)) \X (0..Len(a))

(* The rounds compute it.                                                  *)
LEMMA SuffixesAreCommon ==
    ASSUME NEW a \in Seq(Byte), NEW b \in Seq(Byte)
    PROVE  Suffixes(a, b) = [p \in Cells(a, b) |-> Common(a, b, p[1], p[2])]
<1>. DEFINE C == Cells(a, b)
            Value(p, f) == IF p[1] = 0 \/ p[2] = 0 THEN 0
                           ELSE IF a[p[2]] = b[p[1]] THEN f[<<p[1] - 1, p[2] - 1>>] + 1 ELSE 0
            g == [p \in C |-> Common(a, b, p[1], p[2])]
            c == CHOOSE f : f = [p \in C |-> Value(p, f)]
<1>0. \A j, i \in Nat :
          Common(a, b, j, i) =
              IF j = 0 \/ i = 0 THEN 0
              ELSE IF a[i] = b[j] THEN Common(a, b, j - 1, i - 1) + 1 ELSE 0
  BY CommonUnfolds
<1>1. \A p \in C : p[1] \in Nat /\ p[2] \in Nat  BY DEF Cells
<1>2. ASSUME NEW p \in C, p[1] # 0, p[2] # 0
      PROVE  <<p[1] - 1, p[2] - 1>> \in C
  <2>1. p[1] \in 0..Len(b) /\ p[2] \in 0..Len(a) /\ Len(a) \in Nat /\ Len(b) \in Nat
    BY DEF Cells
  <2>2. p[1] - 1 \in 0..Len(b) /\ p[2] - 1 \in 0..Len(a)  BY <1>2, <2>1
  <2>. QED  BY <2>2 DEF Cells
<1>3. ASSUME NEW p \in C
      PROVE  g[p] = Value(p, g)
  <2>1. p[1] \in Nat /\ p[2] \in Nat  BY <1>1
  <2>2. Common(a, b, p[1], p[2]) =
            IF p[1] = 0 \/ p[2] = 0 THEN 0
            ELSE IF a[p[2]] = b[p[1]] THEN Common(a, b, p[1] - 1, p[2] - 1) + 1 ELSE 0
    BY <1>0, <2>1
  <2>3. p[1] # 0 /\ p[2] # 0 =>
            g[<<p[1] - 1, p[2] - 1>>] = Common(a, b, p[1] - 1, p[2] - 1)
    <3>. SUFFICES ASSUME p[1] # 0, p[2] # 0
                  PROVE  g[<<p[1] - 1, p[2] - 1>>] = Common(a, b, p[1] - 1, p[2] - 1)
      OBVIOUS
    <3>. DEFINE q == <<p[1] - 1, p[2] - 1>>
    <3>1. q \in C /\ q[1] = p[1] - 1 /\ q[2] = p[2] - 1  BY <1>2
    <3>. HIDE DEF q, C
    <3>2. g[q] = Common(a, b, q[1], q[2])  BY <3>1
    <3>. QED  BY <3>1, <3>2 DEF q
  <2>4. g[p] = Common(a, b, p[1], p[2])  OBVIOUS
  <2>. HIDE DEF g, C
  <2>. QED  BY <2>2, <2>3, <2>4
<1>4. g = [p \in C |-> Value(p, g)]
  <2>1. g = [p \in C |-> g[p]]  OBVIOUS
  <2>. HIDE DEF g, Value, C
  <2>. QED  BY <1>3, <2>1
<1>5. c = [p \in C |-> Value(p, c)]
  <2>. HIDE DEF g, Value, C
  <2>. QED  BY <1>4
<1>6. Suffixes(a, b) = c  BY DEF Suffixes, Cells
<1>. HIDE DEF c
<1>7. \A p \in C : c[p] = Value(p, c)
  <2>. HIDE DEF Value, C
  <2>. QED  BY <1>5
<1>8. \A p \in C : c[p] = g[p]
  <2>. DEFINE U == {p \in C : c[p] # g[p]}
              rounds == {p[1] : p \in U}
  <2>. SUFFICES ASSUME U # {} PROVE FALSE
    OBVIOUS
  <2>1. rounds \in SUBSET Nat /\ rounds # {}
    <3>1. \E p : p \in U  OBVIOUS
    <3>2. \A p \in U : p[1] \in Nat  BY <1>1
    <3>. HIDE DEF U
    <3>. QED  BY <3>1, <3>2
  <2>2. PICK j \in rounds : \A k \in rounds : j <= k
    <3>. HIDE DEF rounds
    <3>. QED  BY <2>1, Least
  <2>3. PICK p \in U : j = p[1]
    <3>. HIDE DEF U
    <3>. QED  OBVIOUS
  <2>4. p \in C /\ c[p] # g[p] /\ p[1] \in Nat /\ p[2] \in Nat  BY <1>1
  <2>5. c[p] = Value(p, c) /\ g[p] = Value(p, g)  BY <1>3, <1>7, <2>4
  <2>6. p[1] # 0 /\ p[2] # 0 => c[<<p[1] - 1, p[2] - 1>>] = g[<<p[1] - 1, p[2] - 1>>]
    <3>. SUFFICES ASSUME p[1] # 0, p[2] # 0
                  PROVE  c[<<p[1] - 1, p[2] - 1>>] = g[<<p[1] - 1, p[2] - 1>>]
      OBVIOUS
    <3>. DEFINE q == <<p[1] - 1, p[2] - 1>>
    <3>1. q \in C /\ q[1] = p[1] - 1  BY <1>2, <2>4
    <3>. HIDE DEF q, C, g
    <3>2. q \notin U
      <4>1. q \in U => q[1] \in rounds  OBVIOUS
      <4>. HIDE DEF rounds, U
      <4>. QED  BY <2>2, <2>3, <2>4, <3>1, <4>1
    <3>3. c[q] = g[q]  BY <3>1, <3>2
    <3>. QED  BY <3>3 DEF q
  <2>. HIDE DEF U, g, C, rounds
  <2>. QED  BY <2>4, <2>5, <2>6
<1>9. c = [p \in C |-> c[p]]
  <2>. HIDE DEF Value, C
  <2>. QED  BY <1>5
<1>10. c = g
  <2>1. g = [p \in C |-> g[p]]  OBVIOUS
  <2>. HIDE DEF g, C
  <2>. QED  BY <1>8, <1>9, <2>1
<1>. QED  BY <1>6, <1>10

(* n bytes from the i-th on of a are those from the j-th on of b.          *)
Agree(a, b, m) ==
    /\ m.i + m.n <= Len(a) /\ m.j + m.n <= Len(b)
    /\ \A t \in 1..m.n : a[m.i + t] = b[m.j + t]

(* What ends at a cell agrees, and all that agrees is counted there.       *)
LEMMA CommonAgrees ==
    ASSUME NEW a \in Seq(Byte), NEW b \in Seq(Byte)
    PROVE  /\ \A j \in 0..Len(b), i \in 0..Len(a) :
                  LET n == Common(a, b, j, i)
                      m == [i |-> i - n, j |-> j - n, n |-> n]
                  IN  m \in Matches /\ Agree(a, b, m)
           /\ \A m \in Matches : Agree(a, b, m) =>
                  /\ m.j + m.n \in 0..Len(b) /\ m.i + m.n \in 0..Len(a)
                  /\ m.n <= Common(a, b, m.j + m.n, m.i + m.n)
<1>0. Len(a) \in Nat /\ Len(b) \in Nat  OBVIOUS
<1>1. ASSUME NEW j \in 0..Len(b), NEW i \in 0..Len(a)
      PROVE  LET n == Common(a, b, j, i)
                 m == [i |-> i - n, j |-> j - n, n |-> n]
             IN  m \in Matches /\ Agree(a, b, m)
  <2>. DEFINE n == Common(a, b, j, i)
  <2>1. i \in Nat /\ j \in Nat /\ i <= Len(a) /\ j <= Len(b)  BY <1>0
  <2>2. n \in Stops(a, b, j, i) /\ n \in Nat /\ \A k \in Stops(a, b, j, i) : n <= k
    BY <2>1, CommonIsLeast
  <2>. HIDE DEF n
  <2>3. n <= i /\ n <= j  BY <2>2 DEF Stops
  <2>4. \A t \in 1..n : a[i - n + t] = b[j - n + t]
    <3>. SUFFICES ASSUME NEW t \in 1..n  PROVE a[i - n + t] = b[j - n + t]
      OBVIOUS
    <3>1. n - t \in Nat /\ n - t < n /\ i - (n - t) = i - n + t /\ j - (n - t) = j - n + t
      BY <2>1, <2>2
    <3>2. n - t \notin Stops(a, b, j, i)  BY <2>2, <3>1
    <3>. QED  BY <2>1, <2>2, <2>3, <3>1, <3>2 DEF Stops
  <2>5. i - n \in Nat /\ j - n \in Nat /\ (i - n) + n = i /\ (j - n) + n = j
    BY <2>1, <2>2, <2>3
  <2>6. [i |-> i - n, j |-> j - n, n |-> n] \in Matches  BY <2>2, <2>5 DEF Matches
  <2>7. Agree(a, b, [i |-> i - n, j |-> j - n, n |-> n])  BY <2>1, <2>4, <2>5 DEF Agree
  <2>. QED  BY <2>6, <2>7 DEF n
<1>2. ASSUME NEW m \in Matches, Agree(a, b, m)
      PROVE  /\ m.j + m.n \in 0..Len(b) /\ m.i + m.n \in 0..Len(a)
             /\ m.n <= Common(a, b, m.j + m.n, m.i + m.n)
  <2>. DEFINE j == m.j + m.n
              i == m.i + m.n
              n == Common(a, b, j, i)
  <2>1. /\ m.i \in Nat /\ m.j \in Nat /\ m.n \in Nat
        /\ i \in Nat /\ j \in Nat /\ i <= Len(a) /\ j <= Len(b)
        /\ \A t \in 1..m.n : a[m.i + t] = b[m.j + t]
    BY <1>2 DEF Matches, Agree
  <2>2. n \in Stops(a, b, j, i) /\ n \in Nat  BY <2>1, CommonIsLeast
  <2>3. m.n <= i /\ m.n <= j /\ i - m.n = m.i /\ j - m.n = m.j  BY <2>1
  <2>. HIDE DEF n
  <2>4. m.n <= n
    <3>. SUFFICES ASSUME n < m.n PROVE FALSE
      BY <2>1, <2>2
    <3>1. n < i /\ n < j  BY <2>1, <2>2, <2>3
    <3>2. a[i - n] # b[j - n]
      <4>. HIDE DEF i, j
      <4>. QED  BY <2>1, <2>2, <3>1 DEF Stops
    <3>3. m.n - n \in 1..m.n /\ m.i + (m.n - n) = i - n /\ m.j + (m.n - n) = j - n
      <4>1. m.i \in Nat /\ m.j \in Nat /\ m.n \in Nat  BY <2>1
      <4>2. \A x, y, z \in Nat : z < y => y - z \in 1..y /\ x + (y - z) = (x + y) - z
        OBVIOUS
      <4>3. n \in Nat /\ n < m.n  BY <2>2
      <4>. QED  BY <4>1, <4>2, <4>3
    <3>. QED  BY <2>1, <3>2, <3>3
  <2>. QED  BY <1>0, <2>1, <2>4 DEF n
<1>. QED  BY <1>1, <1>2

(* Nothing longer is common to both, and there are starts of nothing.      *)
LEMMA LongestIsLongest ==
    ASSUME NEW a \in Seq(Byte), NEW b \in Seq(Byte)
    PROVE  LET m == LongestCommonSubstring(a, b)
           IN  /\ m \in Matches
               /\ m.n = 0 => m.i = 1 /\ m.j = 1
               /\ m.n # 0 => Agree(a, b, m)
               /\ \A o \in Matches : Agree(a, b, o) => o.n <= m.n
<1>. DEFINE C == Cells(a, b)
            c == Suffixes(a, b)
            Better(p, q) == \/ c[q] < c[p]
                            \/ c[q] = c[p] /\ (p[1] < q[1] \/ (p[1] = q[1] /\ p[2] <= q[2]))
            best == CHOOSE p \in DOMAIN c : \A q \in DOMAIN c : Better(p, q)
<1>1. /\ DOMAIN c = C
      /\ \A p \in C : c[p] = Common(a, b, p[1], p[2])
  <2>1. c = [p \in C |-> Common(a, b, p[1], p[2])]  BY SuffixesAreCommon
  <2>. HIDE DEF c, C
  <2>. QED  BY <2>1
<1>2. /\ \A p \in C : /\ p[1] \in 0..Len(b) /\ p[2] \in 0..Len(a)
                      /\ p[1] \in Nat /\ p[2] \in Nat
      /\ \A j \in 0..Len(b), i \in 0..Len(a) : <<j, i>> \in C /\ <<j, i>>[1] = j /\ <<j, i>>[2] = i
  BY DEF Cells
<1>3. \A p \in C : c[p] \in 0..Len(a) /\ c[p] \in Nat
  <2>. SUFFICES ASSUME NEW p \in C  PROVE c[p] \in 0..Len(a) /\ c[p] \in Nat
    OBVIOUS
  <2>1. p[1] \in Nat /\ p[2] \in Nat /\ p[2] <= Len(a) /\ Len(a) \in Nat  BY <1>2
  <2>2. c[p] \in Stops(a, b, p[1], p[2])
    <3>1. c[p] = Common(a, b, p[1], p[2])  BY <1>1
    <3>2. \A j, i \in Nat : Common(a, b, j, i) \in Stops(a, b, j, i)  BY CommonIsLeast
    <3>. QED  BY <2>1, <3>1, <3>2
  <2>. QED  BY <2>1, <2>2 DEF Stops
<1>. HIDE DEF c, C
<1>4. \E p \in C : \A q \in C : Better(p, q)
  <2>1. C # {}
    <3>1. 0 \in 0..Len(b) /\ 0 \in 0..Len(a)  OBVIOUS
    <3>. QED  BY <1>2, <3>1
  <2>. DEFINE values == {c[p] : p \in C}
  <2>2. PICK v \in values : \A k \in values : k <= v
    <3>1. values \in SUBSET (0..Len(a)) /\ values # {}  BY <1>3, <2>1
    <3>2. Len(a) \in Nat  OBVIOUS
    <3>. HIDE DEF values
    <3>. QED  BY <3>1, <3>2, MaxIsGreatest
  <2>. DEFINE rounds == {p[1] : p \in {q \in C : c[q] = v}}
  <2>3. PICK j \in rounds : \A k \in rounds : j <= k
    <3>1. rounds \in SUBSET Nat  BY <1>2
    <3>2. rounds # {}  OBVIOUS
    <3>. HIDE DEF rounds
    <3>. QED  BY <3>1, <3>2, Least
  <2>. DEFINE bytes == {p[2] : p \in {q \in C : c[q] = v /\ q[1] = j}}
  <2>4. PICK i \in bytes : \A k \in bytes : i <= k
    <3>1. bytes \in SUBSET Nat  BY <1>2
    <3>2. bytes # {}  BY <2>3
    <3>. HIDE DEF bytes
    <3>. QED  BY <3>1, <3>2, Least
  <2>5. PICK p \in C : c[p] = v /\ p[1] = j /\ p[2] = i  BY <2>4
  <2>6. ASSUME NEW q \in C
        PROVE  Better(p, q)
    <3>1. c[q] <= v /\ c[q] \in Nat /\ v \in Nat  BY <1>3, <2>2, <2>5
    <3>2. c[q] = v => j <= q[1]  BY <2>3
    <3>3. c[q] = v /\ q[1] = j => i <= q[2]  BY <2>4
    <3>4. j \in Nat /\ q[1] \in Nat  BY <1>2, <2>5
    <3>. HIDE DEF values, rounds, bytes
    <3>. QED  BY <2>5, <3>1, <3>2, <3>3, <3>4
  <2>. QED  BY <2>6
<1>5. best \in C /\ \A q \in C : Better(best, q)
  <2>. HIDE DEF Better
  <2>. QED  BY <1>1, <1>4
<1>. DEFINE m == LongestCommonSubstring(a, b)
<1>6. m = IF c[best] = 0 THEN [i |-> 1, j |-> 1, n |-> 0]
          ELSE [i |-> best[2] - c[best], j |-> best[1] - c[best], n |-> c[best]]
  BY DEF LongestCommonSubstring, c
<1>. HIDE DEF best, m
<1>7. m \in Matches /\ (m.n = 0 => m.i = 1 /\ m.j = 1) /\ m.n = c[best]
      /\ (m.n # 0 => Agree(a, b, m))
  <2>1. /\ [i |-> best[2] - c[best], j |-> best[1] - c[best], n |-> c[best]] \in Matches
        /\ Agree(a, b, [i |-> best[2] - c[best], j |-> best[1] - c[best], n |-> c[best]])
    <3>1. c[best] = Common(a, b, best[1], best[2]) /\ best[1] \in 0..Len(b) /\ best[2] \in 0..Len(a)
      BY <1>1, <1>2, <1>5
    <3>. QED  BY <3>1, CommonAgrees
  <2>2. [i |-> 1, j |-> 1, n |-> 0] \in Matches  BY DEF Matches
  <2>. QED  BY <1>6, <2>1, <2>2
<1>8. \A o \in Matches : Agree(a, b, o) => o.n <= m.n
  <2>. SUFFICES ASSUME NEW o \in Matches, Agree(a, b, o)
                PROVE  o.n <= m.n
    OBVIOUS
  <2>. DEFINE q == <<o.j + o.n, o.i + o.n>>
  <2>1. /\ o.j + o.n \in 0..Len(b) /\ o.i + o.n \in 0..Len(a)
        /\ o.n <= Common(a, b, o.j + o.n, o.i + o.n)
    BY CommonAgrees
  <2>2. q \in C /\ c[q] = Common(a, b, o.j + o.n, o.i + o.n)  BY <1>1, <1>2, <2>1
  <2>3. o.n \in Nat  BY DEF Matches
  <2>. HIDE DEF q
  <2>4. c[q] <= c[best] /\ c[q] \in Nat /\ c[best] \in Nat  BY <1>3, <1>5, <2>2
  <2>. QED  BY <1>7, <2>1, <2>2, <2>3, <2>4
<1>. QED  BY <1>7, <1>8 DEF m

-----------------------------------------------------------------------------
(* The match that is copied.                                               *)

(* m is a match of the strings, if it is counted from where the windows    *)
(* are.                                                                    *)
Lies(m) ==
    /\ pos + m.i + m.n <= Len(result) /\ baseOff + m.j + m.n <= Len(base)
    /\ \A t \in 1..m.n : result[pos + m.i + t] = base[baseOff + m.j + t]

(* It goes on for another byte.                                            *)
Continues(m) ==
    /\ m.j + m.n >= MaxInsertLen
    /\ pos + m.i + m.n < Len(result)
    /\ baseOff + m.j + m.n < Len(base)
    /\ m.n < MaxCopyLen
    /\ result[pos + m.i + m.n + 1] = base[baseOff + m.j + m.n + 1]

Longer(m) == [m EXCEPT !.n = @ + 1]

LEMMA LongerHas ==
    ASSUME NEW m \in Matches
    PROVE  /\ Longer(m) \in Matches /\ Longer(m).n = m.n + 1
           /\ Longer(m).i = m.i /\ Longer(m).j = m.j
           /\ m.i \in Nat /\ m.j \in Nat /\ m.n \in Nat
BY DEF Longer, Matches

(* Matches are extended to an end.                                         *)
LEMMA ExtendedUnfolds ==
    \A m \in Matches : Extended[m] = IF Continues(m) THEN Extended[Longer(m)] ELSE m
<1>. DEFINE Value(m, f) == IF Continues(m) THEN f[Longer(m)] ELSE m
            ExtendsTo(m) == {k \in Nat : m.n <= k /\ ~ Continues([m EXCEPT !.n = k])}
            f == [m \in Matches |-> [m EXCEPT !.n = Min(ExtendsTo(m))]]
<1>1. ASSUME NEW m \in Matches
      PROVE  /\ Min(ExtendsTo(m)) \in ExtendsTo(m) /\ Min(ExtendsTo(m)) \in Nat
             /\ \A k \in ExtendsTo(m) : Min(ExtendsTo(m)) <= k
  <2>1. (IF m.n <= MaxCopyLen THEN MaxCopyLen ELSE m.n) \in ExtendsTo(m)
    <3>. DEFINE k == IF m.n <= MaxCopyLen THEN MaxCopyLen ELSE m.n
    <3>1. k \in Nat /\ m.n <= k /\ MaxCopyLen <= k /\ MaxCopyLen \in Nat
      BY Limits DEF Matches
    <3>2. [m EXCEPT !.n = k].n = k  BY DEF Matches
    <3>. HIDE DEF k
    <3>3. ~ Continues([m EXCEPT !.n = k])  BY <3>1, <3>2 DEF Continues
    <3>. QED  BY <3>1, <3>3 DEF k
  <2>2. ExtendsTo(m) \in SUBSET Nat  OBVIOUS
  <2>. HIDE DEF ExtendsTo
  <2>. QED  BY <2>1, <2>2, MinIsLeast
<1>2. ASSUME NEW m \in Matches
      PROVE  f[m] = Value(m, f)
  <2>. DEFINE k == Min(ExtendsTo(m))
  <2>1. k \in Nat /\ m.n <= k /\ ~ Continues([m EXCEPT !.n = k])  BY <1>1
  <2>2. CASE ~ Continues(m)
    <3>1. [m EXCEPT !.n = m.n] = m /\ m.n \in Nat  BY DEF Matches
    <3>2. m.n \in ExtendsTo(m)  BY <2>2, <3>1
    <3>3. \A x \in ExtendsTo(m) : k <= x  BY <1>1
    <3>. HIDE DEF k, ExtendsTo
    <3>5. k = m.n  BY <2>1, <3>1, <3>2, <3>3
    <3>4. f[m] = [m EXCEPT !.n = k]  BY DEF k
    <3>. QED  BY <2>2, <3>1, <3>4, <3>5
  <2>3. CASE Continues(m)
    <3>. DEFINE o == Longer(m)
                e == Min(ExtendsTo(o))
    <3>1. o \in Matches /\ o.n = m.n + 1 /\ m.n \in Nat  BY LongerHas
    <3>2. \A x : [o EXCEPT !.n = x] = [m EXCEPT !.n = x]  BY DEF Longer, Matches
    <3>3. k # m.n
      <4>1. [m EXCEPT !.n = m.n] = m  BY DEF Matches
      <4>. HIDE DEF k
      <4>. QED  BY <2>1, <2>3, <4>1
    <3>. HIDE DEF o
    <3>4. ExtendsTo(o) = {x \in Nat : m.n + 1 <= x /\ ~ Continues([m EXCEPT !.n = x])}
      BY <3>1, <3>2
    <3>5. ExtendsTo(o) = {x \in ExtendsTo(m) : x # m.n}
      <4>1. \A x \in Nat : m.n + 1 <= x <=> m.n <= x /\ x # m.n  BY <3>1
      <4>. QED  BY <3>4, <4>1
    <3>6. k \in ExtendsTo(o) /\ \A x \in ExtendsTo(o) : k <= x
      <4>1. k \in ExtendsTo(m) /\ \A x \in ExtendsTo(m) : k <= x  BY <1>1
      <4>. HIDE DEF k, ExtendsTo
      <4>. QED  BY <3>3, <3>5, <4>1
    <3>7. e \in ExtendsTo(o) /\ e \in Nat /\ \A x \in ExtendsTo(o) : e <= x  BY <1>1, <3>1
    <3>8. e = k
      <4>. HIDE DEF e, k, ExtendsTo
      <4>. QED  BY <2>1, <3>6, <3>7
    <3>9. f[m] = [m EXCEPT !.n = k] /\ f[o] = [o EXCEPT !.n = e]
      <4>. HIDE DEF ExtendsTo
      <4>. QED  BY <3>1
    <3>. HIDE DEF k, e, f
    <3>10. f[m] = f[o]  BY <3>2, <3>8, <3>9
    <3>. QED  BY <2>3, <3>10 DEF o
  <2>. QED  BY <2>2, <2>3
<1>. HIDE DEF ExtendsTo
<1>3. f = [m \in Matches |-> Value(m, f)]
  <2>1. f = [m \in Matches |-> f[m]]  OBVIOUS
  <2>. HIDE DEF f, Value
  <2>. QED  BY <1>2, <2>1
<1>4. Extended = [m \in Matches |-> Value(m, Extended)]
  <2>1. Extended = CHOOSE g : g = [m \in Matches |-> Value(m, g)]
    BY DEF Extended, Continues, Longer
  <2>. HIDE DEF f, Value
  <2>. QED  BY <1>3, <2>1
<1>5. \A m \in Matches : Extended[m] = Value(m, Extended)
  <2>. HIDE DEF Value
  <2>. QED  BY <1>4
<1>. QED  BY <1>5

(* What is extended stays a match, where it was, and is no longer than a   *)
(* copy may be.                                                            *)
LEMMA ExtendedLies ==
    ASSUME NEW m \in Matches, m.n <= MaxCopyLen, Lies(m),
           pos \in Nat, baseOff \in Nat, result \in Seq(Byte), base \in Seq(Byte)
    PROVE  LET e == Extended[m]
           IN  /\ e \in Matches /\ e.i = m.i /\ e.j = m.j
               /\ m.n <= e.n /\ e.n <= MaxCopyLen
               /\ Lies(e)
<1>. DEFINE Good(o) == /\ Extended[o] \in Matches
                       /\ Extended[o].i = o.i /\ Extended[o].j = o.j
                       /\ o.n <= Extended[o].n /\ Extended[o].n <= MaxCopyLen
                       /\ Lies(Extended[o])
            U == {o \in Matches : o.n <= MaxCopyLen /\ Lies(o) /\ ~ Good(o)}
            left == {MaxCopyLen - o.n : o \in U}
<1>. SUFFICES ASSUME U # {} PROVE FALSE
  OBVIOUS
<1>. HIDE DEF Good
<1>1. MaxCopyLen \in Nat /\ \A o \in Matches : o.n \in Nat /\ o.i \in Nat /\ o.j \in Nat
  BY Limits DEF Matches
<1>2. left \in SUBSET Nat /\ left # {}
  <2>1. \A o \in U : MaxCopyLen - o.n \in Nat  BY <1>1
  <2>2. \E o : o \in U  OBVIOUS
  <2>. HIDE DEF U
  <2>. QED  BY <2>1, <2>2
<1>3. PICK k \in left : \A x \in left : k <= x
  <2>. HIDE DEF left
  <2>. QED  BY <1>2, Least
<1>4. PICK o \in U : k = MaxCopyLen - o.n  OBVIOUS
<1>5. o \in Matches /\ o.n <= MaxCopyLen /\ Lies(o) /\ ~ Good(o)  OBVIOUS
<1>6. CASE ~ Continues(o)
  <2>1. Extended[o] = o  BY <1>5, <1>6, ExtendedUnfolds
  <2>. QED  BY <1>1, <1>5, <2>1 DEF Good
<1>7. CASE Continues(o)
  <2>. DEFINE l == Longer(o)
  <2>1. Extended[o] = Extended[l]  BY <1>5, <1>7, ExtendedUnfolds
  <2>2. l \in Matches /\ l.n = o.n + 1 /\ l.i = o.i /\ l.j = o.j  BY <1>5, LongerHas
  <2>. HIDE DEF l
  <2>3. o.n < MaxCopyLen /\ l.n <= MaxCopyLen  BY <1>1, <1>5, <1>7, <2>2 DEF Continues
  <2>4. Lies(l)
    <3>1. /\ pos + o.i + o.n < Len(result) /\ baseOff + o.j + o.n < Len(base)
          /\ result[pos + o.i + o.n + 1] = base[baseOff + o.j + o.n + 1]
          /\ \A t \in 1..o.n : result[pos + o.i + t] = base[baseOff + o.j + t]
      BY <1>5, <1>7 DEF Continues, Lies
    <3>2. o.i \in Nat /\ o.j \in Nat /\ o.n \in Nat /\ Len(result) \in Nat /\ Len(base) \in Nat
      BY <1>1, <1>5
    <3>3. \A x, y, z, n \in Nat : x + y + z < n => x + y + (z + 1) <= n  OBVIOUS
    <3>4. pos + l.i + l.n <= Len(result) /\ baseOff + l.j + l.n <= Len(base)
      BY <2>2, <3>1, <3>2, <3>3
    <3>5. \A t \in 1..(o.n + 1) : t \in 1..o.n \/ t = o.n + 1  BY <3>2
    <3>6. /\ pos + o.i + o.n + 1 = pos + o.i + (o.n + 1)
          /\ baseOff + o.j + o.n + 1 = baseOff + o.j + (o.n + 1)
      <4>. DEFINE i == o.i
                  j == o.j
                  n == o.n
      <4>1. pos \in Nat /\ baseOff \in Nat /\ i \in Nat /\ j \in Nat /\ n \in Nat
        BY <3>2
      <4>. HIDE DEF i, j, n
      <4>2. pos + i + n + 1 = pos + i + (n + 1) /\ baseOff + j + n + 1 = baseOff + j + (n + 1)
        BY ONLY <4>1
      <4>. QED  BY ONLY <4>2 DEF i, j, n
    <3>7. result[pos + o.i + (o.n + 1)] = base[baseOff + o.j + (o.n + 1)]
      BY ONLY <3>1, <3>6
    <3>. QED  BY <2>2, <3>1, <3>4, <3>5, <3>7 DEF Lies
  <2>5. l \notin U
    <3>1. MaxCopyLen - l.n < k  BY <1>1, <1>4, <1>5, <2>2
    <3>2. l \in U => MaxCopyLen - l.n \in left  OBVIOUS
    <3>3. MaxCopyLen - l.n \in Int /\ k \in Int  BY <1>1, <1>4, <1>5, <2>2
    <3>. HIDE DEF left, U
    <3>. QED  BY <1>3, <3>1, <3>2, <3>3
  <2>6. Good(l)  BY <2>2, <2>3, <2>4, <2>5
  <2>7. Good(o)  BY <1>1, <1>5, <2>1, <2>2, <2>6 DEF Good
  <2>. QED  BY <1>5, <2>7
<1>. QED  BY <1>6, <1>7

(* The strings that are computed with, and how much of them is done with.  *)
Strung ==
    /\ base \in Seq(Byte) /\ result \in Seq(Byte)
    /\ pos \in Nat /\ pos <= Len(result)
    /\ baseOff \in Nat /\ baseOff <= Len(base)

LEMMA WindowIs ==
    ASSUME NEW s \in Seq(Byte), NEW n \in Nat, Len(s) - n >= MaxInsertLen
    PROVE  /\ Window(s, n) \in Seq(Byte) /\ Len(Window(s, n)) = MaxInsertLen
           /\ \A t \in 1..MaxInsertLen : Window(s, n)[t] = s[n + t]
           /\ n + MaxInsertLen <= Len(s)
<1>1. /\ MaxInsertLen \in Nat /\ Len(s) \in Nat /\ n + MaxInsertLen <= Len(s)
      /\ n + MaxInsertLen \in Nat /\ (n + MaxInsertLen) - (n + 1) + 1 = MaxInsertLen
  BY Limits
<1>2. \A x, l \in Nat : x + l <= Len(s) =>
          /\ SubSeq(s, x + 1, x + l) \in Seq(Byte) /\ Len(SubSeq(s, x + 1, x + l)) = l
          /\ \A t \in 1..l : SubSeq(s, x + 1, x + l)[t] = s[x + t]
  <2>. SUFFICES ASSUME NEW x \in Nat, NEW l \in Nat, x + l <= Len(s)
                PROVE  /\ SubSeq(s, x + 1, x + l) \in Seq(Byte)
                       /\ Len(SubSeq(s, x + 1, x + l)) = l
                       /\ \A t \in 1..l : SubSeq(s, x + 1, x + l)[t] = s[x + t]
    OBVIOUS
  <2>. QED  BY SMTT(30)
<1>. QED  BY <1>1, <1>2 DEF Window

(* What agrees in the windows is a match of the strings.                   *)
LEMMA WindowsLie ==
    ASSUME Strung, Looping, NEW m \in Matches,
           Agree(Window(result, pos), Window(base, baseOff), m)
    PROVE  /\ Lies(m) /\ m.i + m.n <= MaxInsertLen /\ m.j + m.n <= MaxInsertLen
<1>1. /\ Len(Window(result, pos)) = MaxInsertLen /\ Len(Window(base, baseOff)) = MaxInsertLen
      /\ \A t \in 1..MaxInsertLen : Window(result, pos)[t] = result[pos + t]
      /\ \A t \in 1..MaxInsertLen : Window(base, baseOff)[t] = base[baseOff + t]
      /\ pos + MaxInsertLen <= Len(result) /\ baseOff + MaxInsertLen <= Len(base)
  BY WindowIs DEF Strung, Looping
<1>2. /\ m.i \in Nat /\ m.j \in Nat /\ m.n \in Nat /\ MaxInsertLen \in Nat
      /\ pos \in Nat /\ baseOff \in Nat /\ Len(result) \in Nat /\ Len(base) \in Nat
  BY Limits DEF Matches, Strung
<1>3. /\ m.i + m.n <= MaxInsertLen /\ m.j + m.n <= MaxInsertLen
      /\ \A t \in 1..m.n : Window(result, pos)[m.i + t] = Window(base, baseOff)[m.j + t]
  BY <1>1 DEF Agree
<1>4. \A t \in 1..m.n : m.i + t \in 1..MaxInsertLen /\ m.j + t \in 1..MaxInsertLen
  <2>1. \A x, y, z \in Nat : x + y <= z => \A t \in 1..y : x + t \in 1..z  OBVIOUS
  <2>. QED  BY <1>2, <1>3, <2>1
<1>5. \A x, y, t \in Int : x + (y + t) = x + y + t  OBVIOUS
<1>6. \A t \in 1..m.n : result[pos + m.i + t] = base[baseOff + m.j + t]
  <2>. SUFFICES ASSUME NEW t \in 1..m.n
                PROVE  result[pos + m.i + t] = base[baseOff + m.j + t]
    OBVIOUS
  <2>1. result[pos + (m.i + t)] = base[baseOff + (m.j + t)]  BY <1>1, <1>3, <1>4
  <2>2. pos + (m.i + t) = pos + m.i + t /\ baseOff + (m.j + t) = baseOff + m.j + t
    BY <1>2, <1>5
  <2>. QED  BY <2>1, <2>2
<1>8. pos + m.i + m.n <= Len(result) /\ baseOff + m.j + m.n <= Len(base)
  <2>. DEFINE i == m.i
              j == m.j
              n == m.n
              c == Len(result)
              d == Len(base)
  <2>1. /\ i \in Nat /\ j \in Nat /\ n \in Nat /\ c \in Nat /\ d \in Nat
        /\ pos \in Nat /\ baseOff \in Nat /\ MaxInsertLen \in Nat
        /\ i + n <= MaxInsertLen /\ j + n <= MaxInsertLen
        /\ pos + MaxInsertLen <= c /\ baseOff + MaxInsertLen <= d
    BY ONLY <1>1, <1>2, <1>3
  <2>. HIDE DEF i, j, n, c, d
  <2>2. pos + i + n <= c /\ baseOff + j + n <= d  BY ONLY <2>1
  <2>. QED  BY ONLY <2>2 DEF i, j, n, c, d
<1>. QED  BY <1>3, <1>6, <1>8 DEF Lies

(* The match lies in what is left, and its start in the windows.           *)
LEMMA MatchIs ==
    ASSUME Strung, Looping
    PROVE  /\ Match \in Matches /\ Lies(Match)
           /\ Match.i <= MaxInsertLen /\ Match.j <= MaxInsertLen /\ Match.n <= MaxCopyLen
           /\ \A o \in Matches :
                  Agree(Window(result, pos), Window(base, baseOff), o) => o.n <= Match.n
<1>. DEFINE a == Window(result, pos)
            b == Window(base, baseOff)
            m == LongestCommonSubstring(a, b)
<1>1. a \in Seq(Byte) /\ b \in Seq(Byte)  BY WindowIs DEF Strung, Looping
<1>2. /\ m \in Matches
      /\ m.n = 0 => m.i = 1 /\ m.j = 1
      /\ m.n # 0 => Agree(a, b, m)
      /\ \A o \in Matches : Agree(a, b, o) => o.n <= m.n
  BY <1>1, LongestIsLongest
<1>3. Match = Extended[m]  BY DEF Match
<1>. HIDE DEF m
<1>4. /\ m.i \in Nat /\ m.j \in Nat /\ m.n \in Nat
      /\ Lies(m) /\ m.i + m.n <= MaxInsertLen /\ m.j + m.n <= MaxInsertLen
  <2>1. CASE m.n # 0  BY <1>2, <2>1, WindowsLie DEF Matches
  <2>2. CASE m.n = 0
    <3>1. /\ pos + MaxInsertLen <= Len(result) /\ baseOff + MaxInsertLen <= Len(base)
          /\ Len(result) \in Nat /\ Len(base) \in Nat
      BY WindowIs DEF Strung, Looping
    <3>2. pos + 1 + 0 <= Len(result) /\ baseOff + 1 + 0 <= Len(base) /\ 1 + 0 <= MaxInsertLen
      BY <3>1, Limits DEF Strung
    <3>. QED  BY <1>2, <2>2, <3>2 DEF Lies
  <2>. QED  BY <2>1, <2>2
<1>5. m.n <= MaxCopyLen /\ m.i <= MaxInsertLen /\ m.j <= MaxInsertLen
  <2>1. \A x, n, y \in Nat : x + n <= y => x <= y /\ n <= y  OBVIOUS
  <2>2. \A x, y, z \in Nat : x <= y /\ y <= z => x <= z  OBVIOUS
  <2>. QED  BY <1>4, <2>1, <2>2, Limits
<1>6. /\ Match \in Matches /\ Match.i = m.i /\ Match.j = m.j
      /\ m.n <= Match.n /\ Match.n <= MaxCopyLen /\ Lies(Match)
  BY <1>2, <1>3, <1>4, <1>5, ExtendedLies DEF Strung
<1>7. \A o \in Matches : Agree(a, b, o) => o.n <= Match.n
  <2>1. Match.n \in Nat /\ \A o \in Matches : o.n \in Nat  BY <1>6 DEF Matches
  <2>2. \A x, y, z \in Nat : x <= y /\ y <= z => x <= z  OBVIOUS
  <2>. QED  BY <1>2, <1>4, <1>6, <2>1, <2>2
<1>. QED  BY <1>5, <1>6, <1>7

-----------------------------------------------------------------------------
(* Sums of what a set's elements count for, taken one after the other.     *)

Any(s) == CHOOSE x \in s : TRUE

SumStep(g, s, f) == IF s = {} THEN 0 ELSE g[Any(s)] + f[s \ {Any(s)}]

Sums(D, g, f) ==
    /\ IsFiniteSet(D)
    /\ g \in [D -> Nat]
    /\ f = [s \in SUBSET D |-> SumStep(g, s, f)]

LEMMA OneLess ==
    ASSUME NEW D, IsFiniteSet(D), NEW s \in SUBSET D
    PROVE  /\ Cardinality(s) \in Nat
           /\ Cardinality(s) = 0 <=> s = {}
           /\ s # {} => Any(s) \in s
           /\ \A x \in s : s \ {x} \in SUBSET D /\ Cardinality(s \ {x}) = Cardinality(s) - 1
<1>1. IsFiniteSet(s)  BY FS_Subset
<1>2. \A x \in s : Cardinality(s \ {x}) = Cardinality(s) - 1  BY <1>1, FS_RemoveElement
<1>. QED  BY <1>1, <1>2, FS_CardinalityType, FS_EmptySet DEF Any

LEMMA SumsExist ==
    ASSUME NEW D, IsFiniteSet(D), NEW g \in [D -> Nat]
    PROVE  \E f : Sums(D, g, f)
<1>. DEFINE Upto(n, f) == \A s \in SUBSET D : Cardinality(s) <= n => f[s] = SumStep(g, s, f)
            Known(n) == \E f \in [SUBSET D -> Nat] : Upto(n, f)
            U == {n \in Nat : ~ Known(n)}
<1>1. \A s \in SUBSET D :
          /\ Cardinality(s) \in Nat
          /\ Cardinality(s) = 0 <=> s = {}
          /\ s # {} => Any(s) \in s /\ s \ {Any(s)} \in SUBSET D
                       /\ Cardinality(s \ {Any(s)}) = Cardinality(s) - 1
  BY OneLess
<1>2. \A f \in [SUBSET D -> Nat], s \in SUBSET D : SumStep(g, s, f) \in Nat
  <2>. SUFFICES ASSUME NEW f \in [SUBSET D -> Nat], NEW s \in SUBSET D, s # {}
                PROVE  g[Any(s)] + f[s \ {Any(s)}] \in Nat
    BY DEF SumStep
  <2>1. g[Any(s)] \in Nat /\ f[s \ {Any(s)}] \in Nat  BY <1>1
  <2>. QED  BY <2>1
<1>3. U = {}
  <2>. SUFFICES ASSUME U # {} PROVE FALSE
    OBVIOUS
  <2>1. PICK n \in U : \A k \in U : n <= k
    <3>1. U \in SUBSET Nat  OBVIOUS
    <3>. HIDE DEF U
    <3>. QED  BY <3>1, Least
  <2>2. n \in Nat /\ ~ Known(n) /\ (n # 0 => Known(n - 1))
    <3>1. n # 0 => n - 1 \in Nat /\ n - 1 \notin U
      <4>1. n \in Nat  OBVIOUS
      <4>. HIDE DEF U
      <4>. QED  BY <2>1, <4>1
    <3>. HIDE DEF Known
    <3>. QED  BY <3>1
  <2>3. CASE n = 0
    <3>. DEFINE f == [s \in SUBSET D |-> 0]
    <3>1. f \in [SUBSET D -> Nat]  OBVIOUS
    <3>2. Upto(0, f)
      <4>1. \A s \in SUBSET D : Cardinality(s) <= 0 => s = {}
        <5>1. \A x \in Nat : x <= 0 => x = 0  OBVIOUS
        <5>. QED  BY <1>1, <5>1
      <4>. QED  BY <4>1 DEF SumStep
    <3>. HIDE DEF f, Upto
    <3>. QED  BY <2>2, <2>3, <3>1, <3>2
  <2>4. CASE n # 0
    <3>1. PICK f \in [SUBSET D -> Nat] : Upto(n - 1, f)
      <4>. HIDE DEF Upto
      <4>. QED  BY <2>2, <2>4
    <3>. DEFINE h == [s \in SUBSET D |-> IF Cardinality(s) = n THEN SumStep(g, s, f) ELSE f[s]]
    <3>2. h \in [SUBSET D -> Nat]
      <4>1. \A s \in SUBSET D : SumStep(g, s, f) \in Nat  BY <1>2
      <4>. QED  BY <4>1
    <3>3. \A s \in SUBSET D : h[s] = IF Cardinality(s) = n THEN SumStep(g, s, f) ELSE f[s]
      OBVIOUS
    <3>. HIDE DEF h
    <3>4. ASSUME NEW s \in SUBSET D, Cardinality(s) <= n
          PROVE  h[s] = SumStep(g, s, h)
      <4>1. SumStep(g, s, h) = SumStep(g, s, f)
        <5>1. CASE s = {}  BY <5>1 DEF SumStep
        <5>2. CASE s # {}
          <6>1. /\ s \ {Any(s)} \in SUBSET D
                /\ Cardinality(s \ {Any(s)}) = Cardinality(s) - 1 /\ Cardinality(s) \in Nat
            BY <1>1, <5>2
          <6>2. Cardinality(s \ {Any(s)}) # n  BY <2>2, <3>4, <6>1
          <6>. QED  BY <3>3, <6>1, <6>2 DEF SumStep
        <5>. QED  BY <5>1, <5>2
      <4>2. Cardinality(s) # n => f[s] = SumStep(g, s, f)
        <5>1. Cardinality(s) # n => Cardinality(s) <= n - 1
          <6>1. \A x, y \in Nat : x <= y /\ x # y => x <= y - 1  OBVIOUS
          <6>. QED  BY <1>1, <2>2, <3>4, <6>1
        <5>. QED  BY <3>1, <5>1
      <4>. QED  BY <3>3, <4>1, <4>2
    <3>5. Upto(n, h)  BY <3>4
    <3>. HIDE DEF Upto
    <3>. QED  BY <2>2, <3>2, <3>5
  <2>. QED  BY <2>3, <2>4
<1>4. PICK f \in [SUBSET D -> Nat] : Upto(Cardinality(D), f)
  <2>1. Cardinality(D) \in Nat /\ Cardinality(D) \notin U  BY <1>3, FS_CardinalityType
  <2>. HIDE DEF Upto
  <2>. QED  BY <2>1
<1>5. \A s \in SUBSET D : f[s] = SumStep(g, s, f)
  <2>1. \A s \in SUBSET D : Cardinality(s) <= Cardinality(D)  BY FS_Subset
  <2>. QED  BY <1>4, <2>1
<1>. QED  BY <1>5 DEF Sums

(* Whichever of them is taken first.                                       *)
AddsUp(D, g, f) ==
    /\ f[{}] = 0
    /\ \A s \in SUBSET D : /\ f[s] \in Nat
                           /\ \A x \in s : f[s] = g[x] + f[s \ {x}]

LEMMA SumsTakeAny ==
    ASSUME NEW D, NEW g, NEW f, Sums(D, g, f)
    PROVE  AddsUp(D, g, f)
<1>0. IsFiniteSet(D) /\ g \in [D -> Nat]  BY DEF Sums
<1>. DEFINE Right(t) == f[t] \in Nat /\ \A x \in t : f[t] = g[x] + f[t \ {x}]
            U == {t \in SUBSET D : ~ Right(t)}
            sizes == {Cardinality(t) : t \in U}
<1>1. \A t \in SUBSET D :
          /\ Cardinality(t) \in Nat
          /\ Cardinality(t) = 0 <=> t = {}
          /\ t # {} => Any(t) \in t
          /\ \A x \in t : t \ {x} \in SUBSET D /\ Cardinality(t \ {x}) = Cardinality(t) - 1
  BY <1>0, OneLess
<1>2. \A t \in SUBSET D : f[t] = SumStep(g, t, f)  BY DEF Sums
<1>3. f[{}] = 0  BY <1>2 DEF SumStep
<1>4. U = {}
  <2>. SUFFICES ASSUME U # {} PROVE FALSE
    OBVIOUS
  <2>1. sizes \in SUBSET Nat /\ sizes # {}
    <3>1. \E t : t \in U  OBVIOUS
    <3>2. \A t \in U : Cardinality(t) \in Nat  BY <1>1
    <3>. HIDE DEF U
    <3>. QED  BY <3>1, <3>2
  <2>2. PICK n \in sizes : \A k \in sizes : n <= k
    <3>. HIDE DEF sizes
    <3>. QED  BY <2>1, Least
  <2>3. PICK t \in U : n = Cardinality(t)
    <3>. HIDE DEF U
    <3>. QED  OBVIOUS
  <2>4. \A r \in SUBSET D : Cardinality(r) < Cardinality(t) => Right(r)
    <3>. HIDE DEF Right
    <3>1. \A r \in SUBSET D : ~ Right(r) => Cardinality(r) \in sizes  OBVIOUS
    <3>2. t \in SUBSET D  OBVIOUS
    <3>. HIDE DEF U, sizes
    <3>. QED  BY <1>1, <2>2, <2>3, <3>1, <3>2
  <2>5. t \in SUBSET D /\ ~ Right(t)
    <3>. HIDE DEF Right
    <3>. QED  OBVIOUS
  <2>6. CASE t = {}  BY <1>3, <2>5, <2>6
  <2>7. CASE t # {}
    <3>. DEFINE e == Any(t)
    <3>1. e \in t /\ t \ {e} \in SUBSET D /\ Cardinality(t \ {e}) < Cardinality(t)
      BY <1>1, <2>5, <2>7
    <3>2. f[t] = g[e] + f[t \ {e}]  BY <1>2, <2>5, <2>7 DEF SumStep
    <3>. HIDE DEF e
    <3>3. Right(t \ {e})  BY <2>4, <3>1
    <3>4. f[t \ {e}] \in Nat /\ g[e] \in Nat /\ f[t] \in Nat
      <4>1. g[e] \in Nat  BY <1>0, <2>5, <3>1
      <4>2. f[t \ {e}] \in Nat  BY <3>3
      <4>. HIDE DEF Right, U
      <4>. QED  BY <3>2, <4>1, <4>2
    <3>5. ASSUME NEW x \in t
          PROVE  f[t] = g[x] + f[t \ {x}]
      <4>1. CASE x = e  BY <3>2, <4>1
      <4>2. CASE x # e
        <5>. DEFINE both == (t \ {e}) \ {x}
        <5>1. x \in t \ {e} /\ e \in t \ {x} /\ both = (t \ {x}) \ {e}  BY <3>1, <4>2
        <5>2. t \ {x} \in SUBSET D /\ Cardinality(t \ {x}) < Cardinality(t)  BY <1>1, <2>5
        <5>3. Right(t \ {x})  BY <2>4, <5>2
        <5>4. f[t \ {e}] = g[x] + f[both]  BY <3>3, <5>1
        <5>5. f[t \ {x}] = g[e] + f[both]  BY <5>1, <5>3
        <5>6. f[both] \in Nat
          <6>1. both \in SUBSET D  BY <2>5
          <6>2. Cardinality(both) < Cardinality(t)
            <7>1. /\ Cardinality(both) = Cardinality(t \ {e}) - 1 /\ Cardinality(t \ {e}) \in Nat
                  /\ Cardinality(t) \in Nat
              BY <1>1, <2>5, <3>1, <5>1
            <7>. QED  BY <3>1, <7>1
          <6>. HIDE DEF both
          <6>. QED  BY <2>4, <6>1, <6>2
        <5>7. g[x] \in Nat /\ g[e] \in Nat  BY <1>0, <2>5, <3>1
        <5>. HIDE DEF both
        <5>. QED  BY <3>2, <5>4, <5>5, <5>6, <5>7
      <4>. QED  BY <4>1, <4>2
    <3>. QED  BY <2>5, <3>4, <3>5
  <2>. QED  BY <2>6, <2>7
<1>. QED  BY <1>3, <1>4 DEF AddsUp

(* The sum of a set of numbers from lo to hi, when ends gives that of      *)
(* those below each.                                                       *)
LEMMA SumsAdd ==
    ASSUME NEW lo \in Nat, NEW hi \in Nat, lo <= hi + 1,
           NEW D \in SUBSET (lo..hi), NEW g, NEW f, Sums(D, g, f),
           NEW ends, ends[lo] = 0,
           \A k \in lo..hi : /\ k \in D => ends[k + 1] = ends[k] + g[k]
                             /\ k \notin D => ends[k + 1] = ends[k]
    PROVE  f[D] = ends[hi + 1]
<1>. DEFINE Below(k) == {x \in D : x < k}
            Right(k) == f[Below(k)] = ends[k]
            U == {k \in lo..(hi + 1) : ~ Right(k)}
<1>0. \A x \in D : x \in Nat /\ lo <= x /\ x <= hi
  <2>1. \A x \in lo..hi : x \in Nat /\ lo <= x /\ x <= hi  OBVIOUS
  <2>2. \A x \in D : x \in lo..hi  OBVIOUS
  <2>. QED  BY <2>1, <2>2
<1>1. g \in [D -> Nat]  BY DEF Sums
<1>2. /\ f[{}] = 0
      /\ \A s \in SUBSET D : /\ f[s] \in Nat
                             /\ \A x \in s : f[s] = g[x] + f[s \ {x}]
  <2>1. AddsUp(D, g, f)  BY SumsTakeAny
  <2>. QED  BY ONLY <2>1 DEF AddsUp
<1>3. Right(lo)
  <2>1. Below(lo) = {}
    <3>1. \A x \in D : ~ (x < lo)  BY <1>0
    <3>. QED  BY <3>1
  <2>. HIDE DEF Below
  <2>. QED  BY <1>2, <2>1
<1>4. ASSUME NEW k \in lo..hi, Right(k)
      PROVE  Right(k + 1)
  <2>1. k \in Nat /\ \A x \in D : x \in Nat  BY <1>0
  <2>2. CASE k \in D
    <3>1. Below(k + 1) \in SUBSET D /\ k \in Below(k + 1)  BY <2>1, <2>2
    <3>2. Below(k + 1) \ {k} = Below(k)
      <4>1. \A x \in D : x < k + 1 /\ x # k <=> x < k  BY <2>1
      <4>. QED  BY <4>1
    <3>3. f[Below(k)] \in Nat /\ g[k] \in Nat  BY <1>1, <1>2, <2>2
    <3>4. f[Below(k + 1)] = g[k] + f[Below(k)]
      <4>. HIDE DEF Below
      <4>. QED  BY <1>2, <3>1, <3>2
    <3>5. ends[k + 1] = ends[k] + g[k]  BY <2>2
    <3>. HIDE DEF Below
    <3>. QED  BY <1>4, <3>3, <3>4, <3>5
  <2>3. CASE k \notin D
    <3>1. Below(k + 1) = Below(k)
      <4>1. \A x \in D : x < k + 1 <=> x < k  BY <2>1, <2>3
      <4>. QED  BY <4>1
    <3>2. ends[k + 1] = ends[k]  BY <2>3
    <3>. HIDE DEF Below
    <3>. QED  BY <1>4, <3>1, <3>2
  <2>. QED  BY <2>2, <2>3
<1>. HIDE DEF Right
<1>5. U = {}
  <2>. SUFFICES ASSUME U # {} PROVE FALSE
    OBVIOUS
  <2>1. PICK k \in U : \A m \in U : k <= m
    <3>1. U \in SUBSET Nat  OBVIOUS
    <3>. HIDE DEF U
    <3>. QED  BY <3>1, Least
  <2>2. k \in lo..(hi + 1) /\ ~ Right(k)  OBVIOUS
  <2>3. k - 1 \in lo..hi /\ (k - 1) + 1 = k /\ k - 1 < k  BY <1>3, <2>2
  <2>4. ~ Right(k - 1)  BY <1>4, <2>2, <2>3
  <2>5. k - 1 \in U  BY <2>3, <2>4
  <2>6. k <= k - 1  BY <2>1, <2>5
  <2>. QED  BY <2>2, <2>6
<1>6. Right(hi + 1) /\ Below(hi + 1) = D
  <2>1. hi + 1 \in lo..(hi + 1)  OBVIOUS
  <2>2. Right(hi + 1)  BY <1>5, <2>1
  <2>3. \A x \in D : x < hi + 1  BY <1>0
  <2>. QED  BY <2>2, <2>3
<1>. QED  BY <1>6 DEF Right

(* The sums of the instructions' lengths, and of what the bytes of a copy  *)
(* count for, are of this kind.                                            *)
Lengthwise(d) == [k \in DOMAIN d |-> Length(d[k])]

LEMMA LengthsSum ==
    ASSUME NEW d, IsFiniteSet(DOMAIN d), \A k \in DOMAIN d : Length(d[k]) \in Nat
    PROVE  \E f : /\ Sums(DOMAIN d, Lengthwise(d), f)
                  /\ MapThenSumSet(LAMBDA k : Length(d[k]), DOMAIN d) = f[DOMAIN d]
<1>. DEFINE D == DOMAIN d
            g == Lengthwise(d)
            Next1(s, f) == IF s = {} THEN 0
                           ELSE Length(d[CHOOSE x \in s : TRUE]) + f[s \ {CHOOSE x \in s : TRUE}]
            iter == CHOOSE f : f = [s \in SUBSET D |-> Next1(s, f)]
<1>1. MapThenSumSet(LAMBDA k : Length(d[k]), DOMAIN d) = iter[D]
  BY DEF MapThenSumSet, MapThenFoldSet
<1>2. g \in [D -> Nat] /\ \A k \in D : g[k] = Length(d[k])  BY DEF Lengthwise
<1>. HIDE DEF g, D
<1>3. ASSUME NEW f
      PROVE  [s \in SUBSET D |-> Next1(s, f)] = [s \in SUBSET D |-> SumStep(g, s, f)]
  <2>1. ASSUME NEW s \in SUBSET D
        PROVE  Next1(s, f) = SumStep(g, s, f)
    <3>1. CASE s = {}  BY <3>1 DEF SumStep
    <3>2. CASE s # {}
      <4>1. Any(s) \in D  BY <3>2 DEF Any
      <4>2. g[Any(s)] = Length(d[Any(s)])  BY <1>2, <4>1
      <4>. QED  BY <3>2, <4>2 DEF SumStep, Any
    <3>. QED  BY <3>1, <3>2
  <2>. HIDE DEF Next1
  <2>. QED  BY <2>1
<1>4. PICK h : Sums(D, g, h)  BY <1>2, SumsExist DEF D
<1>5. iter = [s \in SUBSET D |-> Next1(s, iter)]
  <2>1. h = [s \in SUBSET D |-> Next1(s, h)]
    <3>1. h = [s \in SUBSET D |-> SumStep(g, s, h)]  BY <1>4 DEF Sums
    <3>. HIDE DEF Next1
    <3>. QED  BY <1>3, <3>1
  <2>. HIDE DEF Next1
  <2>. QED  BY <2>1
<1>. HIDE DEF iter
<1>6. Sums(D, g, iter)
  <2>1. iter = [s \in SUBSET D |-> SumStep(g, s, iter)]
    <3>. HIDE DEF Next1
    <3>. QED  BY <1>3, <1>5
  <2>. QED  BY <1>2, <2>1 DEF Sums, D
<1>. QED  BY <1>1, <1>6 DEF D, g

Place(instr, b) == Cardinality({c \in instr.mask : c <= b})

Counted(instr, low, b) == instr.bytes[Place(instr, b)] * Weight[b - low]

LEMMA MaskedSums ==
    ASSUME NEW instr, NEW low, NEW high, IsFiniteSet(instr.mask \cap low..high),
           \A b \in instr.mask \cap low..high : Counted(instr, low, b) \in Nat
    PROVE  \E f : LET D == instr.mask \cap low..high
                  IN  /\ Sums(D, [b \in D |-> Counted(instr, low, b)], f)
                      /\ Masked(instr, low, high) = f[D]
<1>. DEFINE D == instr.mask \cap low..high
            g == [b \in D |-> Counted(instr, low, b)]
            Next1(s, f) == IF s = {} THEN 0
                           ELSE (LET b == CHOOSE x \in s : TRUE
                                 IN  instr.bytes[Cardinality({c \in instr.mask : c <= b})] * Weight[b - low])
                                + f[s \ {CHOOSE x \in s : TRUE}]
            iter == CHOOSE f : f = [s \in SUBSET D |-> Next1(s, f)]
<1>1. Masked(instr, low, high) = iter[D]
  BY DEF Masked, MapThenSumSet, MapThenFoldSet
<1>2. g \in [D -> Nat] /\ \A k \in D : g[k] = Counted(instr, low, k)  OBVIOUS
<1>. HIDE DEF g, D
<1>3. ASSUME NEW f
      PROVE  [s \in SUBSET D |-> Next1(s, f)] = [s \in SUBSET D |-> SumStep(g, s, f)]
  <2>1. ASSUME NEW s \in SUBSET D
        PROVE  Next1(s, f) = SumStep(g, s, f)
    <3>1. CASE s = {}  BY <3>1 DEF SumStep
    <3>2. CASE s # {}
      <4>1. Any(s) \in D  BY <3>2 DEF Any
      <4>2. g[Any(s)] = Counted(instr, low, Any(s))  BY <1>2, <4>1
      <4>. QED  BY <3>2, <4>2 DEF SumStep, Any, Counted, Place
    <3>. QED  BY <3>1, <3>2
  <2>. HIDE DEF Next1
  <2>. QED  BY <2>1
<1>4. PICK h : Sums(D, g, h)  BY <1>2, SumsExist DEF D
<1>5. iter = [s \in SUBSET D |-> Next1(s, iter)]
  <2>1. h = [s \in SUBSET D |-> Next1(s, h)]
    <3>1. h = [s \in SUBSET D |-> SumStep(g, s, h)]  BY <1>4 DEF Sums
    <3>. HIDE DEF Next1
    <3>. QED  BY <1>3, <3>1
  <2>. HIDE DEF Next1
  <2>. QED  BY <2>1
<1>. HIDE DEF iter
<1>6. Sums(D, g, iter)
  <2>1. iter = [s \in SUBSET D |-> SumStep(g, s, iter)]
    <3>. HIDE DEF Next1
    <3>. QED  BY <1>3, <1>5
  <2>. QED  BY <1>2, <2>1 DEF Sums, D
<1>. QED  BY <1>1, <1>6 DEF D, g

(* The number that the bits low..high of a mask stand for, when ends gives *)
(* that of the bits below each.                                            *)
CountedUp(instr, low, high, ends) ==
    /\ ends[low] = 0
    /\ \A b \in low..high :
          /\ b \in instr.mask => Counted(instr, low, b) \in Nat
          /\ ends[b + 1] = ends[b] + (IF b \in instr.mask THEN Counted(instr, low, b) ELSE 0)
          /\ ends[b] \in Nat

LEMMA MaskedIs ==
    ASSUME NEW instr, NEW low \in Nat, NEW high \in Nat, low <= high + 1,
           NEW ends, CountedUp(instr, low, high, ends)
    PROVE  Masked(instr, low, high) = ends[high + 1]
<1>. DEFINE D == instr.mask \cap low..high
            g == [b \in D |-> Counted(instr, low, b)]
<1>1. IsFiniteSet(D)
  <2>1. low \in Int /\ high \in Int  OBVIOUS
  <2>2. IsFiniteSet(low..high)  BY <2>1, FS_Interval
  <2>3. D \in SUBSET (low..high)  OBVIOUS
  <2>. HIDE DEF D
  <2>. QED  BY ONLY <2>2, <2>3, FS_Subset
<1>2. PICK f : Sums(D, g, f) /\ Masked(instr, low, high) = f[D]
  <2>1. \A b \in D : Counted(instr, low, b) \in Nat  BY DEF CountedUp
  <2>. QED  BY <1>1, <2>1, MaskedSums
<1>3. \A b \in D : g[b] = Counted(instr, low, b)  OBVIOUS
<1>4. \A b \in low..high : /\ b \in D => ends[b + 1] = ends[b] + g[b]
                           /\ b \notin D => ends[b + 1] = ends[b]
  BY DEF CountedUp
<1>5. D \in SUBSET (low..high)  OBVIOUS
<1>. HIDE DEF D, g
<1>6. f[D] = ends[high + 1]
  <2>1. ends[low] = 0  BY DEF CountedUp
  <2>. QED  BY <1>2, <1>4, <1>5, <2>1, SumsAdd
<1>. QED  BY <1>2, <1>6

-----------------------------------------------------------------------------
(* A copy is read as it is written.                                        *)

Rank(m, b) == Cardinality({c \in m : c <= b})

LEMMA Ranks ==
    ASSUME NEW m, IsFiniteSet(m), m \subseteq Nat
    PROVE  \A b \in m : Rank(m, b) \in 1..Cardinality(m) /\ Bit(m, Rank(m, b)) = b
<1>. DEFINE Below(b) == {c \in m : c < b}
            Upto(b) == {c \in m : c <= b}
<1>1. \A b \in m : IsFiniteSet(Below(b)) /\ IsFiniteSet(Upto(b))
                   /\ Cardinality(Below(b)) \in Nat /\ Cardinality(Upto(b)) \in Nat
                   /\ Cardinality(Upto(b)) <= Cardinality(m) /\ Cardinality(m) \in Nat
  <2>1. \A b \in m : Below(b) \in SUBSET m /\ Upto(b) \in SUBSET m  OBVIOUS
  <2>. HIDE DEF Below, Upto
  <2>. QED  BY <2>1, FS_Subset, FS_CardinalityType
<1>2. ASSUME NEW b \in m
      PROVE  Cardinality(Upto(b)) = Cardinality(Below(b)) + 1
  <2>1. Upto(b) = Below(b) \cup {b} /\ b \notin Below(b)
    <3>1. \A c \in m : c <= b <=> c < b \/ c = b  OBVIOUS
    <3>2. ~ (b < b)  OBVIOUS
    <3>. QED  BY <3>1, <3>2
  <2>. HIDE DEF Upto, Below
  <2>. QED  BY <1>1, <2>1, FS_AddElement
<1>3. ASSUME NEW a \in m, NEW b \in m, a < b
      PROVE  Cardinality(Below(a)) # Cardinality(Below(b))
  <2>1. Upto(a) \in SUBSET Below(b)
    <3>1. \A c \in m : c <= a => c < b  BY <1>3
    <3>. QED  BY <3>1
  <2>. HIDE DEF Upto, Below
  <2>2. Cardinality(Upto(a)) <= Cardinality(Below(b))  BY <1>1, <2>1, FS_Subset
  <2>. QED  BY <1>1, <1>2, <2>2
<1>4. \A a, b \in m : Cardinality(Below(a)) = Cardinality(Below(b)) => a = b
  <2>1. \A a, b \in m : a < b \/ b < a \/ a = b  OBVIOUS
  <2>. HIDE DEF Below
  <2>. QED  BY <1>3, <2>1
<1>5. ASSUME NEW b \in m
      PROVE  Rank(m, b) \in 1..Cardinality(m) /\ Bit(m, Rank(m, b)) = b
  <2>1. Rank(m, b) = Cardinality(Upto(b))  BY DEF Rank
  <2>2. Rank(m, b) \in 1..Cardinality(m) /\ Rank(m, b) - 1 = Cardinality(Below(b))
    <3>. HIDE DEF Upto, Below
    <3>. QED  BY <1>1, <1>2, <2>1
  <2>3. Bit(m, Rank(m, b)) = CHOOSE c \in m : Cardinality(Below(c)) = Rank(m, b) - 1  BY DEF Bit
  <2>. HIDE DEF Below
  <2>. QED  BY <1>4, <2>2, <2>3
<1>. QED  BY <1>5

LEMMA MasksAre ==
    ASSUME NEW x \in Nat, NEW width \in 0..4
    PROVE  /\ IsFiniteSet(MaskOf(x, width)) /\ MaskOf(x, width) \subseteq 0..(width - 1)
           /\ MaskOf(x, width) \subseteq Nat
           /\ \A k \in 0..3 : Digit(x, k) \in Byte /\ Digit(x, k) \in Nat
<1>1. MaskOf(x, width) \in SUBSET (0..(width - 1))  BY DEF MaskOf
<1>2. IsFiniteSet(0..(width - 1))
  <2>1. 0 \in Int /\ width - 1 \in Int  OBVIOUS
  <2>. QED  BY <2>1, FS_Interval
<1>3. IsFiniteSet(MaskOf(x, width))  BY <1>1, <1>2, FS_Subset
<1>4. \A k \in 0..3 : Digit(x, k) \in Byte /\ Digit(x, k) \in Nat
  <2>1. \A k \in 0..3 : Weight[k] \in Nat \ {0}  BY WeightUnfolds
  <2>2. Base \in Nat /\ Base > 1  BY Limits
  <2>3. \A y, w \in Nat : w # 0 => y \div w \in Nat  OBVIOUS
  <2>4. \A y \in Nat : y % Base \in 0..(Base - 1) /\ y % Base \in Nat  BY <2>2
  <2>. QED  BY <2>1, <2>3, <2>4 DEF Digit, Byte
<1>. QED  BY <1>1, <1>3, <1>4

LEMMA BytesAre ==
    ASSUME NEW x \in Nat, NEW width \in 0..4
    PROVE  /\ BytesOf(x, width) \in Seq(Byte)
           /\ Len(BytesOf(x, width)) = Cardinality(MaskOf(x, width))
           /\ Cardinality(MaskOf(x, width)) \in Nat
           /\ \A b \in MaskOf(x, width) :
                  /\ Rank(MaskOf(x, width), b) \in 1..Cardinality(MaskOf(x, width))
                  /\ BytesOf(x, width)[Rank(MaskOf(x, width), b)] = Digit(x, b)
<1>. DEFINE m == MaskOf(x, width)
            n == Cardinality(m)
<1>1. /\ IsFiniteSet(m) /\ m \subseteq Nat /\ n \in Nat
      /\ \A b \in m : Digit(x, b) \in Byte
  <2>1. \A k \in 0..3 : Digit(x, k) \in Byte  BY MasksAre
  <2>2. m \subseteq 0..(width - 1)  BY MasksAre
  <2>3. \A k \in 0..(width - 1) : k \in 0..3  OBVIOUS
  <2>4. \A k \in m : k \in 0..3
    <3>. HIDE DEF m
    <3>. QED  BY <2>2, <2>3
  <2>. QED  BY <2>1, <2>4, MasksAre, FS_CardinalityType
<1>2. BytesOf(x, width) = [k \in 1..n |-> Digit(x, Bit(m, k))]  BY DEF BytesOf
<1>. HIDE DEF m
<1>3. \A b \in m : Rank(m, b) \in 1..n /\ Bit(m, Rank(m, b)) = b  BY <1>1, Ranks
<1>4. ASSUME NEW k \in 1..n
      PROVE  Bit(m, k) \in m
  <2>. DEFINE below == [b \in m |-> Rank(m, b)]
  <2>1. below \in Injection(m, 1..n)
    <3>1. below \in [m -> 1..n]  BY <1>3
    <3>2. \A a, b \in m : below[a] = below[b] => a = b
      <4>1. \A b \in m : Bit(m, below[b]) = b  BY <1>3
      <4>. HIDE DEF below
      <4>. QED  BY <4>1
    <3>. HIDE DEF below
    <3>. QED  BY <3>1, <3>2 DEF Injection, IsInjective
  <2>2. IsFiniteSet(1..n) /\ Cardinality(1..n) = n
    <3>1. 1 \in Int /\ n \in Int /\ (IF 1 > n THEN 0 ELSE n - 1 + 1) = n  BY <1>1
    <3>. HIDE DEF n
    <3>. QED  BY <3>1, FS_Interval
  <2>3. below \in Surjection(m, 1..n)
    <3>. HIDE DEF below
    <3>. QED  BY <2>1, <2>2, FS_Injection
  <2>4. PICK b \in m : below[b] = k
    <3>. HIDE DEF below
    <3>. QED  BY <2>3 DEF Surjection
  <2>. QED  BY <1>3, <2>4
<1>5. BytesOf(x, width) \in Seq(Byte) /\ Len(BytesOf(x, width)) = n
  <2>1. \A k \in 1..n : Digit(x, Bit(m, k)) \in Byte  BY <1>1, <1>4
  <2>. HIDE DEF n
  <2>. QED  BY <1>1, <1>2, <2>1
<1>6. \A b \in m : BytesOf(x, width)[Rank(m, b)] = Digit(x, b)
  <2>. HIDE DEF n
  <2>. QED  BY <1>2, <1>3
<1>. QED  BY <1>1, <1>3, <1>5, <1>6 DEF m

(* Numbers that fit the widths of their masks.                             *)
LEMMA CopyPlaces ==
    ASSUME NEW off \in Nat, NEW n \in Nat
    PROVE  LET c == CopyOf(off, n)
           IN  /\ ~ Truncated(c)
               /\ \A b \in 0..3 :
                      /\ b \in c.mask <=> Digit(off, b) # 0
                      /\ b \in c.mask => c.bytes[Place(c, b)] = Digit(off, b)
               /\ \A b \in 4..6 :
                      /\ b \in c.mask <=> Digit(n, b - 4) # 0
                      /\ b \in c.mask => c.bytes[Place(c, b)] = Digit(n, b - 4)
<1>. DEFINE c == CopyOf(off, n)
            lows == MaskOf(off, 4)
            lens == MaskOf(n, 3)
            Above(m) == {k + 4 : k \in m}
            B == BytesOf(off, 4)
            C == BytesOf(n, 3)
<1>1. c.mask = lows \cup Above(lens) /\ c.bytes = B \o C /\ c.op = "copy"
  BY DEF CopyOf, Offsets, Lengths
<1>2. /\ 3 \in 0..4 /\ 4 \in 0..4
      /\ \A k \in 0..3 : k \in lows <=> Digit(off, k) # 0
      /\ \A k \in 0..2 : k \in lens <=> Digit(n, k) # 0
  BY DEF MaskOf
<1>3. /\ IsFiniteSet(lows) /\ lows \subseteq 0..3 /\ lows \subseteq Nat
      /\ IsFiniteSet(lens) /\ lens \subseteq 0..2 /\ lens \subseteq Nat
  <2>1. 4 - 1 = 3 /\ 3 - 1 = 2  OBVIOUS
  <2>. QED  BY <1>2, <2>1, MasksAre
<1>4. /\ B \in Seq(Byte) /\ Len(B) = Cardinality(lows) /\ Cardinality(lows) \in Nat
      /\ C \in Seq(Byte) /\ Len(C) = Cardinality(lens) /\ Cardinality(lens) \in Nat
      /\ \A b \in lows : Rank(lows, b) \in 1..Cardinality(lows) /\ B[Rank(lows, b)] = Digit(off, b)
      /\ \A b \in lens : Rank(lens, b) \in 1..Cardinality(lens) /\ C[Rank(lens, b)] = Digit(n, b)
  BY <1>2, BytesAre
<1>. HIDE DEF c, lows, lens, B, C
<1>5. ASSUME NEW m \in SUBSET lens
      PROVE  /\ IsFiniteSet(m) /\ Cardinality(m) \in Nat
             /\ IsFiniteSet(Above(m)) /\ Cardinality(Above(m)) = Cardinality(m)
             /\ IsFiniteSet(lows \cup Above(m))
             /\ Cardinality(lows \cup Above(m)) = Cardinality(lows) + Cardinality(m)
  <2>1. IsFiniteSet(m)  BY <1>3, FS_Subset
  <2>2. ExistsBijection(m, Above(m))
    <3>. DEFINE up == [k \in m |-> k + 4]
    <3>1. up \in [m -> Above(m)] /\ \A k \in m : up[k] = k + 4  OBVIOUS
    <3>2. \A k \in m : k \in Nat  BY <1>3
    <3>3. \A a, b \in m : up[a] = up[b] => a = b  BY <3>2
    <3>4. \A t \in Above(m) : \E k \in m : up[k] = t  OBVIOUS
    <3>. HIDE DEF up, Above
    <3>5. up \in Bijection(m, Above(m))
      BY <3>1, <3>3, <3>4 DEF Bijection, Injection, Surjection, IsInjective
    <3>. QED  BY <3>5 DEF ExistsBijection
  <2>. HIDE DEF Above
  <2>3. IsFiniteSet(Above(m)) /\ Cardinality(Above(m)) = Cardinality(m) /\ Cardinality(m) \in Nat
    BY <2>1, <2>2, FS_Bijection, FS_CardinalityType
  <2>4. lows \cap Above(m) = {}
    <3>1. \A b \in lows : b <= 3 /\ b \in Nat  BY <1>3
    <3>2. \A b \in Above(m) : b >= 4  BY <1>3 DEF Above
    <3>3. \A b \in Nat : b <= 3 => ~ (b >= 4)  OBVIOUS
    <3>. QED  BY <3>1, <3>2, <3>3
  <2>5. /\ IsFiniteSet(lows \cup Above(m))
        /\ Cardinality(lows \cup Above(m)) = Cardinality(lows) + Cardinality(Above(m)) - 0
    <3>1. /\ IsFiniteSet(lows \cup Above(m))
          /\ Cardinality(lows \cup Above(m)) =
                Cardinality(lows) + Cardinality(Above(m)) - Cardinality(lows \cap Above(m))
      BY <1>3, <2>3, FS_Union
    <3>2. Cardinality(lows \cap Above(m)) = 0  BY <2>4, FS_EmptySet
    <3>. QED  BY <3>1, <3>2
  <2>. QED  BY <1>4, <2>1, <2>3, <2>5
<1>6. ~ Truncated(c)
  <2>1. lens \in SUBSET lens  OBVIOUS
  <2>2. Cardinality(c.mask) = Cardinality(lows) + Cardinality(lens)
    <3>. HIDE DEF Above
    <3>. QED  BY <1>1, <1>5, <2>1
  <2>3. Len(c.bytes) = Len(B) + Len(C)
    <3>1. Len(B \o C) = Len(B) + Len(C)  BY <1>4
    <3>. QED  BY <1>1, <3>1
  <2>. QED  BY <1>4, <2>2, <2>3 DEF Truncated
<1>7. \A k \in Above(lens) : k \in Nat /\ k >= 4 /\ k - 4 \in lens
  <2>1. \A k \in lens : k \in Nat  BY <1>3
  <2>. QED  BY <2>1
<1>8. ASSUME NEW b \in 0..3
      PROVE  /\ b \in c.mask <=> Digit(off, b) # 0
             /\ b \in c.mask => c.bytes[Place(c, b)] = Digit(off, b)
  <2>1. b \notin Above(lens) /\ \A x \in Above(lens) : ~ (x <= b)
    <3>1. \A x \in Nat : x >= 4 => x # b /\ ~ (x <= b)  OBVIOUS
    <3>. HIDE DEF Above
    <3>. QED  BY <1>7, <3>1
  <2>2. b \in c.mask <=> b \in lows  BY <1>1, <2>1
  <2>3. Place(c, b) = Rank(lows, b)
    <3>1. {x \in c.mask : x <= b} = {x \in lows : x <= b}
      <4>. HIDE DEF Above
      <4>. QED  BY <1>1, <2>1
    <3>. QED  BY <3>1 DEF Place, Rank
  <2>4. b \in lows => c.bytes[Place(c, b)] = Digit(off, b)
    <3>. SUFFICES ASSUME b \in lows  PROVE c.bytes[Place(c, b)] = Digit(off, b)
      OBVIOUS
    <3>1. Place(c, b) \in 1..Len(B)  BY <1>4, <2>3
    <3>2. c.bytes[Place(c, b)] = B[Place(c, b)]
      <4>1. \A k \in 1..Len(B) : (B \o C)[k] = B[k]  BY <1>4
      <4>. QED  BY <1>1, <3>1, <4>1
    <3>. QED  BY <1>4, <2>3, <3>2
  <2>. QED  BY <1>2, <2>2, <2>4
<1>9. ASSUME NEW b \in 4..6
      PROVE  /\ b \in c.mask <=> Digit(n, b - 4) # 0
             /\ b \in c.mask => c.bytes[Place(c, b)] = Digit(n, b - 4)
  <2>. DEFINE k == b - 4
              m == {x \in lens : x <= k}
  <2>1. k \in 0..2 /\ b = k + 4 /\ b \in Nat  OBVIOUS
  <2>2. b \notin lows /\ \A x \in lows : x <= b
    <3>1. \A x \in 0..3 : x # b /\ x <= b  OBVIOUS
    <3>. QED  BY <1>3, <3>1
  <2>3. b \in Above(lens) <=> k \in lens
    <3>. HIDE DEF k
    <3>1. b \in Above(lens) => b - 4 \in lens  BY <1>7
    <3>. QED  BY <2>1, <3>1 DEF k
  <2>4. b \in c.mask <=> k \in lens  BY <1>1, <2>2, <2>3
  <2>5. Place(c, b) = Cardinality(lows) + Rank(lens, k)
    <3>1. {x \in c.mask : x <= b} = lows \cup Above(m)
      <4>1. {x \in Above(lens) : x <= b} = Above(m)
        <5>1. \A x \in lens : x \in Nat /\ (x + 4 <= b <=> x <= k)  BY <1>3, <2>1
        <5>. HIDE DEF k
        <5>. QED  BY <5>1
      <4>. HIDE DEF Above, m
      <4>. QED  BY <1>1, <2>2, <4>1
    <3>2. m \in SUBSET lens  OBVIOUS
    <3>3. Place(c, b) = Cardinality(lows \cup Above(m))  BY <3>1 DEF Place
    <3>4. Rank(lens, k) = Cardinality(m)  BY DEF Rank
    <3>. HIDE DEF m, Above, k
    <3>. QED  BY <1>5, <3>2, <3>3, <3>4
  <2>6. k \in lens => c.bytes[Place(c, b)] = Digit(n, k)
    <3>. SUFFICES ASSUME k \in lens  PROVE c.bytes[Place(c, b)] = Digit(n, k)
      OBVIOUS
    <3>. DEFINE r == Rank(lens, k)
    <3>1. r \in 1..Len(C) /\ C[r] = Digit(n, k)
      <4>. HIDE DEF k
      <4>. QED  BY <1>4
    <3>2. \A x \in 1..Len(C) : (B \o C)[Len(B) + x] = C[x]  BY <1>4
    <3>. HIDE DEF r
    <3>. QED  BY <1>1, <1>4, <2>5, <3>1, <3>2 DEF r
  <2>. QED  BY <1>2, <2>1, <2>4, <2>6
<1>. QED  BY <1>6, <1>8, <1>9 DEF c

LEMMA DigitsAdd ==
    ASSUME NEW x \in Nat, NEW k \in 0..3
    PROVE  /\ Digit(x, k) * Weight[k] \in Nat /\ x % Weight[k] \in Nat
           /\ x % Weight[k + 1] = (x % Weight[k]) + (Digit(x, k) * Weight[k])
<1>1. Weight[k] \in Nat \ {0} /\ Weight[k + 1] = Base * Weight[k]  BY WeightUnfolds
<1>2. Base \in Nat \ {0}  BY Limits
<1>3. \A p, c \in Nat \ {0} : (x % (p * c)) = (x % p) + (((x \div p) % c) * p)
  <2>. SUFFICES ASSUME NEW p \in Nat \ {0}, NEW c \in Nat \ {0}
                PROVE  (x % (p * c)) = (x % p) + (((x \div p) % c) * p)
    OBVIOUS
  <2>. DEFINE q == x \div p
              r == x % p
              d == q % c
              e == q \div c
  <2>1. q \in Nat /\ r \in 0..(p - 1) /\ x = (p * q) + r  OBVIOUS
  <2>. HIDE DEF q, r
  <2>2. e \in Nat /\ d \in 0..(c - 1) /\ q = (c * e) + d  BY <2>1
  <2>. HIDE DEF d, e
  <2>3. x = ((p * c) * e) + ((d * p) + r)  BY <2>1, <2>2
  <2>4. p * c \in Nat \ {0} /\ (d * p) + r \in 0..((p * c) - 1)
    <3>1. d * p <= (c - 1) * p  BY <2>2
    <3>2. (c - 1) * p = (p * c) - p  OBVIOUS
    <3>3. p * c \in Nat \ {0} /\ d * p \in Nat  BY <2>2
    <3>. QED  BY <2>1, <3>1, <3>2, <3>3
  <2>5. \A m \in Nat \ {0}, s \in Nat, t \in Nat : s < m => ((m * t) + s) % m = s
    <3>. SUFFICES ASSUME NEW m \in Nat \ {0}, NEW s \in Nat, NEW t \in Nat, s < m
                  PROVE  ((m * t) + s) % m = s
      OBVIOUS
    <3>. QED  OBVIOUS
  <2>6. x % (p * c) = (d * p) + r
    <3>. DEFINE m == p * c
                s == (d * p) + r
    <3>1. m \in Nat \ {0} /\ s \in Nat /\ s < m  BY <2>4
    <3>2. x = (m * e) + s  BY <2>3
    <3>. HIDE DEF m, s
    <3>3. x % m = s  BY <2>2, <2>5, <3>1, <3>2
    <3>. QED  BY <3>3 DEF m, s
  <2>7. (d * p) + r = r + (d * p)
    <3>1. d * p \in Int /\ r \in Int  BY <2>1, <2>2
    <3>. QED  BY <3>1
  <2>. QED  BY <2>6, <2>7 DEF d, q, r
<1>4. \A p, c \in Nat \ {0} : c * p = p * c /\ x % p \in Nat /\ ((x \div p) % c) * p \in Nat
  <2>. SUFFICES ASSUME NEW p \in Nat \ {0}, NEW c \in Nat \ {0}
                PROVE  c * p = p * c /\ x % p \in Nat /\ ((x \div p) % c) * p \in Nat
    OBVIOUS
  <2>1. x \div p \in Nat  OBVIOUS
  <2>2. \A y \in Nat : y % c \in Nat  OBVIOUS
  <2>3. \A y, z \in Nat : y * z \in Nat  OBVIOUS
  <2>. QED  BY <2>1, <2>2, <2>3
<1>. QED  BY <1>1, <1>2, <1>3, <1>4 DEF Digit

LEMMA CopyIsRead ==
    ASSUME NEW off \in Nat, off < Weight[4], NEW n \in Nat, n # 0, n < Weight[3]
    PROVE  /\ ~ Truncated(CopyOf(off, n))
           /\ CopyOff(CopyOf(off, n)) = off
           /\ CopyLen(CopyOf(off, n)) = n
<1>. DEFINE c == CopyOf(off, n)
            offs == [b \in 0..4 |-> off % Weight[b]]
            lens == [b \in 4..7 |-> n % Weight[b - 4]]
<1>1. /\ ~ Truncated(c)
      /\ \A b \in 0..3 :
             /\ b \in c.mask <=> Digit(off, b) # 0
             /\ b \in c.mask => c.bytes[Place(c, b)] = Digit(off, b)
      /\ \A b \in 4..6 :
             /\ b \in c.mask <=> Digit(n, b - 4) # 0
             /\ b \in c.mask => c.bytes[Place(c, b)] = Digit(n, b - 4)
  BY CopyPlaces
<1>. HIDE DEF c
<1>2. \A w \in 0..4 : Weight[w] \in Nat \ {0}  BY WeightUnfolds
<1>3. Masked(c, 0, 3) = off
  <2>1. ASSUME NEW b \in 0..3
        PROVE  /\ b \in c.mask => Counted(c, 0, b) \in Nat
               /\ offs[b + 1] = offs[b] + (IF b \in c.mask THEN Counted(c, 0, b) ELSE 0)
               /\ offs[b] \in Nat
    <3>1. /\ Digit(off, b) * Weight[b] \in Nat /\ off % Weight[b] \in Nat
          /\ off % Weight[b + 1] = (off % Weight[b]) + (Digit(off, b) * Weight[b])
      BY DigitsAdd
    <3>2. b \in c.mask => Counted(c, 0, b) = Digit(off, b) * Weight[b]
      <4>1. b - 0 = b  OBVIOUS
      <4>. QED  BY <1>1, <4>1 DEF Counted
    <3>3. b \notin c.mask => Digit(off, b) * Weight[b] = 0
      <4>1. Weight[b] \in Nat  BY <1>2
      <4>2. \A w \in Nat : 0 * w = 0  OBVIOUS
      <4>. QED  BY <1>1, <4>1, <4>2
    <3>4. offs[b] = off % Weight[b] /\ offs[b + 1] = off % Weight[b + 1]  OBVIOUS
    <3>. HIDE DEF offs
    <3>. QED  BY <3>1, <3>2, <3>3, <3>4
  <2>2. offs[0] = 0
    <3>1. offs[0] = off % Weight[0] /\ Weight[0] = 1  BY WeightUnfolds
    <3>. QED  BY <3>1
  <2>3. offs[3 + 1] = off
    <3>1. offs[4] = off % Weight[4]  OBVIOUS
    <3>2. \A w \in Nat \ {0} : off < w => off % w = off  OBVIOUS
    <3>. QED  BY <1>2, <3>1, <3>2
  <2>. HIDE DEF offs
  <2>4. CountedUp(c, 0, 3, offs)  BY <2>1, <2>2 DEF CountedUp
  <2>5. Masked(c, 0, 3) = offs[3 + 1]
    <3>1. 0 <= 3 + 1  OBVIOUS
    <3>. QED  BY <2>4, <3>1, MaskedIs
  <2>. QED  BY <2>3, <2>5
<1>4. Masked(c, 4, 6) = n
  <2>1. ASSUME NEW b \in 4..6
        PROVE  /\ b \in c.mask => Counted(c, 4, b) \in Nat
               /\ lens[b + 1] = lens[b] + (IF b \in c.mask THEN Counted(c, 4, b) ELSE 0)
               /\ lens[b] \in Nat
    <3>0. b - 4 \in 0..3 /\ (b - 4) + 1 = (b + 1) - 4 /\ b + 1 \in 4..7 /\ b \in 4..7  OBVIOUS
    <3>. DEFINE k == b - 4
    <3>1. /\ Digit(n, k) * Weight[k] \in Nat /\ n % Weight[k] \in Nat
          /\ n % Weight[k + 1] = (n % Weight[k]) + (Digit(n, k) * Weight[k])
      <4>. HIDE DEF k
      <4>. QED  BY <3>0, DigitsAdd DEF k
    <3>2. b \in c.mask => Counted(c, 4, b) = Digit(n, k) * Weight[k]  BY <1>1 DEF Counted
    <3>3. b \notin c.mask => Digit(n, k) * Weight[k] = 0
      <4>1. Weight[k] \in Nat  BY <1>2, <3>0
      <4>2. \A w \in Nat : 0 * w = 0  OBVIOUS
      <4>. QED  BY <1>1, <4>1, <4>2
    <3>4. lens[b] = n % Weight[k] /\ lens[b + 1] = n % Weight[k + 1]
      <4>1. lens[b + 1] = n % Weight[(b + 1) - 4]  BY <3>0
      <4>. QED  BY <3>0, <4>1
    <3>. HIDE DEF lens, k
    <3>. QED  BY <3>1, <3>2, <3>3, <3>4
  <2>2. lens[4] = 0
    <3>1. lens[4] = n % Weight[4 - 4] /\ Weight[0] = 1 /\ 4 - 4 = 0  BY WeightUnfolds
    <3>. QED  BY <3>1
  <2>3. lens[6 + 1] = n
    <3>1. lens[7] = n % Weight[7 - 4] /\ 7 - 4 = 3  OBVIOUS
    <3>2. \A w \in Nat \ {0} : n < w => n % w = n  OBVIOUS
    <3>. QED  BY <1>2, <3>1, <3>2
  <2>. HIDE DEF lens
  <2>4. CountedUp(c, 4, 6, lens)  BY <2>1, <2>2 DEF CountedUp
  <2>5. Masked(c, 4, 6) = lens[6 + 1]
    <3>1. 4 <= 6 + 1  OBVIOUS
    <3>. QED  BY <2>4, <3>1, MaskedIs
  <2>. QED  BY <2>3, <2>5
<1>5. CopyOff(c) = off /\ CopyLen(c) = n
  <2>1. Offsets = 4 /\ Lengths = 3 /\ Offsets - 1 = 3 /\ Offsets + Lengths - 1 = 6
    BY DEF Offsets, Lengths
  <2>. QED  BY <1>3, <1>4, <2>1 DEF CopyOff, CopyLen
<1>. QED  BY <1>1, <1>5 DEF c

-----------------------------------------------------------------------------
(* The instructions that are made.                                         *)

(* What an instruction of bo bytes of b stands for is in r after the byte  *)
(* from.                                                                   *)
Right(b, r, instr, from, bo) ==
    /\ Length(instr) \in Nat \ {0}
    /\ IF instr.op = "insert"
       THEN /\ instr.n \in 1..MaxInsertLen
            /\ Len(instr.bytes) = instr.n
            /\ instr.bytes = SubSeq(r, from + 1, from + instr.n)
       ELSE /\ instr.op = "copy"
            /\ ~ Truncated(instr)
            /\ CopyOff(instr) \in Nat
            /\ CopyOff(instr) <= MaxCopyOff
            /\ CopyLen(instr) \in (MinCopyLen + 1)..MaxCopyLen
            /\ CopyOff(instr) + CopyLen(instr) <= bo
            /\ SubSeq(b, CopyOff(instr) + 1, CopyOff(instr) + CopyLen(instr))
                  = SubSeq(r, from + 1, from + CopyLen(instr))

(* Each stands for what is in r from where it starts to where the next one *)
(* does, and all of them for p bytes.                                      *)
Laid(b, r, d, p, bo, starts) ==
    /\ d \in Seq(Instruction)
    /\ starts \in [1..(Len(d) + 1) -> Nat]
    /\ starts[1] = 0
    /\ starts[Len(d) + 1] = p
    /\ \A k \in 1..Len(d) :
          /\ starts[k + 1] = starts[k] + Length(d[k])
          /\ starts[k + 1] <= p
          /\ Right(b, r, d[k], starts[k], bo)

LEMMA RightLater ==
    ASSUME NEW b, NEW r, NEW instr \in Instruction, NEW from, NEW bo \in Nat, NEW bo2 \in Nat,
           bo <= bo2, Right(b, r, instr, from, bo)
    PROVE  Right(b, r, instr, from, bo2)
<1>1. CASE instr.op = "insert"  BY <1>1 DEF Right
<1>2. CASE instr.op # "insert"
  <2>1. /\ CopyOff(instr) \in Nat /\ CopyOff(instr) + CopyLen(instr) <= bo
        /\ CopyLen(instr) \in (MinCopyLen + 1)..MaxCopyLen /\ MinCopyLen \in Nat /\ MaxCopyLen \in Nat
    BY <1>2, Limits DEF Right
  <2>2. CopyOff(instr) + CopyLen(instr) <= bo2
    <3>1. CopyLen(instr) \in Nat  BY <2>1
    <3>. QED  BY <2>1, <3>1
  <2>. QED  BY <1>2, <2>2 DEF Right
<1>. QED  BY <1>1, <1>2

LEMMA LaidNext ==
    ASSUME NEW b, NEW r, NEW d, NEW p \in Nat, NEW bo \in Nat, NEW starts,
           Laid(b, r, d, p, bo, starts),
           NEW instr \in Instruction, NEW bo2 \in Nat, bo <= bo2, Right(b, r, instr, p, bo2)
    PROVE  \E s : Laid(b, r, Append(d, instr), p + Length(instr), bo2, s)
<1>. DEFINE n == Len(d)
            e == Append(d, instr)
            q == p + Length(instr)
            s == [k \in 1..(n + 2) |-> IF k = n + 2 THEN q ELSE starts[k]]
<1>1. d \in Seq(Instruction) /\ n \in Nat  BY DEF Laid
<1>2. /\ e \in Seq(Instruction) /\ Len(e) = n + 1 /\ e[n + 1] = instr
      /\ \A k \in 1..n : e[k] = d[k] /\ d[k] \in Instruction
  BY <1>1
<1>3. /\ starts \in [1..(n + 1) -> Nat] /\ starts[1] = 0 /\ starts[n + 1] = p
      /\ \A k \in 1..n : /\ starts[k + 1] = starts[k] + Length(d[k])
                         /\ starts[k + 1] <= p /\ Right(b, r, d[k], starts[k], bo)
  BY DEF Laid
<1>4. Length(instr) \in Nat /\ q \in Nat /\ p <= q
  <2>1. Length(instr) \in Nat  BY DEF Right
  <2>. QED  BY <2>1
<1>5. s \in [1..(n + 2) -> Nat]
  <2>1. \A k \in 1..(n + 2) : k # n + 2 => k \in 1..(n + 1)  BY <1>1
  <2>. HIDE DEF n, q
  <2>. QED  BY <1>3, <1>4, <2>1
<1>6. \A k \in 1..(n + 1) : s[k] = starts[k]
  <2>1. \A k \in 1..(n + 1) : k \in 1..(n + 2) /\ k # n + 2  BY <1>1
  <2>. HIDE DEF n, q
  <2>. QED  BY <2>1
<1>7. s[n + 2] = q /\ s[1] = 0
  <2>1. n + 2 \in 1..(n + 2) /\ 1 \in 1..(n + 1)  BY <1>1
  <2>. HIDE DEF n, q
  <2>. QED  BY <1>3, <1>6, <2>1
<1>. HIDE DEF n, e, q, s
<1>8. ASSUME NEW k \in 1..(n + 1)
      PROVE  /\ s[k + 1] = s[k] + Length(e[k])
             /\ s[k + 1] <= q
             /\ Right(b, r, e[k], s[k], bo2)
  <2>1. CASE k \in 1..n
    <3>1. k + 1 \in 1..(n + 1) /\ k \in 1..(n + 1)  BY <1>1, <2>1
    <3>2. s[k + 1] = starts[k + 1] /\ s[k] = starts[k]  BY <1>6, <3>1
    <3>3. starts[k + 1] <= p /\ starts[k + 1] \in Nat  BY <1>3, <2>1, <3>1
    <3>4. Right(b, r, e[k], s[k], bo2)  BY <1>2, <1>3, <2>1, <3>2, RightLater
    <3>. QED  BY <1>2, <1>3, <1>4, <2>1, <3>2, <3>3, <3>4
  <2>2. CASE k = n + 1
    <3>1. k + 1 = n + 2 /\ s[k] = p  BY <1>1, <1>3, <1>6, <2>2
    <3>. QED  BY <1>2, <1>4, <1>7, <2>2, <3>1 DEF q
  <2>3. k \in 1..n \/ k = n + 1  BY <1>1
  <2>. QED  BY <2>1, <2>2, <2>3
<1>9. Laid(b, r, e, q, bo2, s)
  <2>1. (n + 1) + 1 = n + 2  BY <1>1
  <2>. QED  BY <1>2, <1>5, <1>7, <1>8, <2>1 DEF Laid
<1>. QED  BY <1>9 DEF e, q

(* An insert is of what comes next.                                        *)
LEMMA InsertIsRight ==
    ASSUME NEW b, NEW r \in Seq(Byte), NEW p \in Nat, NEW bo, NEW i \in 1..MaxInsertLen,
           p + i <= Len(r)
    PROVE  LET instr == InsertOf(SubSeq(r, p + 1, p + i))
           IN  instr \in Instruction /\ Length(instr) = i /\ Right(b, r, instr, p, bo)
<1>. DEFINE s == SubSeq(r, p + 1, p + i)
            instr == InsertOf(s)
<1>1. i \in Nat \ {0} /\ MaxInsertLen \in Nat  BY Limits
<1>2. s \in Seq(Byte) /\ Len(s) = i  BY <1>1
<1>. HIDE DEF s
<1>3. instr.op = "insert" /\ instr.n = i /\ instr.bytes = s  BY <1>2 DEF InsertOf
<1>4. instr \in Instruction  BY <1>1, <1>2 DEF InsertOf, Instruction, Insert
<1>. HIDE DEF instr
<1>5. Length(instr) = i  BY <1>3 DEF Length
<1>6. Right(b, r, instr, p, bo)  BY <1>1, <1>2, <1>3, <1>5 DEF Right, s
<1>. QED  BY <1>4, <1>5, <1>6 DEF instr, s

LEMMA CopyIsRight ==
    ASSUME NEW b, NEW r, NEW p, NEW bo \in Nat, NEW off \in Nat, off <= MaxCopyOff,
           NEW n \in Nat, MinCopyLen < n, n <= MaxCopyLen, off + n <= bo,
           SubSeq(b, off + 1, off + n) = SubSeq(r, p + 1, p + n)
    PROVE  /\ CopyOf(off, n) \in Instruction /\ Length(CopyOf(off, n)) = n
           /\ Right(b, r, CopyOf(off, n), p, bo)
<1>. DEFINE c == CopyOf(off, n)
<1>1. ~ Truncated(c) /\ CopyOff(c) = off /\ CopyLen(c) = n
  <2>1. Weight[3] \in Nat /\ Weight[4] \in Nat  BY WeightUnfolds
  <2>2. off < Weight[4] /\ n < Weight[3] /\ n # 0  BY <2>1, Limits
  <2>. QED  BY <2>2, CopyIsRead
<1>2. c.op = "copy"  BY DEF CopyOf
<1>3. c \in Instruction
  <2>1. BytesOf(off, 4) \in Seq(Byte) /\ BytesOf(n, 3) \in Seq(Byte)
    <3>1. 3 \in 0..4 /\ 4 \in 0..4  OBVIOUS
    <3>. QED  BY <3>1, BytesAre
  <2>2. MaskOf(off, 4) \subseteq 0..(4 - 1) /\ MaskOf(n, 3) \subseteq 0..(3 - 1)
    BY DEF MaskOf
  <2>3. MaskOf(off, 4) \cup {k + 4 : k \in MaskOf(n, 3)} \in SUBSET (0..(4 + 3 - 1))
    <3>1. \A k \in 0..(4 - 1) : k \in 0..(4 + 3 - 1)  OBVIOUS
    <3>2. \A k \in 0..(3 - 1) : k + 4 \in 0..(4 + 3 - 1)  OBVIOUS
    <3>. QED  BY <2>2, <3>1, <3>2
  <2>4. BytesOf(off, 4) \o BytesOf(n, 3) \in Seq(Byte)  BY <2>1
  <2>. QED  BY <2>3, <2>4 DEF CopyOf, Instruction, Copy, Offsets, Lengths
<1>. HIDE DEF c
<1>4. Length(c) = n  BY <1>1, <1>2 DEF Length
<1>5. Right(b, r, c, p, bo)
  <2>1. n \in (MinCopyLen + 1)..MaxCopyLen /\ n \in Nat \ {0}  BY Limits
  <2>2. c.op # "insert"  BY <1>2
  <2>. QED  BY <1>1, <1>2, <1>4, <2>1, <2>2 DEF Right
<1>. QED  BY <1>3, <1>4, <1>5 DEF c

-----------------------------------------------------------------------------
(* The inductive invariant.  A delta received has no result to be compared *)
(* with.                                                                   *)

Given == pos = 0 /\ result = << >> /\ pc # "compute"

Made ==
    /\ Strung
    /\ baseLen = Len(base) /\ resultLen = Len(result)
    /\ pc # "compute" => pos = Len(result)
    /\ pc = "compute" => at = 0
    /\ err = "nil"
    /\ pc = "done" => out = result
    /\ at \in 0..Len(delta)
    /\ \E starts : /\ Laid(base, result, delta, pos, baseOff, starts)
                   /\ out = SubSeq(result, 1, starts[at + 1])

IInv == Made \/ Given

LEMMA InsertsLaid ==
    ASSUME Strung, NEW starts, Laid(base, result, delta, pos, baseOff, starts),
           NEW i \in Nat, i <= MaxInsertLen, pos + i <= Len(result)
    PROVE  \E s : Laid(base, result, delta \o InsertUpTo(i), pos + i, baseOff, s)
<1>0. delta \in Seq(Instruction) /\ pos \in Nat /\ baseOff \in Nat /\ result \in Seq(Byte)
  BY DEF Laid, Strung
<1>1. CASE i = 0
  <2>1. InsertUpTo(i) = << >>  BY <1>1 DEF InsertUpTo
  <2>2. delta \o << >> = delta /\ pos + i = pos  BY <1>0, <1>1
  <2>. QED  BY <2>1, <2>2
<1>2. CASE i # 0
  <2>. DEFINE instr == InsertOf(SubSeq(result, pos + 1, pos + i))
  <2>1. InsertUpTo(i) = <<instr>>  BY <1>2 DEF InsertUpTo
  <2>2. i \in 1..MaxInsertLen  BY <1>2, Limits
  <2>3. /\ instr \in Instruction /\ Length(instr) = i
        /\ Right(base, result, instr, pos, baseOff)
    BY <1>0, <2>2, InsertIsRight
  <2>. HIDE DEF instr
  <2>4. delta \o <<instr>> = Append(delta, instr)  BY <1>0, <2>3
  <2>5. baseOff <= baseOff  BY <1>0
  <2>6. \E s : Laid(base, result, Append(delta, instr), pos + Length(instr), baseOff, s)
    BY <1>0, <2>3, <2>5, LaidNext
  <2>. QED  BY <2>1, <2>3, <2>4, <2>6
<1>. QED  BY <1>1, <1>2

(* What the steps of computeDelta do to it.                                *)
LEMMA StepKeepsMade ==
    ASSUME Made, pc = "compute", pc' = pc, UNCHANGED <<arguments, head, applying, err>>,
           pos' \in Nat, pos' <= Len(result), baseOff' \in Nat, baseOff' <= Len(base),
           \E s : Laid(base, result, delta', pos', baseOff', s)
    PROVE  Made'
<1>1. PICK s : Laid(base, result, delta', pos', baseOff', s)  OBVIOUS
<1>2. /\ base' = base /\ result' = result /\ baseLen' = baseLen /\ resultLen' = resultLen
      /\ at' = 0 /\ at = 0 /\ out' = out /\ err' = err
  BY DEF arguments, head, applying, Made
<1>3. s[1] = 0 /\ Len(delta') \in Nat  BY <1>1 DEF Laid
<1>4. out = SubSeq(result, 1, 0)
  <2>1. PICK t : Laid(base, result, delta, pos, baseOff, t) /\ out = SubSeq(result, 1, t[at + 1])
    BY DEF Made
  <2>2. t[1] = 0 /\ 0 + 1 = 1  BY <2>1 DEF Laid
  <2>. QED  BY <1>2, <2>1, <2>2
<1>5. Strung'  BY <1>2 DEF Strung, Made
<1>6. /\ Laid(base', result', delta', pos', baseOff', s)
      /\ out' = SubSeq(result', 1, s[at' + 1]) /\ at' \in 0..Len(delta')
  <2>1. 0 + 1 = 1 /\ 0 \in 0..Len(delta')  BY <1>3
  <2>. QED  BY <1>1, <1>2, <1>3, <1>4, <2>1
<1>7. baseLen' = Len(base') /\ resultLen' = Len(result') /\ err' = "nil"  BY <1>2 DEF Made
<1>. QED  BY <1>2, <1>5, <1>6, <1>7 DEF Made

LEMMA CopyMatchKeepsMade ==
    ASSUME Made, CopyMatch
    PROVE  Made'
<1>1. pc = "compute" /\ Looping /\ Match.n > MinCopyLen
      /\ Step(Match.i, Match.j, Match.n,
              Append(InsertUpTo(Match.i), CopyOf(baseOff + Match.j, Match.n)))
  BY DEF CopyMatch
<1>. DEFINE i == Match.i
            j == Match.j
            n == Match.n
            c == CopyOf(baseOff + j, n)
<1>2. /\ Match \in Matches /\ Lies(Match)
      /\ i <= MaxInsertLen /\ j <= MaxInsertLen /\ n <= MaxCopyLen
  BY <1>1, MatchIs DEF Made
<1>3. i \in Nat /\ j \in Nat /\ n \in Nat  BY <1>2 DEF Matches
<1>4. /\ pos + i + n <= Len(result) /\ baseOff + j + n <= Len(base)
      /\ \A t \in 1..n : result[pos + i + t] = base[baseOff + j + t]
  BY <1>2 DEF Lies
<1>. HIDE DEF i, j, n
<1>5. /\ delta' = delta \o Append(InsertUpTo(i), c)
      /\ pos' = pos + i + n /\ baseOff' = baseOff + j + n
      /\ UNCHANGED <<arguments, head, applying, err, pc>>
  BY <1>1 DEF Step, i, j, n
<1>6. /\ base \in Seq(Byte) /\ result \in Seq(Byte) /\ pos \in Nat /\ baseOff \in Nat
      /\ Len(base) \in Nat /\ Len(result) \in Nat
  BY DEF Made, Strung
<1>7. /\ pos + i \in Nat /\ pos + i <= Len(result) /\ baseOff + j \in Nat
      /\ pos' \in Nat /\ baseOff' \in Nat /\ baseOff <= baseOff'
      /\ pos' = (pos + i) + n /\ baseOff' = (baseOff + j) + n
  BY <1>3, <1>4, <1>5, <1>6
<1>8. PICK s : Laid(base, result, delta \o InsertUpTo(i), pos + i, baseOff, s)
  BY <1>2, <1>3, <1>7, InsertsLaid DEF Made, i
<1>9. /\ c \in Instruction /\ Length(c) = n
      /\ Right(base, result, c, pos + i, baseOff')
  <2>1. baseOff + j <= MaxCopyOff
    <3>1. baseOff < MaxCopyOff - MaxInsertLen  BY <1>1 DEF Looping
    <3>2. j <= MaxInsertLen  BY <1>2 DEF j
    <3>. QED  BY <1>3, <1>6, <3>1, <3>2, Limits
  <2>2. SubSeq(base, baseOff + j + 1, baseOff + j + n) = SubSeq(result, pos + i + 1, pos + i + n)
    <3>. DEFINE x == SubSeq(base, baseOff + j + 1, baseOff + j + n)
                y == SubSeq(result, pos + i + 1, pos + i + n)
    <3>1. x \in Seq(Byte) /\ Len(x) = n /\ \A t \in 1..n : x[t] = base[baseOff + j + t]
      BY <1>3, <1>4, <1>6
    <3>2. y \in Seq(Byte) /\ Len(y) = n /\ \A t \in 1..n : y[t] = result[pos + i + t]
      BY <1>3, <1>4, <1>6
    <3>. HIDE DEF x, y
    <3>3. x = y  BY <1>4, <3>1, <3>2
    <3>. QED  BY <3>3 DEF x, y
  <2>3. MinCopyLen < n /\ n <= MaxCopyLen  BY <1>1, <1>2, <1>3, Limits DEF n
  <2>4. (baseOff + j) + n <= baseOff'  BY <1>3, <1>6, <1>7
  <2>. DEFINE off == baseOff + j
              from == pos + i
  <2>5. /\ off \in Nat /\ off <= MaxCopyOff /\ off + n <= baseOff' /\ baseOff' \in Nat
        /\ SubSeq(base, off + 1, off + n) = SubSeq(result, from + 1, from + n)
    BY <1>7, <2>1, <2>2, <2>4
  <2>. HIDE DEF off, from
  <2>6. /\ CopyOf(off, n) \in Instruction /\ Length(CopyOf(off, n)) = n
        /\ Right(base, result, CopyOf(off, n), from, baseOff')
    BY <1>3, <2>3, <2>5, CopyIsRight
  <2>. QED  BY <2>6 DEF off, from
<1>. HIDE DEF c
<1>10. \E t : Laid(base, result, delta', pos', baseOff', t)
  <2>1. \E t : Laid(base, result, Append(delta \o InsertUpTo(i), c), (pos + i) + Length(c), baseOff', t)
    BY <1>6, <1>7, <1>8, <1>9, LaidNext
  <2>2. delta' = Append(delta \o InsertUpTo(i), c)
    <3>1. delta \in Seq(Instruction)  BY DEF Made, Laid
    <3>2. InsertUpTo(i) \in Seq(Instruction)
      <4>1. CASE i = 0  BY <4>1 DEF InsertUpTo
      <4>2. CASE i # 0
        <5>1. i \in 1..MaxInsertLen  BY <1>2, <1>3, <4>2, Limits DEF i
        <5>2. InsertOf(SubSeq(result, pos + 1, pos + i)) \in Instruction
          BY <1>6, <1>7, <5>1, InsertIsRight
        <5>3. i > 0  BY <1>3, <4>2
        <5>. QED  BY <5>2, <5>3 DEF InsertUpTo
      <4>. QED  BY <4>1, <4>2
    <3>3. \A d, e \in Seq(Instruction) : d \o Append(e, c) = Append(d \o e, c)
      <4>. SUFFICES ASSUME NEW d \in Seq(Instruction), NEW e \in Seq(Instruction)
                    PROVE  d \o Append(e, c) = Append(d \o e, c)
        OBVIOUS
      <4>. QED  BY <1>9
    <3>. QED  BY <1>5, <3>1, <3>2, <3>3
  <2>. QED  BY <1>7, <1>9, <2>1, <2>2
<1>11. pos' <= Len(result) /\ baseOff' <= Len(base)  BY <1>4, <1>5
<1>. QED  BY <1>1, <1>5, <1>7, <1>10, <1>11, StepKeepsMade

LEMMA InsertWindowKeepsMade ==
    ASSUME Made, InsertWindow
    PROVE  Made'
<1>. DEFINE l == MaxInsertLen
<1>1. /\ pc = "compute" /\ Looping
      /\ Step(l, l, 0, InsertUpTo(l))
  BY DEF InsertWindow
<1>2. /\ base \in Seq(Byte) /\ result \in Seq(Byte) /\ pos \in Nat /\ baseOff \in Nat
      /\ Len(base) \in Nat /\ Len(result) \in Nat /\ l \in Nat
  BY Limits DEF Made, Strung
<1>3. pos + l <= Len(result) /\ baseOff + l <= Len(base)  BY <1>1, <1>2 DEF Looping
<1>4. /\ delta' = delta \o InsertUpTo(l) /\ pos' = pos + l /\ baseOff' = baseOff + l
      /\ UNCHANGED <<arguments, head, applying, err, pc>>
  <2>1. pos + l + 0 = pos + l /\ baseOff + l + 0 = baseOff + l  BY <1>2
  <2>. HIDE DEF l
  <2>. QED  BY <1>1, <2>1 DEF Step
<1>5. l <= MaxInsertLen  BY <1>2
<1>. HIDE DEF l
<1>6. PICK s : Laid(base, result, delta \o InsertUpTo(l), pos + l, baseOff, s)
  BY <1>2, <1>3, <1>5, InsertsLaid DEF Made
<1>7. Laid(base, result, delta', pos', baseOff', s)
  <2>1. baseOff <= baseOff' /\ baseOff' \in Nat  BY <1>2, <1>4
  <2>2. Laid(base, result, delta', pos', baseOff, s)  BY <1>4, <1>6
  <2>3. \A k \in 1..Len(delta') : delta'[k] \in Instruction  BY <2>2 DEF Laid
  <2>4. \A k \in 1..Len(delta') : Right(base, result, delta'[k], s[k], baseOff')
    <3>. SUFFICES ASSUME NEW k \in 1..Len(delta')
                  PROVE  Right(base, result, delta'[k], s[k], baseOff')
      OBVIOUS
    <3>1. Right(base, result, delta'[k], s[k], baseOff)  BY <2>2 DEF Laid
    <3>. QED  BY <1>2, <2>1, <2>3, <3>1, RightLater
  <2>. QED  BY <2>2, <2>4 DEF Laid
<1>8. pos' \in Nat /\ pos' <= Len(result) /\ baseOff' \in Nat /\ baseOff' <= Len(base)
  BY <1>2, <1>3, <1>4
<1>. QED  BY <1>1, <1>4, <1>7, <1>8, StepKeepsMade

LEMMA InsertRestKeepsMade ==
    ASSUME Made, InsertRest
    PROVE  Made'
<1>. DEFINE n == Min({Len(result) - pos, MaxInsertLen})
<1>1. /\ pc = "compute" /\ pos < Len(result) /\ Step(n, 0, 0, InsertUpTo(n))
  BY DEF InsertRest
<1>2. /\ base \in Seq(Byte) /\ result \in Seq(Byte) /\ pos \in Nat /\ baseOff \in Nat
      /\ Len(base) \in Nat /\ Len(result) \in Nat /\ baseOff <= Len(base)
  BY DEF Made, Strung
<1>3. n \in Nat /\ n <= MaxInsertLen /\ n <= Len(result) - pos
  <2>1. Len(result) - pos \in Nat /\ MaxInsertLen \in Nat  BY <1>1, <1>2, Limits
  <2>2. {Len(result) - pos, MaxInsertLen} \in SUBSET Nat  BY <2>1
  <2>. QED  BY <2>2, MinIsLeast
<1>. HIDE DEF n
<1>4. /\ delta' = delta \o InsertUpTo(n) /\ pos' = pos + n /\ baseOff' = baseOff
      /\ UNCHANGED <<arguments, head, applying, err, pc>>
  <2>1. pos + n + 0 = pos + n /\ baseOff + 0 + 0 = baseOff  BY <1>2, <1>3
  <2>. QED  BY <1>1, <2>1 DEF Step
<1>5. pos + n <= Len(result)  BY <1>2, <1>3
<1>6. PICK s : Laid(base, result, delta \o InsertUpTo(n), pos + n, baseOff, s)
  BY <1>3, <1>5, InsertsLaid DEF Made
<1>7. Laid(base, result, delta', pos', baseOff', s)  BY <1>4, <1>6
<1>8. pos' \in Nat /\ pos' <= Len(result) /\ baseOff' \in Nat /\ baseOff' <= Len(base)
  BY <1>2, <1>3, <1>4, <1>5
<1>. QED  BY <1>1, <1>4, <1>7, <1>8, StepKeepsMade

-----------------------------------------------------------------------------
(* applyDelta runs what was made.                                          *)

LEMMA ProducedIsMade ==
    ASSUME Made, Running, NEW s, Produce(s), NEW t,
           Laid(base, result, delta, pos, baseOff, t), out = SubSeq(result, 1, t[at + 1]),
           s = SubSeq(result, t[at + 1] + 1, t[at + 1] + Length(Instr))
    PROVE  Made'
<1>. DEFINE from == t[at + 1]
            n == Length(Instr)
<1>1. at \in Nat /\ at + 1 \in 1..Len(delta) /\ Len(delta) \in Nat /\ pc = "apply"
  BY DEF Made, Running, Laid
<1>2. /\ t[(at + 1) + 1] = from + n /\ t[(at + 1) + 1] <= pos
      /\ from \in Nat /\ n \in Nat
  <2>1. at + 1 \in 1..(Len(delta) + 1)  BY <1>1
  <2>2. n \in Nat  BY <1>1 DEF Laid, Right, Instr
  <2>. QED  BY <1>1, <2>1, <2>2 DEF Laid, Instr
<1>. HIDE DEF from, n
<1>3. /\ result \in Seq(Byte) /\ pos \in Nat /\ pos <= Len(result) /\ resultLen = Len(result)
      /\ Len(result) \in Nat
  BY DEF Made, Strung
<1>4. from + n <= Len(result) /\ from <= Len(result)  BY <1>2, <1>3
<1>5. out = SubSeq(result, 1, from) /\ Len(out) = from  BY <1>2, <1>3, <1>4 DEF from
<1>6. s = SubSeq(result, from + 1, from + n) /\ Len(s) = n /\ s \in Seq(Byte)
  <2>1. s = SubSeq(result, from + 1, from + n)  BY DEF from, n
  <2>2. \A x, y \in Nat : x + y <= Len(result) =>
            Len(SubSeq(result, x + 1, x + y)) = y /\ SubSeq(result, x + 1, x + y) \in Seq(Byte)
    BY <1>3
  <2>. QED  BY <1>2, <1>4, <2>1, <2>2
<1>7. Min({Len(s), resultLen - Len(out)}) = n
  <2>1. resultLen - Len(out) \in Nat /\ n <= resultLen - Len(out)
    <3>1. resultLen - Len(out) = Len(result) - from  BY <1>3, <1>5
    <3>2. \A x, y, z \in Nat : x + y <= z => z - x \in Nat /\ y <= z - x  OBVIOUS
    <3>. QED  BY <1>2, <1>3, <1>4, <3>1, <3>2
  <2>2. {n, resultLen - Len(out)} \in SUBSET Nat /\ n \in {n, resultLen - Len(out)}
    BY <1>2, <2>1
  <2>3. /\ Min({n, resultLen - Len(out)}) \in {n, resultLen - Len(out)}
        /\ Min({n, resultLen - Len(out)}) <= n
    BY <2>2, MinIsLeast
  <2>4. Min({n, resultLen - Len(out)}) = n
    <3>1. \A x, y, z : x \in Nat /\ y \in Nat /\ x <= y /\ z \in {x, y} /\ z <= x => z = x
      OBVIOUS
    <3>. QED  BY <1>2, <2>1, <2>3, <3>1
  <2>. QED  BY <1>6, <2>4
<1>8. SubSeq(s, 1, n) = s
  <2>1. \A x \in Seq(Byte) : SubSeq(x, 1, Len(x)) = x  OBVIOUS
  <2>. QED  BY <1>6, <2>1
<1>9. out' = out \o s /\ at' = at + 1
      /\ UNCHANGED <<arguments, computing, delta, head, err, pc>>
  BY <1>7, <1>8 DEF Produce
<1>10. out' = SubSeq(result, 1, from + n)
  <2>1. \A x, y \in Nat : x + y <= Len(result) =>
            SubSeq(result, 1, x) \o SubSeq(result, x + 1, x + y) = SubSeq(result, 1, x + y)
    BY <1>3, SMTT(30)
  <2>. QED  BY <1>2, <1>4, <1>5, <1>6, <1>9, <2>1
<1>11. /\ base' = base /\ result' = result /\ baseLen' = baseLen /\ resultLen' = resultLen
       /\ pos' = pos /\ baseOff' = baseOff /\ delta' = delta /\ err' = err /\ pc' = "apply"
  BY <1>1, <1>9 DEF arguments, computing, head
<1>12. /\ Laid(base', result', delta', pos', baseOff', t)
       /\ out' = SubSeq(result', 1, t[at' + 1])
  BY <1>2, <1>9, <1>10, <1>11
<1>13. Strung'  BY <1>11 DEF Strung, Made
<1>14. at' \in 0..Len(delta')  BY <1>1, <1>9, <1>11
<1>15. /\ baseLen' = Len(base') /\ resultLen' = Len(result') /\ err' = "nil"
       /\ pos' = Len(result')
  BY <1>1, <1>11 DEF Made
<1>. QED  BY <1>11, <1>12, <1>13, <1>14, <1>15 DEF Made

LEMMA ApplyInsertKeepsMade ==
    ASSUME Made, ApplyInsert
    PROVE  Made'
<1>1. PICK t : /\ Laid(base, result, delta, pos, baseOff, t)
               /\ out = SubSeq(result, 1, t[at + 1])
  BY DEF Made
<1>2. at + 1 \in 1..Len(delta) /\ Running /\ Instr.op = "insert"
  BY DEF ApplyInsert, Running, Made, Laid
<1>3. Right(base, result, Instr, t[at + 1], baseOff)  BY <1>1, <1>2 DEF Laid, Instr
<1>4. /\ Len(Instr.bytes) = Instr.n /\ Length(Instr) = Instr.n
      /\ Instr.bytes = SubSeq(result, t[at + 1] + 1, t[at + 1] + Length(Instr))
  BY <1>2, <1>3 DEF Right, Length
<1>5. Produce(Instr.bytes)  BY <1>4 DEF ApplyInsert
<1>. QED  BY <1>1, <1>2, <1>4, <1>5, ProducedIsMade

LEMMA ApplyCopyKeepsMade ==
    ASSUME Made, ApplyCopy
    PROVE  Made'
<1>. DEFINE off == CopyOff(Instr)
            n == CopyLen(Instr)
            s == SubSeq(base, off + 1, off + n)
<1>1. PICK t : /\ Laid(base, result, delta, pos, baseOff, t)
               /\ out = SubSeq(result, 1, t[at + 1])
  BY DEF Made
<1>2. at + 1 \in 1..Len(delta) /\ Running /\ Instr.op = "copy"
  BY DEF ApplyCopy, Running, Made, Laid
<1>3. Right(base, result, Instr, t[at + 1], baseOff)  BY <1>1, <1>2 DEF Laid, Instr
<1>4. /\ ~ Truncated(Instr) /\ Length(Instr) = n
      /\ off \in Nat /\ n \in Nat /\ off + n <= baseOff
      /\ s = SubSeq(result, t[at + 1] + 1, t[at + 1] + Length(Instr))
  <2>1. Length(Instr) = n /\ Length(Instr) \in Nat  BY <1>2, <1>3 DEF Right, Length
  <2>. QED  BY <1>2, <1>3, <2>1 DEF Right
<1>5. off + n <= Len(base)
  <2>1. baseOff \in Nat /\ baseOff <= Len(base) /\ Len(base) \in Nat  BY DEF Made, Strung
  <2>. HIDE DEF off, n
  <2>. QED  BY <1>4, <2>1
<1>6. Produce(s)  BY <1>4, <1>5 DEF ApplyCopy
<1>. HIDE DEF s
<1>. QED  BY <1>1, <1>2, <1>4, <1>6, ProducedIsMade

LEMMA HeadKeepsMade ==
    ASSUME Made, Computed \/ ApplyHead \/ Applied
    PROVE  Made'
<1>1. /\ Strung /\ Len(base) \in Nat /\ Len(result) \in Nat
      /\ baseLen = Len(base) /\ resultLen = Len(result)
  BY DEF Made, Strung
<1>2. PICK t : /\ Laid(base, result, delta, pos, baseOff, t)
               /\ out = SubSeq(result, 1, t[at + 1])
  BY DEF Made
<1>3. UNCHANGED <<arguments, computing, delta, head, applying>>
  BY DEF Computed, ApplyHead, Applied
<1>4. /\ base' = base /\ result' = result /\ baseLen' = baseLen /\ resultLen' = resultLen
      /\ pos' = pos /\ baseOff' = baseOff /\ delta' = delta /\ at' = at /\ out' = out
  BY <1>3 DEF arguments, computing, head, applying
<1>5. /\ pc' # "compute" /\ pos' = Len(result') /\ err' = "nil"
      /\ pc' = "done" => out' = result'
  <2>1. CASE Computed
    <3>1. err' = err /\ pc' = "head" /\ pos = Len(result)  BY <2>1 DEF Computed
    <3>. QED  BY <1>4, <3>1 DEF Made
  <2>2. CASE ApplyHead
    <3>1. HeadError = "nil"
      <4>1. None \notin {baseLen, resultLen}  BY <1>1 DEF None
      <4>. QED  BY <1>1, <4>1 DEF HeadError
    <3>2. err' = "nil" /\ pc' = "apply" /\ pc = "head"  BY <2>2, <3>1 DEF ApplyHead
    <3>. QED  BY <1>4, <3>2 DEF Made
  <2>3. CASE Applied
    <3>1. pc = "apply" /\ at = Len(delta) /\ pc' = "done" /\ pos = Len(result)
          /\ err' = IF Len(out) = resultLen THEN "nil" ELSE "ErrDelta"
      BY <2>3 DEF Applied, Made
    <3>2. t[at + 1] = Len(result)  BY <1>2, <3>1 DEF Laid
    <3>3. SubSeq(result, 1, Len(result)) = result  BY <1>1 DEF Strung
    <3>4. out = result  BY <1>2, <3>2, <3>3
    <3>. QED  BY <1>1, <1>4, <3>1, <3>4
  <2>. QED  BY <2>1, <2>2, <2>3
<1>6. Laid(base', result', delta', pos', baseOff', t) /\ out' = SubSeq(result', 1, t[at' + 1])
  BY <1>2, <1>4
<1>7. Strung' /\ baseLen' = Len(base') /\ resultLen' = Len(result') /\ at' \in 0..Len(delta')
  BY <1>1, <1>4 DEF Strung, Made
<1>. QED  BY <1>5, <1>6, <1>7 DEF Made

-----------------------------------------------------------------------------
LEMMA InitIsMade == Init => IInv
<1>. SUFFICES ASSUME Init PROVE IInv
  OBVIOUS
<1>1. CASE pc = "compute"
  <2>1. /\ base \in Seq(Byte) /\ result \in Seq(Byte)
        /\ delta = << >> /\ baseLen = Len(base) /\ resultLen = Len(result)
        /\ pos = 0 /\ baseOff = 0 /\ at = 0 /\ out = << >> /\ err = "nil"
    BY <1>1, DeltaAssumption DEF Init
  <2>2. Strung  BY <2>1 DEF Strung
  <2>. DEFINE t == [k \in 1..1 |-> 0]
  <2>3. Laid(base, result, delta, pos, baseOff, t)
    <3>1. Len(delta) = 0 /\ delta \in Seq(Instruction)  BY <2>1
    <3>2. 0 + 1 = 1 /\ 1..0 = {}  OBVIOUS
    <3>3. t \in [1..1 -> Nat] /\ t[1] = 0  OBVIOUS
    <3>. HIDE DEF t
    <3>. QED  BY <2>1, <3>1, <3>2, <3>3 DEF Laid
  <2>4. out = SubSeq(result, 1, t[at + 1]) /\ at \in 0..Len(delta)
    <3>1. t[1] = 0 /\ 0 + 1 = 1  OBVIOUS
    <3>. HIDE DEF t
    <3>2. SubSeq(result, 1, 0) = << >>  BY <2>1
    <3>. QED  BY <2>1, <3>1, <3>2
  <2>. HIDE DEF t
  <2>. QED  BY <1>1, <2>1, <2>2, <2>3, <2>4 DEF IInv, Made
<1>2. CASE pc # "compute"  BY <1>2 DEF Init, IInv, Given
<1>. QED  BY <1>1, <1>2

LEMMA NextKeepsIInv == IInv /\ [Next]_vars => IInv'
<1>. SUFFICES ASSUME IInv, [Next]_vars PROVE IInv'
  OBVIOUS
<1>1. CASE Given
  <2>1. pos' = pos /\ result' = result /\ pc' # "compute"
    <3>1. CASE CopyMatch \/ InsertWindow \/ InsertRest \/ Computed
      BY <1>1, <3>1 DEF Given, CopyMatch, InsertWindow, InsertRest, Computed
    <3>2. CASE ApplyHead
      BY <1>1, <3>2 DEF Given, ApplyHead, arguments, computing
    <3>3. CASE ApplyInsert
      BY <1>1, <3>3
      DEF Given, ApplyInsert, ProduceBeyond, Produce, Fail, Running, arguments, computing
    <3>4. CASE ApplyCopy
      BY <1>1, <3>4
      DEF Given, ApplyCopy, ProduceBeyond, Produce, Fail, Running, arguments, computing
    <3>5. CASE Applied  BY <1>1, <3>5 DEF Given, Applied, arguments, computing
    <3>6. CASE UNCHANGED vars  BY <1>1, <3>6 DEF Given, vars, arguments, computing
    <3>. QED  BY <3>1, <3>2, <3>3, <3>4, <3>5, <3>6 DEF Next
  <2>. QED  BY <1>1, <2>1 DEF Given, IInv
<1>2. CASE Made
  <2>1. CASE CopyMatch  BY <1>2, <2>1, CopyMatchKeepsMade DEF IInv
  <2>2. CASE InsertWindow  BY <1>2, <2>2, InsertWindowKeepsMade DEF IInv
  <2>3. CASE InsertRest  BY <1>2, <2>3, InsertRestKeepsMade DEF IInv
  <2>4. CASE Computed \/ ApplyHead \/ Applied  BY <1>2, <2>4, HeadKeepsMade DEF IInv
  <2>5. CASE ApplyInsert  BY <1>2, <2>5, ApplyInsertKeepsMade DEF IInv
  <2>6. CASE ApplyCopy  BY <1>2, <2>6, ApplyCopyKeepsMade DEF IInv
  <2>7. CASE UNCHANGED vars
    <3>1. /\ base' = base /\ result' = result /\ baseLen' = baseLen /\ resultLen' = resultLen
          /\ pos' = pos /\ baseOff' = baseOff /\ delta' = delta /\ at' = at /\ out' = out
          /\ err' = err /\ pc' = pc
      BY <2>7 DEF vars, arguments, computing, head, applying
    <3>2. Strung'  BY <1>2, <3>1 DEF Made, Strung
    <3>3. Made'  BY <1>2, <3>1, <3>2 DEF Made
    <3>. QED  BY <3>3 DEF IInv
  <2>. QED  BY <2>1, <2>2, <2>3, <2>4, <2>5, <2>6, <2>7 DEF Next
<1>. QED  BY <1>1, <1>2 DEF IInv

(* What applyDelta is given is either received or what computeDelta made:  *)
(* instructions that lie one after the other, each of which stands for its *)
(* part of the result.                                                     *)
THEOREM Invariance == Spec => []IInv
<1>. QED  BY InitIsMade, NextKeepsIInv, PTL DEF Spec

-----------------------------------------------------------------------------
(* applyDelta makes of what computeDelta was given the same bytes, for all *)
(* strings and limits.                                                     *)
THEOREM DeltasRoundTrip == Spec => []RoundTrip
<1>1. IInv => RoundTrip  BY DEF IInv, Made, Given, RoundTrip
<1>. QED  BY <1>1, Invariance, PTL

(* "computeDelta is responsible for not generating delta instructions that *)
(* exceed these values": they stay within the limits of the encoding and,  *)
(* as they are read again, account for all that is done with.              *)
THEOREM InstructionsFitTheirEncoding == Spec => []InstructionsFit
<1>1. IInv => InstructionsFit
  <2>. SUFFICES ASSUME IInv, pos > 0 PROVE InstructionsFit
    BY DEF InstructionsFit, IInv, Made, Given, Strung
  <2>1. Made
    <3>1. pos = 0 => ~ (pos > 0)  OBVIOUS
    <3>. QED  BY <3>1 DEF IInv, Given
  <2>2. PICK t : Laid(base, result, delta, pos, baseOff, t)  BY <2>1 DEF Made
  <2>. DEFINE n == Len(delta)
              D == DOMAIN delta
  <2>3. delta \in Seq(Instruction) /\ n \in Nat /\ D = 1..n  BY <2>2 DEF Laid
  <2>4. /\ t[1] = 0 /\ t[n + 1] = pos
        /\ \A k \in D : /\ t[k + 1] = t[k] + Length(delta[k])
                        /\ Right(base, result, delta[k], t[k], baseOff)
    BY <2>2, <2>3 DEF Laid
  <2>5. \A k \in D : Length(delta[k]) \in Nat  BY <2>4 DEF Right
  <2>6. IsFiniteSet(D)
    <3>1. 1 \in Int /\ n \in Int  BY <2>3
    <3>. HIDE DEF n, D
    <3>. QED  BY <2>3, <3>1, FS_Interval
  <2>7. MapThenSumSet(LAMBDA k : Length(delta[k]), DOMAIN delta) = pos
    <3>1. PICK f : /\ Sums(D, Lengthwise(delta), f)
                   /\ MapThenSumSet(LAMBDA k : Length(delta[k]), DOMAIN delta) = f[D]
      BY <2>5, <2>6, LengthsSum
    <3>2. \A k \in D : Lengthwise(delta)[k] = Length(delta[k])  BY DEF Lengthwise
    <3>. HIDE DEF n, D
    <3>3. f[D] = t[n + 1]
      <4>1. D \in SUBSET (1..n) /\ 1 <= n + 1 /\ 1 \in Nat  BY <2>3
      <4>2. \A k \in 1..n : /\ k \in D => t[k + 1] = t[k] + Lengthwise(delta)[k]
                            /\ k \notin D => t[k + 1] = t[k]
        BY <2>3, <2>4, <3>2
      <4>. QED  BY <2>3, <2>4, <3>1, <4>1, <4>2, SumsAdd
    <3>. QED  BY <2>4, <3>1, <3>3
  <2>8. ASSUME NEW k \in DOMAIN delta
        PROVE  IF delta[k].op = "insert" THEN delta[k].n \in 1..MaxInsertLen
               ELSE /\ ~ Truncated(delta[k])
                    /\ CopyOff(delta[k]) <= MaxCopyOff
                    /\ CopyLen(delta[k]) \in (MinCopyLen + 1)..MaxCopyLen
                    /\ CopyOff(delta[k]) + CopyLen(delta[k]) <= baseOff
    <3>1. Right(base, result, delta[k], t[k], baseOff)  BY <2>4
    <3>. QED  BY <3>1 DEF Right
  <2>. QED  BY <2>7, <2>8 DEF InstructionsFit
<1>. QED  BY <1>1, Invariance, PTL

(* No string of more bytes than computeDelta is about to copy is common to *)
(* both windows.                                                           *)
THEOREM LongestMatchesAreCopied == Spec => []MatchIsLongest
<1>1. IInv => MatchIsLongest
  <2>. SUFFICES ASSUME IInv, pc = "compute", Looping,
                       NEW i \in 0..(MaxInsertLen - 1), NEW j \in 0..(MaxInsertLen - 1),
                       Match.n < MaxInsertLen - Max({i, j}),
                       SubSeq(result, pos + i + 1, pos + i + Match.n + 1)
                           = SubSeq(base, baseOff + j + 1, baseOff + j + Match.n + 1)
                PROVE  FALSE
    BY DEF MatchIsLongest
  <2>1. Strung  BY DEF IInv, Made, Given
  <2>. DEFINE n == Match.n + 1
              a == Window(result, pos)
              b == Window(base, baseOff)
              o == [i |-> i, j |-> j, n |-> n]
  <2>2. /\ Match.n \in Nat
        /\ \A x \in Matches : Agree(a, b, x) => x.n <= Match.n
    BY <2>1, MatchIs DEF Matches
  <2>3. i \in Nat /\ j \in Nat /\ n \in Nat /\ MaxInsertLen \in Nat  BY <2>2, Limits
  <2>4. i + n <= MaxInsertLen /\ j + n <= MaxInsertLen
    <3>1. Max({i, j}) \in {i, j} /\ i <= Max({i, j}) /\ j <= Max({i, j})
      <4>1. \E m \in {i, j} : \A k \in {i, j} : m >= k  BY <2>3
      <4>. QED  BY <2>3, <4>1 DEF Max
    <3>2. Max({i, j}) \in Nat  BY <2>3, <3>1
    <3>3. \A x, y, z, l \in Nat : x < l - y /\ z <= y => z + (x + 1) <= l  OBVIOUS
    <3>. QED  BY <2>2, <2>3, <3>1, <3>2, <3>3
  <2>5. /\ Len(a) = MaxInsertLen /\ Len(b) = MaxInsertLen
        /\ \A t \in 1..MaxInsertLen : a[t] = result[pos + t] /\ b[t] = base[baseOff + t]
        /\ pos + MaxInsertLen <= Len(result) /\ baseOff + MaxInsertLen <= Len(base)
    BY <2>1, WindowIs DEF Strung, Looping
  <2>6. SubSeq(result, pos + i + 1, pos + i + n) = SubSeq(base, baseOff + j + 1, baseOff + j + n)
    <3>1. /\ pos + i + Match.n + 1 = pos + i + (Match.n + 1)
          /\ baseOff + j + Match.n + 1 = baseOff + j + (Match.n + 1)
      <4>. DEFINE k == Match.n
      <4>1. pos \in Nat /\ baseOff \in Nat /\ i \in Nat /\ j \in Nat /\ k \in Nat
        BY <2>1, <2>2, <2>3 DEF Strung
      <4>. HIDE DEF k
      <4>2. pos + i + k + 1 = pos + i + (k + 1) /\ baseOff + j + k + 1 = baseOff + j + (k + 1)
        BY ONLY <4>1
      <4>. QED  BY ONLY <4>2 DEF k
    <3>. QED  BY ONLY <3>1, SubSeq(result, pos + i + 1, pos + i + Match.n + 1)
                           = SubSeq(base, baseOff + j + 1, baseOff + j + Match.n + 1)
  <2>. HIDE DEF n, a, b
  <2>7. \A t \in 1..n : result[pos + i + t] = base[baseOff + j + t]
    <3>1. \A s \in Seq(Byte), x \in Nat :
              \A t \in 1..n : x + n <= Len(s) => SubSeq(s, x + 1, x + n)[t] = s[x + t]
      BY <2>3
    <3>. DEFINE p == pos + i
                q == baseOff + j
    <3>2. /\ p \in Nat /\ q \in Nat /\ result \in Seq(Byte) /\ base \in Seq(Byte)
          /\ p + n <= Len(result) /\ q + n <= Len(base)
      <4>1. \A x, y, z, m, l \in Nat : x + l <= m /\ y + z <= l => (x + y) + z <= m  OBVIOUS
      <4>. QED  BY <2>1, <2>3, <2>4, <2>5, <4>1 DEF Strung
    <3>3. SubSeq(result, p + 1, p + n) = SubSeq(base, q + 1, q + n)  BY <2>6
    <3>. HIDE DEF p, q
    <3>4. \A t \in 1..n : result[p + t] = base[q + t]
      <4>. SUFFICES ASSUME NEW t \in 1..n  PROVE result[p + t] = base[q + t]
        OBVIOUS
      <4>1. /\ SubSeq(result, p + 1, p + n)[t] = result[p + t]
            /\ SubSeq(base, q + 1, q + n)[t] = base[q + t]
        BY <3>1, <3>2
      <4>. QED  BY <3>3, <4>1
    <3>. QED  BY <3>4 DEF p, q
  <2>8. Agree(a, b, o)
    <3>1. ASSUME NEW t \in 1..n
          PROVE  a[i + t] = b[j + t]
      <4>1. i + t \in 1..MaxInsertLen /\ j + t \in 1..MaxInsertLen
        <5>1. \A x, y, z \in Nat : x + y <= z => \A u \in 1..y : x + u \in 1..z  OBVIOUS
        <5>. QED  BY <2>3, <2>4, <5>1
      <4>2. pos + (i + t) = pos + i + t /\ baseOff + (j + t) = baseOff + j + t
        BY <2>1, <2>3 DEF Strung
      <4>. QED  BY <2>5, <2>7, <4>1, <4>2
    <3>. QED  BY <2>4, <2>5, <3>1 DEF Agree
  <2>9. o \in Matches /\ o.n = n  BY <2>3 DEF Matches
  <2>10. n <= Match.n  BY <2>2, <2>8, <2>9
  <2>. QED  BY <2>2, <2>10 DEF n
<1>. QED  BY <1>1, Invariance, PTL

(* "Both search windows move at least 6 bytes to the right every           *)
(* iteration."                                                             *)
THEOREM WindowsMoveOn == Spec => WindowsMove
<1>1. IInv /\ [Next]_vars =>
          [pc = "compute" /\ Looping =>
              pos' >= pos + MinCopyLen /\ baseOff' >= baseOff + MinCopyLen]_vars
  <2>. SUFFICES ASSUME IInv, Next, pc = "compute", Looping
                PROVE  pos' >= pos + MinCopyLen /\ baseOff' >= baseOff + MinCopyLen
    OBVIOUS
  <2>1. Strung /\ pos \in Nat /\ baseOff \in Nat  BY DEF IInv, Made, Given, Strung
  <2>2. CASE CopyMatch
    <3>1. /\ Match.n > MinCopyLen
          /\ pos' = pos + Match.i + Match.n /\ baseOff' = baseOff + Match.j + Match.n
      BY <2>2 DEF CopyMatch, Step
    <3>2. Match.i \in Nat /\ Match.j \in Nat /\ Match.n \in Nat  BY <2>1, MatchIs DEF Matches
    <3>3. \A x, y, z, m \in Nat : z > m => x + y + z >= x + m  OBVIOUS
    <3>. QED  BY <2>1, <3>1, <3>2, <3>3, Limits
  <2>3. CASE InsertWindow
    <3>1. pos' = pos + MaxInsertLen + 0 /\ baseOff' = baseOff + MaxInsertLen + 0
      BY <2>3 DEF InsertWindow, Step
    <3>. QED  BY <2>1, <3>1, Limits
  <2>4. CASE InsertRest  BY <2>4 DEF InsertRest
  <2>5. CASE Computed
    <3>1. pos = Len(result) /\ Len(result) - pos >= MaxInsertLen  BY <2>5 DEF Computed, Looping
    <3>. QED  BY <2>1, <3>1, Limits
  <2>6. CASE ApplyHead \/ ApplyInsert \/ ApplyCopy \/ Applied
    BY <2>6 DEF ApplyHead, ApplyInsert, ApplyCopy, Applied, Running
  <2>. QED  BY <2>2, <2>3, <2>4, <2>5, <2>6 DEF Next
<1>. QED  BY <1>1, Invariance, PTL DEF Spec, WindowsMove
=============================================================================
