---------------------------- MODULE CodecProofs ----------------------------
(***************************************************************************)
(* That what goes through the formats of Codec comes out as it went in,    *)
(* and that what cannot is noticed: numbers and object headers of words of *)
(* any width, lines of any length over a connection that breaks anywhere,  *)
(* objects of any size in their binary, text and datastore forms, received *)
(* objects, and lists of capabilities.                                     *)
(*                                                                         *)
(* In this order: recursive functions, numbers, the invariant, lines, and  *)
(* objects: signatures, commits and tags, the order of the names of a      *)
(* tree, trees, properties.                                                *)
(***************************************************************************)
EXTENDS Codec, FiniteSetTheorems, WellFoundedInduction, TLAPS

-----------------------------------------------------------------------------
(* Numbers are well ordered.                                               *)
LEMMA Least ==
    ASSUME NEW S \in SUBSET Nat, S # {}
    PROVE  \E m \in S : \A k \in S : m <= k
<1>. DEFINE R == {ss \in Nat \X Nat : ss[1] < ss[2]}
<1>1. IsWellFoundedOn(R, Nat)  BY NatLessThanWellFounded DEF OpToRel
<1>2. \A k, m \in Nat : k < m => <<k, m>> \in R  OBVIOUS
<1>. HIDE DEF R
<1>3. PICK m \in S : \A k \in S : ~ (<<k, m>> \in R)  BY <1>1, WFMin
<1>4. \A k \in S : k \in Nat /\ m \in Nat /\ ~ (k < m)  BY <1>2, <1>3
<1>5. \A k \in S : m <= k  BY <1>4
<1>. QED  BY <1>5

LEMMA MinIsLeast ==
    ASSUME NEW S \in SUBSET Nat, S # {}
    PROVE  Min(S) \in S /\ Min(S) \in Nat /\ \A k \in S : Min(S) <= k
<1>1. \E m \in S : \A k \in S : m <= k  BY Least
<1>. QED  BY <1>1 DEF Min

(* A recursive function's value is unknown until its equation is shown to  *)
(* have a solution.  These are functions of numbers, G gives a value at n  *)
(* from those at lower numbers.                                            *)
LooksBelow(S, T, G) ==
    \A n \in S : \A f, g \in [S -> T] :
        (\A m \in S : m < n => f[m] = g[m]) => G[n][f] = G[n][g]

Recursion(S, T, G) ==
    /\ S \in SUBSET Nat /\ T # {}
    /\ G \in [S -> [[S -> T] -> T]]
    /\ LooksBelow(S, T, G)

Solves(S, G, f, n) == \A m \in S : m <= n => f[m] = G[m][f]

(* Two solutions up to n agree there.                                      *)
LEMMA SolutionsAgree ==
    ASSUME NEW S, NEW T, NEW G, Recursion(S, T, G), NEW n \in S,
           NEW f \in [S -> T], NEW g \in [S -> T], Solves(S, G, f, n), Solves(S, G, g, n)
    PROVE  \A m \in S : m <= n => f[m] = g[m]
<1>. DEFINE U == {m \in S : m <= n /\ f[m] # g[m]}
<1>. SUFFICES ASSUME U # {} PROVE FALSE
  OBVIOUS
<1>1. U \in SUBSET Nat /\ S \in SUBSET Nat  BY DEF Recursion
<1>2. PICK m \in U : \A k \in U : m <= k
  <2>. HIDE DEF U
  <2>. QED  BY <1>1, Least
<1>3. \A k \in S : k < m => f[k] = g[k]
  <2>1. \A k \in S : k < m => k <= n /\ ~ (m <= k)  BY <1>1, <1>2
  <2>. QED  BY <1>2, <2>1
<1>4. G[m][f] = G[m][g]  BY <1>2, <1>3 DEF Recursion, LooksBelow
<1>. QED  BY <1>2, <1>4 DEF Solves

(* There are solutions up to any n: if not, the first n that there is none *)
(* for would have one, made of those below it.                             *)
LEMMA SolutionUpTo ==
    ASSUME NEW S, NEW T, NEW G, Recursion(S, T, G), NEW n \in S
    PROVE  \E f \in [S -> T] : Solves(S, G, f, n)
<1>. DEFINE U == {m \in S : ~ \E f \in [S -> T] : Solves(S, G, f, m)}
<1>. SUFFICES ASSUME U # {} PROVE FALSE
  OBVIOUS
<1>1. U \in SUBSET Nat /\ S \in SUBSET Nat  BY DEF Recursion
<1>2. PICK m \in U : \A k \in U : m <= k
  <2>. HIDE DEF U
  <2>. QED  BY <1>1, Least
<1>3. \A k \in S : k < m => \E f \in [S -> T] : Solves(S, G, f, k)
  <2>1. \A k \in S : k < m => ~ (m <= k)  BY <1>1, <1>2
  <2>. QED  BY <1>2, <2>1
<1>. DEFINE sol(k) == CHOOSE f \in [S -> T] : Solves(S, G, f, k)
            any == CHOOSE t \in T : TRUE
            h == [k \in S |-> IF k < m THEN sol(k)[k] ELSE any]
            g == [h EXCEPT ![m] = G[m][h]]
<1>4. \A k \in S : k < m => sol(k) \in [S -> T] /\ Solves(S, G, sol(k), k)
  BY <1>3
<1>5. any \in T  BY DEF Recursion
<1>. HIDE DEF sol, any, U
<1>6. h \in [S -> T] /\ \A k \in S : k < m => h[k] = sol(k)[k]  BY <1>4, <1>5
<1>. HIDE DEF h
<1>7. m \in S /\ G[m][h] \in T  BY <1>2, <1>6 DEF Recursion, U
<1>8. g \in [S -> T] /\ g[m] = G[m][h] /\ \A k \in S : k # m => g[k] = h[k]
  BY <1>6, <1>7
<1>. HIDE DEF g
<1>9. ASSUME NEW k \in S, k < m
      PROVE  \A j \in S : j <= k => h[j] = sol(k)[j]
  <2>. SUFFICES ASSUME NEW j \in S, j <= k PROVE h[j] = sol(k)[j]
    OBVIOUS
  <2>1. j < m  BY <1>1, <1>7, <1>9
  <2>2. Solves(S, G, sol(k), j)
    <3>1. \A i \in S : i <= j => i <= k  BY <1>1
    <3>. QED  BY <1>4, <1>9, <3>1 DEF Solves
  <2>3. \A i \in S : i <= j => sol(k)[i] = sol(j)[i]  BY <1>4, <1>9, <2>1, <2>2, SolutionsAgree
  <2>4. j <= j  BY <1>1
  <2>. QED  BY <1>6, <2>1, <2>3, <2>4
<1>10. \A k \in S : k < m => h[k] = G[k][h]
  <2>. SUFFICES ASSUME NEW k \in S, k < m PROVE h[k] = G[k][h]
    OBVIOUS
  <2>1. k <= k /\ \A j \in S : j < k => j <= k  BY <1>1
  <2>2. sol(k) \in [S -> T] /\ sol(k)[k] = G[k][sol(k)]  BY <1>4, <2>1 DEF Solves
  <2>3. G[k][sol(k)] = G[k][h]  BY <1>6, <1>9, <2>1, <2>2 DEF Recursion, LooksBelow
  <2>. QED  BY <1>6, <2>2, <2>3
<1>11. \A k \in S : k <= m => G[k][g] = G[k][h]
  <2>. SUFFICES ASSUME NEW k \in S, k <= m PROVE G[k][g] = G[k][h]
    OBVIOUS
  <2>1. \A j \in S : j < k => g[j] = h[j]
    <3>1. \A j \in S : j < k => j # m  BY <1>1, <1>7
    <3>. QED  BY <1>8, <3>1
  <2>. QED  BY <1>6, <1>8, <2>1 DEF Recursion, LooksBelow
<1>12. Solves(S, G, g, m)
  <2>1. \A k \in S : k <= m => k < m \/ k = m  BY <1>1, <1>7
  <2>. QED  BY <1>8, <1>10, <1>11, <2>1 DEF Solves
<1>. QED  BY <1>2, <1>8, <1>12 DEF U

LEMMA SolutionExists ==
    ASSUME NEW S, NEW T, NEW G, Recursion(S, T, G)
    PROVE  \E f \in [S -> T] : f = [n \in S |-> G[n][f]]
<1>. DEFINE sol(k) == CHOOSE f \in [S -> T] : Solves(S, G, f, k)
            h == [k \in S |-> sol(k)[k]]
<1>1. \A k \in S : sol(k) \in [S -> T] /\ Solves(S, G, sol(k), k)
  BY SolutionUpTo
<1>2. S \in SUBSET Nat  BY DEF Recursion
<1>. HIDE DEF sol
<1>3. h \in [S -> T] /\ \A k \in S : h[k] = sol(k)[k]  BY <1>1
<1>. HIDE DEF h
<1>4. ASSUME NEW k \in S
      PROVE  h[k] = G[k][h]
  <2>1. \A j \in S : j < k => h[j] = sol(k)[j]
    <3>. SUFFICES ASSUME NEW j \in S, j < k PROVE h[j] = sol(k)[j]
      OBVIOUS
    <3>1. j <= j /\ \A i \in S : i <= j => i <= k  BY <1>2
    <3>2. Solves(S, G, sol(k), j)  BY <1>1, <3>1 DEF Solves
    <3>. QED  BY <1>1, <1>3, <3>1, <3>2, SolutionsAgree
  <2>2. k <= k  BY <1>2
  <2>3. sol(k)[k] = G[k][sol(k)]  BY <1>1, <2>2 DEF Solves
  <2>4. G[k][sol(k)] = G[k][h]  BY <1>1, <1>3, <2>1 DEF Recursion, LooksBelow
  <2>. QED  BY <1>3, <2>3, <2>4
<1>5. h = [n \in S |-> G[n][h]]
  <2>1. h = [n \in S |-> h[n]]  BY <1>3
  <2>. QED  BY <1>4, <2>1
<1>. QED  BY <1>3, <1>5

(* The same for functions whose value at k comes from that at k - 1.       *)
Primitive(n, T, base, step) ==
    n \in Nat /\ base \in T /\ \A k \in 1..n : \A t \in T : step[<<k, t>>] \in T

IsPrimitive(f, n, T, base, step) ==
    f \in [0..n -> T] /\ f[0] = base /\ \A k \in 1..n : f[k] = step[<<k, f[k - 1]>>]

LEMMA PrimitiveExists ==
    ASSUME NEW n, NEW T, NEW base, NEW step, Primitive(n, T, base, step)
    PROVE  \E f : IsPrimitive(f, n, T, base, step)
<1>. USE DEF Primitive, IsPrimitive
<1>. DEFINE S == 0..n
            Value(k, f) == IF k = 0 THEN base ELSE step[<<k, f[k - 1]>>]
            G == [k \in S |-> [f \in [S -> T] |-> Value(k, f)]]
<1>1. \A k \in S, f \in [S -> T] : Value(k, f) \in T
  <2>1. \A k \in S : k # 0 => k \in 1..n /\ k - 1 \in S  OBVIOUS
  <2>. HIDE DEF S
  <2>. QED  BY <2>1
<1>2. \A k \in S, f \in [S -> T] : G[k][f] = Value(k, f)  OBVIOUS
<1>3. G \in [S -> [[S -> T] -> T]]
  <2>. HIDE DEF S, Value
  <2>. QED  BY <1>1
<1>4. \A k \in S : \A f, g \in [S -> T] :
          (\A m \in S : m < k => f[m] = g[m]) => Value(k, f) = Value(k, g)
  <2>1. \A k \in S : k # 0 => k - 1 \in S /\ k - 1 < k  OBVIOUS
  <2>. HIDE DEF S
  <2>. QED  BY <2>1
<1>5. S \in SUBSET Nat  OBVIOUS
<1>. HIDE DEF G, S, Value
<1>6. Recursion(S, T, G)
  <2>1. LooksBelow(S, T, G)  BY <1>2, <1>4 DEF LooksBelow
  <2>. QED  BY <1>3, <1>5, <2>1 DEF Recursion
<1>7. PICK f \in [S -> T] : f = [k \in S |-> G[k][f]]  BY <1>6, SolutionExists
<1>8. \A k \in S : f[k] = Value(k, f)  BY <1>2, <1>7
<1>9. 0 \in S /\ \A k \in 1..n : k \in S /\ k # 0  BY DEF S
<1>10. f[0] = base /\ \A k \in 1..n : f[k] = step[<<k, f[k - 1]>>]  BY <1>8, <1>9 DEF Value
<1>. QED  BY <1>7, <1>10 DEF S

-----------------------------------------------------------------------------
(* Powers of two.                                                          *)

LEMMA PowerUnfolds ==
    /\ Power \in [Nat -> Nat \ {0}]
    /\ Power[0] = 1
    /\ \A k \in Nat : Power[k + 1] = 2 * Power[k]
<1>. DEFINE T == Nat \ {0}
            Value(k, f) == IF k = 0 THEN 1 ELSE 2 * f[k - 1]
            G == [k \in Nat |-> [f \in [Nat -> T] |-> Value(k, f)]]
<1>1. \A k \in Nat, f \in [Nat -> T] : Value(k, f) \in T
  <2>1. \A t \in T : 2 * t \in T  OBVIOUS
  <2>2. \A k \in Nat : k # 0 => k - 1 \in Nat  OBVIOUS
  <2>3. 1 \in T  OBVIOUS
  <2>. HIDE DEF T
  <2>. QED  BY <2>1, <2>2, <2>3
<1>2. \A k \in Nat, f \in [Nat -> T] : G[k][f] = Value(k, f)  OBVIOUS
<1>3. G \in [Nat -> [[Nat -> T] -> T]]
  <2>. HIDE DEF T, Value
  <2>. QED  BY <1>1
<1>4. \A k \in Nat : \A f, g \in [Nat -> T] :
          (\A m \in Nat : m < k => f[m] = g[m]) => Value(k, f) = Value(k, g)
  <2>1. \A k \in Nat : k # 0 => k - 1 \in Nat /\ k - 1 < k  OBVIOUS
  <2>. HIDE DEF T
  <2>. QED  BY <2>1
<1>5. PICK f \in [Nat -> T] : f = [k \in Nat |-> G[k][f]]
  <2>1. T # {}  OBVIOUS
  <2>. HIDE DEF G, T, Value
  <2>2. LooksBelow(Nat, T, G)  BY <1>2, <1>4 DEF LooksBelow
  <2>3. Recursion(Nat, T, G)  BY <1>3, <2>1, <2>2 DEF Recursion
  <2>. QED  BY <2>3, SolutionExists
<1>6. f = [k \in Nat |-> Value(k, f)]
  <2>. HIDE DEF G, T, Value
  <2>. QED  BY <1>2, <1>5
<1>7. Power = [k \in Nat |-> Value(k, Power)] /\ Power \in [Nat -> T]
  <2>1. \E p : p = [k \in Nat |-> Value(k, p)]  BY <1>6
  <2>2. Power = [k \in Nat |-> Value(k, Power)]  BY <2>1 DEF Power
  <2>. DEFINE U == {k \in Nat : Power[k] \notin T}
  <2>3. U = {}
    <3>. SUFFICES ASSUME U # {} PROVE FALSE
      OBVIOUS
    <3>1. PICK k \in U : \A m \in U : k <= m
      <4>1. U \in SUBSET Nat  OBVIOUS
      <4>. HIDE DEF U
      <4>. QED  BY <4>1, Least
    <3>2. k # 0 => k - 1 \in Nat /\ k - 1 \notin U  BY <3>1
    <3>3. Power[k] = Value(k, Power)  BY <2>2, <3>1
    <3>. QED  BY <3>1, <3>2, <3>3
  <2>4. \A k \in Nat : Power[k] \in T
    <3>. HIDE DEF T
    <3>. QED  BY <2>3
  <2>. HIDE DEF T, Value
  <2>. QED  BY <2>2, <2>4
<1>8. \A k \in Nat : Power[k] = Value(k, Power)
  <2>. HIDE DEF Value
  <2>. QED  BY <1>7
<1>9. \A k \in Nat : Power[k + 1] = 2 * Power[k]
  <2>1. \A k \in Nat : k + 1 \in Nat /\ k + 1 # 0 /\ k + 1 - 1 = k  OBVIOUS
  <2>. QED  BY <1>8, <2>1
<1>. QED  BY <1>7, <1>8, <1>9

LEMMA PowerOfSum == \A a, b \in Nat : Power[a + b] = Power[a] * Power[b]
<1>. SUFFICES ASSUME NEW a \in Nat
              PROVE  \A b \in Nat : Power[a + b] = Power[a] * Power[b]
  OBVIOUS
<1>. DEFINE U == {b \in Nat : Power[a + b] # Power[a] * Power[b]}
<1>. SUFFICES ASSUME U # {} PROVE FALSE
  OBVIOUS
<1>1. PICK b \in U : \A m \in U : b <= m
  <2>1. U \in SUBSET Nat  OBVIOUS
  <2>. HIDE DEF U
  <2>. QED  BY <2>1, Least
<1>2. Power[a] \in Nat /\ Power[0] = 1 /\ a + 0 = a  BY PowerUnfolds
<1>3. b # 0  BY <1>1, <1>2
<1>4. b - 1 \in Nat /\ b - 1 \notin U /\ b - 1 + 1 = b /\ a + (b - 1) \in Nat /\ a + (b - 1) + 1 = a + b
  BY <1>1, <1>3
<1>5. Power[b] = 2 * Power[b - 1] /\ Power[a + b] = 2 * Power[a + (b - 1)]
      /\ Power[b - 1] \in Nat
  BY <1>4, PowerUnfolds
<1>6. Power[a + (b - 1)] = Power[a] * Power[b - 1]  BY <1>4
<1>7. 2 * (Power[a] * Power[b - 1]) = Power[a] * (2 * Power[b - 1])  BY <1>2, <1>5
<1>. QED  BY <1>1, <1>5, <1>6, <1>7

LEMMA PowerGrows == \A a, b \in Nat : a <= b => Power[a] <= Power[b]
<1>. SUFFICES ASSUME NEW a \in Nat, NEW b \in Nat, a <= b
              PROVE  Power[a] <= Power[b]
  OBVIOUS
<1>1. b - a \in Nat /\ a + (b - a) = b  OBVIOUS
<1>2. Power[a] \in Nat \ {0} /\ Power[b - a] \in Nat \ {0} /\ Power[b] = Power[a] * Power[b - a]
  BY <1>1, PowerUnfolds, PowerOfSum
<1>3. \A x, y \in Nat \ {0} : x <= x * y
  <2>1. \A x, y \in Nat \ {0} : x * y = x + x * (y - 1) /\ x * (y - 1) \in Nat  OBVIOUS
  <2>. QED  BY <2>1
<1>. QED  BY <1>2, <1>3

-----------------------------------------------------------------------------
(* Numbers: the weight of the n-th group, and the sizes of words.          *)

Place(n) == Power[GroupBits * n]

LEMMA Places ==
    /\ \A n \in Nat : Place(n) \in Nat \ {0} /\ Place(n + 1) = Groups * Place(n)
    /\ Place(0) = 1
<1>1. GroupBits \in Nat  BY Base128Assumption
<1>. SUFFICES ASSUME NEW n \in Nat
              PROVE  Place(n) \in Nat \ {0} /\ Place(n + 1) = Groups * Place(n) /\ Place(0) = 1
  OBVIOUS
<1>2. GroupBits * n \in Nat /\ GroupBits * (n + 1) = GroupBits + GroupBits * n /\ GroupBits * 0 = 0
  BY <1>1
<1>. QED  BY <1>1, <1>2, PowerOfSum, PowerUnfolds DEF Place, Groups

LEMMA Sizes ==
    /\ Groups \in Nat /\ Groups >= 2
    /\ Words \in Nat /\ Groups <= Words
    /\ Words \div Groups \in Nat \ {0}
    /\ Words = Groups * (Words \div Groups)
<1>1. GroupBits \in Nat /\ GroupBits >= 1 /\ WordBits \in Nat /\ WordBits - GroupBits \in Nat
      /\ GroupBits + (WordBits - GroupBits) = WordBits
  BY Base128Assumption
<1>2. Power[1] = 2
  <2>1. Power[0 + 1] = 2 * Power[0] /\ Power[0] = 1  BY PowerUnfolds
  <2>. QED  BY <2>1
<1>3. Groups \in Nat /\ Groups >= 2 /\ Words \in Nat
  BY <1>1, <1>2, PowerUnfolds, PowerGrows DEF Groups, Words
<1>. DEFINE q == Power[WordBits - GroupBits]
<1>4. q \in Nat \ {0} /\ Words = Groups * q
  BY <1>1, PowerUnfolds, PowerOfSum DEF Groups, Words
<1>5. (Groups * q) \div Groups = q
  <2>. HIDE DEF q
  <2>. QED  BY <1>3, <1>4
<1>6. Groups <= Words
  <2>. HIDE DEF q
  <2>1. Groups * q = Groups + Groups * (q - 1) /\ Groups * (q - 1) \in Nat  BY <1>3, <1>4
  <2>. QED  BY <1>3, <1>4, <2>1
<1>. QED  BY <1>3, <1>4, <1>5, <1>6

LEMMA MaxLenIs ==
    /\ MaxLen \in Nat /\ MaxLen >= 2
    /\ GroupBits * (MaxLen - 1) < WordBits /\ WordBits <= GroupBits * MaxLen
<1>. DEFINE n == WordBits + GroupBits - 1
            q == n \div GroupBits
<1>1. GroupBits \in Nat /\ GroupBits >= 1 /\ WordBits \in Nat /\ WordBits > GroupBits /\ n \in Nat
  BY Base128Assumption
<1>2. q \in Nat /\ GroupBits * q <= n /\ n < GroupBits * q + GroupBits
  <2>. HIDE DEF n
  <2>1. n = GroupBits * (n \div GroupBits) + (n % GroupBits) /\ n % GroupBits \in 0..(GroupBits - 1)
        /\ n \div GroupBits \in Nat
    BY <1>1
  <2>. QED  BY <1>1, <2>1
<1>. HIDE DEF q
<1>3. GroupBits * (q - 1) = GroupBits * q - GroupBits /\ GroupBits * q \in Nat  BY <1>1, <1>2
<1>4. q >= 2
  <2>1. q = 0 => GroupBits * q = 0  BY <1>1
  <2>2. q = 1 => GroupBits * q = GroupBits  BY <1>1
  <2>. QED  BY <1>1, <1>2, <2>1, <2>2
<1>. QED  BY <1>1, <1>2, <1>3, <1>4 DEF MaxLen, q

(* A number with n groups below its highest fits in a word only if they    *)
(* are fewer than MaxLen.                                                  *)
LEMMA LengthFits ==
    ASSUME NEW n \in Nat, Place(n) < Words
    PROVE  n + 1 <= MaxLen
<1>. SUFFICES ASSUME MaxLen <= n PROVE FALSE
  BY MaxLenIs
<1>1. GroupBits \in Nat /\ GroupBits >= 1 /\ WordBits \in Nat  BY Base128Assumption
<1>2. n - MaxLen \in Nat /\ GroupBits * n = GroupBits * MaxLen + GroupBits * (n - MaxLen)
      /\ GroupBits * (n - MaxLen) \in Nat /\ GroupBits * MaxLen \in Nat
  BY <1>1, MaxLenIs
<1>3. WordBits <= GroupBits * n /\ GroupBits * n \in Nat  BY <1>1, <1>2, MaxLenIs
<1>4. Power[WordBits] <= Power[GroupBits * n] /\ Power[GroupBits * n] \in Nat /\ Power[WordBits] \in Nat
  BY <1>1, <1>3, PowerGrows, PowerUnfolds
<1>. QED  BY <1>4 DEF Place, Words

-----------------------------------------------------------------------------
(* What ReadLE and ReadMBE do.                                             *)

(* x is the function of that name in ReadLE, and last the number of bytes  *)
(* after which it stops.                                                   *)
ReadsLE(s, x, last) ==
    /\ x \in [0..Len(s) -> Nat]
    /\ x[0] = 0
    /\ \A n \in 1..Len(s) : x[n] = x[n - 1] + s[n].low * Place(n - 1)
    /\ last \in 0..Len(s)
    /\ \A n \in 0..(last - 1) : Fits(n, s[n + 1]) /\ s[n + 1].more
    /\ last < Len(s) => ~ (Fits(last, s[last + 1]) /\ s[last + 1].more)
    /\ ReadLE(s) = IF last = Len(s) THEN Number(x[last], last, "EOF")
                   ELSE IF ~ Fits(last, s[last + 1]) THEN Number(x[last], last + 1, "overflow")
                   ELSE Number(x[last + 1], last + 1, "nil")

LEMMA BytesHave ==
    ASSUME NEW s \in Seq(Byte), NEW n \in 1..Len(s)
    PROVE  s[n].low \in 0..(Groups - 1) /\ s[n].low \in Nat /\ s[n].more \in BOOLEAN
<1>1. s[n] \in Byte  OBVIOUS
<1>. QED  BY <1>1, Sizes DEF Byte

LEMMA ReadLEIs ==
    ASSUME NEW s \in Seq(Byte)
    PROVE  \E x, last : ReadsLE(s, x, last)
<1>. DEFINE x[n \in 0..Len(s)] ==
              IF n = 0 THEN 0 ELSE x[n - 1] + s[n].low * Power[GroupBits * (n - 1)]
            Value(n, f) == IF n = 0 THEN 0 ELSE f[n - 1] + s[n].low * Power[GroupBits * (n - 1)]
            step == [kt \in (1..Len(s)) \X Nat |->
                        kt[2] + s[kt[1]].low * Power[GroupBits * (kt[1] - 1)]]
            going(n) == n < Len(s) => ~ (Fits(n, s[n + 1]) /\ s[n + 1].more)
            stops == {n \in 0..Len(s) : going(n)}
            last == Min(stops)
<1>0. Len(s) \in Nat  OBVIOUS
<1>1. \A k \in 1..Len(s) : s[k].low * Power[GroupBits * (k - 1)] \in Nat
  <2>. SUFFICES ASSUME NEW k \in 1..Len(s) PROVE s[k].low * Power[GroupBits * (k - 1)] \in Nat
    OBVIOUS
  <2>1. s[k].low \in Nat /\ k - 1 \in Nat  BY BytesHave
  <2>2. Power[GroupBits * (k - 1)] \in Nat  BY <2>1, Places DEF Place
  <2>. QED  BY <2>1, <2>2
<1>2. \A k \in 1..Len(s) : \A t \in Nat : step[<<k, t>>] \in Nat
  <2>. SUFFICES ASSUME NEW k \in 1..Len(s), NEW t \in Nat PROVE step[<<k, t>>] \in Nat
    OBVIOUS
  <2>1. step[<<k, t>>] = t + s[k].low * Power[GroupBits * (k - 1)]  OBVIOUS
  <2>. QED  BY <1>1, <2>1
<1>3. \A k \in 1..Len(s) : \A t \in Nat : step[<<k, t>>] = t + s[k].low * Power[GroupBits * (k - 1)]
  OBVIOUS
<1>. HIDE DEF step
<1>4. PICK f \in [0..Len(s) -> Nat] :
          f[0] = 0 /\ \A k \in 1..Len(s) : f[k] = step[<<k, f[k - 1]>>]
  <2>1. Primitive(Len(s), Nat, 0, step)  BY <1>0, <1>2 DEF Primitive
  <2>2. \E f : IsPrimitive(f, Len(s), Nat, 0, step)  BY <2>1, PrimitiveExists
  <2>. QED  BY <2>2 DEF IsPrimitive
<1>5. f = [n \in 0..Len(s) |-> Value(n, f)]
  <2>1. \A n \in 0..Len(s) : n # 0 => n \in 1..Len(s) /\ f[n - 1] \in Nat  OBVIOUS
  <2>2. \A n \in 0..Len(s) : f[n] = Value(n, f)  BY <1>3, <1>4, <2>1
  <2>. HIDE DEF Value
  <2>. QED  BY <2>2
<1>6. x = [n \in 0..Len(s) |-> Value(n, x)]
  BY <1>5
<1>7. ReadLE(s) = IF last = Len(s) THEN Number(x[last], last, "EOF")
                  ELSE IF ~ Fits(last, s[last + 1]) THEN Number(x[last], last + 1, "overflow")
                  ELSE Number(x[last + 1], last + 1, "nil")
  BY DEF ReadLE
<1>. HIDE DEF x
<1>8. x \in [0..Len(s) -> Nat] /\ x[0] = 0
      /\ \A n \in 1..Len(s) : x[n] = x[n - 1] + s[n].low * Place(n - 1)
  <2>1. \A n \in 0..Len(s) : x[n] = Value(n, x)
    <3>. HIDE DEF Value
    <3>. QED  BY <1>6
  <2>2. x[0] = 0 /\ \A n \in 1..Len(s) : x[n] = x[n - 1] + s[n].low * Place(n - 1)
    BY <1>0, <2>1 DEF Place
  <2>3. \A n \in 0..Len(s) : x[n] \in Nat
    <3>. DEFINE U == {n \in 0..Len(s) : x[n] \notin Nat}
    <3>. SUFFICES ASSUME U # {} PROVE FALSE
      OBVIOUS
    <3>1. PICK k \in U : \A m \in U : k <= m
      <4>1. U \in SUBSET Nat  OBVIOUS
      <4>. HIDE DEF U
      <4>. QED  BY <4>1, Least
    <3>2. k # 0 => k - 1 \in 0..Len(s) /\ k - 1 \notin U /\ k \in 1..Len(s)  BY <3>1
    <3>. QED  BY <1>1, <2>2, <3>1, <3>2 DEF Place
  <2>. HIDE DEF Value
  <2>. QED  BY <1>6, <2>2, <2>3
<1>9. /\ last \in stops /\ \A n \in stops : last <= n
  <2>1. Len(s) \in stops /\ stops \in SUBSET Nat  BY <1>0
  <2>. HIDE DEF stops
  <2>. QED  BY <2>1, MinIsLeast
<1>10. last \in 0..Len(s) /\ going(last) /\ \A n \in 0..(last - 1) : n < Len(s) /\ ~ going(n)
  <2>. HIDE DEF last, going
  <2>. QED  BY <1>0, <1>9
<1>. HIDE DEF last
<1>. QED  BY <1>7, <1>8, <1>10 DEF ReadsLE

Full(x, n) == n > 0 /\ TooLarge(x[n])

ReadsMBE(s, x, last) ==
    /\ x \in [0..Len(s) -> Nat]
    /\ x[0] = 0
    /\ \A n \in 1..Len(s) :
          x[n] = ((IF n = 1 THEN 0 ELSE x[n - 1] + 1) * Groups + s[n].low) % Words
    /\ last \in 0..Len(s)
    /\ \A n \in 0..(last - 1) : ~ Full(x, n) /\ s[n + 1].more
    /\ last < Len(s) => Full(x, last) \/ ~ s[last + 1].more
    /\ ReadMBE(s) = IF Full(x, last) THEN Number(x[last], last, "overflow")
                    ELSE IF last = Len(s) THEN Number(x[last], last, "EOF")
                    ELSE Number(x[last + 1], last + 1, "nil")

LEMMA ReadMBEIs ==
    ASSUME NEW s \in Seq(Byte)
    PROVE  \E x, last : ReadsMBE(s, x, last)
<1>. DEFINE x[n \in 0..Len(s)] ==
              IF n = 0 THEN 0
              ELSE ((IF n = 1 THEN 0 ELSE x[n - 1] + 1) * Groups + s[n].low) % Words
            Next1(n, t) == ((IF n = 1 THEN 0 ELSE t + 1) * Groups + s[n].low) % Words
            Value(n, f) == IF n = 0 THEN 0 ELSE Next1(n, f[n - 1])
            step == [kt \in (1..Len(s)) \X Nat |-> Next1(kt[1], kt[2])]
            full(n) == n > 0 /\ TooLarge(x[n])
            ends(n) == n < Len(s) => full(n) \/ ~ s[n + 1].more
            stops == {n \in 0..Len(s) : ends(n)}
            last == Min(stops)
<1>0. Len(s) \in Nat  OBVIOUS
<1>1. \A k \in 1..Len(s) : \A t \in Nat : Next1(k, t) \in Nat
  <2>. SUFFICES ASSUME NEW k \in 1..Len(s), NEW t \in Nat PROVE Next1(k, t) \in Nat
    OBVIOUS
  <2>1. s[k].low \in Nat /\ Groups \in Nat /\ Words \in Nat /\ Words > 0
    BY BytesHave, Sizes
  <2>2. \A y \in Nat : y * Groups + s[k].low \in Nat  BY <2>1
  <2>3. \A y \in Nat : y % Words \in Nat  BY <2>1
  <2>4. (IF k = 1 THEN 0 ELSE t + 1) \in Nat  OBVIOUS
  <2>. QED  BY <2>2, <2>3, <2>4
<1>2. \A k \in 1..Len(s) : \A t \in Nat : step[<<k, t>>] = Next1(k, t)
  OBVIOUS
<1>. HIDE DEF step
<1>3. PICK f \in [0..Len(s) -> Nat] : f[0] = 0 /\ \A k \in 1..Len(s) : f[k] = step[<<k, f[k - 1]>>]
  <2>1. Primitive(Len(s), Nat, 0, step)
    <3>. HIDE DEF Next1
    <3>. QED  BY <1>0, <1>1, <1>2 DEF Primitive
  <2>2. \E f : IsPrimitive(f, Len(s), Nat, 0, step)  BY <2>1, PrimitiveExists
  <2>. QED  BY <2>2 DEF IsPrimitive
<1>4. f = [n \in 0..Len(s) |-> Value(n, f)]
  <2>1. \A n \in 0..Len(s) : n # 0 => n \in 1..Len(s) /\ f[n - 1] \in Nat  OBVIOUS
  <2>2. \A n \in 0..Len(s) : f[n] = Value(n, f)
    <3>. HIDE DEF Next1
    <3>. QED  BY <1>2, <1>3, <2>1
  <2>. HIDE DEF Value
  <2>. QED  BY <2>2
<1>5. x = [n \in 0..Len(s) |-> Value(n, x)]
  BY <1>4
<1>6. ReadMBE(s) = IF full(last) THEN Number(x[last], last, "overflow")
                   ELSE IF last = Len(s) THEN Number(x[last], last, "EOF")
                   ELSE Number(x[last + 1], last + 1, "nil")
  BY DEF ReadMBE
<1>. HIDE DEF x
<1>7. x \in [0..Len(s) -> Nat] /\ x[0] = 0 /\ \A n \in 1..Len(s) : x[n] = Next1(n, x[n - 1])
  <2>1. \A n \in 0..Len(s) : x[n] = Value(n, x)
    <3>. HIDE DEF Value
    <3>. QED  BY <1>5
  <2>2. x[0] = 0 /\ \A n \in 1..Len(s) : x[n] = Next1(n, x[n - 1])
    <3>. HIDE DEF Next1
    <3>. QED  BY <1>0, <2>1
  <2>3. \A n \in 0..Len(s) : x[n] \in Nat
    <3>. DEFINE U == {n \in 0..Len(s) : x[n] \notin Nat}
    <3>. SUFFICES ASSUME U # {} PROVE FALSE
      OBVIOUS
    <3>1. PICK k \in U : \A m \in U : k <= m
      <4>1. U \in SUBSET Nat  OBVIOUS
      <4>. HIDE DEF U
      <4>. QED  BY <4>1, Least
    <3>2. x[k] \notin Nat  BY <3>1
    <3>3. k # 0  BY <2>2, <3>2
    <3>4. k - 1 \in 0..Len(s) /\ k - 1 \notin U /\ k \in 1..Len(s)  BY <3>1, <3>3
    <3>5. x[k - 1] \in Nat  BY <3>4
    <3>. HIDE DEF Next1, U
    <3>6. x[k] = Next1(k, x[k - 1])  BY <2>2, <3>4
    <3>7. Next1(k, x[k - 1]) \in Nat  BY <1>1, <3>4, <3>5
    <3>. QED  BY <3>2, <3>6, <3>7
  <2>. HIDE DEF Value
  <2>. QED  BY <1>5, <2>2, <2>3
<1>8. /\ last \in stops /\ \A n \in stops : last <= n
  <2>1. Len(s) \in stops /\ stops \in SUBSET Nat  BY <1>0
  <2>. HIDE DEF stops
  <2>. QED  BY <2>1, MinIsLeast
<1>9. last \in 0..Len(s) /\ ends(last) /\ \A n \in 0..(last - 1) : n < Len(s) /\ ~ ends(n)
  <2>. HIDE DEF last, ends
  <2>. QED  BY <1>0, <1>8
<1>. HIDE DEF last
<1>. QED  BY <1>6, <1>7, <1>9 DEF ReadsMBE, Full

-----------------------------------------------------------------------------
(* The groups of a number.                                                 *)

Group == 0..(Groups - 1)

LEMMA Division ==
    \A y \in Nat : /\ y \div Groups \in Nat /\ y % Groups \in Group
                   /\ y = Groups * (y \div Groups) + (y % Groups)
                   /\ y >= Groups => y \div Groups < y /\ y \div Groups >= 1
<1>1. Groups \in Nat /\ Groups >= 2  BY Sizes
<1>. SUFFICES ASSUME NEW y \in Nat
              PROVE  /\ y \div Groups \in Nat /\ y % Groups \in Group
                     /\ y = Groups * (y \div Groups) + (y % Groups)
                     /\ y >= Groups => y \div Groups < y /\ y \div Groups >= 1
  OBVIOUS
<1>2. y \div Groups \in Nat /\ y % Groups \in Group /\ y = Groups * (y \div Groups) + (y % Groups)
  <2>. HIDE DEF Groups
  <2>1. y = Groups * (y \div Groups) + (y % Groups)  BY <1>1
  <2>2. y % Groups \in 0..(Groups - 1)  BY <1>1
  <2>3. y \div Groups \in Nat  BY <1>1
  <2>. QED  BY <2>1, <2>2, <2>3 DEF Group
<1>. DEFINE q == y \div Groups
            r == y % Groups
<1>3. q \in Nat /\ r \in Nat /\ r < Groups /\ y = Groups * q + r  BY <1>1, <1>2 DEF Group
<1>. HIDE DEF q, r
<1>4. ASSUME y >= Groups
      PROVE  q < y /\ q >= 1
  <2>1. q # 0  BY <1>1, <1>3, <1>4
  <2>2. Groups * q = 2 * q + (Groups - 2) * q /\ (Groups - 2) * q \in Nat  BY <1>1, <1>3
  <2>. QED  BY <1>1, <1>3, <2>1, <2>2
<1>. QED  BY <1>2, <1>4 DEF q

(* The groups g of y are the remainders of dividing it again and again,    *)
(* with the quotients q, down to one that is a group itself.               *)
LESplits(y, g, q) ==
    /\ g \in Seq(Group) /\ Len(g) >= 1
    /\ q \in [0..Len(g) -> Nat]
    /\ q[0] = y /\ q[Len(g)] = 0
    /\ \A n \in 1..Len(g) : q[n - 1] = Groups * q[n] + g[n]
    /\ \A n \in 0..(Len(g) - 1) : n > 0 => q[n] >= 1

LEMMA LEGroupsUnfolds ==
    \A y \in Nat : LEGroups[y] =
        IF y < Groups THEN <<y>> ELSE <<y % Groups>> \o LEGroups[y \div Groups]
<1>. DEFINE T == Seq(Group)
            Value(y, f) == IF y < Groups THEN <<y>> ELSE <<y % Groups>> \o f[y \div Groups]
            G == [y \in Nat |-> [f \in [Nat -> T] |-> Value(y, f)]]
<1>0. Groups \in Nat  BY Sizes
<1>1. \A y \in Nat, f \in [Nat -> T] : Value(y, f) \in T
  <2>. SUFFICES ASSUME NEW y \in Nat, NEW f \in [Nat -> T] PROVE Value(y, f) \in T
    OBVIOUS
  <2>1. \A b \in Group : <<b>> \in T  OBVIOUS
  <2>2. \A b \in Group, t \in T : <<b>> \o t \in T  OBVIOUS
  <2>3. y < Groups => y \in Group  BY <1>0 DEF Group
  <2>4. y % Groups \in Group /\ f[y \div Groups] \in T  BY Division
  <2>. HIDE DEF T
  <2>. QED  BY <2>1, <2>2, <2>3, <2>4
<1>2. \A y \in Nat, f \in [Nat -> T] : G[y][f] = Value(y, f)  OBVIOUS
<1>3. G \in [Nat -> [[Nat -> T] -> T]]
  <2>. HIDE DEF T, Value
  <2>. QED  BY <1>1
<1>4. \A y \in Nat : \A f, g \in [Nat -> T] :
          (\A m \in Nat : m < y => f[m] = g[m]) => Value(y, f) = Value(y, g)
  <2>1. \A y \in Nat : ~ (y < Groups) => y \div Groups \in Nat /\ y \div Groups < y
    BY <1>0, Division
  <2>. HIDE DEF T
  <2>. QED  BY <2>1
<1>5. PICK f \in [Nat -> T] : f = [y \in Nat |-> G[y][f]]
  <2>1. T # {}  BY << >> \in T
  <2>. HIDE DEF G, T, Value
  <2>2. LooksBelow(Nat, T, G)  BY <1>2, <1>4 DEF LooksBelow
  <2>3. Recursion(Nat, T, G)  BY <1>3, <2>1, <2>2 DEF Recursion
  <2>. QED  BY <2>3, SolutionExists
<1>6. f = [y \in Nat |-> Value(y, f)]
  <2>. HIDE DEF G, T, Value
  <2>. QED  BY <1>2, <1>5
<1>7. LEGroups = [y \in Nat |-> Value(y, LEGroups)]
  BY <1>6 DEF LEGroups
<1>. QED  BY <1>7

LEMMA LESplitting ==
    \A y \in Nat : \E q : LESplits(y, LEGroups[y], q)
<1>. DEFINE U == {y \in Nat : ~ \E q : LESplits(y, LEGroups[y], q)}
<1>. SUFFICES ASSUME U # {} PROVE FALSE
  OBVIOUS
<1>1. PICK y \in U : \A m \in U : y <= m
  <2>1. U \in SUBSET Nat  OBVIOUS
  <2>. HIDE DEF U
  <2>. QED  BY <2>1, Least
<1>2. y \in Nat /\ Groups \in Nat /\ Groups >= 2  BY <1>1, Sizes
<1>3. CASE y < Groups
  <2>. DEFINE g == <<y>>
              q == [n \in 0..1 |-> IF n = 0 THEN y ELSE 0]
  <2>1. LEGroups[y] = g  BY <1>2, <1>3, LEGroupsUnfolds
  <2>2. y \in Group  BY <1>2, <1>3 DEF Group
  <2>3. g \in Seq(Group) /\ Len(g) = 1 /\ g[1] = y  BY <2>2
  <2>4. q \in [0..1 -> Nat] /\ q[0] = y /\ q[1] = 0  BY <1>2
  <2>5. Groups * 0 + y = y  BY <1>2
  <2>. HIDE DEF g, q
  <2>6. LESplits(y, g, q)  BY <2>3, <2>4, <2>5 DEF LESplits
  <2>. QED  BY <1>1, <2>1, <2>6
<1>4. CASE ~ (y < Groups)
  <2>. DEFINE z == y \div Groups
              r == y % Groups
              t == LEGroups[z]
              g == <<r>> \o t
  <2>1. z \in Nat /\ r \in Group /\ y = Groups * z + r /\ z < y /\ z >= 1
    BY <1>2, <1>4, Division
  <2>2. LEGroups[y] = g  BY <1>2, <1>4, LEGroupsUnfolds
  <2>. HIDE DEF z, r
  <2>3. PICK p : LESplits(z, t, p)
    <3>1. z \notin U  BY <1>1, <1>2, <2>1
    <3>. QED  BY <2>1, <3>1
  <2>. HIDE DEF t
  <2>. DEFINE q == [n \in 0..Len(g) |-> IF n = 0 THEN y ELSE p[n - 1]]
  <2>4. t \in Seq(Group) /\ Len(t) \in Nat /\ Len(t) >= 1  BY <2>3 DEF LESplits
  <2>5. g \in Seq(Group) /\ Len(g) = Len(t) + 1 /\ g[1] = r
        /\ \A n \in 1..Len(t) : g[n + 1] = t[n]
    BY <2>1, <2>4
  <2>. HIDE DEF g
  <2>6. q \in [0..Len(g) -> Nat]
    <3>1. \A n \in 0..Len(g) : n # 0 => n - 1 \in 0..Len(t)  BY <2>4, <2>5
    <3>2. p \in [0..Len(t) -> Nat]  BY <2>3 DEF LESplits
    <3>. QED  BY <1>2, <3>1, <3>2
  <2>7. q[0] = y /\ \A n \in 0..Len(t) : q[n + 1] = p[n]  BY <2>4, <2>5
  <2>. HIDE DEF q
  <2>8. p[0] = z /\ p[Len(t)] = 0
        /\ (\A n \in 1..Len(t) : p[n - 1] = Groups * p[n] + t[n])
        /\ \A n \in 0..(Len(t) - 1) : n > 0 => p[n] >= 1
    BY <2>3 DEF LESplits
  <2>9. q[Len(g)] = 0  BY <2>4, <2>5, <2>7, <2>8
  <2>10. ASSUME NEW n \in 1..Len(g)
         PROVE  q[n - 1] = Groups * q[n] + g[n]
    <3>1. CASE n = 1
      <4>1. q[1] = z  BY <2>4, <2>7, <2>8
      <4>. QED  BY <2>1, <2>5, <2>7, <3>1, <4>1
    <3>2. CASE n # 1
      <4>1. PICK m \in 1..Len(t) : n = m + 1  BY <2>4, <2>5, <3>2
      <4>2. q[m + 1] = p[m] /\ q[m - 1 + 1] = p[m - 1] /\ g[m + 1] = t[m]
        BY <2>4, <2>5, <2>7
      <4>. QED  BY <2>8, <4>1, <4>2
    <3>. QED  BY <3>1, <3>2
  <2>11. ASSUME NEW n \in 0..(Len(g) - 1), n > 0
         PROVE  q[n] >= 1
    <3>1. PICK m \in 0..(Len(t) - 1) : n = m + 1  BY <2>4, <2>5, <2>11
    <3>2. q[n] = p[m]  BY <2>4, <2>7, <3>1
    <3>. QED  BY <2>1, <2>8, <3>1, <3>2
  <2>12. LESplits(y, g, q)
    BY <2>4, <2>5, <2>6, <2>7, <2>9, <2>10, <2>11 DEF LESplits
  <2>. QED  BY <1>1, <2>2, <2>12
<1>. QED  BY <1>3, <1>4

LEMMA GroupsAreNumbers == Group \subseteq Nat
  BY Sizes DEF Group

LEMMA WithMoreIs ==
    ASSUME NEW g \in Seq(Group)
    PROVE  /\ WithMore(g) \in Seq(Byte)
           /\ Len(WithMore(g)) = Len(g)
           /\ \A n \in 1..Len(g) : /\ WithMore(g)[n].low = g[n] /\ g[n] \in Group
                                   /\ WithMore(g)[n].more <=> n < Len(g)
<1>. DEFINE w(n) == [low |-> g[n], more |-> n < Len(g)]
<1>1. Len(g) \in Nat /\ DOMAIN g = 1..Len(g) /\ \A n \in 1..Len(g) : g[n] \in Group
  OBVIOUS
<1>2. \A n \in 1..Len(g) : w(n) \in Byte  BY <1>1 DEF Byte, Group
<1>3. WithMore(g) = [n \in 1..Len(g) |-> w(n)]  BY <1>1 DEF WithMore
<1>4. \A n \in 1..Len(g) : w(n).low = g[n] /\ (w(n).more <=> n < Len(g))  OBVIOUS
<1>. HIDE DEF w
<1>. QED  BY <1>1, <1>2, <1>3, <1>4

(* What has been read and the quotient that is left make the number.       *)
LEMMA LEReadSoFar ==
    ASSUME NEW y \in Nat, NEW g, NEW q, LESplits(y, g, q),
           NEW x, NEW last, ReadsLE(WithMore(g), x, last)
    PROVE  \A n \in 0..Len(g) : x[n] \in Nat /\ q[n] \in Nat /\ x[n] + Place(n) * q[n] = y
<1>1. g \in Seq(Group) /\ q \in [0..Len(g) -> Nat] /\ q[0] = y /\ Len(g) \in Nat
  BY DEF LESplits
<1>5. \A n \in 1..Len(g) : g[n] \in Nat /\ q[n] \in Nat
  <2>1. \A n \in 1..Len(g) : g[n] \in Group  BY <1>1
  <2>. QED  BY <1>1, <2>1, GroupsAreNumbers
<1>2. \A n \in 1..Len(g) : q[n - 1] = Groups * q[n] + g[n]  BY DEF LESplits
<1>3. x \in [0..Len(g) -> Nat] /\ x[0] = 0
      /\ \A n \in 1..Len(g) : x[n] = x[n - 1] + g[n] * Place(n - 1)
  BY <1>1, WithMoreIs DEF ReadsLE
<1>. DEFINE U == {n \in 0..Len(g) : x[n] + Place(n) * q[n] # y}
<1>4. ASSUME U # {} PROVE FALSE
  <2>1. PICK n \in U : \A m \in U : n <= m
    <3>1. U \in SUBSET Nat  BY <1>1
    <3>. HIDE DEF U
    <3>. QED  BY <1>4, <3>1, Least
  <2>2. n \in Nat /\ x[n] + Place(n) * q[n] # y  BY <1>1, <2>1
  <2>3. n # 0  BY <1>1, <1>3, <2>2, Places
  <2>4. n - 1 \in 0..Len(g) /\ n - 1 \notin U /\ n \in 1..Len(g) /\ n - 1 \in Nat
    BY <1>1, <2>1, <2>3
  <2>5. x[n - 1] + Place(n - 1) * q[n - 1] = y  BY <2>4
  <2>. HIDE DEF U
  <2>6. Place(n) = Groups * Place(n - 1) /\ Place(n - 1) \in Nat
    <3>1. Place(n - 1 + 1) = Groups * Place(n - 1) /\ Place(n - 1) \in Nat  BY <2>4, Places
    <3>. QED  BY <2>2, <3>1
  <2>7. \A G, Pl, Q, r \in Nat : Pl * (G * Q + r) = r * Pl + (G * Pl) * Q  OBVIOUS
  <2>8. g[n] \in Nat /\ q[n] \in Nat /\ x[n - 1] \in Nat
    <3>1. x \in [0..Len(g) -> Nat]  BY <1>3
    <3>2. n \in 1..Len(g) /\ n - 1 \in 0..Len(g)  BY <2>4
    <3>. QED  BY <1>5, <3>1, <3>2
  <2>9. Place(n - 1) * q[n - 1] = g[n] * Place(n - 1) + Place(n) * q[n]
    BY <1>2, <2>4, <2>6, <2>7, <2>8, Sizes
  <2>10. g[n] * Place(n - 1) \in Nat /\ Place(n) * q[n] \in Nat
    <3>1. \A a, b \in Nat : a * b \in Nat  OBVIOUS
    <3>. QED  BY <2>2, <2>6, <2>8, <3>1, Places
  <2>. QED  BY <1>3, <2>2, <2>4, <2>5, <2>8, <2>9, <2>10
<1>. QED  BY <1>1, <1>3, <1>4

(* A number that fits in a word is written to no more than MaxLen bytes,   *)
(* and readBase128LE never finds one of them not to fit.                   *)
LEMMA LEFits ==
    ASSUME NEW y \in 0..(Words - 1), NEW g, NEW q, LESplits(y, g, q),
           NEW x, NEW last, ReadsLE(WithMore(g), x, last)
    PROVE  /\ Len(g) <= MaxLen
           /\ \A n \in 0..(Len(g) - 1) : Fits(n, WithMore(g)[n + 1])
<1>1. g \in Seq(Group) /\ q \in [0..Len(g) -> Nat] /\ Len(g) \in Nat /\ Len(g) >= 1
      /\ q[Len(g)] = 0 /\ (\A n \in 1..Len(g) : q[n - 1] = Groups * q[n] + g[n])
      /\ \A n \in 0..(Len(g) - 1) : n > 0 => q[n] >= 1
  BY DEF LESplits
<1>2. y \in Nat /\ y < Words /\ Words \in Nat  BY Sizes
<1>. DEFINE m == Len(g) - 1
            Pl == Place(m)
<1>3. m \in Nat /\ m \in 0..Len(g) /\ m + 1 = Len(g) /\ Pl \in Nat \ {0}
  <2>1. m \in Nat /\ m \in 0..Len(g) /\ m + 1 = Len(g)  BY <1>1
  <2>. HIDE DEF m
  <2>. QED  BY <2>1, Places
<1>4. q[m] = g[Len(g)]
  <2>1. q[Len(g) - 1] = Groups * 0 + g[Len(g)]  BY <1>1
  <2>2. g[Len(g)] \in Nat
    <3>1. \A n \in 1..Len(g) : g[n] \in Group  BY <1>1
    <3>2. Len(g) \in 1..Len(g)  BY <1>1
    <3>. QED  BY <3>1, <3>2, GroupsAreNumbers
  <2>. QED  BY <2>1, <2>2, Sizes
<1>5. Pl * q[m] < Words /\ q[m] \in Nat
  <2>1. x[m] \in Nat /\ q[m] \in Nat /\ x[m] + Pl * q[m] = y  BY <1>2, <1>3, LEReadSoFar
  <2>2. Pl * q[m] \in Nat  BY <1>3, <2>1
  <2>. QED  BY <1>2, <2>1, <2>2
<1>6. Len(g) <= MaxLen
  <2>1. CASE m = 0
    <3>1. Len(g) = 1
      <4>1. Len(g) \in Nat  BY <1>1
      <4>. QED  BY <2>1, <4>1
    <3>. QED  BY <3>1, MaxLenIs
  <2>2. CASE m # 0
    <3>1. q[m] >= 1
      <4>1. m \in 0..m /\ m > 0
        <5>. HIDE DEF m
        <5>. QED  BY <1>3, <2>2
      <4>. QED  BY <1>1, <4>1
    <3>2. \A a, b \in Nat : b >= 1 => a <= a * b
      <4>1. \A a, b \in Nat : b >= 1 => a * b = a + a * (b - 1) /\ a * (b - 1) \in Nat  OBVIOUS
      <4>. QED  BY <4>1
    <3>3. Pl <= Pl * q[m] /\ Pl * q[m] \in Nat  BY <1>3, <1>5, <3>1, <3>2
    <3>4. Pl < Words  BY <1>2, <1>3, <1>5, <3>3
    <3>. QED  BY <1>1, <1>3, <3>4, LengthFits
  <2>. QED  BY <2>1, <2>2
<1>7. ASSUME NEW n \in 0..(Len(g) - 1)
      PROVE  Fits(n, WithMore(g)[n + 1])
  <2>1. CASE n < m  BY <1>1, <1>6, <2>1, MaxLenIs DEF Fits
  <2>2. CASE n = m /\ n < MaxLen - 1  BY <2>2 DEF Fits
  <2>3. CASE n = m /\ n = MaxLen - 1
    <3>1. ~ WithMore(g)[n + 1].more /\ WithMore(g)[n + 1].low = q[m]
      <4>1. n + 1 = Len(g) /\ Len(g) \in 1..Len(g)  BY <1>1, <2>3
      <4>2. ~ (Len(g) < Len(g))  BY <1>1
      <4>. HIDE DEF m
      <4>. QED  BY <1>1, <1>4, <4>1, <4>2, WithMoreIs
    <3>. DEFINE b == WordBits - GroupBits * n
                 Bd == Power[b]
    <3>2. b \in Nat /\ GroupBits * n \in Nat /\ GroupBits * n + b = WordBits
      <4>1. GroupBits * n \in Nat /\ WordBits \in Nat /\ GroupBits * n < WordBits
        BY <1>3, <2>3, Base128Assumption, MaxLenIs
      <4>. QED  BY <4>1
    <3>3. Words = Pl * Bd /\ Bd \in Nat
      BY <2>3, <3>2, PowerOfSum, PowerUnfolds DEF Words, Place
    <3>4. q[m] < Bd
      <4>1. \A a, c, d \in Nat : c >= d => a * c = a * d + a * (c - d) /\ a * (c - d) \in Nat /\ a * d \in Nat
        OBVIOUS
      <4>. HIDE DEF Bd, Pl
      <4>2. ~ (q[m] >= Bd)
        <5>. SUFFICES ASSUME q[m] >= Bd PROVE FALSE
          OBVIOUS
        <5>1. Pl * q[m] = Pl * Bd + Pl * (q[m] - Bd) /\ Pl * (q[m] - Bd) \in Nat /\ Pl * Bd \in Nat
          BY <1>3, <1>5, <3>3, <4>1
        <5>. QED  BY <1>5, <3>3, <5>1
      <4>. QED  BY <1>5, <3>3, <4>2
    <3>. QED  BY <2>3, <3>1, <3>4 DEF Fits
  <2>4. n < m \/ n = m  BY <1>1
  <2>5. m <= MaxLen - 1  BY <1>1, <1>6, MaxLenIs
  <2>6. n < MaxLen - 1 \/ n = MaxLen - 1
    <3>1. n \in Nat /\ m \in Nat /\ MaxLen \in Nat  BY <1>3, MaxLenIs
    <3>. HIDE DEF m
    <3>. QED  BY <2>4, <2>5, <3>1
  <2>. QED  BY <2>1, <2>2, <2>3, <2>4, <2>6
<1>. QED  BY <1>6, <1>7

LEMMA LERoundTrip ==
    ASSUME NEW y \in 0..(Words - 1)
    PROVE  /\ WriteLE(y) \in Seq(Byte) /\ Len(WriteLE(y)) <= MaxLen
           /\ ReadLE(WriteLE(y)) = Number(y, Len(WriteLE(y)), "nil")
<1>. DEFINE g == LEGroups[y]
            s == WithMore(g)
<1>1. y \in Nat  BY Sizes
<1>2. PICK q : LESplits(y, g, q)  BY <1>1, LESplitting
<1>. HIDE DEF g
<1>3. g \in Seq(Group) /\ Len(g) \in Nat /\ Len(g) >= 1 /\ q[Len(g)] = 0
  BY <1>2 DEF LESplits
<1>4. s \in Seq(Byte) /\ Len(s) = Len(g) /\ \A n \in 1..Len(g) : (s[n].more <=> n < Len(g))
  BY <1>3, WithMoreIs
<1>5. PICK x, last : ReadsLE(s, x, last)  BY <1>4, ReadLEIs
<1>6. Len(g) <= MaxLen /\ \A n \in 0..(Len(g) - 1) : Fits(n, s[n + 1])
  BY <1>2, <1>5, LEFits
<1>7. x[Len(g)] = y
  <2>1. x[Len(g)] \in Nat /\ x[Len(g)] + Place(Len(g)) * q[Len(g)] = y
    BY <1>1, <1>2, <1>3, <1>5, LEReadSoFar
  <2>2. Place(Len(g)) * 0 = 0  BY <1>3, Places
  <2>. QED  BY <1>3, <2>1, <2>2
<1>. HIDE DEF s
<1>8. last = Len(g) - 1
  <2>1. last \in 0..Len(g) /\ (\A n \in 0..(last - 1) : s[n + 1].more)
        /\ (last < Len(g) => ~ (Fits(last, s[last + 1]) /\ s[last + 1].more))
    BY <1>4, <1>5 DEF ReadsLE
  <2>2. ~ (last - 1 >= Len(g) - 1)
    <3>. SUFFICES ASSUME last - 1 >= Len(g) - 1 PROVE FALSE
      OBVIOUS
    <3>1. Len(g) - 1 \in 0..(last - 1) /\ Len(g) - 1 + 1 = Len(g) /\ Len(g) \in 1..Len(g)
      BY <1>3, <2>1
    <3>2. s[Len(g)].more  BY <2>1, <3>1
    <3>. QED  BY <1>3, <1>4, <3>1, <3>2
  <2>3. last < Len(g) /\ last \in 0..(Len(g) - 1) /\ last + 1 \in 1..Len(g)  BY <1>3, <2>1, <2>2
  <2>4. ~ s[last + 1].more  BY <1>6, <2>1, <2>3
  <2>. QED  BY <1>3, <1>4, <2>3, <2>4
<1>9. ReadLE(s) = Number(y, Len(s), "nil")
  <2>1. last # Len(s) /\ last + 1 = Len(g) /\ Fits(last, s[last + 1])  BY <1>3, <1>4, <1>6, <1>8
  <2>2. ReadLE(s) = Number(x[last + 1], last + 1, "nil")
    BY <1>5, <2>1 DEF ReadsLE
  <2>. QED  BY <1>4, <1>7, <2>1, <2>2
<1>. QED  BY <1>4, <1>6, <1>9 DEF WriteLE, g, s

(* Whatever was received, a number that is read is the sum of its groups,  *)
(* each times its place: x adds them up as the definition of SumOf does.   *)
LEMMA SumIs ==
    ASSUME NEW Ln \in Nat, NEW term, term \in [1..Ln -> Nat],
           NEW f, f \in [0..Ln -> Nat], f[0] = 0, \A k \in 1..Ln : f[k] = f[k - 1] + term[k]
    PROVE  SumOf(term) = f[Ln]
<1>. DEFINE T == Seq(Nat)
            sum[k \in 0..Len(term)] == IF k = 0 THEN 0 ELSE sum[k - 1] + term[k]
            Value(k, h) == IF k = 0 THEN 0 ELSE h[k - 1] + term[k]
<1>1. term \in Seq(Nat) /\ Len(term) = Ln  OBVIOUS
<1>2. f = [k \in 0..Len(term) |-> Value(k, f)]
  <2>1. \A k \in 0..Ln : k # 0 => k \in 1..Ln  OBVIOUS
  <2>2. \A k \in 0..Ln : f[k] = Value(k, f)  BY <2>1
  <2>. HIDE DEF Value
  <2>. QED  BY <1>1, <2>2
<1>3. sum = [k \in 0..Len(term) |-> Value(k, sum)]  BY <1>2
<1>4. SumOf(term) = sum[Ln]  BY <1>1 DEF SumOf
<1>. HIDE DEF sum
<1>5. \A k \in 0..Ln : sum[k] = Value(k, sum)
  <2>. HIDE DEF Value
  <2>. QED  BY <1>1, <1>3
<1>. DEFINE U == {k \in 0..Ln : sum[k] # f[k]}
<1>6. ASSUME U # {} PROVE FALSE
  <2>1. PICK k \in U : \A m \in U : k <= m
    <3>1. U \in SUBSET Nat  OBVIOUS
    <3>. HIDE DEF U
    <3>. QED  BY <1>6, <3>1, Least
  <2>2. k \in 0..Ln /\ sum[k] # f[k]  BY <2>1
  <2>3. k # 0  BY <1>5, <2>2
  <2>4. k \in 1..Ln /\ k - 1 \in 0..Ln /\ ~ (k <= k - 1)  BY <2>2, <2>3
  <2>5. k - 1 \notin U  BY <2>1, <2>4
  <2>6. sum[k - 1] = f[k - 1]  BY <2>4, <2>5
  <2>7. sum[k] = sum[k - 1] + term[k]  BY <1>5, <2>2, <2>3
  <2>. QED  BY <2>2, <2>4, <2>6, <2>7
<1>7. sum[Ln] = f[Ln]  BY <1>6
<1>. QED  BY <1>4, <1>7

(* The bytes that were read.                                               *)
LEMMA Front1 ==
    ASSUME NEW s \in Seq(Byte), NEW n \in 0..Len(s)
    PROVE  /\ SubSeq(s, 1, n) \in Seq(Byte) /\ Len(SubSeq(s, 1, n)) = n
           /\ DOMAIN SubSeq(s, 1, n) = 1..n
           /\ \A k \in 1..n : SubSeq(s, 1, n)[k] = s[k] /\ k \in 1..Len(s)
  OBVIOUS

LEMMA LEIsTheValue ==
    ASSUME NEW s \in Seq(Byte), ReadLE(s).err = "nil"
    PROVE  ReadLE(s).x = ValueLE(SubSeq(s, 1, ReadLE(s).n))
<1>1. PICK x, last : ReadsLE(s, x, last)  BY ReadLEIs
<1>2. Len(s) \in Nat /\ last \in 0..Len(s) /\ x \in [0..Len(s) -> Nat] /\ x[0] = 0
      /\ \A k \in 1..Len(s) : x[k] = x[k - 1] + s[k].low * Place(k - 1)
  BY <1>1 DEF ReadsLE
<1>. DEFINE n == last + 1
            t == SubSeq(s, 1, n)
            term == [k \in 1..n |-> s[k].low * Place(k - 1)]
            f == [k \in 0..n |-> x[k]]
<1>3. last # Len(s) /\ ReadLE(s) = Number(x[n], n, "nil")
  <2>1. ReadLE(s) = IF last = Len(s) THEN Number(x[last], last, "EOF")
                    ELSE IF ~ Fits(last, s[last + 1]) THEN Number(x[last], last + 1, "overflow")
                    ELSE Number(x[last + 1], last + 1, "nil")
    BY <1>1 DEF ReadsLE
  <2>. QED  BY <2>1 DEF Number
<1>4. n \in Nat /\ n \in 0..Len(s)
      /\ \A k \in 1..n : k \in 1..Len(s) /\ k - 1 \in 0..n /\ k \in 0..Len(s) /\ k \in 0..n
  BY <1>2, <1>3
<1>5. ReadLE(s).x = x[n] /\ ReadLE(s).n = n  BY <1>3 DEF Number
<1>. HIDE DEF n
<1>6. DOMAIN t = 1..n /\ \A k \in 1..n : t[k] = s[k]  BY <1>4, Front1
<1>7. ValueLE(t) = SumOf(term)
  <2>1. term = [k \in DOMAIN t |-> t[k].low * Power[GroupBits * (k - 1)]]
    BY <1>6 DEF Place
  <2>. HIDE DEF t, term
  <2>. QED  BY <2>1 DEF ValueLE
<1>8. \A k \in 1..n : s[k].low * Place(k - 1) \in Nat
  <2>1. \A k \in 1..n : s[k].low \in Nat /\ k - 1 \in Nat  BY <1>4, BytesHave
  <2>2. \A a, b \in Nat : a * b \in Nat  OBVIOUS
  <2>. QED  BY <2>1, <2>2, Places
<1>9. term \in [1..n -> Nat] /\ \A k \in 1..n : term[k] = s[k].low * Place(k - 1)
  BY <1>8
<1>10. f \in [0..n -> Nat] /\ f[n] = x[n] /\ f[0] = 0 /\ \A k \in 1..n : f[k] = x[k] /\ f[k - 1] = x[k - 1]
  <2>1. \A k \in 0..n : k \in 0..Len(s)  BY <1>2, <1>4
  <2>2. n \in 0..n /\ 0 \in 0..n  BY <1>4
  <2>. QED  BY <1>2, <1>4, <2>1, <2>2
<1>. HIDE DEF f, term, t
<1>11. \A k \in 1..n : f[k] = f[k - 1] + term[k]  BY <1>2, <1>4, <1>9, <1>10
<1>12. SumOf(term) = f[n]
  <2>1. n \in Nat /\ term \in [1..n -> Nat] /\ f \in [0..n -> Nat] /\ f[0] = 0
    BY <1>4, <1>9, <1>10
  <2>. QED  BY <1>11, <2>1, SumIs
<1>. QED  BY <1>5, <1>7, <1>10, <1>12 DEF t

-----------------------------------------------------------------------------
(* The modified big-endian format.                                         *)

LEMMA MBEGroupsUnfolds ==
    \A y \in Nat : MBEGroups[y] =
        IF y < Groups THEN <<y>> ELSE Append(MBEGroups[y \div Groups - 1], y % Groups)
<1>. DEFINE T == Seq(Group)
            Value(y, f) == IF y < Groups THEN <<y>> ELSE Append(f[y \div Groups - 1], y % Groups)
            G == [y \in Nat |-> [f \in [Nat -> T] |-> Value(y, f)]]
<1>0. Groups \in Nat  BY Sizes
<1>a. \A y \in Nat : ~ (y < Groups) => y \div Groups - 1 \in Nat /\ y \div Groups - 1 < y
  <2>. SUFFICES ASSUME NEW y \in Nat, ~ (y < Groups)
                PROVE  y \div Groups - 1 \in Nat /\ y \div Groups - 1 < y
    OBVIOUS
  <2>1. y \div Groups \in Nat /\ y \div Groups < y /\ y \div Groups >= 1  BY <1>0, Division
  <2>. QED  BY <2>1
<1>1. \A y \in Nat, f \in [Nat -> T] : Value(y, f) \in T
  <2>. SUFFICES ASSUME NEW y \in Nat, NEW f \in [Nat -> T] PROVE Value(y, f) \in T
    OBVIOUS
  <2>1. \A b \in Group : <<b>> \in T  OBVIOUS
  <2>2. \A b \in Group, t \in T : Append(t, b) \in T  OBVIOUS
  <2>3. y < Groups => y \in Group  BY <1>0 DEF Group
  <2>4. y % Groups \in Group /\ (~ (y < Groups) => f[y \div Groups - 1] \in T)  BY <1>a, Division
  <2>. HIDE DEF T
  <2>. QED  BY <2>1, <2>2, <2>3, <2>4
<1>2. \A y \in Nat, f \in [Nat -> T] : G[y][f] = Value(y, f)  OBVIOUS
<1>3. G \in [Nat -> [[Nat -> T] -> T]]
  <2>. HIDE DEF T, Value
  <2>. QED  BY <1>1
<1>4. \A y \in Nat : \A f, g \in [Nat -> T] :
          (\A m \in Nat : m < y => f[m] = g[m]) => Value(y, f) = Value(y, g)
  <2>. HIDE DEF T
  <2>. QED  BY <1>a
<1>5. PICK f \in [Nat -> T] : f = [y \in Nat |-> G[y][f]]
  <2>1. T # {}  BY << >> \in T
  <2>. HIDE DEF G, T, Value
  <2>2. LooksBelow(Nat, T, G)  BY <1>2, <1>4 DEF LooksBelow
  <2>3. Recursion(Nat, T, G)  BY <1>3, <2>1, <2>2 DEF Recursion
  <2>. QED  BY <2>3, SolutionExists
<1>6. f = [y \in Nat |-> Value(y, f)]
  <2>. HIDE DEF G, T, Value
  <2>. QED  BY <1>2, <1>5
<1>7. MBEGroups = [y \in Nat |-> Value(y, MBEGroups)]
  BY <1>6 DEF MBEGroups
<1>. QED  BY <1>7

(* The number h[n] that the first n groups of g stand for; it is no less   *)
(* than the strings of n - 1 groups are many.                              *)
MBESplits(y, g, h) ==
    /\ g \in Seq(Group) /\ Len(g) >= 1
    /\ h \in [1..Len(g) -> Nat]
    /\ h[1] = g[1] /\ h[Len(g)] = y
    /\ \A n \in 2..Len(g) : h[n] = (h[n - 1] + 1) * Groups + g[n]
    /\ \A n \in 1..Len(g) : h[n] <= y /\ h[n] + 1 >= Place(n - 1)

LEMMA MBESplitting ==
    \A y \in Nat : \E h : MBESplits(y, MBEGroups[y], h)
<1>. DEFINE U == {y \in Nat : ~ \E h : MBESplits(y, MBEGroups[y], h)}
<1>. SUFFICES ASSUME U # {} PROVE FALSE
  OBVIOUS
<1>1. PICK y \in U : \A m \in U : y <= m
  <2>1. U \in SUBSET Nat  OBVIOUS
  <2>. HIDE DEF U
  <2>. QED  BY <2>1, Least
<1>2. y \in Nat /\ Groups \in Nat /\ Groups >= 2  BY <1>1, Sizes
<1>3. CASE y < Groups
  <2>. DEFINE g == <<y>>
              h == [n \in 1..1 |-> y]
  <2>1. MBEGroups[y] = g  BY <1>2, <1>3, MBEGroupsUnfolds
  <2>2. y \in Group  BY <1>2, <1>3 DEF Group
  <2>3. g \in Seq(Group) /\ Len(g) = 1 /\ g[1] = y  BY <2>2
  <2>4. h \in [1..1 -> Nat] /\ h[1] = y  BY <1>2
  <2>5. Place(1 - 1) = 1  BY Places
  <2>. HIDE DEF g, h
  <2>6. \A n \in 1..Len(g) : h[n] <= y /\ h[n] + 1 >= Place(n - 1)
    BY <1>2, <2>3, <2>4, <2>5
  <2>7. ~ \E n : n \in 2..Len(g)  BY <2>3
  <2>8. MBESplits(y, g, h)  BY <2>3, <2>4, <2>6, <2>7 DEF MBESplits
  <2>. QED  BY <1>1, <2>1, <2>8
<1>4. CASE ~ (y < Groups)
  <2>. DEFINE z == y \div Groups - 1
              r == y % Groups
              t == MBEGroups[z]
              g == Append(t, r)
  <2>1. z \in Nat /\ r \in Group /\ y = (z + 1) * Groups + r /\ z < y
    <3>1. y \div Groups \in Nat /\ r \in Group /\ y = Groups * (y \div Groups) + r
          /\ y \div Groups < y /\ y \div Groups >= 1
      BY <1>2, <1>4, Division
    <3>2. y \div Groups = z + 1 /\ z \in Nat  BY <3>1
    <3>. HIDE DEF r, z
    <3>. QED  BY <1>2, <3>1, <3>2
  <2>2. MBEGroups[y] = g  BY <1>2, <1>4, MBEGroupsUnfolds
  <2>. HIDE DEF z, r
  <2>3. PICK p : MBESplits(z, t, p)
    <3>1. z \notin U  BY <1>1, <1>2, <2>1
    <3>. QED  BY <2>1, <3>1
  <2>. HIDE DEF t
  <2>. DEFINE h == [n \in 1..Len(g) |-> IF n = Len(g) THEN y ELSE p[n]]
  <2>4. t \in Seq(Group) /\ Len(t) \in Nat /\ Len(t) >= 1 /\ p \in [1..Len(t) -> Nat]
    BY <2>3 DEF MBESplits
  <2>5. g \in Seq(Group) /\ Len(g) = Len(t) + 1 /\ g[Len(t) + 1] = r
        /\ \A n \in 1..Len(t) : g[n] = t[n]
    BY <2>1, <2>4
  <2>. HIDE DEF g
  <2>6. h \in [1..Len(g) -> Nat]
    <3>1. \A n \in 1..Len(g) : n # Len(g) => n \in 1..Len(t)  BY <2>4, <2>5
    <3>. QED  BY <1>2, <2>4, <3>1
  <2>7. h[Len(t) + 1] = y /\ \A n \in 1..Len(t) : h[n] = p[n]  BY <2>4, <2>5
  <2>. HIDE DEF h
  <2>8. p[1] = t[1] /\ p[Len(t)] = z
        /\ (\A n \in 2..Len(t) : p[n] = (p[n - 1] + 1) * Groups + t[n])
        /\ \A n \in 1..Len(t) : p[n] <= z /\ p[n] + 1 >= Place(n - 1)
    BY <2>3 DEF MBESplits
  <2>9. h[1] = g[1] /\ h[Len(g)] = y
    <3>1. 1 \in 1..Len(t)  BY <2>4
    <3>. QED  BY <2>5, <2>7, <2>8, <3>1
  <2>10. ASSUME NEW n \in 2..Len(g)
         PROVE  h[n] = (h[n - 1] + 1) * Groups + g[n]
    <3>1. CASE n = Len(t) + 1
      <4>1. n - 1 = Len(t) /\ Len(t) \in 1..Len(t)  BY <2>4, <3>1
      <4>2. h[n - 1] = z  BY <2>7, <2>8, <4>1
      <4>. QED  BY <2>1, <2>5, <2>7, <3>1, <4>2
    <3>2. CASE n # Len(t) + 1
      <4>1. n \in 2..Len(t) /\ n \in 1..Len(t) /\ n - 1 \in 1..Len(t)  BY <2>4, <2>5, <3>2
      <4>. QED  BY <2>5, <2>7, <2>8, <4>1
    <3>. QED  BY <3>1, <3>2
  <2>11. ASSUME NEW n \in 1..Len(g)
         PROVE  h[n] <= y /\ h[n] + 1 >= Place(n - 1)
    <3>1. CASE n = Len(t) + 1
      <4>. DEFINE m == Len(t) - 1
      <4>1. m \in Nat /\ n - 1 = m + 1 /\ Len(t) \in 1..Len(t)  BY <2>4, <3>1
      <4>2. z + 1 >= Place(m)  BY <2>8, <4>1
      <4>. HIDE DEF m
      <4>3. Place(n - 1) = Groups * Place(m) /\ Place(m) \in Nat  BY <4>1, Places
      <4>4. Groups * Place(m) <= (z + 1) * Groups
        <5>1. \A a, b, c \in Nat : a >= b => c * b <= a * c
          <6>1. \A a, b, c \in Nat : a >= b => a * c = c * b + c * (a - b) /\ c * (a - b) \in Nat
                                              /\ c * b \in Nat
            OBVIOUS
          <6>. QED  BY <6>1
        <5>. QED  BY <1>2, <2>1, <4>2, <4>3, <5>1
      <4>5. r \in Nat /\ (z + 1) * Groups \in Nat /\ Groups * Place(m) \in Nat
        <5>1. \A a, b \in Nat : a * b \in Nat  OBVIOUS
        <5>. QED  BY <1>2, <2>1, <4>3, <5>1, GroupsAreNumbers
      <4>6. h[n] = y  BY <2>7, <3>1
      <4>. QED  BY <1>2, <2>1, <4>3, <4>4, <4>5, <4>6
    <3>2. CASE n # Len(t) + 1
      <4>1. n \in 1..Len(t)  BY <2>4, <2>5, <3>2
      <4>2. h[n] = p[n] /\ p[n] <= z /\ p[n] + 1 >= Place(n - 1) /\ p[n] \in Nat
        BY <2>4, <2>7, <2>8, <4>1
      <4>. QED  BY <1>2, <2>1, <4>2
    <3>. QED  BY <3>1, <3>2
  <2>12. MBESplits(y, g, h)
    BY <2>4, <2>5, <2>6, <2>9, <2>10, <2>11 DEF MBESplits
  <2>. QED  BY <1>1, <2>2, <2>12
<1>. QED  BY <1>3, <1>4

(* A number goes on without a carry as long as it is not too large.        *)
LEMMA GoesOn ==
    ASSUME NEW a \in Nat, NEW b \in Group
    PROVE  /\ b % Words = b
           /\ ~ TooLarge(a) => ((a + 1) * Groups + b) % Words = (a + 1) * Groups + b
           /\ TooLarge(a) => (a + 1) * Groups >= Words
<1>. DEFINE W == Words \div Groups
<1>1. Groups \in Nat /\ Groups >= 2 /\ Words \in Nat /\ W \in Nat \ {0} /\ Words = Groups * W
      /\ Groups <= Words
  BY Sizes
<1>2. b \in Nat /\ b < Groups  BY <1>1 DEF Group
<1>3. TooLarge(a) <=> a >= W - 1  BY DEF TooLarge
<1>. HIDE DEF W
<1>4. \A k \in Nat : k < Words => k % Words = k  BY <1>1
<1>5. \A c, d, e \in Nat : d >= c => e * d = c * e + e * (d - c) /\ e * (d - c) \in Nat /\ c * e \in Nat
  OBVIOUS
<1>6. ASSUME ~ TooLarge(a)
      PROVE  (a + 1) * Groups + b \in Nat /\ (a + 1) * Groups + b < Words
  <2>1. W >= a + 2 /\ a + 2 \in Nat  BY <1>1, <1>3, <1>6
  <2>2. Groups * W = (a + 2) * Groups + Groups * (W - (a + 2)) /\ Groups * (W - (a + 2)) \in Nat
        /\ (a + 2) * Groups \in Nat
    BY <1>1, <1>5, <2>1
  <2>3. (a + 2) * Groups = (a + 1) * Groups + Groups /\ (a + 1) * Groups \in Nat
    BY <1>1
  <2>. QED  BY <1>1, <1>2, <2>2, <2>3
<1>7. ASSUME TooLarge(a)
      PROVE  (a + 1) * Groups >= Words
  <2>1. a + 1 >= W /\ a + 1 \in Nat  BY <1>1, <1>3, <1>7
  <2>2. Groups * (a + 1) = W * Groups + Groups * ((a + 1) - W) /\ Groups * ((a + 1) - W) \in Nat
        /\ W * Groups \in Nat
    BY <1>1, <1>5, <2>1
  <2>3. \A c, d \in Nat : c * d = d * c  OBVIOUS
  <2>. QED  BY <1>1, <2>1, <2>2, <2>3
<1>. QED  BY <1>1, <1>2, <1>4, <1>6, <1>7

(* What ReadMBE has read so far, while it did not find it too large.       *)
Unwrapped(s, x, n) ==
    \A k \in 1..n : x[k] = (IF k = 1 THEN 0 ELSE (x[k - 1] + 1) * Groups) + s[k].low

LEMMA MBEUnwrapped ==
    ASSUME NEW s \in Seq(Byte), NEW x, NEW last, ReadsMBE(s, x, last),
           NEW n \in 0..Len(s), \A k \in 1..(n - 1) : ~ TooLarge(x[k])
    PROVE  Unwrapped(s, x, n)
<1>. SUFFICES ASSUME NEW k \in 1..n
              PROVE  x[k] = (IF k = 1 THEN 0 ELSE (x[k - 1] + 1) * Groups) + s[k].low
  BY DEF Unwrapped
<1>1. k \in 1..Len(s) /\ Len(s) \in Nat  OBVIOUS
<1>2. x[k] = ((IF k = 1 THEN 0 ELSE x[k - 1] + 1) * Groups + s[k].low) % Words
      /\ x \in [0..Len(s) -> Nat]
  BY <1>1 DEF ReadsMBE
<1>3. s[k].low \in Group /\ s[k].low \in Nat  BY <1>1, BytesHave DEF Group
<1>4. CASE k = 1
  <2>1. x[k] = (0 * Groups + s[k].low) % Words  BY <1>2, <1>4
  <2>2. 0 * Groups + s[k].low = s[k].low  BY <1>3, Sizes
  <2>3. s[k].low % Words = s[k].low  BY <1>3, GoesOn
  <2>. QED  BY <1>3, <1>4, <2>1, <2>2, <2>3
<1>5. CASE k # 1
  <2>1. x[k] = ((x[k - 1] + 1) * Groups + s[k].low) % Words  BY <1>2, <1>5
  <2>2. k - 1 \in 1..(n - 1) /\ k - 1 \in 0..Len(s)  BY <1>1, <1>5
  <2>3. ~ TooLarge(x[k - 1]) /\ x[k - 1] \in Nat  BY <1>2, <2>2
  <2>4. ((x[k - 1] + 1) * Groups + s[k].low) % Words = (x[k - 1] + 1) * Groups + s[k].low
    BY <1>3, <2>3, GoesOn
  <2>. QED  BY <1>5, <2>1, <2>4
<1>. QED  BY <1>4, <1>5

(* Each prefix of a number read is itself, one added, a number of groups   *)
(* that each count one more: the partial sums of ValueMBE.                 *)
LEMMA MBEIsTheValue ==
    ASSUME NEW s \in Seq(Byte), NEW x, NEW n \in 1..Len(s),
           x \in [0..Len(s) -> Nat], Unwrapped(s, x, n)
    PROVE  x[n] = ValueMBE(SubSeq(s, 1, n))
<1>. DEFINE t == SubSeq(s, 1, n)
            one(k) == IF k = n THEN 0 ELSE 1
            term == [k \in 1..n |-> (s[k].low + one(k)) * Place(n - k)]
            H(k) == IF k = 0 THEN 0 ELSE x[k] + 1
            f == [k \in 0..n |-> IF k = n THEN x[n] ELSE Place(n - k) * H(k)]
<1>1. n \in Nat /\ n >= 1 /\ n \in 0..Len(s) /\ Len(s) \in Nat  OBVIOUS
<1>2. DOMAIN t = 1..n /\ Len(t) = n /\ \A k \in 1..n : t[k] = s[k]  BY <1>1, Front1
<1>3. ValueMBE(t) = SumOf(term)
  <2>1. term = [k \in DOMAIN t |->
                   (t[k].low + (IF k = Len(t) THEN 0 ELSE 1)) * Power[GroupBits * (Len(t) - k)]]
    BY <1>2 DEF Place
  <2>. HIDE DEF t, term
  <2>. QED  BY <2>1 DEF ValueMBE
<1>4. \A k \in 1..n : s[k].low \in Nat /\ x[k] \in Nat /\ k \in 0..n  BY BytesHave
<1>5. \A k \in 0..n : H(k) \in Nat /\ one(k) \in Nat /\ n - k \in Nat /\ Place(n - k) \in Nat
  <2>1. \A k \in 0..n : n - k \in Nat /\ (k # 0 => k \in 1..n)  OBVIOUS
  <2>2. \A k \in 0..n : Place(n - k) \in Nat  BY <2>1, Places
  <2>. QED  BY <1>4, <2>1, <2>2
<1>. HIDE DEF t, H, one
<1>a. \A a, b \in Nat : a * b \in Nat /\ a + b \in Nat  OBVIOUS
<1>6. term \in [1..n -> Nat] /\ \A k \in 1..n : term[k] = (s[k].low + one(k)) * Place(n - k)
  BY <1>4, <1>5, <1>a
<1>7. f \in [0..n -> Nat] /\ f[n] = x[n] /\ f[0] = 0
      /\ \A k \in 0..(n - 1) : f[k] = Place(n - k) * H(k)
  <2>1. n \in 0..n /\ n \in 1..n /\ x[n] \in Nat  BY <1>1, <1>4
  <2>2. f \in [0..n -> Nat]
    <3>1. \A k \in 0..n : Place(n - k) * H(k) \in Nat  BY <1>5, <1>a
    <3>. QED  BY <2>1, <3>1
  <2>3. f[0] = 0
    <3>1. 0 \in 0..n /\ 0 # n  BY <1>1
    <3>2. f[0] = Place(n - 0) * 0  BY <3>1 DEF H
    <3>. QED  BY <1>5, <3>1, <3>2
  <2>4. \A k \in 0..(n - 1) : k \in 0..n /\ k # n  BY <1>1
  <2>. QED  BY <2>1, <2>2, <2>3, <2>4
<1>. HIDE DEF term, f
<1>8. ASSUME NEW k \in 1..n
      PROVE  f[k] = f[k - 1] + term[k]
  <2>. DEFINE l == s[k].low
              h == H(k - 1)
              Pl == Place(n - k)
  <2>1. k - 1 \in 0..(n - 1) /\ k - 1 \in 0..n /\ k \in Nat /\ n - k \in Nat /\ n - (k - 1) = (n - k) + 1
    OBVIOUS
  <2>2. l \in Nat /\ h \in Nat /\ Pl \in Nat /\ Groups \in Nat  BY <1>4, <1>5, <2>1, Sizes
  <2>3. x[k] = h * Groups + l
    <3>1. x[k] = (IF k = 1 THEN 0 ELSE (x[k - 1] + 1) * Groups) + l  BY DEF Unwrapped
    <3>2. CASE k = 1
      <4>1. h = 0  BY <3>2 DEF H
      <4>2. 0 * Groups = 0  BY <2>2
      <4>. QED  BY <3>1, <3>2, <4>1, <4>2
    <3>3. CASE k # 1
      <4>1. h = x[k - 1] + 1  BY <2>1, <3>3 DEF H
      <4>. QED  BY <3>1, <3>3, <4>1
    <3>. QED  BY <3>2, <3>3
  <2>4. f[k - 1] = (Groups * Pl) * h
    <3>1. f[k - 1] = Place(n - (k - 1)) * h  BY <1>7, <2>1
    <3>2. Place(n - (k - 1)) = Groups * Pl  BY <2>1, Places
    <3>. QED  BY <3>1, <3>2
  <2>5. term[k] = (l + one(k)) * Pl  BY <1>6
  <2>. HIDE DEF l, h, Pl
  <2>6. CASE k = n
    <3>1. one(k) = 0 /\ f[k] = x[k]  BY <1>7, <2>6 DEF one
    <3>2. Pl = 1
      <4>1. n - k = 0  BY <1>1, <2>6
      <4>. QED  BY <4>1, Places DEF Pl
    <3>3. (Groups * 1) * h = h * Groups /\ (l + 0) * 1 = l  BY <2>2
    <3>. QED  BY <2>3, <2>4, <2>5, <3>1, <3>2, <3>3
  <2>7. CASE k # n
    <3>1. k \in 0..(n - 1) /\ k # 0  BY <2>1, <2>7
    <3>2. one(k) = 1 /\ H(k) = x[k] + 1  BY <2>7, <3>1 DEF one, H
    <3>3. f[k] = Pl * ((h * Groups + l) + 1)  BY <1>7, <2>3, <3>1, <3>2 DEF Pl
    <3>4. \A a, b, c, d \in Nat : a * ((b * c + d) + 1) = (c * a) * b + (d + 1) * a  OBVIOUS
    <3>. QED  BY <2>2, <2>4, <2>5, <3>2, <3>3, <3>4
  <2>. QED  BY <2>6, <2>7
<1>9. SumOf(term) = f[n]
  <2>1. n \in Nat /\ term \in [1..n -> Nat] /\ f \in [0..n -> Nat] /\ f[0] = 0
    BY <1>1, <1>6, <1>7
  <2>. QED  BY <1>8, <2>1, SumIs
<1>. QED  BY <1>3, <1>7, <1>9 DEF t

LEMMA MBEIsNoticed ==
    ASSUME NEW s \in Seq(Byte)
    PROVE  /\ ReadMBE(s).err = "nil" => ReadMBE(s).x = ValueMBE(SubSeq(s, 1, ReadMBE(s).n))
           /\ ReadMBE(s).err = "overflow" =>
                 (ValueMBE(SubSeq(s, 1, ReadMBE(s).n)) + 1) * Groups >= Words
<1>1. PICK x, last : ReadsMBE(s, x, last)  BY ReadMBEIs
<1>2. Len(s) \in Nat /\ last \in 0..Len(s) /\ x \in [0..Len(s) -> Nat]
      /\ \A n \in 0..(last - 1) : ~ Full(x, n)
  BY <1>1 DEF ReadsMBE
<1>3. ReadMBE(s) = IF Full(x, last) THEN Number(x[last], last, "overflow")
                   ELSE IF last = Len(s) THEN Number(x[last], last, "EOF")
                   ELSE Number(x[last + 1], last + 1, "nil")
  BY <1>1 DEF ReadsMBE
<1>4. \A k \in 1..(last - 1) : ~ TooLarge(x[k])
  <2>1. \A k \in 1..(last - 1) : k \in 0..(last - 1) /\ k > 0  BY <1>2
  <2>. QED  BY <1>2, <2>1 DEF Full
<1>5. ASSUME ReadMBE(s).err = "nil"
      PROVE  ReadMBE(s).x = ValueMBE(SubSeq(s, 1, ReadMBE(s).n))
  <2>1. ~ Full(x, last) /\ last # Len(s) /\ ReadMBE(s) = Number(x[last + 1], last + 1, "nil")
    BY <1>3, <1>5 DEF Number
  <2>2. last + 1 \in 1..Len(s) /\ last + 1 \in 0..Len(s) /\ last \in Nat  BY <1>2, <2>1
  <2>3. \A k \in 1..(last + 1 - 1) : ~ TooLarge(x[k])
    <3>1. \A k \in 1..(last + 1 - 1) : k \in 1..(last - 1) \/ (k = last /\ last > 0)  BY <2>2
    <3>. QED  BY <1>4, <2>1, <3>1 DEF Full
  <2>4. Unwrapped(s, x, last + 1)  BY <1>1, <2>2, <2>3, MBEUnwrapped
  <2>5. x[last + 1] = ValueMBE(SubSeq(s, 1, last + 1))  BY <1>2, <2>2, <2>4, MBEIsTheValue
  <2>. QED  BY <2>1, <2>5 DEF Number
<1>6. ASSUME ReadMBE(s).err = "overflow"
      PROVE  (ValueMBE(SubSeq(s, 1, ReadMBE(s).n)) + 1) * Groups >= Words
  <2>1. Full(x, last) /\ ReadMBE(s) = Number(x[last], last, "overflow")
    BY <1>3, <1>6 DEF Number
  <2>2. last \in 1..Len(s) /\ x[last] \in Nat  BY <1>2, <2>1 DEF Full
  <2>3. Unwrapped(s, x, last)  BY <1>1, <1>2, <1>4, MBEUnwrapped
  <2>4. x[last] = ValueMBE(SubSeq(s, 1, last))  BY <1>2, <2>2, <2>3, MBEIsTheValue
  <2>5. TooLarge(x[last])  BY <2>1 DEF Full
  <2>6. 0 \in Group  BY Sizes DEF Group
  <2>7. (x[last] + 1) * Groups >= Words  BY <2>2, <2>5, <2>6, GoesOn
  <2>. QED  BY <2>1, <2>4, <2>7 DEF Number
<1>. QED  BY <1>5, <1>6

LEMMA MBERoundTrip ==
    ASSUME NEW y \in 0..(Words - 1)
    PROVE  /\ WriteMBE(y) \in Seq(Byte) /\ Len(WriteMBE(y)) <= MaxLen
           /\ ReadMBE(WriteMBE(y)) = Number(y, Len(WriteMBE(y)), "nil")
<1>. DEFINE g == MBEGroups[y]
            s == WithMore(g)
            Ln == Len(g)
<1>1. y \in Nat /\ y < Words /\ Words \in Nat /\ Groups \in Nat  BY Sizes
<1>2. PICK h : MBESplits(y, g, h)  BY <1>1, MBESplitting
<1>. HIDE DEF g
<1>3. g \in Seq(Group) /\ Ln \in Nat /\ Ln >= 1
  BY <1>2 DEF MBESplits
<1>4. s \in Seq(Byte) /\ Len(s) = Ln /\ \A n \in 1..Ln :
          /\ s[n].low = g[n] /\ g[n] \in Group /\ (s[n].more <=> n < Ln)
  BY <1>3, WithMoreIs
<1>5. PICK x, last : ReadsMBE(s, x, last)  BY <1>4, ReadMBEIs
<1>. HIDE DEF s, Ln
<1>6. h \in [1..Ln -> Nat] /\ h[1] = g[1] /\ h[Ln] = y
      /\ (\A n \in 2..Ln : h[n] = (h[n - 1] + 1) * Groups + g[n])
      /\ \A n \in 1..Ln : h[n] <= y /\ h[n] + 1 >= Place(n - 1)
  BY <1>2 DEF MBESplits, Ln
<1>7. \A n \in 1..Ln : h[n] \in Nat /\ h[n] < Words  BY <1>1, <1>6
<1>8. ASSUME NEW n \in 1..Ln, n < Ln
      PROVE  ~ TooLarge(h[n])
  <2>1. n + 1 \in 2..Ln /\ n + 1 \in 1..Ln /\ n + 1 - 1 = n  BY <1>3, <1>8
  <2>2. h[n + 1] = (h[n] + 1) * Groups + g[n + 1] /\ g[n + 1] \in Group /\ h[n] \in Nat /\ h[n + 1] < Words
    BY <1>4, <1>6, <1>7, <2>1
  <2>3. g[n + 1] \in Nat /\ (h[n] + 1) * Groups \in Nat
    <3>1. \A a, b \in Nat : (a + 1) * b \in Nat  OBVIOUS
    <3>. QED  BY <1>1, <2>2, <3>1, GroupsAreNumbers
  <2>4. ~ ((h[n] + 1) * Groups >= Words)  BY <1>1, <2>2, <2>3
  <2>. QED  BY <2>2, <2>4, GoesOn
<1>9. x \in [0..Ln -> Nat] /\ \A n \in 1..Ln :
          x[n] = ((IF n = 1 THEN 0 ELSE x[n - 1] + 1) * Groups + g[n]) % Words
  BY <1>4, <1>5 DEF ReadsMBE
<1>10. \A n \in 1..Ln : x[n] = h[n]
  <2>. DEFINE U == {n \in 1..Ln : x[n] # h[n]}
  <2>. SUFFICES ASSUME U # {} PROVE FALSE
    OBVIOUS
  <2>1. PICK n \in U : \A m \in U : n <= m
    <3>1. U \in SUBSET Nat  BY <1>3
    <3>. HIDE DEF U
    <3>. QED  BY <3>1, Least
  <2>2. n \in 1..Ln /\ x[n] # h[n]  BY <2>1
  <2>3. g[n] \in Group /\ g[n] \in Nat  BY <1>4, <2>2, GroupsAreNumbers
  <2>4. CASE n = 1
    <3>1. x[1] = (0 * Groups + g[1]) % Words  BY <1>9, <2>2, <2>4
    <3>2. 0 * Groups + g[1] = g[1]  BY <1>1, <2>3, <2>4
    <3>3. g[1] % Words = g[1]  BY <2>3, <2>4, GoesOn
    <3>. QED  BY <1>6, <2>2, <2>4, <3>1, <3>2, <3>3
  <2>5. CASE n # 1
    <3>1. n - 1 \in 1..Ln /\ n - 1 < Ln /\ n \in 2..Ln /\ ~ (n <= n - 1)  BY <1>3, <2>2, <2>5
    <3>2. n - 1 \notin U  BY <2>1, <3>1
    <3>3. x[n - 1] = h[n - 1]  BY <3>1, <3>2
    <3>4. x[n] = ((h[n - 1] + 1) * Groups + g[n]) % Words  BY <1>9, <2>2, <2>5, <3>3
    <3>5. ~ TooLarge(h[n - 1]) /\ h[n - 1] \in Nat  BY <1>7, <1>8, <3>1
    <3>6. x[n] = (h[n - 1] + 1) * Groups + g[n]  BY <2>3, <3>4, <3>5, GoesOn
    <3>. QED  BY <1>6, <2>2, <3>1, <3>6
  <2>. QED  BY <2>4, <2>5
<1>11. Ln <= MaxLen
  <2>1. CASE Ln = 1  BY <2>1, MaxLenIs
  <2>2. CASE Ln # 1
    <3>. DEFINE m == Ln - 2
    <3>1. m \in Nat /\ m + 1 = Ln - 1 /\ Ln - 1 - 1 = m /\ Ln - 1 \in 1..Ln /\ Ln \in 2..Ln /\ Ln \in 1..Ln
      BY <1>3, <2>2
    <3>. HIDE DEF m
    <3>2. y = (h[Ln - 1] + 1) * Groups + g[Ln] /\ h[Ln - 1] \in Nat /\ h[Ln - 1] + 1 >= Place(m)
          /\ g[Ln] \in Group
      BY <1>4, <1>6, <3>1
    <3>3. g[Ln] \in Nat /\ Place(m) \in Nat /\ Place(Ln - 1) = Groups * Place(m)
      BY <3>1, <3>2, GroupsAreNumbers, Places
    <3>4. Groups * Place(m) <= (h[Ln - 1] + 1) * Groups
      <4>1. \A a, b, c \in Nat : a >= b => a * c = c * b + c * (a - b) /\ c * (a - b) \in Nat
                                          /\ c * b \in Nat
        OBVIOUS
      <4>2. \A a, b, c \in Nat : a >= b => c * b <= a * c  BY <4>1
      <4>3. h[Ln - 1] + 1 \in Nat  BY <3>2
      <4>. QED  BY <1>1, <3>2, <3>3, <4>2, <4>3
    <3>5. Groups * Place(m) \in Nat /\ (h[Ln - 1] + 1) * Groups \in Nat
      <4>1. \A a, b \in Nat : a * b \in Nat /\ (a + 1) * b \in Nat  OBVIOUS
      <4>. QED  BY <1>1, <3>2, <3>3, <4>1
    <3>6. Place(Ln - 1) < Words  BY <1>1, <3>2, <3>3, <3>4, <3>5
    <3>7. Ln - 1 \in Nat  BY <3>1
    <3>8. Ln - 1 + 1 <= MaxLen  BY <3>6, <3>7, LengthFits
    <3>. QED  BY <1>3, <3>8
  <2>. QED  BY <2>1, <2>2
<1>12. \A n \in 0..(Ln - 1) : ~ Full(x, n)
  <2>1. \A n \in 0..(Ln - 1) : n > 0 => n \in 1..Ln /\ n < Ln  BY <1>3
  <2>. QED  BY <1>8, <1>10, <2>1 DEF Full
<1>13. last = Ln - 1
  <2>1. last \in 0..Ln /\ (\A n \in 0..(last - 1) : s[n + 1].more)
        /\ (last < Ln => Full(x, last) \/ ~ s[last + 1].more)
    BY <1>4, <1>5 DEF ReadsMBE
  <2>2. last # Ln
    <3>. SUFFICES ASSUME last = Ln PROVE FALSE
      OBVIOUS
    <3>1. Ln - 1 \in 0..(last - 1) /\ Ln - 1 + 1 = Ln /\ Ln \in 1..Ln  BY <1>3
    <3>2. s[Ln].more  BY <2>1, <3>1
    <3>. QED  BY <1>3, <1>4, <3>1, <3>2
  <2>3. last < Ln /\ last \in 0..(Ln - 1) /\ last + 1 \in 1..Ln  BY <1>3, <2>1, <2>2
  <2>4. ~ s[last + 1].more  BY <1>12, <2>1, <2>3
  <2>. QED  BY <1>3, <1>4, <2>3, <2>4
<1>14. ReadMBE(s) = Number(y, Len(s), "nil")
  <2>1. last # Ln /\ last + 1 = Ln /\ last \in 0..(Ln - 1) /\ Ln \in 1..Ln  BY <1>3, <1>13
  <2>2. ~ Full(x, last)  BY <1>12, <2>1
  <2>3. ReadMBE(s) = Number(x[last + 1], last + 1, "nil")
    BY <1>4, <1>5, <2>1, <2>2 DEF ReadsMBE
  <2>. QED  BY <1>4, <1>6, <1>10, <2>1, <2>3
<1>. QED  BY <1>4, <1>11, <1>14 DEF WriteMBE, g, s, Ln

-----------------------------------------------------------------------------
(* Object headers.                                                         *)

LEMMA Quotient ==
    ASSUME NEW b \in Nat, NEW q \in Nat, NEW r \in 0..(b - 1)
    PROVE  (b * q + r) \div b = q /\ (b * q + r) % b = r
<1>. DEFINE n == b * q + r
            d == n \div b
            e == n % b
<1>1. b >= 1 /\ r \in Nat /\ r < b /\ n \in Nat
  <2>1. b * q \in Nat  OBVIOUS
  <2>. QED  BY <2>1
<1>. HIDE DEF n
<1>2. d \in Nat /\ e \in Nat /\ e < b /\ n = b * d + e
  <2>1. n = b * (n \div b) + (n % b)  BY <1>1
  <2>2. n % b \in 0..(b - 1)  BY <1>1
  <2>3. n \div b \in Nat  BY <1>1
  <2>. QED  BY <2>1, <2>2, <2>3
<1>. HIDE DEF d, e
<1>3. \A x, y \in Nat : x > y => b * x = b * y + b + b * (x - y - 1) /\ b * (x - y - 1) \in Nat
  OBVIOUS
<1>4. \A x \in Nat : b * x \in Nat  OBVIOUS
<1>5. ~ (d > q)
  <2>. SUFFICES ASSUME d > q PROVE FALSE
    OBVIOUS
  <2>1. b * d = b * q + b + b * (d - q - 1) /\ b * (d - q - 1) \in Nat  BY <1>2, <1>3
  <2>2. n = b * q + r  BY DEF n
  <2>. QED  BY <1>1, <1>2, <1>4, <2>1, <2>2
<1>6. ~ (q > d)
  <2>. SUFFICES ASSUME q > d PROVE FALSE
    OBVIOUS
  <2>1. b * q = b * d + b + b * (q - d - 1) /\ b * (q - d - 1) \in Nat  BY <1>2, <1>3
  <2>2. n = b * q + r  BY DEF n
  <2>. QED  BY <1>1, <1>2, <1>4, <2>1, <2>2
<1>7. d = q  BY <1>2, <1>5, <1>6
<1>8. e = r
  <2>1. n = b * q + r  BY DEF n
  <2>. QED  BY <1>1, <1>2, <1>4, <1>7, <2>1
<1>. QED  BY <1>7, <1>8 DEF d, e, n

LEMMA HeaderRoundTrip ==
    ASSUME NEW type \in 0..(Types - 1), NEW size \in 0..MaxSize
    PROVE  /\ Header(type, size) \in 0..(Words - 1)
           /\ HeaderType(Header(type, size)) = type
           /\ HeaderSize(Header(type, size)) = size
<1>. DEFINE Ln == Lows
            T == Types
            M == Power[WordBits - TypeBits - LowBits]
            a == size \div Ln
            l == size % Ln
            h == Header(type, size)
<1>1. Ln \in Nat \ {0} /\ T \in Nat \ {0} /\ M \in Nat \ {0} /\ Words = T * (Ln * M)
      /\ MaxSize = Ln * M - 1
  <2>1. TypeBits \in Nat /\ LowBits \in Nat /\ WordBits - TypeBits \in Nat
        /\ WordBits - TypeBits - LowBits \in Nat
        /\ LowBits + (WordBits - TypeBits - LowBits) = WordBits - TypeBits
        /\ TypeBits + (WordBits - TypeBits) = WordBits
    BY Base128Assumption
  <2>2. Power[WordBits] = Power[TypeBits] * Power[WordBits - TypeBits]
        /\ Power[WordBits - TypeBits] = Power[LowBits] * M
    BY <2>1, PowerOfSum
  <2>. QED  BY <2>1, <2>2, PowerUnfolds DEF Lows, Types, Words, MaxSize
<1>2. type \in Nat /\ type < T /\ size \in Nat /\ size < Ln * M
  <2>1. Ln * M \in Nat  BY <1>1
  <2>. HIDE DEF Ln, T, M
  <2>. QED  BY <1>1, <2>1 DEF T
<1>3. a \in Nat /\ l \in 0..(Ln - 1) /\ size = Ln * a + l
  <2>. HIDE DEF Ln
  <2>1. size = Ln * (size \div Ln) + (size % Ln)  BY <1>1, <1>2
  <2>2. size % Ln \in 0..(Ln - 1)  BY <1>1, <1>2
  <2>3. size \div Ln \in Nat  BY <1>1, <1>2
  <2>. QED  BY <2>1, <2>2, <2>3
<1>4. h = (size - l) * T + type * Ln + l  BY DEF Header
<1>. HIDE DEF Ln, T, M, a, l, h
<1>5. l \in Nat /\ l < Ln /\ Ln * a \in Nat /\ size - l = Ln * a
  <2>1. l \in Nat /\ l < Ln /\ Ln * a \in Nat  BY <1>1, <1>3
  <2>. QED  BY <1>2, <1>3, <2>1
<1>6. h = Ln * (T * a + type) + l
  <2>1. \A x, y, z, w \in Nat : (x * y) * z + w * x = x * (z * y + w)  OBVIOUS
  <2>2. (Ln * a) * T + type * Ln = Ln * (T * a + type)  BY <1>1, <1>2, <1>3, <2>1
  <2>. QED  BY <1>4, <1>5, <2>2
<1>7. T * a + type \in Nat
  <2>1. T * a \in Nat  BY <1>1, <1>3
  <2>. QED  BY <1>2, <2>1
<1>8. h \div Ln = T * a + type /\ h % Ln = l  BY <1>1, <1>3, <1>6, <1>7, Quotient
<1>9. (T * a + type) % T = type
  <2>1. type \in 0..(T - 1)  BY <1>1, <1>2
  <2>. QED  BY <1>1, <1>3, <2>1, Quotient
<1>10. HeaderType(h) = type  BY <1>8, <1>9 DEF HeaderType, Ln, T
<1>11. h < Words /\ h \in Nat
  <2>0. \A x, y \in Nat : x * y \in Nat  OBVIOUS
  <2>1. a < M
    <3>. SUFFICES ASSUME a >= M PROVE FALSE
      BY <1>1, <1>3
    <3>1. Ln * a = Ln * M + Ln * (a - M) /\ Ln * (a - M) \in Nat /\ Ln * M \in Nat  BY <1>1, <1>3
    <3>. QED  BY <1>2, <1>3, <1>5, <3>1
  <2>2. \A x, y, z \in Nat : y < z => x * z = x * y + x + x * (z - y - 1) /\ x * (z - y - 1) \in Nat /\ x * y \in Nat
    OBVIOUS
  <2>3. T * M = T * a + T + T * (M - a - 1) /\ T * (M - a - 1) \in Nat /\ T * a \in Nat
    BY <1>1, <1>3, <2>1, <2>2
  <2>4. T * a + type < T * M /\ T * M \in Nat  BY <1>1, <1>2, <2>3
  <2>. DEFINE u == T * a + type
              v == T * M
  <2>5. u \in Nat /\ v \in Nat /\ u < v  BY <1>7, <2>4
  <2>. HIDE DEF u, v
  <2>6. Ln * v = Ln * u + Ln + Ln * (v - u - 1) /\ Ln * (v - u - 1) \in Nat /\ Ln * u \in Nat
    BY <1>1, <2>2, <2>5
  <2>7. Ln * u + l < Ln * v /\ Ln * u + l \in Nat  BY <1>1, <1>5, <2>6
  <2>8. Ln * v = T * (Ln * M)
    <3>1. \A x, y, z \in Nat : x * (y * z) = y * (x * z)  OBVIOUS
    <3>. QED  BY <1>1, <3>1 DEF v
  <2>. QED  BY <1>1, <1>6, <2>7, <2>8 DEF u
<1>12. HeaderSize(h) = size
  <2>. DEFINE k == type * Ln + l
              c == k \div T
              s == h \div T
  <2>1. k \in Nat /\ k < T * Ln
    <3>1. type * Ln \in Nat  BY <1>1, <1>2
    <3>2. T * Ln = type * Ln + Ln + (T - type - 1) * Ln /\ (T - type - 1) * Ln \in Nat  BY <1>1, <1>2
    <3>. QED  BY <1>1, <1>5, <3>1, <3>2
  <2>. HIDE DEF k
  <2>2. c \in Nat /\ k % T \in 0..(T - 1) /\ k = T * c + (k % T)
    <3>1. k = T * (k \div T) + (k % T)  BY <1>1, <2>1
    <3>2. k % T \in 0..(T - 1)  BY <1>1, <2>1
    <3>3. k \div T \in Nat  BY <1>1, <2>1
    <3>. QED  BY <3>1, <3>2, <3>3
  <2>. HIDE DEF c
  <2>3. c \in 0..(Ln - 1)
    <3>. SUFFICES ASSUME c >= Ln PROVE FALSE
      BY <1>1, <2>2
    <3>1. T * c = T * Ln + T * (c - Ln) /\ T * (c - Ln) \in Nat /\ T * Ln \in Nat  BY <1>1, <2>2
    <3>2. k % T \in Nat  BY <1>1, <2>2
    <3>. QED  BY <2>1, <2>2, <3>1, <3>2
  <2>4. h = T * (Ln * a + c) + (k % T)
    <3>1. \A x, y, z, w \in Nat : (x * y) * z + z * w = z * (x * y + w)  OBVIOUS
    <3>2. (Ln * a) * T + T * c = T * (Ln * a + c)  BY <1>1, <1>3, <2>2, <3>1
    <3>3. h = (Ln * a) * T + k
      <4>1. (Ln * a) * T \in Nat /\ type * Ln \in Nat  BY <1>1, <1>2, <1>5
      <4>. QED  BY <1>4, <1>5, <4>1 DEF k
    <3>4. (Ln * a) * T \in Nat /\ T * c \in Nat /\ k % T \in Nat  BY <1>1, <1>5, <2>2
    <3>. QED  BY <2>2, <3>2, <3>3, <3>4
  <2>5. Ln * a + c \in Nat  BY <1>5, <2>2
  <2>6. s = Ln * a + c  BY <1>1, <2>2, <2>4, <2>5, Quotient
  <2>7. s % Ln = c  BY <1>1, <1>3, <2>3, <2>6, Quotient
  <2>8. HeaderSize(h) = (s - (s % Ln)) + (h % Ln)  BY DEF HeaderSize, Ln, T
  <2>. HIDE DEF s
  <2>9. (s - (s % Ln)) + (h % Ln) = Ln * a + l  BY <1>5, <1>8, <2>2, <2>6, <2>7
  <2>. QED  BY <1>3, <2>8, <2>9
<1>. QED  BY <1>10, <1>11, <1>12, Sizes DEF h

-----------------------------------------------------------------------------
(* The invariant.                                                          *)

(* What arrives is what was sent, up to what a connection loses and the    *)
(* datastore reorders, and the result is what decoding it gives.           *)
THEOREM Invariance == Spec => []Inv
<1>1. Init => Inv  BY DEF Init, Inv
<1>2. Inv /\ [Next]_vars => Inv'
  <2>. SUFFICES ASSUME Inv, [Next]_vars PROVE Inv'
    OBVIOUS
  <2>1. CASE Encode
    <3>1. pc' = "sent" /\ format' = format /\ value' \in ValuesOf(format) /\ data' = Encoded(format, value')
      BY <2>1 DEF Encode
    <3>2. Sent'  BY <3>1 DEF Sent
    <3>. QED  BY <3>1, <3>2 DEF Inv
  <2>2. CASE Receive
    <3>1. pc = "start" /\ pc' = "sent" /\ format' = format /\ value' = value
          /\ \/ format \in {"LE", "MBE"} /\ data' \in ReceivedNumbers
             \/ format = "binary" /\ data' \in ReceivedObjects
      BY <2>2 DEF Receive
    <3>2. value = None  BY <3>1 DEF Inv
    <3>3. Sent'  BY <3>1, <3>2 DEF Sent
    <3>. QED  BY <3>1, <3>3 DEF Inv
  <2>3. CASE Cut
    <3>1. pc = "sent" /\ format = "lines" /\ pc' = "moved" /\ format' = format /\ value' = value
          /\ \E n \in 0..(Len(data) - 1) : data' = SubSeq(data, 1, n)
      BY <2>3 DEF Cut
    <3>2. value \in ValuesOf(format) /\ data = Encoded(format, value)  BY <3>1 DEF Inv, Sent
    <3>3. Torn'  BY <3>1, <3>2 DEF Torn
    <3>. QED  BY <3>1, <3>3 DEF Inv
  <2>4. CASE Reorder
    <3>1. pc = "sent" /\ format = "props" /\ pc' = "moved" /\ format' = format /\ value' = value
          /\ \E i \in DOMAIN data : data' = LastOf(data[i].name, data)
      BY <2>4 DEF Reorder
    <3>2. value \in ValuesOf(format) /\ data = Encoded(format, value)  BY <3>1 DEF Inv, Sent
    <3>3. Shuffled'  BY <3>1, <3>2 DEF Shuffled
    <3>. QED  BY <3>1, <3>3 DEF Inv
  <2>5. CASE Decode
    <3>1. pc \in {"sent", "moved"} /\ pc' = "done" /\ UNCHANGED <<format, value, data>>
          /\ result' = Decoded
      BY <2>5 DEF Decode
    <3>2. Sent \/ Torn \/ Shuffled  BY <3>1 DEF Inv
    <3>3. (Sent \/ Torn \/ Shuffled)'  BY <3>1, <3>2 DEF Sent, Torn, Shuffled
    <3>4. result' = Decoded'  BY <3>1 DEF Decoded
    <3>. QED  BY <3>1, <3>3, <3>4 DEF Inv
  <2>6. CASE UNCHANGED vars
    BY <2>6 DEF vars, Inv, Sent, Torn, Shuffled, Decoded
  <2>. QED  BY <2>1, <2>2, <2>3, <2>4, <2>5, <2>6 DEF Next
<1>. QED  BY <1>1, <1>2, PTL DEF Spec

(* Whatever a decoder reads, it was in this format.                        *)
LEMMA NumbersArrive ==
    ASSUME Inv, pc = "done", format \in {"LE", "MBE", "header"}
    PROVE  /\ result = Decoded
           /\ \/ value \in ValuesOf(format) /\ data = Encoded(format, value)
              \/ format \in {"LE", "MBE"} /\ value = None /\ data \in Seq(Byte)
<1>1. result = Decoded /\ (Sent \/ Torn \/ Shuffled)  BY DEF Inv
<1>2. Sent  BY <1>1 DEF Torn, Shuffled
<1>. QED  BY <1>1, <1>2, CodecAssumption DEF Sent

(* Both overflow checks, of ReadUvarint and readBase128MBE, notice exactly *)
(* what a word cannot hold.                                                *)
THEOREM OverflowNoticed == Spec => []OverflowIsNoticed
<1>1. Inv => OverflowIsNoticed
  <2>. SUFFICES ASSUME Inv, pc = "done", format \in {"LE", "MBE"}
                PROVE  /\ result.err = "nil" =>
                             result.x = IF format = "LE" THEN ValueLE(Read) ELSE ValueMBE(Read)
                       /\ result.err = "overflow" /\ format = "MBE" =>
                             (ValueMBE(Read) + 1) * Groups >= Words
    BY DEF OverflowIsNoticed
  <2>1. data \in Seq(Byte)
    <3>1. CASE value \in ValuesOf(format) /\ data = Encoded(format, value)
      <4>1. value \in 0..(Words - 1)  BY <3>1 DEF ValuesOf
      <4>2. format = "LE" => data = WriteLE(value)  BY <3>1 DEF Encoded
      <4>3. format = "MBE" => data = WriteMBE(value)  BY <3>1 DEF Encoded
      <4>. QED  BY <4>1, <4>2, <4>3, LERoundTrip, MBERoundTrip
    <3>. QED  BY <3>1, NumbersArrive
  <2>2. CASE format = "LE"
    <3>1. result = ReadLE(data)  BY <2>2, NumbersArrive DEF Decoded
    <3>2. result.err = "nil" => result.x = ValueLE(Read)  BY <2>1, <3>1, LEIsTheValue DEF Read
    <3>. QED  BY <2>2, <3>2
  <2>3. CASE format = "MBE"
    <3>1. result = ReadMBE(data)  BY <2>3, NumbersArrive DEF Decoded
    <3>2. /\ result.err = "nil" => result.x = ValueMBE(Read)
          /\ result.err = "overflow" => (ValueMBE(Read) + 1) * Groups >= Words
      BY <2>1, <3>1, MBEIsNoticed DEF Read
    <3>. QED  BY <2>3, <3>2
  <2>. QED  BY <2>2, <2>3
<1>. QED  BY <1>1, Invariance, PTL

(* All numbers of a word, whatever its size and that of a group, and all   *)
(* object headers survive being written and read.                          *)
LEMMA NumbersAreBack ==
    ASSUME Inv, pc = "done", value # None
    PROVE  NumberIsBack
<1>1. CASE format = "LE"
  <2>1. result = ReadLE(data) /\ value \in 0..(Words - 1) /\ data = WriteLE(value)
    BY <1>1, NumbersArrive DEF Decoded, ValuesOf, Encoded
  <2>. QED  BY <1>1, <2>1, LERoundTrip DEF NumberIsBack
<1>2. CASE format = "MBE"
  <2>1. result = ReadMBE(data) /\ value \in 0..(Words - 1) /\ data = WriteMBE(value)
    BY <1>2, NumbersArrive DEF Decoded, ValuesOf, Encoded
  <2>. QED  BY <1>2, <2>1, MBERoundTrip DEF NumberIsBack
<1>3. CASE format = "header"
  <2>. DEFINE h == Header(value.type, value.size)
  <2>1. value \in ValuesOf(format) /\ data = Encoded(format, value) /\ result = Decoded
    BY <1>3, NumbersArrive
  <2>2. value.type \in 0..(Types - 1) /\ value.size \in 0..MaxSize
    BY <1>3, <2>1 DEF ValuesOf
  <2>3. data = WriteLE(h) /\ result = ReadHeader(data)  BY <1>3, <2>1 DEF Encoded, Decoded
  <2>4. h \in 0..(Words - 1) /\ HeaderType(h) = value.type /\ HeaderSize(h) = value.size
    BY <2>2, HeaderRoundTrip
  <2>. HIDE DEF h
  <2>5. ReadLE(data).x = h /\ ReadLE(data).err = "nil"  BY <2>3, <2>4, LERoundTrip DEF Number
  <2>. QED  BY <1>3, <2>3, <2>4, <2>5 DEF ReadHeader, NumberIsBack
<1>. QED  BY <1>1, <1>2, <1>3 DEF NumberIsBack

-----------------------------------------------------------------------------
(* pkt-lines: the length of a line and its digits.                         *)

LEMMA QuotientOf ==
    ASSUME NEW b \in Nat \ {0}, NEW x \in Nat
    PROVE  /\ x \div b \in Nat /\ x % b \in 0..(b - 1) /\ x % b \in Nat /\ x % b <= b - 1
           /\ x = b * (x \div b) + (x % b)
<1>1. x = b * (x \div b) + (x % b)  OBVIOUS
<1>2. x % b \in 0..(b - 1)  OBVIOUS
<1>3. x \div b \in Nat  OBVIOUS
<1>. QED  BY <1>1, <1>2, <1>3

(* Dividing twice is dividing once by the product.                         *)
LEMMA QuotientTwice ==
    ASSUME NEW b \in Nat \ {0}, NEW c \in Nat \ {0}, NEW x \in Nat
    PROVE  x \div (b * c) = (x \div b) \div c
<1>. DEFINE q == x \div b
            r == x % b
            p == q \div c
            s == q % c
<1>1. q \in Nat /\ r \in Nat /\ r <= b - 1 /\ x = b * q + r  BY QuotientOf
<1>. HIDE DEF q, r
<1>2. p \in Nat /\ s \in Nat /\ s <= c - 1 /\ q = c * p + s  BY <1>1, QuotientOf
<1>. HIDE DEF p, s
<1>3. x = (b * c) * p + (b * s + r)
  <2>1. \A y, z, u, v \in Nat : y * (z * u + v) = (y * z) * u + y * v  OBVIOUS
  <2>2. b * q = (b * c) * p + b * s  BY <1>2, <2>1
  <2>3. (b * c) * p \in Nat /\ b * s \in Nat
    <3>1. \A y, z \in Nat : y * z \in Nat  OBVIOUS
    <3>. QED  BY <1>2, <3>1
  <2>. QED  BY <1>1, <2>2, <2>3
<1>4. b * c \in Nat /\ b * s + r \in 0..(b * c - 1)
  <2>1. b * c = b * s + b + b * (c - s - 1) /\ b * (c - s - 1) \in Nat /\ b * s \in Nat
        /\ b * c \in Nat
    BY <1>2
  <2>. QED  BY <1>1, <2>1
<1>5. x \div (b * c) = p  BY <1>2, <1>3, <1>4, Quotient
<1>. QED  BY <1>5 DEF p, q

Digit == 0..(Base - 1)

LEMMA DigitsAre ==
    ASSUME NEW x \in Nat, x < Base * Base * Base * Base
    PROVE  /\ Digits(x) \in Seq(Digit) /\ Len(Digits(x)) = Width
           /\ LineLen(Digits(x)) = x - Width
<1>. DEFINE q1 == x \div Base
            q2 == q1 \div Base
            q3 == q2 \div Base
            r1 == x % Base
            r2 == q1 % Base
            r3 == q2 % Base
<1>0. Base \in Nat \ {0} /\ Base >= 2  BY PktlineAssumption
<1>1. q1 \in Nat /\ r1 \in Digit /\ r1 \in Nat /\ x = Base * q1 + r1
  BY <1>0, QuotientOf DEF Digit
<1>2. q2 \in Nat /\ r2 \in Digit /\ r2 \in Nat /\ q1 = Base * q2 + r2
  <2>. HIDE DEF q1
  <2>. QED  BY <1>0, <1>1, QuotientOf DEF Digit
<1>3. q3 \in Nat /\ r3 \in Digit /\ r3 \in Nat /\ q2 = Base * q3 + r3
  <2>. HIDE DEF q2
  <2>. QED  BY <1>0, <1>2, QuotientOf DEF Digit
<1>4. x \div (Base * Base) = q2  BY <1>0, QuotientTwice
<1>5. x \div (Base * Base * Base) = q3
  <2>1. Base * Base \in Nat \ {0}
    <3>1. \A b \in Nat \ {0} : b * b \in Nat \ {0}  OBVIOUS
    <3>. QED  BY <1>0, <3>1
  <2>2. x \div ((Base * Base) * Base) = (x \div (Base * Base)) \div Base
    BY <1>0, <2>1, QuotientTwice
  <2>. QED  BY <1>4, <2>2
<1>. HIDE DEF q1, q2, q3, r1, r2, r3
<1>6. q3 < Base
  <2>. SUFFICES ASSUME q3 >= Base PROVE FALSE
    BY <1>0, <1>3
  <2>1. \A b, c \in Nat : b * c \in Nat  OBVIOUS
  <2>2. \A b, c, d \in Nat : c >= d => b * c >= b * d
    <3>1. \A b, c, d \in Nat : c >= d => b * c = b * d + b * (c - d) /\ b * (c - d) \in Nat /\ b * d \in Nat
      OBVIOUS
    <3>. QED  BY <3>1
  <2>3. q2 >= Base * Base
    <3>1. Base * q3 >= Base * Base /\ Base * q3 \in Nat /\ Base * Base \in Nat
      BY <1>0, <1>3, <2>1, <2>2
    <3>. QED  BY <1>3, <3>1
  <2>4. q1 >= Base * (Base * Base) /\ Base * (Base * Base) \in Nat
    <3>1. Base * q2 >= Base * (Base * Base) /\ Base * q2 \in Nat /\ Base * (Base * Base) \in Nat
      BY <1>0, <1>2, <2>1, <2>2, <2>3
    <3>. QED  BY <1>2, <3>1
  <2>5. x >= Base * (Base * (Base * Base))
    <3>1. Base * q1 >= Base * (Base * (Base * Base)) /\ Base * q1 \in Nat
          /\ Base * (Base * (Base * Base)) \in Nat
      BY <1>0, <1>1, <2>1, <2>2, <2>4
    <3>. QED  BY <1>1, <3>1
  <2>6. \A b \in Nat : b * (b * (b * b)) = b * b * b * b /\ b * b * b * b \in Nat  OBVIOUS
  <2>. QED  BY <1>0, <2>5, <2>6
<1>7. q3 % Base = q3 /\ q3 \in Digit  BY <1>0, <1>3, <1>6 DEF Digit
<1>. DEFINE d == <<q3, r3, r2, r1>>
<1>8. Digits(x) = d
  BY <1>4, <1>5, <1>7 DEF Digits, q1, r1, r2, r3
<1>9. LineLen(d) = x - Width
  <2>1. LineLen(d) = ((q3 * Base + r3) * Base + r2) * Base + r1 - Width  BY DEF LineLen
  <2>2. \A b, c \in Nat : b * c = c * b  OBVIOUS
  <2>3. q3 * Base + r3 = q2  BY <1>0, <1>3, <2>2
  <2>4. q2 * Base + r2 = q1  BY <1>0, <1>2, <2>2
  <2>5. q1 * Base + r1 = x  BY <1>0, <1>1, <2>2
  <2>. HIDE DEF d
  <2>6. LineLen(d) = q1 * Base + (r1 - Width)  BY <2>1, <2>3, <2>4, Zenon
  <2>7. q1 * Base \in Nat  BY <1>0, <1>1
  <2>. QED  BY <1>1, <2>5, <2>6, <2>7 DEF Width
<1>10. d \in Seq(Digit) /\ Len(d) = 4
  <2>. HIDE DEF Digit
  <2>. QED  BY <1>1, <1>2, <1>3, <1>7
<1>. QED  BY <1>8, <1>9, <1>10 DEF Width

LEMMA LengthsFit ==
    /\ MaxPayloadLen \in Nat
    /\ \A n \in Nat : n <= MaxPayloadLen =>
          n + Width \in Nat /\ n + Width < Base * Base * Base * Base
    /\ 0 < Base * Base * Base * Base
<1>. DEFINE M == Base * Base * Base * Base
<1>1. MaxPayloadLen \in Nat /\ M \in Nat /\ MaxPayloadLen + Width < M
  <2>1. \A b \in Nat : b * b * b * b \in Nat  OBVIOUS
  <2>. QED  BY <2>1, PktlineAssumption
<1>. HIDE DEF M
<1>2. \A n \in Nat : n <= MaxPayloadLen => n + Width \in Nat /\ n + Width < M
  BY <1>1 DEF Width
<1>3. 0 < M  BY <1>1 DEF Width
<1>. QED  BY <1>1, <1>2, <1>3 DEF M

-----------------------------------------------------------------------------
(* What ReadLine does with the front of a chunk, that is of a line or of a *)
(* flush-pkt as it was written.                                            *)

(* The bytes of a good value, one that is written.                         *)
Chunk(v) == IF v = Flush THEN FlushPkt ELSE LenDigits(Len(v)) \o v

Payload(v) == IF v = Flush THEN << >> ELSE v

Good(v) == v = Flush \/ (v \in Seq(Digit) /\ Len(v) <= MaxPayloadLen)

(* stream begins as c does, as far as both go.                             *)
Begins(stream, c) ==
    \A p \in 1..Len(stream) : p <= Len(c) => stream[p] = c[p]

LEMMA ChunkIs ==
    ASSUME NEW v, Good(v)
    PROVE  /\ Chunk(v) \in Seq(Digit) /\ Payload(v) \in Seq(Digit)
           /\ Len(Payload(v)) \in Nat
           /\ Len(Chunk(v)) = Width + Len(Payload(v))
           /\ LineLen(Chunk(v)) = IF v = Flush THEN -Width ELSE Len(Payload(v))
           /\ \A p \in 1..Len(Payload(v)) : Chunk(v)[Width + p] = Payload(v)[p]
<1>1. CASE v = Flush
  <2>1. FlushPkt \in Seq(Digit) /\ Len(FlushPkt) = Width /\ LineLen(FlushPkt) = 0 - Width
    BY LengthsFit, DigitsAre DEF FlushPkt
  <2>2. Chunk(v) = FlushPkt /\ Payload(v) = << >>  BY <1>1 DEF Chunk, Payload
  <2>3. << >> \in Seq(Digit) /\ Len(<< >>) = 0  OBVIOUS
  <2>. QED  BY <1>1, <2>1, <2>2, <2>3 DEF Width
<1>2. CASE v # Flush
  <2>. DEFINE n == Len(v)
              d == LenDigits(n)
              c == d \o v
  <2>1. v \in Seq(Digit) /\ n \in Nat /\ n <= MaxPayloadLen  BY <1>2 DEF Good
  <2>2. n + Width \in Nat /\ n + Width < Base * Base * Base * Base  BY <2>1, LengthsFit
  <2>3. d \in Seq(Digit) /\ Len(d) = Width /\ LineLen(d) = (n + Width) - Width
    BY <2>2, DigitsAre DEF LenDigits
  <2>4. Chunk(v) = c /\ Payload(v) = v  BY <1>2 DEF Chunk, Payload
  <2>. HIDE DEF d
  <2>5. c \in Seq(Digit) /\ Len(c) = Width + n
        /\ (\A p \in 1..Width : c[p] = d[p]) /\ \A p \in 1..n : c[Width + p] = v[p]
    <3>1. Len(c) = Len(d) + Len(v) /\ c \in Seq(Digit)
          /\ (\A p \in 1..Len(d) : c[p] = d[p]) /\ \A p \in 1..Len(v) : c[Len(d) + p] = v[p]
      BY <2>1, <2>3
    <3>. HIDE DEF c
    <3>. QED  BY <2>3, <3>1
  <2>. HIDE DEF c
  <2>6. LineLen(c) = LineLen(d)
    <3>1. c[1] = d[1] /\ c[2] = d[2] /\ c[3] = d[3] /\ c[4] = d[4]  BY <2>5 DEF Width
    <3>. QED  BY <3>1 DEF LineLen
  <2>7. LineLen(c) = n  BY <2>1, <2>3, <2>6 DEF Width
  <2>. HIDE DEF n
  <2>. QED  BY <1>2, <2>1, <2>4, <2>5, <2>7 DEF n
<1>. QED  BY <1>1, <1>2

LEMMA RestIs ==
    ASSUME NEW S, NEW s \in Seq(S), NEW n \in 0..Len(s)
    PROVE  /\ SubSeq(s, n + 1, Len(s)) \in Seq(S)
           /\ Len(SubSeq(s, n + 1, Len(s))) = Len(s) - n
           /\ \A p \in 1..(Len(s) - n) : SubSeq(s, n + 1, Len(s))[p] = s[n + p]
  OBVIOUS

(* A chunk that is whole is read as it was written.                        *)
LEMMA ReadsChunk ==
    ASSUME NEW v, Good(v), NEW stream \in Seq(Digit), Begins(stream, Chunk(v)),
           Len(stream) >= Len(Chunk(v))
    PROVE  ReadLine(stream) =
               Line(Payload(v), IF v = Flush THEN "EOF" ELSE "nil",
                    SubSeq(stream, Len(Chunk(v)) + 1, Len(stream)))
<1>. DEFINE c == Chunk(v)
            s == Payload(v)
            h == SubSeq(stream, 1, Width)
            n == LineLen(h)
<1>1. c \in Seq(Digit) /\ s \in Seq(Digit) /\ Len(s) \in Nat /\ Len(c) = Width + Len(s)
      /\ LineLen(c) = (IF v = Flush THEN -Width ELSE Len(s))
      /\ \A p \in 1..Len(s) : c[Width + p] = s[p]
  BY ChunkIs
<1>2. Len(stream) \in Nat /\ Len(stream) >= Width + Len(s)
      /\ \A p \in 1..(Width + Len(s)) : stream[p] = c[p]
  <2>1. Len(stream) \in Nat /\ Len(stream) >= Width + Len(s)  BY <1>1
  <2>2. \A p \in 1..(Width + Len(s)) : p \in 1..Len(stream) /\ p <= Len(c)
    BY <1>1, <2>1 DEF Width
  <2>. QED  BY <2>1, <2>2 DEF Begins
<1>. HIDE DEF c
<1>3. n = LineLen(c)
  <2>1. \A p \in 1..4 : h[p] = stream[p]  BY <1>1, <1>2 DEF Width
  <2>2. \A p \in 1..4 : stream[p] = c[p]  BY <1>1, <1>2 DEF Width
  <2>. HIDE DEF h
  <2>3. h[1] = c[1] /\ h[2] = c[2] /\ h[3] = c[3] /\ h[4] = c[4]
    <3>1. 1 \in 1..4 /\ 2 \in 1..4 /\ 3 \in 1..4 /\ 4 \in 1..4  OBVIOUS
    <3>. QED  BY <2>1, <2>2, <3>1
  <2>. QED  BY <2>3 DEF LineLen
<1>. HIDE DEF n, h
<1>4. ReadLine(stream) =
        IF Len(stream) < Width
        THEN Line(<< >>, "ErrUnexpectedEOF", << >>)
        ELSE IF n < 0
        THEN Line(<< >>, "EOF", SubSeq(stream, Width + 1, Len(stream)))
        ELSE IF Len(stream) < Width + n
        THEN Line(SubSeq(stream, Width + 1, Len(stream)), "ErrUnexpectedEOF", << >>)
        ELSE Line(SubSeq(stream, Width + 1, Width + n), "nil",
                  SubSeq(stream, Width + n + 1, Len(stream)))
  BY DEF ReadLine, n, h
<1>5. ~ (Len(stream) < Width)  BY <1>1, <1>2 DEF Width
<1>6. CASE v = Flush
  <2>1. n < 0 /\ s = << >> /\ Len(s) = 0  BY <1>1, <1>3, <1>6 DEF Width, Payload
  <2>2. Len(c) = Width  BY <1>1, <2>1 DEF Width
  <2>. HIDE DEF s
  <2>3. ReadLine(stream) = Line(<< >>, "EOF", SubSeq(stream, Width + 1, Len(stream)))
    BY <1>4, <1>5, <2>1
  <2>. QED  BY <1>6, <2>1, <2>2, <2>3 DEF c, s
<1>7. CASE v # Flush
  <2>. HIDE DEF s
  <2>1. n = Len(s)  BY <1>1, <1>3, <1>7
  <2>2. SubSeq(stream, Width + 1, Width + n) = s
    <3>. DEFINE t == SubSeq(stream, Width + 1, Width + n)
    <3>1. t \in Seq(Digit) /\ Len(t) = n /\ \A p \in 1..n : t[p] = stream[Width + p]
      BY <1>1, <1>2, <2>1 DEF Width
    <3>. HIDE DEF t
    <3>2. \A p \in 1..n : t[p] = s[p]
      <4>1. \A p \in 1..n : Width + p \in 1..(Width + Len(s))  BY <1>1, <2>1 DEF Width
      <4>. QED  BY <1>1, <1>2, <2>1, <3>1, <4>1
    <3>3. s \in Seq(Digit) /\ Len(s) = n  BY <1>1, <2>1
    <3>4. t = s  BY <3>1, <3>2, <3>3
    <3>. QED  BY <3>4 DEF t
  <2>3. ~ (n < 0) /\ ~ (Len(stream) < Width + n)  BY <1>1, <1>2, <2>1 DEF Width
  <2>4. ReadLine(stream) = Line(s, "nil", SubSeq(stream, Width + n + 1, Len(stream)))
    BY <1>4, <1>5, <2>2, <2>3
  <2>5. Width + n + 1 = Len(c) + 1  BY <1>1, <2>1
  <2>. QED  BY <1>7, <2>4, <2>5 DEF c, s
<1>. QED  BY <1>6, <1>7

(* One that is cut short is noticed.                                       *)
LEMMA ReadsTorn ==
    ASSUME NEW v, Good(v), NEW stream \in Seq(Digit), Begins(stream, Chunk(v)),
           Len(stream) < Len(Chunk(v))
    PROVE  /\ ReadLine(stream).err = "ErrUnexpectedEOF"
           /\ IsPrefix(ReadLine(stream).line, Payload(v))
<1>. DEFINE c == Chunk(v)
            s == Payload(v)
            h == SubSeq(stream, 1, Width)
            n == LineLen(h)
            t == SubSeq(stream, Width + 1, Len(stream))
<1>1. c \in Seq(Digit) /\ s \in Seq(Digit) /\ Len(s) \in Nat /\ Len(c) = Width + Len(s)
      /\ LineLen(c) = (IF v = Flush THEN -Width ELSE Len(s))
      /\ \A p \in 1..Len(s) : c[Width + p] = s[p]
  BY ChunkIs
<1>2. Len(stream) \in Nat /\ Len(stream) < Width + Len(s)
      /\ \A p \in 1..Len(stream) : stream[p] = c[p]
  <2>1. Len(stream) \in Nat /\ Len(stream) < Width + Len(s)  BY <1>1
  <2>2. \A p \in 1..Len(stream) : p <= Len(c)  BY <1>1, <2>1 DEF Width
  <2>. QED  BY <2>1, <2>2 DEF Begins
<1>. HIDE DEF c
<1>3. CASE Len(stream) < Width
  <2>1. ReadLine(stream) = Line(<< >>, "ErrUnexpectedEOF", << >>)  BY <1>3 DEF ReadLine
  <2>2. IsPrefix(<< >>, s)
    <3>1. Len(<< >>) = 0 /\ SubSeq(<< >>, 1, 0) = << >> /\ SubSeq(s, 1, 0) = << >>
      BY <1>1
    <3>. HIDE DEF s
    <3>. QED  BY <1>1, <3>1 DEF IsPrefix
  <2>. QED  BY <2>1, <2>2 DEF Line
<1>4. CASE ~ (Len(stream) < Width)
  <2>1. n = LineLen(c)
    <3>1. \A p \in 1..4 : h[p] = stream[p]  BY <1>2, <1>4 DEF Width
    <3>2. \A p \in 1..4 : stream[p] = c[p]  BY <1>2, <1>4 DEF Width
    <3>. HIDE DEF h
    <3>3. h[1] = c[1] /\ h[2] = c[2] /\ h[3] = c[3] /\ h[4] = c[4]
      <4>1. 1 \in 1..4 /\ 2 \in 1..4 /\ 3 \in 1..4 /\ 4 \in 1..4  OBVIOUS
      <4>. QED  BY <3>1, <3>2, <4>1
    <3>. QED  BY <3>3 DEF LineLen
  <2>2. v # Flush
    <3>. SUFFICES ASSUME v = Flush PROVE FALSE
      OBVIOUS
    <3>1. Len(s) = 0  BY DEF Payload
    <3>. QED  BY <1>2, <1>4, <3>1 DEF Width
  <2>3. n = Len(s)  BY <1>1, <2>1, <2>2
  <2>4. ~ (n < 0) /\ Len(stream) < Width + n  BY <1>1, <1>2, <2>3
  <2>5. ReadLine(stream) = Line(t, "ErrUnexpectedEOF", << >>)
    <3>. HIDE DEF t
    <3>1. ReadLine(stream) =
            IF Len(stream) < Width
            THEN Line(<< >>, "ErrUnexpectedEOF", << >>)
            ELSE IF n < 0
            THEN Line(<< >>, "EOF", t)
            ELSE IF Len(stream) < Width + n
            THEN Line(t, "ErrUnexpectedEOF", << >>)
            ELSE Line(SubSeq(stream, Width + 1, Width + n), "nil",
                      SubSeq(stream, Width + n + 1, Len(stream)))
      BY DEF ReadLine, t
    <3>. HIDE DEF n
    <3>. QED  BY <1>4, <2>4, <3>1
  <2>6. IsPrefix(t, s)
    <3>. DEFINE k == Len(stream) - Width
    <3>1. k \in Nat /\ k <= Len(s)  BY <1>1, <1>2, <1>4 DEF Width
    <3>2. t \in Seq(Digit) /\ Len(t) = k /\ \A p \in 1..k : t[p] = stream[Width + p]
      <4>1. Width \in 0..Len(stream)  BY <1>2, <1>4 DEF Width
      <4>. QED  BY <4>1, RestIs
    <3>3. \A p \in 1..k : t[p] = s[p]
      <4>1. \A p \in 1..k : Width + p \in 1..Len(stream) /\ p \in 1..Len(s)
        BY <1>1, <1>2, <3>1 DEF Width
      <4>. QED  BY <1>1, <1>2, <3>2, <4>1
    <3>. HIDE DEF t, k, s
    <3>4. SubSeq(t, 1, k) \in Seq(Digit) /\ Len(SubSeq(t, 1, k)) = k
          /\ \A p \in 1..k : SubSeq(t, 1, k)[p] = t[p]
      BY <3>1, <3>2
    <3>5. SubSeq(s, 1, k) \in Seq(Digit) /\ Len(SubSeq(s, 1, k)) = k
          /\ \A p \in 1..k : SubSeq(s, 1, k)[p] = s[p]
      BY <1>1, <3>1
    <3>6. SubSeq(t, 1, k) = SubSeq(s, 1, k)  BY <3>3, <3>4, <3>5
    <3>. QED  BY <3>1, <3>2, <3>6 DEF IsPrefix
  <2>. QED  BY <2>5, <2>6 DEF Line
<1>. QED  BY <1>3, <1>4

-----------------------------------------------------------------------------
(* The stream that lines are written to, and what is to be read from it.   *)

Written1(v) == IF v = Flush THEN FlushPkt ELSE WriteLine(v)

(* Concatenating step by step is what FlattenSeq does.                     *)
LEMMA FlattenIs ==
    ASSUME NEW S, NEW seqs \in Seq(Seq(S))
    PROVE  \E F : /\ F \in [0..Len(seqs) -> Seq(S)] /\ F[0] = << >>
                  /\ \A i \in 1..Len(seqs) : F[i] = F[i - 1] \o seqs[i]
                  /\ FlattenSeq(seqs) = F[Len(seqs)]
<1>. DEFINE m == Len(seqs)
            T == Seq(S)
            step == [kt \in (1..m) \X T |-> kt[2] \o seqs[kt[1]]]
<1>1. m \in Nat /\ \A i \in 1..m : seqs[i] \in T  OBVIOUS
<1>2. \A k \in 1..m : \A t \in T : step[<<k, t>>] = t \o seqs[k] /\ t \o seqs[k] \in T
  <2>1. \A t, u \in T : t \o u \in T  OBVIOUS
  <2>2. \A k \in 1..m : \A t \in T : step[<<k, t>>] = t \o seqs[k]  OBVIOUS
  <2>. HIDE DEF T, step, m
  <2>. QED  BY <1>1, <2>1, <2>2
<1>3. << >> \in T  OBVIOUS
<1>. HIDE DEF step
<1>4. PICK F \in [0..m -> T] : F[0] = << >> /\ \A k \in 1..m : F[k] = F[k - 1] \o seqs[k]
  <2>. HIDE DEF T, m
  <2>1. Primitive(m, T, << >>, step)  BY <1>1, <1>2, <1>3 DEF Primitive
  <2>2. PICK F : IsPrimitive(F, m, T, << >>, step)  BY <2>1, PrimitiveExists
  <2>3. F \in [0..m -> T] /\ F[0] = << >> /\ \A k \in 1..m : F[k] = step[<<k, F[k - 1]>>]
    BY <2>2 DEF IsPrimitive
  <2>4. \A k \in 1..m : F[k - 1] \in T
    <3>1. \A k \in 1..m : k - 1 \in 0..m  BY <1>1
    <3>. QED  BY <2>3, <3>1
  <2>5. \A k \in 1..m : F[k] = F[k - 1] \o seqs[k]  BY <1>2, <2>3, <2>4
  <2>. QED  BY <2>3, <2>5
<1>7. 1 \in 1..m => seqs[1] \in T /\ F[1] = << >> \o seqs[1]
  <2>. HIDE DEF T, m
  <2>1. \A k \in 1..m : k = 1 => k - 1 = 0  OBVIOUS
  <2>2. \A k \in 1..m : k = 1 => F[k] = << >> \o seqs[k]  BY <1>4, <2>1
  <2>. QED  BY <1>1, <2>2
<1>5. CASE m = 0
  <2>1. seqs = << >> /\ FlattenSeq(seqs) = seqs  BY <1>5 DEF FlattenSeq
  <2>. QED  BY <1>4, <1>5, <2>1
<1>6. CASE m # 0
  <2>. DEFINE Value(i, f) == IF i = 1 THEN seqs[i] ELSE f[i - 1] \o seqs[i]
              flatten[i \in 1..Len(seqs)] == IF i = 1 THEN seqs[i] ELSE flatten[i - 1] \o seqs[i]
              g == [i \in 1..m |-> F[i]]
  <2>1. \A i \in 1..m : g[i] = Value(i, g)
    <3>. SUFFICES ASSUME NEW i \in 1..m PROVE F[i] = Value(i, g)
      OBVIOUS
    <3>1. CASE i = 1
      <4>1. seqs[1] \in T /\ F[1] = << >> \o seqs[1]  BY <1>7, <3>1
      <4>2. << >> \o seqs[1] = seqs[1]  BY <4>1
      <4>. QED  BY <3>1, <4>1, <4>2
    <3>2. CASE i # 1
      <4>1. i - 1 \in 1..m  BY <1>1, <3>2
      <4>2. g[i - 1] = F[i - 1]  BY <4>1
      <4>. QED  BY <1>4, <3>2, <4>2
    <3>. QED  BY <3>1, <3>2
  <2>2. \E f : f = [i \in 1..Len(seqs) |-> Value(i, f)]
    <3>1. g = [i \in 1..m |-> Value(i, g)]
      <4>. HIDE DEF Value
      <4>. QED  BY <2>1
    <3>. QED  BY <3>1
  <2>3. flatten = [i \in 1..Len(seqs) |-> Value(i, flatten)]  BY <2>2
  <2>4. FlattenSeq(seqs) = flatten[m]  BY <1>6 DEF FlattenSeq
  <2>. HIDE DEF flatten, g
  <2>5. \A i \in 1..m : flatten[i] = Value(i, flatten)
    <3>. HIDE DEF Value
    <3>. QED  BY <2>3
  <2>. DEFINE U == {i \in 1..m : flatten[i] # F[i]}
  <2>6. ASSUME U # {} PROVE FALSE
    <3>1. PICK k \in U : \A j \in U : k <= j
      <4>1. U \in SUBSET Nat  OBVIOUS
      <4>. HIDE DEF U
      <4>. QED  BY <2>6, <4>1, Least
    <3>2. k \in 1..m /\ flatten[k] # F[k]  BY <3>1
    <3>3. CASE k = 1
      <4>1. flatten[1] = seqs[1]  BY <2>5, <3>2, <3>3
      <4>2. seqs[1] \in T /\ F[1] = << >> \o seqs[1]  BY <1>7, <3>2, <3>3
      <4>3. << >> \o seqs[1] = seqs[1]  BY <4>2
      <4>. QED  BY <3>2, <3>3, <4>1, <4>2, <4>3
    <3>4. CASE k # 1
      <4>1. k - 1 \in 1..m /\ ~ (k <= k - 1)  BY <1>1, <3>2, <3>4
      <4>2. k - 1 \notin U  BY <3>1, <4>1
      <4>3. flatten[k - 1] = F[k - 1]  BY <4>1, <4>2
      <4>4. flatten[k] = flatten[k - 1] \o seqs[k]  BY <2>5, <3>2, <3>4
      <4>. QED  BY <1>4, <3>2, <4>3, <4>4
    <3>. QED  BY <3>3, <3>4
  <2>7. m \in 1..m  BY <1>1, <1>6
  <2>8. flatten[m] = F[m]  BY <2>6, <2>7
  <2>. QED  BY <1>4, <2>4, <2>8
<1>. QED  BY <1>5, <1>6

Result(v) == [line |-> Payload(v), err |-> IF v = Flush THEN "EOF" ELSE "nil"]

Results == [line : Seq(Digit), err : {"EOF", "nil"}]

(* F[i] is the stream and W[i] what is to be read after i lines.           *)
Streams(lines, F, W) ==
    /\ F \in [0..Len(lines) -> Seq(Digit)] /\ F[0] = << >>
    /\ W \in [0..Len(lines) -> Seq(Results)] /\ W[0] = << >>
    /\ \A i \in 1..Len(lines) :
          IF Good(lines[i])
          THEN F[i] = F[i - 1] \o Chunk(lines[i]) /\ W[i] = Append(W[i - 1], Result(lines[i]))
          ELSE F[i] = F[i - 1] /\ W[i] = W[i - 1]
    /\ WriteLines(lines) = F[Len(lines)]
    /\ WrittenOf(lines) = W[Len(lines)]

LEMMA GoodOrNot ==
    ASSUME NEW v \in {Flush} \cup Seq(Digit)
    PROVE  /\ Good(v) => Written1(v) = Chunk(v) /\ Written1(v) \in Seq(Digit)
                         /\ Result(v) \in Results
           /\ ~ Good(v) => Written1(v) = << >> /\ v # Flush /\ ~ (Len(v) <= MaxPayloadLen)
           /\ v # Flush => (Good(v) <=> Len(v) <= MaxPayloadLen)
<1>1. v # Flush => v \in Seq(Digit) /\ Len(v) \in Nat  OBVIOUS
<1>2. MaxPayloadLen \in Nat  BY LengthsFit
<1>3. v # Flush => (Good(v) <=> Len(v) <= MaxPayloadLen)  BY <1>1 DEF Good
<1>4. ASSUME Good(v)
      PROVE  Written1(v) = Chunk(v) /\ Written1(v) \in Seq(Digit) /\ Result(v) \in Results
  <2>1. Chunk(v) \in Seq(Digit) /\ Payload(v) \in Seq(Digit)  BY <1>4, ChunkIs
  <2>2. v # Flush => ~ (Len(v) > MaxPayloadLen)  BY <1>1, <1>2, <1>3, <1>4
  <2>3. Written1(v) = Chunk(v)  BY <2>2 DEF Written1, Chunk, WriteLine
  <2>4. Result(v) \in Results
    <3>. DEFINE e == IF v = Flush THEN "EOF" ELSE "nil"
    <3>1. e \in {"EOF", "nil"}  OBVIOUS
    <3>. HIDE DEF e
    <3>2. [line |-> Payload(v), err |-> e] \in Results  BY <2>1, <3>1 DEF Results
    <3>. QED  BY <3>2 DEF Result, e
  <2>. QED  BY <2>1, <2>3, <2>4
<1>5. ASSUME ~ Good(v)
      PROVE  Written1(v) = << >> /\ v # Flush /\ ~ (Len(v) <= MaxPayloadLen)
  <2>1. v # Flush /\ ~ (Len(v) <= MaxPayloadLen)  BY <1>3, <1>5 DEF Good
  <2>2. Len(v) > MaxPayloadLen  BY <1>1, <1>2, <2>1
  <2>. QED  BY <2>1, <2>2 DEF Written1, WriteLine
<1>. QED  BY <1>3, <1>4, <1>5

LEMMA StreamsExist ==
    ASSUME NEW lines \in Seq({Flush} \cup Seq(Digit))
    PROVE  \E F, W : Streams(lines, F, W)
<1>. DEFINE m == Len(lines)
            E == [i \in 1..m |-> Written1(lines[i])]
            T == Seq(Results)
            Add(t, i) == IF Good(lines[i]) THEN Append(t, Result(lines[i])) ELSE t
            step == [kt \in (1..m) \X T |-> Add(kt[2], kt[1])]
            Value(i, f) == IF i = 0 THEN << >>
                           ELSE IF lines[i] = Flush
                           THEN Append(f[i - 1], [line |-> << >>, err |-> "EOF"])
                           ELSE IF Len(lines[i]) <= MaxPayloadLen
                           THEN Append(f[i - 1], [line |-> lines[i], err |-> "nil"])
                           ELSE f[i - 1]
            sent[i \in 0..Len(lines)] ==
                           IF i = 0 THEN << >>
                           ELSE IF lines[i] = Flush
                           THEN Append(sent[i - 1], [line |-> << >>, err |-> "EOF"])
                           ELSE IF Len(lines[i]) <= MaxPayloadLen
                           THEN Append(sent[i - 1], [line |-> lines[i], err |-> "nil"])
                           ELSE sent[i - 1]
<1>1. m \in Nat /\ DOMAIN lines = 1..m /\ \A i \in 1..m : lines[i] \in {Flush} \cup Seq(Digit)
  OBVIOUS
<1>2. E \in Seq(Seq(Digit)) /\ Len(E) = m /\ \A i \in 1..m : E[i] = Written1(lines[i])
  <2>0. << >> \in Seq(Digit)  OBVIOUS
  <2>1. \A i \in 1..m : Written1(lines[i]) \in Seq(Digit)  BY <1>1, <2>0, GoodOrNot
  <2>. QED  BY <1>1, <2>1
<1>3. WriteLines(lines) = FlattenSeq(E)
  <2>1. E = [i \in DOMAIN lines |-> IF lines[i] = Flush THEN FlushPkt ELSE WriteLine(lines[i])]
    BY <1>1 DEF Written1
  <2>. HIDE DEF E
  <2>. QED  BY <2>1 DEF WriteLines
<1>. HIDE DEF E
<1>4. PICK F : /\ F \in [0..m -> Seq(Digit)] /\ F[0] = << >>
               /\ \A i \in 1..m : F[i] = F[i - 1] \o E[i]
               /\ FlattenSeq(E) = F[m]
  <2>. HIDE DEF m
  <2>. QED  BY <1>2, FlattenIs
<1>5. \A k \in 1..m : \A t \in T : step[<<k, t>>] = Add(t, k) /\ Add(t, k) \in T
  <2>1. \A t \in T, e \in Results : Append(t, e) \in T  OBVIOUS
  <2>2. \A k \in 1..m : \A t \in T : step[<<k, t>>] = Add(t, k)
    <3>. HIDE DEF Add, T, m
    <3>. QED  OBVIOUS
  <2>. HIDE DEF T, step, m
  <2>. QED  BY <1>1, <2>1, <2>2, GoodOrNot
<1>. HIDE DEF step, T
<1>6. PICK W \in [0..m -> T] : W[0] = << >> /\ \A k \in 1..m : W[k - 1] \in T /\ W[k] = Add(W[k - 1], k)
  <2>. HIDE DEF m, Add
  <2>0. << >> \in T  BY DEF T
  <2>1. Primitive(m, T, << >>, step)  BY <1>1, <1>5, <2>0 DEF Primitive
  <2>2. PICK W : IsPrimitive(W, m, T, << >>, step)  BY <2>1, PrimitiveExists
  <2>3. W \in [0..m -> T] /\ W[0] = << >> /\ \A k \in 1..m : W[k] = step[<<k, W[k - 1]>>]
    BY <2>2 DEF IsPrimitive
  <2>4. \A k \in 1..m : W[k - 1] \in T
    <3>1. \A k \in 1..m : k - 1 \in 0..m  BY <1>1
    <3>. QED  BY <2>3, <3>1
  <2>5. \A k \in 1..m : W[k] = Add(W[k - 1], k)  BY <1>5, <2>3, <2>4
  <2>. QED  BY <2>3, <2>4, <2>5
<1>7. \A i \in 1..m : \A f : Value(i, f) = Add(f[i - 1], i)
  <2>1. \A i \in 1..m : i # 0  OBVIOUS
  <2>2. \A i \in 1..m : lines[i] = Flush =>
            Good(lines[i]) /\ Result(lines[i]) = [line |-> << >>, err |-> "EOF"]
    BY DEF Good, Result, Payload
  <2>3. \A i \in 1..m : lines[i] # Flush =>
            (Good(lines[i]) <=> Len(lines[i]) <= MaxPayloadLen)
            /\ Result(lines[i]) = [line |-> lines[i], err |-> "nil"]
    <3>1. \A i \in 1..m : lines[i] # Flush => (Good(lines[i]) <=> Len(lines[i]) <= MaxPayloadLen)
      BY <1>1, GoodOrNot
    <3>. QED  BY <3>1 DEF Result, Payload
  <2>. HIDE DEF m
  <2>. QED  BY <2>1, <2>2, <2>3, Zenon
<1>8. sent = [i \in 0..Len(lines) |-> Value(i, sent)] /\ WrittenOf(lines) = sent[m]
  <2>1. \A i \in 0..m : W[i] = Value(i, W)
    <3>1. \A i \in 0..m : i = 0 \/ i \in 1..m  OBVIOUS
    <3>2. Value(0, W) = << >>  OBVIOUS
    <3>. HIDE DEF Value, m, Add
    <3>. QED  BY <1>6, <1>7, <3>1, <3>2
  <2>2. W = [i \in 0..Len(lines) |-> Value(i, W)]
    <3>. HIDE DEF Value
    <3>. QED  BY <1>6, <2>1
  <2>3. sent = [i \in 0..Len(lines) |-> Value(i, sent)]  BY <2>2
  <2>. QED  BY <2>3 DEF WrittenOf
<1>. HIDE DEF sent
<1>9. \A i \in 0..m : sent[i] = W[i]
  <2>. DEFINE U == {i \in 0..m : sent[i] # W[i]}
  <2>. SUFFICES ASSUME U # {} PROVE FALSE
    OBVIOUS
  <2>1. PICK k \in U : \A j \in U : k <= j
    <3>1. U \in SUBSET Nat  OBVIOUS
    <3>. HIDE DEF U
    <3>. QED  BY <3>1, Least
  <2>2. k \in 0..m /\ sent[k] # W[k]  BY <2>1
  <2>3. \A i \in 0..m : sent[i] = Value(i, sent)
    <3>. HIDE DEF Value
    <3>. QED  BY <1>8
  <2>4. k # 0  BY <1>6, <2>2, <2>3
  <2>5. k \in 1..m /\ k - 1 \in 0..m /\ ~ (k <= k - 1)  BY <2>2, <2>4
  <2>6. k - 1 \notin U  BY <2>1, <2>5
  <2>7. sent[k - 1] = W[k - 1]  BY <2>5, <2>6
  <2>8. sent[k] = Add(sent[k - 1], k)
    <3>. HIDE DEF Value, Add, m
    <3>. QED  BY <1>7, <2>2, <2>3, <2>5
  <2>. HIDE DEF Add, Value, U, m
  <2>. QED  BY <1>6, <2>2, <2>5, <2>7, <2>8
<1>10. WrittenOf(lines) = W[m]
  <2>1. m \in 0..m  BY <1>1
  <2>. QED  BY <1>8, <1>9, <2>1
<1>11. \A i \in 1..m :
          IF Good(lines[i])
          THEN F[i] = F[i - 1] \o Chunk(lines[i]) /\ W[i] = Append(W[i - 1], Result(lines[i]))
          ELSE F[i] = F[i - 1] /\ W[i] = W[i - 1]
  <2>. SUFFICES ASSUME NEW i \in 1..m
                PROVE  IF Good(lines[i])
                       THEN F[i] = F[i - 1] \o Chunk(lines[i]) /\ W[i] = Append(W[i - 1], Result(lines[i]))
                       ELSE F[i] = F[i - 1] /\ W[i] = W[i - 1]
    OBVIOUS
  <2>1. F[i] = F[i - 1] \o Written1(lines[i]) /\ F[i - 1] \in Seq(Digit)
    <3>1. i - 1 \in 0..m  OBVIOUS
    <3>. QED  BY <1>2, <1>4, <3>1
  <2>2. F[i - 1] \o << >> = F[i - 1]  BY <2>1
  <2>3. W[i] = Add(W[i - 1], i)  BY <1>6
  <2>4. lines[i] \in {Flush} \cup Seq(Digit)  BY <1>1
  <2>. QED  BY <2>1, <2>2, <2>3, <2>4, GoodOrNot
<1>. QED  BY <1>3, <1>4, <1>6, <1>10, <1>11 DEF Streams, T

Extends(s, t) == Len(s) <= Len(t) /\ \A p \in 1..Len(s) : t[p] = s[p]

(* Sequences that grow step by step all begin the last one.                *)
LEMMA GrownFrom ==
    ASSUME NEW S, NEW m \in Nat, NEW H \in [0..m -> Seq(S)],
           \A i \in 1..m : Extends(H[i - 1], H[i])
    PROVE  \A i \in 0..m : Extends(H[i], H[m])
<1>. DEFINE U == {k \in 0..m : ~ Extends(H[m - k], H[m])}
<1>1. ASSUME U # {} PROVE FALSE
  <2>1. PICK k \in U : \A j \in U : k <= j
    <3>1. U \in SUBSET Nat  OBVIOUS
    <3>. HIDE DEF U
    <3>. QED  BY <1>1, <3>1, Least
  <2>2. k \in 0..m /\ ~ Extends(H[m - k], H[m])  BY <2>1
  <2>3. \A s \in Seq(S) : Extends(s, s)  BY DEF Extends
  <2>4. k # 0
    <3>1. m \in 0..m /\ m - 0 = m  OBVIOUS
    <3>. QED  BY <2>2, <2>3, <3>1
  <2>5. k - 1 \in 0..m /\ ~ (k <= k - 1) /\ m - k \in 0..m /\ m - (k - 1) \in 1..m
        /\ m - (k - 1) \in 0..m /\ m - (k - 1) - 1 = m - k /\ m \in 0..m
    BY <2>2, <2>4
  <2>6. k - 1 \notin U  BY <2>1, <2>5
  <2>. DEFINE a == H[m - k]
              b == H[m - (k - 1)]
              c == H[m]
  <2>7. Extends(b, c)  BY <2>5, <2>6
  <2>8. Extends(a, b)
    <3>1. Extends(H[m - (k - 1) - 1], b)  BY <2>5
    <3>. QED  BY <2>5, <3>1
  <2>9. a \in Seq(S) /\ b \in Seq(S) /\ c \in Seq(S)  BY <2>5
  <2>. HIDE DEF a, b, c
  <2>10. Extends(a, c)
    <3>1. Len(a) \in Nat /\ Len(b) \in Nat /\ Len(c) \in Nat  BY <2>9
    <3>2. Len(a) <= Len(b) /\ (\A p \in 1..Len(a) : b[p] = a[p])  BY <2>8 DEF Extends
    <3>3. Len(b) <= Len(c) /\ (\A p \in 1..Len(b) : c[p] = b[p])  BY <2>7 DEF Extends
    <3>4. \A p \in 1..Len(a) : p \in 1..Len(b)  BY <3>1, <3>2
    <3>5. Len(a) <= Len(c)  BY <3>1, <3>2, <3>3
    <3>6. \A p \in 1..Len(a) : c[p] = a[p]  BY <3>2, <3>3, <3>4
    <3>. QED  BY <3>5, <3>6 DEF Extends
  <2>. QED  BY <2>2, <2>10 DEF a, c
<1>2. \A i \in 0..m : m - i \in 0..m /\ m - (m - i) = i  OBVIOUS
<1>. QED  BY <1>1, <1>2

(* What a good value v adds as the i-th line.                              *)
Adds(v, F, W, m, i) ==
    /\ Len(F[i]) = Len(F[i - 1]) + Len(Chunk(v))
    /\ \A p \in 1..Len(Chunk(v)) : F[m][Len(F[i - 1]) + p] = Chunk(v)[p]
    /\ Len(W[i]) = Len(W[i - 1]) + 1
    /\ W[i][Len(W[i])] = Result(v)
    /\ \A k \in 1..Len(W[i - 1]) : W[i][k] = W[i - 1][k]

LEMMA StreamsGrow ==
    ASSUME NEW lines \in Seq({Flush} \cup Seq(Digit)), NEW F, NEW W, Streams(lines, F, W),
           NEW m, m = Len(lines)
    PROVE  /\ \A i \in 0..m : /\ F[i] \in Seq(Digit) /\ W[i] \in Seq(Results)
                              /\ Extends(F[i], F[m]) /\ Extends(W[i], W[m])
                              /\ Len(W[i]) <= i
           /\ \A i \in 1..m : Good(lines[i]) => Adds(lines[i], F, W, m, i)
<1>1. m \in Nat /\ \A i \in 1..m : lines[i] \in {Flush} \cup Seq(Digit)
  OBVIOUS
<1>2. F \in [0..m -> Seq(Digit)] /\ W \in [0..m -> Seq(Results)] /\ F[0] = << >> /\ W[0] = << >>
      /\ \A i \in 1..m :
          IF Good(lines[i])
          THEN F[i] = F[i - 1] \o Chunk(lines[i]) /\ W[i] = Append(W[i - 1], Result(lines[i]))
          ELSE F[i] = F[i - 1] /\ W[i] = W[i - 1]
  BY DEF Streams
<1>3. \A i \in 1..m : i - 1 \in 0..m /\ i \in 0..m  BY <1>1
<1>4. \A i \in 1..m : /\ F[i - 1] \in Seq(Digit) /\ W[i - 1] \in Seq(Results)
                      /\ Len(F[i - 1]) \in Nat /\ Len(W[i - 1]) \in Nat
  <2>1. F \in [0..m -> Seq(Digit)] /\ W \in [0..m -> Seq(Results)]  BY <1>2
  <2>2. \A i \in 1..m : F[i - 1] \in Seq(Digit)  BY <1>3, <2>1
  <2>3. \A i \in 1..m : W[i - 1] \in Seq(Results)  BY <1>3, <2>1
  <2>4. \A s \in Seq(Digit) : Len(s) \in Nat  OBVIOUS
  <2>5. \A s \in Seq(Results) : Len(s) \in Nat  OBVIOUS
  <2>. QED  BY <2>2, <2>3, <2>4, <2>5
<1>5. ASSUME NEW i \in 1..m, Good(lines[i])
      PROVE  /\ Len(F[i]) = Len(F[i - 1]) + Len(Chunk(lines[i]))
             /\ \A p \in 1..Len(Chunk(lines[i])) : F[i][Len(F[i - 1]) + p] = Chunk(lines[i])[p]
             /\ Len(W[i]) = Len(W[i - 1]) + 1
             /\ W[i][Len(W[i])] = Result(lines[i])
             /\ \A k \in 1..Len(W[i - 1]) : W[i][k] = W[i - 1][k]
             /\ Extends(F[i - 1], F[i]) /\ Extends(W[i - 1], W[i])
             /\ Len(Chunk(lines[i])) \in Nat
  <2>. DEFINE f == F[i - 1]
              w == W[i - 1]
              c == Chunk(lines[i])
              e == Result(lines[i])
  <2>1. f \in Seq(Digit) /\ w \in Seq(Results)  BY <1>4
  <2>2. c \in Seq(Digit) /\ e \in Results
    <3>1. lines[i] \in {Flush} \cup Seq(Digit)  BY <1>1
    <3>. QED  BY <1>5, <3>1, ChunkIs, GoodOrNot
  <2>3. F[i] = f \o c /\ W[i] = Append(w, e)  BY <1>2, <1>5
  <2>. HIDE DEF f, w, c, e
  <2>4. Len(f) \in Nat /\ Len(c) \in Nat /\ Len(w) \in Nat  BY <2>1, <2>2
  <2>5. Len(f \o c) = Len(f) + Len(c) /\ (\A p \in 1..Len(f) : (f \o c)[p] = f[p])
        /\ \A p \in 1..Len(c) : (f \o c)[Len(f) + p] = c[p]
    BY <2>1, <2>2
  <2>6. Len(Append(w, e)) = Len(w) + 1 /\ (\A p \in 1..Len(w) : Append(w, e)[p] = w[p])
        /\ Append(w, e)[Len(w) + 1] = e
    BY <2>1, <2>2
  <2>7. Extends(f, f \o c) /\ Extends(w, Append(w, e))
    BY <2>4, <2>5, <2>6 DEF Extends
  <2>. QED  BY <2>3, <2>4, <2>5, <2>6, <2>7 DEF f, w, c, e
<1>6. \A i \in 1..m : Extends(F[i - 1], F[i]) /\ Extends(W[i - 1], W[i])
  <2>. SUFFICES ASSUME NEW i \in 1..m, ~ Good(lines[i])
                PROVE  Extends(F[i - 1], F[i]) /\ Extends(W[i - 1], W[i])
    BY <1>5
  <2>1. F[i] = F[i - 1] /\ W[i] = W[i - 1]  BY <1>2
  <2>2. Len(F[i - 1]) \in Nat /\ Len(W[i - 1]) \in Nat  BY <1>4
  <2>. QED  BY <2>1, <2>2 DEF Extends
<1>7. \A i \in 0..m : Extends(F[i], F[m])  BY <1>1, <1>2, <1>6, GrownFrom
<1>8. \A i \in 0..m : Extends(W[i], W[m])  BY <1>1, <1>2, <1>6, GrownFrom
<1>9. \A i \in 0..m : F[i] \in Seq(Digit) /\ W[i] \in Seq(Results)  BY <1>2
<1>10. \A i \in 0..m : Len(W[i]) <= i
  <2>. DEFINE U == {k \in 0..m : ~ (Len(W[k]) <= k)}
  <2>1. ASSUME U # {} PROVE FALSE
    <3>1. PICK k \in U : \A j \in U : k <= j
      <4>1. U \in SUBSET Nat  OBVIOUS
      <4>. HIDE DEF U
      <4>. QED  BY <2>1, <4>1, Least
    <3>2. k \in 0..m /\ ~ (Len(W[k]) <= k)  BY <3>1
    <3>3. k # 0
      <4>1. Len(<< >>) = 0  OBVIOUS
      <4>. QED  BY <1>2, <3>2, <4>1
    <3>4. k \in 1..m /\ k - 1 \in 0..m /\ ~ (k <= k - 1)  BY <3>2, <3>3
    <3>5. Len(W[k - 1]) <= k - 1  BY <3>1, <3>4
    <3>6. Len(W[k]) = Len(W[k - 1]) + 1 \/ W[k] = W[k - 1]  BY <1>2, <1>5, <3>4
    <3>7. Len(W[k - 1]) \in Nat  BY <1>4, <3>4
    <3>. QED  BY <3>2, <3>4, <3>5, <3>6, <3>7
  <2>. QED  BY <2>1
<1>11. ASSUME NEW i \in 1..m, Good(lines[i])
       PROVE  \A p \in 1..Len(Chunk(lines[i])) : F[m][Len(F[i - 1]) + p] = Chunk(lines[i])[p]
  <2>1. Len(F[i - 1]) \in Nat /\ Len(Chunk(lines[i])) \in Nat /\ i \in 0..m
        /\ Len(F[i]) = Len(F[i - 1]) + Len(Chunk(lines[i]))
    BY <1>3, <1>4, <1>5, <1>11
  <2>0. \A a, b \in Nat : \A p \in 1..b : a + p \in 1..(a + b)  OBVIOUS
  <2>2. \A p \in 1..Len(Chunk(lines[i])) : Len(F[i - 1]) + p \in 1..Len(F[i])  BY <2>0, <2>1
  <2>3. \A p \in 1..Len(F[i]) : F[m][p] = F[i][p]  BY <1>7, <2>1 DEF Extends
  <2>4. \A p \in 1..Len(Chunk(lines[i])) : F[i][Len(F[i - 1]) + p] = Chunk(lines[i])[p]
    BY <1>5, <1>11
  <2>. QED  BY <2>2, <2>3, <2>4
<1>12. \A i \in 1..m : Good(lines[i]) => Adds(lines[i], F, W, m, i)
  BY <1>5, <1>11 DEF Adds
<1>. QED  BY <1>7, <1>8, <1>9, <1>10, <1>12

(* After i lines the next good one is written, if there is one.            *)
LEMMA NextGood ==
    ASSUME NEW lines \in Seq({Flush} \cup Seq(Digit)), NEW F, NEW W, Streams(lines, F, W),
           NEW m, m = Len(lines), NEW i \in 0..m
    PROVE  \/ \E j \in 1..m : Good(lines[j]) /\ F[j - 1] = F[i] /\ W[j - 1] = W[i]
           \/ F[m] = F[i] /\ W[m] = W[i]
<1>1. m \in Nat  OBVIOUS
<1>. DEFINE G == {j \in (i + 1)..m : Good(lines[j])}
<1>2. ASSUME NEW n \in i..m, \A j \in (i + 1)..n : ~ Good(lines[j])
      PROVE  F[n] = F[i] /\ W[n] = W[i]
  <2>. DEFINE U == {j \in i..n : ~ (F[j] = F[i] /\ W[j] = W[i])}
  <2>1. ASSUME U # {} PROVE FALSE
    <3>1. PICK k \in U : \A j \in U : k <= j
      <4>1. U \in SUBSET Nat  OBVIOUS
      <4>. HIDE DEF U
      <4>. QED  BY <2>1, <4>1, Least
    <3>2. k \in i..n /\ ~ (F[k] = F[i] /\ W[k] = W[i])  BY <3>1
    <3>3. k # i  BY <3>2
    <3>4. k \in (i + 1)..n /\ k - 1 \in i..n /\ ~ (k <= k - 1) /\ k \in 1..m  BY <1>1, <3>2, <3>3
    <3>5. F[k - 1] = F[i] /\ W[k - 1] = W[i]  BY <3>1, <3>4
    <3>6. F[k] = F[k - 1] /\ W[k] = W[k - 1]  BY <1>2, <3>4 DEF Streams
    <3>. QED  BY <3>2, <3>5, <3>6
  <2>2. n \in i..n  BY <1>1
  <2>. QED  BY <2>1, <2>2
<1>3. CASE G = {}
  <2>1. \A j \in (i + 1)..m : ~ Good(lines[j])  BY <1>3
  <2>2. m \in i..m  BY <1>1
  <2>. QED  BY <1>2, <2>1, <2>2
<1>4. CASE G # {}
  <2>1. PICK j \in G : \A k \in G : j <= k
    <3>1. G \in SUBSET Nat  BY <1>1
    <3>. HIDE DEF G
    <3>. QED  BY <1>4, <3>1, Least
  <2>2. j \in (i + 1)..m /\ Good(lines[j])  BY <2>1
  <2>3. j \in 1..m /\ j - 1 \in i..m  BY <1>1, <2>2
  <2>4. \A k \in (i + 1)..(j - 1) : k \in (i + 1)..m /\ ~ (j <= k)  BY <1>1, <2>2
  <2>5. \A k \in (i + 1)..(j - 1) : ~ Good(lines[k])  BY <2>1, <2>4
  <2>6. F[j - 1] = F[i] /\ W[j - 1] = W[i]  BY <1>2, <2>3, <2>5
  <2>. QED  BY <2>2, <2>3, <2>6
<1>. QED  BY <1>3, <1>4

-----------------------------------------------------------------------------
(* What is read from the stream, or from as much as has arrived of it.     *)

Reads == [line : Seq(Digit), err : {"nil", "EOF", "ErrUnexpectedEOF"}, rest : Seq(Digit)]

LEMMA ReadIs ==
    ASSUME NEW s \in Seq(Digit)
    PROVE  ReadLine(s) \in Reads
<1>. DEFINE n == LineLen(SubSeq(s, 1, Width))
<1>0. Len(s) \in Nat  OBVIOUS
<1>1. \A l, t \in Seq(Digit), e \in {"nil", "EOF", "ErrUnexpectedEOF"} : Line(l, e, t) \in Reads
  BY DEF Line, Reads
<1>2. << >> \in Seq(Digit)  OBVIOUS
<1>3. CASE Len(s) < Width
  <2>1. ReadLine(s) = Line(<< >>, "ErrUnexpectedEOF", << >>)  BY <1>3 DEF ReadLine
  <2>. QED  BY <1>1, <1>2, <2>1
<1>4. CASE ~ (Len(s) < Width)
  <2>1. \A a \in 0..Len(s) : SubSeq(s, a + 1, Len(s)) \in Seq(Digit)  BY RestIs
  <2>2. SubSeq(s, Width + 1, Len(s)) \in Seq(Digit)
    <3>1. Width \in 0..Len(s)  BY <1>0, <1>4 DEF Width
    <3>. QED  BY <2>1, <3>1
  <2>3. n \in Int
    <3>. DEFINE h == SubSeq(s, 1, Width)
    <3>1. h[1] \in Digit /\ h[2] \in Digit /\ h[3] \in Digit /\ h[4] \in Digit
      <4>1. h \in Seq(Digit) /\ Len(h) = 4  BY <1>0, <1>4 DEF Width
      <4>. HIDE DEF h
      <4>2. \A t \in Seq(Digit) : \A p \in 1..Len(t) : t[p] \in Digit  OBVIOUS
      <4>3. 1 \in 1..4 /\ 2 \in 1..4 /\ 3 \in 1..4 /\ 4 \in 1..4  OBVIOUS
      <4>. QED  BY <4>1, <4>2, <4>3
    <3>. HIDE DEF h
    <3>2. h[1] \in Int /\ h[2] \in Int /\ h[3] \in Int /\ h[4] \in Int /\ Base \in Int
      BY <3>1, PktlineAssumption DEF Digit
    <3>3. \A a, b, c, d, e \in Int : ((a * e + b) * e + c) * e + d - 4 \in Int  OBVIOUS
    <3>4. LineLen(h) = ((h[1] * Base + h[2]) * Base + h[3]) * Base + h[4] - 4
      BY DEF LineLen, Width
    <3>5. LineLen(h) \in Int
      <4>. DEFINE a == h[1]
                  b == h[2]
                  c == h[3]
                  d == h[4]
      <4>1. a \in Int /\ b \in Int /\ c \in Int /\ d \in Int  BY <3>2
      <4>. HIDE DEF a, b, c, d
      <4>2. ((a * Base + b) * Base + c) * Base + d - 4 \in Int  BY <3>2, <3>3, <4>1
      <4>. QED  BY <3>4, <4>2 DEF a, b, c, d
    <3>. QED  BY <3>5 DEF h
  <2>4. ReadLine(s) =
          IF n < 0
          THEN Line(<< >>, "EOF", SubSeq(s, Width + 1, Len(s)))
          ELSE IF Len(s) < Width + n
          THEN Line(SubSeq(s, Width + 1, Len(s)), "ErrUnexpectedEOF", << >>)
          ELSE Line(SubSeq(s, Width + 1, Width + n), "nil", SubSeq(s, Width + n + 1, Len(s)))
    BY <1>4 DEF ReadLine
  <2>. HIDE DEF n
  <2>5. CASE n < 0
    BY <1>1, <1>2, <2>2, <2>4, <2>5
  <2>6. CASE ~ (n < 0) /\ Len(s) < Width + n
    BY <1>1, <1>2, <2>2, <2>4, <2>6
  <2>7. CASE ~ (n < 0) /\ ~ (Len(s) < Width + n)
    <3>1. Width + n \in 0..Len(s)  BY <1>0, <2>3, <2>7 DEF Width
    <3>2. SubSeq(s, Width + n + 1, Len(s)) \in Seq(Digit)  BY <2>1, <3>1
    <3>3. SubSeq(s, Width + 1, Width + n) \in Seq(Digit)
      BY <1>0, <2>3, <2>7, <3>1 DEF Width
    <3>. QED  BY <1>1, <2>4, <2>7, <3>2, <3>3
  <2>. QED  BY <2>5, <2>6, <2>7
<1>. QED  BY <1>3, <1>4

(* read[k] is the k-th result and what is left of the stream after it.     *)
Reading(d, n, read) ==
    /\ read \in [0..n -> Reads] /\ read[0].rest = d
    /\ \A k \in 1..n : read[k] = ReadLine(read[k - 1].rest)
    /\ ReadLines(d, n) = [k \in 1..n |-> [line |-> read[k].line, err |-> read[k].err]]

LEMMA ReadingExists ==
    ASSUME NEW d \in Seq(Digit), NEW n \in Nat
    PROVE  \E read : Reading(d, n, read)
<1>. DEFINE step == [kt \in (1..n) \X Reads |-> ReadLine(kt[2].rest)]
            Value(i, f) == IF i = 0 THEN Line(<< >>, "nil", d) ELSE ReadLine(f[i - 1].rest)
            read[i \in 0..n] ==
                IF i = 0 THEN Line(<< >>, "nil", d) ELSE ReadLine(read[i - 1].rest)
<1>0. \A r \in Reads : r.rest \in Seq(Digit)  BY DEF Reads
<1>1. \A k \in 1..n : \A t \in Reads : step[<<k, t>>] = ReadLine(t.rest) /\ ReadLine(t.rest) \in Reads
  <2>1. \A k \in 1..n : \A t \in Reads : step[<<k, t>>] = ReadLine(t.rest)
    <3>. HIDE DEF Reads
    <3>. QED  OBVIOUS
  <2>. HIDE DEF Reads, step
  <2>. QED  BY <1>0, <2>1, ReadIs
<1>2. Line(<< >>, "nil", d) \in Reads
  <2>1. << >> \in Seq(Digit)  OBVIOUS
  <2>. QED  BY <2>1 DEF Line, Reads
<1>. HIDE DEF step
<1>3. PICK f : IsPrimitive(f, n, Reads, Line(<< >>, "nil", d), step)
  <2>1. Primitive(n, Reads, Line(<< >>, "nil", d), step)  BY <1>1, <1>2 DEF Primitive
  <2>. QED  BY <2>1, PrimitiveExists
<1>4. f \in [0..n -> Reads] /\ f[0] = Line(<< >>, "nil", d)
      /\ \A k \in 1..n : f[k] = step[<<k, f[k - 1]>>]
  BY <1>3 DEF IsPrimitive
<1>5. \A i \in 0..n : f[i] = Value(i, f)
  <2>1. \A i \in 0..n : i # 0 => i \in 1..n /\ i - 1 \in 0..n  OBVIOUS
  <2>2. \A i \in 0..n : i # 0 => f[i] = ReadLine(f[i - 1].rest)
    <3>1. \A i \in 0..n : i # 0 => f[i - 1] \in Reads  BY <1>4, <2>1
    <3>. QED  BY <1>1, <1>4, <2>1, <3>1
  <2>. QED  BY <1>4, <2>2
<1>6. f = [i \in 0..n |-> Value(i, f)]
  <2>. HIDE DEF Value
  <2>. QED  BY <1>4, <1>5
<1>7. read = [i \in 0..n |-> Value(i, read)]  BY <1>6
<1>8. ReadLines(d, n) = [k \in 1..n |-> [line |-> read[k].line, err |-> read[k].err]]
  BY DEF ReadLines
<1>. HIDE DEF read
<1>9. \A i \in 0..n : read[i] = Value(i, read)
  <2>. HIDE DEF Value
  <2>. QED  BY <1>7
<1>10. \A i \in 0..n : read[i] \in Reads
  <2>. DEFINE U == {k \in 0..n : read[k] \notin Reads}
  <2>1. ASSUME U # {} PROVE FALSE
    <3>1. PICK k \in U : \A j \in U : k <= j
      <4>1. U \in SUBSET Nat  OBVIOUS
      <4>. HIDE DEF U
      <4>. QED  BY <2>1, <4>1, Least
    <3>2. k \in 0..n /\ read[k] \notin Reads  BY <3>1
    <3>3. k # 0
      <4>1. 0 \in 0..n /\ Value(0, read) = Line(<< >>, "nil", d)  OBVIOUS
      <4>2. read[0] = Line(<< >>, "nil", d)
        <5>. HIDE DEF Value
        <5>. QED  BY <1>9, <4>1
      <4>. QED  BY <1>2, <3>2, <4>2
    <3>4. k - 1 \in 0..n /\ ~ (k <= k - 1)  BY <3>2, <3>3
    <3>5. read[k - 1] \in Reads  BY <3>1, <3>4
    <3>6. read[k] = ReadLine(read[k - 1].rest)  BY <1>9, <3>2, <3>3
    <3>. QED  BY <1>0, <3>2, <3>5, <3>6, ReadIs
  <2>. QED  BY <2>1
<1>11. read \in [0..n -> Reads]
  <2>1. read = [i \in 0..n |-> read[i]]
    <3>. HIDE DEF Value
    <3>. QED  BY <1>7
  <2>. QED  BY <1>10, <2>1
<1>12. read[0].rest = d
  <2>1. read[0] = Line(<< >>, "nil", d)  BY <1>9
  <2>. QED  BY <2>1 DEF Line
<1>13. \A k \in 1..n : read[k] = ReadLine(read[k - 1].rest)
  <2>1. \A k \in 1..n : k \in 0..n /\ k # 0  OBVIOUS
  <2>. QED  BY <1>9, <2>1
<1>. QED  BY <1>8, <1>11, <1>12, <1>13 DEF Reading

LEMMA RestOfRest ==
    ASSUME NEW S, NEW s \in Seq(S), NEW a \in 0..Len(s), NEW b \in 0..(Len(s) - a)
    PROVE  LET t == SubSeq(s, a + 1, Len(s))
           IN  SubSeq(t, b + 1, Len(t)) = SubSeq(s, a + b + 1, Len(s))
<1>. DEFINE t == SubSeq(s, a + 1, Len(s))
            u == SubSeq(t, b + 1, Len(t))
            v == SubSeq(s, (a + b) + 1, Len(s))
<1>1. Len(s) \in Nat  OBVIOUS
<1>2. t \in Seq(S) /\ Len(t) = Len(s) - a /\ \A p \in 1..(Len(s) - a) : t[p] = s[a + p]
  BY RestIs
<1>. HIDE DEF t
<1>3. b \in 0..Len(t)  BY <1>1, <1>2
<1>4. u \in Seq(S) /\ Len(u) = Len(t) - b /\ \A p \in 1..(Len(t) - b) : u[p] = t[b + p]
  BY <1>2, <1>3, RestIs
<1>5. a + b \in 0..Len(s)  BY <1>1
<1>6. v \in Seq(S) /\ Len(v) = Len(s) - (a + b)
      /\ \A p \in 1..(Len(s) - (a + b)) : v[p] = s[(a + b) + p]
  BY <1>5, RestIs
<1>. HIDE DEF u, v
<1>7. Len(u) = Len(v)  BY <1>1, <1>2, <1>4, <1>6
<1>8. \A p \in 1..Len(u) : u[p] = v[p]
  <2>. SUFFICES ASSUME NEW p \in 1..Len(u) PROVE u[p] = v[p]
    OBVIOUS
  <2>1. p \in 1..(Len(t) - b) /\ b + p \in 1..(Len(s) - a) /\ p \in 1..(Len(s) - (a + b))
        /\ a + (b + p) = (a + b) + p
    BY <1>1, <1>2, <1>4, <1>6, <1>7
  <2>. QED  BY <1>2, <1>4, <1>6, <2>1
<1>9. u = v
  <2>1. \A x, y \in Seq(S) : Len(x) = Len(y) /\ (\A p \in 1..Len(x) : x[p] = y[p]) => x = y
    OBVIOUS
  <2>2. u \in Seq(S) /\ v \in Seq(S)  BY <1>4, <1>6
  <2>. QED  BY <1>7, <1>8, <2>1, <2>2
<1>. QED  BY <1>9 DEF t, u, v

(* After k calls, what was written by the first i lines has been read.     *)
InStep(d, read, F, W, k, i) ==
    /\ Len(W[i]) = k
    /\ Len(F[i]) <= Len(d)
    /\ read[k].rest = SubSeq(d, Len(F[i]) + 1, Len(d))
    /\ \A j \in 1..k : [line |-> read[j].line, err |-> read[j].err] = W[i][j]

(* The next call reads the next line as it was written, or says what has   *)
(* not arrived of it, or that there is none.                               *)
LEMMA NextRead ==
    ASSUME NEW lines \in Seq({Flush} \cup Seq(Digit)), NEW F, NEW W, Streams(lines, F, W),
           NEW m, m = Len(lines), NEW d \in Seq(Digit), Extends(d, F[m]),
           NEW n \in Nat, NEW read, Reading(d, n, read),
           NEW k \in Nat, k + 1 <= n, NEW i \in 0..m, InStep(d, read, F, W, k, i)
    PROVE  \/ \E j \in 0..m : InStep(d, read, F, W, k + 1, j)
           \/ /\ read[k + 1].err = "ErrUnexpectedEOF"
              /\ k + 1 <= Len(W[m]) => /\ Len(d) < Len(F[m])
                                       /\ IsPrefix(read[k + 1].line, W[m][k + 1].line)
              /\ k + 1 > Len(W[m]) => read[k + 1].line = << >>
<1>0. \A x \in 1..m : Good(lines[x]) => Adds(lines[x], F, W, m, x)
  BY StreamsGrow
<1>. DEFINE a == Len(F[i])
            s == read[k].rest
<1>1. m \in Nat /\ i \in 0..m /\ m \in 0..m  OBVIOUS
<1>2. \A j \in 0..m : F[j] \in Seq(Digit) /\ W[j] \in Seq(Results)
                      /\ Extends(F[j], F[m]) /\ Extends(W[j], W[m])
  BY StreamsGrow
<1>3. \A j \in 0..m : Len(F[j]) \in Nat /\ Len(W[j]) \in Nat
  <2>1. \A t \in Seq(Digit) : Len(t) \in Nat  OBVIOUS
  <2>2. \A t \in Seq(Results) : Len(t) \in Nat  OBVIOUS
  <2>. QED  BY <1>2, <2>1, <2>2
<1>4. Len(d) \in Nat /\ a \in Nat /\ a <= Len(d) /\ a \in 0..Len(d)
  <2>1. a \in Nat  BY <1>1, <1>3
  <2>2. a <= Len(d)  BY DEF InStep
  <2>3. Len(d) \in Nat  OBVIOUS
  <2>. HIDE DEF a
  <2>. QED  BY <2>1, <2>2, <2>3
<1>5. s = SubSeq(d, a + 1, Len(d)) /\ Len(W[i]) = k
      /\ \A j \in 1..k : [line |-> read[j].line, err |-> read[j].err] = W[i][j]
  BY DEF InStep
<1>6. read[k + 1] = ReadLine(s)
  <2>1. k + 1 \in 1..n /\ (k + 1) - 1 = k  OBVIOUS
  <2>2. read[k + 1] = ReadLine(read[(k + 1) - 1].rest)  BY <2>1 DEF Reading
  <2>. QED  BY <2>1, <2>2
<1>. HIDE DEF a
<1>7. s \in Seq(Digit) /\ Len(s) = Len(d) - a /\ \A p \in 1..(Len(d) - a) : s[p] = d[a + p]
  BY <1>4, <1>5, RestIs
<1>. HIDE DEF s
<1>8. ASSUME NEW j \in 1..m, Good(lines[j]), F[j - 1] = F[i], W[j - 1] = W[i]
      PROVE  \/ InStep(d, read, F, W, k + 1, j)
             \/ /\ read[k + 1].err = "ErrUnexpectedEOF"
                /\ k + 1 <= Len(W[m]) /\ Len(d) < Len(F[m])
                /\ IsPrefix(read[k + 1].line, W[m][k + 1].line)
  <2>. DEFINE c == Chunk(lines[j])
              e == Result(lines[j])
  <2>1. c \in Seq(Digit) /\ Len(c) \in Nat
    <3>1. c \in Seq(Digit)  BY <1>8, ChunkIs
    <3>. HIDE DEF c
    <3>. QED  BY <3>1
  <2>2. /\ Len(F[j]) = a + Len(c)
        /\ \A p \in 1..Len(c) : F[m][a + p] = c[p]
        /\ Len(W[j]) = k + 1 /\ W[j][k + 1] = e
        /\ \A p \in 1..k : W[j][p] = W[i][p]
    <3>1. /\ Len(F[j]) = Len(F[j - 1]) + Len(c)
          /\ \A p \in 1..Len(c) : F[m][Len(F[j - 1]) + p] = c[p]
          /\ Len(W[j]) = Len(W[j - 1]) + 1
          /\ W[j][Len(W[j])] = e
          /\ \A p \in 1..Len(W[j - 1]) : W[j][p] = W[j - 1][p]
      BY <1>0, <1>8 DEF Adds
    <3>. HIDE DEF c, e
    <3>. QED  BY <1>5, <1>8, <3>1 DEF a
  <2>3. j \in 0..m  BY <1>1
  <2>4. Begins(s, c)
    <3>. SUFFICES ASSUME NEW p \in 1..Len(s), p <= Len(c) PROVE s[p] = c[p]
      BY DEF Begins
    <3>. HIDE DEF c
    <3>1. p \in 1..(Len(d) - a) /\ p \in 1..Len(c) /\ a + p \in 1..Len(d)
      BY <1>4, <1>7, <2>1
    <3>2. d[a + p] = F[m][a + p]  BY <3>1 DEF Extends
    <3>. QED  BY <1>7, <2>2, <3>1, <3>2
  <2>5. CASE Len(s) >= Len(c)
    <3>. DEFINE rest == SubSeq(s, Len(c) + 1, Len(s))
                err == IF lines[j] = Flush THEN "EOF" ELSE "nil"
    <3>1. ReadLine(s) = Line(Payload(lines[j]), err, rest)
      BY <1>7, <1>8, <2>4, <2>5, ReadsChunk
    <3>. HIDE DEF rest
    <3>2. read[k + 1].line = Payload(lines[j]) /\ read[k + 1].err = err
          /\ read[k + 1].rest = rest
      <4>. HIDE DEF err
      <4>. QED  BY <1>6, <3>1 DEF Line
    <3>3. [line |-> read[k + 1].line, err |-> read[k + 1].err] = e  BY <3>2 DEF Result
    <3>. HIDE DEF c, e
    <3>4. Len(F[j]) <= Len(d)  BY <1>4, <1>7, <2>1, <2>2, <2>5
    <3>5. rest = SubSeq(d, Len(F[j]) + 1, Len(d))
      <4>1. Len(c) \in 0..(Len(d) - a)  BY <1>4, <1>7, <2>1, <2>5
      <4>2. SubSeq(s, Len(c) + 1, Len(s)) = SubSeq(d, a + Len(c) + 1, Len(d))
        BY <1>4, <1>5, <4>1, RestOfRest
      <4>3. a + Len(c) + 1 = Len(F[j]) + 1  BY <1>4, <2>1, <2>2
      <4>. QED  BY <4>2, <4>3 DEF rest
    <3>6. \A p \in 1..(k + 1) : [line |-> read[p].line, err |-> read[p].err] = W[j][p]
      <4>. SUFFICES ASSUME NEW p \in 1..(k + 1)
                    PROVE  [line |-> read[p].line, err |-> read[p].err] = W[j][p]
        OBVIOUS
      <4>1. p = k + 1 \/ p \in 1..k  OBVIOUS
      <4>2. CASE p = k + 1
        BY <2>2, <3>3, <4>2
      <4>3. CASE p \in 1..k
        BY <1>5, <2>2, <4>3
      <4>. QED  BY <4>1, <4>2, <4>3
    <3>. QED  BY <2>2, <3>2, <3>4, <3>5, <3>6 DEF InStep
  <2>6. CASE ~ (Len(s) >= Len(c))
    <3>1. Len(s) < Len(c)
      <4>1. Len(s) \in Nat  BY <1>7
      <4>. HIDE DEF c
      <4>. QED  BY <2>1, <2>6, <4>1
    <3>2. ReadLine(s).err = "ErrUnexpectedEOF" /\ IsPrefix(ReadLine(s).line, Payload(lines[j]))
      BY <1>7, <1>8, <2>4, <3>1, ReadsTorn
    <3>3. e.line = Payload(lines[j])  BY DEF Result
    <3>. HIDE DEF c, e
    <3>4. Len(F[j]) <= Len(F[m]) /\ Len(W[j]) <= Len(W[m])
          /\ \A p \in 1..Len(W[j]) : W[m][p] = W[j][p]
      BY <1>2, <2>3 DEF Extends
    <3>5. Len(d) < Len(F[m])
      <4>1. Len(F[m]) \in Nat /\ Len(F[j]) \in Nat  BY <1>1, <1>3, <2>3
      <4>. QED  BY <1>4, <1>7, <2>1, <2>2, <3>1, <3>4, <4>1
    <3>6. k + 1 <= Len(W[m]) /\ W[m][k + 1] = e
      <4>1. k + 1 \in 1..(k + 1)  OBVIOUS
      <4>. QED  BY <2>2, <3>4, <4>1
    <3>. QED  BY <1>6, <3>2, <3>3, <3>5, <3>6
  <2>. QED  BY <2>5, <2>6
<1>9. ASSUME F[m] = F[i], W[m] = W[i]
      PROVE  read[k + 1].err = "ErrUnexpectedEOF" /\ read[k + 1].line = << >>
             /\ ~ (k + 1 <= Len(W[m]))
  <2>1. Len(d) <= a  BY <1>9 DEF Extends, a
  <2>2. Len(s) < Width  BY <1>4, <1>7, <2>1 DEF Width
  <2>3. ReadLine(s) = Line(<< >>, "ErrUnexpectedEOF", << >>)  BY <2>2 DEF ReadLine
  <2>4. ~ (k + 1 <= Len(W[m]))  BY <1>5, <1>9
  <2>. QED  BY <1>6, <2>3, <2>4 DEF Line
<1>10. k + 1 <= Len(W[m]) <=> ~ (k + 1 > Len(W[m]))
  <2>1. Len(W[m]) \in Nat  BY <1>1, <1>3
  <2>. QED  BY <2>1
<1>11. \/ \E j \in 1..m : Good(lines[j]) /\ F[j - 1] = F[i] /\ W[j - 1] = W[i]
       \/ F[m] = F[i] /\ W[m] = W[i]
  BY NextGood
<1>12. \A j \in 1..m : j \in 0..m  OBVIOUS
<1>. QED  BY <1>8, <1>9, <1>10, <1>11, <1>12

(* The t-th result of r, read from d, says where d ends; before it, w is   *)
(* what was written, to the stream f.                                      *)
EndsAt(r, t, d, f, w) ==
    /\ r[t].err = "ErrUnexpectedEOF"
    /\ \A j \in 1..(t - 1) : r[j].err # "ErrUnexpectedEOF" /\ j <= Len(w) /\ r[j] = w[j]
    /\ t <= Len(w) => Len(d) < Len(f) /\ IsPrefix(r[t].line, w[t].line)
    /\ t > Len(w) => r[t].line = << >>

LEMMA LinesAreRead ==
    ASSUME NEW lines \in Seq({Flush} \cup Seq(Digit)), NEW F, NEW W, Streams(lines, F, W),
           NEW m, m = Len(lines), NEW d \in Seq(Digit), Extends(d, F[m]),
           NEW r, r = ReadLines(d, m + 1)
    PROVE  \E t \in 1..(m + 1) : EndsAt(r, t, d, F[m], W[m])
<1>. DEFINE n == m + 1
<1>1. m \in Nat /\ n \in Nat /\ 0 \in 0..m  OBVIOUS
<1>2. PICK read : Reading(d, n, read)  BY <1>1, ReadingExists
<1>3. \A j \in 1..n : r[j] = [line |-> read[j].line, err |-> read[j].err]
  <2>1. r = [j \in 1..n |-> [line |-> read[j].line, err |-> read[j].err]]  BY <1>2 DEF Reading
  <2>. HIDE DEF n
  <2>. QED  BY <2>1
<1>4. \A j \in 1..n : r[j].line = read[j].line /\ r[j].err = read[j].err
  <2>. SUFFICES ASSUME NEW j \in 1..n
                PROVE  r[j].line = read[j].line /\ r[j].err = read[j].err
    OBVIOUS
  <2>. DEFINE l == read[j].line
              e == read[j].err
  <2>1. r[j] = [line |-> l, err |-> e]  BY <1>3
  <2>. HIDE DEF l, e
  <2>2. r[j].line = l /\ r[j].err = e  BY <2>1
  <2>. QED  BY <2>2 DEF l, e
<1>5. \A i \in 0..m : /\ W[i] \in Seq(Results) /\ Extends(W[i], W[m]) /\ Len(W[i]) <= i
  BY StreamsGrow
<1>. DEFINE U == {k \in 0..n : ~ \E i \in 0..m : InStep(d, read, F, W, k, i)}
<1>6. \A i \in 0..m : ~ InStep(d, read, F, W, n, i)
  <2>1. \A i \in 0..m : Len(W[i]) \in Nat /\ ~ (Len(W[i]) = n)
    <3>1. \A t \in Seq(Results) : Len(t) \in Nat  OBVIOUS
    <3>2. \A i \in 0..m : Len(W[i]) \in Nat /\ Len(W[i]) <= i  BY <1>5, <3>1
    <3>. QED  BY <1>1, <3>2
  <2>. QED  BY <2>1 DEF InStep
<1>7. n \in U  BY <1>1, <1>6
<1>8. PICK t \in U : \A k \in U : t <= k
  <2>1. U \in SUBSET Nat  OBVIOUS
  <2>. HIDE DEF U
  <2>. QED  BY <1>7, <2>1, Least
<1>9. t \in 0..n /\ ~ \E i \in 0..m : InStep(d, read, F, W, t, i)  BY <1>8
<1>10. InStep(d, read, F, W, 0, 0)
  <2>1. F[0] = << >> /\ W[0] = << >>  BY DEF Streams
  <2>2. Len(<< >>) = 0 /\ Len(d) \in Nat /\ SubSeq(d, 0 + 1, Len(d)) = d  OBVIOUS
  <2>3. read[0].rest = d  BY <1>2 DEF Reading
  <2>. QED  BY <2>1, <2>2, <2>3 DEF InStep
<1>11. t # 0  BY <1>1, <1>9, <1>10
<1>. DEFINE k == t - 1
<1>12. t \in 1..n /\ k \in 0..n /\ k \in Nat /\ k + 1 = t /\ k + 1 <= n /\ ~ (t <= k)
  BY <1>1, <1>9, <1>11
<1>13. k \notin U  BY <1>8, <1>12
<1>14. PICK i \in 0..m : InStep(d, read, F, W, k, i)  BY <1>12, <1>13
<1>. HIDE DEF U, n, k
<1>15. /\ read[t].err = "ErrUnexpectedEOF"
       /\ t <= Len(W[m]) => Len(d) < Len(F[m]) /\ IsPrefix(read[t].line, W[m][t].line)
       /\ t > Len(W[m]) => read[t].line = << >>
  <2>1. \/ \E j \in 0..m : InStep(d, read, F, W, k + 1, j)
        \/ /\ read[k + 1].err = "ErrUnexpectedEOF"
           /\ k + 1 <= Len(W[m]) => /\ Len(d) < Len(F[m])
                                    /\ IsPrefix(read[k + 1].line, W[m][k + 1].line)
           /\ k + 1 > Len(W[m]) => read[k + 1].line = << >>
    <3>1. \A x \in Nat : x + 1 <= n => \A y \in 0..m : InStep(d, read, F, W, x, y) =>
             \/ \E j \in 0..m : InStep(d, read, F, W, x + 1, j)
             \/ /\ read[x + 1].err = "ErrUnexpectedEOF"
                /\ x + 1 <= Len(W[m]) => /\ Len(d) < Len(F[m])
                                         /\ IsPrefix(read[x + 1].line, W[m][x + 1].line)
                /\ x + 1 > Len(W[m]) => read[x + 1].line = << >>
      BY <1>1, <1>2, NextRead
    <3>. QED  BY <1>12, <1>14, <3>1
  <2>. QED  BY <1>9, <1>12, <2>1
<1>16. ASSUME NEW j \in 1..k
       PROVE  r[j].err # "ErrUnexpectedEOF" /\ j <= Len(W[m]) /\ r[j] = W[m][j]
  <2>1. Len(W[i]) = k /\ [line |-> read[j].line, err |-> read[j].err] = W[i][j]
    BY <1>14 DEF InStep
  <2>2. j \in 1..n  BY <1>1, <1>12
  <2>3. r[j] = W[i][j]  BY <1>3, <2>1, <2>2
  <2>4. Len(W[i]) <= Len(W[m]) /\ \A p \in 1..Len(W[i]) : W[m][p] = W[i][p]
    BY <1>5 DEF Extends
  <2>5. W[m][j] = W[i][j]  BY <2>1, <2>4
  <2>6. j <= Len(W[m])
    <3>1. Len(W[m]) \in Nat
      <4>1. W[m] \in Seq(Results)  BY <1>1, <1>5
      <4>. QED  BY <4>1
    <3>. QED  BY <1>12, <2>1, <2>4, <3>1
  <2>7. W[i][j] \in Results
    <3>1. W[i] \in Seq(Results)  BY <1>5
    <3>2. \A s \in Seq(Results) : \A p \in 1..Len(s) : s[p] \in Results  OBVIOUS
    <3>. QED  BY <2>1, <3>1, <3>2
  <2>8. r[j].err # "ErrUnexpectedEOF"  BY <2>3, <2>7 DEF Results
  <2>. QED  BY <2>3, <2>5, <2>6, <2>8
<1>17. r[t].line = read[t].line /\ r[t].err = read[t].err  BY <1>4, <1>12
<1>18. t \in 1..(m + 1)  BY <1>12 DEF n
<1>19. \A j \in 1..(t - 1) : r[j].err # "ErrUnexpectedEOF" /\ j <= Len(W[m]) /\ r[j] = W[m][j]
  BY <1>16 DEF k
<1>20. EndsAt(r, t, d, F[m], W[m])  BY <1>15, <1>17, <1>19 DEF EndsAt
<1>. QED  BY <1>18, <1>20

(* What arrived is what was sent, or the front of it.                      *)
LEMMA LinesTravel ==
    ASSUME Inv, pc = "done", format = "lines"
    PROVE  /\ value \in Seq({Flush} \cup Seq(Digit))
           /\ result = ReadLines(data, Len(value) + 1)
           /\ Encoded(format, value) = WriteLines(value)
           /\ \/ data = WriteLines(value)
              \/ \E n \in 0..(Len(WriteLines(value)) - 1) : data = SubSeq(WriteLines(value), 1, n)
<1>1. result = Decoded /\ (Sent \/ Torn \/ Shuffled)  BY DEF Inv
<1>2. Decoded = ReadLines(data, Len(value) + 1)  BY DEF Decoded
<1>3. ValuesOf(format) = Lines  BY DEF ValuesOf
<1>4. Encoded(format, value) = WriteLines(value)  BY DEF Encoded
<1>5. Sent \/ Torn  BY <1>1 DEF Shuffled
<1>6. Sent => value \in Lines /\ data = WriteLines(value)  BY <1>3, <1>4 DEF Sent
<1>7. Torn => /\ value \in Lines
              /\ \E n \in 0..(Len(WriteLines(value)) - 1) : data = SubSeq(WriteLines(value), 1, n)
  BY <1>3, <1>4 DEF Torn
<1>8. value \in Seq({Flush} \cup Seq(Digit))  BY <1>5, <1>6, <1>7, CodecAssumption DEF Digit
<1>. QED  BY <1>1, <1>2, <1>4, <1>5, <1>6, <1>7, <1>8

(* pktline.Reader reads the lines as pktline.Writer wrote them, up to      *)
(* where the connection broke, which is noticed.                           *)
THEOREM LinesSurvive == Spec => []LinesArrive
<1>1. Inv => LinesArrive
  <2>. SUFFICES ASSUME Inv, pc = "done", format = "lines"
                PROVE  LinesArrive
    BY DEF LinesArrive
  <2>. DEFINE m == Len(value)
              torn == {i \in DOMAIN result : result[i].err = "ErrUnexpectedEOF"}
              n == CHOOSE i \in torn : \A j \in torn : i <= j
  <2>1. /\ value \in Seq({Flush} \cup Seq(Digit))
        /\ result = ReadLines(data, m + 1)
        /\ Encoded(format, value) = WriteLines(value)
        /\ \/ data = WriteLines(value)
           \/ \E k \in 0..(Len(WriteLines(value)) - 1) : data = SubSeq(WriteLines(value), 1, k)
    BY LinesTravel
  <2>2. m \in Nat  BY <2>1
  <2>3. PICK F, W : Streams(value, F, W)  BY <2>1, StreamsExist
  <2>4. WriteLines(value) = F[m] /\ WrittenOf(value) = W[m] /\ F[m] \in Seq(Digit)
    <3>1. m \in 0..m  BY <2>2
    <3>. QED  BY <2>3, <3>1 DEF Streams
  <2>5. data \in Seq(Digit) /\ Len(data) <= Len(F[m]) /\ Extends(data, F[m])
    <3>. DEFINE f == F[m]
    <3>. HIDE DEF f
    <3>1. f \in Seq(Digit) /\ Len(f) \in Nat  BY <2>4 DEF f
    <3>2. CASE data = f
      <4>1. Len(data) <= Len(f) /\ \A p \in 1..Len(data) : f[p] = data[p]  BY <3>1, <3>2
      <4>. QED  BY <3>1, <3>2, <4>1 DEF Extends, f
    <3>3. ASSUME NEW k \in 0..(Len(f) - 1), data = SubSeq(f, 1, k)
          PROVE  data \in Seq(Digit) /\ Len(data) <= Len(f) /\ Extends(data, f)
      <4>1. data \in Seq(Digit) /\ Len(data) = k /\ \A p \in 1..k : data[p] = f[p]
        BY <3>1, <3>3
      <4>2. Len(data) <= Len(f)  BY <3>1, <4>1
      <4>. QED  BY <4>1, <4>2 DEF Extends
    <3>. QED  BY <2>1, <2>4, <3>2, <3>3 DEF f
  <2>6. result = [k \in 1..(m + 1) |-> result[k]]
    <3>1. PICK read : Reading(data, m + 1, read)
      <4>1. m + 1 \in Nat  BY <2>2
      <4>. QED  BY <2>5, <4>1, ReadingExists
    <3>2. result = [k \in 1..(m + 1) |-> [line |-> read[k].line, err |-> read[k].err]]
      BY <2>1, <3>1 DEF Reading
    <3>. QED  BY <3>2
  <2>7. DOMAIN result = 1..(m + 1)  BY <2>6
  <2>8. PICK t \in 1..(m + 1) : EndsAt(result, t, data, F[m], W[m])
    <3>1. result = ReadLines(data, m + 1)  BY <2>1
    <3>2. Streams(value, F, W) /\ Extends(data, F[m]) /\ data \in Seq(Digit)  BY <2>3, <2>5
    <3>3. value \in Seq({Flush} \cup Seq(Digit))  BY <2>1
    <3>. QED  BY <3>1, <3>2, <3>3, LinesAreRead
  <2>9. t \in torn /\ \A j \in torn : t <= j
    <3>1. t \in torn  BY <2>7, <2>8 DEF EndsAt
    <3>2. \A j \in torn : j \in 1..(m + 1) /\ result[j].err = "ErrUnexpectedEOF"  BY <2>7
    <3>3. \A j \in torn : j \notin 1..(t - 1)  BY <2>8, <3>2 DEF EndsAt
    <3>4. \A j \in 1..(m + 1) : j \notin 1..(t - 1) => t <= j  BY <2>2
    <3>. QED  BY <3>1, <3>2, <3>3, <3>4
  <2>10. n = t
    <3>1. torn \in SUBSET (1..(m + 1))  BY <2>7
    <3>. HIDE DEF torn
    <3>2. n \in torn /\ \A j \in torn : n <= j  BY <2>9
    <3>3. n <= t /\ t <= n /\ n \in 1..(m + 1)  BY <2>9, <3>1, <3>2
    <3>. HIDE DEF n
    <3>. QED  BY <2>2, <3>3
  <2>11. Written = W[m]  BY <2>4 DEF Written
  <2>12. Len(data) < Len(F[m]) => data # Encoded(format, value)
    <3>1. Len(F[m]) \in Nat  BY <2>4
    <3>. QED  BY <2>1, <2>4, <3>1
  <2>13. /\ torn # {}
         /\ \A i \in 1..(n - 1) : i <= Len(Written) /\ result[i] = Written[i]
         /\ n <= Len(Written) =>
               /\ data # Encoded(format, value)
               /\ IsPrefix(result[n].line, Written[n].line)
         /\ n > Len(Written) => result[n].line = << >>
    <3>1. torn # {}  BY <2>9
    <3>. HIDE DEF torn, n
    <3>. QED  BY <2>8, <2>10, <2>11, <2>12, <3>1 DEF EndsAt
  <2>. QED  BY <2>13 DEF LinesArrive
<1>. QED  BY <1>1, Invariance, PTL
-----------------------------------------------------------------------------
(* Signatures: what is printed of a zone and scanned again.                *)

LEMMA OffsetIsBack ==
    ASSUME NEW o \in Int, o % 60 = 0
    PROVE  /\ Zone(FormatZone(o)) = o
           /\ FormatZone(o) \in [west : BOOLEAN, hours : Nat, minutes : 0..59]
<1>. DEFINE zone == Quo(o, 60)
            abs == IF zone < 0 THEN -zone ELSE zone
            h == abs \div 60
            m == abs % 60
<1>1. zone \in Int /\ o = 60 * zone
  <2>1. CASE o < 0
    <3>1. zone = -((-o) \div 60)  BY <2>1 DEF Quo
    <3>2. (-o) \div 60 \in Int /\ -o = 60 * ((-o) \div 60)
      OBVIOUS
    <3>. QED  BY <3>1, <3>2
  <2>2. CASE ~ (o < 0)
    <3>1. zone = o \div 60  BY <2>2 DEF Quo
    <3>. QED  BY <3>1
  <2>. QED  BY <2>1, <2>2
<1>. HIDE DEF zone
<1>2. abs \in Nat /\ h \in Nat /\ m \in 0..59 /\ abs = 60 * h + m  BY <1>1
<1>3. FormatZone(o) = [west |-> zone < 0, hours |-> h, minutes |-> m]
  BY DEF FormatZone, zone
<1>. HIDE DEF h, m
<1>4. /\ Quo(h * 100 + m, 100) = h /\ Rem(h * 100 + m, 100) = m
      /\ zone < 0 => Quo(-(h * 100 + m), 100) = -h /\ Rem(-(h * 100 + m), 100) = -m
  <2>1. (h * 100 + m) \div 100 = h  BY <1>2
  <2>2. zone < 0 => h * 100 + m > 0  BY <1>1, <1>2
  <2>3. Quo(h * 100 + m, 100) = h  BY <1>2, <2>1 DEF Quo
  <2>4. zone < 0 => Quo(-(h * 100 + m), 100) = -h
    <3>1. -(-(h * 100 + m)) = h * 100 + m  BY <1>2
    <3>. QED  BY <1>2, <2>1, <2>2, <3>1 DEF Quo
  <2>. QED  BY <1>2, <2>3, <2>4 DEF Rem
<1>5. Zone(FormatZone(o)) = IF zone < 0 THEN ScanZone(-(h * 100 + m)) ELSE ScanZone(h * 100 + m)
  <2>1. CASE zone < 0
    <3>1. (zone < 0) = TRUE  BY <2>1
    <3>2. FormatZone(o) = [west |-> TRUE, hours |-> h, minutes |-> m]  BY <1>3, <3>1
    <3>. QED  BY <2>1, <3>2 DEF Zone
  <2>2. CASE ~ (zone < 0)
    <3>1. (zone < 0) = FALSE  BY <2>2
    <3>2. FormatZone(o) = [west |-> FALSE, hours |-> h, minutes |-> m]  BY <1>3, <3>1
    <3>. QED  BY <2>2, <3>2 DEF Zone
  <2>. QED  BY <2>1, <2>2
<1>6. Zone(FormatZone(o)) = o
  <2>1. CASE zone < 0
    <3>1. Zone(FormatZone(o)) = (-h) * 60 * 60 + (-m) * 60
      BY <1>4, <1>5, <2>1 DEF ScanZone
    <3>2. -zone = 60 * h + m  BY <1>2, <2>1
    <3>. QED  BY <1>1, <1>2, <3>1, <3>2
  <2>2. CASE ~ (zone < 0)
    <3>1. Zone(FormatZone(o)) = h * 60 * 60 + m * 60
      BY <1>4, <1>5, <2>2 DEF ScanZone
    <3>2. zone = 60 * h + m  BY <1>2, <2>2
    <3>. QED  BY <1>1, <1>2, <3>1, <3>2
  <2>. QED  BY <2>1, <2>2
<1>7. (zone < 0) \in BOOLEAN  OBVIOUS
<1>. QED  BY <1>2, <1>3, <1>6, <1>7

LEMMA ZoneIsBack ==
    ASSUME NEW z \in [west : BOOLEAN, hours : Nat, minutes : Nat],
           z.minutes < 60, z.west => z.hours + z.minutes > 0
    PROVE  Zone(z) \in Int /\ Zone(z) % 60 = 0 /\ FormatZone(Zone(z)) = z
<1>. DEFINE h == z.hours
            m == z.minutes
            a == 60 * h + m
            o == Zone(z)
<1>1. h \in Nat /\ m \in 0..59 /\ a \in Nat /\ z.west \in BOOLEAN
      /\ (z.west => h * 100 + m > 0 /\ a > 0)
  OBVIOUS
<1>2. z = [west |-> z.west, hours |-> h, minutes |-> m]  OBVIOUS
<1>3. o = IF z.west THEN ScanZone(-(h * 100 + m)) ELSE ScanZone(h * 100 + m)  BY DEF Zone
<1>. HIDE DEF h, m, o
<1>4. /\ Quo(h * 100 + m, 100) = h /\ Rem(h * 100 + m, 100) = m
      /\ z.west => Quo(-(h * 100 + m), 100) = -h /\ Rem(-(h * 100 + m), 100) = -m
  <2>1. (h * 100 + m) \div 100 = h  BY <1>1
  <2>3. Quo(h * 100 + m, 100) = h  BY <1>1, <2>1 DEF Quo
  <2>4. z.west => Quo(-(h * 100 + m), 100) = -h
    <3>1. -(-(h * 100 + m)) = h * 100 + m  BY <1>1
    <3>. QED  BY <1>1, <2>1, <3>1 DEF Quo
  <2>. QED  BY <1>1, <2>3, <2>4 DEF Rem
<1>5. o = IF z.west THEN -(60 * a) ELSE 60 * a
  <2>1. z.west => o = (-h) * 60 * 60 + (-m) * 60  BY <1>3, <1>4 DEF ScanZone
  <2>2. ~ z.west => o = h * 60 * 60 + m * 60  BY <1>3, <1>4 DEF ScanZone
  <2>. QED  BY <1>1, <2>1, <2>2
<1>6. a \div 60 = h /\ a % 60 = m  BY <1>1
<1>. HIDE DEF a
<1>7. o \in Int /\ o % 60 = 0  BY <1>1, <1>5
<1>8. Quo(o, 60) = IF z.west THEN -a ELSE a
  <2>1. CASE z.west
    <3>1. o < 0 /\ -o = 60 * a  BY <1>1, <1>5, <2>1
    <3>2. (60 * a) \div 60 = a  BY <1>1
    <3>. QED  BY <2>1, <3>1, <3>2 DEF Quo
  <2>2. CASE ~ z.west
    <3>1. ~ (o < 0) /\ o = 60 * a  BY <1>1, <1>5, <2>2
    <3>2. (60 * a) \div 60 = a  BY <1>1
    <3>. QED  BY <2>2, <3>1, <3>2 DEF Quo
  <2>. QED  BY <2>1, <2>2
<1>9. FormatZone(o) = [west |-> z.west, hours |-> h, minutes |-> m]
  <2>1. CASE z.west
    <3>1. Quo(o, 60) < 0 /\ -Quo(o, 60) = a  BY <1>1, <1>8, <2>1
    <3>2. z.west = TRUE  BY <2>1, <1>1
    <3>3. (Quo(o, 60) < 0) = TRUE  BY <3>1
    <3>. QED  BY <1>6, <3>1, <3>2, <3>3 DEF FormatZone
  <2>2. CASE ~ z.west
    <3>1. ~ (Quo(o, 60) < 0) /\ Quo(o, 60) = a  BY <1>1, <1>8, <2>2
    <3>2. z.west = FALSE  BY <2>2, <1>1
    <3>3. (Quo(o, 60) < 0) = FALSE  BY <3>1
    <3>. QED  BY <1>6, <3>1, <3>2, <3>3 DEF FormatZone
  <2>. QED  BY <2>1, <2>2
<1>. QED  BY <1>2, <1>7, <1>9 DEF o

(* Scanning changes only what is not UTF-8, spaces before a name, and      *)
(* spaces and stops around a person.                                       *)
LEMMA ScannedIs ==
    ASSUME NEW s \in Text, NotUTF8 \notin Runes(s)
    PROVE  Scanned(s) = s
<1>1. \A i \in DOMAIN s : s[i] # NotUTF8  BY DEF Runes
<1>2. s = [i \in DOMAIN s |-> s[i]]  BY DEF Text
<1>. QED  BY <1>1, <1>2 DEF Scanned

LEMMA SkipSpaceIs ==
    ASSUME NEW s \in Text, s # << >> => s[1] # SP
    PROVE  SkipSpace(s) = s
<1>. DEFINE Skips(n) == (\A i \in 1..n : s[i] = SP) /\ (n < Len(s) => s[n + 1] # SP)
<1>1. Len(s) \in Nat /\ (Len(s) = 0 <=> s = << >>) /\ s = [i \in 1..Len(s) |-> s[i]]  BY DEF Text
<1>2. 0 \in 0..Len(s) /\ Skips(0)  BY <1>1
<1>3. \A n \in 0..Len(s) : Skips(n) => n = 0
  <2>1. SUFFICES ASSUME NEW n \in 0..Len(s), Skips(n), n # 0 PROVE FALSE
    OBVIOUS
  <2>2. 1 \in 1..n /\ s # << >>  BY <1>1, <2>1
  <2>. QED  BY <2>1, <2>2
<1>4. (CHOOSE n \in 0..Len(s) : Skips(n)) = 0
  <2>. HIDE DEF Skips
  <2>. QED  BY <1>2, <1>3
<1>5. SkipSpace(s) = SubSeq(s, 0 + 1, Len(s))  BY <1>4 DEF SkipSpace
<1>6. SubSeq(s, 1, Len(s)) = s  BY <1>1 DEF Text
<1>. QED  BY <1>5, <1>6

LEMMA TrimAppend ==
    ASSUME NEW s \in Text
    PROVE  Trim(Append(s, SP)) = Trim(s)
<1>. DEFINE t == Append(s, SP)
            K(u) == {i \in DOMAIN u : u[i] \notin {SP, Dot}}
            First(S) == CHOOSE i \in S : \A j \in S : i <= j
            Final(S) == CHOOSE i \in S : \A j \in S : i >= j
            kept == K(s)
            a == First(kept)
            b == Final(kept)
<1>1. /\ t \in Text /\ Len(s) \in Nat /\ Len(t) = Len(s) + 1 /\ t[Len(s) + 1] = SP
      /\ \A i \in 1..Len(s) : t[i] = s[i]
      /\ DOMAIN s = 1..Len(s) /\ DOMAIN t = 1..(Len(s) + 1)
  BY DEF Text, SP
<1>2. K(t) = kept  BY <1>1
<1>. HIDE DEF t
<1>0. \A u : Trim(u) = IF K(u) = {} THEN << >> ELSE SubSeq(u, First(K(u)), Final(K(u)))
  BY DEF Trim
<1>. HIDE DEF K, First, Final
<1>3. Trim(t) = IF kept = {} THEN << >> ELSE SubSeq(t, a, b)  BY <1>0, <1>2
<1>4. Trim(s) = IF kept = {} THEN << >> ELSE SubSeq(s, a, b)  BY <1>0
<1>5. ASSUME kept # {}
      PROVE  SubSeq(t, a, b) = SubSeq(s, a, b)
  <2>0. kept \subseteq 1..Len(s)  BY <1>1 DEF K
  <2>. HIDE DEF kept
  <2>1. a \in kept
    <3>1. \E i \in kept : \A j \in kept : i <= j  BY <1>1, <1>5, <2>0, Least
    <3>. QED  BY <3>1 DEF First
  <2>2. b \in kept
    <3>1. \E i \in kept : \A j \in kept : i >= j
      <4>. DEFINE D == {Len(s) - i : i \in kept}
      <4>1. D \in SUBSET Nat /\ D # {}  BY <1>1, <1>5, <2>0
      <4>2. PICK d \in D : \A e \in D : d <= e
        <5>. HIDE DEF D
        <5>. QED  BY <4>1, Least
      <4>3. PICK i \in kept : d = Len(s) - i  BY <4>2
      <4>4. \A j \in kept : Len(s) - i <= Len(s) - j  BY <4>2, <4>3
      <4>. QED  BY <1>1, <2>0, <4>4
    <3>. QED  BY <3>1 DEF Final
  <2>3. a \in 1..Len(s) /\ b \in 1..Len(s)  BY <2>0, <2>1, <2>2
  <2>. HIDE DEF a, b
  <2>4. \A u \in Text : b <= Len(u) =>
           SubSeq(u, a, b) = [i \in 1..(b - a + 1) |-> u[i + a - 1]]
    BY <1>1, <2>3 DEF Text
  <2>5. SubSeq(s, a, b) = [i \in 1..(b - a + 1) |-> s[i + a - 1]]
    BY <1>1, <2>3, <2>4
  <2>6. SubSeq(t, a, b) = [i \in 1..(b - a + 1) |-> t[i + a - 1]]
    BY <1>1, <2>3, <2>4
  <2>7. \A i \in 1..(b - a + 1) : t[i + a - 1] = s[i + a - 1]
    BY <1>1, <2>3
  <2>. QED  BY <2>5, <2>6, <2>7
<1>. HIDE DEF a, b, kept
<1>6. Trim(t) = Trim(s)
  <2>1. CASE kept = {}
    <3>1. Trim(t) = << >> /\ Trim(s) = << >>  BY <1>3, <1>4, <2>1
    <3>. QED  BY <3>1
  <2>2. CASE kept # {}
    <3>1. Trim(t) = SubSeq(t, a, b) /\ Trim(s) = SubSeq(s, a, b)  BY <1>3, <1>4, <2>2
    <3>. QED  BY <1>5, <2>2, <3>1
  <2>. QED  BY <2>1, <2>2
<1>. QED  BY <1>6 DEF t

LEMMA SignatureIsBack ==
    ASSUME NEW s \in Signature, PlainSignature(SignatureText(s))
    PROVE  SignatureOf(SignatureText(s)) = s
<1>. DEFINE t == SignatureText(s)
<1>1. /\ s.name \in Text /\ s.email \in Text /\ s.unix \in Int
      /\ s.offset \in Int /\ s.offset % 60 = 0
      /\ s = [name |-> s.name, email |-> s.email, unix |-> s.unix, offset |-> s.offset]
  BY DEF Signature
<1>2. /\ t.who = Append(s.name, SP) /\ t.email = s.email /\ t.unix = s.unix
      /\ t.zone = FormatZone(s.offset)
  BY DEF SignatureText
<1>3. Front(t.who) = s.name
  <2>1. \A u \in Text : SubSeq(Append(u, SP), 1, Len(u)) = u  BY DEF Text, SP
  <2>2. Len(Append(s.name, SP)) - 1 = Len(s.name)  BY <1>1 DEF Text, SP
  <2>. QED  BY <1>1, <1>2, <2>1, <2>2 DEF Front
<1>4. PlainPerson(s.name) /\ PlainPerson(s.email)  BY <1>2, <1>3 DEF PlainSignature
<1>5. Scanned(Trim(t.who)) = s.name
  <2>1. Trim(t.who) = s.name  BY <1>1, <1>2, <1>4, TrimAppend DEF PlainPerson
  <2>. QED  BY <1>1, <1>4, <2>1, ScannedIs DEF PlainPerson
<1>6. Scanned(Trim(t.email)) = s.email  BY <1>1, <1>2, <1>4, ScannedIs DEF PlainPerson
<1>7. Zone(t.zone) = s.offset  BY <1>1, <1>2, OffsetIsBack
<1>. HIDE DEF t
<1>8. SignatureOf(t) = [name |-> s.name, email |-> s.email, unix |-> s.unix, offset |-> s.offset]
  BY <1>2, <1>5, <1>6, <1>7 DEF SignatureOf
<1>. QED  BY <1>1, <1>8 DEF t

LEMMA PrintedIsBack ==
    ASSUME NEW t \in Printed, PlainSignature(t)
    PROVE  SignatureOf(t) \in Signature /\ SignatureText(SignatureOf(t)) = t
<1>. DEFINE s == SignatureOf(t)
            w == Front(t.who)
<1>1. /\ t.who \in Text /\ t.email \in Text /\ t.unix \in Int
      /\ t.zone \in [west : BOOLEAN, hours : Nat, minutes : Nat]
      /\ t = [who |-> t.who, email |-> t.email, unix |-> t.unix, zone |-> t.zone]
  BY DEF Printed
<1>2. w \in Text /\ Append(w, SP) = t.who
  <2>1. Len(t.who) \in Nat /\ Len(t.who) > 0 /\ t.who[Len(t.who)] = SP
    BY <1>1 DEF PlainSignature, Last, Text
  <2>2. w = SubSeq(t.who, 1, Len(t.who) - 1)  BY DEF Front
  <2>3. \A u \in Text : Len(u) > 0 =>
           /\ SubSeq(u, 1, Len(u) - 1) \in Text
           /\ Append(SubSeq(u, 1, Len(u) - 1), u[Len(u)]) = u
    BY DEF Text
  <2>. QED  BY <1>1, <2>1, <2>2, <2>3
<1>3. PlainPerson(w) /\ PlainPerson(t.email)  BY DEF PlainSignature
<1>. HIDE DEF w
<1>4. Scanned(Trim(t.who)) = w
  <2>1. Trim(t.who) = w  BY <1>2, <1>3, TrimAppend DEF PlainPerson
  <2>. QED  BY <1>2, <1>3, <2>1, ScannedIs DEF PlainPerson
<1>5. Scanned(Trim(t.email)) = t.email  BY <1>1, <1>3, ScannedIs DEF PlainPerson
<1>6. Zone(t.zone) \in Int /\ Zone(t.zone) % 60 = 0 /\ FormatZone(Zone(t.zone)) = t.zone
  BY <1>1, ZoneIsBack DEF PlainSignature
<1>7. s = [name |-> w, email |-> t.email, unix |-> t.unix, offset |-> Zone(t.zone)]
  BY <1>4, <1>5 DEF SignatureOf
<1>. HIDE DEF s
<1>8. s \in Signature  BY <1>1, <1>2, <1>6, <1>7 DEF Signature
<1>9. SignatureText(s) = [who |-> t.who, email |-> t.email, unix |-> t.unix, zone |-> t.zone]
  BY <1>2, <1>6, <1>7 DEF SignatureText
<1>. QED  BY <1>1, <1>8, <1>9 DEF s

-----------------------------------------------------------------------------
(* Commits and tags.                                                       *)

(* One thing, then those of p, then two more.                              *)
Around(s, a, p, b, c, S) ==
    /\ s \in Seq(S) /\ Len(s) = Len(p) + 3
    /\ s[1] = a /\ s[Len(p) + 2] = b /\ s[Len(p) + 3] = c
    /\ \A i \in 1..Len(p) : s[i + 1] = p[i]

LEMMA Sandwich ==
    ASSUME NEW S, NEW a \in S, NEW p \in Seq(S), NEW b \in S, NEW c \in S
    PROVE  Around(<<a>> \o p \o <<b, c>>, a, p, b, c, S)
<1>. DEFINE q == <<a>> \o p
            s == q \o <<b, c>>
<1>1. /\ q \in Seq(S) /\ Len(q) = Len(p) + 1 /\ Len(p) \in Nat /\ q[1] = a
      /\ \A i \in 1..Len(p) : q[i + 1] = p[i]
  OBVIOUS
<1>. HIDE DEF q
<1>2. /\ s \in Seq(S) /\ Len(s) = Len(q) + 2
      /\ \A i \in 1..Len(q) : s[i] = q[i]
      /\ s[Len(q) + 1] = b /\ s[Len(q) + 2] = c
  BY <1>1
<1>. HIDE DEF s
<1>3. s[1] = a /\ \A i \in 1..Len(p) : s[i + 1] = p[i]
  <2>1. 1 \in 1..Len(q) /\ \A i \in 1..Len(p) : i + 1 \in 1..Len(q)  BY <1>1
  <2>. QED  BY <1>1, <1>2, <2>1
<1>4. Len(s) = Len(p) + 3 /\ s[Len(p) + 2] = b /\ s[Len(p) + 3] = c  BY <1>1, <1>2
<1>5. Around(s, a, p, b, c, S)  BY <1>2, <1>3, <1>4 DEF Around
<1>. QED  BY <1>5 DEF s, q

(* Sequences of the same length with the same elements are the same.       *)
LEMMA SameSequence ==
    ASSUME NEW S, NEW s \in Seq(S), NEW T, NEW t \in Seq(T), Len(s) = Len(t),
           \A i \in 1..Len(s) : s[i] = t[i]
    PROVE  s = t
<1>1. s = [i \in 1..Len(s) |-> s[i]] /\ t = [i \in 1..Len(t) |-> t[i]]  OBVIOUS
<1>. QED  BY <1>1

CommitKey == {"tree", "parent", "author", "committer"}

CommitKeys(n) == <<"tree">> \o [i \in 1..n |-> "parent"] \o <<"author", "committer">>

LEMMA CommitKeysAre ==
    ASSUME NEW n \in Nat
    PROVE  /\ CommitKeys(n) \in Seq(CommitKey) /\ Len(CommitKeys(n)) = n + 3
           /\ CommitKeys(n)[1] = "tree"
           /\ CommitKeys(n)[n + 2] = "author" /\ CommitKeys(n)[n + 3] = "committer"
           /\ \A i \in 1..n : CommitKeys(n)[i + 1] = "parent"
<1>. DEFINE p == [i \in 1..n |-> "parent"]
<1>1. p \in Seq(CommitKey) /\ Len(p) = n /\ \A i \in 1..n : p[i] = "parent"
  BY DEF CommitKey
<1>. HIDE DEF p
<1>2. CommitKeys(n) = <<"tree">> \o p \o <<"author", "committer">>  BY DEF CommitKeys, p
<1>3. "tree" \in CommitKey /\ "author" \in CommitKey /\ "committer" \in CommitKey
  BY DEF CommitKey
<1>. HIDE DEF CommitKeys
<1>4. Around(CommitKeys(n), "tree", p, "author", "committer", CommitKey)
  <2>1. Around(<<"tree">> \o p \o <<"author", "committer">>, "tree", p, "author", "committer",
               CommitKey)
    BY <1>1, <1>3, Sandwich
  <2>. QED  BY <1>2, <2>1
<1>. QED  BY <1>1, <1>4 DEF Around

LEMMA LIs == \A k, v : L(k, v).key = k /\ L(k, v).val = v  BY DEF L

LEMMA PlainLines ==
    ASSUME NEW k, NEW v, PlainLine(L(k, v))
    PROVE  /\ k \in {"author", "committer", "tagger"} => PlainSignature(v)
           /\ k = "tag" => PlainName(v) /\ v # << >> /\ SP \notin Runes(v)
           /\ k = "type" => v # ""
<1>1. L(k, v).key = k /\ L(k, v).val = v  BY LIs
<1>. HIDE DEF L
<1>2. CASE k \in {"author", "committer", "tagger"}  BY <1>1, <1>2 DEF PlainLine
<1>3. CASE k = "tag"  BY <1>1, <1>3 DEF PlainLine
<1>4. CASE k = "type"  BY <1>1, <1>4 DEF PlainLine
<1>. QED  BY <1>2, <1>3, <1>4

(* The lines of a commit, one by one.                                      *)
LEMMA CommitLines ==
    ASSUME NEW c, c.parent \in Seq(ID)
    PROVE  LET lines == CommitBody(c).lines
               n == Len(c.parent)
           IN  /\ lines = [i \in 1..(n + 3) |-> lines[i]] /\ Len(lines) = n + 3
               /\ lines[1] = L("tree", c.tree)
               /\ lines[n + 2] = L("author", SignatureText(c.author))
               /\ lines[n + 3] = L("committer", SignatureText(c.committer))
               /\ \A i \in 1..n : lines[i + 1] = L("parent", c.parent[i])
<1>. DEFINE p == [i \in DOMAIN c.parent |-> L("parent", c.parent[i])]
            a == L("tree", c.tree)
            b == L("author", SignatureText(c.author))
            d == L("committer", SignatureText(c.committer))
            S == {a, b, d} \cup {L("parent", id) : id \in ID}
            n == Len(c.parent)
            lines == CommitBody(c).lines
<1>1. p \in Seq(S) /\ Len(p) = n /\ n \in Nat /\ \A i \in 1..n : p[i] = L("parent", c.parent[i])
  <2>1. DOMAIN c.parent = 1..n /\ n \in Nat /\ \A i \in 1..n : c.parent[i] \in ID  OBVIOUS
  <2>2. \A i \in 1..n : p[i] \in S  BY <2>1
  <2>3. p = [i \in 1..n |-> L("parent", c.parent[i])]  BY <2>1
  <2>4. p \in [1..n -> S]
    <3>. HIDE DEF S, p
    <3>1. \A i \in 1..n : L("parent", c.parent[i]) \in S  BY <2>1, <2>2, <2>3
    <3>. QED  BY <2>3, <3>1
  <2>. HIDE DEF S, p
  <2>5. \A i \in 1..n : p[i] = L("parent", c.parent[i])  BY <2>3
  <2>6. p \in Seq(S) /\ Len(p) = n  BY <2>1, <2>4
  <2>. QED  BY <2>1, <2>5, <2>6
<1>2. a \in S /\ b \in S /\ d \in S  OBVIOUS
<1>3. lines = <<a>> \o p \o <<b, d>>  BY DEF CommitBody
<1>. HIDE DEF p, a, b, d, S, lines
<1>4. /\ lines \in Seq(S) /\ Len(lines) = n + 3 /\ lines[1] = a
      /\ lines[n + 2] = b /\ lines[n + 3] = d
      /\ \A i \in 1..n : lines[i + 1] = p[i]
  <2>1. Around(<<a>> \o p \o <<b, d>>, a, p, b, d, S)  BY <1>1, <1>2, Sandwich
  <2>2. Around(lines, a, p, b, d, S)  BY <1>3, <2>1
  <2>. QED  BY <1>1, <2>2 DEF Around
<1>5. lines = [i \in 1..(n + 3) |-> lines[i]]  BY <1>1, <1>4
<1>. QED  BY <1>1, <1>4, <1>5 DEF a, b, d, lines

LEMMA CommitIsBack ==
    ASSUME NEW c \in Commit,
           \A i \in DOMAIN CommitBody(c).lines : PlainLine(CommitBody(c).lines[i])
    PROVE  UnmarshalCommit(CommitBody(c)) = Got(c)
<1>. DEFINE body == CommitBody(c)
            lines == body.lines
            n == Len(c.parent)
            keys == Keys(body)
<1>1. /\ c.parent \in Seq(ID) /\ n \in Nat /\ c.author \in Signature /\ c.committer \in Signature
      /\ c = [type |-> "commit", tree |-> c.tree, parent |-> c.parent, author |-> c.author,
              committer |-> c.committer, message |-> c.message]
  BY DEF Commit
<1>0. n \in Nat  BY <1>1
<1>5. DOMAIN lines = 1..(n + 3) /\ Len(lines) = n + 3
  <2>1. lines = [i \in 1..(n + 3) |-> lines[i]] /\ Len(lines) = n + 3  BY <1>1, CommitLines
  <2>. HIDE DEF lines, n
  <2>. QED  BY <2>1
<1>2. /\ lines[1] = L("tree", c.tree)
      /\ lines[n + 2] = L("author", SignatureText(c.author))
      /\ lines[n + 3] = L("committer", SignatureText(c.committer))
      /\ \A i \in 1..n : lines[i + 1] = L("parent", c.parent[i])
  BY <1>1, CommitLines
<1>3. body.message = c.message  BY DEF CommitBody
<1>4. keys = [i \in DOMAIN lines |-> lines[i].key]  BY DEF Keys
<1>. HIDE DEF body, keys, n
<1>6. \A i \in 1..(n + 3) : i = 1 \/ i = n + 2 \/ i = n + 3 \/ (i - 1 \in 1..n /\ i = (i - 1) + 1)
  BY <1>0
<1>7. \A i \in 1..(n + 3) : keys[i] = CommitKeys(n)[i] /\ keys[i] \in CommitKey
  <2>1. \A i \in 1..(n + 3) : keys[i] = lines[i].key  BY <1>4, <1>5
  <2>2. 1 \in 1..(n + 3) /\ n + 2 \in 1..(n + 3) /\ n + 3 \in 1..(n + 3)  BY <1>0
  <2>3. keys[1] = "tree" /\ keys[n + 2] = "author" /\ keys[n + 3] = "committer"
    BY <1>2, <2>1, <2>2, LIs
  <2>4. \A i \in 1..n : keys[i + 1] = "parent"
    <3>1. \A i \in 1..n : i + 1 \in 1..(n + 3)  BY <1>0
    <3>. QED  BY <1>2, <2>1, <3>1, LIs
  <2>5. \A i \in 1..(n + 3) : keys[i] = CommitKeys(n)[i]
    BY <1>0, <1>6, <2>3, <2>4, CommitKeysAre
  <2>6. \A i \in 1..(n + 3) : keys[i] \in CommitKey
    BY <1>6, <2>3, <2>4 DEF CommitKey
  <2>. QED  BY <2>5, <2>6
<1>8. keys = CommitKeys(n)
  <2>1. keys \in [1..(n + 3) -> CommitKey]  BY <1>4, <1>5, <1>7
  <2>2. keys \in Seq(CommitKey) /\ Len(keys) = n + 3  BY <1>0, <2>1
  <2>. QED  BY <1>0, <1>7, <2>2, CommitKeysAre, SameSequence
<1>9. /\ SignatureOf(SignatureText(c.author)) = c.author /\ Scans(SignatureText(c.author))
      /\ SignatureOf(SignatureText(c.committer)) = c.committer /\ Scans(SignatureText(c.committer))
  <2>1. PlainLine(lines[n + 2]) /\ PlainLine(lines[n + 3])
    <3>1. n + 2 \in DOMAIN lines /\ n + 3 \in DOMAIN lines  BY <1>0, <1>5
    <3>. QED  BY <3>1 DEF body
  <2>2. PlainSignature(SignatureText(c.author)) /\ PlainSignature(SignatureText(c.committer))
    BY <1>2, <2>1, PlainLines
  <2>3. Scans(SignatureText(c.author)) /\ Scans(SignatureText(c.committer))
    BY <2>2 DEF PlainSignature
  <2>. QED  BY <1>1, <2>2, <2>3, SignatureIsBack
<1>10. [i \in 1..n |-> lines[i + 1].val] = c.parent
  <2>1. \A i \in 1..n : lines[i + 1].val = c.parent[i]  BY <1>2, LIs
  <2>2. c.parent = [i \in 1..n |-> c.parent[i]]  BY <1>1 DEF n
  <2>. QED  BY <2>1, <2>2
<1>11. Len(lines) - 3 = n /\ n >= 0  BY <1>0, <1>5
<1>12. lines[1].val = c.tree /\ lines[n + 2].val = SignatureText(c.author)
       /\ lines[n + 3].val = SignatureText(c.committer)
  BY <1>2, LIs
<1>13. Scans(lines[n + 2].val) /\ Scans(lines[n + 3].val)  BY <1>9, <1>12
<1>14. UnmarshalCommit(body) =
         Got([type |-> "commit", tree |-> lines[1].val, parent |-> [i \in 1..n |-> lines[i + 1].val],
              author |-> SignatureOf(lines[n + 2].val), committer |-> SignatureOf(lines[n + 3].val),
              message |-> body.message])
  BY <1>8, <1>11, <1>13 DEF UnmarshalCommit, CommitKeys, keys
<1>. HIDE DEF lines
<1>15. UnmarshalCommit(body) = Got(c)  BY <1>1, <1>3, <1>9, <1>10, <1>12, <1>14
<1>. QED  BY <1>15 DEF body

LEMMA TextLineIs ==
    ASSUME NEW l \in TextLine
    PROVE  /\ l = L(l.key, l.val)
           /\ l.key \in {"tree", "parent", "object"} => l.val \in ID
           /\ l.key \in {"author", "committer", "tagger"} => l.val \in Printed
           /\ l.key = "type" => l.val \in Type \cup {""}
           /\ l.key = "tag" => l.val \in Text
<1>1. CASE l \in [key : {"tree", "parent", "object"}, val : ID]  BY <1>1 DEF L
<1>2. CASE l \in [key : {"author", "committer", "tagger"}, val : Printed]
  <2>1. l.key \in {"author", "committer", "tagger"} /\ l.val \in Printed  BY <1>2
  <2>2. l = L(l.key, l.val)  BY <1>2 DEF L
  <2>. QED  BY <2>1, <2>2
<1>3. CASE l \in [key : {"type"}, val : Type \cup {""}]  BY <1>3 DEF L
<1>4. CASE l \in [key : STRING \ {"tree", "parent", "object", "author", "committer", "tagger",
                                  "type"}, val : Text]
  BY <1>4 DEF L
<1>. QED  BY <1>1, <1>2, <1>3, <1>4 DEF TextLine

LEMMA CommitIsKept ==
    ASSUME NEW body \in [lines : Seq(TextLine), message : Text],
           \A i \in DOMAIN body.lines : PlainLine(body.lines[i]),
           UnmarshalCommit(body).ok
    PROVE  /\ UnmarshalCommit(body).obj.type = "commit"
           /\ CommitBody(UnmarshalCommit(body).obj) = body
<1>. DEFINE lines == body.lines
            n == Len(lines) - 3
            c == UnmarshalCommit(body).obj
            keys == Keys(body)
            parent == [i \in 1..n |-> lines[i + 1].val]
<1>1. /\ lines \in Seq(TextLine) /\ Len(lines) \in Nat
      /\ body = [lines |-> lines, message |-> body.message]
  OBVIOUS
<1>2. n >= 0 /\ keys = CommitKeys(n)
      /\ c = [type |-> "commit", tree |-> lines[1].val, parent |-> parent,
              author |-> SignatureOf(lines[n + 2].val),
              committer |-> SignatureOf(lines[n + 3].val), message |-> body.message]
  BY DEF UnmarshalCommit, CommitKeys, Got, Failed
<1>3. n \in Nat /\ Len(lines) = n + 3 /\ DOMAIN lines = 1..(n + 3)
      /\ \A i \in 1..(n + 3) : lines[i] \in TextLine
  BY <1>1, <1>2
<1>4. \A i \in 1..(n + 3) : keys[i] = lines[i].key  BY <1>3 DEF Keys
<1>5. \A i \in DOMAIN lines : PlainLine(lines[i])  OBVIOUS
<1>. HIDE DEF lines, n, c, keys, parent
<1>6. 1 \in 1..(n + 3) /\ n + 2 \in 1..(n + 3) /\ n + 3 \in 1..(n + 3)
      /\ \A i \in 1..n : i + 1 \in 1..(n + 3)
  BY <1>3
<1>7. /\ lines[1].key = "tree" /\ lines[n + 2].key = "author" /\ lines[n + 3].key = "committer"
      /\ \A i \in 1..n : lines[i + 1].key = "parent"
  BY <1>2, <1>3, <1>4, <1>6, CommitKeysAre
<1>8. /\ lines[1] = L("tree", lines[1].val)
      /\ \A i \in 1..n : lines[i + 1] = L("parent", lines[i + 1].val) /\ lines[i + 1].val \in ID
      /\ lines[n + 2] = L("author", lines[n + 2].val) /\ lines[n + 2].val \in Printed
      /\ lines[n + 3] = L("committer", lines[n + 3].val) /\ lines[n + 3].val \in Printed
  BY <1>3, <1>6, <1>7, TextLineIs
<1>9. PlainSignature(lines[n + 2].val) /\ PlainSignature(lines[n + 3].val)
  <2>1. PlainLine(lines[n + 2]) /\ PlainLine(lines[n + 3])  BY <1>3, <1>5, <1>6
  <2>. QED  BY <1>8, <2>1, PlainLines
<1>10. SignatureText(SignatureOf(lines[n + 2].val)) = lines[n + 2].val
       /\ SignatureText(SignatureOf(lines[n + 3].val)) = lines[n + 3].val
  BY <1>8, <1>9, PrintedIsBack
<1>11. parent \in Seq(ID) /\ Len(parent) = n /\ \A i \in 1..n : parent[i] = lines[i + 1].val
  BY <1>3, <1>8 DEF parent
<1>12. c.parent = parent /\ c.tree = lines[1].val /\ c.author = SignatureOf(lines[n + 2].val)
       /\ c.committer = SignatureOf(lines[n + 3].val) /\ c.message = body.message
       /\ c.type = "commit"
  BY <1>2
<1>. DEFINE new == CommitBody(c).lines
<1>13. /\ new = [i \in 1..(n + 3) |-> new[i]]
       /\ new[1] = L("tree", c.tree)
       /\ new[n + 2] = L("author", SignatureText(c.author))
       /\ new[n + 3] = L("committer", SignatureText(c.committer))
       /\ \A i \in 1..n : new[i + 1] = L("parent", c.parent[i])
  BY <1>11, <1>12, CommitLines
<1>14. CommitBody(c) = [lines |-> new, message |-> body.message]  BY <1>12 DEF CommitBody
<1>. HIDE DEF new
<1>15. new[1] = lines[1] /\ new[n + 2] = lines[n + 2] /\ new[n + 3] = lines[n + 3]
       /\ \A i \in 1..n : new[i + 1] = lines[i + 1]
  <2>1. new[1] = lines[1]  BY <1>8, <1>12, <1>13
  <2>2. new[n + 2] = lines[n + 2]  BY <1>8, <1>10, <1>12, <1>13
  <2>3. new[n + 3] = lines[n + 3]  BY <1>8, <1>10, <1>12, <1>13
  <2>4. ASSUME NEW i \in 1..n PROVE new[i + 1] = lines[i + 1]
    <3>1. c.parent[i] = lines[i + 1].val  BY <1>11, <1>12
    <3>. QED  BY <1>8, <1>13, <3>1
  <2>. QED  BY <2>1, <2>2, <2>3, <2>4
<1>16. \A i \in 1..(n + 3) : new[i] = lines[i]
  <2>1. \A i \in 1..(n + 3) : i = 1 \/ i = n + 2 \/ i = n + 3 \/ (i - 1 \in 1..n /\ i = (i - 1) + 1)
    BY <1>3
  <2>. QED  BY <1>15, <2>1
<1>17. new = lines
  <2>1. lines = [i \in 1..(n + 3) |-> lines[i]]  BY <1>1, <1>3
  <2>. QED  BY <1>13, <1>16, <2>1
<1>18. CommitBody(c) = body  BY <1>1, <1>14, <1>17
<1>. QED  BY <1>12, <1>18 DEF c

TagKeys == <<"object", "type", "tag", "tagger">>

LEMMA TagIsBack ==
    ASSUME NEW t \in Tag,
           \A i \in DOMAIN TagBody(t).lines : PlainLine(TagBody(t).lines[i])
    PROVE  UnmarshalTag(TagBody(t)) = Got(t)
<1>. DEFINE body == TagBody(t)
            lines == body.lines
<1>1. /\ t.tag \in Text /\ t.tagger \in Signature
      /\ t = [type |-> "tag", object |-> t.object, of |-> t.of, tag |-> t.tag,
              tagger |-> t.tagger, message |-> t.message]
  BY DEF Tag
<1>2. /\ DOMAIN lines = 1..4 /\ lines[1] = L("object", t.object) /\ lines[2] = L("type", t.of)
      /\ lines[3] = L("tag", t.tag) /\ lines[4] = L("tagger", SignatureText(t.tagger))
  BY DEF TagBody
<1>3. body.message = t.message  BY DEF TagBody
<1>4. PlainLine(lines[2]) /\ PlainLine(lines[3]) /\ PlainLine(lines[4])  BY <1>2
<1>5. /\ lines[1].val = t.object /\ lines[2].val = t.of /\ lines[3].val = t.tag
      /\ lines[4].val = SignatureText(t.tagger)
      /\ lines[1].key = "object" /\ lines[2].key = "type" /\ lines[3].key = "tag"
      /\ lines[4].key = "tagger"
  BY <1>2, LIs
<1>6. t.of # "" /\ PlainName(t.tag) /\ t.tag # << >> /\ SP \notin Runes(t.tag)
      /\ PlainSignature(SignatureText(t.tagger))
  BY <1>2, <1>4, PlainLines
<1>7. Scanned(t.tag) = t.tag /\ SignatureOf(SignatureText(t.tagger)) = t.tagger
  BY <1>1, <1>6, ScannedIs, SignatureIsBack DEF PlainName
<1>11. Runes(lines[3].val) \cap {SP, NL} = {} /\ Scans(lines[4].val)
  <2>1. NL \notin Runes(t.tag)  BY <1>6 DEF PlainName
  <2>2. Scans(SignatureText(t.tagger))  BY <1>6 DEF PlainSignature
  <2>. QED  BY <1>5, <1>6, <2>1, <2>2
<1>8. Keys(body) = TagKeys
  <2>1. Keys(body) = [i \in 1..4 |-> lines[i].key]  BY <1>2 DEF Keys
  <2>. HIDE DEF lines
  <2>. QED  BY <1>5, <2>1 DEF TagKeys
<1>. HIDE DEF body, lines
<1>9. UnmarshalTag(body) =
        Got([type |-> "tag", object |-> lines[1].val, of |-> lines[2].val,
             tag |-> Scanned(lines[3].val), tagger |-> SignatureOf(lines[4].val),
             message |-> body.message])
  BY <1>5, <1>6, <1>8, <1>11 DEF UnmarshalTag, TagKeys, lines
<1>10. UnmarshalTag(body) = Got(t)  BY <1>1, <1>3, <1>5, <1>7, <1>9
<1>. QED  BY <1>10 DEF body

LEMMA TagIsKept ==
    ASSUME NEW body \in [lines : Seq(TextLine), message : Text],
           \A i \in DOMAIN body.lines : PlainLine(body.lines[i]),
           UnmarshalTag(body).ok
    PROVE  /\ UnmarshalTag(body).obj.type = "tag"
           /\ TagBody(UnmarshalTag(body).obj) = body
<1>. DEFINE lines == body.lines
            t == UnmarshalTag(body).obj
<1>1. /\ lines \in Seq(TextLine) /\ Len(lines) \in Nat
      /\ body = [lines |-> lines, message |-> body.message]
  OBVIOUS
<1>2. Keys(body) = TagKeys
      /\ t = [type |-> "tag", object |-> lines[1].val, of |-> lines[2].val,
              tag |-> Scanned(lines[3].val), tagger |-> SignatureOf(lines[4].val),
              message |-> body.message]
  BY DEF UnmarshalTag, TagKeys, Got, Failed
<1>3. /\ Len(lines) = 4 /\ DOMAIN lines = 1..4
      /\ lines[1].key = "object" /\ lines[2].key = "type" /\ lines[3].key = "tag"
      /\ lines[4].key = "tagger"
  <2>1. DOMAIN lines = 1..Len(lines) /\ Keys(body) = [i \in 1..Len(lines) |-> lines[i].key]
    BY <1>1 DEF Keys
  <2>. HIDE DEF lines
  <2>2. DOMAIN TagKeys = 1..4 /\ TagKeys[1] = "object" /\ TagKeys[2] = "type"
        /\ TagKeys[3] = "tag" /\ TagKeys[4] = "tagger"
    BY DEF TagKeys
  <2>3. 1..Len(lines) = 1..4  BY <1>2, <2>1, <2>2
  <2>4. Len(lines) = 4
    <3>1. 4 \in 1..Len(lines) /\ 5 \notin 1..Len(lines)  BY <2>3
    <3>2. \A m \in Nat : 4 \in 1..m /\ 5 \notin 1..m => m = 4  OBVIOUS
    <3>3. Len(lines) \in Nat  BY <1>1
    <3>. QED  BY <3>1, <3>2, <3>3
  <2>. QED  BY <1>2, <2>1, <2>2, <2>4
<1>4. lines[1] \in TextLine /\ lines[2] \in TextLine /\ lines[3] \in TextLine /\ lines[4] \in TextLine
      /\ PlainLine(lines[3]) /\ PlainLine(lines[4])
  BY <1>1, <1>3
<1>. HIDE DEF lines, t
<1>5. /\ lines[1] = L("object", lines[1].val) /\ lines[2] = L("type", lines[2].val)
      /\ lines[3] = L("tag", lines[3].val) /\ lines[3].val \in Text
      /\ lines[4] = L("tagger", lines[4].val) /\ lines[4].val \in Printed
  BY <1>3, <1>4, TextLineIs
<1>6. PlainName(lines[3].val) /\ PlainSignature(lines[4].val)  BY <1>4, <1>5, PlainLines
<1>7. Scanned(lines[3].val) = lines[3].val
      /\ SignatureText(SignatureOf(lines[4].val)) = lines[4].val
  BY <1>5, <1>6, ScannedIs, PrintedIsBack DEF PlainName
<1>8. TagBody(t) = [lines |-> <<lines[1], lines[2], lines[3], lines[4]>>, message |-> body.message]
  <2>1. t.object = lines[1].val /\ t.of = lines[2].val /\ t.tag = lines[3].val
        /\ SignatureText(t.tagger) = lines[4].val /\ t.message = body.message
    BY <1>2, <1>7
  <2>. QED  BY <1>5, <2>1 DEF TagBody
<1>9. lines = <<lines[1], lines[2], lines[3], lines[4]>>
  <2>1. lines = [i \in 1..4 |-> lines[i]]  BY <1>1, <1>3
  <2>2. \A i \in 1..4 : i = 1 \/ i = 2 \/ i = 3 \/ i = 4  OBVIOUS
  <2>. QED  BY <2>1, <2>2
<1>10. TagBody(t) = body  BY <1>1, <1>8, <1>9
<1>11. t.type = "tag"  BY <1>2
<1>. QED  BY <1>10, <1>11 DEF t

-----------------------------------------------------------------------------
(* The order of names.                                                     *)

(* A rune past the end of a name is before every other.                    *)
At(s, i) == IF i <= Len(s) THEN s[i] ELSE -1

Differ(s, t, i) == At(s, i) < At(t, i) /\ \A j \in 1..(i - 1) : At(s, j) = At(t, j)

(* At of a name is a number, not less than -1, and it is -1 past the end.  *)
LEMMA AtIs ==
    ASSUME NEW s \in Text, NEW i \in Nat \ {0}
    PROVE  /\ At(s, i) \in Int /\ At(s, i) >= -1
           /\ i <= Len(s) => i \in DOMAIN s /\ At(s, i) = s[i] /\ At(s, i) >= 0
           /\ i > Len(s) => At(s, i) = -1
<1>1. CASE i <= Len(s)
  <2>1. i \in DOMAIN s /\ s[i] \in Nat  BY <1>1 DEF Text
  <2>. QED  BY <1>1, <2>1 DEF At
<1>2. CASE ~ i <= Len(s)
  <2>1. Len(s) \in Nat  BY DEF Text
  <2>. QED  BY <1>2, <2>1 DEF At
<1>. QED  BY <1>1, <1>2

(* The order of names is the order of the first runes that differ.         *)
LEMMA BeforeIs ==
    ASSUME NEW s \in Text, NEW t \in Text
    PROVE  Before(s, t) <=> \E i \in Nat \ {0} : Differ(s, t, i)
<1>1. /\ Len(s) \in Nat /\ DOMAIN s = 1..Len(s) /\ s = [i \in 1..Len(s) |-> s[i]]
      /\ Len(t) \in Nat /\ DOMAIN t = 1..Len(t) /\ t = [i \in 1..Len(t) |-> t[i]]
  BY DEF Text
<1>2. ASSUME IsStrictPrefix(s, t) PROVE \E i \in Nat \ {0} : Differ(s, t, i)
  <2>1. Len(s) <= Len(t) /\ SubSeq(s, 1, Len(s)) = SubSeq(t, 1, Len(s)) /\ s # t
    BY <1>2 DEF IsStrictPrefix, IsPrefix
  <2>2. \A i \in 1..Len(s) : s[i] = t[i]
    <3>1. TAKE i \in 1..Len(s)
    <3>2. SubSeq(s, 1, Len(s))[i] = s[i] /\ SubSeq(t, 1, Len(s))[i] = t[i]
      BY <1>1, <2>1, <3>1 DEF Text
    <3>. QED  BY <2>1, <3>2
  <2>3. Len(s) # Len(t)
    <3>1. SUFFICES ASSUME Len(s) = Len(t) PROVE FALSE  OBVIOUS
    <3>2. s = t
      <4>1. [i \in 1..Len(s) |-> s[i]] = [i \in 1..Len(t) |-> t[i]]  BY <2>2, <3>1
      <4>. QED  BY <1>1, <4>1
    <3>. QED  BY <2>1, <3>2
  <2>4. Len(s) + 1 \in Nat \ {0} /\ Len(s) + 1 <= Len(t) /\ Len(s) + 1 > Len(s)
    <3>1. Len(s) \in Nat /\ Len(t) \in Nat  BY <1>1
    <3>2. Len(s) <= Len(t)  BY <2>1
    <3>. QED  BY <3>1, <3>2, <2>3
  <2>5. At(s, Len(s) + 1) < At(t, Len(s) + 1)
    <3>1. At(s, Len(s) + 1) = -1  BY <2>4, AtIs
    <3>2. At(t, Len(s) + 1) >= 0 /\ At(t, Len(s) + 1) \in Int  BY <2>4, AtIs
    <3>. QED  BY <3>1, <3>2
  <2>6. \A j \in 1..(Len(s) + 1 - 1) : At(s, j) = At(t, j)  BY <1>1, <2>1, <2>2 DEF At
  <2>. QED  BY <2>4, <2>5, <2>6 DEF Differ
<1>3. ASSUME NEW i \in DOMAIN s \cap DOMAIN t, s[i] < t[i], \A j \in 1..(i - 1) : s[j] = t[j]
      PROVE  \E k \in Nat \ {0} : Differ(s, t, k)
  <2>1. i \in Nat \ {0} /\ i <= Len(s) /\ i <= Len(t)  BY <1>1
  <2>2. At(s, i) < At(t, i)  BY <1>3, <2>1 DEF At
  <2>3. \A j \in 1..(i - 1) : At(s, j) = At(t, j)  BY <1>1, <1>3, <2>1 DEF At
  <2>. QED  BY <2>1, <2>2, <2>3 DEF Differ
<1>4. ASSUME NEW i \in Nat \ {0}, Differ(s, t, i) PROVE Before(s, t)
  <2>1. At(s, i) < At(t, i) /\ \A j \in 1..(i - 1) : At(s, j) = At(t, j)  BY <1>4 DEF Differ
  <2>2. i <= Len(t)  BY <1>1, <2>1, AtIs
  <2>3. CASE i <= Len(s)
    <3>1. i \in DOMAIN s \cap DOMAIN t  BY <1>1, <2>2, <2>3
    <3>2. s[i] < t[i] /\ \A j \in 1..(i - 1) : s[j] = t[j]  BY <1>1, <2>1, <2>2, <2>3 DEF At
    <3>. QED  BY <3>1, <3>2 DEF Before
  <2>4. CASE i > Len(s)
    <3>1. i = Len(s) + 1
      <4>1. SUFFICES ASSUME i # Len(s) + 1 PROVE FALSE  OBVIOUS
      <4>2. Len(s) + 1 \in 1..(i - 1) /\ Len(s) + 1 \in Nat \ {0} /\ Len(s) + 1 <= Len(t)
            /\ Len(s) + 1 > Len(s)
        BY <1>1, <2>2, <2>4, <4>1
      <4>3. At(s, Len(s) + 1) = At(t, Len(s) + 1)  BY <2>1, <4>2
      <4>4. At(s, Len(s) + 1) = -1 /\ At(t, Len(s) + 1) >= 0  BY <4>2, AtIs
      <4>. QED  BY <4>3, <4>4
    <3>2. \A j \in 1..Len(s) : s[j] = t[j]  BY <1>1, <2>1, <2>2, <3>1 DEF At
    <3>3. Len(s) < Len(t)  BY <1>1, <2>2, <3>1
    <3>4. SubSeq(s, 1, Len(s)) = SubSeq(t, 1, Len(s))
      <4>1. SubSeq(s, 1, Len(s)) = [j \in 1..Len(s) |-> s[j]]  BY <1>1
      <4>2. SubSeq(t, 1, Len(s)) = [j \in 1..Len(s) |-> t[j]]  BY <1>1, <3>3 DEF Text
      <4>. QED  BY <3>2, <4>1, <4>2
    <3>. QED  BY <1>1, <3>3, <3>4 DEF Before, IsStrictPrefix, IsPrefix
  <2>. QED  BY <1>1, <2>3, <2>4
<1>. QED  BY <1>2, <1>3, <1>4 DEF Before

LEMMA BeforeIrreflexive ==
    ASSUME NEW s \in Text
    PROVE  ~ Before(s, s)
<1>1. \A i \in Nat \ {0} : At(s, i) \in Int  BY AtIs
<1>. QED  BY <1>1, BeforeIs DEF Differ

LEMMA BeforeTransitive ==
    ASSUME NEW s \in Text, NEW t \in Text, NEW u \in Text, Before(s, t), Before(t, u)
    PROVE  Before(s, u)
<1>1. PICK i \in Nat \ {0} : Differ(s, t, i)  BY BeforeIs
<1>2. PICK j \in Nat \ {0} : Differ(t, u, j)  BY BeforeIs
<1>3. \A k \in Nat \ {0} : At(s, k) \in Int /\ At(t, k) \in Int /\ At(u, k) \in Int  BY AtIs
<1>4. CASE i <= j
  <2>1. At(s, i) < At(u, i)  BY <1>1, <1>2, <1>3, <1>4 DEF Differ
  <2>2. \A k \in 1..(i - 1) : At(s, k) = At(u, k)  BY <1>1, <1>2, <1>4 DEF Differ
  <2>. QED  BY <2>1, <2>2, BeforeIs DEF Differ
<1>5. CASE j < i
  <2>1. At(s, j) < At(u, j)  BY <1>1, <1>2, <1>3, <1>5 DEF Differ
  <2>2. \A k \in 1..(j - 1) : At(s, k) = At(u, k)  BY <1>1, <1>2, <1>5 DEF Differ
  <2>. QED  BY <2>1, <2>2, BeforeIs DEF Differ
<1>. QED  BY <1>4, <1>5

LEMMA BeforeTotal ==
    ASSUME NEW s \in Text, NEW t \in Text, s # t
    PROVE  Before(s, t) \/ Before(t, s)
<1>. DEFINE U == {i \in Nat : i # 0 /\ At(s, i) # At(t, i)}
<1>1. /\ Len(s) \in Nat /\ s = [i \in 1..Len(s) |-> s[i]]
      /\ Len(t) \in Nat /\ t = [i \in 1..Len(t) |-> t[i]]
  BY DEF Text
<1>2. U # {}
  <2>1. SUFFICES ASSUME \A i \in Nat \ {0} : At(s, i) = At(t, i) PROVE FALSE  OBVIOUS
  <2>2. ~ Len(s) < Len(t)
    <3>1. SUFFICES ASSUME Len(s) < Len(t) PROVE FALSE  OBVIOUS
    <3>2. Len(s) + 1 \in Nat \ {0} /\ Len(s) + 1 <= Len(t) /\ Len(s) + 1 > Len(s)  BY <1>1, <3>1
    <3>3. At(s, Len(s) + 1) = -1 /\ At(t, Len(s) + 1) >= 0  BY <3>2, AtIs
    <3>. QED  BY <2>1, <3>2, <3>3
  <2>3. ~ Len(t) < Len(s)
    <3>1. SUFFICES ASSUME Len(t) < Len(s) PROVE FALSE  OBVIOUS
    <3>2. Len(t) + 1 \in Nat \ {0} /\ Len(t) + 1 <= Len(s) /\ Len(t) + 1 > Len(t)  BY <1>1, <3>1
    <3>3. At(t, Len(t) + 1) = -1 /\ At(s, Len(t) + 1) >= 0  BY <3>2, AtIs
    <3>. QED  BY <2>1, <3>2, <3>3
  <2>4. Len(s) = Len(t)
    <3>1. Len(s) \in Nat /\ Len(t) \in Nat  BY <1>1
    <3>. QED  BY <2>2, <2>3, <3>1
  <2>5. \A i \in 1..Len(s) : s[i] = t[i]  BY <1>1, <2>1, <2>4 DEF At
  <2>6. [i \in 1..Len(s) |-> s[i]] = [i \in 1..Len(t) |-> t[i]]  BY <2>4, <2>5
  <2>. QED  BY <1>1, <2>6
<1>3. PICK m \in U : \A k \in U : m <= k  BY <1>2, Least
<1>4. m \in Nat \ {0} /\ At(s, m) # At(t, m)  OBVIOUS
<1>5. \A j \in 1..(m - 1) : At(s, j) = At(t, j)  BY <1>3, <1>4
<1>6. At(s, m) \in Int /\ At(t, m) \in Int  BY <1>4, AtIs
<1>. HIDE DEF U
<1>7. CASE At(s, m) < At(t, m)
  <2>1. Differ(s, t, m)  BY <1>5, <1>7 DEF Differ
  <2>. QED  BY <1>4, <2>1, BeforeIs
<1>8. CASE At(t, m) < At(s, m)
  <2>1. Differ(t, s, m)  BY <1>5, <1>8 DEF Differ
  <2>. QED  BY <1>4, <2>1, BeforeIs
<1>. QED  BY <1>4, <1>6, <1>7, <1>8

(* Of the names of a finite set, one is before all others.                 *)
LEMMA FirstOf ==
    ASSUME NEW S \in SUBSET Text, IsFiniteSet(S), S # {}
    PROVE  \E x \in S : \A y \in S \ {x} : Before(x, y)
<1>. DEFINE First(T) == \E x \in T : \A y \in T \ {x} : Before(x, y)
            Bad(T) == IsFiniteSet(T) /\ T # {} /\ ~ First(T)
            U == {n \in Nat : \E T \in SUBSET Text : Bad(T) /\ Cardinality(T) = n}
<1>1. SUFFICES ASSUME ~ First(S) PROVE FALSE  OBVIOUS
<1>2. Cardinality(S) \in U  BY <1>1, FS_CardinalityType
<1>3. PICK m \in U : \A k \in U : m <= k  BY <1>2, Least
<1>4. PICK T \in SUBSET Text : Bad(T) /\ Cardinality(T) = m  OBVIOUS
<1>5. PICK x \in T : TRUE  BY <1>4
<1>6. IsFiniteSet(T \ {x}) /\ Cardinality(T \ {x}) = m - 1  BY <1>4, FS_RemoveElement
<1>7. T \ {x} # {}
  <2>1. SUFFICES ASSUME T \ {x} = {} PROVE FALSE  OBVIOUS
  <2>2. First(T)  BY <2>1
  <2>. QED  BY <1>4, <2>2
<1>8. m - 1 \in Nat /\ m \in Nat  BY <1>6, FS_CardinalityType
<1>9. First(T \ {x})
  <2>1. SUFFICES ASSUME ~ First(T \ {x}) PROVE FALSE  OBVIOUS
  <2>2. T \ {x} \in SUBSET Text  OBVIOUS
  <2>3. m - 1 \in U  BY <1>6, <1>7, <1>8, <2>1, <2>2
  <2>. QED  BY <1>3, <1>8, <2>3
<1>10. PICK y \in T \ {x} : \A z \in (T \ {x}) \ {y} : Before(y, z)  BY <1>9
<1>11. x \in Text /\ y \in Text /\ x # y  OBVIOUS
<1>12. CASE Before(y, x)
  <2>1. \A z \in T \ {y} : Before(y, z)  BY <1>10, <1>12
  <2>. QED  BY <1>4, <2>1
<1>13. CASE Before(x, y)
  <2>1. ASSUME NEW z \in T \ {x} PROVE Before(x, z)
    <3>1. z \in Text  OBVIOUS
    <3>. QED  BY <1>10, <1>11, <1>13, <3>1, BeforeTransitive
  <2>. QED  BY <1>4, <2>1
<1>. QED  BY <1>11, <1>12, <1>13, BeforeTotal

(* s lists the n names of S in their order.                                *)
Lists(s, n, S) ==
    /\ s \in [1..n -> S]
    /\ \A i, j \in 1..n : i < j => Before(s[i], s[j])
    /\ \A x \in S : \E i \in 1..n : s[i] = x

LEMMA ListExists ==
    ASSUME NEW S \in SUBSET Text, IsFiniteSet(S)
    PROVE  \E s : Lists(s, Cardinality(S), S)
<1>. DEFINE Bad(T) == IsFiniteSet(T) /\ ~ \E s : Lists(s, Cardinality(T), T)
            U == {n \in Nat : \E T \in SUBSET Text : Bad(T) /\ Cardinality(T) = n}
<1>1. SUFFICES ASSUME ~ \E s : Lists(s, Cardinality(S), S) PROVE FALSE  OBVIOUS
<1>2. Cardinality(S) \in U  BY <1>1, FS_CardinalityType
<1>3. PICK m \in U : \A k \in U : m <= k  BY <1>2, Least
<1>4. PICK T \in SUBSET Text : Bad(T) /\ Cardinality(T) = m  OBVIOUS
<1>5. T # {}
  <2>1. SUFFICES ASSUME T = {} PROVE FALSE  OBVIOUS
  <2>2. Cardinality(T) = 0  BY <2>1, FS_EmptySet
  <2>3. Lists([i \in 1..0 |-> 0], 0, T)  BY <2>1 DEF Lists
  <2>. QED  BY <1>4, <2>2, <2>3
<1>6. PICK x \in T : \A y \in T \ {x} : Before(x, y)  BY <1>4, <1>5, FirstOf
<1>7. IsFiniteSet(T \ {x}) /\ Cardinality(T \ {x}) = m - 1  BY <1>4, FS_RemoveElement
<1>8. m - 1 \in Nat /\ m \in Nat  BY <1>7, FS_CardinalityType
<1>9. \E s : Lists(s, m - 1, T \ {x})
  <2>1. SUFFICES ASSUME Bad(T \ {x}) PROVE FALSE  BY <1>7
  <2>2. T \ {x} \in SUBSET Text  OBVIOUS
  <2>3. m - 1 \in U  BY <1>7, <1>8, <2>1, <2>2
  <2>. QED  BY <1>3, <1>8, <2>3
<1>10. PICK s : Lists(s, m - 1, T \ {x})  BY <1>9
<1>. DEFINE t == [i \in 1..m |-> IF i = 1 THEN x ELSE s[i - 1]]
<1>11. \A i \in 1..m : i # 1 => i - 1 \in 1..(m - 1)  BY <1>8
<1>12. /\ s \in [1..(m - 1) -> T \ {x}]
       /\ \A i, j \in 1..(m - 1) : i < j => Before(s[i], s[j])
       /\ \A y \in T \ {x} : \E i \in 1..(m - 1) : s[i] = y
  BY <1>10 DEF Lists
<1>13. t \in [1..m -> T]
  <2>1. \A i \in 1..m : i # 1 => s[i - 1] \in T  BY <1>11, <1>12
  <2>. QED  BY <2>1
<1>14. ASSUME NEW i \in 1..m, NEW j \in 1..m, i < j PROVE Before(t[i], t[j])
  <2>1. j # 1 /\ j - 1 \in 1..(m - 1) /\ t[j] = s[j - 1] /\ s[j - 1] \in T \ {x}
    BY <1>8, <1>11, <1>12, <1>14
  <2>2. CASE i = 1
    <3>1. t[i] = x  BY <2>2
    <3>. QED  BY <1>6, <2>1, <3>1
  <2>3. CASE i # 1
    <3>1. i - 1 \in 1..(m - 1) /\ t[i] = s[i - 1] /\ i - 1 < j - 1  BY <1>8, <1>11, <1>14, <2>3
    <3>. QED  BY <1>12, <2>1, <3>1
  <2>. QED  BY <2>2, <2>3
<1>15. ASSUME NEW y \in T PROVE \E i \in 1..m : t[i] = y
  <2>1. CASE y = x
    <3>1. m # 0  BY <1>4, <1>5, FS_EmptySet
    <3>2. 1 \in 1..m /\ t[1] = x  BY <1>8, <3>1
    <3>. QED  BY <2>1, <3>2
  <2>2. CASE y # x
    <3>1. PICK i \in 1..(m - 1) : s[i] = y  BY <1>12, <2>2
    <3>2. i + 1 \in 1..m /\ i + 1 # 1 /\ (i + 1) - 1 = i  BY <1>8
    <3>3. t[i + 1] = y  BY <3>1, <3>2
    <3>. QED  BY <3>2, <3>3
  <2>. QED  BY <2>1, <2>2
<1>. HIDE DEF t
<1>16. Lists(t, m, T)  BY <1>13, <1>14, <1>15 DEF Lists
<1>. QED  BY <1>4, <1>16

LEMMA ListsDiffer ==
    ASSUME NEW S \in SUBSET Text, NEW n \in Nat, NEW s \in [1..n -> S],
           \A i, j \in 1..n : i < j => Before(s[i], s[j])
    PROVE  \A i, j \in 1..n : s[i] = s[j] => i = j
<1>1. SUFFICES ASSUME NEW i \in 1..n, NEW j \in 1..n, s[i] = s[j], i # j PROVE FALSE
  OBVIOUS
<1>2. s[i] \in Text  OBVIOUS
<1>3. i < j \/ j < i  BY <1>1
<1>. QED  BY <1>1, <1>2, <1>3, BeforeIrreflexive

(* Sorted lists the names of a set.                                        *)
LEMMA SortedIs ==
    ASSUME NEW S \in SUBSET Text, IsFiniteSet(S)
    PROVE  Cardinality(S) \in Nat /\ Lists(Sorted(S), Cardinality(S), S)
<1>. DEFINE n == Cardinality(S)
            Up(s) == \A i, j \in DOMAIN s : i < j => Before(s[i], s[j])
<1>1. n \in Nat  BY FS_CardinalityType
<1>2. \E s \in [1..n -> S] : Up(s)
  <2>1. PICK s : Lists(s, n, S)  BY ListExists
  <2>2. s \in [1..n -> S] /\ Up(s)  BY <2>1 DEF Lists
  <2>. QED  BY <2>2
<1>3. Sorted(S) = CHOOSE s \in [1..n -> S] : Up(s)  BY DEF Sorted
<1>4. Sorted(S) \in [1..n -> S] /\ Up(Sorted(S))
  <2>. HIDE DEF Up, n
  <2>. QED  BY <1>2, <1>3
<1>. DEFINE f == Sorted(S)
<1>5. f \in [1..n -> S] /\ \A i, j \in 1..n : i < j => Before(f[i], f[j])  BY <1>4
<1>. HIDE DEF n, f, Up
<1>6. \A i, j \in 1..n : f[i] = f[j] => i = j  BY <1>1, <1>5, ListsDiffer
<1>7. f \in Injection(1..n, S)  BY <1>5, <1>6 DEF Injection, IsInjective
<1>8. Cardinality(1..n) = n
  <2>1. 1 \in Int /\ n \in Int  BY <1>1
  <2>2. Cardinality(1..n) = IF 1 > n THEN 0 ELSE n - 1 + 1  BY <2>1, FS_Interval
  <2>. QED  BY <1>1, <2>2
<1>9. f \in Surjection(1..n, S)
  <2>1. Cardinality(1..n) = Cardinality(S)  BY <1>8 DEF n
  <2>. QED  BY <1>7, <2>1, FS_Injection
<1>10. \A x \in S : \E i \in 1..n : f[i] = x  BY <1>9 DEF Surjection
<1>. QED  BY <1>1, <1>5, <1>10 DEF Lists, n, f

LEMMA ListsAgree ==
    ASSUME NEW S \in SUBSET Text, NEW n \in Nat, NEW s, NEW t, Lists(s, n, S), Lists(t, n, S)
    PROVE  s = t
<1>. DEFINE U == {i \in Nat : i \in 1..n /\ s[i] # t[i]}
<1>1. /\ s \in [1..n -> S] /\ t \in [1..n -> S]
      /\ \A i, j \in 1..n : i < j => Before(s[i], s[j]) /\ Before(t[i], t[j])
      /\ \A x \in S : \E i \in 1..n : s[i] = x
      /\ \A x \in S : \E i \in 1..n : t[i] = x
  BY DEF Lists
<1>2. SUFFICES ASSUME U # {} PROVE FALSE
  <2>1. ASSUME U = {} PROVE s = t
    <3>1. \A i \in 1..n : s[i] = t[i]  BY <2>1
    <3>. QED  BY <1>1, <3>1
  <2>. QED  BY <2>1
<1>3. PICK k \in U : \A i \in U : k <= i  BY <1>2, Least
<1>4. k \in 1..n /\ s[k] # t[k] /\ s[k] \in S /\ t[k] \in S /\ s[k] \in Text /\ t[k] \in Text
  BY <1>1
<1>5. \A i \in 1..n : i < k => s[i] = t[i]  BY <1>3, <1>4
<1>. HIDE DEF U
<1>6. \A i, j \in 1..n : s[i] = s[j] => i = j  BY <1>1, ListsDiffer
<1>7. \A i, j \in 1..n : t[i] = t[j] => i = j  BY <1>1, ListsDiffer
<1>8. Before(t[k], s[k])
  <2>1. PICK j \in 1..n : t[j] = s[k]  BY <1>1, <1>4
  <2>2. ~ j < k  BY <1>4, <1>5, <1>6, <2>1
  <2>3. j # k  BY <1>4, <2>1
  <2>4. k < j  BY <1>4, <2>2, <2>3
  <2>. QED  BY <1>1, <1>4, <2>1, <2>4
<1>9. Before(s[k], t[k])
  <2>1. PICK j \in 1..n : s[j] = t[k]  BY <1>1, <1>4
  <2>2. ~ j < k  BY <1>4, <1>5, <1>7, <2>1
  <2>3. j # k  BY <1>4, <2>1
  <2>4. k < j  BY <1>4, <2>2, <2>3
  <2>. QED  BY <1>1, <1>4, <2>1, <2>4
<1>. QED  BY <1>4, <1>8, <1>9, BeforeTransitive, BeforeIrreflexive

(* There is one such list.                                                 *)
LEMMA ListIsSorted ==
    ASSUME NEW S \in SUBSET Text, NEW n \in Nat, NEW s, Lists(s, n, S)
    PROVE  Sorted(S) = s
<1>1. /\ s \in [1..n -> S]
      /\ \A i, j \in 1..n : i < j => Before(s[i], s[j])
      /\ \A x \in S : \E i \in 1..n : s[i] = x
  BY DEF Lists
<1>2. \A i, j \in 1..n : s[i] = s[j] => i = j  BY <1>1, ListsDiffer
<1>3. s \in Bijection(1..n, S)
  BY <1>1, <1>2 DEF Bijection, Injection, Surjection, IsInjective
<1>4. ExistsBijection(1..n, S)  BY <1>3 DEF ExistsBijection
<1>5. IsFiniteSet(S) /\ Cardinality(S) = n  BY <1>4, FS_NatBijection, FS_CountingElements
<1>6. Lists(Sorted(S), n, S)  BY <1>5, SortedIs
<1>. QED  BY <1>6, ListsAgree

-----------------------------------------------------------------------------
(* Trees.                                                                  *)

(* What an entry is sorted by.                                             *)
Key(e, n) == IF e[n].mode = "tree" THEN Append(n, Slash) ELSE n

KeysOf(e) == {Key(e, n) : n \in DOMAIN e}

NameOf(k) == IF k # << >> /\ Last(k) = Slash THEN Front(k) ELSE k

LEMMA NamesAreListed ==
    ASSUME NEW e
    PROVE  Names(e) = [i \in DOMAIN Sorted(KeysOf(e)) |-> NameOf(Sorted(KeysOf(e))[i])]
BY DEF Names, Key, KeysOf, NameOf

LEMMA KeyIs ==
    ASSUME NEW n \in Text, Slash \notin Runes(n), NEW e
    PROVE  Key(e, n) \in Text /\ NameOf(Key(e, n)) = n
<1>1. Len(n) \in Nat /\ DOMAIN n = 1..Len(n) /\ n \in Seq(Nat)  BY DEF Text
<1>2. CASE e[n].mode = "tree"
  <2>1. Key(e, n) = Append(n, Slash)  BY <1>2 DEF Key
  <2>. DEFINE k == Append(n, Slash)
  <2>2. Slash \in Nat  BY DEF Slash
  <2>3. k \in Seq(Nat) /\ Len(k) = Len(n) + 1 /\ k[Len(n) + 1] = Slash
        /\ \A i \in 1..Len(n) : k[i] = n[i]
    BY <1>1, <2>2
  <2>4. k # << >> /\ Last(k) = Slash  BY <1>1, <2>3 DEF Last
  <2>. HIDE DEF k
  <2>5. Front(k) = n
    <3>1. Front(k) = [i \in 1..Len(n) |-> k[i]]  BY <1>1, <2>3 DEF Front
    <3>2. n = [i \in 1..Len(n) |-> n[i]]  BY <1>1
    <3>3. [i \in 1..Len(n) |-> k[i]] = [i \in 1..Len(n) |-> n[i]]  BY <2>3
    <3>. QED  BY <3>1, <3>2, <3>3
  <2>6. k = Key(e, n)  BY <2>1 DEF k
  <2>. QED  BY <2>3, <2>4, <2>5, <2>6 DEF NameOf, Text
<1>3. CASE e[n].mode # "tree"
  <2>1. Key(e, n) = n  BY <1>3 DEF Key
  <2>2. n # << >> => Last(n) # Slash
    <3>1. SUFFICES ASSUME n # << >> PROVE Last(n) # Slash  OBVIOUS
    <3>2. Len(n) \in DOMAIN n  BY <1>1, <3>1
    <3>. QED  BY <3>2 DEF Last, Runes
  <2>. QED  BY <2>1, <2>2 DEF NameOf
<1>. QED  BY <1>2, <1>3

LEMMA KeysAre ==
    ASSUME NEW e, IsFiniteSet(DOMAIN e), DOMAIN e \subseteq Text,
           \A n \in DOMAIN e : Slash \notin Runes(n)
    PROVE  KeysOf(e) \in SUBSET Text /\ IsFiniteSet(KeysOf(e))
<1>1. KeysOf(e) \in SUBSET Text
  <2>1. \A n \in DOMAIN e : Key(e, n) \in Text  BY KeyIs
  <2>. QED  BY <2>1 DEF KeysOf
<1>2. IsFiniteSet(KeysOf(e))
  <2>. DEFINE f == [n \in DOMAIN e |-> Key(e, n)]
  <2>1. f \in Surjection(DOMAIN e, KeysOf(e))  BY DEF Surjection, KeysOf
  <2>. HIDE DEF f
  <2>. QED  BY <2>1, FS_Surjection
<1>. QED  BY <1>1, <1>2

(* The names of the files of a tree, each of them once.                    *)
Enumerates(s, m, S) ==
    /\ s \in [1..m -> S]
    /\ \A i, j \in 1..m : s[i] = s[j] => i = j
    /\ \A x \in S : \E i \in 1..m : s[i] = x

LEMMA NamesAre ==
    ASSUME NEW e, IsFiniteSet(DOMAIN e), DOMAIN e \subseteq Text,
           \A n \in DOMAIN e : Slash \notin Runes(n)
    PROVE  \E m \in Nat : Enumerates(Names(e), m, DOMAIN e)
<1>. DEFINE K == KeysOf(e)
            m == Cardinality(K)
            s == Sorted(K)
            N == Names(e)
<1>1. K \in SUBSET Text /\ IsFiniteSet(K)  BY KeysAre
<1>2. m \in Nat /\ Lists(s, m, K)
  <2>. HIDE DEF K
  <2>. QED  BY <1>1, SortedIs
<1>3. N = [i \in DOMAIN s |-> NameOf(s[i])]  BY NamesAreListed
<1>4. \A k \in K : \E n \in DOMAIN e : k = Key(e, n)  BY DEF KeysOf
<1>5. \A n \in DOMAIN e : Key(e, n) \in K  BY DEF KeysOf
<1>6. \A n \in DOMAIN e : NameOf(Key(e, n)) = n  BY KeyIs
<1>. HIDE DEF K, m, s, N
<1>7. /\ s \in [1..m -> K]
      /\ \A i, j \in 1..m : i < j => Before(s[i], s[j])
      /\ \A x \in K : \E i \in 1..m : s[i] = x
  BY <1>2 DEF Lists
<1>8. \A i, j \in 1..m : s[i] = s[j] => i = j  BY <1>1, <1>2, <1>7, ListsDiffer
<1>9. \A i \in 1..m : N[i] = NameOf(s[i])  BY <1>3, <1>7
<1>10. \A i \in 1..m : N[i] \in DOMAIN e /\ s[i] = Key(e, N[i])
  <2>1. TAKE i \in 1..m
  <2>2. PICK n \in DOMAIN e : s[i] = Key(e, n)  BY <1>4, <1>7
  <2>3. N[i] = n  BY <1>6, <1>9, <2>2
  <2>. QED  BY <2>2, <2>3
<1>11. N \in [1..m -> DOMAIN e]
  <2>1. DOMAIN s = 1..m  BY <1>7
  <2>2. N = [i \in 1..m |-> NameOf(s[i])]  BY <1>3, <2>1
  <2>3. \A i \in 1..m : NameOf(s[i]) \in DOMAIN e  BY <1>9, <1>10
  <2>. QED  BY <2>2, <2>3
<1>12. \A i, j \in 1..m : N[i] = N[j] => i = j  BY <1>8, <1>10
<1>13. ASSUME NEW n \in DOMAIN e PROVE \E i \in 1..m : N[i] = n
  <2>1. PICK i \in 1..m : s[i] = Key(e, n)  BY <1>5, <1>7
  <2>2. N[i] = n  BY <1>6, <1>9, <2>1
  <2>. QED  BY <2>2
<1>14. Enumerates(N, m, DOMAIN e)  BY <1>11, <1>12, <1>13 DEF Enumerates
<1>. QED  BY <1>2, <1>14 DEF N

LEMMA PlainFilename ==
    ASSUME NEW n \in Text, PlainName(n)
    PROVE  /\ Filename(n) = n
           /\ Runes(n) \cap {NL, Slash} = {}
BY ScannedIs, SkipSpaceIs DEF PlainName, Filename

NamesIn(body) == {body[i].name : i \in DOMAIN body}

ReadsAs(body, e) ==
    /\ UnmarshalTree(body) = Got(Tree(e))
    /\ e = [x \in NamesIn(body) |-> e[x]]
    /\ \A i \in DOMAIN body : e[body[i].name] = [mode |-> body[i].mode, object |-> body[i].object]

(* Of entries with different, plain names, the tree.                       *)
LEMMA TreeOfIs ==
    ASSUME NEW n \in Nat, NEW body, DOMAIN body = 1..n, Len(body) = n,
           \A i \in 1..n : body[i].name \in Text /\ PlainName(body[i].name),
           \A i, j \in 1..n : body[i].name = body[j].name => i = j
    PROVE  \E e : ReadsAs(body, e)
<1>. DEFINE S == {body[i].name : i \in 1..n}
            at(x) == CHOOSE i \in 1..n : body[i].name = x
                        /\ \A j \in (i + 1)..n : body[j].name # x
            e == [x \in S |-> [mode |-> body[at(x)].mode, object |-> body[at(x)].object]]
<1>1. \A i \in 1..n : Filename(body[i].name) = body[i].name
                      /\ Runes(body[i].name) \cap {NL, Slash} = {}
  BY PlainFilename
<1>2. UnmarshalTree(body) = Got(TreeOf(body))  BY <1>1 DEF UnmarshalTree
<1>3. TreeOf(body) = Tree(e)
  <2>. DEFINE name(i) == Filename(body[i].name)
              last(x) == CHOOSE i \in DOMAIN body :
                            name(i) = x /\ \A j \in (i + 1)..Len(body) : name(j) # x
              T == {name(i) : i \in DOMAIN body}
              f == [x \in T |-> [mode |-> body[last(x)].mode, object |-> body[last(x)].object]]
  <2>1. TreeOf(body) = Tree(f)  BY DEF TreeOf
  <2>2. T = S  BY <1>1
  <2>3. ASSUME NEW x \in S PROVE last(x) = at(x)
    <3>1. \A i \in 1..n :
             (name(i) = x /\ \A j \in (i + 1)..Len(body) : name(j) # x)
             <=> (body[i].name = x /\ \A j \in (i + 1)..n : body[j].name # x)
      <4>1. \A i \in 1..n : \A j \in (i + 1)..n : j \in 1..n  OBVIOUS
      <4>. QED  BY <1>1, <4>1
    <3>. QED  BY <3>1
  <2>. HIDE DEF last, at, name
  <2>4. f = e  BY <2>2, <2>3
  <2>. QED  BY <2>1, <2>4
<1>4. ASSUME NEW i \in 1..n PROVE at(body[i].name) = i
  <2>1. \A k \in 1..n :
           (body[k].name = body[i].name /\ \A j \in (k + 1)..n : body[j].name # body[i].name)
           <=> k = i
    <3>1. TAKE k \in 1..n
    <3>2. \A j \in (i + 1)..n : j \in 1..n /\ j # i  OBVIOUS
    <3>. QED  BY <3>2
  <2>. QED  BY <2>1
<1>. HIDE DEF at
<1>5. \A i \in 1..n : e[body[i].name] = [mode |-> body[i].mode, object |-> body[i].object]
  <2>1. TAKE i \in 1..n
  <2>2. body[i].name \in S  OBVIOUS
  <2>. QED  BY <1>4, <2>2
<1>6. e = [x \in S |-> e[x]]  OBVIOUS
<1>. HIDE DEF e
<1>7. UnmarshalTree(body) = Got(Tree(e))  BY <1>2, <1>3
<1>8. S = NamesIn(body)  BY DEF NamesIn
<1>9. ReadsAs(body, e)  BY <1>5, <1>6, <1>7, <1>8 DEF ReadsAs
<1>. QED  BY <1>9

LEMMA TreeIs ==
    ASSUME NEW t, IsTree(t)
    PROVE  /\ t = Tree(t.entries)
           /\ IsFiniteSet(DOMAIN t.entries) /\ DOMAIN t.entries \subseteq Text
           /\ \A n \in DOMAIN t.entries : Slash \notin Runes(n)
           /\ t.entries = [n \in DOMAIN t.entries |-> t.entries[n]]
           /\ \A n \in DOMAIN t.entries : t.entries[n] \in TreeInfo
<1>. DEFINE e == t.entries
<1>1. e \in [DOMAIN e -> TreeInfo]  BY DEF IsTree
<1>2. e = [n \in DOMAIN e |-> e[n]] /\ \A n \in DOMAIN e : e[n] \in TreeInfo  BY <1>1
<1>. QED  BY <1>2 DEF IsTree

(* The body of a tree has an entry per name.                               *)
LEMMA TreeBodyIs ==
    ASSUME NEW t, IsTree(t)
    PROVE  \E m \in Nat : \E N :
              /\ Enumerates(N, m, DOMAIN t.entries)
              /\ DOMAIN TreeBody(t.entries) = 1..m /\ Len(TreeBody(t.entries)) = m
              /\ \A i \in 1..m :
                    TreeBody(t.entries)[i] =
                        [zeros |-> FALSE, mode |-> t.entries[N[i]].mode, name |-> N[i],
                         object |-> t.entries[N[i]].object]
<1>. DEFINE e == t.entries
            N == Names(e)
            body == TreeBody(e)
<1>1. /\ IsFiniteSet(DOMAIN e) /\ DOMAIN e \subseteq Text
      /\ \A n \in DOMAIN e : Slash \notin Runes(n)
  BY TreeIs
<1>2. body = [i \in DOMAIN N |-> [zeros |-> FALSE, mode |-> e[N[i]].mode, name |-> N[i],
                                  object |-> e[N[i]].object]]
  BY DEF TreeBody
<1>. HIDE DEF e, N, body
<1>3. PICK m \in Nat : Enumerates(N, m, DOMAIN e)  BY <1>1, NamesAre DEF N
<1>4. N \in [1..m -> DOMAIN e]  BY <1>3 DEF Enumerates
<1>5. /\ DOMAIN body = 1..m /\ Len(body) = m
      /\ \A i \in 1..m : body[i] = [zeros |-> FALSE, mode |-> e[N[i]].mode, name |-> N[i],
                                    object |-> e[N[i]].object]
  <2>1. DOMAIN N = 1..m  BY <1>4
  <2>2. DOMAIN body = 1..m /\ \A i \in 1..m : body[i] = [zeros |-> FALSE, mode |-> e[N[i]].mode,
                                    name |-> N[i], object |-> e[N[i]].object]
    BY <1>2, <2>1
  <2>3. body = [i \in 1..m |-> body[i]]
    BY <1>2, <2>1
  <2>4. Len(body) = m  BY <2>2, <2>3
  <2>. QED  BY <2>2, <2>4
<1>. QED  BY <1>3, <1>5 DEF e, body

LEMMA TreeIsBack ==
    ASSUME NEW t, IsTree(t),
           \A i \in DOMAIN TreeBody(t.entries) : PlainName(TreeBody(t.entries)[i].name)
    PROVE  /\ UnmarshalTree(TreeBody(t.entries)) = Got(t)
           /\ UnmarshalTreeText(TreeBody(t.entries)) = Got(t) <=>
                 \A n \in DOMAIN t.entries : n # << >> /\ t.entries[n].mode # "other"
<1>. DEFINE e == t.entries
            body == TreeBody(e)
<1>1. PICK m, N :
         /\ m \in Nat /\ Enumerates(N, m, DOMAIN e)
         /\ DOMAIN body = 1..m /\ Len(body) = m
         /\ \A i \in 1..m : body[i] = [zeros |-> FALSE, mode |-> e[N[i]].mode, name |-> N[i],
                                       object |-> e[N[i]].object]
  BY TreeBodyIs
<1>2. /\ N \in [1..m -> DOMAIN e]
      /\ \A i, j \in 1..m : N[i] = N[j] => i = j
      /\ \A x \in DOMAIN e : \E i \in 1..m : N[i] = x
  BY <1>1 DEF Enumerates
<1>3. /\ t = Tree(e) /\ DOMAIN e \subseteq Text
      /\ e = [n \in DOMAIN e |-> e[n]]
      /\ \A n \in DOMAIN e : e[n] \in TreeInfo
  BY TreeIs
<1>4. \A i \in DOMAIN body : PlainName(body[i].name)  OBVIOUS
<1>. HIDE DEF e, body
<1>5. \A i \in 1..m : body[i].name = N[i] /\ body[i].mode = e[N[i]].mode
                      /\ body[i].object = e[N[i]].object
  BY <1>1
<1>6. \A i \in 1..m : body[i].name \in Text /\ PlainName(body[i].name)
  BY <1>1, <1>2, <1>3, <1>4, <1>5
<1>7. \A i, j \in 1..m : body[i].name = body[j].name => i = j  BY <1>2, <1>5
<1>8. PICK f : ReadsAs(body, f)  BY <1>1, <1>6, <1>7, TreeOfIs
<1>9. NamesIn(body) = DOMAIN e
  <2>1. DOMAIN body = 1..m  BY <1>1
  <2>2. ASSUME NEW x \in NamesIn(body) PROVE x \in DOMAIN e
    <3>1. PICK i \in 1..m : x = body[i].name  BY <2>1 DEF NamesIn
    <3>2. x = N[i]  BY <1>5, <3>1
    <3>. QED  BY <1>2, <3>2
  <2>3. ASSUME NEW x \in DOMAIN e PROVE x \in NamesIn(body)
    <3>1. PICK i \in 1..m : N[i] = x  BY <1>2
    <3>2. i \in DOMAIN body /\ body[i].name = x  BY <1>5, <2>1, <3>1
    <3>. QED  BY <3>2 DEF NamesIn
  <2>. QED  BY <2>2, <2>3
<1>10. \A n \in DOMAIN e : f[n] = e[n]
  <2>1. TAKE n \in DOMAIN e
  <2>2. PICK i \in 1..m : N[i] = n  BY <1>2
  <2>3. f[n] = [mode |-> e[n].mode, object |-> e[n].object]  BY <1>1, <1>5, <1>8, <2>2 DEF ReadsAs
  <2>4. e[n] = [mode |-> e[n].mode, object |-> e[n].object]
    <3>1. e[n] \in TreeInfo  BY <1>3
    <3>. QED  BY <3>1 DEF TreeInfo
  <2>. QED  BY <2>3, <2>4
<1>11. f = e
  <2>1. f = [x \in DOMAIN e |-> f[x]]  BY <1>8, <1>9 DEF ReadsAs
  <2>2. [x \in DOMAIN e |-> f[x]] = [x \in DOMAIN e |-> e[x]]  BY <1>10
  <2>. QED  BY <1>3, <2>1, <2>2
<1>12. UnmarshalTree(body) = Got(t)  BY <1>3, <1>8, <1>11 DEF ReadsAs
<1>13. \A i \in 1..m : Filename(body[i].name) = N[i] /\ (TypeOfMode(body[i].mode) # "" <=> e[N[i]].mode # "other")
  <2>1. TAKE i \in 1..m
  <2>2. Filename(body[i].name) = N[i]  BY <1>5, <1>6, PlainFilename
  <2>3. e[N[i]].mode \in TreeMode
    <3>1. e[N[i]] \in TreeInfo  BY <1>2, <1>3
    <3>. QED  BY <3>1 DEF TreeInfo
  <2>4. TypeOfMode(e[N[i]].mode) # "" <=> e[N[i]].mode # "other"
    BY <2>3 DEF TypeOfMode, TreeMode
  <2>. QED  BY <1>5, <2>2, <2>4
<1>14. (\A i \in DOMAIN body : TypeOfMode(body[i].mode) # "" /\ Filename(body[i].name) # << >>)
       <=> \A n \in DOMAIN e : n # << >> /\ e[n].mode # "other"
  <2>1. DOMAIN body = 1..m  BY <1>1
  <2>2. \A i \in 1..m : N[i] \in DOMAIN e  BY <1>2
  <2>3. \A n \in DOMAIN e : \E i \in 1..m : N[i] = n  BY <1>2
  <2>4. ASSUME \A i \in DOMAIN body : TypeOfMode(body[i].mode) # "" /\ Filename(body[i].name) # << >>,
               NEW n \in DOMAIN e
        PROVE  n # << >> /\ e[n].mode # "other"
    <3>1. PICK i \in 1..m : N[i] = n  BY <2>3
    <3>2. TypeOfMode(body[i].mode) # "" /\ Filename(body[i].name) # << >>  BY <2>1, <2>4
    <3>. QED  BY <1>13, <3>1, <3>2
  <2>5. ASSUME \A n \in DOMAIN e : n # << >> /\ e[n].mode # "other", NEW i \in DOMAIN body
        PROVE  TypeOfMode(body[i].mode) # "" /\ Filename(body[i].name) # << >>
    <3>1. i \in 1..m  BY <2>1
    <3>2. N[i] # << >> /\ e[N[i]].mode # "other"  BY <2>2, <2>5, <3>1
    <3>. QED  BY <1>13, <3>1, <3>2
  <2>. QED  BY <2>4, <2>5
<1>15. UnmarshalTreeText(body) =
          IF \A n \in DOMAIN e : n # << >> /\ e[n].mode # "other" THEN Got(t) ELSE Failed
  BY <1>12, <1>14 DEF UnmarshalTreeText
<1>16. Got(t) # Failed  BY DEF Got, Failed
<1>17. UnmarshalTreeText(body) = Got(t) <=>
          \A n \in DOMAIN e : n # << >> /\ e[n].mode # "other"
  BY <1>15, <1>16
<1>. QED  BY <1>12, <1>17 DEF e, body

(* Git's order of the entries is the order of the names with the slashes.  *)
EntryKey(x) == IF x.mode = "tree" THEN Append(x.name, Slash) ELSE x.name

RuneOf(x, i) ==
    IF i <= Len(x.name) THEN x.name[i] ELSE IF x.mode = "tree" THEN Slash ELSE NUL

LEMMA GitBeforeIs ==
    ASSUME NEW x, NEW y, GitBefore(x, y), Len(x.name) \in Nat, Len(y.name) \in Nat
    PROVE  \E i \in Nat \ {0} :
              /\ i <= Len(x.name) + 1 /\ i <= Len(y.name) + 1
              /\ RuneOf(x, i) < RuneOf(y, i)
              /\ \A j \in 1..(i - 1) : RuneOf(x, j) = RuneOf(y, j)
<1>. DEFINE n == IF Len(x.name) < Len(y.name) THEN Len(x.name) ELSE Len(y.name)
<1>1. PICK i \in 1..(n + 1) : /\ RuneOf(x, i) < RuneOf(y, i)
                              /\ \A j \in 1..(i - 1) : RuneOf(x, j) = RuneOf(y, j)
  BY DEF GitBefore, RuneOf
<1>2. n \in Nat /\ n <= Len(x.name) /\ n <= Len(y.name)  OBVIOUS
<1>. HIDE DEF n
<1>3. i \in Nat \ {0} /\ i <= Len(x.name) + 1 /\ i <= Len(y.name) + 1  BY <1>2
<1>. QED  BY <1>1, <1>3

LEMMA RuneIsAt ==
    ASSUME NEW x, x.name \in Text, NEW i \in Nat \ {0}, i <= Len(x.name) + 1
    PROVE  /\ EntryKey(x) \in Text
           /\ RuneOf(x, i) \in Int /\ At(EntryKey(x), i) \in Int
           /\ i <= Len(x.name) \/ x.mode = "tree" => At(EntryKey(x), i) = RuneOf(x, i)
           /\ ~ (i <= Len(x.name) \/ x.mode = "tree") => At(EntryKey(x), i) = -1 /\ RuneOf(x, i) = 0
<1>. DEFINE s == x.name
            k == EntryKey(x)
<1>1. s \in Seq(Nat) /\ Len(s) \in Nat /\ (i <= Len(s) => s[i] \in Nat)  BY DEF Text
<1>2. Slash = 5 /\ NUL = 0  BY DEF Slash, NUL
<1>3. CASE x.mode = "tree"
  <2>1. k = Append(s, Slash)  BY <1>3 DEF EntryKey
  <2>2. Append(s, Slash) \in Seq(Nat) /\ Len(Append(s, Slash)) = Len(s) + 1
        /\ Append(s, Slash)[Len(s) + 1] = Slash
        /\ \A j \in 1..Len(s) : Append(s, Slash)[j] = s[j]
    BY <1>1, <1>2
  <2>3. k \in Seq(Nat) /\ Len(k) = Len(s) + 1 /\ k[Len(s) + 1] = Slash
        /\ \A j \in 1..Len(s) : k[j] = s[j]
    BY <2>1, <2>2
  <2>. HIDE DEF k
  <2>4. CASE i <= Len(s)
    <3>1. i \in 1..Len(s)  BY <1>1, <2>4
    <3>2. At(k, i) = s[i]  BY <1>1, <2>3, <2>4, <3>1 DEF At
    <3>3. RuneOf(x, i) = s[i]  BY <2>4 DEF RuneOf
    <3>. QED  BY <1>1, <1>3, <2>3, <2>4, <3>2, <3>3 DEF k, Text
  <2>5. CASE i = Len(s) + 1
    <3>1. At(k, i) = Slash  BY <1>1, <2>3, <2>5 DEF At
    <3>2. RuneOf(x, i) = Slash  BY <1>1, <1>3, <2>5 DEF RuneOf
    <3>. QED  BY <1>2, <1>3, <2>3, <3>1, <3>2 DEF k, Text
  <2>. QED  BY <1>1, <2>4, <2>5
<1>4. CASE x.mode # "tree"
  <2>1. k = s  BY <1>4 DEF EntryKey
  <2>2. CASE i <= Len(s)
    <3>1. At(k, i) = s[i] /\ RuneOf(x, i) = s[i]  BY <2>1, <2>2 DEF At, RuneOf
    <3>. QED  BY <1>1, <2>1, <2>2, <3>1
  <2>3. CASE ~ i <= Len(s)
    <3>1. At(k, i) = -1 /\ RuneOf(x, i) = 0  BY <1>2, <1>4, <2>1, <2>3 DEF At, RuneOf
    <3>. QED  BY <1>1, <1>4, <2>1, <2>3, <3>1
  <2>. QED  BY <2>2, <2>3
<1>. QED  BY <1>3, <1>4

LEMMA GitOrder ==
    ASSUME NEW x, NEW y, x.name \in Text, y.name \in Text, GitBefore(x, y)
    PROVE  Before(EntryKey(x), EntryKey(y))
<1>1. Len(x.name) \in Nat /\ Len(y.name) \in Nat  BY DEF Text
<1>2. PICK i \in Nat \ {0} :
         /\ i <= Len(x.name) + 1 /\ i <= Len(y.name) + 1
         /\ RuneOf(x, i) < RuneOf(y, i)
         /\ \A j \in 1..(i - 1) : RuneOf(x, j) = RuneOf(y, j)
  BY <1>1, GitBeforeIs
<1>. DEFINE k == EntryKey(x)
            l == EntryKey(y)
<1>3. /\ RuneOf(x, i) \in Int /\ At(k, i) \in Int
      /\ At(k, i) = RuneOf(x, i) \/ (At(k, i) = -1 /\ RuneOf(x, i) = 0)
  BY <1>2, RuneIsAt
<1>4. /\ RuneOf(y, i) \in Int /\ At(l, i) \in Int
      /\ At(l, i) = RuneOf(y, i) \/ (At(l, i) = -1 /\ RuneOf(y, i) = 0)
  BY <1>2, RuneIsAt
<1>5. RuneOf(x, i) >= 0
  <2>1. At(k, i) >= -1  BY <1>2, RuneIsAt, AtIs
  <2>2. i <= Len(x.name) => x.name[i] \in Nat  BY DEF Text
  <2>. QED  BY <2>2 DEF RuneOf, Slash, NUL
<1>6. At(k, i) < At(l, i)
  <2>. HIDE DEF k, l
  <2>. QED  BY <1>2, <1>3, <1>4, <1>5
<1>7. ASSUME NEW j \in 1..(i - 1) PROVE At(k, j) = At(l, j)
  <2>1. j \in Nat \ {0} /\ j <= Len(x.name) /\ j <= Len(y.name)  BY <1>1, <1>2
  <2>2. At(k, j) = RuneOf(x, j)  BY <2>1, <1>1, RuneIsAt
  <2>3. At(l, j) = RuneOf(y, j)  BY <2>1, <1>1, RuneIsAt
  <2>. QED  BY <1>2, <2>2, <2>3
<1>8. k \in Text /\ l \in Text  BY <1>2, RuneIsAt
<1>9. Differ(k, l, i)  BY <1>6, <1>7 DEF Differ
<1>. HIDE DEF k, l
<1>10. Before(k, l)  BY <1>8, <1>9, BeforeIs
<1>. QED  BY <1>10 DEF k, l

(* A tree in Git's order, of different and plain names, is written as it   *)
(* was read.                                                               *)
LEMMA TreeIsKept ==
    ASSUME NEW body \in Seq(Entry),
           \A i \in DOMAIN body : PlainName(body[i].name) /\ ~ body[i].zeros,
           \A i, j \in DOMAIN body :
              i < j => body[i].name # body[j].name /\ GitBefore(body[i], body[j])
    PROVE  /\ UnmarshalTree(body).obj.type = "tree"
           /\ TreeBody(UnmarshalTree(body).obj.entries) = body
<1>. DEFINE n == Len(body)
            name(i) == body[i].name
<1>1. n \in Nat /\ DOMAIN body = 1..n /\ body = [i \in 1..n |-> body[i]]
      /\ \A i \in 1..n : body[i] \in Entry
  OBVIOUS
<1>2. \A i \in 1..n : /\ name(i) \in Text /\ PlainName(name(i))
                      /\ body[i] = [zeros |-> FALSE, mode |-> body[i].mode, name |-> name(i),
                                    object |-> body[i].object]
  <2>1. TAKE i \in 1..n
  <2>2. body[i] \in Entry  BY <1>1
  <2>3. body[i].zeros = FALSE  BY <1>1, <2>2 DEF Entry
  <2>4. name(i) \in Text /\ PlainName(name(i))  BY <1>1, <2>2 DEF Entry
  <2>. QED  BY <2>2, <2>3, <2>4 DEF Entry
<1>3. \A i, j \in 1..n : i < j => name(i) # name(j) /\ GitBefore(body[i], body[j])
  BY <1>1
<1>. HIDE DEF n
<1>4. \A i, j \in 1..n : name(i) = name(j) => i = j
  <2>1. \A i, j \in 1..n : i # j => i < j \/ j < i  BY <1>1
  <2>. QED  BY <1>3, <2>1
<1>5. PICK e : ReadsAs(body, e)
  <2>1. DOMAIN body = 1..n /\ Len(body) = n  BY <1>1 DEF n
  <2>2. \A i \in 1..n : body[i].name \in Text /\ PlainName(body[i].name)  BY <1>2
  <2>3. \A i, j \in 1..n : body[i].name = body[j].name => i = j  BY <1>4
  <2>. QED  BY <1>1, <2>1, <2>2, <2>3, TreeOfIs
<1>. DEFINE s == [i \in 1..n |-> EntryKey(body[i])]
<1>6. DOMAIN e = NamesIn(body) /\ \A x : x \in NamesIn(body) <=> \E i \in 1..n : x = name(i)
  BY <1>1, <1>5 DEF NamesIn, ReadsAs
<1>6a. \A i \in 1..n : e[name(i)] = [mode |-> body[i].mode, object |-> body[i].object]
  BY <1>1, <1>5 DEF ReadsAs
<1>6b. \A i \in 1..n : e[name(i)].mode = body[i].mode /\ e[name(i)].object = body[i].object
  <2>1. \A m, o : [mode |-> m, object |-> o].mode = m /\ [mode |-> m, object |-> o].object = o
    OBVIOUS
  <2>2. TAKE i \in 1..n
  <2>3. e[name(i)] = [mode |-> body[i].mode, object |-> body[i].object]  BY <1>6a
  <2>. QED  BY ONLY <2>1, <2>3
<1>7. \A i \in 1..n : EntryKey(body[i]) = Key(e, name(i))
  <2>1. \A i \in 1..n : e[name(i)].mode = body[i].mode  BY <1>6b
  <2>. QED  BY <2>1 DEF EntryKey, Key
<1>8. \A i \in 1..n : Slash \notin Runes(name(i))  BY <1>2 DEF PlainName
<1>9. \A i \in 1..n : Key(e, name(i)) \in Text /\ NameOf(Key(e, name(i))) = name(i)
  BY <1>2, <1>8, KeyIs
<1>10. Lists(s, n, KeysOf(e))
  <2>1. s \in [1..n -> KeysOf(e)]  BY <1>6, <1>7 DEF KeysOf
  <2>2. \A i, j \in 1..n : i < j => Before(s[i], s[j])  BY <1>2, <1>3, GitOrder
  <2>3. ASSUME NEW k \in KeysOf(e) PROVE \E i \in 1..n : s[i] = k
    <3>1. PICK x \in DOMAIN e : k = Key(e, x)  BY DEF KeysOf
    <3>2. PICK i \in 1..n : x = name(i)  BY <1>6
    <3>. QED  BY <1>7, <3>1, <3>2
  <2>. HIDE DEF s
  <2>. QED  BY <2>1, <2>2, <2>3 DEF Lists
<1>11. KeysOf(e) \in SUBSET Text
  <2>1. ASSUME NEW k \in KeysOf(e) PROVE k \in Text
    <3>1. PICK x \in DOMAIN e : k = Key(e, x)  BY DEF KeysOf
    <3>2. PICK i \in 1..n : x = name(i)  BY <1>6
    <3>. QED  BY <1>9, <3>1, <3>2
  <2>. QED  BY <2>1
<1>12. Sorted(KeysOf(e)) = s
  <2>. HIDE DEF s
  <2>. QED  BY <1>1, <1>10, <1>11, ListIsSorted
<1>13. Names(e) = [i \in 1..n |-> name(i)]
  <2>1. Names(e) = [i \in DOMAIN s |-> NameOf(s[i])]  BY <1>12, NamesAreListed
  <2>2. DOMAIN s = 1..n  OBVIOUS
  <2>3. \A i \in 1..n : NameOf(s[i]) = name(i)  BY <1>7, <1>9
  <2>. HIDE DEF s
  <2>. QED  BY <2>1, <2>2, <2>3
<1>. DEFINE names == Names(e)
<1>14. TreeBody(e) = [i \in DOMAIN names |-> [zeros |-> FALSE, mode |-> e[names[i]].mode,
                                              name |-> names[i], object |-> e[names[i]].object]]
  BY DEF TreeBody
<1>15. DOMAIN names = 1..n /\ \A i \in 1..n : names[i] = name(i)  BY <1>13
<1>. HIDE DEF names
<1>16. ASSUME NEW i \in 1..n
       PROVE  [zeros |-> FALSE, mode |-> e[names[i]].mode, name |-> names[i],
               object |-> e[names[i]].object] = body[i]
  <2>1. names[i] = name(i)  BY <1>15
  <2>2. e[name(i)].mode = body[i].mode /\ e[name(i)].object = body[i].object  BY <1>6b
  <2>3. body[i] = [zeros |-> FALSE, mode |-> body[i].mode, name |-> name(i),
                   object |-> body[i].object]
    BY <1>2
  <2>. QED  BY <2>1, <2>2, <2>3
<1>17. TreeBody(e) = [i \in 1..n |-> body[i]]  BY <1>14, <1>15, <1>16
<1>18. UnmarshalTree(body).obj = Tree(e)  BY <1>5 DEF Got, ReadsAs
<1>19. Tree(e).type = "tree" /\ Tree(e).entries = e  BY DEF Tree
<1>20. TreeBody(e) = body  BY <1>1, <1>17
<1>. QED  BY <1>18, <1>19, <1>20

-----------------------------------------------------------------------------
(* Selecting elements of a sequence.                                       *)

(* What holds of no elements, and of one more, holds of all sequences.     *)
LEMMA AllSequences ==
    ASSUME NEW T, NEW Q \in SUBSET Seq(T), << >> \in Q,
           \A s \in Q : \A x \in T : Append(s, x) \in Q
    PROVE  Q = Seq(T)
<1>. DEFINE U == {n \in Nat : \E s \in Seq(T) : s \notin Q /\ Len(s) = n}
<1>1. SUFFICES ASSUME U # {} PROVE FALSE
  <2>1. \A s \in Seq(T) : Len(s) \in Nat  OBVIOUS
  <2>. QED  BY <2>1
<1>2. PICK m \in U : \A k \in U : m <= k  BY <1>1, Least
<1>3. PICK s \in Seq(T) : s \notin Q /\ Len(s) = m  OBVIOUS
<1>4. m \in Nat /\ m # 0  BY <1>3
<1>. DEFINE r == SubSeq(s, 1, m - 1)
<1>5. r \in Seq(T) /\ Len(r) = m - 1 /\ s = Append(r, s[m]) /\ s[m] \in T
  <2>1. s \in Seq(T) /\ Len(s) = m /\ m \in 1..m /\ s[m] \in T  BY <1>3, <1>4
  <2>0. m - 1 \in Nat /\ \A i \in 1..(m - 1) : i \in 1..m  BY <1>4
  <2>2. r \in Seq(T) /\ Len(r) = m - 1 /\ \A i \in 1..(m - 1) : r[i] = s[i]
    <3>1. \A i \in 1..m : s[i] \in T  BY <2>1
    <3>2. r = [i \in 1..(m - 1) |-> s[i]]  BY <1>4, <2>1
    <3>. HIDE DEF r
    <3>3. r \in [1..(m - 1) -> T]  BY <2>0, <3>1, <3>2
    <3>. QED  BY <2>0, <3>2, <3>3
  <2>. HIDE DEF r
  <2>. DEFINE t == Append(r, s[m])
  <2>3. t \in Seq(T) /\ Len(t) = m /\ t[m] = s[m] /\ \A i \in 1..(m - 1) : t[i] = s[i]
    <3>1. Len(t) = (m - 1) + 1 /\ t[(m - 1) + 1] = s[m] /\ t \in Seq(T)  BY <2>0, <2>1, <2>2
    <3>2. \A i \in 1..(m - 1) : t[i] = r[i]  BY <2>0, <2>1, <2>2
    <3>3. (m - 1) + 1 = m  BY <1>4
    <3>. HIDE DEF t
    <3>. QED  BY <2>2, <3>1, <3>2, <3>3
  <2>. HIDE DEF t
  <2>4. \A i \in 1..m : t[i] = s[i]
    <3>1. \A i \in 1..m : i = m \/ i \in 1..(m - 1)  BY <1>4
    <3>. QED  BY <2>3, <3>1
  <2>5. t = [i \in 1..m |-> t[i]] /\ s = [i \in 1..m |-> s[i]]  BY <2>1, <2>3
  <2>6. t = s
    <3>1. [i \in 1..m |-> t[i]] = [i \in 1..m |-> s[i]]  BY <2>4
    <3>. QED  BY <2>5, <3>1
  <2>. QED  BY <2>1, <2>2, <2>6 DEF t
<1>. HIDE DEF r
<1>6. r \in Q
  <2>1. SUFFICES ASSUME r \notin Q PROVE FALSE  OBVIOUS
  <2>2. m - 1 \in U  BY <1>4, <1>5, <2>1
  <2>. QED  BY <1>2, <1>4, <2>2
<1>. QED  BY <1>3, <1>5, <1>6

(* Only, element by element.                                               *)
Selects(F, s, S, T) ==
    /\ F \in [0..Len(s) -> Seq(T)] /\ F[0] = << >>
    /\ \A i \in 1..Len(s) : F[i] = IF s[i] \in S THEN Append(F[i - 1], s[i]) ELSE F[i - 1]
    /\ Only(s, S) = F[Len(s)]

LEMMA OnlyIs ==
    ASSUME NEW T, NEW s \in Seq(T), NEW S
    PROVE  \E F : Selects(F, s, S, T)
<1>. DEFINE m == Len(s)
            R == Seq(T)
            One(i, t) == IF s[i] \in S THEN Append(t, s[i]) ELSE t
            step == [kt \in (1..m) \X R |-> One(kt[1], kt[2])]
<1>1. m \in Nat /\ \A i \in 1..m : s[i] \in T  OBVIOUS
<1>2. \A k \in 1..m : \A t \in R : step[<<k, t>>] = One(k, t) /\ One(k, t) \in R
  <2>1. \A k \in 1..m : \A t \in R : One(k, t) \in R  BY <1>1
  <2>2. \A k \in 1..m : \A t \in R : step[<<k, t>>] = One(k, t)
    <3>. HIDE DEF One, R, m
    <3>. QED  OBVIOUS
  <2>. HIDE DEF One, R, m, step
  <2>. QED  BY <2>1, <2>2
<1>3. << >> \in R  OBVIOUS
<1>. HIDE DEF step, One
<1>4. PICK F \in [0..m -> R] : F[0] = << >> /\ \A k \in 1..m : F[k] = One(k, F[k - 1])
  <2>. HIDE DEF R, m
  <2>1. Primitive(m, R, << >>, step)  BY <1>1, <1>2, <1>3 DEF Primitive
  <2>2. PICK F : IsPrimitive(F, m, R, << >>, step)  BY <2>1, PrimitiveExists
  <2>3. F \in [0..m -> R] /\ F[0] = << >> /\ \A k \in 1..m : F[k] = step[<<k, F[k - 1]>>]
    BY <2>2 DEF IsPrimitive
  <2>4. \A k \in 1..m : F[k - 1] \in R
    <3>1. \A k \in 1..m : k - 1 \in 0..m  BY <1>1
    <3>. QED  BY <2>3, <3>1
  <2>5. \A k \in 1..m : F[k] = One(k, F[k - 1])  BY <1>2, <2>3, <2>4
  <2>. QED  BY <2>3, <2>5
<1>. DEFINE Value(i, f) == IF i = 0 THEN << >>
                           ELSE IF s[i] \in S THEN Append(f[i - 1], s[i]) ELSE f[i - 1]
            only[i \in 0..Len(s)] ==
                IF i = 0 THEN << >>
                ELSE IF s[i] \in S THEN Append(only[i - 1], s[i]) ELSE only[i - 1]
<1>5. \A i \in 0..m : F[i] = Value(i, F)
  <2>1. \A i \in 0..m : i # 0 => i \in 1..m  BY <1>1
  <2>2. \A i \in 1..m : i # 0 /\ F[i] = IF s[i] \in S THEN Append(F[i - 1], s[i]) ELSE F[i - 1]
    BY <1>4 DEF One
  <2>. HIDE DEF R, m
  <2>. QED  BY <1>4, <2>1, <2>2
<1>6. F = [i \in 0..m |-> Value(i, F)]
  <2>. HIDE DEF Value, m
  <2>. QED  BY <1>4, <1>5
<1>7. only = [i \in 0..m |-> Value(i, only)]
  <2>1. \E f : f = [i \in 0..m |-> Value(i, f)]  BY <1>6
  <2>. QED  BY <2>1
<1>8. Only(s, S) = only[m]  BY DEF Only
<1>. HIDE DEF only
<1>9. \A i \in 0..m : only[i] = F[i]
  <2>. DEFINE V == {i \in Nat : i \in 0..m /\ only[i] # F[i]}
  <2>1. SUFFICES ASSUME V # {} PROVE FALSE
    <3>. HIDE DEF Value, R, m
    <3>. QED  BY <1>1
  <2>2. PICK k \in V : \A j \in V : k <= j  BY <2>1, Least
  <2>3. k \in 0..m /\ only[k] # F[k]  OBVIOUS
  <2>4. k # 0 => only[k - 1] = F[k - 1]
    <3>1. SUFFICES ASSUME k # 0, only[k - 1] # F[k - 1] PROVE FALSE  OBVIOUS
    <3>2. k - 1 \in V  BY <1>1, <2>3, <3>1
    <3>. QED  BY <2>2, <2>3, <3>2
  <2>5. only[k] = Value(k, only)
    <3>. HIDE DEF Value, R, m, V
    <3>. QED  BY <1>7, <2>3
  <2>6. F[k] = Value(k, F)
    <3>. HIDE DEF Value, R, m, V
    <3>. QED  BY <1>5, <2>3
  <2>. HIDE DEF V, R, m
  <2>. QED  BY <2>3, <2>4, <2>5, <2>6
<1>10. Selects(F, s, S, T)
  <2>1. m \in 0..m  BY <1>1
  <2>2. Only(s, S) = F[m]
    <3>. HIDE DEF R, m
    <3>. QED  BY <1>8, <1>9, <2>1
  <2>. QED  BY <1>4, <2>2 DEF One, Selects
<1>. QED  BY <1>10

LEMMA OnlyEmpty ==
    ASSUME NEW S
    PROVE  Only(<< >>, S) = << >>
<1>1. << >> \in Seq({}) /\ Len(<< >>) = 0  OBVIOUS
<1>2. PICK F : Selects(F, << >>, S, {})  BY <1>1, OnlyIs
<1>. QED  BY <1>1, <1>2 DEF Selects

Take(t, x, S) == IF x \in S THEN Append(t, x) ELSE t

LEMMA OnlyAppend ==
    ASSUME NEW T, NEW s \in Seq(T), NEW x \in T, NEW S
    PROVE  /\ Only(s, S) \in Seq(T)
           /\ Only(Append(s, x), S) = Take(Only(s, S), x, S)
<1>. DEFINE n == Len(s)
            t == Append(s, x)
<1>1. /\ n \in Nat /\ t \in Seq(T) /\ Len(t) = n + 1 /\ t[n + 1] = x
      /\ \A i \in 1..n : t[i] = s[i]
  OBVIOUS
<1>2. PICK F : /\ F \in [0..n -> Seq(T)] /\ F[0] = << >>
               /\ \A i \in 1..n : F[i] = IF s[i] \in S THEN Append(F[i - 1], s[i]) ELSE F[i - 1]
               /\ Only(s, S) = F[n]
  <2>1. PICK F : Selects(F, s, S, T)  BY OnlyIs
  <2>. QED  BY <2>1 DEF Selects
<1>. HIDE DEF t
<1>3. PICK G : /\ G \in [0..Len(t) -> Seq(T)] /\ G[0] = << >>
               /\ \A i \in 1..Len(t) :
                     G[i] = IF t[i] \in S THEN Append(G[i - 1], t[i]) ELSE G[i - 1]
               /\ Only(t, S) = G[Len(t)]
  <2>1. PICK G : Selects(G, t, S, T)  BY <1>1, OnlyIs
  <2>. QED  BY <2>1 DEF Selects
<1>. HIDE DEF n
<1>4. G[n] = F[n]
  <2>. DEFINE V == {i \in Nat : i \in 0..n /\ G[i] # F[i]}
  <2>1. SUFFICES ASSUME V # {} PROVE FALSE  BY <1>1
  <2>2. PICK k \in V : \A j \in V : k <= j  BY <2>1, Least
  <2>3. k \in 0..n /\ G[k] # F[k] /\ k # 0  BY <1>2, <1>3
  <2>4. G[k - 1] = F[k - 1]
    <3>1. SUFFICES ASSUME G[k - 1] # F[k - 1] PROVE FALSE  OBVIOUS
    <3>2. k - 1 \in V  BY <1>1, <2>3, <3>1
    <3>. QED  BY <2>2, <2>3, <3>2
  <2>. HIDE DEF V
  <2>5. k \in 1..n /\ k \in 1..Len(t) /\ t[k] = s[k]  BY <1>1, <2>3
  <2>6. F[k] = IF s[k] \in S THEN Append(F[k - 1], s[k]) ELSE F[k - 1]  BY <1>2, <2>5
  <2>7. G[k] = IF s[k] \in S THEN Append(G[k - 1], s[k]) ELSE G[k - 1]  BY <1>3, <2>5
  <2>. QED  BY <2>3, <2>4, <2>6, <2>7
<1>5. n + 1 \in 1..Len(t) /\ (n + 1) - 1 = n /\ Len(t) = n + 1  BY <1>1
<1>6. G[n + 1] = IF x \in S THEN Append(G[n], x) ELSE G[n]
  <2>1. G[n + 1] = IF t[n + 1] \in S THEN Append(G[(n + 1) - 1], t[n + 1]) ELSE G[(n + 1) - 1]
    BY <1>3, <1>5
  <2>. QED  BY <1>1, <1>5, <2>1
<1>7. F[n] \in Seq(T)  BY <1>1, <1>2
<1>8. Only(t, S) = G[n + 1]  BY <1>3, <1>5
<1>. QED  BY <1>2, <1>4, <1>6, <1>7, <1>8 DEF t, Take

LEMMA ToSetIs ==
    /\ ToSet(<< >>) = {}
    /\ \A T : \A s, t \in Seq(T) : ToSet(s \o t) = ToSet(s) \cup ToSet(t)
    /\ \A T : \A s \in Seq(T) : \A x \in T : ToSet(Append(s, x)) = ToSet(s) \cup {x}
    /\ \A T : \A s \in Seq(T) : s \in Seq(ToSet(s)) /\ ToSet(s) \subseteq T
<1>1. ToSet(<< >>) = {}  BY DEF ToSet
<1>2. ASSUME NEW T, NEW s \in Seq(T), NEW t \in Seq(T)
      PROVE  ToSet(s \o t) = ToSet(s) \cup ToSet(t)
  <2>. DEFINE u == s \o t
  <2>1. /\ Len(s) \in Nat /\ DOMAIN s = 1..Len(s) /\ Len(t) \in Nat /\ DOMAIN t = 1..Len(t)
        /\ DOMAIN u = 1..(Len(s) + Len(t))
        /\ \A i \in 1..(Len(s) + Len(t)) : u[i] = IF i <= Len(s) THEN s[i] ELSE t[i - Len(s)]
    OBVIOUS
  <2>. HIDE DEF u
  <2>2. ASSUME NEW x \in ToSet(u) PROVE x \in ToSet(s) \cup ToSet(t)
    <3>1. PICK i \in 1..(Len(s) + Len(t)) : x = u[i]  BY <2>1 DEF ToSet
    <3>2. CASE i <= Len(s)
      <4>1. i \in DOMAIN s /\ x = s[i]  BY <2>1, <3>1, <3>2
      <4>. QED  BY <4>1 DEF ToSet
    <3>3. CASE i > Len(s)
      <4>1. i - Len(s) \in DOMAIN t /\ x = t[i - Len(s)]  BY <2>1, <3>1, <3>3
      <4>. QED  BY <4>1 DEF ToSet
    <3>. QED  BY <2>1, <3>2, <3>3
  <2>3. ASSUME NEW x \in ToSet(s) PROVE x \in ToSet(u)
    <3>1. PICK i \in DOMAIN s : x = s[i]  BY DEF ToSet
    <3>2. i \in DOMAIN u /\ u[i] = x  BY <2>1, <3>1
    <3>. QED  BY <3>2 DEF ToSet
  <2>4. ASSUME NEW x \in ToSet(t) PROVE x \in ToSet(u)
    <3>1. PICK i \in DOMAIN t : x = t[i]  BY DEF ToSet
    <3>2. i + Len(s) \in DOMAIN u /\ ~ (i + Len(s) <= Len(s)) /\ (i + Len(s)) - Len(s) = i
      BY <2>1
    <3>3. u[i + Len(s)] = x  BY <2>1, <3>1, <3>2
    <3>. QED  BY <3>2, <3>3 DEF ToSet
  <2>. QED  BY <2>2, <2>3, <2>4 DEF u
<1>3. ASSUME NEW T, NEW s \in Seq(T), NEW x \in T
      PROVE  ToSet(Append(s, x)) = ToSet(s) \cup {x}
  <2>. DEFINE u == Append(s, x)
  <2>1. /\ Len(s) \in Nat /\ DOMAIN s = 1..Len(s) /\ DOMAIN u = 1..(Len(s) + 1)
        /\ u[Len(s) + 1] = x /\ \A i \in 1..Len(s) : u[i] = s[i]
    OBVIOUS
  <2>. HIDE DEF u
  <2>2. \A i \in 1..(Len(s) + 1) : i \in 1..Len(s) \/ i = Len(s) + 1  BY <2>1
  <2>3. ASSUME NEW y \in ToSet(u) PROVE y \in ToSet(s) \cup {x}
    <3>1. PICK i \in 1..(Len(s) + 1) : y = u[i]  BY <2>1 DEF ToSet
    <3>. QED  BY <2>1, <2>2, <3>1 DEF ToSet
  <2>4. ASSUME NEW y \in ToSet(s) PROVE y \in ToSet(u)
    <3>1. PICK i \in DOMAIN s : y = s[i]  BY DEF ToSet
    <3>2. i \in DOMAIN u /\ u[i] = y  BY <2>1, <3>1
    <3>. QED  BY <3>2 DEF ToSet
  <2>5. Len(s) + 1 \in DOMAIN u  BY <2>1
  <2>6. x \in ToSet(u)  BY <2>1, <2>5 DEF ToSet
  <2>. QED  BY <2>3, <2>4, <2>6 DEF u
<1>4. ASSUME NEW T, NEW s \in Seq(T) PROVE s \in Seq(ToSet(s)) /\ ToSet(s) \subseteq T
  <2>1. /\ Len(s) \in Nat /\ DOMAIN s = 1..Len(s) /\ s = [i \in 1..Len(s) |-> s[i]]
        /\ \A i \in 1..Len(s) : s[i] \in T
    OBVIOUS
  <2>2. \A i \in 1..Len(s) : s[i] \in ToSet(s)  BY <2>1 DEF ToSet
  <2>3. s \in [1..Len(s) -> ToSet(s)]  BY <2>1, <2>2
  <2>4. s \in Seq(ToSet(s))  BY <2>1, <2>3
  <2>5. ToSet(s) \subseteq T  BY <2>1 DEF ToSet
  <2>. QED  BY <2>4, <2>5
<1>. QED  BY <1>1, <1>2, <1>3, <1>4

LEMMA OnlySelects ==
    ASSUME NEW T, NEW s \in Seq(T), NEW S
    PROVE  Only(s, S) \in Seq(T) /\ ToSet(Only(s, S)) = ToSet(s) \cap S
<1>. DEFINE Q == {t \in Seq(T) : Only(t, S) \in Seq(T) /\ ToSet(Only(t, S)) = ToSet(t) \cap S}
<1>1. << >> \in Q
  <2>1. Only(<< >>, S) = << >> /\ ToSet(<< >>) = {}  BY OnlyEmpty, ToSetIs
  <2>2. << >> \in Seq(T)  OBVIOUS
  <2>3. Only(<< >>, S) \in Seq(T)  BY <2>1, <2>2
  <2>4. ToSet(Only(<< >>, S)) = ToSet(<< >>) \cap S  BY <2>1
  <2>. QED  BY <2>2, <2>3, <2>4
<1>2. ASSUME NEW t \in Q, NEW x \in T PROVE Append(t, x) \in Q
  <2>1. t \in Seq(T) /\ Append(t, x) \in Seq(T)  OBVIOUS
  <2>. DEFINE o == Only(t, S)
  <2>2. o \in Seq(T) /\ Append(o, x) \in Seq(T) /\ ToSet(o) = ToSet(t) \cap S  OBVIOUS
  <2>3. Only(Append(t, x), S) = Take(o, x, S)  BY <2>1, OnlyAppend
  <2>4. ToSet(Append(t, x)) = ToSet(t) \cup {x} /\ ToSet(Append(o, x)) = ToSet(o) \cup {x}
    BY <2>1, <2>2, ToSetIs
  <2>. HIDE DEF o
  <2>5. ToSet(Only(Append(t, x), S)) = ToSet(Append(t, x)) \cap S  BY <2>2, <2>3, <2>4 DEF Take
  <2>. QED  BY <2>1, <2>2, <2>3, <2>5 DEF Take
<1>. HIDE DEF Q
<1>3. Q = Seq(T)  BY <1>1, <1>2, AllSequences DEF Q
<1>. QED  BY <1>3 DEF Q

(* Selecting depends only on which elements are in the set.                *)
LEMMA OnlySame ==
    ASSUME NEW T, NEW s \in Seq(T), NEW R, NEW S, \A x \in ToSet(s) : x \in R <=> x \in S
    PROVE  Only(s, R) = Only(s, S)
<1>. DEFINE Q == {t \in Seq(T) : (\A x \in ToSet(t) : x \in R <=> x \in S)
                                    => Only(t, R) = Only(t, S)}
<1>1. << >> \in Q  BY OnlyEmpty
<1>2. ASSUME NEW t \in Q, NEW x \in T PROVE Append(t, x) \in Q
  <2>1. t \in Seq(T) /\ Append(t, x) \in Seq(T)  OBVIOUS
  <2>2. ToSet(Append(t, x)) = ToSet(t) \cup {x}  BY <2>1, ToSetIs
  <2>3. /\ Only(Append(t, x), R) = Take(Only(t, R), x, R)
        /\ Only(Append(t, x), S) = Take(Only(t, S), x, S)
    BY <2>1, OnlyAppend
  <2>4. ASSUME \A y \in ToSet(Append(t, x)) : y \in R <=> y \in S
        PROVE  Only(Append(t, x), R) = Only(Append(t, x), S)
    <3>1. Only(t, R) = Only(t, S) /\ (x \in R <=> x \in S)  BY <2>2, <2>4
    <3>. QED  BY <2>3, <3>1 DEF Take
  <2>. QED  BY <2>1, <2>4
<1>. HIDE DEF Q
<1>3. Q = Seq(T)  BY <1>1, <1>2, AllSequences DEF Q
<1>. QED  BY <1>3 DEF Q

LEMMA OnlyAll ==
    ASSUME NEW T, NEW s \in Seq(T), NEW S, ToSet(s) \subseteq S
    PROVE  Only(s, S) = s
<1>. DEFINE Q == {t \in Seq(T) : ToSet(t) \subseteq S => Only(t, S) = t}
<1>1. << >> \in Q  BY OnlyEmpty
<1>2. ASSUME NEW t \in Q, NEW x \in T PROVE Append(t, x) \in Q
  <2>1. t \in Seq(T) /\ Append(t, x) \in Seq(T)  OBVIOUS
  <2>2. ToSet(Append(t, x)) = ToSet(t) \cup {x}  BY <2>1, ToSetIs
  <2>3. Only(Append(t, x), S) = Take(Only(t, S), x, S)
    BY <2>1, OnlyAppend
  <2>4. ASSUME ToSet(Append(t, x)) \subseteq S PROVE Only(Append(t, x), S) = Append(t, x)
    <3>1. Only(t, S) = t /\ x \in S  BY <2>2, <2>4
    <3>. QED  BY <2>3, <3>1 DEF Take
  <2>. QED  BY <2>1, <2>4
<1>. HIDE DEF Q
<1>3. Q = Seq(T)  BY <1>1, <1>2, AllSequences DEF Q
<1>. QED  BY <1>3 DEF Q

LEMMA OnlyNone ==
    ASSUME NEW T, NEW s \in Seq(T), NEW S, ToSet(s) \cap S = {}
    PROVE  Only(s, S) = << >>
<1>1. Only(s, S) \in Seq(T) /\ ToSet(Only(s, S)) = {}  BY OnlySelects
<1>. DEFINE o == Only(s, S)
<1>2. Len(o) \in Nat /\ DOMAIN o = 1..Len(o) /\ o \in Seq(T)  BY <1>1
<1>. HIDE DEF o
<1>3. Len(o) = 0
  <2>1. SUFFICES ASSUME Len(o) # 0 PROVE FALSE  OBVIOUS
  <2>2. 1 \in DOMAIN o  BY <1>2, <2>1
  <2>3. o[1] \in ToSet(o)  BY <2>2 DEF ToSet
  <2>. QED  BY <1>1, <2>3 DEF o
<1>4. o = << >>  BY <1>2, <1>3
<1>. QED  BY <1>4 DEF o

LEMMA OnlyOnly ==
    ASSUME NEW T, NEW s \in Seq(T), NEW R, NEW S
    PROVE  Only(Only(s, R), S) = Only(s, R \cap S)
<1>. DEFINE Q == {t \in Seq(T) : Only(Only(t, R), S) = Only(t, R \cap S)}
<1>1. << >> \in Q  BY OnlyEmpty
<1>2. ASSUME NEW t \in Q, NEW x \in T PROVE Append(t, x) \in Q
  <2>1. t \in Seq(T) /\ Append(t, x) \in Seq(T) /\ Only(Only(t, R), S) = Only(t, R \cap S)
    OBVIOUS
  <2>2. Only(Append(t, x), R) = Take(Only(t, R), x, R)
    BY <2>1, OnlyAppend
  <2>3. Only(Append(t, x), R \cap S)
          = Take(Only(t, R \cap S), x, R \cap S)
    BY <2>1, OnlyAppend
  <2>4. Only(t, R) \in Seq(T)  BY <2>1, OnlyAppend
  <2>5. Only(Append(Only(t, R), x), S)
          = Take(Only(Only(t, R), S), x, S)
    BY <2>4, OnlyAppend
  <2>6. Only(Only(Append(t, x), R), S) = Only(Append(t, x), R \cap S)
    <3>1. CASE x \in R /\ x \in S  BY <2>1, <2>2, <2>3, <2>5, <3>1 DEF Take
    <3>2. CASE x \in R /\ x \notin S  BY <2>1, <2>2, <2>3, <2>5, <3>2 DEF Take
    <3>3. CASE x \notin R  BY <2>1, <2>2, <2>3, <3>3 DEF Take
    <3>. QED  BY <3>1, <3>2, <3>3
  <2>. QED  BY <2>1, <2>6
<1>. HIDE DEF Q
<1>3. Q = Seq(T)  BY <1>1, <1>2, AllSequences DEF Q
<1>. QED  BY <1>3 DEF Q

LEMMA OnlyConcat ==
    ASSUME NEW T, NEW s \in Seq(T), NEW t \in Seq(T), NEW S
    PROVE  Only(s \o t, S) = Only(s, S) \o Only(t, S)
<1>. DEFINE Q == {u \in Seq(T) : Only(s \o u, S) = Only(s, S) \o Only(u, S)}
            o == Only(s, S)
<1>1. o \in Seq(T)  BY OnlyAppend, OnlySelects
<1>2. << >> \in Q
  <2>1. s \o << >> = s /\ o \o << >> = o  BY <1>1
  <2>2. Only(<< >>, S) = << >>  BY OnlyEmpty
  <2>3. << >> \in Seq(T)  OBVIOUS
  <2>. HIDE DEF o
  <2>. QED  BY <2>1, <2>2, <2>3 DEF o
<1>3. ASSUME NEW u \in Q, NEW x \in T PROVE Append(u, x) \in Q
  <2>1. u \in Seq(T) /\ s \o u \in Seq(T) /\ Append(u, x) \in Seq(T)
        /\ Only(s \o u, S) = o \o Only(u, S)
    OBVIOUS
  <2>2. s \o Append(u, x) = Append(s \o u, x)  BY <2>1
  <2>3. Only(u, S) \in Seq(T)  BY <2>1, OnlySelects
  <2>4. Only(Append(u, x), S) = Take(Only(u, S), x, S)
    BY <2>1, OnlyAppend
  <2>5. Only(Append(s \o u, x), S)
          = Take(Only(s \o u, S), x, S)
    BY <2>1, OnlyAppend
  <2>6. o \o Append(Only(u, S), x) = Append(o \o Only(u, S), x)
    <3>1. \A v, w \in Seq(T) : v \o Append(w, x) = Append(v \o w, x)  OBVIOUS
    <3>. HIDE DEF o
    <3>. QED  BY <1>1, <2>3, <3>1
  <2>. HIDE DEF o
  <2>7. Only(s \o Append(u, x), S) = o \o Only(Append(u, x), S)
    <3>1. CASE x \in S  BY <2>1, <2>2, <2>4, <2>5, <2>6, <3>1 DEF Take
    <3>2. CASE x \notin S  BY <2>1, <2>2, <2>4, <2>5, <3>2 DEF Take
    <3>. QED  BY <3>1, <3>2
  <2>. QED  BY <2>1, <2>7 DEF o
<1>. HIDE DEF Q
<1>4. Q = Seq(T)  BY <1>2, <1>3, AllSequences DEF Q
<1>. QED  BY <1>4 DEF Q

-----------------------------------------------------------------------------
(* Datastore properties.                                                   *)

(* The properties whose names begin with n, and what they are parsed to.   *)
Named(props, n) == Only(props, {p \in ToSet(props) : p.name[1] = n})

Parsed(ps) ==
    IF Len(ps[1].name) = 2 THEN [i \in DOMAIN ps |-> [ps[i] EXCEPT !.name = Tail(@)]]
    ELSE IF ps[1].multiple THEN [i \in DOMAIN ps |-> ps[i].value]
    ELSE Last(ps).value

LEMMA ParsePropsIs ==
    ASSUME NEW props, NEW n
    PROVE  /\ n \in DOMAIN ParseProps(props) <=> \E p \in ToSet(props) : p.name[1] = n
           /\ n \in DOMAIN ParseProps(props) => ParseProps(props)[n] = Parsed(Named(props, n))
<1>. DEFINE S == {props[i].name[1] : i \in DOMAIN props}
<1>1. ParseProps(props) = [k \in S |-> Parsed(Named(props, k))]  BY DEF ParseProps, Parsed, Named
<1>2. n \in S <=> \E p \in ToSet(props) : p.name[1] = n  BY DEF ToSet
<1>. HIDE DEF S
<1>. QED  BY <1>1, <1>2

LEMMA NamedIs ==
    ASSUME NEW T, NEW s \in Seq(T), NEW n
    PROVE  /\ Named(s, n) \in Seq(T)
           /\ ToSet(Named(s, n)) = {p \in ToSet(s) : p.name[1] = n}
BY OnlySelects DEF Named

LEMMA NamedAll ==
    ASSUME NEW T, NEW s \in Seq(T), NEW n, \A p \in ToSet(s) : p.name[1] = n
    PROVE  Named(s, n) = s
<1>1. ToSet(s) \subseteq {p \in ToSet(s) : p.name[1] = n}  OBVIOUS
<1>. QED  BY <1>1, OnlyAll DEF Named

LEMMA NamedNone ==
    ASSUME NEW T, NEW s \in Seq(T), NEW n, \A p \in ToSet(s) : p.name[1] # n
    PROVE  Named(s, n) = << >>
<1>1. ToSet(s) \cap {p \in ToSet(s) : p.name[1] = n} = {}  OBVIOUS
<1>. QED  BY <1>1, OnlyNone DEF Named

LEMMA NamedConcat ==
    ASSUME NEW T, NEW s \in Seq(T), NEW t \in Seq(T), NEW n
    PROVE  Named(s \o t, n) = Named(s, n) \o Named(t, n)
<1>. DEFINE R == {p \in ToSet(s \o t) : p.name[1] = n}
<1>1. s \o t \in Seq(T) /\ ToSet(s \o t) = ToSet(s) \cup ToSet(t)  BY ToSetIs
<1>2. Named(s \o t, n) = Only(s, R) \o Only(t, R)  BY OnlyConcat DEF Named
<1>3. Only(s, R) = Named(s, n)
  <2>1. \A x \in ToSet(s) : x \in R <=> x \in {p \in ToSet(s) : p.name[1] = n}  BY <1>1
  <2>. HIDE DEF R
  <2>. QED  BY <2>1, OnlySame DEF Named
<1>4. Only(t, R) = Named(t, n)
  <2>1. \A x \in ToSet(t) : x \in R <=> x \in {p \in ToSet(t) : p.name[1] = n}  BY <1>1
  <2>. HIDE DEF R
  <2>. QED  BY <2>1, OnlySame DEF Named
<1>. QED  BY <1>2, <1>3, <1>4

(* What the datastore gives back has the same properties, and those of one *)
(* name have the same order.                                               *)
Rearranged(d, s, T) ==
    /\ d \in Seq(T) /\ ToSet(d) = ToSet(s)
    /\ \A n, k : (\A p \in ToSet(s) : p.name[1] = n => p.name = k) => Named(d, n) = Named(s, n)

LEMMA LastOfRearranges ==
    ASSUME NEW T, NEW s \in Seq(T), NEW name
    PROVE  Rearranged(LastOf(name, s), s, T)
<1>. DEFINE N == {p \in ToSet(s) : p.name = name}
            M == ToSet(s) \ N
            d == LastOf(name, s)
<1>1. d = Only(s, M) \o Only(s, N)  BY DEF LastOf
<1>2. /\ Only(s, M) \in Seq(T) /\ ToSet(Only(s, M)) = ToSet(s) \cap M
      /\ Only(s, N) \in Seq(T) /\ ToSet(Only(s, N)) = ToSet(s) \cap N
  BY OnlySelects
<1>3. d \in Seq(T)  BY <1>1, <1>2
<1>4. ToSet(d) = ToSet(Only(s, M)) \cup ToSet(Only(s, N))
  <2>1. Only(s, M) \in Seq(T) /\ Only(s, N) \in Seq(T)  BY <1>2
  <2>. HIDE DEF M, N, d
  <2>. QED  BY <1>1, <2>1, ToSetIs
<1>5. ToSet(d) = ToSet(s)  BY <1>2, <1>4
<1>6. ASSUME NEW n, NEW k, \A p \in ToSet(s) : p.name[1] = n => p.name = k
      PROVE  Named(d, n) = Named(s, n)
  <2>. DEFINE R == {p \in ToSet(s) : p.name[1] = n}
  <2>1. Named(d, n) = Only(d, R)  BY <1>5 DEF Named
  <2>2. Named(s, n) = Only(s, R)  BY DEF Named
  <2>3. CASE k = name
    <3>1. R \cap N = R /\ M \cap R = {} /\ N \cap R = R  BY <1>6, <2>3
    <3>. HIDE DEF R, M, N, d
    <3>0. Only(s, M) \in Seq(T) /\ Only(s, N) \in Seq(T)  BY <1>2
    <3>2. Only(d, R) = Only(Only(s, M), R) \o Only(Only(s, N), R)
      <4>1. Only(Only(s, M) \o Only(s, N), R) = Only(Only(s, M), R) \o Only(Only(s, N), R)
        <5>1. \A u, v \in Seq(T) : Only(u \o v, R) = Only(u, R) \o Only(v, R)  BY OnlyConcat
        <5>. QED  BY ONLY <3>0, <5>1
      <4>. QED  BY <1>1, <4>1
    <3>3. Only(Only(s, M), R) = Only(s, {})  BY <3>1, OnlyOnly
    <3>4. Only(Only(s, N), R) = Only(s, R)  BY <3>1, OnlyOnly
    <3>5. Only(s, {}) = << >>
      <4>1. ToSet(s) \cap {} = {}  OBVIOUS
      <4>. QED  BY <4>1, OnlyNone
    <3>6. Only(s, R) \in Seq(T)  BY OnlySelects
    <3>7. << >> \o Only(s, R) = Only(s, R)  BY <3>6
    <3>. QED  BY <2>1, <2>2, <3>2, <3>3, <3>4, <3>5, <3>7
  <2>4. CASE k # name
    <3>1. M \cap R = R /\ N \cap R = {}  BY <1>6, <2>4
    <3>. HIDE DEF R, M, N, d
    <3>0. Only(s, M) \in Seq(T) /\ Only(s, N) \in Seq(T)  BY <1>2
    <3>2. Only(d, R) = Only(Only(s, M), R) \o Only(Only(s, N), R)
      <4>1. Only(Only(s, M) \o Only(s, N), R) = Only(Only(s, M), R) \o Only(Only(s, N), R)
        <5>1. \A u, v \in Seq(T) : Only(u \o v, R) = Only(u, R) \o Only(v, R)  BY OnlyConcat
        <5>. QED  BY ONLY <3>0, <5>1
      <4>. QED  BY <1>1, <4>1
    <3>3. Only(Only(s, M), R) = Only(s, R)  BY <3>1, OnlyOnly
    <3>4. Only(Only(s, N), R) = Only(s, {})  BY <3>1, OnlyOnly
    <3>5. Only(s, {}) = << >>
      <4>1. ToSet(s) \cap {} = {}  OBVIOUS
      <4>. QED  BY <4>1, OnlyNone
    <3>6. Only(s, R) \in Seq(T)  BY OnlySelects
    <3>7. Only(s, R) \o << >> = Only(s, R)  BY <3>6
    <3>. QED  BY <2>1, <2>2, <3>2, <3>3, <3>4, <3>5, <3>7
  <2>. QED  BY <2>3, <2>4
<1>. HIDE DEF d
<1>7. Rearranged(d, s, T)  BY <1>3, <1>5, <1>6 DEF Rearranged
<1>. QED  BY <1>7 DEF d

(* Single values: the last of them is taken, and there is one.             *)
Prop(c, v) == [name |-> <<c>>, multiple |-> FALSE, value |-> v]

LEMMA PropIs ==
    \A c, v : /\ Prop(c, v).name = <<c>> /\ Prop(c, v).name[1] = c /\ Len(Prop(c, v).name) = 1
              /\ Prop(c, v).multiple = FALSE /\ Prop(c, v).value = v
              /\ P(c, v) = <<Prop(c, v)>>
BY DEF Prop, P

LEMMA SingleValue ==
    ASSUME NEW T, NEW d \in Seq(T), NEW n, NEW v, Prop(n, v) \in ToSet(d),
           \A p \in ToSet(d) : p.name[1] = n => p = Prop(n, v)
    PROVE  n \in DOMAIN ParseProps(d) /\ ParseProps(d)[n] = v
<1>. DEFINE g == Named(d, n)
            e == Prop(n, v)
<1>1. e.name[1] = n /\ Len(e.name) = 1 /\ e.multiple = FALSE /\ e.value = v  BY PropIs
<1>2. g \in Seq(T) /\ ToSet(g) = {p \in ToSet(d) : p.name[1] = n}  BY NamedIs
<1>3. e \in ToSet(g) /\ \A p \in ToSet(g) : p = e  BY <1>1, <1>2
<1>4. n \in DOMAIN ParseProps(d) /\ ParseProps(d)[n] = Parsed(g)
  <2>1. n \in DOMAIN ParseProps(d)  BY <1>1, ParsePropsIs
  <2>. QED  BY <2>1, ParsePropsIs
<1>. HIDE DEF g, e
<1>5. Len(g) \in Nat /\ DOMAIN g = 1..Len(g)  BY <1>2
<1>6. PICK i \in DOMAIN g : g[i] = e  BY <1>3 DEF ToSet
<1>7. 1 \in DOMAIN g /\ Len(g) \in DOMAIN g  BY <1>5, <1>6
<1>8. g[1] = e /\ g[Len(g)] = e  BY <1>3, <1>7 DEF ToSet
<1>9. Len(g[1].name) # 2 /\ ~ g[1].multiple /\ Last(g).value = v  BY <1>1, <1>8 DEF Last
<1>10. Parsed(g) = v  BY <1>9 DEF Parsed
<1>. QED  BY <1>4, <1>10

(* Lists: all values are taken, in their order.                            *)
Part(c, v) == [name |-> <<c>>, multiple |-> TRUE, value |-> v]

LEMMA PartIs ==
    \A c, v : /\ Part(c, v).name = <<c>> /\ Part(c, v).name[1] = c /\ Len(Part(c, v).name) = 1
              /\ Part(c, v).multiple = TRUE /\ Part(c, v).value = v
BY DEF Part

LEMMA ListValue ==
    ASSUME NEW T, NEW d \in Seq(T), NEW n, NEW vs, NEW m \in Nat,
           vs = [i \in 1..m |-> vs[i]], m # 0, Named(d, n) = [i \in 1..m |-> Part(n, vs[i])]
    PROVE  n \in DOMAIN ParseProps(d) /\ ParseProps(d)[n] = vs
<1>. DEFINE g == Named(d, n)
<1>1. g \in Seq(T) /\ ToSet(g) = {p \in ToSet(d) : p.name[1] = n}
  <2>1. d \in Seq(T)  OBVIOUS
  <2>. QED  BY ONLY <2>1, NamedIs DEF g
<1>2. DOMAIN g = 1..m /\ \A i \in 1..m : g[i] = Part(n, vs[i])  OBVIOUS
<1>. HIDE DEF g
<1>3. 1 \in 1..m  OBVIOUS
<1>4. g[1] \in ToSet(g)  BY <1>2, <1>3 DEF ToSet
<1>5. n \in DOMAIN ParseProps(d) /\ ParseProps(d)[n] = Parsed(g)
  <2>1. n \in DOMAIN ParseProps(d)  BY <1>1, <1>4, ParsePropsIs
  <2>. QED  BY <2>1, ParsePropsIs DEF g
<1>6. Len(g[1].name) = 1 /\ g[1].multiple = TRUE  BY <1>2, <1>3, PartIs
<1>7. Parsed(g) = [i \in 1..m |-> g[i].value]  BY <1>2, <1>6 DEF Parsed
<1>8. \A i \in 1..m : g[i].value = vs[i]  BY <1>2, PartIs
<1>9. Parsed(g) = [i \in 1..m |-> vs[i]]  BY <1>7, <1>8
<1>. QED  BY <1>5, <1>9

LEMMA NoValue ==
    ASSUME NEW T, NEW d \in Seq(T), NEW n, Named(d, n) = << >>
    PROVE  n \notin DOMAIN ParseProps(d)
<1>1. ToSet(Named(d, n)) = {p \in ToSet(d) : p.name[1] = n}  BY NamedIs
<1>2. {p \in ToSet(d) : p.name[1] = n} = {}  BY <1>1, ToSetIs
<1>. QED  BY <1>2, ParsePropsIs

-----------------------------------------------------------------------------
(* The properties of an object.                                            *)

(* The properties of a signature have two components, of which the first   *)
(* is the same; stripped of it, each is of one name.                       *)
Sub(k, c, v) == [name |-> <<k, c>>, multiple |-> FALSE, value |-> v]

Subs(k, s) ==
    {Sub(k, "Name", s.name), Sub(k, "Email", s.email), Sub(k, "Date", s.unix),
     Sub(k, "TZ", s.offset)}

Props(s) ==
    {Prop("Name", s.name), Prop("Email", s.email), Prop("Date", s.unix), Prop("TZ", s.offset)}

LEMMA NewName ==
    \A n, b, v, m : [[name |-> n, multiple |-> b, value |-> v] EXCEPT !.name = m]
                      = [name |-> m, multiple |-> b, value |-> v]
OBVIOUS

LEMMA TailOfTwo ==
    ASSUME NEW k, NEW c
    PROVE  Tail(<<k, c>>) = <<c>> /\ <<k>> \o <<c>> = <<k, c>>
<1>. DEFINE s == <<k, c>>
            t == Tail(s)
            u == <<k>> \o <<c>>
<1>1. s \in Seq({k, c}) /\ Len(s) = 2 /\ s[1] = k /\ s[2] = c  OBVIOUS
<1>2. u \in Seq({k, c}) /\ Len(u) = 2 /\ u[1] = k /\ u[2] = c
  <2>1. <<k>> \in Seq({k, c}) /\ <<c>> \in Seq({k, c}) /\ Len(<<k>>) = 1 /\ Len(<<c>>) = 1
        /\ <<k>>[1] = k /\ <<c>>[1] = c
    OBVIOUS
  <2>. QED  BY <2>1
<1>. HIDE DEF s, u
<1>3. t \in Seq({k, c}) /\ Len(t) = 1 /\ t[1] = s[2]  BY <1>1
<1>. HIDE DEF t
<1>4. t = [i \in 1..1 |-> t[i]]  BY <1>3
<1>5. t = <<c>>  BY <1>1, <1>3, <1>4
<1>6. s = u
  <2>1. s = [i \in 1..2 |-> s[i]] /\ u = [i \in 1..2 |-> u[i]]  BY <1>1, <1>2
  <2>2. \A i \in 1..2 : s[i] = u[i]
    <3>1. \A i \in 1..2 : i = 1 \/ i = 2  OBVIOUS
    <3>. QED  BY <1>1, <1>2, <3>1
  <2>3. [i \in 1..2 |-> s[i]] = [i \in 1..2 |-> u[i]]  BY <2>2
  <2>. QED  BY <2>1, <2>3
<1>. QED  BY <1>5, <1>6 DEF s, t, u

LEMMA SubIs ==
    \A k, c, v : /\ Sub(k, c, v).name[1] = k /\ Len(Sub(k, c, v).name) = 2
                 /\ [Sub(k, c, v) EXCEPT !.name = Tail(@)] = Prop(c, v)
                 /\ [Prop(c, v) EXCEPT !.name = <<k>> \o @] = Sub(k, c, v)
<1>. TAKE k, c, v
<1>1. Sub(k, c, v).name = <<k, c>> /\ Prop(c, v).name = <<c>>  BY DEF Sub, Prop
<1>2. Sub(k, c, v).name[1] = k /\ Len(Sub(k, c, v).name) = 2  BY <1>1
<1>. DEFINE no == FALSE
<1>3. Sub(k, c, v) = [name |-> <<k, c>>, multiple |-> no, value |-> v]  BY DEF Sub
<1>4. Prop(c, v) = [name |-> <<c>>, multiple |-> no, value |-> v]  BY DEF Prop
<1>. HIDE DEF no
<1>5. [Sub(k, c, v) EXCEPT !.name = Tail(@)] = Prop(c, v)
  <2>1. [Sub(k, c, v) EXCEPT !.name = Tail(@)]
          = [[name |-> <<k, c>>, multiple |-> no, value |-> v] EXCEPT !.name = <<c>>]
    BY <1>1, <1>3, TailOfTwo
  <2>2. [[name |-> <<k, c>>, multiple |-> no, value |-> v] EXCEPT !.name = <<c>>]
          = [name |-> <<c>>, multiple |-> no, value |-> v]
    BY NewName
  <2>. QED  BY <1>4, <2>1, <2>2
<1>6. [Prop(c, v) EXCEPT !.name = <<k>> \o @] = Sub(k, c, v)
  <2>1. [Prop(c, v) EXCEPT !.name = <<k>> \o @]
          = [[name |-> <<c>>, multiple |-> no, value |-> v] EXCEPT !.name = <<k, c>>]
    BY <1>1, <1>4, TailOfTwo
  <2>2. [[name |-> <<c>>, multiple |-> no, value |-> v] EXCEPT !.name = <<k, c>>]
          = [name |-> <<k, c>>, multiple |-> no, value |-> v]
    BY NewName
  <2>. QED  BY <1>3, <2>1, <2>2
<1>. QED  BY <1>2, <1>5, <1>6

Joined(t, s, x, T) ==
    /\ t \in Seq(T) /\ Len(t) = Len(s) + 1 /\ t[Len(s) + 1] = x
    /\ \A i \in 1..Len(s) : t[i] = s[i]

LEMMA OneJoined == \A T : \A s \in Seq(T) : \A x \in T : Joined(s \o <<x>>, s, x, T)
<1>. TAKE T
<1>. TAKE s \in Seq(T)
<1>. TAKE x \in T
<1>1. Len(s) \in Nat /\ <<x>> \in Seq(T) /\ Len(<<x>>) = 1 /\ <<x>>[1] = x  OBVIOUS
<1>. QED  BY <1>1 DEF Joined

Four(q, a, b, c, d) ==
    /\ q \in Seq({a, b, c, d}) /\ DOMAIN q = 1..4
    /\ q[1] = a /\ q[2] = b /\ q[3] = c /\ q[4] = d

LEMMA FourJoined ==
    ASSUME NEW a, NEW b, NEW c, NEW d
    PROVE  Four(<<a>> \o <<b>> \o <<c>> \o <<d>>, a, b, c, d)
<1>. DEFINE S == {a, b, c, d}
            p == <<a>>
            r == p \o <<b>>
            s == r \o <<c>>
            t == s \o <<d>>
<1>1. a \in S /\ b \in S /\ c \in S /\ d \in S  OBVIOUS
<1>. HIDE DEF S
<1>2. p \in Seq(S) /\ Len(p) = 1 /\ p[1] = a  BY <1>1
<1>. HIDE DEF p
<1>3. r \in Seq(S) /\ Len(r) = 2 /\ r[1] = a /\ r[2] = b
  <2>1. Joined(r, p, b, S)  BY <1>1, <1>2, OneJoined
  <2>. HIDE DEF r
  <2>. QED  BY <1>2, <2>1 DEF Joined
<1>. HIDE DEF r
<1>4. s \in Seq(S) /\ Len(s) = 3 /\ s[1] = a /\ s[2] = b /\ s[3] = c
  <2>1. Joined(s, r, c, S)  BY <1>1, <1>3, OneJoined
  <2>. HIDE DEF s
  <2>. QED  BY <1>3, <2>1 DEF Joined
<1>. HIDE DEF s
<1>5. t \in Seq(S) /\ Len(t) = 4 /\ t[1] = a /\ t[2] = b /\ t[3] = c /\ t[4] = d
  <2>1. Joined(t, s, d, S)  BY <1>1, <1>4, OneJoined
  <2>. HIDE DEF t
  <2>. QED  BY <1>4, <2>1 DEF Joined
<1>. HIDE DEF t
<1>6. DOMAIN t = 1..4  BY <1>5
<1>7. Four(t, a, b, c, d)  BY <1>5, <1>6 DEF S, Four
<1>. QED  BY <1>7 DEF p, r, s, t

LEMMA SubsNamed ==
    ASSUME NEW k, NEW s
    PROVE  \A p \in Subs(k, s) : p.name[1] = k /\ Len(p.name) = 2
BY SubIs DEF Subs

LEMMA SavedSignature ==
    ASSUME NEW k, NEW s, NEW T, Subs(k, s) \subseteq T
    PROVE  /\ PrefixProps(k, SaveSignature(s)) \in Seq(T)
           /\ ToSet(PrefixProps(k, SaveSignature(s))) = Subs(k, s)
<1>. DEFINE a == Prop("Name", s.name)
            b == Prop("Email", s.email)
            c == Prop("Date", s.unix)
            d == Prop("TZ", s.offset)
            q == SaveSignature(s)
            r == PrefixProps(k, q)
<1>1. DOMAIN q = 1..4 /\ q[1] = a /\ q[2] = b /\ q[3] = c /\ q[4] = d
  <2>1. q = <<a>> \o <<b>> \o <<c>> \o <<d>>  BY PropIs DEF SaveSignature
  <2>. HIDE DEF a, b, c, d, q
  <2>2. Four(q, a, b, c, d)  BY <2>1, FourJoined
  <2>. QED  BY <2>2 DEF Four
<1>2. r = [i \in 1..4 |-> [q[i] EXCEPT !.name = <<k>> \o @]]
  <2>1. DOMAIN q = 1..4  BY <1>1
  <2>. QED  BY <2>1 DEF PrefixProps
<1>3. \A i \in 1..4 : r[i] = [q[i] EXCEPT !.name = <<k>> \o @]
  <2>. HIDE DEF q, r
  <2>. QED  BY <1>2
<1>. HIDE DEF q, r
<1>4. /\ r[1] = Sub(k, "Name", s.name) /\ r[2] = Sub(k, "Email", s.email)
      /\ r[3] = Sub(k, "Date", s.unix) /\ r[4] = Sub(k, "TZ", s.offset)
  <2>1. r[1] = Sub(k, "Name", s.name)
    <3>1. 1 \in 1..4 /\ r[1] = [a EXCEPT !.name = <<k>> \o @]  BY <1>1, <1>3
    <3>. QED  BY <3>1, SubIs
  <2>2. r[2] = Sub(k, "Email", s.email)
    <3>1. 2 \in 1..4 /\ r[2] = [b EXCEPT !.name = <<k>> \o @]  BY <1>1, <1>3
    <3>. QED  BY <3>1, SubIs
  <2>3. r[3] = Sub(k, "Date", s.unix)
    <3>1. 3 \in 1..4 /\ r[3] = [c EXCEPT !.name = <<k>> \o @]  BY <1>1, <1>3
    <3>. QED  BY <3>1, SubIs
  <2>4. r[4] = Sub(k, "TZ", s.offset)
    <3>1. 4 \in 1..4 /\ r[4] = [d EXCEPT !.name = <<k>> \o @]
      <4>. HIDE DEF d
      <4>. QED  BY <1>1, <1>3
    <3>. QED  BY <3>1, SubIs
  <2>. QED  BY <2>1, <2>2, <2>3, <2>4
<1>5. DOMAIN r = 1..4 /\ r = [i \in 1..4 |-> r[i]]  BY <1>2
<1>6. \A i \in 1..4 : i = 1 \/ i = 2 \/ i = 3 \/ i = 4  OBVIOUS
<1>7. ToSet(r) = {r[1], r[2], r[3], r[4]}
  <2>1. 1 \in 1..4 /\ 2 \in 1..4 /\ 3 \in 1..4 /\ 4 \in 1..4  OBVIOUS
  <2>2. DOMAIN r = 1..4  BY <1>5
  <2>. QED  BY <1>6, <2>1, <2>2 DEF ToSet
<1>8. ToSet(r) = Subs(k, s)  BY <1>4, <1>7 DEF Subs
<1>9. \A i \in 1..4 : r[i] \in T  BY <1>4, <1>6 DEF Subs
<1>10. r \in Seq(T)  BY <1>5, <1>9
<1>. QED  BY <1>8, <1>10 DEF r, q

LEMMA SignatureValue ==
    ASSUME NEW s \in Signature, NEW k, NEW T, NEW d \in Seq(T), Subs(k, s) \subseteq ToSet(d),
           \A p \in ToSet(d) : p.name[1] = k => p \in Subs(k, s)
    PROVE  k \in DOMAIN ParseProps(d) /\ LoadSignature(ParseProps(d)[k]) = s
<1>. DEFINE g == Named(d, k)
            strip(p) == [p EXCEPT !.name = Tail(@)]
            h == [i \in DOMAIN g |-> strip(g[i])]
<1>1. g \in Seq(T) /\ ToSet(g) = {p \in ToSet(d) : p.name[1] = k}  BY NamedIs
<1>2. ToSet(g) = Subs(k, s)  BY <1>1, SubsNamed
<1>3. DOMAIN g = 1..Len(g) /\ Len(g) \in Nat  BY <1>1
<1>. HIDE DEF g
<1>4. Sub(k, "Name", s.name) \in ToSet(g)  BY <1>2 DEF Subs
<1>5. 1 \in DOMAIN g
  <2>1. PICK i \in DOMAIN g : g[i] = Sub(k, "Name", s.name)  BY <1>4 DEF ToSet
  <2>. QED  BY <1>3, <2>1
<1>6. \A i \in DOMAIN g : g[i] \in Subs(k, s)  BY <1>2 DEF ToSet
<1>7. k \in DOMAIN ParseProps(d) /\ ParseProps(d)[k] = h
  <2>1. k \in DOMAIN ParseProps(d)
    <3>1. Sub(k, "Name", s.name) \in ToSet(d) /\ Sub(k, "Name", s.name).name[1] = k
      BY <1>2, <1>4, SubIs
    <3>. QED  BY <3>1, ParsePropsIs
  <2>2. ParseProps(d)[k] = Parsed(g)  BY <2>1, ParsePropsIs DEF g
  <2>3. Len(g[1].name) = 2  BY <1>5, <1>6, SubsNamed
  <2>4. Parsed(g) = h  BY <2>3 DEF Parsed
  <2>. QED  BY <2>1, <2>2, <2>4
<1>8. /\ strip(Sub(k, "Name", s.name)) = Prop("Name", s.name)
      /\ strip(Sub(k, "Email", s.email)) = Prop("Email", s.email)
      /\ strip(Sub(k, "Date", s.unix)) = Prop("Date", s.unix)
      /\ strip(Sub(k, "TZ", s.offset)) = Prop("TZ", s.offset)
  BY SubIs
<1>. HIDE DEF strip
<1>9. \A p \in Subs(k, s) : strip(p) \in Props(s)  BY <1>8 DEF Subs, Props
<1>10. h \in Seq(Props(s))
  <2>1. h \in [1..Len(g) -> Props(s)]  BY <1>3, <1>6, <1>9
  <2>. QED  BY <1>3, <2>1
<1>11. ToSet(h) = Props(s)
  <2>1. ToSet(h) \subseteq Props(s)  BY <1>10, ToSetIs
  <2>2. \A p \in Subs(k, s) : strip(p) \in ToSet(h)
    <3>1. TAKE p \in Subs(k, s)
    <3>2. PICK i \in DOMAIN g : g[i] = p  BY <1>2 DEF ToSet
    <3>. QED  BY <3>2 DEF ToSet
  <2>3. \A p \in Props(s) : \E o \in Subs(k, s) : p = strip(o)  BY <1>8 DEF Subs, Props
  <2>. QED  BY <2>1, <2>2, <2>3
<1>. HIDE DEF h
<1>12. /\ Prop("Name", s.name).name[1] = "Name" /\ Prop("Email", s.email).name[1] = "Email"
       /\ Prop("Date", s.unix).name[1] = "Date" /\ Prop("TZ", s.offset).name[1] = "TZ"
  BY PropIs
<1>13. ParseProps(h)["Name"] = s.name
  <2>1. \A p \in Props(s) : p.name[1] = "Name" => p = Prop("Name", s.name)
    BY <1>12 DEF Props
  <2>2. Prop("Name", s.name) \in Props(s)  BY DEF Props
  <2>. QED  BY <1>10, <1>11, <2>1, <2>2, SingleValue
<1>14. ParseProps(h)["Email"] = s.email
  <2>1. \A p \in Props(s) : p.name[1] = "Email" => p = Prop("Email", s.email)
    BY <1>12 DEF Props
  <2>2. Prop("Email", s.email) \in Props(s)  BY DEF Props
  <2>. QED  BY <1>10, <1>11, <2>1, <2>2, SingleValue
<1>15. ParseProps(h)["Date"] = s.unix
  <2>1. \A p \in Props(s) : p.name[1] = "Date" => p = Prop("Date", s.unix)
    BY <1>12 DEF Props
  <2>2. Prop("Date", s.unix) \in Props(s)  BY DEF Props
  <2>. QED  BY <1>10, <1>11, <2>1, <2>2, SingleValue
<1>16. ParseProps(h)["TZ"] = s.offset
  <2>1. \A p \in Props(s) : p.name[1] = "TZ" => p = Prop("TZ", s.offset)
    BY <1>12 DEF Props
  <2>2. Prop("TZ", s.offset) \in Props(s)  BY DEF Props
  <2>. QED  BY <1>10, <1>11, <2>1, <2>2, SingleValue
<1>17. LoadSignature(h) = s
  <2>1. s = [name |-> s.name, email |-> s.email, unix |-> s.unix, offset |-> s.offset]
    BY DEF Signature
  <2>. QED  BY <1>13, <1>14, <1>15, <1>16, <2>1 DEF LoadSignature
<1>. QED  BY <1>7, <1>17

LEMMA BothJoined ==
    \A T : \A s, t \in Seq(T) :
        /\ s \o t \in Seq(T) /\ ToSet(s \o t) = ToSet(s) \cup ToSet(t)
        /\ \A n : Named(s \o t, n) = Named(s, n) \o Named(t, n)
BY ToSetIs, NamedConcat

LEMMA OneIs ==
    \A c, v : \A T : Prop(c, v) \in T => P(c, v) \in Seq(T) /\ ToSet(P(c, v)) = {Prop(c, v)}
<1>. TAKE c, v
<1>. TAKE T
<1>. HAVE Prop(c, v) \in T
<1>1. P(c, v) = <<Prop(c, v)>>  BY PropIs
<1>2. \A x : x \in T => <<x>> \in Seq(T) /\ ToSet(<<x>>) = {x}
  <2>1. \A x : DOMAIN <<x>> = {1} /\ <<x>>[1] = x  OBVIOUS
  <2>2. \A x : ToSet(<<x>>) = {x}  BY <2>1 DEF ToSet
  <2>3. \A x : x \in T => <<x>> \in Seq(T)  OBVIOUS
  <2>. QED  BY <2>2, <2>3
<1>. QED  BY <1>1, <1>2

LEMMA BlobIsLoaded ==
    ASSUME NEW b \in Blob
    PROVE  /\ \E T : Save(b) \in Seq(T)
           /\ \A T, d : Rearranged(d, Save(b), T) => Load("blob", d) = Got(b)
<1>. DEFINE e == Prop("Contents", b.contents)
<1>1. b = [type |-> "blob", contents |-> b.contents] /\ b.type = "blob"  BY DEF Blob
<1>2. Save(b) = P("Contents", b.contents)  BY <1>1 DEF Save
<1>3. Save(b) \in Seq({e}) /\ ToSet(Save(b)) = {e}  BY <1>2, OneIs
<1>4. ASSUME NEW T, NEW d, Rearranged(d, Save(b), T) PROVE Load("blob", d) = Got(b)
  <2>1. d \in Seq(T) /\ ToSet(d) = {e}  BY <1>3, <1>4 DEF Rearranged
  <2>2. ParseProps(d)["Contents"] = b.contents  BY <2>1, SingleValue
  <2>. QED  BY <1>1, <2>2 DEF Load, LoadBlob
<1>. QED  BY <1>3, <1>4

(* What Load makes of a tag.                                               *)
Kept(t) == IF t.of = "" THEN Failed ELSE Got(t)

LEMMA TagIsLoaded ==
    ASSUME NEW t \in Tag
    PROVE  /\ \E T : Save(t) \in Seq(T)
           /\ \A T, d : Rearranged(d, Save(t), T) => Load("tag", d) = Kept(t)
<1>. DEFINE one == {Prop("Object", t.object), Prop("Type", t.of), Prop("Tag", t.tag),
                    Prop("Message", t.message)}
            all == one \cup Subs("Tagger", t.tagger)
            a == P("Object", t.object)
            b == P("Type", t.of)
            c == P("Tag", t.tag)
            m == P("Message", t.message)
            g == PrefixProps("Tagger", SaveSignature(t.tagger))
<1>1. /\ t = [type |-> "tag", object |-> t.object, of |-> t.of, tag |-> t.tag,
              tagger |-> t.tagger, message |-> t.message]
      /\ t.type = "tag" /\ t.tagger \in Signature
      /\ t.of \in Type <=> t.of # ""
  BY DEF Tag, Type
<1>2. Save(t) = a \o b \o c \o m \o g  BY <1>1 DEF Save
<1>3. /\ a \in Seq(all) /\ b \in Seq(all) /\ c \in Seq(all) /\ m \in Seq(all)
      /\ ToSet(a) \cup ToSet(b) \cup ToSet(c) \cup ToSet(m) = one
  <2>1. a \in Seq(all) /\ ToSet(a) = {Prop("Object", t.object)}  BY OneIs
  <2>2. b \in Seq(all) /\ ToSet(b) = {Prop("Type", t.of)}  BY OneIs
  <2>3. c \in Seq(all) /\ ToSet(c) = {Prop("Tag", t.tag)}  BY OneIs
  <2>4. m \in Seq(all) /\ ToSet(m) = {Prop("Message", t.message)}  BY OneIs
  <2>. HIDE DEF a, b, c, m, all
  <2>. QED  BY <2>1, <2>2, <2>3, <2>4
<1>4. g \in Seq(all) /\ ToSet(g) = Subs("Tagger", t.tagger)
  <2>1. Subs("Tagger", t.tagger) \subseteq all  OBVIOUS
  <2>. HIDE DEF all
  <2>. QED  BY <2>1, SavedSignature
<1>5. Save(t) \in Seq(all) /\ ToSet(Save(t)) = all
  <2>. HIDE DEF a, b, c, m, g, all
  <2>. DEFINE r == a \o b
              s == r \o c
              u == s \o m
              w == u \o g
  <2>1. r \in Seq(all) /\ ToSet(r) = ToSet(a) \cup ToSet(b)  BY <1>3, BothJoined
  <2>. HIDE DEF r
  <2>2. s \in Seq(all) /\ ToSet(s) = ToSet(r) \cup ToSet(c)  BY <1>3, <2>1, BothJoined
  <2>. HIDE DEF s
  <2>3. u \in Seq(all) /\ ToSet(u) = ToSet(s) \cup ToSet(m)  BY <1>3, <2>2, BothJoined
  <2>. HIDE DEF u
  <2>4. w \in Seq(all) /\ ToSet(w) = ToSet(u) \cup ToSet(g)  BY <1>4, <2>3, BothJoined
  <2>. HIDE DEF w
  <2>5. ToSet(w) = one \cup Subs("Tagger", t.tagger)  BY <1>3, <1>4, <2>1, <2>2, <2>3, <2>4
  <2>6. w = Save(t)  BY <1>2 DEF r, s, u, w
  <2>. QED  BY <2>4, <2>5, <2>6 DEF all
<1>6. /\ Prop("Object", t.object).name[1] = "Object" /\ Prop("Type", t.of).name[1] = "Type"
      /\ Prop("Tag", t.tag).name[1] = "Tag" /\ Prop("Message", t.message).name[1] = "Message"
      /\ \A p \in Subs("Tagger", t.tagger) : p.name[1] = "Tagger"
  BY PropIs, SubsNamed
<1>7. ASSUME NEW T, NEW d, Rearranged(d, Save(t), T) PROVE Load("tag", d) = Kept(t)
  <2>. HIDE DEF a, b, c, m, g
  <2>1. d \in Seq(T) /\ ToSet(d) = all  BY <1>5, <1>7 DEF Rearranged
  <2>. DEFINE v == ParseProps(d)
  <2>2. v["Object"] = t.object
    <3>1. \A p \in all : p.name[1] = "Object" => p = Prop("Object", t.object)  BY <1>6
    <3>2. Prop("Object", t.object) \in all  OBVIOUS
    <3>. QED  BY <2>1, <3>1, <3>2, SingleValue
  <2>3. v["Type"] = t.of
    <3>1. \A p \in all : p.name[1] = "Type" => p = Prop("Type", t.of)  BY <1>6
    <3>2. Prop("Type", t.of) \in all  OBVIOUS
    <3>. QED  BY <2>1, <3>1, <3>2, SingleValue
  <2>4. v["Tag"] = t.tag
    <3>1. \A p \in all : p.name[1] = "Tag" => p = Prop("Tag", t.tag)  BY <1>6
    <3>2. Prop("Tag", t.tag) \in all  OBVIOUS
    <3>. QED  BY <2>1, <3>1, <3>2, SingleValue
  <2>5. v["Message"] = t.message
    <3>1. \A p \in all : p.name[1] = "Message" => p = Prop("Message", t.message)  BY <1>6
    <3>2. Prop("Message", t.message) \in all  OBVIOUS
    <3>. QED  BY <2>1, <3>1, <3>2, SingleValue
  <2>6. LoadSignature(v["Tagger"]) = t.tagger
    <3>1. \A p \in all : p.name[1] = "Tagger" => p \in Subs("Tagger", t.tagger)  BY <1>6
    <3>2. Subs("Tagger", t.tagger) \subseteq all  OBVIOUS
    <3>. HIDE DEF all
    <3>. QED  BY <1>1, <2>1, <3>1, <3>2, SignatureValue
  <2>. HIDE DEF v
  <2>7. LoadTag(v) = t
    <3>1. LoadTag(v) = [type |-> "tag", object |-> v["Object"], of |-> v["Type"],
                        tag |-> v["Tag"], message |-> v["Message"],
                        tagger |-> LoadSignature(v["Tagger"])]
      BY DEF LoadTag
    <3>. QED  BY <1>1, <2>2, <2>3, <2>4, <2>5, <2>6, <3>1
  <2>8. Load("tag", d) = IF v["Type"] \in Type THEN Got(LoadTag(v)) ELSE Failed
    BY DEF Load, v
  <2>. QED  BY <1>1, <2>3, <2>7, <2>8 DEF Kept
<1>. QED  BY <1>5, <1>7

LEMMA CommitIsLoaded ==
    ASSUME NEW c \in Commit
    PROVE  /\ \E T : Save(c) \in Seq(T)
           /\ \A T, d : Rearranged(d, Save(c), T) => Load("commit", d) = Got(c)
<1>. DEFINE n == Len(c.parent)
            parts == {Part("Parent", c.parent[i]) : i \in 1..n}
            all == {Prop("Tree", c.tree), Prop("Message", c.message)} \cup parts
                   \cup Subs("Author", c.author) \cup Subs("Committer", c.committer)
            a == P("Tree", c.tree)
            m == P("Message", c.message)
            q == ParentProps(c.parent)
            g == PrefixProps("Author", SaveSignature(c.author))
            h == PrefixProps("Committer", SaveSignature(c.committer))
<1>1. /\ c = [type |-> "commit", tree |-> c.tree, parent |-> c.parent, author |-> c.author,
              committer |-> c.committer, message |-> c.message]
      /\ c.type = "commit" /\ c.author \in Signature /\ c.committer \in Signature
      /\ c.parent \in Seq(ID)
  BY DEF Commit
<1>2. Save(c) = a \o m \o q \o g \o h  BY <1>1 DEF Save
<1>3. n \in Nat /\ DOMAIN c.parent = 1..n /\ c.parent = [i \in 1..n |-> c.parent[i]]  BY <1>1
<1>4. /\ a \in Seq(all) /\ ToSet(a) = {Prop("Tree", c.tree)}
      /\ m \in Seq(all) /\ ToSet(m) = {Prop("Message", c.message)}
  BY OneIs
<1>5. q = [i \in 1..n |-> Part("Parent", c.parent[i])]
  <2>. HIDE DEF n
  <2>. QED  BY <1>3 DEF ParentProps, PMultiple, Part
<1>6. q \in Seq(all) /\ ToSet(q) = parts
  <2>1. \A i \in 1..n : Part("Parent", c.parent[i]) \in all  OBVIOUS
  <2>. HIDE DEF all, q, n
  <2>2. DOMAIN q = 1..n /\ \A i \in 1..n : q[i] = Part("Parent", c.parent[i])  BY <1>5
  <2>3. q \in Seq(all)  BY <1>3, <1>5, <2>1
  <2>4. ToSet(q) = parts  BY <2>2 DEF ToSet
  <2>. QED  BY <2>3, <2>4
<1>7. /\ g \in Seq(all) /\ ToSet(g) = Subs("Author", c.author)
      /\ h \in Seq(all) /\ ToSet(h) = Subs("Committer", c.committer)
  <2>1. Subs("Author", c.author) \subseteq all /\ Subs("Committer", c.committer) \subseteq all
    OBVIOUS
  <2>. HIDE DEF all
  <2>. QED  BY <2>1, SavedSignature
<1>8. /\ Prop("Tree", c.tree).name[1] = "Tree" /\ Prop("Message", c.message).name[1] = "Message"
      /\ \A p \in parts : p.name[1] = "Parent" /\ p.name = <<"Parent">>
      /\ \A p \in Subs("Author", c.author) : p.name[1] = "Author"
      /\ \A p \in Subs("Committer", c.committer) : p.name[1] = "Committer"
  <2>1. \A p \in parts : p.name[1] = "Parent" /\ p.name = <<"Parent">>  BY PartIs
  <2>. QED  BY <2>1, PropIs, SubsNamed
<1>9. /\ Named(a, "Parent") = << >> /\ Named(m, "Parent") = << >> /\ Named(q, "Parent") = q
      /\ Named(g, "Parent") = << >> /\ Named(h, "Parent") = << >>
  <2>. HIDE DEF a, m, q, g, h, all, parts
  <2>1. Named(a, "Parent") = << >>  BY <1>4, <1>8, NamedNone
  <2>2. Named(m, "Parent") = << >>  BY <1>4, <1>8, NamedNone
  <2>3. Named(q, "Parent") = q  BY <1>6, <1>8, NamedAll
  <2>4. Named(g, "Parent") = << >>  BY <1>7, <1>8, NamedNone
  <2>5. Named(h, "Parent") = << >>  BY <1>7, <1>8, NamedNone
  <2>. QED  BY <2>1, <2>2, <2>3, <2>4, <2>5
<1>10. Save(c) \in Seq(all) /\ ToSet(Save(c)) = all /\ Named(Save(c), "Parent") = q
  <2>. HIDE DEF a, m, q, g, h, all, parts
  <2>. DEFINE r == a \o m
              s == r \o q
              u == s \o g
              w == u \o h
  <2>1. r \in Seq(all) /\ ToSet(r) = ToSet(a) \cup ToSet(m)
        /\ Named(r, "Parent") = Named(a, "Parent") \o Named(m, "Parent")
    BY <1>4, BothJoined
  <2>. HIDE DEF r
  <2>2. s \in Seq(all) /\ ToSet(s) = ToSet(r) \cup ToSet(q)
        /\ Named(s, "Parent") = Named(r, "Parent") \o Named(q, "Parent")
    BY <1>6, <2>1, BothJoined
  <2>. HIDE DEF s
  <2>3. u \in Seq(all) /\ ToSet(u) = ToSet(s) \cup ToSet(g)
        /\ Named(u, "Parent") = Named(s, "Parent") \o Named(g, "Parent")
    BY <1>7, <2>2, BothJoined
  <2>. HIDE DEF u
  <2>4. w \in Seq(all) /\ ToSet(w) = ToSet(u) \cup ToSet(h)
        /\ Named(w, "Parent") = Named(u, "Parent") \o Named(h, "Parent")
    BY <1>7, <2>3, BothJoined
  <2>. HIDE DEF w
  <2>5. ToSet(w) = all
    <3>1. ToSet(w) = {Prop("Tree", c.tree), Prop("Message", c.message)} \cup parts
                     \cup Subs("Author", c.author) \cup Subs("Committer", c.committer)
      BY <1>4, <1>6, <1>7, <2>1, <2>2, <2>3, <2>4
    <3>. QED  BY <3>1 DEF all
  <2>6. << >> \o << >> = << >> /\ << >> \o q = q /\ q \o << >> = q  BY <1>6
  <2>7. Named(w, "Parent") = q
    <3>1. Named(r, "Parent") = << >>  BY <1>9, <2>1, <2>6
    <3>2. Named(s, "Parent") = q  BY <1>9, <2>2, <2>6, <3>1
    <3>3. Named(u, "Parent") = q  BY <1>9, <2>3, <2>6, <3>2
    <3>. QED  BY <1>9, <2>4, <2>6, <3>3
  <2>8. w = Save(c)  BY <1>2 DEF r, s, u, w
  <2>. QED  BY <2>4, <2>5, <2>7, <2>8
<1>11. ASSUME NEW T, NEW d, Rearranged(d, Save(c), T) PROVE Load("commit", d) = Got(c)
  <2>. HIDE DEF a, m, q, g, h, parts, n
  <2>1. d \in Seq(T) /\ ToSet(d) = all  BY <1>10, <1>11 DEF Rearranged
  <2>. DEFINE v == ParseProps(d)
  <2>2. v["Tree"] = c.tree
    <3>1. \A p \in all : p.name[1] = "Tree" => p = Prop("Tree", c.tree)  BY <1>8
    <3>2. Prop("Tree", c.tree) \in all  OBVIOUS
    <3>. QED  BY <2>1, <3>1, <3>2, SingleValue
  <2>3. v["Message"] = c.message
    <3>1. \A p \in all : p.name[1] = "Message" => p = Prop("Message", c.message)  BY <1>8
    <3>2. Prop("Message", c.message) \in all  OBVIOUS
    <3>. QED  BY <2>1, <3>1, <3>2, SingleValue
  <2>4. LoadSignature(v["Author"]) = c.author
    <3>1. \A p \in all : p.name[1] = "Author" => p \in Subs("Author", c.author)  BY <1>8
    <3>2. Subs("Author", c.author) \subseteq all  OBVIOUS
    <3>. HIDE DEF all
    <3>3. /\ c.author \in Signature /\ d \in Seq(T) /\ Subs("Author", c.author) \subseteq ToSet(d)
          /\ \A p \in ToSet(d) : p.name[1] = "Author" => p \in Subs("Author", c.author)
      BY <1>1, <2>1, <3>1, <3>2
    <3>. HIDE DEF v
    <3>. QED  BY <3>3, SignatureValue DEF v
  <2>5. LoadSignature(v["Committer"]) = c.committer
    <3>1. \A p \in all : p.name[1] = "Committer" => p \in Subs("Committer", c.committer)  BY <1>8
    <3>2. Subs("Committer", c.committer) \subseteq all  OBVIOUS
    <3>. HIDE DEF all
    <3>3. /\ c.committer \in Signature /\ d \in Seq(T) /\ Subs("Committer", c.committer) \subseteq ToSet(d)
          /\ \A p \in ToSet(d) : p.name[1] = "Committer" => p \in Subs("Committer", c.committer)
      BY <1>1, <2>1, <3>1, <3>2
    <3>. HIDE DEF v
    <3>. QED  BY <3>3, SignatureValue DEF v
  <2>6. Named(d, "Parent") = q
    <3>1. \A p \in all : p.name[1] = "Parent" => p.name = <<"Parent">>  BY <1>8
    <3>2. \A p \in ToSet(Save(c)) : p.name[1] = "Parent" => p.name = <<"Parent">>
      BY <1>10, <3>1
    <3>. QED  BY <1>10, <1>11, <3>2 DEF Rearranged
  <2>7. (IF "Parent" \in DOMAIN v THEN v["Parent"] ELSE << >>) = c.parent
    <3>1. CASE n = 0
      <4>1. Named(d, "Parent") = << >>  BY <1>5, <2>6, <3>1
      <4>2. "Parent" \notin DOMAIN v  BY <2>1, <4>1, NoValue
      <4>3. c.parent = << >>  BY <1>3, <3>1
      <4>. QED  BY <4>2, <4>3
    <3>2. CASE n # 0
      <4>1. Named(d, "Parent") = [i \in 1..n |-> Part("Parent", c.parent[i])]  BY <1>5, <2>6
      <4>2. "Parent" \in DOMAIN v /\ v["Parent"] = c.parent
        BY <1>3, <2>1, <3>2, <4>1, ListValue
      <4>. QED  BY <4>2
    <3>. QED  BY <3>1, <3>2
  <2>. HIDE DEF v
  <2>8. Load("commit", d) =
           Got([type |-> "commit", tree |-> v["Tree"], message |-> v["Message"],
                parent |-> IF "Parent" \in DOMAIN v THEN v["Parent"] ELSE << >>,
                author |-> LoadSignature(v["Author"]),
                committer |-> LoadSignature(v["Committer"])])
    BY DEF Load, LoadCommit, v
  <2>. QED  BY <1>1, <2>2, <2>3, <2>4, <2>5, <2>7, <2>8
<1>. QED  BY <1>10, <1>11

-----------------------------------------------------------------------------
(* The properties of a tree.                                               *)

LEMMA SetToSeqIs ==
    ASSUME NEW S, IsFiniteSet(S)
    PROVE  \E m \in Nat : Enumerates(SetToSeq(S), m, S)
<1>. DEFINE m == Cardinality(S)
            f == SetToSeq(S)
<1>1. m \in Nat /\ ExistsBijection(1..m, S)  BY FS_CardinalityType
<1>2. \E g \in [1..m -> S] : IsInjective(g)
  BY <1>1 DEF ExistsBijection, Bijection, Injection
<1>3. f \in [1..m -> S] /\ IsInjective(f)
  <2>1. f = CHOOSE g \in [1..m -> S] : IsInjective(g)  BY DEF SetToSeq
  <2>. HIDE DEF f, m
  <2>. QED  BY <1>2, <2>1
<1>4. Cardinality(1..m) = m
  <2>1. 1 \in Int /\ m \in Int  BY <1>1
  <2>2. Cardinality(1..m) = IF 1 > m THEN 0 ELSE m - 1 + 1  BY <2>1, FS_Interval
  <2>. HIDE DEF m
  <2>. QED  BY <1>1, <2>2
<1>5. f \in Injection(1..m, S)  BY <1>3 DEF Injection
<1>6. f \in Surjection(1..m, S)
  <2>1. Cardinality(1..m) = Cardinality(S)  BY <1>4
  <2>. HIDE DEF f, m
  <2>. QED  BY <1>5, <2>1, FS_Injection
<1>7. \A i, j \in 1..m : f[i] = f[j] => i = j  BY <1>3 DEF IsInjective
<1>8. \A x \in S : \E i \in 1..m : f[i] = x  BY <1>6 DEF Surjection
<1>9. Enumerates(f, m, S)  BY <1>3, <1>7, <1>8 DEF Enumerates
<1>. QED  BY <1>1, <1>9

(* Of many short lists, each with one property of a name, the values of    *)
(* that name are a list.                                                   *)
Grouped(seqs, n, vs) == \A i \in 1..Len(seqs) : Named(seqs[i], n) = <<Part(n, vs[i])>>

Flattened(seqs, n, vs, T) ==
    /\ FlattenSeq(seqs) \in Seq(T)
    /\ Named(FlattenSeq(seqs), n) = [i \in 1..Len(seqs) |-> Part(n, vs[i])]

LEMMA NamedFlatten ==
    ASSUME NEW T, NEW seqs \in Seq(Seq(T)), NEW n, NEW vs, Grouped(seqs, n, vs)
    PROVE  Flattened(seqs, n, vs, T)
<1>. DEFINE m == Len(seqs)
            list(i) == [j \in 1..i |-> Part(n, vs[j])]
<1>1. m \in Nat /\ \A i \in 1..m : seqs[i] \in Seq(T)  OBVIOUS
<1>2. PICK F : /\ F \in [0..m -> Seq(T)] /\ F[0] = << >>
               /\ \A i \in 1..m : F[i] = F[i - 1] \o seqs[i]
               /\ FlattenSeq(seqs) = F[m]
  BY FlattenIs
<1>3. \A i \in 1..m : Named(seqs[i], n) = <<Part(n, vs[i])>>  BY DEF Grouped
<1>. HIDE DEF m
<1>. DEFINE V == {i \in Nat : i \in 0..m /\ Named(F[i], n) # list(i)}
<1>4. V = {}
  <2>1. SUFFICES ASSUME V # {} PROVE FALSE  OBVIOUS
  <2>2. PICK k \in V : \A j \in V : k <= j  BY <2>1, Least
  <2>3. k \in 0..m /\ Named(F[k], n) # list(k)  OBVIOUS
  <2>4. k # 0
    <3>1. SUFFICES ASSUME k = 0 PROVE FALSE  OBVIOUS
    <3>2. Named(F[0], n) = << >>
      <4>1. << >> \in Seq(T) /\ ToSet(<< >>) = {}  BY ToSetIs
      <4>2. Named(<< >>, n) = << >>  BY <4>1, NamedNone
      <4>. QED  BY <1>2, <4>2
    <3>3. list(0) = << >>  OBVIOUS
    <3>. QED  BY <2>3, <3>1, <3>2, <3>3
  <2>5. k - 1 \in 0..m /\ k \in 1..m /\ k \in Nat /\ k - 1 \in Nat  BY <1>1, <2>3, <2>4
  <2>6. Named(F[k - 1], n) = list(k - 1)
    <3>1. SUFFICES ASSUME Named(F[k - 1], n) # list(k - 1) PROVE FALSE  OBVIOUS
    <3>2. k - 1 \in V  BY <2>5, <3>1
    <3>. QED  BY <2>2, <2>5, <3>2
  <2>. HIDE DEF V
  <2>7. F[k - 1] \in Seq(T) /\ seqs[k] \in Seq(T) /\ F[k] = F[k - 1] \o seqs[k]
    BY <1>1, <1>2, <2>5
  <2>8. Named(F[k], n) = Named(F[k - 1], n) \o Named(seqs[k], n)
    <3>1. Named(F[k - 1] \o seqs[k], n) = Named(F[k - 1], n) \o Named(seqs[k], n)
      <4>1. \A s, t \in Seq(T) : Named(s \o t, n) = Named(s, n) \o Named(t, n)  BY BothJoined
      <4>. QED  BY ONLY <2>7, <4>1
    <3>. QED  BY <2>7, <3>1
  <2>9. Named(F[k], n) = list(k - 1) \o <<Part(n, vs[k])>>  BY <1>3, <2>5, <2>6, <2>8
  <2>. DEFINE all == {Part(n, vs[j]) : j \in 1..k}
              l == list(k - 1)
              x == Part(n, vs[k])
              t == l \o <<x>>
  <2>10. x \in all  BY <2>5
  <2>11. /\ l \in Seq(all) /\ Len(l) = k - 1
         /\ \A j \in 1..(k - 1) : l[j] = Part(n, vs[j])
    <3>1. \A j \in 1..(k - 1) : j \in 1..k /\ Part(n, vs[j]) \in all  BY <2>5
    <3>. HIDE DEF all
    <3>2. l \in [1..(k - 1) -> all]  BY <3>1
    <3>. QED  BY <2>5, <3>2
  <2>. HIDE DEF all, l
  <2>12. Joined(t, l, x, all)  BY <2>10, <2>11, OneJoined
  <2>. HIDE DEF t
  <2>13. Len(t) = k /\ t \in Seq(all) /\ t[k] = x /\ \A j \in 1..(k - 1) : t[j] = Part(n, vs[j])
    BY <2>5, <2>11, <2>12 DEF Joined
  <2>14. \A j \in 1..k : t[j] = Part(n, vs[j])
    <3>1. \A j \in 1..k : j = k \/ j \in 1..(k - 1)  BY <2>5
    <3>. QED  BY <2>13, <3>1
  <2>15. t = list(k)
    <3>1. t = [j \in 1..k |-> t[j]]  BY <2>13
    <3>. QED  BY <2>14, <3>1
  <2>. QED  BY <2>3, <2>9, <2>15 DEF t, l
<1>5. Named(F[m], n) = list(m)
  <2>1. m \in 0..m  BY <1>1
  <2>. QED  BY <1>1, <1>4, <2>1
<1>6. F[m] \in Seq(T)  BY <1>1, <1>2
<1>. QED  BY <1>2, <1>5, <1>6 DEF m, Flattened

LEMMA PartsIs ==
    \A c, v : \A T : Part(c, v) \in T =>
        /\ PMultiple(c, <<v>>) = <<Part(c, v)>>
        /\ PMultiple(c, <<v>>) \in Seq(T) /\ ToSet(PMultiple(c, <<v>>)) = {Part(c, v)}
<1>. TAKE c, v
<1>. TAKE T
<1>. HAVE Part(c, v) \in T
<1>1. PMultiple(c, <<v>>) = <<Part(c, v)>>
  <2>. DEFINE s == PMultiple(c, <<v>>)
  <2>1. DOMAIN <<v>> = {1} /\ <<v>>[1] = v  OBVIOUS
  <2>2. s = [i \in {1} |-> Part(c, <<v>>[i])]  BY <2>1 DEF PMultiple, Part
  <2>3. s = [i \in {1} |-> Part(c, v)]  BY <2>1, <2>2
  <2>4. {1} = 1..1  OBVIOUS
  <2>5. s = [i \in 1..1 |-> Part(c, v)]  BY <2>3, <2>4
  <2>. HIDE DEF s
  <2>. QED  BY <2>5 DEF s
<1>2. \A x : ToSet(<<x>>) = {x}
  <2>1. \A x : DOMAIN <<x>> = {1} /\ <<x>>[1] = x  OBVIOUS
  <2>. QED  BY <2>1 DEF ToSet
<1>3. \A x : x \in T => <<x>> \in Seq(T)  OBVIOUS
<1>. QED  BY <1>1, <1>2, <1>3

(* An entry of a saved tree: a name, a mode and an object.                 *)
EntryProps(a, b, c) ==
    PMultiple("Name", <<a>>) \o PMultiple("Mode", <<b>>) \o PMultiple("Object", <<c>>)

Listed(props, a, b, c, T) ==
    /\ props \in Seq(T)
    /\ Named(props, "Name") = <<Part("Name", a)>>
    /\ Named(props, "Mode") = <<Part("Mode", b)>>
    /\ Named(props, "Object") = <<Part("Object", c)>>

LEMMA SavedEntry ==
    ASSUME NEW a, NEW b, NEW c, NEW T,
           Part("Name", a) \in T, Part("Mode", b) \in T, Part("Object", c) \in T
    PROVE  Listed(EntryProps(a, b, c), a, b, c, T)
<1>. DEFINE s == EntryProps(a, b, c)
            p == PMultiple("Name", <<a>>)
            q == PMultiple("Mode", <<b>>)
            r == PMultiple("Object", <<c>>)
            u == p \o q
<1>1. p \in Seq(T) /\ ToSet(p) = {Part("Name", a)} /\ p = <<Part("Name", a)>>  BY PartsIs
<1>2. q \in Seq(T) /\ ToSet(q) = {Part("Mode", b)} /\ q = <<Part("Mode", b)>>  BY PartsIs
<1>3. r \in Seq(T) /\ ToSet(r) = {Part("Object", c)} /\ r = <<Part("Object", c)>>  BY PartsIs
<1>4. /\ Part("Name", a).name[1] = "Name" /\ Part("Mode", b).name[1] = "Mode"
      /\ Part("Object", c).name[1] = "Object"
  BY PartIs
<1>5. s = u \o r  BY DEF EntryProps
<1>. HIDE DEF p, q, r, s
<1>6. u \in Seq(T) /\ \A n : Named(u, n) = Named(p, n) \o Named(q, n)
  <2>1. \A v, w \in Seq(T) : v \o w \in Seq(T)
           /\ \A n : Named(v \o w, n) = Named(v, n) \o Named(w, n)
    BY BothJoined
  <2>2. p \in Seq(T) /\ q \in Seq(T)  BY <1>1, <1>2
  <2>. QED  BY ONLY <2>1, <2>2
<1>. HIDE DEF u
<1>7. u \o r \in Seq(T) /\ \A n : Named(u \o r, n) = Named(u, n) \o Named(r, n)
  <2>1. \A v, w \in Seq(T) : v \o w \in Seq(T)
           /\ \A n : Named(v \o w, n) = Named(v, n) \o Named(w, n)
    BY BothJoined
  <2>2. u \in Seq(T) /\ r \in Seq(T)  BY <1>3, <1>6
  <2>. QED  BY ONLY <2>1, <2>2
<1>8. \A x \in Seq(T) : << >> \o x = x /\ x \o << >> = x  OBVIOUS
<1>9. << >> \in Seq(T)  OBVIOUS
<1>10. Named(s, "Name") = p
  <2>1. Named(p, "Name") = p  BY <1>1, <1>4, NamedAll
  <2>2. Named(q, "Name") = << >>  BY <1>2, <1>4, NamedNone
  <2>3. Named(r, "Name") = << >>  BY <1>3, <1>4, NamedNone
  <2>4. Named(u, "Name") = p  BY <1>1, <1>6, <1>8, <2>1, <2>2
  <2>5. Named(u \o r, "Name") = Named(u, "Name") \o Named(r, "Name")  BY <1>7
  <2>. QED  BY <1>1, <1>5, <1>8, <2>3, <2>4, <2>5
<1>11. Named(s, "Mode") = q
  <2>1. Named(p, "Mode") = << >>  BY <1>1, <1>4, NamedNone
  <2>2. Named(q, "Mode") = q  BY <1>2, <1>4, NamedAll
  <2>3. Named(r, "Mode") = << >>  BY <1>3, <1>4, NamedNone
  <2>4. Named(u, "Mode") = q  BY <1>2, <1>6, <1>8, <2>1, <2>2
  <2>5. Named(u \o r, "Mode") = Named(u, "Mode") \o Named(r, "Mode")  BY <1>7
  <2>. QED  BY <1>2, <1>5, <1>8, <2>3, <2>4, <2>5
<1>12. Named(s, "Object") = r
  <2>1. Named(p, "Object") = << >>  BY <1>1, <1>4, NamedNone
  <2>2. Named(q, "Object") = << >>  BY <1>2, <1>4, NamedNone
  <2>3. Named(r, "Object") = r  BY <1>3, <1>4, NamedAll
  <2>4. Named(u, "Object") = << >>  BY <1>6, <1>8, <1>9, <2>1, <2>2
  <2>5. Named(u \o r, "Object") = Named(u, "Object") \o Named(r, "Object")  BY <1>7
  <2>. QED  BY <1>3, <1>5, <1>8, <2>3, <2>4, <2>5
<1>13. Listed(s, a, b, c, T)  BY <1>1, <1>2, <1>3, <1>5, <1>7, <1>10, <1>11, <1>12 DEF Listed
<1>. QED  BY <1>13 DEF s

LEMMA TreeIsLoaded ==
    ASSUME NEW t, IsTree(t)
    PROVE  /\ \E T : Save(t) \in Seq(T)
           /\ \A T, d : Rearranged(d, Save(t), T) => Load("tree", d) = Got(t)
<1>. DEFINE e == t.entries
            N == SetToSeq(DOMAIN e)
            mode == [i \in DOMAIN N |-> e[N[i]].mode]
            object == [i \in DOMAIN N |-> e[N[i]].object]
            seqs == [i \in DOMAIN N |-> EntryProps(N[i], mode[i], object[i])]
<1>1. /\ t = Tree(e) /\ IsFiniteSet(DOMAIN e)
      /\ e = [n \in DOMAIN e |-> e[n]]
      /\ \A n \in DOMAIN e : e[n] \in TreeInfo
  BY TreeIs
<1>2. t.type = "tree"
  <2>. HIDE DEF e
  <2>. QED  BY <1>1 DEF Tree
<1>3. Save(t) = FlattenSeq(seqs)  BY <1>2 DEF Save, EntryProps
<1>. HIDE DEF e
<1>4. PICK m \in Nat : Enumerates(N, m, DOMAIN e)  BY <1>1, SetToSeqIs
<1>. HIDE DEF N
<1>5. /\ N \in [1..m -> DOMAIN e]
      /\ \A i, j \in 1..m : N[i] = N[j] => i = j
      /\ \A x \in DOMAIN e : \E i \in 1..m : N[i] = x
      /\ DOMAIN N = 1..m
  BY <1>4 DEF Enumerates
<1>. DEFINE T == {Part("Name", N[i]) : i \in 1..m} \cup {Part("Mode", mode[i]) : i \in 1..m}
                 \cup {Part("Object", object[i]) : i \in 1..m}
<1>6. \A i \in 1..m : /\ Part("Name", N[i]) \in T /\ Part("Mode", mode[i]) \in T
                      /\ Part("Object", object[i]) \in T
  OBVIOUS
<1>7. \A k \in {"Name", "Mode", "Object"} : \A p \in T : p.name[1] = k => p.name = <<k>>
  <2>1. \A p \in T : \E v : p = Part("Name", v) \/ p = Part("Mode", v) \/ p = Part("Object", v)
    OBVIOUS
  <2>. HIDE DEF T
  <2>2. \A k \in {"Name", "Mode", "Object"} :
           \A p \in T : \E l : p.name[1] = l /\ p.name = <<l>>
    BY <2>1, PartIs
  <2>. QED  BY <2>2
<1>8. mode = [i \in 1..m |-> mode[i]] /\ object = [i \in 1..m |-> object[i]]
      /\ N = [i \in 1..m |-> N[i]]
      /\ \A i \in 1..m : mode[i] = e[N[i]].mode /\ object[i] = e[N[i]].object
  BY <1>5
<1>. HIDE DEF T, mode, object
<1>9. \A i \in 1..m : /\ seqs[i] \in Seq(T)
                      /\ Named(seqs[i], "Name") = <<Part("Name", N[i])>>
                      /\ Named(seqs[i], "Mode") = <<Part("Mode", mode[i])>>
                      /\ Named(seqs[i], "Object") = <<Part("Object", object[i])>>
  <2>1. TAKE i \in 1..m
  <2>2. seqs[i] = EntryProps(N[i], mode[i], object[i])  BY <1>5
  <2>3. Listed(EntryProps(N[i], mode[i], object[i]), N[i], mode[i], object[i], T)
    BY <1>6, SavedEntry
  <2>. HIDE DEF seqs
  <2>4. Listed(seqs[i], N[i], mode[i], object[i], T)  BY <2>2, <2>3
  <2>. QED  BY <2>4 DEF Listed
<1>10. seqs \in Seq(Seq(T)) /\ Len(seqs) = m
  <2>1. DOMAIN seqs = 1..m /\ seqs = [i \in 1..m |-> seqs[i]]  BY <1>5
  <2>. HIDE DEF seqs
  <2>. QED  BY <1>9, <2>1
<1>. HIDE DEF seqs
<1>11. FlattenSeq(seqs) \in Seq(T)
       /\ Named(FlattenSeq(seqs), "Name") = [i \in 1..m |-> Part("Name", N[i])]
  <2>1. Grouped(seqs, "Name", N)  BY <1>9, <1>10 DEF Grouped
  <2>2. Flattened(seqs, "Name", N, T)  BY <1>10, <2>1, NamedFlatten
  <2>. QED  BY <1>10, <2>2 DEF Flattened
<1>12. Named(FlattenSeq(seqs), "Mode") = [i \in 1..m |-> Part("Mode", mode[i])]
  <2>1. Grouped(seqs, "Mode", mode)  BY <1>9, <1>10 DEF Grouped
  <2>2. Flattened(seqs, "Mode", mode, T)  BY <1>10, <2>1, NamedFlatten
  <2>. QED  BY <1>10, <2>2 DEF Flattened
<1>13. Named(FlattenSeq(seqs), "Object") = [i \in 1..m |-> Part("Object", object[i])]
  <2>1. Grouped(seqs, "Object", object)  BY <1>9, <1>10 DEF Grouped
  <2>2. Flattened(seqs, "Object", object, T)  BY <1>10, <2>1, NamedFlatten
  <2>. QED  BY <1>10, <2>2 DEF Flattened
<1>14. ASSUME NEW R, NEW d, Rearranged(d, Save(t), R) PROVE Load("tree", d) = Got(t)
  <2>1. d \in Seq(R)  BY <1>14 DEF Rearranged
  <2>2. \A k \in {"Name", "Mode", "Object"} : Named(d, k) = Named(Save(t), k)
    <3>1. ToSet(Save(t)) \subseteq T  BY <1>3, <1>11, ToSetIs
    <3>2. TAKE k \in {"Name", "Mode", "Object"}
    <3>3. \A p \in ToSet(Save(t)) : p.name[1] = k => p.name = <<k>>  BY <1>7, <3>1
    <3>. QED  BY <1>14, <3>3 DEF Rearranged
  <2>3. /\ Named(d, "Name") = [i \in 1..m |-> Part("Name", N[i])]
        /\ Named(d, "Mode") = [i \in 1..m |-> Part("Mode", mode[i])]
        /\ Named(d, "Object") = [i \in 1..m |-> Part("Object", object[i])]
    BY <1>3, <1>11, <1>12, <1>13, <2>2
  <2>. DEFINE v == ParseProps(d)
  <2>4. Load("tree", d) = Got(LoadTree(v))  BY DEF Load
  <2>5. CASE m = 0
    <3>1. Named(d, "Name") = << >>  BY <2>3, <2>5
    <3>2. "Name" \notin DOMAIN v  BY <2>1, <3>1, NoValue
    <3>3. DOMAIN e = {}  BY <1>5, <2>5
    <3>4. e = << >>
      <4>1. e = [n \in {} |-> e[n]]  BY <1>1, <3>3
      <4>2. DOMAIN << >> = {}  OBVIOUS
      <4>. QED  BY <4>1, <4>2
    <3>. HIDE DEF v
    <3>. QED  BY <1>1, <2>4, <3>2, <3>4 DEF LoadTree
  <2>6. CASE m # 0
    <3>1. "Name" \in DOMAIN v /\ v["Name"] = N
      <4>1. N = [i \in 1..m |-> N[i]]  BY <1>8
      <4>2. Named(d, "Name") = [i \in 1..m |-> Part("Name", N[i])]  BY <2>3
      <4>. QED  BY ONLY <4>1, <4>2, <2>1, <2>6, ListValue, m \in Nat
    <3>2. v["Mode"] = mode
      <4>1. mode = [i \in 1..m |-> mode[i]]  BY <1>8
      <4>2. Named(d, "Mode") = [i \in 1..m |-> Part("Mode", mode[i])]  BY <2>3
      <4>. QED  BY ONLY <4>1, <4>2, <2>1, <2>6, ListValue, m \in Nat
    <3>3. v["Object"] = object
      <4>1. object = [i \in 1..m |-> object[i]]  BY <1>8
      <4>2. Named(d, "Object") = [i \in 1..m |-> Part("Object", object[i])]  BY <2>3
      <4>. QED  BY ONLY <4>1, <4>2, <2>1, <2>6, ListValue, m \in Nat
    <3>. HIDE DEF v
    <3>. DEFINE at(n) == CHOOSE i \in DOMAIN N : N[i] = n
                f == [n \in ToSet(N) |-> [mode |-> mode[at(n)], object |-> object[at(n)]]]
    <3>4. LoadTree(v) = Tree(f)  BY <3>1, <3>2, <3>3 DEF LoadTree
    <3>5. ToSet(N) = DOMAIN e
      <4>1. ToSet(N) = {N[i] : i \in 1..m}  BY <1>5 DEF ToSet
      <4>2. \A i \in 1..m : N[i] \in DOMAIN e  BY <1>5
      <4>3. \A x \in DOMAIN e : \E i \in 1..m : x = N[i]  BY <1>5
      <4>. QED  BY ONLY <4>1, <4>2, <4>3
    <3>6. ASSUME NEW n \in DOMAIN e
          PROVE  [mode |-> mode[at(n)], object |-> object[at(n)]] = e[n]
      <4>1. at(n) \in 1..m /\ N[at(n)] = n
        <5>1. \E i \in DOMAIN N : N[i] = n  BY <1>5
        <5>. QED  BY <1>5, <5>1
      <4>. HIDE DEF at
      <4>2. mode[at(n)] = e[n].mode /\ object[at(n)] = e[n].object  BY <1>8, <4>1
      <4>3. e[n] = [mode |-> e[n].mode, object |-> e[n].object]
        <5>1. e[n] \in TreeInfo  BY <1>1
        <5>. QED  BY <5>1 DEF TreeInfo
      <4>. QED  BY <4>2, <4>3
    <3>. HIDE DEF at
    <3>7. f = e
      <4>1. f = [n \in DOMAIN e |-> e[n]]  BY <3>5, <3>6
      <4>. HIDE DEF f
      <4>. QED  BY <1>1, <4>1
    <3>. HIDE DEF f
    <3>. QED  BY <1>1, <2>4, <3>4, <3>7
  <2>. QED  BY <2>5, <2>6
<1>. QED  BY <1>3, <1>11, <1>14

-----------------------------------------------------------------------------
(* Capabilities.                                                           *)

LEMMA NothingIs == DOMAIN << >> = {} /\ << >> = [n \in {} |-> TRUE]
<1>1. DOMAIN << >> = {}  OBVIOUS
<1>2. << >> \in Seq({})  OBVIOUS
<1>3. Len(<< >>) = 0  OBVIOUS
<1>4. << >> = [i \in 1..0 |-> << >>[i]]  OBVIOUS
<1>5. 1..0 = {}  OBVIOUS
<1>. QED  BY <1>4, <1>5

(* The words of a list of capabilities are those that are set.             *)
LEMMA CapsAreBack ==
    ASSUME NEW c, IsFiniteSet(DOMAIN c), c \in [DOMAIN c -> BOOLEAN], "" \notin DOMAIN c
    PROVE  LET r == ScanCaps(CapString(c))
           IN  /\ CapsSub(c, r) = << >>
               /\ \A n \in DOMAIN r : n \in DOMAIN c /\ c[n]
<1>. DEFINE N == SetToSeq(DOMAIN c)
            words == CapString(c)
            r == ScanCaps(words)
            set == {n \in DOMAIN c : c[n]}
            missing == {n \in DOMAIN c : c[n] /\ ~ (n \in DOMAIN r /\ r[n])}
<1>1. PICK m \in Nat : Enumerates(N, m, DOMAIN c)  BY SetToSeqIs
<1>2. words = [i \in DOMAIN N |-> IF c[N[i]] THEN N[i] ELSE ""]  BY DEF CapString
<1>3. DOMAIN r = ToSet(words) \ {""} /\ \A n \in DOMAIN r : r[n] = TRUE  BY DEF ScanCaps
<1>4. CapsSub(c, r) = [n \in missing |-> TRUE]  BY DEF CapsSub
<1>. HIDE DEF N, words, r
<1>5. /\ DOMAIN N = 1..m /\ \A i \in 1..m : N[i] \in DOMAIN c
      /\ \A x \in DOMAIN c : \E i \in 1..m : N[i] = x
  BY <1>1 DEF Enumerates
<1>6. DOMAIN words = 1..m /\ \A i \in 1..m : words[i] = IF c[N[i]] THEN N[i] ELSE ""
  BY <1>2, <1>5
<1>7. ToSet(words) = {words[i] : i \in 1..m}  BY <1>6 DEF ToSet
<1>8. \A n \in ToSet(words) \ {""} : n \in set
  <2>1. TAKE n \in ToSet(words) \ {""}
  <2>2. PICK i \in 1..m : n = words[i]  BY <1>7
  <2>. QED  BY <1>5, <1>6, <2>2
<1>9. \A n \in set : n \in ToSet(words) \ {""}
  <2>1. TAKE n \in set
  <2>2. PICK i \in 1..m : N[i] = n  BY <1>5
  <2>3. words[i] = n  BY <1>6, <2>2
  <2>. QED  BY <1>7, <2>2, <2>3
<1>10. missing = {}  BY <1>3, <1>9
<1>11. CapsSub(c, r) = << >>
  <2>1. CapsSub(c, r) = [n \in {} |-> TRUE]
    <3>. HIDE DEF missing
    <3>. QED  BY <1>4, <1>10
  <2>. QED  BY <2>1, NothingIs
<1>. QED  BY <1>3, <1>8, <1>11 DEF r, words

-----------------------------------------------------------------------------
(* What became of an object in a run of a codec.                           *)
LEMMA TypesOfObjects ==
    ASSUME NEW obj, IsObject(obj)
    PROVE  \/ obj.type = "tree" /\ IsTree(obj)
           \/ obj.type = "commit" /\ obj \in Commit
           \/ obj.type = "tag" /\ obj \in Tag
           \/ obj.type = "blob" /\ obj \in Blob
<1>1. obj \in Commit => obj.type = "commit"  BY DEF Commit
<1>2. obj \in Tag => obj.type = "tag"  BY DEF Tag
<1>3. obj \in Blob => obj.type = "blob"  BY DEF Blob
<1>. QED  BY <1>1, <1>2, <1>3 DEF IsObject

LEMMA ObjectIsLoaded ==
    ASSUME NEW obj, IsObject(obj)
    PROVE  /\ \E T : Save(obj) \in Seq(T)
           /\ \A T, d : Rearranged(d, Save(obj), T) =>
                Load(obj.type, d) = IF obj.type = "tag" THEN Kept(obj) ELSE Got(obj)
<1>1. CASE obj.type = "tree" /\ IsTree(obj)  BY <1>1, TreeIsLoaded
<1>2. CASE obj.type = "commit" /\ obj \in Commit  BY <1>2, CommitIsLoaded
<1>3. CASE obj.type = "tag" /\ obj \in Tag  BY <1>3, TagIsLoaded
<1>4. CASE obj.type = "blob" /\ obj \in Blob  BY <1>4, BlobIsLoaded
<1>. QED  BY <1>1, <1>2, <1>3, <1>4, TypesOfObjects

LEMMA MarshalIs ==
    \A obj : /\ Marshal(obj).type = obj.type /\ Marshal(obj).body = BodyOf(obj)
             /\ Marshal(obj).length = Size(obj.type, BodyOf(obj))
BY DEF Marshal

LEMMA ObjectIsBack ==
    ASSUME NEW obj, IsObject(obj), Plain(Marshal(obj))
    PROVE  Unmarshal(Marshal(obj)) = Got(obj)
<1>. DEFINE d == Marshal(obj)
<1>1. d.type = obj.type /\ d.body = BodyOf(obj) /\ d.length = Size(d.type, d.body)  BY MarshalIs
<1>. HIDE DEF d
<1>2. Unmarshal(d) = UnmarshalBody(obj.type, BodyOf(obj))  BY <1>1 DEF Unmarshal
<1>3. Plain(d)  BY DEF d
<1>4. CASE obj.type = "tree" /\ IsTree(obj)
  <2>1. d.body = TreeBody(obj.entries) /\ UnmarshalBody("tree", d.body) = UnmarshalTree(d.body)
    BY <1>1, <1>4 DEF BodyOf, UnmarshalBody
  <2>2. \A i \in DOMAIN d.body : PlainName(d.body[i].name)  BY <1>1, <1>3, <1>4 DEF Plain
  <2>3. UnmarshalTree(TreeBody(obj.entries)) = Got(obj)  BY <1>4, <2>1, <2>2, TreeIsBack
  <2>. QED  BY <1>1, <1>2, <1>4, <2>1, <2>3 DEF d
<1>5. CASE obj.type = "commit" /\ obj \in Commit
  <2>1. d.body = CommitBody(obj) /\ UnmarshalBody("commit", d.body) = UnmarshalCommit(d.body)
    BY <1>1, <1>5 DEF BodyOf, UnmarshalBody
  <2>2. \A i \in DOMAIN d.body.lines : PlainLine(d.body.lines[i])  BY <1>1, <1>3, <1>5 DEF Plain
  <2>3. UnmarshalCommit(CommitBody(obj)) = Got(obj)  BY <1>5, <2>1, <2>2, CommitIsBack
  <2>. QED  BY <1>1, <1>2, <1>5, <2>1, <2>3 DEF d
<1>6. CASE obj.type = "tag" /\ obj \in Tag
  <2>1. d.body = TagBody(obj) /\ UnmarshalBody("tag", d.body) = UnmarshalTag(d.body)
    BY <1>1, <1>6 DEF BodyOf, UnmarshalBody
  <2>2. \A i \in DOMAIN d.body.lines : PlainLine(d.body.lines[i])  BY <1>1, <1>3, <1>6 DEF Plain
  <2>3. UnmarshalTag(TagBody(obj)) = Got(obj)  BY <1>6, <2>1, <2>2, TagIsBack
  <2>. QED  BY <1>1, <1>2, <1>6, <2>1, <2>3 DEF d
<1>7. CASE obj.type = "blob" /\ obj \in Blob
  <2>1. UnmarshalBody("blob", BodyOf(obj)) = Got([type |-> "blob", contents |-> obj.contents])
    BY <1>7 DEF BodyOf, UnmarshalBody
  <2>2. obj = [type |-> "blob", contents |-> obj.contents]  BY <1>7 DEF Blob
  <2>. QED  BY <1>2, <1>7, <2>1, <2>2 DEF d
<1>. QED  BY <1>4, <1>5, <1>6, <1>7, TypesOfObjects

(* What was marshalled by whatever program.                                *)
LEMMA BinaryIs ==
    ASSUME NEW d \in Binary
    PROVE  /\ d = [type |-> d.type, length |-> d.length, body |-> d.body]
           /\ \/ d.type = "tree" /\ d.body \in Seq(Entry)
              \/ d.type \in {"commit", "tag"} /\ d.body \in [lines : Seq(TextLine), message : Text]
              \/ d.type = "blob"
<1>. DEFINE X == Seq(Entry)
            Y == [lines : Seq(TextLine), message : Text]
            Z == Text
<1>1. \/ d \in [type : {"tree"}, length : Int, body : X]
      \/ d \in [type : {"commit", "tag"}, length : Int, body : Y]
      \/ d \in [type : {"blob"}, length : Int, body : Z]
  BY DEF Binary
<1>. HIDE DEF X, Y, Z
<1>2. CASE d \in [type : {"tree"}, length : Int, body : X]  BY <1>2 DEF X
<1>3. CASE d \in [type : {"commit", "tag"}, length : Int, body : Y]  BY <1>3 DEF Y
<1>4. CASE d \in [type : {"blob"}, length : Int, body : Z]  BY <1>4
<1>. QED  BY <1>1, <1>2, <1>3, <1>4

LEMMA BinaryIsKept ==
    ASSUME NEW d \in Binary, Plain(d), Unmarshal(d).ok
    PROVE  Marshal(Unmarshal(d).obj) = d
<1>. DEFINE u == Unmarshal(d)
            obj == u.obj
<1>1. ~ Failed.ok /\ \A x : Got(x).ok /\ Got(x).obj = x  BY DEF Failed, Got
<1>2. d.length = Size(d.type, d.body) /\ u = UnmarshalBody(d.type, d.body)
  BY <1>1 DEF Unmarshal
<1>3. u.ok  OBVIOUS
<1>. HIDE DEF u
<1>4. d = [type |-> d.type, length |-> d.length, body |-> d.body]  BY BinaryIs
<1>5. SUFFICES obj.type = d.type /\ BodyOf(obj) = d.body
  BY <1>2, <1>4 DEF Marshal, u
<1>. HIDE DEF obj
<1>6. CASE d.type = "tree" /\ d.body \in Seq(Entry)
  <2>1. u = UnmarshalTree(d.body)  BY <1>2, <1>6 DEF UnmarshalBody
  <2>2. /\ \A i \in DOMAIN d.body : PlainName(d.body[i].name) /\ ~ d.body[i].zeros
        /\ \A i, j \in DOMAIN d.body :
              i < j => d.body[i].name # d.body[j].name /\ GitBefore(d.body[i], d.body[j])
    BY <1>6 DEF Plain
  <2>3. obj.type = "tree" /\ TreeBody(obj.entries) = d.body
    BY <1>6, <2>1, <2>2, TreeIsKept DEF obj
  <2>. QED  BY <1>6, <2>3 DEF BodyOf
<1>7. CASE d.type = "commit" /\ d.body \in [lines : Seq(TextLine), message : Text]
  <2>1. u = UnmarshalCommit(d.body)  BY <1>2, <1>7 DEF UnmarshalBody
  <2>2. \A i \in DOMAIN d.body.lines : PlainLine(d.body.lines[i])  BY <1>7 DEF Plain
  <2>3. obj.type = "commit" /\ CommitBody(obj) = d.body
    BY <1>3, <1>7, <2>1, <2>2, CommitIsKept DEF obj
  <2>. QED  BY <1>7, <2>3 DEF BodyOf
<1>8. CASE d.type = "tag" /\ d.body \in [lines : Seq(TextLine), message : Text]
  <2>1. u = UnmarshalTag(d.body)  BY <1>2, <1>8 DEF UnmarshalBody
  <2>2. \A i \in DOMAIN d.body.lines : PlainLine(d.body.lines[i])  BY <1>8 DEF Plain
  <2>3. obj.type = "tag" /\ TagBody(obj) = d.body
    BY <1>3, <1>8, <2>1, <2>2, TagIsKept DEF obj
  <2>. QED  BY <1>8, <2>3 DEF BodyOf
<1>9. CASE d.type = "blob"
  <2>1. u = Got([type |-> "blob", contents |-> d.body])  BY <1>2, <1>9 DEF UnmarshalBody
  <2>2. obj = [type |-> "blob", contents |-> d.body]  BY <1>1, <2>1 DEF obj
  <2>3. obj.type = "blob" /\ obj.contents = d.body  BY <2>2
  <2>. QED  BY <1>9, <2>3 DEF BodyOf
<1>. QED  BY <1>6, <1>7, <1>8, <1>9, BinaryIs

LEMMA TextIsBack ==
    ASSUME NEW obj, IsObject(obj), obj.type = "tree", Plain(Marshal(obj))
    PROVE  UnmarshalTreeText(TreeBody(obj.entries)) = Got(obj) <=>
              \A n \in DOMAIN obj.entries : n # << >> /\ obj.entries[n].mode # "other"
<1>. DEFINE d == Marshal(obj)
<1>1. d.type = "tree" /\ d.body = TreeBody(obj.entries)  BY MarshalIs DEF BodyOf
<1>. HIDE DEF d
<1>2. \A i \in DOMAIN d.body : PlainName(d.body[i].name)
  <2>1. Plain(d)  BY DEF d
  <2>. QED  BY <1>1, <2>1 DEF Plain
<1>3. IsTree(obj)
  <2>1. "tree" # "commit" /\ "tree" # "tag" /\ "tree" # "blob"  OBVIOUS
  <2>. QED  BY <2>1, TypesOfObjects
<1>. QED  BY <1>1, <1>2, <1>3, TreeIsBack

(* What is decoded when it was encoded here.                               *)
LEMMA EncodedIsDecoded ==
    ASSUME Inv, pc = "done", value # None, format \in {"binary", "text", "caps"}
    PROVE  value \in ValuesOf(format) /\ data = Encoded(format, value) /\ result = Decoded
BY DEF Inv, Sent, Torn, Shuffled

(* What is encoded is decoded to what it was: the numbers and headers of a *)
(* packfile, CapList's String and Scan and, of the objects that Plain      *)
(* admits, MarshalBinary and UnmarshalBinary of all and the text of a      *)
(* tree.  Plain leaves out what is known to come back as something else or *)
(* not at all, as a person with an angle bracket or the end of a line.     *)
THEOREM RoundTrips == Spec => []RoundTrip
<1>1. ASSUME Inv, pc = "done", value # None, format = "binary", Plain(Marshal(value))
      PROVE  result = Got(value)
  <2>1. value \in ObjectValues /\ data = Marshal(value) /\ result = Unmarshal(data)
    BY <1>1, EncodedIsDecoded DEF ValuesOf, Encoded, Decoded
  <2>2. IsObject(value)  BY <2>1, CodecAssumption
  <2>. QED  BY <1>1, <2>1, <2>2, ObjectIsBack
<1>2. ASSUME Inv, pc = "done", value # None, format = "text", Plain(Marshal(value))
      PROVE  result = Got(value) <=>
                \A n \in DOMAIN value.entries : n # << >> /\ value.entries[n].mode # "other"
  <2>1. /\ value \in ObjectValues /\ value.type = "tree"
        /\ data = TreeBody(value.entries) /\ result = UnmarshalTreeText(data)
    BY <1>2, EncodedIsDecoded DEF ValuesOf, Encoded, Decoded
  <2>2. IsObject(value)  BY <2>1, CodecAssumption
  <2>. QED  BY <1>2, <2>1, <2>2, TextIsBack
<1>3. ASSUME Inv, pc = "done", value # None, format = "caps"
      PROVE  /\ CapsSub(value, result) = << >>
             /\ \A n \in DOMAIN result : n \in DOMAIN value /\ value[n]
  <2>1. value \in CapLists /\ data = CapString(value) /\ result = ScanCaps(data)
    BY <1>3, EncodedIsDecoded DEF ValuesOf, Encoded, Decoded
  <2>2. /\ IsFiniteSet(DOMAIN value) /\ value \in [DOMAIN value -> BOOLEAN]
        /\ "" \notin DOMAIN value
    BY <2>1, CodecAssumption
  <2>. QED  BY <2>1, <2>2, CapsAreBack
<1>4. Inv => RoundTrip  BY <1>1, <1>2, <1>3, NumbersAreBack DEF RoundTrip
<1>. QED  BY <1>4, Invariance, PTL

(* An object that Unmarshal takes is marshalled to the bytes it came as,   *)
(* so it keeps its ID: Names sorts as Git does, and no line of a commit or *)
(* a tag is dropped or changed.                                            *)
THEOREM IDsSurvive == Spec => []IDsAreKept
<1>1. ASSUME Inv, pc = "done", format = "binary", value = None, Plain(data), result.ok
      PROVE  Marshal(result.obj) = data
  <2>1. result = Unmarshal(data)  BY <1>1 DEF Inv, Decoded
  <2>2. \/ value \in ObjectValues /\ data = Marshal(value)
        \/ data \in ReceivedObjects
    BY <1>1 DEF Inv, Sent, Torn, Shuffled, ValuesOf, Encoded
  <2>3. CASE value \in ObjectValues /\ data = Marshal(value)
    <3>1. IsObject(value)  BY <2>3, CodecAssumption
    <3>2. result = Got(value)  BY <1>1, <2>1, <2>3, <3>1, ObjectIsBack
    <3>3. result.obj = value  BY <3>2 DEF Got
    <3>. QED  BY <2>3, <3>3
  <2>4. CASE data \in ReceivedObjects
    <3>1. data \in Binary  BY <2>4, CodecAssumption
    <3>. QED  BY <1>1, <2>1, <3>1, BinaryIsKept
  <2>. QED  BY <2>2, <2>3, <2>4
<1>2. Inv => IDsAreKept  BY <1>1 DEF IDsAreKept
<1>. QED  BY <1>2, Invariance, PTL

LEMMA SameIsRearranged ==
    ASSUME NEW T, NEW s \in Seq(T)
    PROVE  Rearranged(s, s, T)
BY DEF Rearranged

(* Load makes of what comes back from the datastore, in whatever order,    *)
(* what Save was given, but for a tag that has none of Git's types: Save   *)
(* takes it, and Load says that it cannot.                                 *)
THEOREM StoredLoads == Spec => []StoredIsLoaded
<1>1. ASSUME Inv, pc = "done", format = "props"
      PROVE  result = IF value.type = "tag" /\ value.of = "" THEN Failed ELSE Got(value)
  <2>1. result = Load(value.type, data)  BY <1>1 DEF Inv, Decoded
  <2>2. /\ value \in ObjectValues
        /\ \/ data = Save(value)
           \/ \E i \in DOMAIN Save(value) : data = LastOf(Save(value)[i].name, Save(value))
    <3>1. Sent \/ Shuffled  BY <1>1 DEF Inv, Torn
    <3>2. ValuesOf(format) = ObjectValues /\ Encoded(format, value) = Save(value)
      BY <1>1 DEF ValuesOf, Encoded
    <3>3. Sent => value \in ObjectValues /\ data = Save(value)  BY <1>1, <3>2 DEF Sent
    <3>4. Shuffled => /\ value \in ObjectValues
                      /\ \E i \in DOMAIN Save(value) : data = LastOf(Save(value)[i].name, Save(value))
      BY <3>2 DEF Shuffled
    <3>. QED  BY <3>1, <3>3, <3>4
  <2>3. IsObject(value)  BY <2>2, CodecAssumption
  <2>4. PICK T : Save(value) \in Seq(T)  BY <2>3, ObjectIsLoaded
  <2>5. Rearranged(data, Save(value), T)
    <3>1. \A name : Rearranged(LastOf(name, Save(value)), Save(value), T)  BY <2>4, LastOfRearranges
    <3>2. Rearranged(Save(value), Save(value), T)  BY <2>4, SameIsRearranged
    <3>. QED  BY <2>2, <3>1, <3>2
  <2>6. result = IF value.type = "tag" THEN Kept(value) ELSE Got(value)
    BY <2>1, <2>3, <2>5, ObjectIsLoaded
  <2>. QED  BY <2>6 DEF Kept
<1>2. Inv => StoredIsLoaded  BY <1>1 DEF StoredIsLoaded
<1>. QED  BY <1>2, Invariance, PTL
=============================================================================
