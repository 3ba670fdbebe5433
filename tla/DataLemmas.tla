----------------------------- MODULE DataLemmas -----------------------------
(***************************************************************************)
(* Facts about minima, powers of two, quotients and remainders, and about  *)
(* lists, that the other proofs rest on.                                   *)
(***************************************************************************)
EXTENDS Integers, SequencesExt, FiniteSetTheorems, SequenceTheorems, WellFoundedInduction, TLAPS

-----------------------------------------------------------------------------
(* Numbers.                                                                *)

(* A set of natural numbers has a least element.                           *)
LEMMA LeastNatural ==
  ASSUME NEW S \in SUBSET Nat, S # {}
  PROVE  \E x \in S : \A y \in S : x <= y
<1> DEFINE R == OpToRel(<, Nat)
<1>1. \E x \in S : \A y \in S : ~ (<<y, x>> \in R)
  BY NatLessThanWellFounded, WFMin
<1>2. \A x, y \in Nat : x < y => <<x, y>> \in R
  BY DEF OpToRel
<1> HIDE DEF R
<1>3. PICK x \in S : \A y \in S : ~ (<<y, x>> \in R)
  BY <1>1
<1>4. ASSUME NEW y \in S
      PROVE  x <= y
  <2>1. x \in Nat /\ y \in Nat
    OBVIOUS
  <2>2. ~ (y < x)
    BY <1>2, <1>3, <2>1, Zenon
  <2> QED BY <2>1, <2>2
<1> QED BY <1>4

(* Min returns it.                                                         *)
LEMMA MinOfNaturals ==
  ASSUME NEW S \in SUBSET Nat, S # {}
  PROVE  Min(S) \in S /\ (\A y \in S : Min(S) <= y)
  BY LeastNatural DEF Min

(* The smaller one of two numbers.                                         *)
LEMMA MinOfTwo ==
  ASSUME NEW a \in Int, NEW b \in Int
  PROVE  Min({a, b}) = IF a <= b THEN a ELSE b
<1> DEFINE m == IF a <= b THEN a ELSE b
<1>1. m \in {a, b} /\ (\A y \in {a, b} : m <= y)
  OBVIOUS
<1>2. ASSUME NEW x \in {a, b}, \A y \in {a, b} : x <= y
      PROVE  x = m
  BY <1>1, <1>2
<1> HIDE DEF m
<1>3. Min({a, b}) = m
  BY <1>1, <1>2 DEF Min
<1> QED BY <1>3 DEF m

(* A set of k elements has the empty set and k singletons among its 2^k    *)
(* subsets.                                                                *)
LEMMA PowerOfTwo ==
  ASSUME NEW k \in Nat
  PROVE  2^k \in Nat /\ k + 1 <= 2^k
<1> DEFINE subsets == SUBSET (1 .. k)
           f == [i \in 0 .. k |-> IF i = 0 THEN {} ELSE {i}]
<1>1. IsFiniteSet(1 .. k) /\ Cardinality(1 .. k) = k
  BY FS_Interval
<1>2. IsFiniteSet(subsets) /\ Cardinality(subsets) = 2^k
  BY <1>1, FS_SUBSET
<1>3. f \in Injection(0 .. k, subsets)
  <2>1. f \in [0 .. k -> subsets]
    OBVIOUS
  <2>2. \A i \in 0 .. k : f[i] = IF i = 0 THEN {} ELSE {i}
    OBVIOUS
  <2> HIDE DEF f
  <2>3. ASSUME NEW a \in 0 .. k, NEW b \in 0 .. k, f[a] = f[b]
        PROVE  a = b
    <3>1. (IF a = 0 THEN {} ELSE {a}) = (IF b = 0 THEN {} ELSE {b})
      BY <2>2, <2>3
    <3> QED BY <3>1
  <2> QED BY <2>1, <2>3 DEF Injection, IsInjective
<1> HIDE DEF f
<1>4. Cardinality(0 .. k) <= Cardinality(subsets)
  BY <1>2, <1>3, FS_Injection
<1>5. Cardinality(0 .. k) = k + 1
  BY FS_Interval
<1>6. Cardinality(subsets) \in Nat
  BY <1>2, FS_CardinalityType
<1> QED BY <1>2, <1>4, <1>5, <1>6

(* Division with remainder,                                                *)
LEMMA Division ==
  ASSUME NEW x \in Int, NEW b \in Nat \ {0}
  PROVE  x = b * (x \div b) + (x % b) /\ x % b \in 0 .. b - 1 /\ x \div b \in Int
  OBVIOUS

(* and its uniqueness.                                                     *)
LEMMA Remainder ==
  ASSUME NEW x \in Int, NEW b \in Nat \ {0}, NEW q \in Int, NEW r \in 0 .. b - 1,
         x = b * q + r
  PROVE  x % b = r
<1> DEFINE p == x \div b
           s == x % b
<1>1. p \in Int /\ s \in 0 .. b - 1 /\ b * p + s = b * q + r
  BY Division
<1> HIDE DEF p, s
<1>2. b * (p - q) = r - s
  BY <1>1
<1>3. p - q >= 1 => b * (p - q) >= b
  BY <1>1
<1>4. p - q <= -1 => b * (p - q) <= -b
  BY <1>1
<1>5. p = q
  BY <1>1, <1>2, <1>3, <1>4
<1> QED BY <1>1, <1>5 DEF s

(* A number below the modulus is its own remainder.                        *)
LEMMA SmallRemainder ==
  ASSUME NEW b \in Nat \ {0}, NEW x \in 0 .. b - 1
  PROVE  x % b = x
  BY Remainder, x = b * 0 + x

(* The remainder of a natural number is no larger than the number.         *)
LEMMA RemainderBelow ==
  ASSUME NEW x \in Nat, NEW b \in Nat \ {0}
  PROVE  x % b \in Nat /\ x % b <= x /\ x % b < b
<1> DEFINE q == x \div b
           r == x % b
<1>1. x = b * q + r /\ r \in 0 .. b - 1 /\ q \in Int
  BY Division
<1> HIDE DEF q, r
<1>2. q <= -1 => b * q <= -b
  BY <1>1
<1>3. q >= 0
  BY <1>1, <1>2
<1>4. b * q >= 0
  BY <1>1, <1>3
<1>5. r \in Nat /\ r <= x /\ r < b
  BY <1>1, <1>4
<1> QED BY <1>5 DEF r

(* The modulus can be taken away.                                          *)
LEMMA ShiftedRemainder ==
  ASSUME NEW x \in Int, NEW b \in Nat \ {0}
  PROVE  (x - b) % b = x % b
<1> DEFINE q == x \div b
           r == x % b
<1>1. x = b * q + r /\ r \in 0 .. b - 1 /\ q \in Int
  BY Division
<1> HIDE DEF q, r
<1>2. x - b = b * (q - 1) + r
  BY <1>1
<1>3. (x - b) % b = r
  BY <1>1, <1>2, Remainder
<1> QED BY <1>3 DEF r

-----------------------------------------------------------------------------
(* Lists.                                                                  *)

(* A list without one of its elements, which is there once.                *)
LEMMA RemovedOnce ==
  ASSUME NEW P, NEW s \in Seq(P), NEW r \in 1 .. Len(s), NEW g, s[r] = g,
         \A i \in 1 .. Len(s) : s[i] = g => i = r
  PROVE  /\ RemoveFirst(s, g) \in Seq(P) /\ Len(RemoveFirst(s, g)) = Len(s) - 1
         /\ \A i \in 1 .. Len(s) - 1 : RemoveFirst(s, g)[i] = s[IF i < r THEN i ELSE i + 1]
<1> DEFINE I == {i \in 1 .. Len(s) : s[i] = g}
           a == SubSeq(s, 1, r - 1)
           b == SubSeq(s, r + 1, Len(s))
<1>0. Len(s) \in Nat /\ \A i \in 1 .. Len(s) : s[i] \in P
  OBVIOUS
<1>1. I = {r}
  OBVIOUS
<1>2. Min(I) = r
  <2>1. I \in SUBSET Nat /\ I # {}
    BY <1>0, <1>1
  <2>2. Min(I) \in I
    BY <2>1, MinOfNaturals
  <2> QED BY <1>1, <2>2
<1>3. RemoveFirst(s, g) = a \o b
  BY <1>1, <1>2 DEF RemoveFirst, RemoveAt, SelectInSeq
<1>4. /\ a \in Seq(P) /\ Len(a) = r - 1 /\ \A i \in 1 .. r - 1 : a[i] = s[i]
  <2>1. r - 1 \in Int /\ \A i \in 1 .. r - 1 : s[i] \in P
    BY <1>0
  <2>2. /\ a \in Seq(P) /\ Len(a) = (IF 1 <= r - 1 THEN r - 1 - 1 + 1 ELSE 0)
        /\ \A i \in 1 .. r - 1 - 1 + 1 : a[i] = s[1 + i - 1]
    BY <2>1, SubSeqProperties
  <2> QED BY <1>0, <2>2
<1>5. /\ b \in Seq(P) /\ Len(b) = Len(s) - r /\ \A i \in 1 .. Len(s) - r : b[i] = s[r + i]
  <2>1. r + 1 \in Int /\ Len(s) \in Int /\ \A i \in r + 1 .. Len(s) : s[i] \in P
    BY <1>0
  <2>2. /\ b \in Seq(P) /\ Len(b) = (IF r + 1 <= Len(s) THEN Len(s) - (r + 1) + 1 ELSE 0)
        /\ \A i \in 1 .. Len(s) - (r + 1) + 1 : b[i] = s[(r + 1) + i - 1]
    BY <2>1, SubSeqProperties
  <2>3. \A i \in 1 .. Len(s) - r : b[i] = s[(r + 1) + i - 1] /\ (r + 1) + i - 1 = r + i
    BY <1>0, <2>2
  <2> QED BY <1>0, <2>2, <2>3
<1> HIDE DEF a, b
<1>6. /\ a \o b \in Seq(P) /\ Len(a \o b) = Len(a) + Len(b)
      /\ \A i \in 1 .. Len(a) + Len(b) :
           (a \o b)[i] = IF i <= Len(a) THEN a[i] ELSE b[i - Len(a)]
  BY <1>4, <1>5, ConcatProperties
<1>7. ASSUME NEW i \in 1 .. Len(s) - 1
      PROVE  (a \o b)[i] = s[IF i < r THEN i ELSE i + 1]
  <2>1. CASE i < r
    <3>1. i \in 1 .. Len(a) + Len(b) /\ i <= Len(a) /\ i \in 1 .. r - 1
      BY <1>0, <1>4, <1>5, <2>1
    <3> QED BY <1>4, <1>6, <2>1, <3>1
  <2>2. CASE ~(i < r)
    <3>1. /\ i \in 1 .. Len(a) + Len(b) /\ ~(i <= Len(a)) /\ i - Len(a) \in 1 .. Len(s) - r
          /\ r + (i - Len(a)) = i + 1
      BY <1>0, <1>4, <1>5, <2>2
    <3>2. b[i - Len(a)] = s[r + (i - Len(a))]
      BY <1>5, <3>1
    <3> QED BY <1>6, <2>2, <3>1, <3>2
  <2> QED BY <2>1, <2>2
<1>8. Len(a) + Len(b) = Len(s) - 1
  BY <1>0, <1>4, <1>5
<1> QED BY <1>3, <1>6, <1>7, <1>8

(* An element that is not in the list is not removed.                      *)
LEMMA RemovedNone ==
  ASSUME NEW P, NEW s \in Seq(P), NEW g, g \notin ToSet(s)
  PROVE  RemoveFirst(s, g) = s
  BY DEF RemoveFirst, ToSet

(* Removing an element from a list without repetitions.                    *)
LEMMA RemoveElement ==
  ASSUME NEW P, NEW s \in Seq(P), IsInjective(s), NEW g
  PROVE  /\ RemoveFirst(s, g) \in Seq(P) /\ IsInjective(RemoveFirst(s, g))
         /\ ToSet(RemoveFirst(s, g)) = ToSet(s) \ {g}
<1> DEFINE t == RemoveFirst(s, g)
<1>0. Len(s) \in Nat /\ DOMAIN s = 1 .. Len(s) /\ \A i, j \in 1 .. Len(s) : s[i] = s[j] => i = j
  BY LenProperties DEF IsInjective
<1>1. CASE g \notin ToSet(s)
  BY <1>1, RemovedNone
<1>2. CASE g \in ToSet(s)
  <2>1. PICK r \in 1 .. Len(s) : s[r] = g
    BY <1>0, <1>2 DEF ToSet
  <2>2. /\ t \in Seq(P) /\ Len(t) = Len(s) - 1
        /\ \A i \in 1 .. Len(s) - 1 : t[i] = s[IF i < r THEN i ELSE i + 1]
    <3>1. \A i \in 1 .. Len(s) : s[i] = g => i = r
      BY <1>0, <2>1
    <3> QED BY <2>1, <3>1, RemovedOnce
  <2> HIDE DEF t
  <2>3. DOMAIN t = 1 .. Len(s) - 1
    BY <2>2, LenProperties
  <2>4. IsInjective(t)
    <3> SUFFICES ASSUME NEW i \in 1 .. Len(s) - 1, NEW j \in 1 .. Len(s) - 1, t[i] = t[j]
                 PROVE  i = j
      BY <2>3 DEF IsInjective
    <3> DEFINE x == IF i < r THEN i ELSE i + 1
               y == IF j < r THEN j ELSE j + 1
    <3>1. x \in 1 .. Len(s) /\ y \in 1 .. Len(s)
      BY <1>0
    <3>2. s[x] = s[y]
      BY <2>2
    <3>3. x = y
      BY <1>0, <3>1, <3>2
    <3> QED BY <1>0, <3>3
  <2>5. ASSUME NEW x
        PROVE  x \in ToSet(t) <=> x \in ToSet(s) \ {g}
    <3>1. ASSUME x \in ToSet(t)
          PROVE  x \in ToSet(s) \ {g}
      <4>1. PICK i \in 1 .. Len(s) - 1 : x = t[i]
        BY <2>3, <3>1 DEF ToSet
      <4> DEFINE k == IF i < r THEN i ELSE i + 1
      <4>2. k \in 1 .. Len(s) /\ k # r /\ x = s[k]
        BY <1>0, <2>2, <4>1
      <4> HIDE DEF k
      <4> QED BY <1>0, <2>1, <4>2 DEF ToSet
    <3>2. ASSUME x \in ToSet(s), x # g
          PROVE  x \in ToSet(t)
      <4>1. PICK i \in 1 .. Len(s) : x = s[i]
        BY <1>0, <3>2 DEF ToSet
      <4> DEFINE k == IF i < r THEN i ELSE i - 1
      <4>2. i # r
        BY <2>1, <3>2, <4>1
      <4>3. k \in 1 .. Len(s) - 1 /\ (IF k < r THEN k ELSE k + 1) = i
        BY <1>0, <4>2
      <4>4. t[k] = x
        BY <2>2, <4>1, <4>3
      <4> HIDE DEF k
      <4> QED BY <2>3, <4>3, <4>4 DEF ToSet
    <3> QED BY <3>1, <3>2
  <2> QED BY <2>2, <2>4, <2>5 DEF t
<1> QED BY <1>1, <1>2

(* Adding an element that is not in the list, and removing it again.       *)
LEMMA AppendElement ==
  ASSUME NEW P, NEW s \in Seq(P), IsInjective(s), NEW g \in P, g \notin ToSet(s)
  PROVE  /\ Append(s, g) \in Seq(P) /\ IsInjective(Append(s, g))
         /\ ToSet(Append(s, g)) = ToSet(s) \cup {g}
         /\ RemoveFirst(Append(s, g), g) = s
<1> DEFINE t == Append(s, g)
           n == Len(s) + 1
<1>0. /\ Len(s) \in Nat /\ DOMAIN s = 1 .. Len(s) /\ \A i, j \in 1 .. Len(s) : s[i] = s[j] => i = j
      /\ \A i \in 1 .. Len(s) : s[i] # g
  BY LenProperties DEF IsInjective, ToSet
<1>1. /\ t \in Seq(P) /\ Len(t) = n /\ t[n] = g /\ DOMAIN t = 1 .. n
      /\ \A i \in 1 .. Len(s) : t[i] = s[i]
  BY <1>0, AppendProperties
<1> HIDE DEF t
<1>2. IsInjective(t)
  <2> SUFFICES ASSUME NEW i \in 1 .. n, NEW j \in 1 .. n, t[i] = t[j] PROVE i = j
    BY <1>1 DEF IsInjective
  <2>1. (i = n \/ i \in 1 .. Len(s)) /\ (j = n \/ j \in 1 .. Len(s))
    BY <1>0
  <2> QED BY <1>0, <1>1, <2>1
<1>3. ToSet(t) = ToSet(s) \cup {g}
  <2>1. \A x : x \in ToSet(t) <=> \E i \in 1 .. n : x = t[i]
    BY <1>1 DEF ToSet
  <2>2. \A x : x \in ToSet(s) <=> \E i \in 1 .. Len(s) : x = s[i]
    BY <1>0 DEF ToSet
  <2>3. \A i : i \in 1 .. n <=> i \in 1 .. Len(s) \/ i = n
    BY <1>0
  <2>4. \A x : x \in ToSet(t) <=> x \in ToSet(s) \/ x = g
    BY <1>1, <2>1, <2>2, <2>3
  <2> QED BY <2>4
<1>4. RemoveFirst(t, g) = s
  <2>0. n \in 1 .. Len(t) /\ \A i \in 1 .. Len(t) : t[i] = g => i = n
    BY <1>0, <1>1
  <2>1. PICK k \in 1 .. Len(t) : k = n /\ t[k] = g /\ \A i \in 1 .. Len(t) : t[i] = g => i = k
    BY <1>1, <2>0
  <2>2. /\ RemoveFirst(t, g) \in Seq(P) /\ Len(RemoveFirst(t, g)) = Len(t) - 1
        /\ \A i \in 1 .. Len(t) - 1 : RemoveFirst(t, g)[i] = t[IF i < k THEN i ELSE i + 1]
    <3>1. t \in Seq(P)
      BY <1>1
    <3>2. t[k] = g /\ \A i \in 1 .. Len(t) : t[i] = g => i = k
      BY <2>1
    <3> QED BY <3>1, <3>2, RemovedOnce
  <2> DEFINE u == RemoveFirst(t, g)
  <2> HIDE DEF u
  <2>3. Len(u) = Len(s)
    BY <1>0, <1>1, <2>2 DEF u
  <2>4. ASSUME NEW i \in 1 .. Len(s)
        PROVE  u[i] = s[i]
    <3>1. i \in 1 .. Len(t) - 1 /\ i < k
      BY <1>0, <1>1, <2>1
    <3>2. u[i] = t[i]
      BY <2>2, <3>1 DEF u
    <3> QED BY <1>1, <3>2
  <2>5. u \in Seq(P)
    BY <2>2 DEF u
  <2>6. u = s
    BY <2>3, <2>4, <2>5, SeqEqual
  <2> QED BY <2>6 DEF u
<1> QED BY <1>1, <1>2, <1>3, <1>4 DEF t

LEMMA ConsElement ==
  ASSUME NEW P, NEW s \in Seq(P), IsInjective(s), NEW g \in P, g \notin ToSet(s)
  PROVE  /\ Cons(g, s) \in Seq(P) /\ IsInjective(Cons(g, s))
         /\ ToSet(Cons(g, s)) = ToSet(s) \cup {g}
         /\ RemoveFirst(Cons(g, s), g) = s
<1> DEFINE t == Cons(g, s)
           n == Len(s) + 1
<1>0. /\ Len(s) \in Nat /\ DOMAIN s = 1 .. Len(s) /\ \A i, j \in 1 .. Len(s) : s[i] = s[j] => i = j
      /\ \A i \in 1 .. Len(s) : s[i] # g
  BY LenProperties DEF IsInjective, ToSet
<1>1. /\ t \in Seq(P) /\ Len(t) = n /\ t[1] = g /\ DOMAIN t = 1 .. n
      /\ \A i \in 1 .. Len(s) : t[i + 1] = s[i]
  <2>1. <<g>> \in Seq(P) /\ Len(<<g>>) = 1 /\ <<g>>[1] = g
    OBVIOUS
  <2>2. /\ t \in Seq(P) /\ Len(t) = 1 + Len(s)
        /\ \A i \in 1 .. 1 + Len(s) : t[i] = IF i <= 1 THEN <<g>>[i] ELSE s[i - 1]
    BY <2>1, ConcatProperties DEF Cons
  <2> HIDE DEF t
  <2>3. DOMAIN t = 1 .. Len(t)
    BY <2>2, LenProperties
  <2>4. ASSUME NEW i \in 1 .. Len(s)
        PROVE  t[i + 1] = s[i]
    <3>1. i + 1 \in 1 .. 1 + Len(s) /\ ~(i + 1 <= 1) /\ (i + 1) - 1 = i
      BY <1>0
    <3>2. t[i + 1] = s[(i + 1) - 1]
      BY <2>2, <3>1
    <3> QED BY <3>1, <3>2
  <2>5. 1 \in 1 .. 1 + Len(s)
    BY <1>0
  <2> QED BY <1>0, <2>1, <2>2, <2>3, <2>4, <2>5
<1> HIDE DEF t
<1>5. \A i \in 1 .. n : i = 1 \/ (i - 1 \in 1 .. Len(s) /\ t[i] = s[i - 1])
  <2> SUFFICES ASSUME NEW i \in 1 .. n, i # 1 PROVE i - 1 \in 1 .. Len(s) /\ t[i] = s[i - 1]
    OBVIOUS
  <2>1. i - 1 \in 1 .. Len(s) /\ (i - 1) + 1 = i
    BY <1>0
  <2>2. t[(i - 1) + 1] = s[i - 1]
    BY <1>1, <2>1
  <2> QED BY <2>1, <2>2
<1>2. IsInjective(t)
  <2> SUFFICES ASSUME NEW i \in 1 .. n, NEW j \in 1 .. n, t[i] = t[j] PROVE i = j
    BY <1>1 DEF IsInjective
  <2>1. i = 1 => j = 1
    BY <1>0, <1>1, <1>5
  <2>2. j = 1 => i = 1
    BY <1>0, <1>1, <1>5
  <2>3. i # 1 /\ j # 1 => i - 1 = j - 1
    BY <1>0, <1>5
  <2> QED BY <1>0, <2>1, <2>2, <2>3
<1>3. ToSet(t) = ToSet(s) \cup {g}
  <2>1. \A x : x \in ToSet(t) <=> \E i \in 1 .. n : x = t[i]
    BY <1>1 DEF ToSet
  <2>2. \A x : x \in ToSet(s) <=> \E i \in 1 .. Len(s) : x = s[i]
    BY <1>0 DEF ToSet
  <2>3. ASSUME NEW x \in ToSet(t)
        PROVE  x \in ToSet(s) \/ x = g
    <3>1. PICK i \in 1 .. n : x = t[i]
      BY <2>1, <2>3
    <3>2. CASE i = 1
      BY <1>1, <3>1, <3>2
    <3>3. CASE i - 1 \in 1 .. Len(s) /\ t[i] = s[i - 1]
      BY <2>2, <3>1, <3>3
    <3> QED BY <1>5, <3>2, <3>3
  <2>4. ASSUME NEW x, x \in ToSet(s) \/ x = g
        PROVE  x \in ToSet(t)
    <3>1. CASE x = g
      <4>1. 1 \in 1 .. n
        BY <1>0
      <4> QED BY <1>1, <2>1, <3>1, <4>1
    <3>2. CASE x \in ToSet(s)
      <4>1. PICK i \in 1 .. Len(s) : x = s[i]
        BY <2>2, <3>2
      <4>2. i + 1 \in 1 .. n /\ t[i + 1] = x
        BY <1>0, <1>1, <4>1
      <4> QED BY <2>1, <4>2
    <3> QED BY <2>4, <3>1, <3>2
  <2> QED BY <2>3, <2>4
<1>4. RemoveFirst(t, g) = s
  <2>0. 1 \in 1 .. Len(t) /\ \A i \in 1 .. Len(t) : t[i] = g => i = 1
    BY <1>0, <1>1, <1>5
  <2>1. PICK k \in 1 .. Len(t) : k = 1 /\ t[k] = g /\ \A i \in 1 .. Len(t) : t[i] = g => i = k
    BY <1>1, <2>0
  <2>2. /\ RemoveFirst(t, g) \in Seq(P) /\ Len(RemoveFirst(t, g)) = Len(t) - 1
        /\ \A i \in 1 .. Len(t) - 1 : RemoveFirst(t, g)[i] = t[IF i < k THEN i ELSE i + 1]
    <3>1. t \in Seq(P)
      BY <1>1
    <3>2. t[k] = g /\ \A i \in 1 .. Len(t) : t[i] = g => i = k
      BY <2>1
    <3> QED BY <3>1, <3>2, RemovedOnce
  <2> DEFINE u == RemoveFirst(t, g)
  <2> HIDE DEF u
  <2>3. Len(u) = Len(s)
    BY <1>0, <1>1, <2>2 DEF u
  <2>4. ASSUME NEW i \in 1 .. Len(s)
        PROVE  u[i] = s[i]
    <3>1. i \in 1 .. Len(t) - 1 /\ ~(i < k)
      BY <1>0, <1>1, <2>1
    <3>2. u[i] = t[i + 1]
      BY <2>2, <3>1 DEF u
    <3> QED BY <1>1, <3>2
  <2>5. u \in Seq(P)
    BY <2>2 DEF u
  <2>6. u = s
    BY <2>3, <2>4, <2>5, SeqEqual
  <2> QED BY <2>6 DEF u
<1> QED BY <1>1, <1>2, <1>3, <1>4 DEF t
=============================================================================
