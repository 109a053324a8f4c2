-------------------------- MODULE MiniMallocProofs --------------------------
(***************************************************************************)
(* Proofs about MiniMalloc for arenas, requests and numbers of size        *)
(* classes of any size.                                                    *)
(***************************************************************************)
EXTENDS MiniMalloc, FiniteSetTheorems, WellFoundedInduction, TLAPS

----------------------------------------------------------------------------
(* Induction over the naturals, stated for sets.                           *)

LEMMA NatMin ==
  ASSUME NEW T, T \subseteq Nat, T # {}
  PROVE  \E m \in T : \A n \in T : m <= n
  <1>1. PICK x \in T : \A y \in T : ~ (<<y, x>> \in OpToRel(<, Nat))
    BY NatLessThanWellFounded, WFMin, Zenon
  <1>2. \A y \in T : y < x => <<y, x>> \in OpToRel(<, Nat)
    BY DEF OpToRel
  <1>3. \A y \in T : ~ (y < x)
    BY <1>1, <1>2, Zenon
  <1> QED
    BY <1>3

LEMMA SetInduction ==
  ASSUME NEW S, 0 \in S, \A n \in Nat : n \in S => n + 1 \in S
  PROVE  Nat \subseteq S
  <1> DEFINE T == Nat \ S
  <1> SUFFICES ASSUME T # {} PROVE FALSE
    OBVIOUS
  <1>1. PICK m \in T : \A n \in T : m <= n
    BY NatMin
  <1>2. m # 0 /\ m - 1 \in Nat
    BY <1>1
  <1>3. m - 1 \in S
    BY <1>1, <1>2
  <1> QED
    BY <1>1, <1>2, <1>3

\* A set of naturals with a bound has a largest member.
LEMMA NatMax ==
  ASSUME NEW T, T \subseteq Nat, T # {}, NEW b \in Nat, \A n \in T : n <= b
  PROVE  \E m \in T : \A n \in T : n <= m
  <1> DEFINE U == {b - n : n \in T}
  <1>1. U \subseteq Nat /\ U # {}
    <2>1. \A n \in T : b - n \in Nat
      OBVIOUS
    <2>2. \A u \in U : \E n \in T : u = b - n
      OBVIOUS
    <2>3. PICK n \in T : TRUE
      OBVIOUS
    <2>4. b - n \in U
      OBVIOUS
    <2> QED
      BY <2>1, <2>2, <2>4
  <1> HIDE DEF U
  <1>2. PICK u \in U : \A v \in U : u <= v
    BY <1>1, NatMin
  <1>3. PICK m \in T : u = b - m
    BY <1>2 DEF U
  <1>4. ASSUME NEW n \in T PROVE n <= m
    <2>1. b - n \in U
      BY DEF U
    <2>2. b - m <= b - n
      BY <1>2, <1>3, <2>1
    <2> QED
      BY <2>2
  <1> QED
    BY <1>3, <1>4

----------------------------------------------------------------------------
(* Powers of two and of four.                                              *)

IsPow2(of, n) == of = [i \in 0 .. n |-> IF i = 0 THEN 1 ELSE 2 * of[i - 1]]

\* There is a function that doubles from one to n times.
LEMMA Pow2Exists ==
  ASSUME NEW n \in Nat
  PROVE  \E of \in [0 .. n -> Nat] : IsPow2(of, n)
  <1> DEFINE S == {m \in Nat : \E of \in [0 .. m -> Nat] : IsPow2(of, m)}
  <1>1. 0 \in S
    <2> DEFINE of == [i \in 0 .. 0 |-> 1]
    <2>1. of \in [0 .. 0 -> Nat] /\ IsPow2(of, 0)
      BY DEF IsPow2
    <2> QED
      BY <2>1
  <1>2. ASSUME NEW m \in Nat, m \in S PROVE m + 1 \in S
    <2>1. PICK of \in [0 .. m -> Nat] : IsPow2(of, m)
      BY <1>2
    <2> DEFINE next == [i \in 0 .. m + 1 |-> IF i = m + 1 THEN 2 * of[m] ELSE of[i]]
    <2>2. next \in [0 .. m + 1 -> Nat]
      OBVIOUS
    <2>3. \A i \in 0 .. m + 1 : next[i] = IF i = 0 THEN 1 ELSE 2 * next[i - 1]
      BY <2>1 DEF IsPow2
    <2>4. IsPow2(next, m + 1)
      BY <2>3 DEF IsPow2
    <2> QED
      BY <2>2, <2>4
  <1> HIDE DEF S
  <1>3. n \in S
    BY <1>1, <1>2, SetInduction
  <1> QED
    BY <1>3 DEF S

LEMMA Pow2Def ==
  /\ \A n \in 0 .. Bits + 1 : Pow2[n] \in Nat
  /\ Pow2[0] = 1
  /\ \A n \in 0 .. Bits : Pow2[n + 1] = 2 * Pow2[n]
  <1> USE MiniMallocConstants
  <1> DEFINE P == CHOOSE of : of = [i \in 0 .. Bits + 1 |-> IF i = 0 THEN 1 ELSE 2 * of[i - 1]]
  <1>1. \E of : of = [i \in 0 .. Bits + 1 |-> IF i = 0 THEN 1 ELSE 2 * of[i - 1]]
    <2>1. \E of \in [0 .. Bits + 1 -> Nat] : IsPow2(of, Bits + 1)
      <3>1. Bits + 1 \in Nat
        OBVIOUS
      <3> QED
        BY <3>1, Pow2Exists, Zenon
    <2> QED
      BY <2>1 DEF IsPow2
  <1>2. P = [i \in 0 .. Bits + 1 |-> IF i = 0 THEN 1 ELSE 2 * P[i - 1]]
    BY <1>1, Zenon
  <1>3. Pow2 = P
    BY Zenon DEF Pow2
  <1> HIDE DEF P
  <1>4. Pow2[0] = 1 /\ \A n \in 0 .. Bits : Pow2[n + 1] = 2 * Pow2[n]
    <2>1. \A i \in 0 .. Bits + 1 : P[i] = IF i = 0 THEN 1 ELSE 2 * P[i - 1]
      BY <1>2
    <2>2. P[0] = 1
      BY <2>1
    <2>3. \A n \in 0 .. Bits : P[n + 1] = 2 * P[n]
      BY <2>1
    <2> QED
      BY <1>3, <2>2, <2>3
  <1> DEFINE S == {n \in Nat : n <= Bits + 1 => Pow2[n] \in Nat}
  <1>5. 0 \in S
    BY <1>4
  <1>6. ASSUME NEW n \in Nat, n \in S PROVE n + 1 \in S
    BY <1>4, <1>6
  <1> HIDE DEF S
  <1>7. Nat \subseteq S
    BY <1>5, <1>6, SetInduction
  <1>8. \A i \in 0 .. Bits + 1 : Pow2[i] \in Nat
    BY <1>7 DEF S
  <1> QED
    BY <1>4, <1>8

LEMMA Pow2Grows ==
  /\ \A n \in 0 .. Bits + 1 : Pow2[n] >= n + 1
  /\ \A m, n \in 0 .. Bits + 1 : m <= n => Pow2[m] <= Pow2[n]
  <1> USE MiniMallocConstants
  <1> DEFINE S == {n \in Nat : n <= Bits + 1 => Pow2[n] >= n + 1}
  <1>1. 0 \in S
    BY Pow2Def
  <1>2. ASSUME NEW n \in Nat, n \in S PROVE n + 1 \in S
    <2> SUFFICES ASSUME n + 1 <= Bits + 1 PROVE Pow2[n + 1] >= (n + 1) + 1
      OBVIOUS
    <2>1. Pow2[n] \in Nat /\ Pow2[n] >= n + 1 /\ Pow2[n + 1] = 2 * Pow2[n]
      BY <1>2, Pow2Def
    <2> QED
      BY <2>1
  <1>3. ASSUME NEW m \in 0 .. Bits + 1
        PROVE  \A d \in Nat : m + d <= Bits + 1 => Pow2[m] <= Pow2[m + d]
    <2> DEFINE R == {d \in Nat : m + d <= Bits + 1 => Pow2[m] <= Pow2[m + d]}
    <2>1. 0 \in R
      BY Pow2Def
    <2>2. ASSUME NEW d \in Nat, d \in R PROVE d + 1 \in R
      <3> SUFFICES ASSUME m + (d + 1) <= Bits + 1 PROVE Pow2[m] <= Pow2[m + (d + 1)]
        OBVIOUS
      <3>1. Pow2[m] <= Pow2[m + d] /\ m + d \in 0 .. Bits
        BY <2>2
      <3>2. Pow2[(m + d) + 1] = 2 * Pow2[m + d]
        BY <3>1, Pow2Def
      <3>3. Pow2[m] \in Nat /\ Pow2[m + d] \in Nat /\ m + (d + 1) = (m + d) + 1
        BY <3>1, Pow2Def
      <3> QED
        BY <3>1, <3>2, <3>3
    <2> HIDE DEF R
    <2>3. Nat \subseteq R
      BY <2>1, <2>2, SetInduction
    <2> QED
      BY <2>3 DEF R
  <1> HIDE DEF S
  <1>4. Nat \subseteq S
    BY <1>1, <1>2, SetInduction
  <1>5. \A n \in 0 .. Bits + 1 : Pow2[n] >= n + 1
    BY <1>4 DEF S
  <1>6. ASSUME NEW m \in 0 .. Bits + 1, NEW n \in 0 .. Bits + 1, m <= n
        PROVE  Pow2[m] <= Pow2[n]
    <2>1. n - m \in Nat /\ m + (n - m) = n
      BY <1>6
    <2> QED
      BY <1>3, <2>1
  <1> QED
    BY <1>5, <1>6

LEMMA FourthGrows ==
  /\ \A a \in Nat : Fourth(a) \in Nat
  /\ \A a, b \in Nat : a <= b => Fourth(a) <= Fourth(b)
  /\ \A a, b \in Nat : a < b => Fourth(a) < Fourth(b)
  <1>1. \A a, b \in Nat : a <= b => a * a \in Nat /\ b * b \in Nat /\ a * a <= b * b
    OBVIOUS
  <1>2. \A a, b \in Nat : a < b => a * a \in Nat /\ b * b \in Nat /\ a * a < b * b
    OBVIOUS
  <1>3. \A a \in Nat : Fourth(a) \in Nat
    BY DEF Fourth
  <1>4. ASSUME NEW a \in Nat, NEW b \in Nat, a <= b PROVE Fourth(a) <= Fourth(b)
    <2> DEFINE c == a * a
               d == b * b
    <2>1. c \in Nat /\ d \in Nat /\ c <= d
      BY <1>1, <1>4
    <2> HIDE DEF c, d
    <2>2. c * c <= d * d
      BY <1>1, <2>1
    <2> QED
      BY <2>2 DEF Fourth, c, d
  <1>5. ASSUME NEW a \in Nat, NEW b \in Nat, a < b PROVE Fourth(a) < Fourth(b)
    <2> DEFINE c == a * a
               d == b * b
    <2>1. c \in Nat /\ d \in Nat /\ c < d
      BY <1>2, <1>5
    <2> HIDE DEF c, d
    <2>2. c * c < d * d
      BY <1>2, <2>1
    <2> QED
      BY <2>2 DEF Fourth, c, d
  <1> QED
    BY <1>3, <1>4, <1>5

LEMMA Pow2Sum ==
  ASSUME NEW m \in Nat, NEW n \in Nat, m + n <= Bits + 1
  PROVE  Pow2[m + n] = Pow2[m] * Pow2[n]
  <1> USE MiniMallocConstants
  <1> DEFINE S == {d \in Nat : m + d <= Bits + 1 => Pow2[m + d] = Pow2[m] * Pow2[d]}
  <1>1. 0 \in S
    <2>1. Pow2[0] = 1 /\ Pow2[m] \in Nat /\ m + 0 = m
      BY Pow2Def
    <2> QED
      BY <2>1
  <1>2. ASSUME NEW d \in Nat, d \in S PROVE d + 1 \in S
    <2> SUFFICES ASSUME m + (d + 1) <= Bits + 1 PROVE Pow2[m + (d + 1)] = Pow2[m] * Pow2[d + 1]
      OBVIOUS
    <2>1. Pow2[m + d] = Pow2[m] * Pow2[d]
      BY <1>2
    <2>2. m + d \in 0 .. Bits /\ d \in 0 .. Bits /\ m \in 0 .. Bits + 1
      OBVIOUS
    <2>3. Pow2[(m + d) + 1] = 2 * Pow2[m + d] /\ Pow2[d + 1] = 2 * Pow2[d]
      BY <2>2, Pow2Def
    <2>4. Pow2[m] \in Nat /\ Pow2[d] \in Nat
      BY <2>2, Pow2Def
    <2>5. m + (d + 1) = (m + d) + 1
      OBVIOUS
    <2>6. \A x, y \in Nat : 2 * (x * y) = x * (2 * y)
      OBVIOUS
    <2> QED
      BY <2>1, <2>3, <2>4, <2>5, <2>6
  <1> HIDE DEF S
  <1>3. n \in S
    BY <1>1, <1>2, SetInduction
  <1> QED
    BY <1>3 DEF S

LEMMA SmallPowers ==
  /\ Pow2[1] = 2 /\ Pow2[2] = 4 /\ Pow2[3] = 8 /\ Pow2[4] = 16 /\ Pow2[5] = 32
  /\ Pow2[6] = 64 /\ Pow2[7] = 128 /\ Pow2[8] = 256 /\ Pow2[9] = 512
  /\ Pow2[10] = 1024
  <1> USE MiniMallocConstants
  <1>1. \A n \in 0 .. 12 : Pow2[n + 1] = 2 * Pow2[n]
    BY Pow2Def
  <1>2. Pow2[0] = 1
    BY Pow2Def
  <1>3. Pow2[1] = 2 /\ Pow2[2] = 4 /\ Pow2[3] = 8
    <2>1. Pow2[0 + 1] = 2
      BY <1>1, <1>2
    <2>2. Pow2[1 + 1] = 4
      BY <1>1, <2>1
    <2>3. Pow2[2 + 1] = 8
      BY <1>1, <2>2
    <2> QED
      BY <2>1, <2>2, <2>3
  <1>4. Pow2[4] = 16 /\ Pow2[5] = 32 /\ Pow2[6] = 64
    <2>1. Pow2[3 + 1] = 16
      BY <1>1, <1>3
    <2>2. Pow2[4 + 1] = 32
      BY <1>1, <2>1
    <2>3. Pow2[5 + 1] = 64
      BY <1>1, <2>2
    <2> QED
      BY <2>1, <2>2, <2>3
  <1>5. Pow2[7] = 128 /\ Pow2[8] = 256 /\ Pow2[9] = 512 /\ Pow2[10] = 1024
    <2>1. Pow2[6 + 1] = 128
      BY <1>1, <1>4
    <2>2. Pow2[7 + 1] = 256
      BY <1>1, <2>1
    <2>3. Pow2[8 + 1] = 512
      BY <1>1, <2>2
    <2>4. Pow2[9 + 1] = 1024
      BY <1>1, <2>3
    <2> QED
      BY <2>1, <2>2, <2>3, <2>4
  <1> QED
    BY <1>3, <1>4, <1>5

LEMMA LargestFacts ==
  /\ LargestClassSize \in Nat /\ LargestClassSize >= 8
  /\ Fourth(LargestClassSize) = Pow2[Bits]
  <1> USE MiniMallocConstants
  <1> DEFINE q == Bits \div 4
  <1>1. q \in Nat /\ Bits = 4 * q /\ q >= 3
    OBVIOUS
  <1> HIDE DEF q
  <1>2. LargestClassSize = Pow2[q]
    BY DEF LargestClassSize, q
  <1>3. q \in 0 .. Bits + 1 /\ q + q \in 0 .. Bits + 1 /\ (q + q) + (q + q) = Bits
    BY <1>1
  <1>4. Pow2[q] \in Nat /\ Pow2[q] >= 8
    <2>1. Pow2[q] \in Nat
      BY <1>3, Pow2Def
    <2>2. 3 \in 0 .. Bits + 1 /\ Pow2[3] = 8
      BY SmallPowers
    <2>3. Pow2[3] <= Pow2[q]
      BY <1>1, <1>3, <2>2, Pow2Grows
    <2> QED
      BY <2>1, <2>2, <2>3
  <1>5. Pow2[q + q] = Pow2[q] * Pow2[q]
    BY <1>1, <1>3, Pow2Sum
  <1>6. Pow2[(q + q) + (q + q)] = Pow2[q + q] * Pow2[q + q]
    BY <1>3, Pow2Sum
  <1> QED
    BY <1>2, <1>3, <1>4, <1>5, <1>6 DEF Fourth

----------------------------------------------------------------------------
(* The size classes.                                                       *)

LEMMA Log2Facts ==
  ASSUME NEW n \in Nat, 1 <= n, n < Pow2[Bits + 1]
  PROVE  /\ Log2(n) \in 0 .. Bits
         /\ Pow2[Log2(n)] <= n
         /\ n < Pow2[Log2(n) + 1]
  <1> USE MiniMallocConstants
  <1> DEFINE T == {k \in 0 .. Bits + 1 : n < Pow2[k]}
  <1>1. PICK m \in T : \A k \in T : m <= k
    <2>1. T \subseteq Nat /\ Bits + 1 \in T
      OBVIOUS
    <2> HIDE DEF T
    <2> QED
      BY <2>1, NatMin
  <1>2. m # 0
    BY <1>1, Pow2Def
  <1>3. m - 1 \in 0 .. Bits /\ (m - 1) + 1 = m /\ m - 1 \notin T
    BY <1>1, <1>2
  <1>4. Pow2[m - 1] <= n /\ n < Pow2[(m - 1) + 1]
    BY <1>1, <1>3, Pow2Def
  <1>5. \E i \in 0 .. Bits : Pow2[i] <= n /\ n < Pow2[i + 1]
    BY <1>3, <1>4
  <1> QED
    BY <1>5 DEF Log2

LEMMA TableSizeFacts ==
  ASSUME NEW b \in 1 .. Bits
  PROVE  /\ TableSize(b) \in 1 .. LargestClassSize
         /\ Fourth(TableSize(b)) <= Pow2[b]
         /\ Pow2[b] < Fourth(TableSize(b) + 1)
  <1> USE MiniMallocConstants
  <1> DEFINE T == {v \in Nat : Pow2[b] < Fourth(v + 1)}
  <1>0. Pow2[b] \in Nat /\ Pow2[b] >= 2 /\ Pow2[b] <= Pow2[Bits] /\ Pow2[Bits] \in Nat
    <2>1. b \in 0 .. Bits + 1 /\ Bits \in 0 .. Bits + 1 /\ b <= Bits /\ b + 1 >= 2
      OBVIOUS
    <2>2. Pow2[b] \in Nat /\ Pow2[Bits] \in Nat
      BY <2>1, Pow2Def
    <2>3. Pow2[b] >= b + 1 /\ Pow2[b] <= Pow2[Bits]
      BY <2>1, Pow2Grows
    <2> QED
      BY <2>1, <2>2, <2>3
  <1>1. LargestClassSize \in T
    <2>1. Fourth(LargestClassSize) < Fourth(LargestClassSize + 1) /\ Fourth(LargestClassSize + 1) \in Nat
      BY LargestFacts, FourthGrows
    <2> QED
      BY <2>1, <1>0, LargestFacts
  <1>2. PICK m \in T : \A k \in T : m <= k
    <2>1. T \subseteq Nat
      OBVIOUS
    <2> HIDE DEF T
    <2> QED
      BY <2>1, <1>1, NatMin
  <1>3. m # 0
    <2>1. Fourth(0 + 1) = 1
      BY DEF Fourth
    <2> QED
      BY <2>1, <1>0, <1>2
  <1>4. m - 1 \in Nat /\ (m - 1) + 1 = m /\ m - 1 \notin T
    BY <1>2, <1>3
  <1>5. Fourth(m) <= Pow2[b]
    BY <1>0, <1>2, <1>4, FourthGrows
  <1>6. \E u \in 1 .. LargestClassSize : Fourth(u) <= Pow2[b] /\ Pow2[b] < Fourth(u + 1)
    BY <1>1, <1>2, <1>3, <1>5, LargestFacts
  <1> QED
    BY <1>6 DEF TableSize

\* A size that lies between two entries' bounds is the table's.
LEMMA TableSizeIs ==
  ASSUME NEW b \in 1 .. Bits, NEW u \in Nat,
         Fourth(u) <= Pow2[b], Pow2[b] < Fourth(u + 1)
  PROVE  TableSize(b) = u
  <1> DEFINE t == TableSize(b)
  <1>1. t \in Nat /\ Fourth(t) <= Pow2[b] /\ Pow2[b] < Fourth(t + 1)
    BY TableSizeFacts, LargestFacts
  <1> HIDE DEF t
  <1>2. Pow2[b] \in Nat
    BY Pow2Def, MiniMallocConstants
  <1>3. Fourth(t) \in Nat /\ Fourth(t + 1) \in Nat /\ Fourth(u) \in Nat /\ Fourth(u + 1) \in Nat
    BY <1>1, FourthGrows
  <1>4. ~ (t + 1 <= u)
    <2>1. t + 1 <= u => Fourth(t + 1) <= Fourth(u)
      BY <1>1, FourthGrows
    <2> QED
      BY <1>1, <1>2, <1>3, <2>1
  <1>5. ~ (u + 1 <= t)
    <2>1. u + 1 <= t => Fourth(u + 1) <= Fourth(t)
      BY <1>1, FourthGrows
    <2> QED
      BY <1>1, <1>2, <1>3, <2>1
  <1> QED
    BY <1>1, <1>4, <1>5 DEF t

LEMMA UpperFacts ==
  ASSUME NEW u \in Nat, 4 < u, u <= LargestClassSize
  PROVE  /\ get_size_index_upper(u) \in 4 .. LastClass
         /\ Pow2[get_size_index_upper(u) + 5] < Fourth(u)
         /\ Fourth(u) <= Pow2[get_size_index_upper(u) + 6]
  <1> USE MiniMallocConstants
  <1> DEFINE n == Fourth(u) - 1
             k == Log2(n)
  <1>1. Fourth(u) \in Nat /\ Fourth(u) >= 625 /\ Fourth(u) <= Pow2[Bits]
    <2>1. Fourth(5) = 625
      BY DEF Fourth
    <2>2. Fourth(5) <= Fourth(u) /\ Fourth(u) <= Fourth(LargestClassSize) /\ Fourth(u) \in Nat
      BY LargestFacts, FourthGrows
    <2> QED
      BY <2>1, <2>2, LargestFacts
  <1>2. Pow2[Bits] \in Nat /\ Pow2[Bits + 1] \in Nat /\ Pow2[Bits + 1] = 2 * Pow2[Bits]
    BY Pow2Def
  <1>3. n \in Nat /\ 1 <= n /\ n < Pow2[Bits] /\ n < Pow2[Bits + 1]
    BY <1>1, <1>2
  <1>4. k \in 0 .. Bits /\ Pow2[k] <= n /\ n < Pow2[k + 1]
    BY <1>3, Log2Facts
  <1>5. get_size_index_upper(u) = k - 5
    BY LargestFacts DEF get_size_index_upper
  <1> HIDE DEF k
  <1>6. k < Bits
    <2>1. Pow2[k] < Pow2[Bits] /\ Pow2[k] \in Nat
      BY <1>2, <1>3, <1>4, Pow2Def
    <2> QED
      BY <1>4, <2>1
  <1>7. k >= 9
    <2> SUFFICES ASSUME k + 1 <= 9 PROVE FALSE
      BY <1>4
    <2>1. k + 1 \in 0 .. Bits + 1 /\ 9 \in 0 .. Bits + 1
      BY <1>4
    <2>2. Pow2[k + 1] <= Pow2[9] /\ Pow2[9] = 512 /\ Pow2[k + 1] \in Nat
      BY <2>1, Pow2Grows, SmallPowers, Pow2Def
    <2> QED
      BY <2>2, <1>1, <1>4
  <1>8. (k - 5) + 5 = k /\ (k - 5) + 6 = k + 1 /\ k - 5 \in 4 .. LastClass
    BY <1>4, <1>6, <1>7 DEF LastClass
  <1>9. Pow2[k] \in Nat /\ Pow2[k + 1] \in Nat
    BY <1>4, Pow2Def
  <1>10. Pow2[k] < Fourth(u) /\ Fourth(u) <= Pow2[k + 1]
    BY <1>1, <1>4, <1>9
  <1> QED
    BY <1>5, <1>8, <1>10

LEMMA UpperType ==
  ASSUME NEW u \in Nat \ {0}
  PROVE  /\ get_size_index_upper(u) \in Class
         /\ u <= 4 => get_size_index_upper(u) = u - 1
         /\ u > LargestClassSize => get_size_index_upper(u) = LastClass
  <1> USE MiniMallocConstants
  <1>0. LastClass \in Nat /\ LastClass >= 6
    BY DEF LastClass
  <1>1. CASE u <= 4
    BY <1>0, <1>1, LargestFacts DEF get_size_index_upper, Class
  <1>2. CASE u > LargestClassSize
    BY <1>0, <1>2, LargestFacts DEF get_size_index_upper, Class
  <1>3. CASE 4 < u /\ u <= LargestClassSize
    BY <1>0, <1>3, UpperFacts, LargestFacts DEF Class
  <1> QED
    BY <1>1, <1>2, <1>3, LargestFacts

\* The first entries of the table are 1, 2, 3 and 4, written several times.
LEMMA TableStart ==
  /\ \A b \in 1 .. 3 : TableSize(b) = 1
  /\ \A b \in 4 .. 6 : TableSize(b) = 2
  /\ TableSize(7) = 3
  /\ \A b \in 8 .. 9 : TableSize(b) = 4
  /\ TableSize(10) = 5
  <1> USE MiniMallocConstants
  <1>1. /\ Fourth(1) = 1 /\ Fourth(1 + 1) = 16 /\ Fourth(2) = 16 /\ Fourth(2 + 1) = 81
        /\ Fourth(3) = 81 /\ Fourth(3 + 1) = 256 /\ Fourth(4) = 256 /\ Fourth(4 + 1) = 625
        /\ Fourth(5) = 625 /\ Fourth(5 + 1) = 1296
    BY DEF Fourth
  <1>2. TableSize(1) = 1 /\ TableSize(2) = 1 /\ TableSize(3) = 1
    BY <1>1, SmallPowers, TableSizeIs
  <1>3. TableSize(4) = 2 /\ TableSize(5) = 2 /\ TableSize(6) = 2
    BY <1>1, SmallPowers, TableSizeIs
  <1>4. TableSize(7) = 3
    BY <1>1, SmallPowers, TableSizeIs
  <1>5. TableSize(8) = 4 /\ TableSize(9) = 4
    BY <1>1, SmallPowers, TableSizeIs
  <1>6. TableSize(10) = 5
    BY <1>1, SmallPowers, TableSizeIs
  <1> QED
    BY <1>2, <1>3, <1>4, <1>5, <1>6

\* From the tenth entry on, each entry has a class of its own.
LEMMA TableClass ==
  ASSUME NEW b \in 10 .. Bits
  PROVE  /\ TableSize(b) > 4
         /\ get_size_index_upper(TableSize(b)) = b - 6
  <1> USE MiniMallocConstants
  <1> DEFINE t == TableSize(b)
             i == get_size_index_upper(t)
  <1>1. t \in 1 .. LargestClassSize /\ Fourth(t) <= Pow2[b] /\ Pow2[b] < Fourth(t + 1)
    BY TableSizeFacts
  <1>2. t \in Nat /\ t <= LargestClassSize
    BY <1>1, LargestFacts
  <1>3. Pow2[b] \in Nat /\ Pow2[b - 1] \in Nat /\ Pow2[b] = 2 * Pow2[b - 1] /\ Pow2[b] >= 1024
    <2>1. Pow2[(b - 1) + 1] = 2 * Pow2[b - 1] /\ (b - 1) + 1 = b
      BY Pow2Def
    <2>2. Pow2[10] <= Pow2[b]
      BY Pow2Grows
    <2> QED
      BY <2>1, <2>2, Pow2Def, SmallPowers
  <1>4. t > 4
    <2> SUFFICES ASSUME t + 1 <= 5 PROVE FALSE
      BY <1>2
    <2>1. Fourth(t + 1) <= Fourth(5) /\ Fourth(t + 1) \in Nat
      BY <1>2, FourthGrows
    <2>2. Fourth(5) = 625
      BY DEF Fourth
    <2> QED
      BY <1>1, <1>3, <2>1, <2>2
  <1>5. i \in 4 .. LastClass /\ Pow2[i + 5] < Fourth(t) /\ Fourth(t) <= Pow2[i + 6]
    BY <1>2, <1>4, UpperFacts
  <1>6. Pow2[b - 1] < Fourth(t)
    <2>1. CASE b = 10
      <3>1. t = 5 /\ Pow2[b - 1] = 512
        BY <2>1, TableStart, SmallPowers
      <3>2. Fourth(5) = 625
        BY DEF Fourth
      <3> QED
        BY <3>1, <3>2
    <2>2. CASE b > 10
      <3>1. Pow2[11] = 2048 /\ Pow2[11] <= Pow2[b]
        <4>1. Pow2[10 + 1] = 2 * Pow2[10]
          BY Pow2Def
        <4>2. b \in 0 .. Bits + 1 /\ 11 \in 0 .. Bits + 1 /\ 11 <= b
          BY <2>2
        <4> QED
          BY <4>1, <4>2, SmallPowers, Pow2Grows
      <3>2. t >= 6
        <4> SUFFICES ASSUME t + 1 <= 6 PROVE FALSE
          BY <1>2
        <4>1. Fourth(t + 1) <= Fourth(6) /\ Fourth(t + 1) \in Nat
          BY <1>2, FourthGrows
        <4>2. Fourth(6) = 1296
          BY DEF Fourth
        <4> QED
          BY <1>1, <1>3, <3>1, <4>1, <4>2
      <3>3. Fourth(t + 1) < 2 * Fourth(t)
        <4> DEFINE x == t * t
                   y == (t + 1) * (t + 1)
        <4>1. x \in Nat /\ y \in Nat /\ 36 * y <= 49 * x /\ x > 0
          <5>1. t * t \in Nat /\ (t + 1) * (t + 1) = t * t + 2 * t + 1 /\ 6 * t <= t * t
            BY <1>2, <3>2
          <5>2. 36 * (t * t + 2 * t + 1) <= 49 * (t * t)
            <6>1. 72 * t + 36 <= 13 * (t * t)
              BY <1>2, <3>2, <5>1
            <6> QED
              BY <1>2, <5>1, <6>1
          <5> QED
            BY <1>2, <3>2, <5>1, <5>2
        <4> HIDE DEF x, y
        <4>2. (36 * y) * (36 * y) <= (49 * x) * (49 * x)
          BY <4>1
        <4>3. 1296 * (y * y) <= 2401 * (x * x) /\ x * x > 0 /\ x * x \in Nat /\ y * y \in Nat
          BY <4>1, <4>2
        <4>4. y * y < 2 * (x * x)
          BY <4>3
        <4> QED
          BY <4>4 DEF Fourth, x, y
      <3>4. Fourth(t) \in Nat /\ Fourth(t + 1) \in Nat
        BY <1>2, FourthGrows
      <3> QED
        BY <1>1, <1>3, <3>3, <3>4
    <2> QED
      BY <2>1, <2>2
  <1> HIDE DEF i
  <1>7. Fourth(t) \in Nat /\ i + 5 \in 0 .. Bits /\ i + 6 \in 0 .. Bits + 1
    BY <1>2, <1>5, FourthGrows DEF LastClass
  <1>8. Pow2[i + 5] \in Nat /\ Pow2[i + 6] \in Nat
    BY <1>7, Pow2Def
  <1>9. Pow2[i + 5] < Pow2[b] /\ Pow2[b - 1] < Pow2[i + 6]
    BY <1>1, <1>3, <1>5, <1>6, <1>7, <1>8
  <1>10. ~ (b <= i + 5)
    <2>1. b <= i + 5 => Pow2[b] <= Pow2[i + 5]
      BY <1>7, Pow2Grows
    <2> QED
      BY <1>3, <1>8, <1>9, <2>1
  <1>11. ~ (i + 6 <= b - 1)
    <2>1. i + 6 <= b - 1 => Pow2[i + 6] <= Pow2[b - 1]
      BY <1>7, Pow2Grows
    <2> QED
      BY <1>3, <1>8, <1>9, <2>1
  <1>12. i = b - 6
    BY <1>5, <1>10, <1>11
  <1> QED
    BY <1>4, <1>12 DEF i

\* The class of each entry of the table.
LEMMA EntryClass ==
  ASSUME NEW b \in 1 .. Bits
  PROVE  get_size_index_upper(TableSize(b)) =
             CASE b <= 3 -> 0 [] 3 < b /\ b <= 6 -> 1 [] b = 7 -> 2
               [] b = 8 \/ b = 9 -> 3 [] OTHER -> b - 6
  <1> USE MiniMallocConstants
  <1>1. CASE b \in 1 .. 3
    BY <1>1, TableStart, UpperType
  <1>2. CASE b \in 4 .. 6
    BY <1>2, TableStart, UpperType
  <1>3. CASE b = 7
    BY <1>3, TableStart, UpperType
  <1>4. CASE b \in 8 .. 9
    BY <1>4, TableStart, UpperType
  <1>5. CASE b \in 10 .. Bits
    BY <1>5, TableClass
  <1> QED
    BY <1>1, <1>2, <1>3, <1>4, <1>5

\* The entry that a class ends up with.
Entry(i) == CASE i = 0 -> 3 [] i = 1 -> 6 [] i = 2 -> 7 [] i = 3 -> 9 [] OTHER -> i + 6

LEMMA SizesAre ==
  ASSUME NEW i \in Class
  PROVE  sizes[i] = TableSize(Entry(i)) /\ Entry(i) \in 1 .. Bits
  <1> USE MiniMallocConstants
  <1> DEFINE written == {b \in 1 .. Bits : get_size_index_upper(TableSize(b)) = i}
             last == CHOOSE b \in written : \A c \in written : c <= b
  <1>1. Entry(i) \in 1 .. Bits
    BY DEF Entry, Class, LastClass
  <1>2. Entry(i) \in written
    <2>1. get_size_index_upper(TableSize(Entry(i))) = i
      BY <1>1, EntryClass DEF Entry, Class
    <2> QED
      BY <1>1, <2>1
  <1>3. ASSUME NEW c \in written PROVE c <= Entry(i)
    <2>1. c \in 1 .. Bits /\ get_size_index_upper(TableSize(c)) = i
      OBVIOUS
    <2> QED
      BY <2>1, EntryClass DEF Entry, Class
  <1>4. written \subseteq Nat
    OBVIOUS
  <1> HIDE DEF written
  <1>5. last \in written /\ \A c \in written : c <= last
    BY <1>2, <1>3
  <1>6. last = Entry(i)
    <2>1. last <= Entry(i) /\ Entry(i) <= last /\ last \in Nat /\ Entry(i) \in Nat
      BY <1>2, <1>3, <1>4, <1>5
    <2> HIDE DEF last
    <2> QED
      BY <2>1
  <1>7. sizes[i] = IF written = {} THEN 0 ELSE TableSize(last)
    BY DEF sizes, written
  <1> QED
    BY <1>1, <1>2, <1>6, <1>7

\* The sizes of the classes: the first is one unit, and they grow.
LEMMA SizesFacts ==
  /\ \A i \in Class : sizes[i] \in 1 .. LargestClassSize
  /\ sizes[0] = 1 /\ sizes[1] = 2 /\ sizes[2] = 3 /\ sizes[3] = 4
  /\ \A i, j \in Class : i < j => sizes[i] < sizes[j]
  /\ \A i \in 4 .. LastClass : sizes[i] > 4 /\ Fourth(sizes[i]) <= Pow2[i + 6]
                                 /\ Pow2[i + 6] < Fourth(sizes[i] + 1)
  <1> USE MiniMallocConstants
  <1>0. LastClass \in Nat /\ LastClass = Bits - 6 /\ LastClass >= 6 /\ Class = 0 .. LastClass
    BY DEF LastClass, Class
  <1>1. \A i \in Class : sizes[i] \in 1 .. LargestClassSize
    BY SizesAre, TableSizeFacts
  <1>2. sizes[0] = 1 /\ sizes[1] = 2 /\ sizes[2] = 3 /\ sizes[3] = 4
    <2>1. Entry(0) = 3 /\ Entry(1) = 6 /\ Entry(2) = 7 /\ Entry(3) = 9
      BY DEF Entry
    <2>2. 0 \in Class /\ 1 \in Class /\ 2 \in Class /\ 3 \in Class
      BY <1>0
    <2> QED
      BY <2>1, <2>2, SizesAre, TableStart
  <1>3. ASSUME NEW i \in 4 .. LastClass
        PROVE  sizes[i] > 4 /\ Fourth(sizes[i]) <= Pow2[i + 6]
                 /\ Pow2[i + 6] < Fourth(sizes[i] + 1)
    <2>1. i \in Class /\ Entry(i) = i + 6 /\ i + 6 \in 10 .. Bits /\ i + 6 \in 1 .. Bits
      BY <1>0 DEF Entry
    <2>2. sizes[i] = TableSize(i + 6)
      BY <2>1, SizesAre
    <2>3. TableSize(i + 6) > 4
      BY <2>1, TableClass
    <2>4. Fourth(TableSize(i + 6)) <= Pow2[i + 6] /\ Pow2[i + 6] < Fourth(TableSize(i + 6) + 1)
      BY <2>1, TableSizeFacts
    <2> QED
      BY <2>2, <2>3, <2>4
  <1>4. ASSUME NEW i \in Class, NEW j \in Class, i < j PROVE sizes[i] < sizes[j]
    <2>0. sizes[i] \in Nat /\ sizes[j] \in Nat /\ i \in Nat /\ j \in Nat
      BY <1>0, <1>1, LargestFacts
    <2>1. CASE j <= 3
      <3>1. i \in 0 .. 2 /\ j \in 1 .. 3
        BY <1>0, <1>4, <2>1
      <3> QED
        BY <1>2, <1>4, <3>1
    <2>2. CASE i <= 3 /\ 3 < j
      <3>1. i \in 0 .. 3 /\ j \in 4 .. LastClass
        BY <1>0, <2>2
      <3>2. sizes[j] > 4
        BY <1>3, <3>1
      <3>3. sizes[i] <= 4
        BY <1>2, <3>1
      <3> QED
        BY <2>0, <3>2, <3>3
    <2>3. CASE 3 < i
      <3> DEFINE k == (i + 6) + 1
      <3>1. i \in 4 .. LastClass /\ j \in 4 .. LastClass /\ i + 6 \in 10 .. Bits /\ k <= j + 6
        BY <1>0, <1>4, <2>3
      <3>2. Fourth(sizes[i]) <= Pow2[i + 6] /\ Fourth(sizes[j]) <= Pow2[j + 6]
              /\ Pow2[j + 6] < Fourth(sizes[j] + 1) /\ j + 6 \in 10 .. Bits
        BY <1>0, <1>3, <3>1
      <3>3. get_size_index_upper(TableSize(i + 6)) = i /\ get_size_index_upper(TableSize(j + 6)) = j
        <4>1. (i + 6) - 6 = i /\ (j + 6) - 6 = j
          BY <2>0
        <4> QED
          BY <3>1, <3>2, <4>1, TableClass
      <3>4. sizes[i] = TableSize(i + 6) /\ sizes[j] = TableSize(j + 6)
        BY <1>0, <2>3, <3>1, SizesAre, SMTT(30) DEF Entry
      <3>5. sizes[i] # sizes[j]
        BY <1>4, <2>0, <3>3, <3>4
      <3>6. ~ (sizes[j] < sizes[i])
        <4>1. Pow2[i + 6] <= Pow2[j + 6]
          BY <1>4, <3>1, <3>2, Pow2Grows
        <4>2. sizes[j] < sizes[i] => Fourth(sizes[j] + 1) <= Fourth(sizes[i])
          BY <2>0, FourthGrows
        <4>3. Fourth(sizes[j] + 1) \in Nat /\ Fourth(sizes[i]) \in Nat
          BY <2>0, FourthGrows
        <4>4. Pow2[i + 6] \in Nat /\ Pow2[j + 6] \in Nat
          BY <3>1, <3>2, Pow2Def
        <4> QED
          BY <3>2, <4>1, <4>2, <4>3, <4>4
      <3> QED
        BY <2>0, <3>5, <3>6
    <2> QED
      BY <2>0, <2>1, <2>2, <2>3
  <1> QED
    BY <1>1, <1>2, <1>3, <1>4

\* A class's size suffices for what is put into it from above, and no
\* smaller class's does.
LEMMA UpperFits ==
  ASSUME NEW u \in Nat \ {0}
  PROVE  /\ u <= LargestClassSize => u <= sizes[get_size_index_upper(u)]
         /\ u <= LargestClassSize =>
              \A j \in Class : j < get_size_index_upper(u) => sizes[j] < u
  <1> USE MiniMallocConstants
  <1> SUFFICES ASSUME u <= LargestClassSize
               PROVE  /\ u <= sizes[get_size_index_upper(u)]
                      /\ \A j \in Class : j < get_size_index_upper(u) => sizes[j] < u
    OBVIOUS
  <1> DEFINE i == get_size_index_upper(u)
  <1>0. i \in Class /\ i \in Nat /\ sizes[i] \in Nat /\ LargestClassSize \in Nat
    BY UpperType, SizesFacts, LargestFacts DEF Class, LastClass
  <1>1. CASE u <= 4
    <2>1. i = u - 1 /\ u \in 1 .. 4
      BY <1>1, UpperType
    <2>2. sizes[i] = u
      BY <2>1, SizesFacts
    <2>3. \A j \in Class : j < i => sizes[j] < sizes[i]
      BY <1>0, SizesFacts
    <2> HIDE DEF i
    <2> QED
      BY <1>0, <2>2, <2>3 DEF i
  <1>2. CASE 4 < u
    <2>1. i \in 4 .. LastClass /\ Pow2[i + 5] < Fourth(u) /\ Fourth(u) <= Pow2[i + 6]
      BY <1>2, UpperFacts
    <2>2. Pow2[i + 6] < Fourth(sizes[i] + 1)
      BY <2>1, SizesFacts
    <2> HIDE DEF i
    <2>3. i + 5 \in 0 .. Bits + 1 /\ i + 6 \in 0 .. Bits + 1
      BY <2>1 DEF LastClass
    <2>4. Fourth(u) \in Nat /\ Fourth(sizes[i] + 1) \in Nat /\ Pow2[i + 5] \in Nat /\ Pow2[i + 6] \in Nat
      BY <1>0, <2>3, FourthGrows, Pow2Def
    <2>5. u <= sizes[i]
      <3>1. sizes[i] < u => Fourth(sizes[i] + 1) <= Fourth(u)
        BY <1>0, FourthGrows
      <3> QED
        BY <1>0, <2>1, <2>2, <2>4, <3>1
    <2>6. ASSUME NEW j \in Class, j < i PROVE sizes[j] < u
      <3>0. sizes[j] \in Nat /\ j \in Nat /\ LastClass \in Nat
        BY SizesFacts, LargestFacts DEF Class, LastClass
      <3>1. CASE j <= 3
        <4>1. j \in 0 .. 3
          BY <3>0, <3>1
        <4>2. sizes[j] <= 4
          BY <4>1, SizesFacts
        <4> QED
          BY <1>2, <3>0, <4>2
      <3>2. CASE 3 < j
        <4>1. j \in 4 .. LastClass /\ j + 6 <= i + 5 /\ j + 6 \in 0 .. Bits + 1
          BY <2>1, <2>3, <2>6, <3>0, <3>2
        <4>2. Fourth(sizes[j]) <= Pow2[j + 6] /\ Pow2[j + 6] <= Pow2[i + 5]
          BY <2>3, <4>1, SizesFacts, Pow2Grows
        <4>3. u <= sizes[j] => Fourth(u) <= Fourth(sizes[j])
          BY <3>0, FourthGrows
        <4>4. Fourth(sizes[j]) \in Nat /\ Pow2[j + 6] \in Nat
          BY <3>0, <4>1, FourthGrows, Pow2Def
        <4> QED
          BY <2>1, <2>4, <3>0, <4>2, <4>3, <4>4
      <3> QED
        BY <3>0, <3>1, <3>2
    <2> QED
      BY <2>5, <2>6 DEF i
  <1> QED
    BY <1>1, <1>2

\* Going down from the upper class finds the largest class that fits.
LEMMA LowerFacts ==
  ASSUME NEW u \in Nat \ {0}
  PROVE  /\ get_size_index_lower(u) \in Class
         /\ get_size_index_lower(u) <= get_size_index_upper(u)
         /\ sizes[get_size_index_lower(u)] <= u
         /\ \A j \in Class : sizes[j] <= u => j <= get_size_index_lower(u)
  <1> DEFINE i == get_size_index_upper(u)
             T == {j \in 0 .. i : sizes[j] <= u}
             low == get_size_index_lower(u)
  <1>0. i \in Class /\ i \in Nat /\ LastClass \in Nat /\ Class = 0 .. LastClass
    BY UpperType, MiniMallocConstants DEF Class, LastClass
  <1>1. PICK m \in T : \A j \in T : j <= m
    <2>1. 0 \in T
      BY <1>0, SizesFacts
    <2>2. T \subseteq Nat /\ \A j \in T : j <= i
      BY <1>0
    <2> HIDE DEF T
    <2> QED
      BY <1>0, <2>1, <2>2, NatMax
  <1>2. \A j \in 0 .. i : sizes[j] \in Nat
    BY <1>0, SizesFacts, LargestFacts
  <1>3. /\ m \in 0 .. i /\ sizes[m] <= u
        /\ \A j \in m + 1 .. i : u < sizes[j]
    BY <1>0, <1>1, <1>2
  <1>4. /\ low \in 0 .. i /\ sizes[low] <= u
        /\ \A j \in low + 1 .. i : u < sizes[j]
    <2> HIDE DEF T
    <2> QED
      BY <1>3 DEF get_size_index_lower
  <1> HIDE DEF low, T, i
  <1>5. ASSUME NEW j \in Class, sizes[j] <= u PROVE j <= low
    <2>1. j \in Nat /\ low \in Nat /\ sizes[j] \in Nat
      BY <1>0, <1>4, SizesFacts, LargestFacts
    <2>2. CASE j <= i
      BY <1>0, <1>4, <1>5, <2>1, <2>2
    <2>3. CASE i < j
      <3>1. sizes[i] < sizes[j] /\ sizes[i] \in Nat
        BY <1>0, <1>5, <2>1, <2>3, SizesFacts, LargestFacts
      <3>2. u <= LargestClassSize
        BY <1>0, <2>1, <2>3, UpperType, LargestFacts DEF i
      <3>3. u <= sizes[i]
        BY <3>2, UpperFits DEF i
      <3> QED
        BY <1>5, <2>1, <3>1, <3>3
    <2> QED
      BY <1>0, <2>1, <2>2, <2>3
  <1> QED
    BY <1>0, <1>4, <1>5 DEF low, i

LEMMA RoundedFacts ==
  ASSUME NEW u \in Request
  PROVE  /\ u \in Nat \ {0}
         /\ Rounded(u) \in Nat \ {0}
         /\ u <= Rounded(u)
         /\ get_size_index_upper(u) \in Class
         /\ get_size_index_upper(u) < LastClass =>
              Rounded(u) = sizes[get_size_index_upper(u)]
         /\ get_size_index_upper(u) = LastClass => Rounded(u) = u
  <1> DEFINE i == get_size_index_upper(u)
  <1>1. u \in Nat \ {0} /\ LastClass \in Nat /\ Class = 0 .. LastClass
    BY MiniMallocConstants DEF Class, LastClass
  <1>2. i \in Class /\ (u > LargestClassSize => i = LastClass)
    BY <1>1, UpperType
  <1>3. sizes[i] \in Nat \ {0} /\ LargestClassSize \in Nat
    BY <1>2, SizesFacts, LargestFacts
  <1>4. u <= LargestClassSize => u <= sizes[i]
    BY <1>1, UpperFits
  <1> HIDE DEF i
  <1>5. Rounded(u) = IF i < LastClass THEN sizes[i] ELSE u
    BY DEF Rounded, i
  <1>6. CASE i < LastClass
    BY <1>1, <1>2, <1>3, <1>4, <1>5, <1>6 DEF i
  <1>7. CASE ~ (i < LastClass)
    BY <1>1, <1>2, <1>5, <1>7 DEF i
  <1> QED
    BY <1>6, <1>7

----------------------------------------------------------------------------
(* The free lists of a heap, with a class for each node that is listed and *)
(* a rank that goes down along each list, so that no list is a cycle.      *)

HeapOver(D) == [node : [D -> NodeType], free_nodes : [Class -> Addr \union {NULL}]]

Before(h, F, class, a) ==
    \/ h.node[a].prev = Head(class[a]) /\ h.free_nodes[class[a]] = a
    \/ /\ h.node[a].prev \in F
       /\ h.node[h.node[a].prev].next = a

After(h, F, class, rank, a) ==
    h.node[a].next # NULL =>
        /\ h.node[a].next \in F
        /\ h.node[h.node[a].next].prev = a
        /\ class[h.node[a].next] = class[a]
        /\ rank[h.node[a].next] < rank[a]

First(h, F, class, i) ==
    h.free_nodes[i] # NULL =>
        /\ h.free_nodes[i] \in F
        /\ class[h.free_nodes[i]] = i
        /\ h.node[h.free_nodes[i]].prev = Head(i)

Listed(h, F, class, rank) ==
    /\ \A i \in Class : First(h, F, class, i)
    /\ \A a \in F : Before(h, F, class, a) /\ After(h, F, class, rank, a)

LEMMA HeadFacts ==
  ASSUME arena \in Nat \ {0}
  PROVE  /\ \A i \in Class : Head(i) < 0 /\ -1 - Head(i) = i /\ Head(i) \in Int
         /\ \A i, j \in Class : Head(i) = Head(j) => i = j
         /\ \A a \in Addr : a > 0 /\ a \in Int
         /\ \A i \in Class : Head(i) \notin Addr /\ Head(i) # NULL
         /\ NULL \notin Addr
  <1>1. Class \subseteq Nat
    BY MiniMallocConstants DEF Class, LastClass
  <1> QED
    BY <1>1 DEF Head, Addr, NULL

\* g is h with the nodes p and n attached.
Attached(h, g, p, n, D) ==
    /\ g \in HeapOver(D)
    /\ \A i \in Class : g.free_nodes[i] = IF p = Head(i) THEN n ELSE h.free_nodes[i]
    /\ \A x \in D :
         /\ g.node[x].next = IF x = p THEN n ELSE h.node[x].next
         /\ g.node[x].prev = IF x = n THEN p ELSE h.node[x].prev
         /\ g.node[x].size = h.node[x].size
         /\ g.node[x].prev_size = h.node[x].prev_size
         /\ g.node[x].allocated = h.node[x].allocated
         /\ x # p /\ x # n => g.node[x] = h.node[x]

\* What attach_free_nodes writes.
LEMMA AttachFacts ==
  ASSUME arena \in Nat \ {0}, NEW D \in SUBSET Addr, NEW h \in HeapOver(D),
         NEW p \in {Head(i) : i \in Class} \union D, NEW n \in D \union {NULL}
  PROVE  Attached(h, attach_free_nodes(h, p, n), p, n, D)
  <1>0. p # NULL /\ p \in Link /\ n \in Link \ {Head(i) : i \in Class}
    BY HeadFacts DEF Link
  <1> DEFINE f == SetNext(h, p, n)
             g == IF n # NULL THEN SetPrev(f, n, p) ELSE f
  <1>1. attach_free_nodes(h, p, n) = g
    BY <1>0 DEF attach_free_nodes
  <1>2. /\ f \in HeapOver(D)
        /\ \A i \in Class : f.free_nodes[i] = IF p = Head(i) THEN n ELSE h.free_nodes[i]
        /\ \A x \in D :
             /\ f.node[x].next = IF x = p THEN n ELSE h.node[x].next
             /\ f.node[x].prev = h.node[x].prev
             /\ f.node[x].size = h.node[x].size
             /\ f.node[x].prev_size = h.node[x].prev_size
             /\ f.node[x].allocated = h.node[x].allocated
             /\ x # p => f.node[x] = h.node[x]
    <2>1. CASE p \in D
      <3>1. p > 0 /\ f = [h EXCEPT !.node[p].next = n]
        BY <2>1, HeadFacts DEF SetNext
      <3>2. f.free_nodes = h.free_nodes /\ f.node = [h.node EXCEPT ![p].next = n]
        BY <3>1 DEF HeapOver
      <3>3. f = [node |-> f.node, free_nodes |-> f.free_nodes]
        BY <3>1 DEF HeapOver
      <3>4. [h.node[p] EXCEPT !.next = n] \in NodeType
        <4>1. h.node[p] \in NodeType
          BY <2>1 DEF HeapOver
        <4> QED
          BY <4>1, <1>0 DEF NodeType
      <3>5. f.node \in [D -> NodeType]
        BY <2>1, <3>2, <3>4 DEF HeapOver
      <3>6. f \in HeapOver(D)
        BY <3>2, <3>3, <3>5 DEF HeapOver
      <3>7. \A i \in Class : p # Head(i)
        BY <2>1, HeadFacts
      <3>8. \A x \in D : f.node[x] = IF x = p THEN [h.node[p] EXCEPT !.next = n] ELSE h.node[x]
        BY <2>1, <3>2 DEF HeapOver
      <3>9. h.node[p] \in NodeType
        BY <2>1 DEF HeapOver
      <3> HIDE DEF f
      <3> QED
        BY <3>2, <3>6, <3>7, <3>8, <3>9 DEF NodeType
    <2>2. CASE p \notin D
      <3>1. PICK i \in Class : p = Head(i)
        BY <2>2
      <3>2. p < 0 /\ -1 - p = i
        BY <3>1, HeadFacts
      <3>3. f = [h EXCEPT !.free_nodes[-1 - p] = n]
        BY <3>2 DEF SetNext
      <3>4. f = [h EXCEPT !.free_nodes[i] = n]
        BY <3>2, <3>3
      <3>5. f.node = h.node /\ f.free_nodes = [h.free_nodes EXCEPT ![i] = n]
              /\ f = [node |-> f.node, free_nodes |-> f.free_nodes]
        BY <3>4 DEF HeapOver
      <3>6. f.free_nodes \in [Class -> Addr \union {NULL}]
        BY <3>5 DEF HeapOver
      <3>7. f \in HeapOver(D)
        BY <3>5, <3>6 DEF HeapOver
      <3>8. \A j \in Class : f.free_nodes[j] = IF p = Head(j) THEN n ELSE h.free_nodes[j]
        BY <3>1, <3>5, HeadFacts DEF HeapOver
      <3> HIDE DEF f
      <3> QED
        BY <2>2, <3>5, <3>7, <3>8
    <2> QED
      BY <2>1, <2>2
  <1> HIDE DEF f
  <1>3. CASE n = NULL
    <2>1. n \notin D /\ g = f
      BY <1>3, HeadFacts
    <2> HIDE DEF g
    <2> QED
      BY <1>1, <1>2, <2>1 DEF Attached
  <1>4. CASE n # NULL
    <2>1. n \in D /\ g = [f EXCEPT !.node[n].prev = p]
      BY <1>4 DEF SetPrev
    <2>2. g.free_nodes = f.free_nodes /\ g.node = [f.node EXCEPT ![n].prev = p]
            /\ g = [node |-> g.node, free_nodes |-> g.free_nodes]
      BY <1>2, <2>1 DEF HeapOver
    <2>3. f.node[n] \in NodeType
      BY <1>2, <2>1 DEF HeapOver
    <2>4. [f.node[n] EXCEPT !.prev = p] \in NodeType
      BY <1>0, <2>3 DEF NodeType
    <2>5. g.node \in [D -> NodeType]
      BY <1>2, <2>1, <2>2, <2>4 DEF HeapOver
    <2>6. g \in HeapOver(D)
      BY <1>2, <2>2, <2>5 DEF HeapOver
    <2>7. \A x \in D : g.node[x] = IF x = n THEN [f.node[n] EXCEPT !.prev = p] ELSE f.node[x]
      BY <1>2, <2>1, <2>2 DEF HeapOver
    <2> HIDE DEF g
    <2>8. \A x \in D :
             /\ g.node[x].next = IF x = p THEN n ELSE h.node[x].next
             /\ g.node[x].prev = IF x = n THEN p ELSE h.node[x].prev
             /\ g.node[x].size = h.node[x].size
             /\ g.node[x].prev_size = h.node[x].prev_size
             /\ g.node[x].allocated = h.node[x].allocated
             /\ x # p /\ x # n => g.node[x] = h.node[x]
      BY <1>2, <2>1, <2>3, <2>7 DEF NodeType
    <2> QED
      BY <1>1, <1>2, <2>2, <2>6, <2>8 DEF Attached
  <1> QED
    BY <1>3, <1>4

\* What two heaps over the same nodes share when only links differ.
SameSizes(h, u, D) ==
    \A x \in D : /\ u.node[x].size = h.node[x].size
                 /\ u.node[x].prev_size = h.node[x].prev_size
                 /\ u.node[x].allocated = h.node[x].allocated

\* u is h with a node that was one of F taken out of its list.
Unlinked(h, u, D, F, a, class, rank) ==
    /\ u \in HeapOver(D)
    /\ Listed(u, F \ {a}, class, rank)
    /\ SameSizes(h, u, D)
    /\ \A x \in D \ F : u.node[x] = h.node[x]

\* v is h with node a put first in a list.
Prepended(h, v, D, F, a, class, rank) ==
    /\ v \in HeapOver(D)
    /\ Listed(v, F \union {a}, class, rank)
    /\ SameSizes(h, v, D)
    /\ \A x \in D \ (F \union {a}) : v.node[x] = h.node[x]

\* Taking a node out of its list leaves the lists of the others.
LEMMA UnlinkFacts ==
  ASSUME arena \in Nat \ {0}, NEW D \in SUBSET Addr, NEW h \in HeapOver(D),
         NEW F \in SUBSET D, NEW class \in [Addr -> Class], NEW rank \in [Addr -> Nat],
         Listed(h, F, class, rank), NEW a \in F
  PROVE  Unlinked(h, Unlink(h, a), D, F, a, class, rank)
  <1> DEFINE p == h.node[a].prev
             n == h.node[a].next
             u == Unlink(h, a)
  <1>0. /\ F \subseteq Addr
        /\ \A x \in F : x \in Int /\ x # NULL /\ class[x] \in Class /\ rank[x] \in Nat
        /\ \A x \in F : \A i \in Class : Head(i) # x /\ Head(i) \notin F
    BY HeadFacts
  <1>1. Before(h, F, class, a) /\ After(h, F, class, rank, a)
    BY DEF Listed
  <1>2. \/ p = Head(class[a]) /\ h.free_nodes[class[a]] = a
        \/ p \in F /\ h.node[p].next = a
    BY <1>1 DEF Before
  <1>3. n # NULL => n \in F /\ h.node[n].prev = a /\ class[n] = class[a] /\ rank[n] < rank[a]
    BY <1>1 DEF After
  <1>4. p \in {Head(i) : i \in Class} \union D /\ n \in D \union {NULL}
    BY <1>0, <1>2, <1>3
  <1>5. p \in F => class[p] = class[a] /\ rank[a] < rank[p]
    <2> SUFFICES ASSUME p \in F PROVE class[p] = class[a] /\ rank[a] < rank[p]
      OBVIOUS
    <2>1. After(h, F, class, rank, p) /\ h.node[p].next = a
      BY <1>0, <1>2 DEF Listed
    <2> QED
      BY <1>0, <2>1 DEF After
  <1>6. /\ u \in HeapOver(D)
        /\ \A i \in Class : u.free_nodes[i] = IF p = Head(i) THEN n ELSE h.free_nodes[i]
        /\ \A x \in D :
             /\ u.node[x].next = IF x = p THEN n ELSE h.node[x].next
             /\ u.node[x].prev = IF x = n THEN p ELSE h.node[x].prev
             /\ u.node[x].size = h.node[x].size
             /\ u.node[x].prev_size = h.node[x].prev_size
             /\ u.node[x].allocated = h.node[x].allocated
             /\ x # p /\ x # n => u.node[x] = h.node[x]
    <2>1. u = attach_free_nodes(h, p, n)
      BY DEF Unlink
    <2> HIDE DEF p, n, u
    <2>2. Attached(h, u, p, n, D)
      BY <1>4, <2>1, AttachFacts
    <2> QED
      BY <2>2 DEF Attached
  <1>7. n # a /\ p # a
    BY <1>0, <1>3, <1>5
  <1> HIDE DEF p, n, u
  <1>8. ASSUME NEW i \in Class PROVE First(u, F \ {a}, class, i)
    <2>1. First(h, F, class, i)
      BY DEF Listed
    <2> DEFINE f == h.free_nodes[i]
    <2>2. CASE p = Head(i)
      <3>1. i = class[a]
        BY <1>0, <1>2, <2>2, HeadFacts
      <3>2. u.free_nodes[i] = n
        BY <1>6, <2>2
      <3>3. n # NULL => u.node[n].prev = p
        BY <1>3, <1>6
      <3> QED
        BY <1>3, <1>7, <2>2, <3>1, <3>2, <3>3 DEF First
    <2>3. CASE p # Head(i)
      <3>1. u.free_nodes[i] = f
        BY <1>6, <2>3
      <3>2. f # NULL => f \in F /\ class[f] = i /\ h.node[f].prev = Head(i)
        BY <2>1 DEF First
      <3>3. f # NULL => f # a
        BY <3>2, <2>3 DEF p
      <3>4. f # NULL => f # n
        BY <1>0, <1>3, <3>2
      <3>5. f # NULL => u.node[f].prev = h.node[f].prev
        BY <1>6, <3>2, <3>4
      <3> QED
        BY <3>1, <3>2, <3>3, <3>5 DEF First
    <2> QED
      BY <2>2, <2>3
  <1>9. ASSUME NEW x \in F \ {a} PROVE Before(u, F \ {a}, class, x)
    <2>1. Before(h, F, class, x) /\ x \in D
      BY DEF Listed
    <2> DEFINE q == h.node[x].prev
    <2>2. CASE x = n
      <3>1. u.node[x].prev = p /\ class[x] = class[a]
        BY <1>0, <1>3, <1>6, <2>1, <2>2
      <3>2. CASE p = Head(class[a])
        <4>1. u.free_nodes[class[x]] = n
          BY <1>0, <1>6, <3>1, <3>2
        <4> QED
          BY <2>2, <3>1, <3>2, <4>1 DEF Before
      <3>3. CASE p \in F
        <4>1. u.node[p].next = n
          BY <1>6, <3>3
        <4> QED
          BY <1>7, <2>2, <3>1, <3>3, <4>1 DEF Before
      <3> QED
        BY <1>2, <3>2, <3>3
    <2>3. CASE x # n
      <3>1. u.node[x].prev = q
        BY <1>6, <2>1, <2>3
      <3>2. CASE q = Head(class[x]) /\ h.free_nodes[class[x]] = x
        <4>1. p # Head(class[x])
          <5> SUFFICES ASSUME p = Head(class[x]) PROVE FALSE
            OBVIOUS
          <5>1. p = Head(class[a]) /\ h.free_nodes[class[a]] = a
            BY <1>0, <1>2
          <5>2. class[a] = class[x]
            BY <1>0, <5>1, HeadFacts
          <5> QED
            BY <3>2, <5>1, <5>2
        <4>2. u.free_nodes[class[x]] = x
          BY <1>0, <1>6, <3>2, <4>1
        <4> QED
          BY <3>1, <3>2, <4>2 DEF Before
      <3>3. CASE q \in F /\ h.node[q].next = x
        <4>1. q # a
          BY <2>3, <3>3 DEF n
        <4>2. q # p
          BY <1>2, <1>0, <3>3
        <4>3. u.node[q].next = x
          BY <1>6, <3>3, <4>2
        <4> QED
          BY <3>1, <3>3, <4>1, <4>3 DEF Before
      <3> QED
        BY <2>1, <3>2, <3>3 DEF Before
    <2> QED
      BY <2>2, <2>3
  <1>10. ASSUME NEW x \in F \ {a} PROVE After(u, F \ {a}, class, rank, x)
    <2>1. After(h, F, class, rank, x) /\ x \in D
      BY DEF Listed
    <2> DEFINE m == h.node[x].next
    <2>2. CASE x = p
      <3>1. u.node[x].next = n
        BY <1>6, <2>1, <2>2
      <3>2. n # NULL => u.node[n].prev = p
        BY <1>3, <1>6
      <3>3. class[p] = class[a] /\ rank[a] < rank[p] /\ rank[p] \in Nat /\ rank[a] \in Nat
        BY <1>0, <1>5, <2>2
      <3>4. n # NULL => n \in F \ {a} /\ class[n] = class[p] /\ rank[n] < rank[p]
        BY <1>0, <1>3, <1>7, <3>3
      <3> QED
        BY <2>2, <3>1, <3>2, <3>4 DEF After
    <2>3. CASE x # p
      <3>1. u.node[x].next = m
        BY <1>6, <2>1, <2>3
      <3>2. m # NULL => m \in F /\ h.node[m].prev = x /\ class[m] = class[x] /\ rank[m] < rank[x]
        BY <2>1 DEF After
      <3>3. m # NULL => m # a
        BY <2>3, <3>2 DEF p
      <3>4. m # NULL => m # n
        BY <1>3, <3>2
      <3>5. m # NULL => u.node[m].prev = x
        BY <1>6, <3>2, <3>4
      <3> HIDE DEF m
      <3> QED
        BY <3>1, <3>2, <3>3, <3>5 DEF After
    <2> QED
      BY <2>2, <2>3
  <1>11. Listed(u, F \ {a}, class, rank)
    BY <1>8, <1>9, <1>10 DEF Listed
  <1>12. \A x \in D \ F : u.node[x] = h.node[x]
    <2> SUFFICES ASSUME NEW x \in D \ F PROVE u.node[x] = h.node[x]
      OBVIOUS
    <2>1. x # p
      BY <1>0, <1>2, HeadFacts
    <2>2. x # n
      BY <1>3, HeadFacts
    <2> QED
      BY <1>6, <2>1, <2>2
  <1>13. SameSizes(h, u, D)
    BY <1>6 DEF SameSizes
  <1> QED
    BY <1>6, <1>11, <1>12, <1>13 DEF u, Unlinked

\* Putting a node first in a list, with a rank above all others.
LEMMA PrependFacts ==
  ASSUME arena \in Nat \ {0}, NEW D \in SUBSET Addr, NEW h \in HeapOver(D),
         NEW F \in SUBSET D, NEW class \in [Addr -> Class], NEW rank \in [Addr -> Nat],
         Listed(h, F, class, rank), NEW a \in D \ F, NEW i \in Class,
         NEW r \in Nat, \A x \in F : rank[x] < r
  PROVE  Prepended(h, prepend_free_node(h, a, i), D, F, a,
                   [class EXCEPT ![a] = i], [rank EXCEPT ![a] = r])
  <1> DEFINE old == h.free_nodes[i]
             g == attach_free_nodes(h, Head(i), a)
             v == attach_free_nodes(g, a, old)
             cl == [class EXCEPT ![a] = i]
             rk == [rank EXCEPT ![a] = r]
  <1>0. /\ F \subseteq Addr /\ a \in Addr /\ a # NULL
        /\ \A x \in F : x # NULL /\ class[x] \in Class /\ rank[x] \in Nat
        /\ \A x \in D : \A j \in Class : Head(j) # x
        /\ \A j, k \in Class : Head(j) = Head(k) => j = k
    BY HeadFacts
  <1>1. prepend_free_node(h, a, i) = v
    BY DEF prepend_free_node
  <1>2. First(h, F, class, i)
    BY DEF Listed
  <1>3. old # NULL => old \in F /\ class[old] = i /\ h.node[old].prev = Head(i)
    BY <1>2 DEF First
  <1>4. /\ g \in HeapOver(D)
        /\ \A j \in Class : g.free_nodes[j] = IF Head(i) = Head(j) THEN a ELSE h.free_nodes[j]
        /\ \A x \in D :
             /\ g.node[x].next = IF x = Head(i) THEN a ELSE h.node[x].next
             /\ g.node[x].prev = IF x = a THEN Head(i) ELSE h.node[x].prev
             /\ g.node[x].size = h.node[x].size
             /\ g.node[x].prev_size = h.node[x].prev_size
             /\ g.node[x].allocated = h.node[x].allocated
             /\ x # Head(i) /\ x # a => g.node[x] = h.node[x]
    <2>1. Head(i) \in {Head(j) : j \in Class} \union D /\ a \in D \union {NULL}
      OBVIOUS
    <2> HIDE DEF g
    <2>2. Attached(h, g, Head(i), a, D)
      BY <2>1, AttachFacts DEF g
    <2> QED
      BY <2>2 DEF Attached
  <1>5. old \in D \union {NULL}
    BY <1>3
  <1> HIDE DEF g
  <1>6. /\ v \in HeapOver(D)
        /\ \A j \in Class : v.free_nodes[j] = IF a = Head(j) THEN old ELSE g.free_nodes[j]
        /\ \A x \in D :
             /\ v.node[x].next = IF x = a THEN old ELSE g.node[x].next
             /\ v.node[x].prev = IF x = old THEN a ELSE g.node[x].prev
             /\ v.node[x].size = g.node[x].size
             /\ v.node[x].prev_size = g.node[x].prev_size
             /\ v.node[x].allocated = g.node[x].allocated
             /\ x # a /\ x # old => v.node[x] = g.node[x]
    <2>1. a \in {Head(j) : j \in Class} \union D
      OBVIOUS
    <2> HIDE DEF old
    <2>2. Attached(g, v, a, old, D)
      BY <1>4, <1>5, <2>1, AttachFacts DEF v
    <2> HIDE DEF v
    <2> QED
      BY <2>2 DEF Attached
  <1> HIDE DEF v, old
  <1>7. /\ \A j \in Class : v.free_nodes[j] = IF j = i THEN a ELSE h.free_nodes[j]
        /\ \A x \in D :
             /\ v.node[x].next = IF x = a THEN old ELSE h.node[x].next
             /\ v.node[x].prev = IF x = old THEN a ELSE IF x = a THEN Head(i) ELSE h.node[x].prev
             /\ x # a /\ x # old => v.node[x] = h.node[x]
    BY <1>0, <1>4, <1>6
  <1>8. SameSizes(h, v, D)
    BY <1>4, <1>6 DEF SameSizes
  <1>9. old # a
    BY <1>0, <1>3
  <1>10. /\ cl[a] = i /\ rk[a] = r
         /\ \A x \in F : cl[x] = class[x] /\ rk[x] = rank[x] /\ x # a
    BY <1>0
  <1> HIDE DEF cl, rk
  <1>11. ASSUME NEW j \in Class PROVE First(v, F \union {a}, cl, j)
    <2>1. CASE j = i
      BY <1>7, <1>9, <1>10, <2>1 DEF First
    <2>2. CASE j # i
      <3> DEFINE f == h.free_nodes[j]
      <3>1. v.free_nodes[j] = f
        BY <1>7, <2>2
      <3>2. f # NULL => f \in F /\ class[f] = j /\ h.node[f].prev = Head(j)
        BY DEF Listed, First
      <3>3. f # NULL => f # old /\ f # a
        BY <1>0, <1>3, <2>2, <3>2
      <3>4. f # NULL => v.node[f].prev = Head(j)
        BY <1>7, <3>2, <3>3
      <3> QED
        BY <1>10, <3>1, <3>2, <3>4 DEF First
    <2> QED
      BY <2>1, <2>2
  <1>12. ASSUME NEW x \in F \union {a} PROVE Before(v, F \union {a}, cl, x)
    <2>1. CASE x = a
      BY <1>7, <1>9, <1>10, <2>1 DEF Before
    <2>2. CASE x = old /\ x # a
      <3>1. v.node[x].prev = a /\ v.node[a].next = x
        BY <1>7, <2>2
      <3> QED
        BY <3>1 DEF Before
    <2>3. CASE x # a /\ x # old
      <3> DEFINE q == h.node[x].prev
      <3>1. x \in F /\ v.node[x].prev = q
        BY <1>7, <2>3
      <3>2. CASE q = Head(class[x]) /\ h.free_nodes[class[x]] = x
        <4>1. class[x] # i
          BY <2>3, <3>2 DEF old
        <4>2. v.free_nodes[class[x]] = x
          BY <1>0, <1>7, <3>1, <3>2, <4>1
        <4> QED
          BY <1>10, <3>1, <3>2, <4>2 DEF Before
      <3>3. CASE q \in F /\ h.node[q].next = x
        <4>1. v.node[q].next = x
          BY <1>7, <3>3
        <4> QED
          BY <3>1, <3>3, <4>1 DEF Before
      <3> QED
        BY <3>1, <3>2, <3>3 DEF Listed, Before
    <2> QED
      BY <2>1, <2>2, <2>3
  <1>13. ASSUME NEW x \in F \union {a} PROVE After(v, F \union {a}, cl, rk, x)
    <2>1. CASE x = a
      <3>1. v.node[x].next = old
        BY <1>7, <2>1
      <3>2. old # NULL => v.node[old].prev = a
        BY <1>3, <1>7
      <3> QED
        BY <1>3, <1>10, <2>1, <3>1, <3>2 DEF After
    <2>2. CASE x # a
      <3> DEFINE m == h.node[x].next
      <3>1. x \in F /\ v.node[x].next = m
        BY <1>7, <2>2
      <3>2. m # NULL => m \in F /\ h.node[m].prev = x /\ class[m] = class[x] /\ rank[m] < rank[x]
        BY <3>1 DEF Listed, After
      <3>3. m # NULL => m # old /\ m # a
        BY <1>0, <1>3, <3>1, <3>2
      <3>4. m # NULL => v.node[m].prev = x
        BY <1>7, <3>2, <3>3
      <3> HIDE DEF m
      <3> QED
        BY <1>10, <3>1, <3>2, <3>4 DEF After
    <2> QED
      BY <2>1, <2>2
  <1>14. Listed(v, F \union {a}, cl, rk)
    BY <1>11, <1>12, <1>13 DEF Listed
  <1>15. \A x \in D \ (F \union {a}) : v.node[x] = h.node[x]
    <2> SUFFICES ASSUME NEW x \in D \ (F \union {a}) PROVE v.node[x] = h.node[x]
      OBVIOUS
    <2>1. x # old
      BY <1>3, HeadFacts
    <2> QED
      BY <1>7, <2>1
  <1> QED
    BY <1>1, <1>6, <1>8, <1>14, <1>15 DEF cl, rk, Prepended

\* The lists depend on the links alone.
LEMMA ListedSame ==
  ASSUME NEW h, NEW g, NEW F, NEW class, NEW rank,
         Listed(h, F, class, rank), \A x \in F : class[x] \in Class,
         \A i \in Class : g.free_nodes[i] = h.free_nodes[i],
         \A x \in F : g.node[x].prev = h.node[x].prev /\ g.node[x].next = h.node[x].next
  PROVE  Listed(g, F, class, rank)
  <1>0. NULL = 0
    BY DEF NULL
  <1>1. ASSUME NEW i \in Class PROVE First(g, F, class, i)
    BY DEF Listed, First
  <1>2. ASSUME NEW x \in F PROVE Before(g, F, class, x)
    <2>1. g.node[x].prev = h.node[x].prev /\ Before(h, F, class, x)
      BY DEF Listed
    <2>2. CASE h.node[x].prev = Head(class[x]) /\ h.free_nodes[class[x]] = x
      <3>1. g.free_nodes[class[x]] = x
        BY <2>2
      <3> QED
        BY <2>1, <2>2, <3>1 DEF Before
    <2>3. CASE h.node[x].prev \in F /\ h.node[h.node[x].prev].next = x
      BY <2>1, <2>3 DEF Before
    <2> QED
      BY <2>1, <2>2, <2>3 DEF Before
  <1>3. ASSUME NEW x \in F PROVE After(g, F, class, rank, x)
    BY DEF Listed, After
  <1> QED
    BY <1>1, <1>2, <1>3 DEF Listed

----------------------------------------------------------------------------
(* The nodes of a heap, which tile the arena.                              *)

End(h, a) == a + h.node[a].size + 1

Joint(h, D, a) ==
    \/ End(h, a) = Sentinel
    \/ End(h, a) \in D /\ h.node[End(h, a)].prev_size = h.node[a].size

Gap(h, D, a) == \A c \in D : ~ (a < c /\ c < End(h, a))

Back(h, D, a) ==
    a # 1 => /\ h.node[a].prev_size # 0
             /\ a - h.node[a].prev_size - 1 \in D
             /\ h.node[a - h.node[a].prev_size - 1].size = h.node[a].prev_size

Tiled(h, D) ==
    /\ 1 \in D
    /\ h.node[1].prev_size = 0
    /\ \A a \in D : Joint(h, D, a) /\ Gap(h, D, a) /\ Back(h, D, a)

LEMMA TiledFacts ==
  ASSUME arena \in Nat \ {0}, NEW D \in SUBSET Addr, NEW h \in HeapOver(D), Tiled(h, D),
         NEW a \in D
  PROVE  /\ h.node[a].size \in 1 .. arena /\ h.node[a].prev_size \in 0 .. arena
         /\ End(h, a) \in Int /\ End(h, a) > a + 1 /\ End(h, a) <= Sentinel
         /\ a \in 1 .. arena
         /\ End(h, a) # Sentinel => End(h, a) \in D /\ End(h, a) # 1
                                      /\ h.node[End(h, a)].prev_size = h.node[a].size
         /\ \A x \in D : End(h, x) = End(h, a) => x = a
         /\ get_next_node(h, a) = IF End(h, a) = Sentinel THEN NULL ELSE End(h, a)
         /\ get_next_node(h, a) \in D \union {NULL}
  <1>1. \A x \in D : h.node[x].size \in 1 .. arena /\ h.node[x].prev_size \in 0 .. arena /\ x \in 1 .. arena
    BY DEF HeapOver, NodeType, Addr
  <1>2. Joint(h, D, a) /\ Gap(h, D, a)
    BY DEF Tiled
  <1>3. End(h, a) \in Int /\ End(h, a) > a + 1 /\ End(h, a) <= Sentinel /\ End(h, a) # 1
    BY <1>1, <1>2 DEF Joint, End, Sentinel
  <1>4. End(h, a) # Sentinel => End(h, a) \in D /\ h.node[End(h, a)].prev_size = h.node[a].size
    BY <1>2 DEF Joint
  <1>5. ASSUME NEW x \in D, End(h, x) = End(h, a) PROVE x = a
    <2>1. ~ (x < a)
      <3>1. Gap(h, D, x)
        BY DEF Tiled
      <3> QED
        BY <1>1, <1>3, <1>5, <3>1 DEF Gap
    <2>2. ~ (a < x)
      <3>1. x < End(h, x)
        BY <1>1 DEF End
      <3> QED
        BY <1>1, <1>2, <1>3, <1>5, <3>1 DEF Gap
    <2> QED
      BY <1>1, <2>1, <2>2
  <1>6. get_next_node(h, a) = IF End(h, a) = Sentinel THEN NULL ELSE End(h, a)
    BY DEF get_next_node, End
  <1> QED
    BY <1>1, <1>3, <1>4, <1>5, <1>6

\* g is h with node b, which follows a, made part of a.
Joined(h, g, a, b, D) ==
    /\ b = End(h, a)
    /\ \A x \in D \ {b} :
         /\ g.node[x].size = IF x = a THEN h.node[a].size + h.node[b].size + 1
                                      ELSE h.node[x].size
         /\ g.node[x].prev_size = IF x = End(h, b) THEN h.node[a].size + h.node[b].size + 1
                                                   ELSE h.node[x].prev_size

LEMMA JoinTiled ==
  ASSUME arena \in Nat \ {0}, NEW D \in SUBSET Addr, NEW h \in HeapOver(D), Tiled(h, D),
         NEW a \in D, NEW b \in D, NEW g, Joined(h, g, a, b, D)
  PROVE  /\ Tiled(g, D \ {b})
         /\ End(g, a) = End(h, b)
         /\ \A x \in D \ {a, b} : End(g, x) = End(h, x)
  <1> DEFINE c == End(h, b)
             E == D \ {b}
  <1>0. b = End(h, a)
    BY DEF Joined
  <1> USE <1>0
  <1>1. /\ \A x \in D : h.node[x].size \in 1 .. arena /\ h.node[x].prev_size \in 0 .. arena
                          /\ x \in 1 .. arena /\ End(h, x) \in Int /\ End(h, x) > x + 1
        /\ \A x, y \in D : End(h, x) = End(h, y) => x = y
        /\ \A x \in D : End(h, x) # Sentinel => End(h, x) \in D /\ End(h, x) # 1
                                      /\ h.node[End(h, x)].prev_size = h.node[x].size
    BY TiledFacts
  <1>2. a # b /\ b # 1 /\ c # 1 /\ c # b /\ c # a /\ c > b
    BY <1>1
  <1>3. /\ \A x \in E : End(g, x) = IF x = a THEN c ELSE End(h, x)
        /\ \A x \in E : g.node[x].size = IF x = a THEN c - a - 1 ELSE h.node[x].size
        /\ \A x \in E : g.node[x].prev_size = IF x = c THEN c - a - 1 ELSE h.node[x].prev_size
    <2>1. h.node[a].size + h.node[b].size + 1 = c - a - 1
      BY <1>1 DEF End
    <2>2. \A x \in E : g.node[x].size = IF x = a THEN c - a - 1 ELSE h.node[x].size
      BY <2>1 DEF Joined
    <2>3. \A x \in E : g.node[x].prev_size = IF x = c THEN c - a - 1 ELSE h.node[x].prev_size
      BY <2>1 DEF Joined
    <2>4. \A x \in E : End(g, x) = IF x = a THEN c ELSE End(h, x)
      <3> SUFFICES ASSUME NEW x \in E PROVE End(g, x) = IF x = a THEN c ELSE End(h, x)
        OBVIOUS
      <3>1. c \in Int /\ x \in Int /\ a \in Int
        BY <1>1
      <3>2. End(g, x) = x + g.node[x].size + 1 /\ End(h, x) = x + h.node[x].size + 1
        BY DEF End
      <3> HIDE DEF c, E
      <3> QED
        BY <2>2, <3>1, <3>2
    <2> QED
      BY <2>2, <2>3, <2>4
  <1> HIDE DEF c
  <1>4. 1 \in E /\ g.node[1].prev_size = 0
    BY <1>2, <1>3 DEF Tiled
  <1>5. ASSUME NEW x \in E PROVE Joint(g, E, x)
    <2>1. CASE x = a
      <3>1. c # Sentinel => c \in E
        BY <1>1, <1>2 DEF c
      <3> QED
        BY <1>3, <2>1, <3>1 DEF Joint
    <2>2. CASE x # a
      <3>1. End(g, x) = End(h, x) /\ End(h, x) # b /\ End(h, x) # c
        BY <1>1, <1>3, <2>2 DEF c
      <3> QED
        BY <1>1, <1>3, <2>2, <3>1 DEF Joint
    <2> QED
      BY <2>1, <2>2
  <1>6. ASSUME NEW x \in E PROVE Gap(g, E, x)
    <2>1. Gap(h, D, x) /\ Gap(h, D, b) /\ Gap(h, D, a)
      BY DEF Tiled
    <2>2. CASE x = a
      <3>1. ASSUME NEW y \in E, a < y, y < c PROVE FALSE
        <4>1. CASE y < b
          BY <2>1, <3>1, <4>1 DEF Gap
        <4>2. CASE b < y
          BY <2>1, <3>1, <4>2 DEF Gap, c
        <4> QED
          BY <1>1, <4>1, <4>2
      <3> QED
        BY <1>3, <2>2, <3>1 DEF Gap
    <2>3. CASE x # a
      BY <1>3, <2>1, <2>3 DEF Gap
    <2> QED
      BY <2>2, <2>3
  <1>7. ASSUME NEW x \in E PROVE Back(g, E, x)
    <2> SUFFICES ASSUME x # 1
                 PROVE  /\ g.node[x].prev_size # 0
                        /\ x - g.node[x].prev_size - 1 \in E
                        /\ g.node[x - g.node[x].prev_size - 1].size = g.node[x].prev_size
      BY DEF Back
    <2>1. CASE x = c
      <3>1. g.node[x].prev_size = c - a - 1 /\ x - (c - a - 1) - 1 = a /\ a \in E
        BY <1>1, <1>2, <1>3, <2>1 DEF c
      <3>2. c - a - 1 # 0
        BY <1>1, <1>2, <2>1
      <3> QED
        BY <1>3, <3>1, <3>2
    <2>2. CASE x # c
      <3> DEFINE p == x - h.node[x].prev_size - 1
      <3>1. g.node[x].prev_size = h.node[x].prev_size
        BY <1>3, <2>2
      <3>2. h.node[x].prev_size # 0 /\ p \in D /\ h.node[p].size = h.node[x].prev_size
        BY DEF Tiled, Back
      <3>3. End(h, p) = x
        BY <1>1, <3>2 DEF End
      <3>4. p # b /\ p # a
        BY <2>2, <3>3 DEF c
      <3>5. p \in E /\ g.node[p].size = h.node[p].size
        BY <1>3, <3>2, <3>4
      <3> QED
        BY <3>1, <3>2, <3>5
    <2> QED
      BY <2>1, <2>2
  <1>8. Tiled(g, E)
    BY <1>4, <1>5, <1>6, <1>7 DEF Tiled
  <1>9. End(g, a) = c /\ \A x \in D \ {a, b} : End(g, x) = End(h, x)
    BY <1>2, <1>3
  <1> QED
    BY <1>8, <1>9 DEF c

\* g is h with node a cut to size and a new node b behind it.
Cut(h, g, a, size, D) ==
    /\ \A x \in D : g.node[x].size = IF x = a THEN size ELSE h.node[x].size
    /\ \A x \in D : g.node[x].prev_size =
                      IF x = End(h, a) THEN h.node[a].size - size - 1 ELSE h.node[x].prev_size
    /\ g.node[a + size + 1].size = h.node[a].size - size - 1
    /\ g.node[a + size + 1].prev_size = size

LEMMA CutTiled ==
  ASSUME arena \in Nat \ {0}, NEW D \in SUBSET Addr, NEW h \in HeapOver(D), Tiled(h, D),
         NEW a \in D, NEW size \in Nat \ {0}, h.node[a].size - size - 1 >= 1,
         NEW g, Cut(h, g, a, size, D)
  PROVE  /\ a + size + 1 \in Addr \ D
         /\ Tiled(g, D \union {a + size + 1})
         /\ End(g, a) = a + size + 1
         /\ End(g, a + size + 1) = End(h, a)
         /\ \A x \in D \ {a} : End(g, x) = End(h, x)
  <1> DEFINE c == End(h, a)
             b == a + size + 1
             E == D \union {b}
  <1>1. /\ \A x \in D : h.node[x].size \in 1 .. arena /\ h.node[x].prev_size \in 0 .. arena
                          /\ x \in 1 .. arena /\ End(h, x) \in Int /\ End(h, x) > x + 1
        /\ \A x, y \in D : End(h, x) = End(h, y) => x = y
        /\ \A x \in D : End(h, x) # Sentinel => End(h, x) \in D /\ End(h, x) # 1
                                      /\ h.node[End(h, x)].prev_size = h.node[x].size
        /\ \A x \in D : End(h, x) <= Sentinel
    BY TiledFacts
  <1>2. b \in Int /\ a < b /\ b < c /\ c - b - 1 >= 1 /\ h.node[a].size - size - 1 = c - b - 1
    BY <1>1 DEF End
  <1>3. b \in Addr \ D
    <2>1. Gap(h, D, a)
      BY DEF Tiled
    <2>2. b \notin D
      BY <1>2, <2>1 DEF Gap
    <2>3. b \in 1 .. arena
      BY <1>1, <1>2 DEF Sentinel
    <2> QED
      BY <2>2, <2>3 DEF Addr
  <1>4. /\ \A x \in D : g.node[x].size = IF x = a THEN size ELSE h.node[x].size
        /\ \A x \in D : g.node[x].prev_size = IF x = c THEN c - b - 1 ELSE h.node[x].prev_size
        /\ g.node[b].size = c - b - 1
        /\ g.node[b].prev_size = size
    BY <1>2 DEF Cut
  <1>5. /\ End(g, a) = b /\ End(g, b) = c
        /\ \A x \in D \ {a} : End(g, x) = End(h, x)
    <2>1. End(g, b) = b + (c - b - 1) + 1
      BY <1>4 DEF End
    <2>2. End(g, a) = a + size + 1
      BY <1>4 DEF End
    <2>3. c \in Int
      BY <1>1
    <2>4. b + (c - b - 1) + 1 = c
      BY <1>2, <2>3
    <2> QED
      BY <1>4, <2>1, <2>2, <2>4 DEF End
  <1>6. a # b /\ b # 1 /\ b # c /\ c # 1 /\ a # c /\ c \in Int /\ size # 0 /\ size = b - a - 1
    BY <1>1, <1>2
  <1> HIDE DEF c, b
  <1>7. 1 \in E /\ g.node[1].prev_size = 0
    BY <1>4, <1>6 DEF Tiled
  <1>8. ASSUME NEW x \in E PROVE Joint(g, E, x)
    <2>1. CASE x = a
      BY <1>4, <1>5, <2>1 DEF Joint
    <2>2. CASE x = b
      <3>1. c # Sentinel => c \in D
        BY <1>1 DEF c
      <3> QED
        BY <1>4, <1>5, <2>2, <3>1 DEF Joint
    <2>3. CASE x \in D /\ x # a
      <3>1. End(g, x) = End(h, x) /\ End(h, x) # c
        BY <1>1, <1>5, <2>3 DEF c
      <3> QED
        BY <1>1, <1>4, <2>3, <3>1 DEF Joint
    <2> QED
      BY <2>1, <2>2, <2>3
  <1>9. ASSUME NEW x \in E PROVE Gap(g, E, x)
    <2>1. Gap(h, D, a) /\ (x \in D => Gap(h, D, x))
      BY DEF Tiled
    <2>2. CASE x = a
      BY <1>1, <1>2, <1>5, <2>1, <2>2 DEF Gap, c
    <2>3. CASE x = b
      BY <1>1, <1>2, <1>5, <2>1, <2>3 DEF Gap, c
    <2>4. CASE x \in D /\ x # a
      <3>1. ~ (x < b /\ b < End(h, x))
        <4> SUFFICES ASSUME x < b, b < End(h, x) PROVE FALSE
          OBVIOUS
        <4>1. CASE x < a
          BY <1>1, <1>2, <2>1, <2>4, <4>1 DEF Gap
        <4>2. CASE a < x
          BY <1>1, <1>2, <2>1, <2>4, <4>2 DEF Gap, c
        <4> QED
          BY <1>1, <2>4, <4>1, <4>2
      <3> QED
        BY <1>5, <2>1, <2>4, <3>1 DEF Gap
    <2> QED
      BY <2>2, <2>3, <2>4
  <1>10. ASSUME NEW x \in E PROVE Back(g, E, x)
    <2> SUFFICES ASSUME x # 1
                 PROVE  /\ g.node[x].prev_size # 0
                        /\ x - g.node[x].prev_size - 1 \in E
                        /\ g.node[x - g.node[x].prev_size - 1].size = g.node[x].prev_size
      BY DEF Back
    <2>1. CASE x = c /\ x \in D
      <3>1. x - (c - b - 1) - 1 = b /\ c - b - 1 # 0
        BY <1>2, <1>6, <2>1
      <3> QED
        BY <1>4, <2>1, <3>1
    <2>2. CASE x = b
      <3>1. x - size - 1 = a
        BY <1>1, <1>2, <1>6, <2>2
      <3> QED
        BY <1>4, <1>6, <2>2, <3>1
    <2>3. CASE x # c /\ x \in D
      <3> DEFINE p == x - h.node[x].prev_size - 1
      <3>1. g.node[x].prev_size = h.node[x].prev_size
        BY <1>4, <2>3
      <3>2. h.node[x].prev_size # 0 /\ p \in D /\ h.node[p].size = h.node[x].prev_size
        BY <2>3 DEF Tiled, Back
      <3>3. End(h, p) = x
        BY <1>1, <2>3, <3>2 DEF End
      <3>4. p # a
        BY <2>3, <3>3 DEF c
      <3>5. p \in E /\ g.node[p].size = h.node[p].size
        BY <1>4, <3>2, <3>4
      <3> QED
        BY <3>1, <3>2, <3>5
    <2> QED
      BY <2>1, <2>2, <2>3
  <1>11. Tiled(g, E)
    BY <1>7, <1>8, <1>9, <1>10 DEF Tiled
  <1> QED
    BY <1>3, <1>5, <1>11 DEF c, b

----------------------------------------------------------------------------
(* Sound heaps: tiled, with each free node in the list of its class.       *)

FreeNodes(h, D) == {x \in D : ~ h.node[x].allocated}

Classed(h, class, x) ==
    \/ class[x] = get_size_index_lower(h.node[x].size)
    \/ class[x] = LastClass /\ h.node[x].size = arena

Arranged(h, F, class, rank, bound) ==
    /\ Listed(h, F, class, rank)
    /\ \A x \in F : rank[x] <= bound /\ Classed(h, class, x)

Sound(h, D) ==
    /\ h \in HeapOver(D)
    /\ Tiled(h, D)
    /\ \E class \in [Addr -> Class] : \E rank \in [Addr -> Nat] : \E bound \in Nat :
          Arranged(h, FreeNodes(h, D), class, rank, bound)
    /\ \A x \in D : h.node[x].allocated => h.node[x].next = NULL

\* Nodes that are free like their successor.
Touching(h, D) == {x \in FreeNodes(h, D) : End(h, x) \in FreeNodes(h, D)}

\* g is h with the value v for node a.
Changed(h, g, a, v, D) ==
    /\ g \in HeapOver(D)
    /\ g.free_nodes = h.free_nodes
    /\ g.node[a] = v
    /\ \A x \in D \ {a} : g.node[x] = h.node[x]

LEMMA ChangeFacts ==
  ASSUME arena \in Nat \ {0}, NEW D \in SUBSET Addr, NEW h \in HeapOver(D),
         NEW a \in D, NEW v \in NodeType
  PROVE  Changed(h, [h EXCEPT !.node[a] = v], a, v, D)
  <1> DEFINE g == [h EXCEPT !.node[a] = v]
  <1>1. g.free_nodes = h.free_nodes /\ g.node = [h.node EXCEPT ![a] = v]
          /\ g = [node |-> g.node, free_nodes |-> g.free_nodes]
    BY DEF HeapOver
  <1>2. g.node \in [D -> NodeType]
    BY <1>1 DEF HeapOver
  <1>3. g \in HeapOver(D)
    BY <1>1, <1>2 DEF HeapOver
  <1>4. g.node[a] = v /\ \A x \in D \ {a} : g.node[x] = h.node[x]
    BY <1>1 DEF HeapOver
  <1> HIDE DEF g
  <1>5. Changed(h, g, a, v, D)
    BY <1>1, <1>3, <1>4 DEF Changed
  <1> QED
    BY <1>5 DEF g

\* The header of x is told the size of the node before it.
Told(h, g, x, size, D) ==
    /\ g \in HeapOver(D)
    /\ \A i \in Class : g.free_nodes[i] = h.free_nodes[i]
    /\ \A y \in D :
         /\ g.node[y].size = h.node[y].size
         /\ g.node[y].prev = h.node[y].prev
         /\ g.node[y].next = h.node[y].next
         /\ g.node[y].prev_size = IF y = x THEN size ELSE h.node[y].prev_size
         /\ g.node[y].allocated <=> (y = x \/ h.node[y].allocated)

LEMMA ToldFacts ==
  ASSUME arena \in Nat \ {0}, NEW D \in SUBSET Addr, NEW h \in HeapOver(D),
         NEW x \in D \union {NULL}, NEW size \in 0 .. arena
  PROVE  Told(h, SetPrevSize(h, x, size), x, size, D)
  <1>1. CASE x = NULL
    <2>1. x \notin D /\ SetPrevSize(h, x, size) = h
      BY <1>1, HeadFacts DEF SetPrevSize
    <2> QED
      BY <2>1 DEF Told
  <1>2. CASE x # NULL
    <2> DEFINE v == [h.node[x] EXCEPT !.prev_size = size, !.allocated = TRUE]
               g == [h EXCEPT !.node[x] = v]
    <2>1. h.node[x] \in NodeType /\ x \in D
      BY <1>2 DEF HeapOver
    <2>2. v \in NodeType
      BY <2>1 DEF NodeType
    <2>3. SetPrevSize(h, x, size) = g
      BY <1>2, <2>1 DEF SetPrevSize, HeapOver
    <2>4. Changed(h, g, x, v, D)
      BY <2>1, <2>2, ChangeFacts
    <2>5. /\ v.size = h.node[x].size /\ v.prev = h.node[x].prev /\ v.next = h.node[x].next
          /\ v.prev_size = size /\ v.allocated = TRUE
      BY <2>1 DEF NodeType
    <2> HIDE DEF g, v
    <2> QED
      BY <2>1, <2>3, <2>4, <2>5 DEF Changed, Told
  <1> QED
    BY <1>1, <1>2

\* What joining leaves as it was: the allocated nodes, and what is before a.
Kept(h, j, a, D, E) ==
    /\ E \subseteq D
    /\ \A x \in D : h.node[x].allocated =>
          x \in E /\ j.node[x].allocated /\ j.node[x].size = h.node[x].size
    /\ \A x \in E : j.node[x].allocated => h.node[x].allocated
    /\ Touching(j, E) \subseteq Touching(h, D) \ {a}
    /\ a \in D => a \in E /\ j.node[a].prev_size = h.node[a].prev_size

\* join_with_next, when there is something to join.
LEMMA JoinWork ==
  ASSUME arena \in Nat \ {0}, NEW D \in SUBSET Addr, NEW h, Sound(h, D),
         NEW a \in D, NEW b \in D, b = End(h, a), b # Sentinel,
         ~ h.node[a].allocated, ~ h.node[b].allocated, b \notin Touching(h, D)
  PROVE  /\ Sound(join_with_next(h, a), D \ {b})
         /\ Kept(h, join_with_next(h, a), a, D, D \ {b})
  <1> DEFINE E == D \ {b}
             F == FreeNodes(h, D)
             c == End(h, b)
             s == c - a - 1
             grown == [h EXCEPT !.node[a].size = @ + h.node[b].size + 1]
             u1 == Unlink(grown, a)
             u2 == Unlink(u1, b)
             merged == [u2 EXCEPT !.node = [x \in DOMAIN @ \ {b} |-> @[x]]]
             nx == IF c = Sentinel THEN NULL ELSE c
             told == SetPrevSize(merged, get_next_node(merged, a), merged.node[a].size)
             j == prepend_free_node(told, a, get_size_index_lower(told.node[a].size))
  <1>1. h \in HeapOver(D) /\ Tiled(h, D)
    BY DEF Sound
  <1>2. PICK class \in [Addr -> Class], rank \in [Addr -> Nat], bound \in Nat :
          Arranged(h, F, class, rank, bound)
    BY DEF Sound
  <1>3. /\ \A x \in D : x \in 1 .. arena /\ h.node[x] \in NodeType
        /\ h.node[a].size \in 1 .. arena /\ h.node[b].size \in 1 .. arena
        /\ b > a + 1 /\ c > b + 1 /\ c <= Sentinel /\ c \in Int /\ a \in Int
        /\ get_next_node(h, a) = b
        /\ c # Sentinel => c \in D
    <2>1. \A x \in D : x \in 1 .. arena /\ h.node[x] \in NodeType
      BY <1>1 DEF HeapOver, Addr
    <2>2. /\ h.node[a].size \in 1 .. arena /\ h.node[b].size \in 1 .. arena
          /\ b > a + 1 /\ c > b + 1 /\ c <= Sentinel /\ c \in Int
          /\ c # Sentinel => c \in D
          /\ get_next_node(h, a) = b
      BY <1>1, TiledFacts
    <2> QED
      BY <2>1, <2>2
  <1>4. F \subseteq D /\ a \in F /\ b \in F /\ a # b /\ c \notin F
    BY <1>3 DEF FreeNodes, Touching
  <1>5. s = h.node[a].size + h.node[b].size + 1 /\ s \in 1 .. arena /\ s \in Nat \ {0}
    <2>1. s = h.node[a].size + h.node[b].size + 1
      BY <1>3 DEF End
    <2> QED
      BY <1>3, <2>1 DEF Sentinel
  <1>6. join_with_next(h, a) = j
    <2>1. b # NULL /\ a # NULL
      BY HeadFacts
    <2>2. get_next_node(h, a) = b
      BY <1>3
    <2>3. join_with_next(h, a) = Merge(h, a, b)
      BY <2>1, <2>2, Zenon DEF join_with_next
    <2>4. Merge(h, a, b) = j
      BY Zenon DEF Merge
    <2> QED
      BY <2>3, <2>4, Zenon
  <1>7. /\ grown \in HeapOver(D)
        /\ \A i \in Class : grown.free_nodes[i] = h.free_nodes[i]
        /\ \A x \in D :
             /\ grown.node[x].size = IF x = a THEN s ELSE h.node[x].size
             /\ grown.node[x].prev_size = h.node[x].prev_size
             /\ grown.node[x].allocated = h.node[x].allocated
             /\ grown.node[x].prev = h.node[x].prev
             /\ grown.node[x].next = h.node[x].next
    <2> DEFINE v == [h.node[a] EXCEPT !.size = s]
    <2>1. h.node[a] \in NodeType
      BY <1>3
    <2>2. v \in NodeType
      BY <1>5, <2>1 DEF NodeType
    <2>3. grown = [h EXCEPT !.node[a] = v]
      <3>1. grown = [h EXCEPT !.node[a] = [h.node[a] EXCEPT !.size = h.node[a].size + h.node[b].size + 1]]
        BY <1>1 DEF HeapOver
      <3> QED
        BY <1>5, <3>1
    <2>4. Changed(h, grown, a, v, D)
      BY <1>1, <2>2, <2>3, ChangeFacts
    <2>5. /\ v.size = s /\ v.prev = h.node[a].prev /\ v.next = h.node[a].next
          /\ v.prev_size = h.node[a].prev_size /\ v.allocated = h.node[a].allocated
      BY <2>1 DEF NodeType
    <2> HIDE DEF grown, v, s
    <2> QED
      BY <2>4, <2>5 DEF Changed
  <1>8. \A x \in F : class[x] \in Class /\ rank[x] \in Nat /\ rank[x] <= bound /\ Classed(h, class, x)
    BY <1>2, <1>4 DEF Arranged
  <1> HIDE DEF grown, u1, u2, merged, told, j, s, c, F
  <1>9. Listed(grown, F, class, rank)
    <2>1. Listed(h, F, class, rank)
      BY <1>2 DEF Arranged
    <2> QED
      BY <2>1, <1>4, <1>7, <1>8, ListedSame
  <1>10. /\ u1 \in HeapOver(D) /\ Listed(u1, F \ {a}, class, rank) /\ SameSizes(grown, u1, D)
         /\ \A x \in D \ F : u1.node[x] = grown.node[x]
    <2>1. Unlinked(grown, u1, D, F, a, class, rank)
      BY <1>4, <1>7, <1>9, UnlinkFacts DEF u1
    <2> QED
      BY <2>1 DEF Unlinked
  <1>11. /\ u2 \in HeapOver(D) /\ Listed(u2, (F \ {a}) \ {b}, class, rank) /\ SameSizes(u1, u2, D)
         /\ \A x \in D \ (F \ {a}) : u2.node[x] = u1.node[x]
    <2>1. F \ {a} \in SUBSET D /\ b \in F \ {a}
      BY <1>4
    <2> QED
      <3>1. Unlinked(u1, u2, D, F \ {a}, b, class, rank)
        BY <1>10, <2>1, UnlinkFacts DEF u2
      <3> QED
        BY <3>1 DEF Unlinked
  <1>12. /\ merged \in HeapOver(E)
         /\ merged.free_nodes = u2.free_nodes
         /\ \A x \in E : merged.node[x] = u2.node[x]
    <2>1. DOMAIN u2.node = D
      BY <1>11 DEF HeapOver
    <2>2. /\ merged.free_nodes = u2.free_nodes
          /\ merged.node = [x \in E |-> u2.node[x]]
          /\ merged = [node |-> merged.node, free_nodes |-> merged.free_nodes]
      BY <1>11, <2>1 DEF HeapOver, merged
    <2>3. merged.node \in [E -> NodeType]
      BY <1>11, <2>2 DEF HeapOver
    <2> QED
      BY <1>11, <2>2, <2>3 DEF HeapOver
  <1>13. E \in SUBSET Addr /\ a \in E /\ (F \ {a}) \ {b} \subseteq E /\ nx \in E \union {NULL}
         /\ nx # a
    BY <1>3, <1>4, HeadFacts
  <1>14. Listed(merged, (F \ {a}) \ {b}, class, rank)
    BY <1>8, <1>11, <1>12, <1>13, ListedSame
  <1>15. \A x \in E :
             /\ merged.node[x].size = IF x = a THEN s ELSE h.node[x].size
             /\ merged.node[x].prev_size = h.node[x].prev_size
             /\ merged.node[x].allocated = h.node[x].allocated
             /\ x \notin F => merged.node[x].next = h.node[x].next
    BY <1>7, <1>10, <1>11, <1>12 DEF SameSizes
  <1>16. get_next_node(merged, a) = nx /\ merged.node[a].size = s
    <2>1. merged.node[a].size = s
      BY <1>13, <1>15
    <2>2. a + s + 1 = c
      BY <1>3 DEF s
    <2> QED
      BY <2>1, <2>2 DEF get_next_node
  <1>17. Told(merged, told, nx, s, E)
    BY <1>5, <1>12, <1>13, <1>16, ToldFacts DEF told
  <1>18. told \in HeapOver(E) /\ Listed(told, (F \ {a}) \ {b}, class, rank)
    <2>1. told \in HeapOver(E)
      BY <1>17 DEF Told
    <2>2. \A i \in Class : told.free_nodes[i] = merged.free_nodes[i]
      BY <1>17 DEF Told
    <2>3. \A x \in (F \ {a}) \ {b} : told.node[x].prev = merged.node[x].prev
                                  /\ told.node[x].next = merged.node[x].next
      BY <1>13, <1>17 DEF Told
    <2>4. \A x \in (F \ {a}) \ {b} : class[x] \in Class
      BY <1>8
    <2> QED
      BY <1>14, <2>1, <2>2, <2>3, <2>4, ListedSame
  <1>19. \A x \in E :
             /\ told.node[x].size = IF x = a THEN s ELSE h.node[x].size
             /\ told.node[x].prev_size = IF x = nx THEN s ELSE h.node[x].prev_size
             /\ told.node[x].allocated <=> h.node[x].allocated
             /\ x \notin F => told.node[x].next = h.node[x].next
    <2> SUFFICES ASSUME NEW x \in E
                 PROVE  /\ told.node[x].size = IF x = a THEN s ELSE h.node[x].size
                        /\ told.node[x].prev_size = IF x = nx THEN s ELSE h.node[x].prev_size
                        /\ told.node[x].allocated <=> h.node[x].allocated
                        /\ x \notin F => told.node[x].next = h.node[x].next
      OBVIOUS
    <2>1. x = nx => h.node[x].allocated
      BY <1>4, HeadFacts DEF F, FreeNodes
    <2>2. told.node[x].allocated <=> (x = nx \/ merged.node[x].allocated)
      BY <1>17 DEF Told
    <2>3. merged.node[x].allocated = h.node[x].allocated
      BY <1>15
    <2>4. told.node[x].allocated <=> h.node[x].allocated
      BY <2>1, <2>2, <2>3
    <2> QED
      BY <1>15, <1>17, <2>4 DEF Told
  <1> DEFINE i == get_size_index_lower(s)
             F2 == ((F \ {a}) \ {b}) \union {a}
             cl == [class EXCEPT ![a] = i]
             rk == [rank EXCEPT ![a] = bound + 1]
  <1>20. /\ j \in HeapOver(E)
         /\ Listed(j, F2, cl, rk)
         /\ SameSizes(told, j, E)
         /\ \A x \in E \ F2 : j.node[x] = told.node[x]
    <2>1. i \in Class
      BY <1>5, LowerFacts
    <2>2. told.node[a].size = s
      BY <1>13, <1>19
    <2>3. j = prepend_free_node(told, a, i)
      BY <2>2 DEF j
    <2>4. \A x \in (F \ {a}) \ {b} : rank[x] < bound + 1
      BY <1>8
    <2>5. (F \ {a}) \ {b} \in SUBSET E /\ a \in E \ ((F \ {a}) \ {b}) /\ bound + 1 \in Nat
      BY <1>13
    <2> HIDE DEF i
    <2> QED
      <3>1. Prepended(told, j, E, (F \ {a}) \ {b}, a, cl, rk)
        BY <1>13, <1>18, <2>1, <2>3, <2>4, <2>5, PrependFacts
      <3> HIDE DEF cl, rk
      <3> QED
        BY <3>1 DEF Prepended
  <1>21. \A x \in E :
             /\ j.node[x].size = IF x = a THEN s ELSE h.node[x].size
             /\ j.node[x].prev_size = IF x = nx THEN s ELSE h.node[x].prev_size
             /\ j.node[x].allocated <=> h.node[x].allocated
             /\ x \notin F => j.node[x].next = h.node[x].next
    <2> SUFFICES ASSUME NEW x \in E
                 PROVE  /\ j.node[x].size = IF x = a THEN s ELSE h.node[x].size
                        /\ j.node[x].prev_size = IF x = nx THEN s ELSE h.node[x].prev_size
                        /\ j.node[x].allocated <=> h.node[x].allocated
                        /\ x \notin F => j.node[x].next = h.node[x].next
      OBVIOUS
    <2>1. j.node[x].allocated <=> h.node[x].allocated
      <3>1. j.node[x].allocated = told.node[x].allocated
        BY <1>20 DEF SameSizes
      <3> QED
        BY <1>19, <3>1
    <2>2. x \notin F => j.node[x] = told.node[x]
      BY <1>4, <1>20
    <2> QED
      BY <1>19, <1>20, <2>1, <2>2 DEF SameSizes
  <1>22. Joined(h, j, a, b, D)
    <2>1. \A x \in E : x = nx <=> x = End(h, b)
      <3> SUFFICES ASSUME NEW x \in E PROVE x = nx <=> x = c
        BY DEF c
      <3>1. x # NULL /\ x # Sentinel
        BY <1>3 DEF Sentinel, NULL
      <3> QED
        BY <3>1
    <2> QED
      BY <1>5, <1>21, <2>1 DEF Joined
  <1>23. /\ Tiled(j, E) /\ End(j, a) = c
         /\ \A x \in D \ {a, b} : End(j, x) = End(h, x)
    <2>1. /\ Tiled(j, D \ {b}) /\ End(j, a) = End(h, b)
          /\ \A x \in D \ {a, b} : End(j, x) = End(h, x)
      <3> HIDE DEF E
      <3> QED
        BY <1>1, <1>22, JoinTiled
    <2> QED
      BY <2>1 DEF c
  <1>24. F2 = FreeNodes(j, E) /\ F2 = F \ {b}
    <2>1. F2 = F \ {b}
      BY <1>4
    <2>2. \A x \in E : x \in F \ {b} <=> ~ j.node[x].allocated
      BY <1>21 DEF F, FreeNodes
    <2> QED
      BY <1>4, <2>1, <2>2 DEF FreeNodes
  <1>25. cl \in [Addr -> Class] /\ rk \in [Addr -> Nat] /\ bound + 1 \in Nat
    BY <1>5, LowerFacts
  <1>26. \A x \in F2 : rk[x] <= bound + 1 /\ Classed(j, cl, x)
    <2> SUFFICES ASSUME NEW x \in F2 PROVE rk[x] <= bound + 1 /\ Classed(j, cl, x)
      OBVIOUS
    <2>1. x \in F /\ x \in Addr /\ x \in E
      BY <1>4, <1>13, <1>24
    <2>2. CASE x = a
      <3>1. j.node[x].size = s /\ cl[x] = i /\ rk[x] = bound + 1
        BY <1>21, <2>1, <2>2
      <3> HIDE DEF cl, rk
      <3> QED
        BY <3>1 DEF Classed
    <2>3. CASE x # a
      <3>1. j.node[x].size = h.node[x].size /\ cl[x] = class[x] /\ rk[x] = rank[x]
        BY <1>21, <2>1, <2>3
      <3> HIDE DEF cl, rk
      <3> QED
        BY <1>8, <2>1, <3>1 DEF Classed
    <2> QED
      BY <2>2, <2>3
  <1> HIDE DEF cl, rk, F2, i
  <1>27. Sound(j, E)
    <2>1. Arranged(j, FreeNodes(j, E), cl, rk, bound + 1)
      BY <1>20, <1>24, <1>26 DEF Arranged
    <2>2. \A x \in E : j.node[x].allocated => j.node[x].next = NULL
      BY <1>21 DEF Sound, F, FreeNodes
    <2> QED
      BY <1>20, <1>23, <1>25, <2>1, <2>2 DEF Sound
  <1>28. Touching(j, E) \subseteq Touching(h, D) \ {a}
    <2> SUFFICES ASSUME NEW x \in Touching(j, E) PROVE x \in Touching(h, D) /\ x # a
      OBVIOUS
    <2>1. x \in F \ {b} /\ End(j, x) \in F \ {b}
      BY <1>24 DEF Touching
    <2>2. x # a
      BY <1>4, <1>23, <2>1
    <2>3. End(j, x) = End(h, x)
      BY <1>4, <1>23, <2>1, <2>2
    <2> QED
      BY <2>1, <2>2, <2>3 DEF Touching, F
  <1>29. Kept(h, j, a, D, E)
    <2>1. \A x \in D : h.node[x].allocated => x \in E /\ x # a
      OBVIOUS
    <2> QED
      BY <1>13, <1>21, <1>28, <2>1 DEF Kept
  <1> QED
    BY <1>6, <1>27, <1>29

LEMMA JoinFacts ==
  ASSUME arena \in Nat \ {0}, NEW D \in SUBSET Addr, NEW h, Sound(h, D),
         NEW a \in D \union {NULL}, a \in D => End(h, a) \notin Touching(h, D)
  PROVE  \E E \in SUBSET D : /\ Sound(join_with_next(h, a), E)
                             /\ Kept(h, join_with_next(h, a), a, D, E)
  <1> DEFINE b == End(h, a)
  <1>1. h \in HeapOver(D) /\ Tiled(h, D)
    BY DEF Sound
  <1>2. a \in D => /\ get_next_node(h, a) = IF b = Sentinel THEN NULL ELSE b
                   /\ b # Sentinel => b \in D
                   /\ a # NULL /\ Sentinel \notin D /\ (b \in D => b # NULL)
    <2>1. \A x \in D : x \in 1 .. arena /\ x # NULL
      BY HeadFacts DEF Addr
    <2> QED
      BY <1>1, <2>1, TiledFacts DEF Sentinel
  <1>3. NULL \notin D
    BY HeadFacts
  <1>4. CASE a \in D /\ a \in Touching(h, D)
    <2>1. b \in D /\ ~ h.node[a].allocated /\ ~ h.node[b].allocated /\ b # Sentinel
      BY <1>2, <1>4 DEF Touching, FreeNodes
    <2>2. Sound(join_with_next(h, a), D \ {b}) /\ Kept(h, join_with_next(h, a), a, D, D \ {b})
      BY <1>4, <2>1, JoinWork
    <2> QED
      BY <2>2
  <1>5. CASE a \notin Touching(h, D)
    <2>1. join_with_next(h, a) = h
      <3>1. a = NULL => join_with_next(h, a) = h
        BY DEF join_with_next
      <3>2. a \in D => h.node[a].allocated \/ b = Sentinel \/ b \notin FreeNodes(h, D)
        BY <1>5 DEF Touching, FreeNodes
      <3>3. a \in D => \/ h.node[a].allocated
                       \/ get_next_node(h, a) = NULL
                       \/ h.node[get_next_node(h, a)].allocated
        BY <1>2, <3>2 DEF FreeNodes
      <3> QED
        BY <1>2, <3>1, <3>3 DEF join_with_next
    <2>2. Kept(h, h, a, D, D)
      BY <1>5 DEF Kept
    <2> QED
      BY <2>1, <2>2
  <1> QED
    BY <1>3, <1>4, <1>5 DEF Touching, FreeNodes

\* The node before a, as its header tells.
LEMMA PrevFacts ==
  ASSUME arena \in Nat \ {0}, NEW D \in SUBSET Addr, NEW h \in HeapOver(D), Tiled(h, D),
         NEW a \in D
  PROVE  /\ get_prev_node(h, a) \in D \union {NULL}
         /\ get_prev_node(h, a) \in D => End(h, get_prev_node(h, a)) = a
         /\ get_prev_node(h, a) # a
         /\ \A x \in D : End(h, x) = a => x = get_prev_node(h, a)
  <1> DEFINE p == a - h.node[a].prev_size - 1
  <1>1. /\ \A x \in D : h.node[x].size \in 1 .. arena /\ h.node[x].prev_size \in 0 .. arena
                          /\ x \in 1 .. arena /\ x # NULL
        /\ \A x, y \in D : End(h, x) = End(h, y) => x = y
    <2>1. \A x \in D : x # NULL
      BY HeadFacts
    <2> QED
      BY <2>1, TiledFacts
  <1>2. get_prev_node(h, a) = IF h.node[a].prev_size = 0 THEN NULL ELSE p
    BY DEF get_prev_node
  <1>3. CASE h.node[a].prev_size = 0
    <2>1. a = 1
      BY <1>3 DEF Tiled, Back
    <2>2. \A x \in D : End(h, x) # a
      <3>1. \A x \in D : End(h, x) > 1
        BY <1>1 DEF End
      <3> QED
        BY <2>1, <3>1
    <2> QED
      BY <1>1, <1>2, <1>3, <2>2
  <1>4. CASE h.node[a].prev_size # 0
    <2>1. a # 1
      BY <1>4 DEF Tiled
    <2>2. p \in D /\ h.node[p].size = h.node[a].prev_size
      BY <2>1 DEF Tiled, Back
    <2>3. End(h, p) = a /\ p # a
      BY <1>1, <2>2 DEF End
    <2> HIDE DEF p
    <2> QED
      BY <1>1, <1>2, <1>4, <2>2, <2>3
  <1> QED
    BY <1>3, <1>4


\* A block that is given back is marked free and listed.
Released(h, a) ==
    prepend_free_node([h EXCEPT !.node[a].allocated = FALSE], a,
                      get_size_index_lower(h.node[a].size))

Freed(h, g, a, D) ==
    /\ Sound(g, D)
    /\ \A x \in D : /\ g.node[x].size = h.node[x].size
                    /\ g.node[x].prev_size = h.node[x].prev_size
                    /\ g.node[x].allocated <=> (x # a /\ h.node[x].allocated)
    /\ Touching(g, D) \subseteq Touching(h, D) \union {a, get_prev_node(h, a)}

LEMMA ReleaseFacts ==
  ASSUME arena \in Nat \ {0}, NEW D \in SUBSET Addr, NEW h, Sound(h, D),
         NEW a \in D, h.node[a].allocated
  PROVE  Freed(h, Released(h, a), a, D)
  <1> DEFINE F == FreeNodes(h, D)
             r == [h EXCEPT !.node[a].allocated = FALSE]
             i == get_size_index_lower(h.node[a].size)
             g == Released(h, a)
  <1>1. h \in HeapOver(D) /\ Tiled(h, D)
    BY DEF Sound
  <1>2. PICK class \in [Addr -> Class], rank \in [Addr -> Nat], bound \in Nat :
          Arranged(h, F, class, rank, bound)
    BY DEF Sound
  <1>3. /\ F \in SUBSET D /\ a \in D \ F
        /\ h.node[a] \in NodeType /\ h.node[a].size \in Nat \ {0}
    <2>1. h.node[a] \in NodeType
      BY <1>1 DEF HeapOver
    <2> QED
      BY <2>1 DEF FreeNodes, NodeType
  <1>4. i \in Class
    BY <1>3, LowerFacts
  <1>5. /\ r \in HeapOver(D)
        /\ r.free_nodes = h.free_nodes
        /\ \A x \in D : /\ r.node[x].size = h.node[x].size
                        /\ r.node[x].prev_size = h.node[x].prev_size
                        /\ r.node[x].prev = h.node[x].prev
                        /\ r.node[x].next = h.node[x].next
                        /\ r.node[x].allocated <=> (x # a /\ h.node[x].allocated)
    <2> DEFINE v == [h.node[a] EXCEPT !.allocated = FALSE]
    <2>1. v \in NodeType
      BY <1>3 DEF NodeType
    <2>2. r = [h EXCEPT !.node[a] = v]
      BY <1>1 DEF HeapOver
    <2>3. Changed(h, r, a, v, D)
      BY <1>1, <2>1, <2>2, ChangeFacts
    <2>4. /\ v.size = h.node[a].size /\ v.prev = h.node[a].prev /\ v.next = h.node[a].next
          /\ v.prev_size = h.node[a].prev_size /\ v.allocated = FALSE
      BY <1>3 DEF NodeType
    <2> HIDE DEF r, v
    <2> QED
      BY <2>3, <2>4 DEF Changed
  <1>6. \A x \in F : class[x] \in Class /\ rank[x] \in Nat /\ rank[x] <= bound /\ Classed(h, class, x)
    BY <1>2, <1>3 DEF Arranged
  <1> DEFINE cl == [class EXCEPT ![a] = i]
             rk == [rank EXCEPT ![a] = bound + 1]
  <1>7. Prepended(r, g, D, F, a, cl, rk)
    <2> HIDE DEF F, r
    <2>1. Listed(r, F, class, rank)
      <3>1. Listed(h, F, class, rank)
        BY <1>2 DEF Arranged
      <3> QED
        BY <1>3, <1>5, <1>6, <3>1, ListedSame
    <2>2. g = prepend_free_node(r, a, i)
      BY DEF Released, r
    <2>3. \A x \in F : rank[x] < bound + 1
      BY <1>6
    <2>4. bound + 1 \in Nat
      OBVIOUS
    <2> HIDE DEF g, i
    <2> QED
      BY <1>3, <1>4, <1>5, <2>1, <2>2, <2>3, <2>4, PrependFacts
  <1>8. g \in HeapOver(D) /\ Listed(g, F \union {a}, cl, rk)
    BY <1>7 DEF Prepended
  <1>9. \A x \in D : /\ g.node[x].size = h.node[x].size
                     /\ g.node[x].prev_size = h.node[x].prev_size
                     /\ g.node[x].allocated <=> (x # a /\ h.node[x].allocated)
                     /\ x \notin F \union {a} => g.node[x].next = h.node[x].next
    <2> SUFFICES ASSUME NEW x \in D
                 PROVE  /\ g.node[x].size = h.node[x].size
                        /\ g.node[x].prev_size = h.node[x].prev_size
                        /\ g.node[x].allocated <=> (x # a /\ h.node[x].allocated)
                        /\ x \notin F \union {a} => g.node[x].next = h.node[x].next
      OBVIOUS
    <2>1. g.node[x].allocated = r.node[x].allocated
      BY <1>7 DEF Prepended, SameSizes
    <2>2. g.node[x].allocated <=> (x # a /\ h.node[x].allocated)
      BY <1>5, <2>1
    <2> HIDE DEF g, r, F
    <2> QED
      BY <1>5, <1>7, <2>2 DEF Prepended, SameSizes
  <1> HIDE DEF g, r
  <1>10. F \union {a} = FreeNodes(g, D)
    BY <1>9 DEF FreeNodes
  <1>11. \A x \in D : End(g, x) = End(h, x)
    BY <1>9 DEF End
  <1>12. Tiled(g, D)
    <2>1. \A x \in D : g.node[x].size = h.node[x].size /\ g.node[x].prev_size = h.node[x].prev_size
      BY <1>9
    <2>2. ASSUME NEW x \in D PROVE Joint(g, D, x)
      <3>1. Joint(h, D, x) /\ End(g, x) = End(h, x)
        BY <1>1, <1>11 DEF Tiled
      <3> QED
        BY <2>1, <3>1 DEF Joint
    <2>3. ASSUME NEW x \in D PROVE Gap(g, D, x)
      <3>1. Gap(h, D, x) /\ End(g, x) = End(h, x)
        BY <1>1, <1>11 DEF Tiled
      <3> QED
        BY <3>1 DEF Gap
    <2>4. ASSUME NEW x \in D PROVE Back(g, D, x)
      <3>1. Back(h, D, x)
        BY <1>1 DEF Tiled
      <3> QED
        BY <2>1, <3>1 DEF Back
    <2>5. 1 \in D /\ g.node[1].prev_size = 0
      BY <1>1, <2>1 DEF Tiled
    <2> QED
      BY <2>2, <2>3, <2>4, <2>5 DEF Tiled
  <1>13. cl \in [Addr -> Class] /\ rk \in [Addr -> Nat] /\ bound + 1 \in Nat
    BY <1>4
  <1>14. Arranged(g, F \union {a}, cl, rk, bound + 1)
    <2> SUFFICES ASSUME NEW x \in F \union {a} PROVE rk[x] <= bound + 1 /\ Classed(g, cl, x)
      BY <1>8 DEF Arranged
    <2>1. x \in Addr /\ x \in D
      BY <1>3
    <2>2. CASE x = a
      <3>1. cl[x] = i /\ rk[x] = bound + 1 /\ g.node[x].size = h.node[a].size
        BY <1>9, <2>1, <2>2
      <3> HIDE DEF cl, rk
      <3> QED
        BY <3>1 DEF Classed
    <2>3. CASE x # a
      <3>1. cl[x] = class[x] /\ rk[x] = rank[x] /\ g.node[x].size = h.node[x].size /\ x \in F
        BY <1>9, <2>1, <2>3
      <3> HIDE DEF cl, rk
      <3> QED
        BY <1>6, <3>1 DEF Classed
    <2> QED
      BY <2>2, <2>3
  <1>15. Sound(g, D)
    <2>1. \A x \in D : g.node[x].allocated => g.node[x].next = NULL
      <3>1. \A x \in D : h.node[x].allocated => h.node[x].next = NULL
        BY DEF Sound
      <3> QED
        BY <1>9, <3>1 DEF FreeNodes
    <2> HIDE DEF cl, rk
    <2> QED
      BY <1>8, <1>10, <1>12, <1>13, <1>14, <2>1 DEF Sound
  <1>16. Touching(g, D) \subseteq Touching(h, D) \union {a, get_prev_node(h, a)}
    <2> SUFFICES ASSUME NEW x \in Touching(g, D), x # a
                 PROVE  x \in Touching(h, D) \/ x = get_prev_node(h, a)
      OBVIOUS
    <2>1. x \in F /\ End(h, x) \in F \union {a} /\ x \in D
      BY <1>10, <1>11 DEF Touching, FreeNodes
    <2>2. End(h, x) = a => x = get_prev_node(h, a)
      BY <1>1, <2>1, PrevFacts
    <2> QED
      BY <2>1, <2>2 DEF Touching
  <1>17. Freed(h, g, a, D)
    BY <1>9, <1>15, <1>16 DEF Freed
  <1> QED
    BY <1>17 DEF g

----------------------------------------------------------------------------
(* The inductive invariant.                                                *)

GrantedSound ==
    /\ DOMAIN granted \subseteq DOMAIN node
    /\ \A a \in DOMAIN node : node[a].allocated <=> a \in DOMAIN granted
    /\ \A a \in DOMAIN granted : granted[a] \in Request /\ granted[a] <= node[a].size

IInv ==
    /\ arena \in Arena
    /\ DOMAIN node \subseteq Addr
    /\ Sound(Heap0, DOMAIN node)
    /\ Touching(Heap0, DOMAIN node) = {}
    /\ GrantedSound

LEMMA ArenaNat ==
  ASSUME arena \in Arena
  PROVE  arena \in Nat \ {0}
  BY MiniMallocConstants

\* A step that leaves the arena and makes the heap h the next one.
LEMMA NextHeap ==
  ASSUME NEW D \in SUBSET Addr, NEW h, Sound(h, D), Touching(h, D) = {},
         node' = h.node, free_nodes' = h.free_nodes, arena' = arena, arena \in Arena,
         GrantedSound'
  PROVE  IInv'
  <1>1. h \in HeapOver(D)
    BY DEF Sound
  <1>2. DOMAIN node' = D
    BY <1>1 DEF HeapOver
  <1>3. Heap0' = h
    BY <1>1 DEF HeapOver, Heap0
  <1>4. Addr' = Addr
    BY DEF Addr
  <1>5. Sound(Heap0, DOMAIN node)'
    <2>1. HeapOver(D)' = HeapOver(D)
      BY DEF HeapOver, NodeType, Link, Addr
    <2>2. h \in HeapOver(D)'
      BY <1>1, <2>1
    <2>3. Tiled(h, D)'
      BY DEF Sound, Tiled, Joint, Gap, Back, End, Sentinel
    <2>4. \A class, x : Classed(h, class, x)' <=> Classed(h, class, x)
      BY DEF Classed
    <2>5. \E class \in [Addr -> Class] : \E rank \in [Addr -> Nat] : \E bound \in Nat :
            Arranged(h, FreeNodes(h, D), class, rank, bound)'
      <3>1. PICK class \in [Addr -> Class], rank \in [Addr -> Nat], bound \in Nat :
              Arranged(h, FreeNodes(h, D), class, rank, bound)
        BY DEF Sound
      <3>2. Arranged(h, FreeNodes(h, D), class, rank, bound)'
        BY <2>4, <3>1 DEF Arranged
      <3> QED
        BY <3>2
    <2>6. Sound(h, D)'
      BY <1>4, <2>2, <2>3, <2>5 DEF Sound
    <2> QED
      BY <1>2, <1>3, <2>6
  <1>6. Touching(Heap0, DOMAIN node)' = {}
    BY <1>2, <1>3 DEF Touching, FreeNodes, End
  <1> QED
    BY <1>2, <1>4, <1>5, <1>6 DEF IInv

----------------------------------------------------------------------------
(* mm_free.                                                                *)

LEMMA FreeInv ==
  ASSUME IInv, NEW a \in DOMAIN granted, mm_free(a)
  PROVE  IInv'
  <1> DEFINE D == DOMAIN node
             p == get_prev_node(Heap0, a)
             listed == Released(Heap0, a)
             next == join_with_next(listed, a)
             q == get_prev_node(next, a)
             h == join_with_next(next, q)
  <1>0. arena \in Nat \ {0} /\ arena \in Arena /\ D \in SUBSET Addr
    BY ArenaNat DEF IInv
  <1>1. Sound(Heap0, D) /\ Touching(Heap0, D) = {} /\ GrantedSound
    BY DEF IInv
  <1>2. Heap0 \in HeapOver(D) /\ Tiled(Heap0, D)
    BY <1>1 DEF Sound
  <1>3. a \in D /\ node[a].allocated /\ Heap0.node = node
    BY <1>1 DEF GrantedSound, Heap0
  <1>4. Freed(Heap0, listed, a, D)
    <2>1. Heap0.node[a].allocated
      BY <1>3
    <2> QED
      BY <1>0, <1>1, <1>3, <2>1, ReleaseFacts
  <1>5. /\ node' = h.node /\ free_nodes' = h.free_nodes /\ arena' = arena
        /\ granted' = [x \in DOMAIN granted \ {a} |-> granted[x]]
    <2>1. Heap0.node[a].size = node[a].size
      BY <1>3
    <2> QED
      BY <2>1 DEF mm_free, Released
  <1> HIDE DEF listed, p
  <1>6. Sound(listed, D) /\ listed \in HeapOver(D) /\ Tiled(listed, D) /\ Touching(listed, D) \subseteq {a, p}
    BY <1>1, <1>4 DEF Freed, Sound, p
  <1>7. p \in D \union {NULL} /\ (p \in D => End(Heap0, p) = a) /\ p # a
    BY <1>0, <1>2, <1>3, PrevFacts DEF p
  <1>8. \A x \in D : End(listed, x) = End(Heap0, x)
    BY <1>4 DEF Freed, End
  <1>9. End(listed, a) \notin Touching(listed, D)
    <2>1. End(Heap0, a) > a + 1 /\ End(Heap0, a) \in Int /\ a \in Int
      BY <1>0, <1>2, <1>3, TiledFacts
    <2>2. End(Heap0, a) # p
      <3>1. a \in 1 .. arena
        BY <1>0, <1>3 DEF Addr
      <3>2. End(Heap0, a) # NULL
        BY <1>0, <2>1, <3>1 DEF NULL
      <3> SUFFICES ASSUME p \in D, p = End(Heap0, a) PROVE FALSE
        BY <1>7, <3>2
      <3>3. End(Heap0, p) > p + 1 /\ p \in Int
        BY <1>0, <1>2, TiledFacts
      <3> QED
        BY <1>7, <2>1, <3>3
    <2> QED
      BY <1>3, <1>6, <1>8, <2>1, <2>2
  <1>10. PICK E \in SUBSET D : Sound(next, E) /\ Kept(listed, next, a, D, E)
    BY <1>0, <1>3, <1>6, <1>9, JoinFacts
  <1> HIDE DEF next, D
  <1>11. a \in E /\ next.node[a].prev_size = node[a].prev_size /\ Touching(next, E) \subseteq {p}
    <2>1. listed.node[a].prev_size = node[a].prev_size
      BY <1>3, <1>4 DEF Freed
    <2> QED
      BY <1>3, <1>6, <1>10, <2>1 DEF Kept
  <1>12. q = p
    BY <1>3, <1>11 DEF get_prev_node, p
  <1>13. E \in SUBSET Addr /\ next \in HeapOver(E) /\ Tiled(next, E)
    BY <1>0, <1>10 DEF Sound
  <1>14. q \in E \union {NULL} /\ (q \in E => End(next, q) = a)
    BY <1>0, <1>11, <1>13, PrevFacts
  <1>15. PICK G \in SUBSET E : Sound(h, G) /\ Kept(next, h, q, E, G)
    <2> HIDE DEF q, h
    <2>1. q \in E => End(next, q) \notin Touching(next, E)
      BY <1>7, <1>11, <1>14
    <2> QED
      BY <1>0, <1>10, <1>13, <1>14, <2>1, JoinFacts DEF h
  <1> HIDE DEF h, q
  <1>16. Touching(h, G) = {}
    BY <1>11, <1>12, <1>15 DEF Kept
  <1>17. DOMAIN node' = G
    BY <1>5, <1>15 DEF Sound, HeapOver
  <1>18. /\ \A x \in G : node'[x].allocated => x # a /\ node[x].allocated
         /\ \A x \in D : x # a /\ node[x].allocated =>
               x \in G /\ node'[x].allocated /\ node'[x].size = node[x].size
    <2>1. G \subseteq E /\ E \subseteq D
      OBVIOUS
    <2>2. ASSUME NEW x \in G, node'[x].allocated PROVE x # a /\ node[x].allocated
      <3>1. h.node[x].allocated
        BY <1>5, <2>2
      <3>2. next.node[x].allocated
        BY <1>15, <3>1 DEF Kept
      <3>3. listed.node[x].allocated
        BY <1>10, <2>1, <3>2 DEF Kept
      <3> QED
        BY <1>3, <1>4, <2>1, <3>3 DEF Freed
    <2>3. ASSUME NEW x \in D, x # a, node[x].allocated
          PROVE  x \in G /\ node'[x].allocated /\ node'[x].size = node[x].size
      <3>1. listed.node[x].allocated /\ listed.node[x].size = node[x].size
        BY <1>3, <1>4, <2>3 DEF Freed
      <3>2. x \in E /\ next.node[x].allocated /\ next.node[x].size = node[x].size
        BY <1>10, <3>1 DEF Kept
      <3>3. x \in G /\ h.node[x].allocated /\ h.node[x].size = node[x].size
        BY <1>15, <3>2 DEF Kept
      <3> QED
        BY <1>5, <3>3
    <2> QED
      BY <2>2, <2>3
  <1>19. GrantedSound'
    <2>1. DOMAIN granted' = DOMAIN granted \ {a}
            /\ \A x \in DOMAIN granted \ {a} : granted'[x] = granted[x]
      BY <1>5
    <2>2. \A x \in DOMAIN granted : x \in D /\ granted[x] \in Request
                                    /\ granted[x] <= node[x].size /\ node[x].allocated
      BY <1>1 DEF GrantedSound, D
    <2>3. \A x \in D : node[x].allocated => x \in DOMAIN granted
      BY <1>1 DEF GrantedSound, D
    <2>4. DOMAIN granted' \subseteq G
      BY <1>18, <2>1, <2>2
    <2>5. \A x \in G : node'[x].allocated <=> x \in DOMAIN granted'
      BY <1>18, <2>1, <2>2, <2>3
    <2>6. \A x \in DOMAIN granted' : granted'[x] \in Request /\ granted'[x] <= node'[x].size
      BY <1>18, <2>1, <2>2
    <2> QED
      BY <1>17, <2>4, <2>5, <2>6 DEF GrantedSound
  <1> QED
    BY <1>0, <1>5, <1>15, <1>16, <1>19, NextHeap

----------------------------------------------------------------------------
(* The search of the last class.                                           *)

Searches(from, S, h, units) ==
    from = [a \in S |-> IF a = NULL THEN NULL
                        ELSE IF h.node[a].size >= units THEN a ELSE from[h.node[a].next]]

LEMMA SearchExists ==
  ASSUME arena \in Nat \ {0}, NEW D \in SUBSET Addr, NEW h, Sound(h, D), NEW units \in Nat
  PROVE  \E from : Searches(from, D \union {NULL}, h, units)
  <1> DEFINE F == FreeNodes(h, D)
  <1>1. h \in HeapOver(D)
    BY DEF Sound
  <1>2. PICK class \in [Addr -> Class], rank \in [Addr -> Nat], bound \in Nat :
          Arranged(h, F, class, rank, bound)
    BY DEF Sound
  <1> DEFINE Part(n) == {NULL} \union (D \ F) \union {x \in F : rank[x] < n}
             S == {n \in Nat : \E from : Searches(from, Part(n), h, units)}
  <1>0. NULL \notin D /\ F \subseteq D
    BY HeadFacts DEF FreeNodes
  <1>3. \A x \in D \ F : h.node[x].next = NULL
    BY DEF Sound, FreeNodes
  <1>4. \A x \in F : h.node[x].next # NULL =>
          h.node[x].next \in F /\ rank[h.node[x].next] < rank[x]
    BY <1>2 DEF Arranged, Listed, After
  <1>5. \A x \in F : rank[x] \in Nat /\ rank[x] <= bound
    BY <1>0, <1>2 DEF Arranged
  <1> HIDE DEF F
  <1>6. 0 \in S
    <2> DEFINE f == [a \in Part(0) |-> IF a = NULL THEN NULL
                                       ELSE IF h.node[a].size >= units THEN a ELSE NULL]
    <2>1. f[NULL] = NULL
      OBVIOUS
    <2>2. \A a \in Part(0) : a # NULL => h.node[a].next = NULL
      BY <1>3, <1>5
    <2>3. \A a \in Part(0) : f[a] = IF a = NULL THEN NULL
                                    ELSE IF h.node[a].size >= units THEN a ELSE f[h.node[a].next]
      BY <2>1, <2>2
    <2>4. f = [a \in Part(0) |-> f[a]]
      OBVIOUS
    <2> HIDE DEF f, Part
    <2>5. Searches(f, Part(0), h, units)
      BY <2>3, <2>4 DEF Searches
    <2> QED
      BY <2>5
  <1>7. ASSUME NEW n \in Nat, n \in S PROVE n + 1 \in S
    <2>1. PICK from : Searches(from, Part(n), h, units)
      BY <1>7
    <2> DEFINE g == [a \in Part(n + 1) |->
                       IF a \in Part(n) THEN from[a]
                       ELSE IF h.node[a].size >= units THEN a ELSE from[h.node[a].next]]
    <2>2. Part(n) \subseteq Part(n + 1) /\ NULL \in Part(n)
      BY <1>5
    <2>3. \A a \in Part(n + 1) : a # NULL => h.node[a].next \in Part(n)
      <3> SUFFICES ASSUME NEW a \in Part(n + 1), a # NULL PROVE h.node[a].next \in Part(n)
        OBVIOUS
      <3>1. CASE a \in D \ F
        BY <1>3, <2>2, <3>1
      <3>2. CASE a \in F /\ rank[a] < n + 1
        BY <1>4, <1>5, <2>2, <3>2
      <3> QED
        BY <3>1, <3>2
    <2> HIDE DEF Part
    <2>4. \A a \in Part(n) : from[a] = IF a = NULL THEN NULL
                             ELSE IF h.node[a].size >= units THEN a ELSE from[h.node[a].next]
      BY <2>1 DEF Searches
    <2>5. \A a \in Part(n + 1) : g[a] = IF a = NULL THEN NULL
                             ELSE IF h.node[a].size >= units THEN a ELSE g[h.node[a].next]
      <3> SUFFICES ASSUME NEW a \in Part(n + 1)
                   PROVE  g[a] = IF a = NULL THEN NULL
                             ELSE IF h.node[a].size >= units THEN a ELSE g[h.node[a].next]
        OBVIOUS
      <3>1. a # NULL => g[h.node[a].next] = from[h.node[a].next]
        BY <2>2, <2>3
      <3>2. g[a] = IF a \in Part(n) THEN from[a]
                   ELSE IF h.node[a].size >= units THEN a ELSE from[h.node[a].next]
        OBVIOUS
      <3> HIDE DEF g
      <3>3. CASE a = NULL
        BY <2>2, <2>4, <3>2, <3>3
      <3>4. CASE a # NULL
        BY <2>4, <3>1, <3>2, <3>4
      <3> QED
        BY <3>3, <3>4
    <2>6. g = [a \in Part(n + 1) |-> g[a]]
      OBVIOUS
    <2> HIDE DEF g
    <2>7. Searches(g, Part(n + 1), h, units)
      BY <2>5, <2>6 DEF Searches
    <2> QED
      BY <2>7
  <1>8. bound + 1 \in S
    <2> HIDE DEF S
    <2> QED
      BY <1>6, <1>7, SetInduction
  <1>9. Part(bound + 1) = D \union {NULL}
    <2>1. \A x \in F : rank[x] < bound + 1
      BY <1>5
    <2> QED
      BY <1>0, <2>1
  <1> QED
    BY <1>8, <1>9

\* A search ends at a free node that is large enough, and it misses none.
LEMMA FirstFitFacts ==
  ASSUME arena \in Nat \ {0}, NEW D \in SUBSET Addr, NEW h, Sound(h, D), NEW units \in Nat,
         NEW class \in [Addr -> Class], NEW rank \in [Addr -> Nat], NEW bound \in Nat,
         Arranged(h, FreeNodes(h, D), class, rank, bound)
  PROVE  /\ FirstFit(h, units) # NULL =>
              FirstFit(h, units) \in FreeNodes(h, D) /\ h.node[FirstFit(h, units)].size >= units
         /\ FirstFit(h, units) = NULL =>
              \A x \in FreeNodes(h, D) : class[x] = LastClass => h.node[x].size < units
  <1> DEFINE F == FreeNodes(h, D)
             S == D \union {NULL}
             from == CHOOSE f : f = [a \in S |-> IF a = NULL THEN NULL
                        ELSE IF h.node[a].size >= units THEN a ELSE f[h.node[a].next]]
             head == h.free_nodes[LastClass]
  <1>0. NULL \notin D /\ F \subseteq D /\ LastClass \in Class /\ h \in HeapOver(D)
    BY HeadFacts, MiniMallocConstants DEF FreeNodes, Sound, Class, LastClass
  <1>1. Searches(from, S, h, units)
    <2>1. \E f : f = [a \in S |-> IF a = NULL THEN NULL
                        ELSE IF h.node[a].size >= units THEN a ELSE f[h.node[a].next]]
      BY SearchExists, SMTT(30) DEF Searches
    <2>2. from = [a \in S |-> IF a = NULL THEN NULL
                        ELSE IF h.node[a].size >= units THEN a ELSE from[h.node[a].next]]
      BY <2>1, Zenon
    <2> HIDE DEF from
    <2> QED
      BY <2>2 DEF Searches
  <1>2. FirstFit(h, units) = from[head]
    <2>1. DOMAIN h.node = D
      BY <1>0 DEF HeapOver
    <2> QED
      BY <2>1, Zenon DEF FirstFit
  <1> HIDE DEF from
  <1>3. \A a \in S : from[a] = IF a = NULL THEN NULL
                        ELSE IF h.node[a].size >= units THEN a ELSE from[h.node[a].next]
    BY <1>1 DEF Searches
  <1>4. /\ \A x \in F : rank[x] \in Nat /\ rank[x] <= bound /\ h.node[x].size \in Nat
        /\ \A x \in F : After(h, F, class, rank, x) /\ Before(h, F, class, x)
        /\ First(h, F, class, LastClass)
    BY <1>0 DEF Arranged, Listed, HeapOver, NodeType
  <1>5. \A x \in F : from[x] # NULL => from[x] \in F /\ h.node[from[x]].size >= units
    <2> DEFINE Bad == {x \in F : ~ (from[x] # NULL => from[x] \in F /\ h.node[from[x]].size >= units)}
               R == {rank[x] : x \in Bad}
    <2> SUFFICES ASSUME Bad # {} PROVE FALSE
      OBVIOUS
    <2>1. R \subseteq Nat /\ R # {}
      BY <1>4
    <2> HIDE DEF R, Bad
    <2>2. PICK m \in R : \A k \in R : m <= k
      BY <2>1, NatMin
    <2>3. PICK x \in Bad : rank[x] = m
      BY <2>2 DEF R
    <2>4. \A y \in Bad : rank[x] <= rank[y]
      BY <2>2, <2>3 DEF R
    <2>5. x \in F /\ from[x] # NULL /\ ~ (from[x] \in F /\ h.node[from[x]].size >= units)
      BY <2>3 DEF Bad
    <2>6. ~ (h.node[x].size >= units) /\ from[x] = from[h.node[x].next]
      BY <1>0, <1>3, <2>5
    <2>7. h.node[x].next # NULL
      BY <1>3, <2>5, <2>6
    <2>8. h.node[x].next \in F /\ rank[h.node[x].next] < rank[x]
      BY <1>4, <2>5, <2>7 DEF After
    <2>9. h.node[x].next \in Bad
      BY <2>5, <2>6, <2>8 DEF Bad
    <2> QED
      BY <1>4, <2>4, <2>5, <2>8, <2>9
  <1>6. head # NULL => head \in F
    BY <1>4 DEF First
  <1>7. from[head] # NULL => from[head] \in F /\ h.node[from[head]].size >= units
    BY <1>3, <1>5, <1>6
  <1>8. ASSUME from[head] = NULL
        PROVE  \A x \in F : class[x] = LastClass => h.node[x].size < units
    <2> DEFINE Bad == {x \in F : class[x] = LastClass /\ from[x] # NULL}
               R == {rank[x] : x \in Bad}
    <2>1. Bad = {}
      <3> SUFFICES ASSUME Bad # {} PROVE FALSE
        OBVIOUS
      <3>1. R \subseteq Nat /\ R # {} /\ \A k \in R : k <= bound
        BY <1>4
      <3> HIDE DEF R, Bad
      <3>2. PICK m \in R : \A k \in R : k <= m
        BY <3>1, NatMax
      <3>3. PICK x \in Bad : rank[x] = m
        BY <3>2 DEF R
      <3>4. \A y \in Bad : rank[y] <= rank[x]
        BY <3>2, <3>3 DEF R
      <3>5. x \in F /\ class[x] = LastClass /\ from[x] # NULL
        BY <3>3 DEF Bad
      <3> DEFINE p == h.node[x].prev
      <3>6. CASE p = Head(class[x]) /\ h.free_nodes[class[x]] = x
        BY <1>8, <3>5, <3>6
      <3>7. CASE p \in F /\ h.node[p].next = x
        <4>1. class[p] = LastClass /\ rank[x] < rank[p]
          BY <1>0, <1>4, <3>5, <3>7 DEF After
        <4>2. from[p] # NULL
          <5>1. from[p] = IF h.node[p].size >= units THEN p ELSE from[x]
            BY <1>0, <1>3, <3>7
          <5> QED
            BY <1>0, <3>5, <3>7, <5>1
        <4>3. p \in Bad
          BY <3>7, <4>1, <4>2 DEF Bad
        <4> QED
          BY <1>4, <3>4, <3>5, <3>7, <4>1, <4>3
      <3> QED
        BY <1>4, <3>5, <3>6, <3>7 DEF Before
    <2>2. ASSUME NEW x \in F, class[x] = LastClass PROVE h.node[x].size < units
      <3>1. from[x] = NULL
        BY <2>1, <2>2
      <3> HIDE DEF Bad
      <3>2. ~ (h.node[x].size >= units)
        BY <1>0, <1>3, <2>2, <3>1
      <3> QED
        BY <1>4, <3>2
    <2> QED
      BY <2>2
  <1> QED
    BY <1>2, <1>7, <1>8

\* A class with a listed node has a first one.
LEMMA HeadExists ==
  ASSUME arena \in Nat \ {0}, NEW F \in SUBSET Addr, NEW h,
         NEW class \in [Addr -> Class], NEW rank \in [Addr -> Nat], NEW bound \in Nat,
         Arranged(h, F, class, rank, bound), NEW x \in F
  PROVE  h.free_nodes[class[x]] # NULL
  <1> DEFINE Mates == {y \in F : class[y] = class[x]}
             R == {rank[y] : y \in Mates}
  <1>0. \A y \in F : class[y] \in Class /\ rank[y] \in Nat /\ rank[y] <= bound /\ y # NULL
    BY HeadFacts DEF Arranged
  <1>1. R \subseteq Nat /\ R # {} /\ \A k \in R : k <= bound
    BY <1>0
  <1> HIDE DEF R
  <1>2. PICK m \in R : \A k \in R : k <= m
    BY <1>1, NatMax
  <1>3. PICK y \in Mates : rank[y] = m
    BY <1>2 DEF R
  <1>4. \A z \in Mates : rank[z] <= rank[y]
    BY <1>2, <1>3 DEF R
  <1>5. y \in F /\ class[y] = class[x]
    BY <1>3
  <1>6. Before(h, F, class, y)
    BY <1>5 DEF Arranged, Listed
  <1> DEFINE p == h.node[y].prev
  <1>7. ~ (p \in F /\ h.node[p].next = y)
    <2> SUFFICES ASSUME p \in F, h.node[p].next = y PROVE FALSE
      OBVIOUS
    <2>1. After(h, F, class, rank, p)
      BY DEF Arranged, Listed
    <2>2. class[p] = class[y] /\ rank[y] < rank[p]
      BY <1>0, <1>5, <2>1 DEF After
    <2>3. p \in Mates
      BY <1>5, <2>2
    <2> QED
      BY <1>0, <1>4, <1>5, <2>2, <2>3
  <1>8. h.free_nodes[class[x]] = y
    BY <1>5, <1>6, <1>7 DEF Before
  <1> QED
    BY <1>0, <1>5, <1>8

\* What an allocation takes is free and large enough, and it fails only if
\* no free node has the size of the request's class.
LEMMA FindFacts ==
  ASSUME arena \in Nat \ {0}, NEW D \in SUBSET Addr, NEW h, Sound(h, D), NEW units \in Request
  PROVE  /\ Find(h, units) # NULL =>
              Find(h, units) \in FreeNodes(h, D) /\ Rounded(units) <= h.node[Find(h, units)].size
         /\ Find(h, units) = NULL =>
              \A x \in FreeNodes(h, D) : ~ (/\ h.node[x].size >= Rounded(units)
                                            /\ h.node[x].size >= sizes[get_size_index_upper(units)])
  <1> DEFINE F == FreeNodes(h, D)
             i == get_size_index_upper(units)
             R == Rounded(units)
             candidates == {k \in i .. LastClass : h.free_nodes[k] # NULL}
             first == CHOOSE k \in candidates : \A j \in candidates : k <= j
             found == Find(h, units)
  <1>0. /\ LastClass \in Nat /\ Class = 0 .. LastClass /\ i \in Class /\ R \in Nat \ {0}
        /\ (i < LastClass => R = sizes[i])
        /\ F \in SUBSET Addr /\ F \subseteq D /\ h \in HeapOver(D)
    BY RoundedFacts, MiniMallocConstants DEF Class, LastClass, FreeNodes, Sound
  <1>1. PICK class \in [Addr -> Class], rank \in [Addr -> Nat], bound \in Nat :
          Arranged(h, F, class, rank, bound)
    BY DEF Sound
  <1>2. /\ \A x \in F : class[x] \in Class /\ h.node[x].size \in Nat \ {0} /\ Classed(h, class, x)
        /\ \A k \in Class : First(h, F, class, k)
    BY <1>0, <1>1 DEF Arranged, Listed, HeapOver, NodeType
  <1>3. found = IF candidates = {} THEN NULL
                ELSE IF first = LastClass THEN FirstFit(h, R)
                ELSE IF h.node[h.free_nodes[first]].size < R THEN NULL
                ELSE h.free_nodes[first]
    BY DEF Find
  <1>4. candidates # {} => first \in candidates /\ \A j \in candidates : first <= j
    <2>1. candidates \subseteq Nat
      BY <1>0
    <2> HIDE DEF candidates
    <2>2. candidates # {} => \E k \in candidates : \A j \in candidates : k <= j
      BY <2>1, NatMin
    <2> QED
      BY <2>2
  <1>5. /\ FirstFit(h, R) # NULL => FirstFit(h, R) \in F /\ h.node[FirstFit(h, R)].size >= R
        /\ FirstFit(h, R) = NULL => \A x \in F : class[x] = LastClass => h.node[x].size < R
    BY <1>0, <1>1, FirstFitFacts
  <1>6. candidates # {} => /\ first \in Class /\ i <= first /\ h.free_nodes[first] \in F
                           /\ class[h.free_nodes[first]] = first
    <2> SUFFICES ASSUME candidates # {}
                 PROVE  /\ first \in Class /\ i <= first /\ h.free_nodes[first] \in F
                        /\ class[h.free_nodes[first]] = first
      OBVIOUS
    <2>1. first \in candidates
      BY <1>4
    <2> HIDE DEF first, i, F
    <2>2. first \in i .. LastClass /\ h.free_nodes[first] # NULL
      BY <2>1
    <2>3. first \in Class /\ i <= first
      BY <1>0, <2>2
    <2>4. First(h, F, class, first)
      BY <1>2, <2>3
    <2> QED
      BY <2>2, <2>3, <2>4 DEF First
  <1> HIDE DEF found, first, F, R, i
  <1>7. found # NULL => found \in F /\ R <= h.node[found].size
    <2>1. CASE candidates = {}
      BY <1>3, <2>1
    <2>2. CASE candidates # {} /\ first = LastClass
      BY <1>0, <1>2, <1>3, <1>5, <2>2
    <2>3. CASE candidates # {} /\ first # LastClass
      BY <1>0, <1>2, <1>3, <1>6, <2>3, SMTT(30)
    <2> QED
      BY <2>1, <2>2, <2>3
  <1>8. ASSUME found = NULL, NEW x \in F, h.node[x].size >= R, h.node[x].size >= sizes[i]
        PROVE  FALSE
    <2>1. i <= class[x]
      <3>1. i <= get_size_index_lower(h.node[x].size)
        BY <1>0, <1>2, <1>8, LowerFacts, SizesFacts
      <3> QED
        BY <1>0, <1>2, <3>1 DEF Classed
    <2>2. class[x] \in candidates
      <3>1. h.free_nodes[class[x]] # NULL
        BY <1>0, <1>1, HeadExists
      <3> QED
        BY <1>0, <1>2, <2>1, <3>1
    <2>3. candidates # {} /\ first <= class[x]
      BY <1>4, <2>2
    <2>4. CASE first = LastClass
      <3>1. class[x] = LastClass
        BY <1>0, <1>2, <2>3, <2>4
      <3>2. FirstFit(h, R) = NULL
        BY <1>3, <1>8, <2>3, <2>4
      <3>3. h.node[x].size < R
        BY <1>5, <3>1, <3>2
      <3> QED
        BY <1>0, <1>2, <1>8, <3>3
    <2>5. CASE first # LastClass
      <3> DEFINE y == h.free_nodes[first]
      <3>1. y \in F /\ class[y] = first /\ first \in Class /\ i <= first /\ i < LastClass
        BY <1>0, <1>6, <2>3, <2>5
      <3>2. y # NULL
        BY <1>0, <3>1, HeadFacts
      <3> HIDE DEF y
      <3>3. first = get_size_index_lower(h.node[y].size)
        BY <1>2, <2>5, <3>1 DEF Classed
      <3>4. sizes[first] <= h.node[y].size
        BY <1>2, <3>1, <3>3, LowerFacts
      <3>5. sizes[i] \in Nat /\ sizes[first] \in Nat /\ sizes[i] <= sizes[first]
        <4>1. sizes[i] \in Nat /\ sizes[first] \in Nat /\ i \in Nat /\ first \in Nat
          BY <1>0, <3>1, SizesFacts, LargestFacts
        <4>2. CASE i = first
          BY <4>1, <4>2
        <4>3. CASE i < first
          BY <1>0, <3>1, <4>1, <4>3, SizesFacts
        <4> QED
          BY <3>1, <4>1, <4>2, <4>3
      <3>6. ~ (h.node[y].size < R)
        BY <1>0, <1>2, <3>1, <3>4, <3>5
      <3>7. found = y
        BY <1>3, <2>3, <2>5, <3>6 DEF y
      <3> QED
        BY <1>8, <3>2, <3>7
    <2> QED
      BY <2>4, <2>5
  <1> QED
    BY <1>7, <1>8 DEF found, F, R, i

----------------------------------------------------------------------------
(* mm_allocate.                                                            *)

\* g is h after the split of node a: the rest of a is free and listed, and
\* a is still in the list of its former size.
SplitSound(h, g, a, size, D, E) ==
    /\ g \in HeapOver(E) /\ Tiled(g, E) /\ D \subseteq E
    /\ \E class \in [Addr -> Class] : \E rank \in [Addr -> Nat] : \E bound \in Nat :
          /\ Listed(g, FreeNodes(g, E), class, rank)
          /\ \A x \in FreeNodes(g, E) : rank[x] <= bound /\ (x # a => Classed(g, class, x))
    /\ \A x \in E : g.node[x].allocated => g.node[x].next = NULL
    /\ a \in FreeNodes(g, E) /\ size <= g.node[a].size
    /\ \A x \in D : g.node[x].allocated <=> h.node[x].allocated
    /\ \A x \in D \ {a} : g.node[x].size = h.node[x].size
    /\ \A x \in E \ D : ~ g.node[x].allocated
    /\ Touching(g, E) \subseteq {a}

LEMMA SplitFacts ==
  ASSUME arena \in Nat \ {0}, NEW D \in SUBSET Addr, NEW h, Sound(h, D), Touching(h, D) = {},
         NEW a \in FreeNodes(h, D), NEW size \in Nat \ {0}, size <= h.node[a].size
  PROVE  \E E \in SUBSET Addr : SplitSound(h, Split(h, a, size), a, size, D, E)
  <1> DEFINE left == h.node[a].size - size - 1
             b == a + size + 1
             c == End(h, a)
             new == [size |-> left, prev_size |-> size, allocated |-> FALSE,
                     prev |-> NULL, next |-> NULL]
             cut == [h EXCEPT !.node = [x \in DOMAIN h.node \union {b} |->
                        IF x = b THEN new
                        ELSE IF x = a THEN [h.node[a] EXCEPT !.size = size] ELSE h.node[x]]]
             told == SetPrevSize(cut, get_next_node(cut, b), left)
             i == get_size_index_lower(left)
             g == prepend_free_node(told, b, i)
             F == FreeNodes(h, D)
             E == D \union {b}
  <1>1. h \in HeapOver(D) /\ Tiled(h, D) /\ a \in D
    BY DEF Sound, FreeNodes
  <1>2. PICK class \in [Addr -> Class], rank \in [Addr -> Nat], bound \in Nat :
          Arranged(h, F, class, rank, bound)
    BY DEF Sound
  <1>3. h.node[a].size \in 1 .. arena /\ h.node[a] \in NodeType /\ left \in Int
    BY <1>1 DEF HeapOver, NodeType
  <1>4. CASE left < 1
    <2>1. Split(h, a, size) = h
      BY <1>4 DEF Split
    <2>2. Listed(h, F, class, rank) /\ \A x \in F : rank[x] <= bound /\ (x # a => Classed(h, class, x))
      BY <1>2 DEF Arranged
    <2>3. SplitSound(h, h, a, size, D, D)
      BY <1>1, <2>2 DEF SplitSound, Sound
    <2> QED
      BY <2>1, <2>3
  <1>5. CASE ~ (left < 1)
    <2>1. Split(h, a, size) = g
      BY <1>5 DEF Split
    <2>2. left \in 1 .. arena /\ left \in Nat \ {0} /\ left \in 0 .. arena /\ size \in 1 .. arena
      BY <1>3, <1>5
    <2>3. /\ \A x \in D : x \in 1 .. arena /\ h.node[x] \in NodeType /\ x # NULL
          /\ c \in Int /\ c <= Sentinel /\ c > a + 1
          /\ c # Sentinel => c \in D
      <3>1. \A x \in D : x \in 1 .. arena /\ h.node[x] \in NodeType /\ x # NULL
        BY <1>1, HeadFacts DEF HeapOver, Addr
      <3>2. c \in Int /\ c <= Sentinel /\ c > a + 1 /\ (c # Sentinel => c \in D)
        BY <1>1, TiledFacts
      <3> QED
        BY <3>1, <3>2
    <2>4. c = b + left + 1 /\ b \in Int /\ b > a /\ b < c
      <3>1. c = a + h.node[a].size + 1
        BY DEF End
      <3>2. a \in Int /\ size \in Nat /\ h.node[a].size \in Int
        BY <1>1, <1>3, <2>3
      <3>3. left \in Nat /\ left = h.node[a].size - size - 1
        BY <2>2
      <3> HIDE DEF c, left
      <3> QED
        BY <3>1, <3>2, <3>3, <2>2
    <2>5. b \in Addr /\ b \notin D
      <3>1. b \in 1 .. arena
        <4>1. a \in 1 .. arena /\ left >= 1 /\ left \in Int /\ c \in Int /\ c <= arena + 2
          BY <1>1, <2>2, <2>3 DEF Sentinel
        <4> HIDE DEF c, left, b
        <4> QED
          BY <2>4, <4>1
      <3>2. Gap(h, D, a)
        BY <1>1 DEF Tiled
      <3>3. b \notin D
        BY <2>4, <3>2 DEF Gap
      <3> QED
        BY <3>1, <3>3 DEF Addr
    <2>6. F \in SUBSET D /\ a \in F /\ c \notin F /\ E \in SUBSET Addr /\ F \in SUBSET E
            /\ b \in E \ F /\ b # a
      BY <1>1, <2>3, <2>5 DEF FreeNodes, Touching
    <2>7. \A x \in F : class[x] \in Class /\ rank[x] \in Nat /\ rank[x] <= bound /\ Classed(h, class, x)
      BY <1>2, <2>6 DEF Arranged
    <2>8. /\ cut \in HeapOver(E)
          /\ cut.free_nodes = h.free_nodes
          /\ \A x \in D : /\ cut.node[x].size = IF x = a THEN size ELSE h.node[x].size
                          /\ cut.node[x].prev_size = h.node[x].prev_size
                          /\ cut.node[x].allocated = h.node[x].allocated
                          /\ cut.node[x].prev = h.node[x].prev
                          /\ cut.node[x].next = h.node[x].next
          /\ cut.node[b] = new
      <3> DEFINE v == [h.node[a] EXCEPT !.size = size]
      <3>1. DOMAIN h.node = D
        BY <1>1 DEF HeapOver
      <3>2. /\ cut.node = [x \in E |-> IF x = b THEN new ELSE IF x = a THEN v ELSE h.node[x]]
            /\ cut.free_nodes = h.free_nodes
            /\ cut = [node |-> cut.node, free_nodes |-> cut.free_nodes]
        <4> DEFINE body == [x \in DOMAIN h.node \union {b} |->
                              IF x = b THEN new ELSE IF x = a THEN v ELSE h.node[x]]
        <4>1. cut = [h EXCEPT !.node = body]
          OBVIOUS
        <4>2. body = [x \in E |-> IF x = b THEN new ELSE IF x = a THEN v ELSE h.node[x]]
          BY <3>1
        <4> HIDE DEF body, cut
        <4>3. /\ cut.node = body /\ cut.free_nodes = h.free_nodes
              /\ cut = [node |-> cut.node, free_nodes |-> cut.free_nodes]
          BY <1>1, <4>1 DEF HeapOver
        <4> QED
          BY <4>2, <4>3, Zenon
      <3>3. new \in NodeType
        BY <2>2, HeadFacts DEF NodeType, Link
      <3>4. /\ v \in NodeType
            /\ v.size = size /\ v.prev_size = h.node[a].prev_size
            /\ v.allocated = h.node[a].allocated
            /\ v.prev = h.node[a].prev /\ v.next = h.node[a].next
        BY <1>3, <2>2 DEF NodeType
      <3> HIDE DEF v, new, cut
      <3>5. cut.node \in [E -> NodeType]
        BY <2>3, <3>2, <3>3, <3>4
      <3>6. cut \in HeapOver(E)
        BY <1>1, <3>2, <3>5 DEF HeapOver
      <3>7. \A x \in D : cut.node[x] = IF x = a THEN v ELSE h.node[x]
        BY <2>5, <3>2
      <3>8. cut.node[b] = new
        BY <3>2
      <3> QED
        BY <3>2, <3>4, <3>6, <3>7, <3>8
    <2> DEFINE nx == IF c = Sentinel THEN NULL ELSE c
    <2>9. /\ new.size = left /\ new.prev_size = size /\ new.allocated = FALSE
      OBVIOUS
    <2> HIDE DEF cut, new, told, g, F, left
    <2>10. get_next_node(cut, b) = nx /\ nx \in E \union {NULL}
      <3>1. b + cut.node[b].size + 1 = c
        BY <2>4, <2>8, <2>9
      <3> QED
        BY <2>3, <3>1 DEF get_next_node
    <2>11. Told(cut, told, nx, left, E)
      <3> HIDE DEF nx, E
      <3> QED
        BY <2>2, <2>6, <2>8, <2>10, ToldFacts DEF told
    <2>12. \A x \in E : x = nx <=> x = c
      <3>1. ASSUME NEW x \in E PROVE x # NULL /\ x # Sentinel
        BY <2>3, <2>5, HeadFacts, SMTT(30) DEF Addr, Sentinel
      <3> QED
        BY <3>1
    <2>13. Listed(told, F, class, rank)
      <3>1. Listed(h, F, class, rank)
        BY <1>2 DEF Arranged
      <3>2. \A k \in Class : told.free_nodes[k] = h.free_nodes[k]
        BY <2>8, <2>11 DEF Told
      <3>3. \A x \in F : told.node[x].prev = h.node[x].prev /\ told.node[x].next = h.node[x].next
        BY <2>6, <2>8, <2>11 DEF Told
      <3> QED
        BY <2>7, <3>1, <3>2, <3>3, ListedSame
    <2> DEFINE cl == [class EXCEPT ![b] = i]
               rk == [rank EXCEPT ![b] = bound + 1]
               F2 == F \union {b}
    <2>14. i \in Class
      BY <2>2, LowerFacts
    <2>15. Prepended(told, g, E, F, b, cl, rk)
      <3>1. told \in HeapOver(E)
        BY <2>11 DEF Told
      <3>2. bound + 1 \in Nat /\ \A x \in F : rank[x] < bound + 1
        BY <2>7
      <3> HIDE DEF i, E
      <3> QED
        BY <2>6, <2>13, <2>14, <3>1, <3>2, PrependFacts DEF g
    <2>16. /\ \A x \in D :
                /\ g.node[x].size = IF x = a THEN size ELSE h.node[x].size
                /\ g.node[x].prev_size = IF x = c THEN left ELSE h.node[x].prev_size
                /\ g.node[x].allocated <=> h.node[x].allocated
                /\ x \notin F => g.node[x].next = h.node[x].next
           /\ g.node[b].size = left /\ g.node[b].prev_size = size /\ ~ g.node[b].allocated
      <3>1. \A x \in E : /\ g.node[x].size = cut.node[x].size
                         /\ g.node[x].prev_size = IF x = c THEN left ELSE cut.node[x].prev_size
                         /\ g.node[x].allocated <=> (x = c \/ cut.node[x].allocated)
                         /\ x \notin F2 => g.node[x].next = cut.node[x].next
        <4> SUFFICES ASSUME NEW x \in E
                     PROVE  /\ g.node[x].size = cut.node[x].size
                            /\ g.node[x].prev_size = IF x = c THEN left ELSE cut.node[x].prev_size
                            /\ g.node[x].allocated <=> (x = c \/ cut.node[x].allocated)
                            /\ x \notin F2 => g.node[x].next = cut.node[x].next
          OBVIOUS
        <4>1. g.node[x].allocated = told.node[x].allocated
          BY <2>15 DEF Prepended, SameSizes
        <4>2. told.node[x].allocated <=> (x = nx \/ cut.node[x].allocated)
          BY <2>11 DEF Told
        <4>3. g.node[x].allocated <=> (x = c \/ cut.node[x].allocated)
          BY <2>12, <4>1, <4>2
        <4>4. x \notin F2 => g.node[x].next = told.node[x].next
          BY <2>15 DEF Prepended
        <4> HIDE DEF E, nx, cl, rk, c
        <4> QED
          BY <2>11, <2>12, <2>15, <4>3, <4>4 DEF Told, Prepended, SameSizes
      <3>2. ASSUME NEW x \in D
            PROVE  /\ g.node[x].size = IF x = a THEN size ELSE h.node[x].size
                   /\ g.node[x].prev_size = IF x = c THEN left ELSE h.node[x].prev_size
                   /\ g.node[x].allocated <=> h.node[x].allocated
                   /\ x \notin F => g.node[x].next = h.node[x].next
        <4>1. x = c => h.node[x].allocated
          BY <2>6 DEF F, FreeNodes
        <4>2. cut.node[x].allocated = h.node[x].allocated
          BY <2>8
        <4>3. g.node[x].allocated <=> h.node[x].allocated
          BY <3>1, <4>1, <4>2
        <4>4. x # b
          BY <2>5
        <4> QED
          BY <2>8, <3>1, <4>3, <4>4
      <3>3. g.node[b].size = left /\ g.node[b].prev_size = size /\ ~ g.node[b].allocated
        <4>1. b # c /\ b \in E
          BY <2>4
        <4> QED
          BY <2>8, <2>9, <3>1, <4>1
      <3> QED
        BY <3>2, <3>3
    <2>17. Cut(h, g, a, size, D)
      BY <2>16 DEF Cut, left
    <2>18. /\ Tiled(g, E) /\ End(g, a) = b /\ End(g, b) = c
           /\ \A x \in D \ {a} : End(g, x) = End(h, x)
      <3>1. h.node[a].size - size - 1 >= 1
        BY <1>5, <1>3 DEF left
      <3> QED
        BY <1>1, <2>17, <3>1, CutTiled
    <2>19. F2 = FreeNodes(g, E)
      BY <2>5, <2>16 DEF FreeNodes, F
    <2>20. \A x \in F2 : rk[x] <= bound + 1 /\ (x # a => Classed(g, cl, x))
      <3> SUFFICES ASSUME NEW x \in F2 PROVE rk[x] <= bound + 1 /\ (x # a => Classed(g, cl, x))
        OBVIOUS
      <3>1. x \in Addr
        BY <2>5, <2>6
      <3>2. CASE x = b
        <4>1. rk[x] = bound + 1 /\ cl[x] = i /\ g.node[x].size = left
          BY <2>16, <3>1, <3>2
        <4> HIDE DEF rk, cl
        <4> QED
          BY <4>1 DEF Classed
      <3>3. CASE x # b
        <4>1. x \in F /\ x \in D /\ rk[x] = rank[x] /\ cl[x] = class[x]
          BY <2>6, <3>1, <3>3
        <4>2. x # a => g.node[x].size = h.node[x].size
          BY <2>16, <4>1
        <4> HIDE DEF rk, cl
        <4> QED
          BY <2>7, <4>1, <4>2 DEF Classed
      <3> QED
        BY <3>2, <3>3
    <2>21. cl \in [Addr -> Class] /\ rk \in [Addr -> Nat] /\ bound + 1 \in Nat
      <3> HIDE DEF i
      <3>1. bound + 1 \in Nat
        OBVIOUS
      <3> QED
        BY <2>14, <3>1
    <2>22. g \in HeapOver(E) /\ Listed(g, F2, cl, rk)
      BY <2>15 DEF Prepended
    <2>23. Touching(g, E) \subseteq {a}
      <3> SUFFICES ASSUME NEW x \in Touching(g, E), x # a PROVE FALSE
        OBVIOUS
      <3>1. x \in F2 /\ End(g, x) \in F2
        BY <2>19 DEF Touching
      <3>2. x # b
        BY <2>4, <2>6, <2>18, <3>1
      <3>3. x \in D /\ x \in F /\ End(g, x) = End(h, x)
        BY <2>6, <2>18, <3>1, <3>2
      <3>4. End(h, x) # b
        <4>1. b # Sentinel /\ b \notin D
          BY <2>3, <2>4, <2>5
        <4> QED
          BY <1>1, <3>3, <4>1, TiledFacts
      <3> QED
        BY <3>1, <3>3, <3>4 DEF Touching, F
    <2>24. \A x \in E : g.node[x].allocated => g.node[x].next = NULL
      <3>1. \A x \in D : h.node[x].allocated => h.node[x].next = NULL
        BY DEF Sound
      <3> QED
        BY <2>16, <3>1 DEF FreeNodes, F
    <2>25. a \in FreeNodes(g, E) /\ size <= g.node[a].size
      <3>1. a \in F2 /\ g.node[a].size = size
        BY <1>1, <2>6, <2>16
      <3>2. size <= g.node[a].size
        BY <3>1
      <3> HIDE DEF F2
      <3> QED
        BY <2>19, <3>1, <3>2
    <2>26. SplitSound(h, g, a, size, D, E)
      <3>1. \E k \in [Addr -> Class] : \E r \in [Addr -> Nat] : \E m \in Nat :
              /\ Listed(g, FreeNodes(g, E), k, r)
              /\ \A x \in FreeNodes(g, E) : r[x] <= m /\ (x # a => Classed(g, k, x))
        <4> HIDE DEF cl, rk, F2
        <4> QED
          BY <2>19, <2>20, <2>21, <2>22
      <3> QED
        BY <2>16, <2>18, <2>22, <2>23, <2>24, <2>25, <3>1 DEF SplitSound
    <2> QED
      BY <2>1, <2>6, <2>26
  <1> QED
    BY <1>4, <1>5

\* t is g with node a taken out of its list and handed out.
Taken(g, t, a, E) ==
    /\ Sound(t, E)
    /\ Touching(t, E) = {}
    /\ \A x \in E : /\ t.node[x].size = g.node[x].size
                    /\ t.node[x].allocated <=> (x = a \/ g.node[x].allocated)

\* Taking the node that a split has left.
LEMMA TakeFacts ==
  ASSUME arena \in Nat \ {0}, NEW D \in SUBSET Addr, NEW E \in SUBSET Addr,
         NEW h, NEW g, NEW a, NEW size, SplitSound(h, g, a, size, D, E)
  PROVE  Taken(g, TakeNode(g, a), a, E)
  <1> DEFINE F == FreeNodes(g, E)
             u == Unlink(g, a)
             v == [u.node[a] EXCEPT !.allocated = TRUE, !.prev = NULL, !.next = NULL]
             t == TakeNode(g, a)
  <1>1. g \in HeapOver(E) /\ Tiled(g, E) /\ a \in F /\ F \in SUBSET E /\ a \in E
    BY DEF SplitSound, FreeNodes
  <1>2. PICK class \in [Addr -> Class], rank \in [Addr -> Nat], bound \in Nat :
          /\ Listed(g, F, class, rank)
          /\ \A x \in F : rank[x] <= bound /\ (x # a => Classed(g, class, x))
    BY DEF SplitSound
  <1> HIDE DEF F
  <1>3. Unlinked(g, u, E, F, a, class, rank)
    BY <1>1, <1>2, UnlinkFacts
  <1> HIDE DEF u
  <1>4. u \in HeapOver(E) /\ u.node[a] \in NodeType /\ Listed(u, F \ {a}, class, rank)
    BY <1>1, <1>3 DEF Unlinked, HeapOver
  <1>5. Changed(u, t, a, v, E)
    <2>1. t = [u EXCEPT !.node[a] = v]
      <3>1. t = [u EXCEPT !.node[a].allocated = TRUE, !.node[a].prev = NULL, !.node[a].next = NULL]
        BY DEF TakeNode, u
      <3> QED
        BY <1>1, <1>4, <3>1, ZenonT(30) DEF HeapOver
    <2>2. v \in NodeType
      BY <1>4, HeadFacts DEF NodeType, Link
    <2> HIDE DEF t, v
    <2> QED
      BY <1>1, <1>4, <2>1, <2>2, ChangeFacts
  <1>6. /\ v.size = u.node[a].size /\ v.prev_size = u.node[a].prev_size /\ v.allocated = TRUE
        /\ v.next = NULL
    BY <1>4 DEF NodeType
  <1> HIDE DEF t, v
  <1>7. \A x \in E : /\ t.node[x].size = g.node[x].size
                     /\ t.node[x].prev_size = g.node[x].prev_size
                     /\ t.node[x].allocated <=> (x = a \/ g.node[x].allocated)
    <2> SUFFICES ASSUME NEW x \in E
                 PROVE  /\ t.node[x].size = g.node[x].size
                        /\ t.node[x].prev_size = g.node[x].prev_size
                        /\ t.node[x].allocated <=> (x = a \/ g.node[x].allocated)
      OBVIOUS
    <2>1. /\ u.node[x].size = g.node[x].size /\ u.node[x].prev_size = g.node[x].prev_size
          /\ u.node[x].allocated = g.node[x].allocated
      BY <1>3 DEF Unlinked, SameSizes
    <2>2. CASE x = a
      BY <1>5, <1>6, <2>1, <2>2 DEF Changed
    <2>3. CASE x # a
      BY <1>5, <2>1, <2>3 DEF Changed
    <2> QED
      BY <2>2, <2>3
  <1>8. F \ {a} = FreeNodes(t, E)
    BY <1>7 DEF F, FreeNodes
  <1>9. \A x \in E : End(t, x) = End(g, x)
    BY <1>7 DEF End
  <1>10. Tiled(t, E)
    <2>1. \A x \in E : t.node[x].size = g.node[x].size /\ t.node[x].prev_size = g.node[x].prev_size
      BY <1>7
    <2>2. ASSUME NEW x \in E PROVE Joint(t, E, x)
      <3>1. Joint(g, E, x) /\ End(t, x) = End(g, x)
        BY <1>1, <1>9 DEF Tiled
      <3> QED
        BY <2>1, <3>1 DEF Joint
    <2>3. ASSUME NEW x \in E PROVE Gap(t, E, x)
      <3>1. Gap(g, E, x) /\ End(t, x) = End(g, x)
        BY <1>1, <1>9 DEF Tiled
      <3> QED
        BY <3>1 DEF Gap
    <2>4. ASSUME NEW x \in E PROVE Back(t, E, x)
      <3>1. Back(g, E, x)
        BY <1>1 DEF Tiled
      <3> QED
        BY <2>1, <3>1 DEF Back
    <2>5. 1 \in E /\ t.node[1].prev_size = 0
      BY <1>1, <2>1 DEF Tiled
    <2> QED
      BY <2>2, <2>3, <2>4, <2>5 DEF Tiled
  <1>11. Arranged(t, F \ {a}, class, rank, bound)
    <2>1. Listed(t, F \ {a}, class, rank)
      <3>1. \A x \in F \ {a} : t.node[x] = u.node[x]
        BY <1>1, <1>5 DEF Changed
      <3>2. t.free_nodes = u.free_nodes
        BY <1>5 DEF Changed
      <3>3. \A x \in F \ {a} : class[x] \in Class
        BY <1>1
      <3> QED
        BY <1>4, <3>1, <3>2, <3>3, ListedSame
    <2>2. \A x \in F \ {a} : Classed(t, class, x)
      BY <1>1, <1>2, <1>7 DEF Classed
    <2> QED
      BY <1>2, <2>1, <2>2 DEF Arranged
  <1>12. \A x \in E : t.node[x].allocated => t.node[x].next = NULL
    <2> SUFFICES ASSUME NEW x \in E, t.node[x].allocated PROVE t.node[x].next = NULL
      OBVIOUS
    <2>1. CASE x = a
      BY <1>5, <1>6, <2>1 DEF Changed
    <2>2. CASE x # a
      <3>1. g.node[x].allocated /\ x \notin F
        BY <1>7, <2>2 DEF F, FreeNodes
      <3>2. t.node[x] = g.node[x]
        BY <1>3, <1>5, <2>2, <3>1 DEF Changed, Unlinked
      <3> QED
        BY <3>1, <3>2 DEF SplitSound
    <2> QED
      BY <2>1, <2>2
  <1>13. Sound(t, E)
    <2>1. Arranged(t, FreeNodes(t, E), class, rank, bound)
      BY <1>8, <1>11
    <2>2. t \in HeapOver(E)
      BY <1>5 DEF Changed
    <2> QED
      BY <1>10, <1>12, <2>1, <2>2 DEF Sound
  <1>14. Touching(t, E) = {}
    <2> SUFFICES ASSUME NEW x \in Touching(t, E) PROVE FALSE
      OBVIOUS
    <2>1. x \in F /\ x # a /\ End(g, x) \in F
      BY <1>1, <1>8, <1>9 DEF Touching
    <2>2. x \in Touching(g, E)
      BY <2>1 DEF Touching, F
    <2> QED
      BY <2>1, <2>2 DEF SplitSound
  <1> QED
    BY <1>7, <1>13, <1>14 DEF t, Taken

LEMMA AllocateInv ==
  ASSUME IInv, NEW units \in Request, mm_allocate(units)
  PROVE  IInv'
  <1> DEFINE D == DOMAIN node
             a == Find(Heap0, units)
             R == Rounded(units)
             g == Split(Heap0, a, R)
             h == TakeNode(g, a)
  <1>0. arena \in Nat \ {0} /\ arena \in Arena /\ D \in SUBSET Addr
    BY ArenaNat DEF IInv
  <1>1. Sound(Heap0, D) /\ Touching(Heap0, D) = {} /\ GrantedSound
    BY DEF IInv
  <1>2. /\ a # NULL /\ node' = h.node /\ free_nodes' = h.free_nodes /\ arena' = arena
        /\ granted' = [x \in DOMAIN granted \union {a} |-> IF x = a THEN units ELSE granted[x]]
    BY DEF mm_allocate
  <1>3. a \in FreeNodes(Heap0, D) /\ R <= Heap0.node[a].size
    BY <1>0, <1>1, <1>2, FindFacts
  <1>4. R \in Nat \ {0} /\ units <= R /\ units \in Nat
    BY RoundedFacts
  <1> HIDE DEF a, R
  <1>5. PICK E \in SUBSET Addr : SplitSound(Heap0, g, a, R, D, E)
    BY <1>0, <1>1, <1>3, <1>4, SplitFacts
  <1> HIDE DEF g, D
  <1>6. /\ Sound(h, E) /\ Touching(h, E) = {}
        /\ \A x \in E : /\ h.node[x].size = g.node[x].size
                        /\ h.node[x].allocated <=> (x = a \/ g.node[x].allocated)
    <2>1. Taken(g, h, a, E)
      BY <1>0, <1>5, TakeFacts
    <2> HIDE DEF h
    <2> QED
      BY <2>1 DEF Taken
  <1> HIDE DEF h
  <1>7. DOMAIN node' = E
    BY <1>2, <1>6 DEF Sound, HeapOver
  <1>8. GrantedSound'
    <2>1. /\ D \subseteq E /\ a \in E /\ a \in D /\ ~ node[a].allocated
          /\ R <= g.node[a].size /\ g.node[a].size \in Nat
          /\ \A x \in D : g.node[x].allocated <=> node[x].allocated
          /\ \A x \in D \ {a} : g.node[x].size = node[x].size
          /\ \A x \in E \ D : ~ g.node[x].allocated
      BY <1>3, <1>5 DEF SplitSound, FreeNodes, Heap0, HeapOver, NodeType
    <2>2. DOMAIN granted' = DOMAIN granted \union {a}
            /\ \A x \in DOMAIN granted \union {a} :
                 granted'[x] = IF x = a THEN units ELSE granted[x]
      BY <1>2
    <2>3. /\ DOMAIN granted \subseteq D
          /\ \A x \in D : node[x].allocated <=> x \in DOMAIN granted
          /\ \A x \in DOMAIN granted : granted[x] \in Request /\ granted[x] <= node[x].size
      BY <1>1 DEF GrantedSound, D
    <2>4. DOMAIN granted' \subseteq E
      BY <2>1, <2>2, <2>3
    <2>5. \A x \in E : node'[x].allocated <=> x \in DOMAIN granted'
      <3> SUFFICES ASSUME NEW x \in E PROVE node'[x].allocated <=> x \in DOMAIN granted'
        OBVIOUS
      <3>1. node'[x].allocated <=> (x = a \/ g.node[x].allocated)
        BY <1>2, <1>6
      <3>2. CASE x \in D
        BY <2>1, <2>2, <2>3, <3>1, <3>2
      <3>3. CASE x \notin D
        BY <2>1, <2>2, <2>3, <3>1, <3>3
      <3> QED
        BY <3>2, <3>3
    <2>6. \A x \in DOMAIN granted' : granted'[x] \in Request /\ granted'[x] <= node'[x].size
      <3> SUFFICES ASSUME NEW x \in DOMAIN granted'
                   PROVE  granted'[x] \in Request /\ granted'[x] <= node'[x].size
        OBVIOUS
      <3>1. node'[x].size = g.node[x].size
        BY <1>2, <1>6, <2>4
      <3>2. CASE x = a
        BY <1>4, <2>1, <2>2, <3>1, <3>2
      <3>3. CASE x # a
        <4>1. x \in DOMAIN granted /\ granted'[x] = granted[x] /\ x \in D \ {a}
          BY <2>2, <2>3, <3>3
        <4>2. node'[x].size = node[x].size
          BY <2>1, <3>1, <4>1
        <4> QED
          BY <2>3, <4>1, <4>2
      <3> QED
        BY <3>2, <3>3
    <2> QED
      BY <1>7, <2>4, <2>5, <2>6 DEF GrantedSound
  <1> QED
    BY <1>0, <1>2, <1>6, <1>8, NextHeap

----------------------------------------------------------------------------
(* The invariant holds.                                                    *)

LEMMA InitIInv == Init => IInv
  <1> SUFFICES ASSUME Init PROVE IInv
    OBVIOUS
  <1> DEFINE D == {1}
             first == [size |-> arena, prev_size |-> 0, allocated |-> FALSE,
                       prev |-> Head(LastClass), next |-> NULL]
  <1>0. /\ arena \in Nat \ {0} /\ arena \in Arena /\ LastClass \in Class
        /\ D \in SUBSET Addr /\ 1 \in Addr
    BY ArenaNat, MiniMallocConstants DEF Init, Class, LastClass, Addr
  <1>1. /\ node = [a \in {1} |-> first] /\ DOMAIN node = D /\ node[1] = first
        /\ free_nodes = [i \in Class |-> IF i = LastClass THEN 1 ELSE NULL]
        /\ granted = [a \in {} |-> 0]
    BY DEF Init
  <1>2. first \in NodeType
    <2>1. Head(LastClass) \in Link
      BY <1>0 DEF Link
    <2> QED
      BY <1>0, <2>1, HeadFacts DEF NodeType, Link
  <1>3. /\ first.size = arena /\ first.prev_size = 0 /\ first.allocated = FALSE
        /\ first.prev = Head(LastClass) /\ first.next = NULL
    OBVIOUS
  <1> HIDE DEF first
  <1>4. Heap0 \in HeapOver(D) /\ Heap0.node = node /\ Heap0.free_nodes = free_nodes
    BY <1>0, <1>1, <1>2 DEF Heap0, HeapOver
  <1>5. End(Heap0, 1) = Sentinel
    BY <1>0, <1>1, <1>3, <1>4 DEF End, Sentinel
  <1>6. Tiled(Heap0, D)
    <2>1. Gap(Heap0, D, 1)
      BY DEF Gap
    <2> QED
      BY <1>1, <1>3, <1>4, <1>5, <2>1 DEF Tiled, Joint, Back
  <1>7. FreeNodes(Heap0, D) = {1}
    BY <1>1, <1>3, <1>4 DEF FreeNodes
  <1>8. Sound(Heap0, D)
    <2> DEFINE class == [a \in Addr |-> LastClass]
               rank == [a \in Addr |-> 0]
    <2>1. class \in [Addr -> Class] /\ rank \in [Addr -> Nat] /\ class[1] = LastClass /\ rank[1] = 0
      BY <1>0
    <2> HIDE DEF class, rank
    <2>2. \A i \in Class : First(Heap0, {1}, class, i)
      BY <1>1, <1>3, <1>4, <2>1 DEF First
    <2>3. Before(Heap0, {1}, class, 1) /\ After(Heap0, {1}, class, rank, 1)
      BY <1>0, <1>1, <1>3, <1>4, <2>1 DEF Before, After
    <2>4. Classed(Heap0, class, 1)
      BY <1>1, <1>3, <1>4, <2>1 DEF Classed
    <2>5. Arranged(Heap0, {1}, class, rank, 0)
      BY <2>1, <2>2, <2>3, <2>4 DEF Arranged, Listed
    <2>6. Arranged(Heap0, FreeNodes(Heap0, D), class, rank, 0) /\ 0 \in Nat
      BY <1>7, <2>5
    <2>7. \A a \in D : Heap0.node[a].allocated => Heap0.node[a].next = NULL
      BY <1>1, <1>3, <1>4
    <2>8. \E c \in [Addr -> Class], r \in [Addr -> Nat], bound \in Nat :
            Arranged(Heap0, FreeNodes(Heap0, D), c, r, bound)
      BY <2>1, <2>6
    <2> QED
      BY <1>4, <1>6, <2>7, <2>8 DEF Sound
  <1>9. Touching(Heap0, D) = {}
    <2>1. Sentinel # 1
      BY <1>0 DEF Sentinel
    <2> QED
      BY <1>5, <1>7, <2>1 DEF Touching
  <1>10. GrantedSound
    BY <1>1, <1>3 DEF GrantedSound
  <1> QED
    BY <1>0, <1>1, <1>8, <1>9, <1>10 DEF IInv

LEMMA StepIInv == IInv /\ [Next]_vars => IInv'
  <1> SUFFICES ASSUME IInv, [Next]_vars PROVE IInv'
    OBVIOUS
  <1>0. arena \in Arena /\ Sound(Heap0, DOMAIN node) /\ Touching(Heap0, DOMAIN node) = {}
          /\ GrantedSound /\ Heap0.node = node /\ Heap0.free_nodes = free_nodes
    BY DEF IInv, Heap0
  <1>1. CASE UNCHANGED vars
    <2>1. node' = node /\ free_nodes' = free_nodes /\ arena' = arena /\ granted' = granted
      BY <1>1 DEF vars
    <2>2. GrantedSound'
      BY <1>0, <2>1 DEF GrantedSound
    <2>3. DOMAIN node \in SUBSET Addr
      BY DEF IInv
    <2> QED
      BY <1>0, <2>1, <2>2, <2>3, NextHeap
  <1>2. ASSUME NEW units \in Request, mm_allocate(units) PROVE IInv'
    BY <1>2, AllocateInv
  <1>3. ASSUME NEW units \in Request, AllocateFails(units) PROVE IInv'
    BY <1>1, <1>3 DEF AllocateFails
  <1>4. ASSUME NEW a \in DOMAIN granted, mm_free(a) PROVE IInv'
    BY <1>4, FreeInv
  <1> QED
    BY <1>1, <1>2, <1>3, <1>4 DEF Next

(* The heap is sound in every reachable state: the nodes tile the arena,   *)
(* each free node is linked into the list of its class and into no cycle,  *)
(* no two free nodes touch, and what is allocated is what was handed out   *)
(* (mini_malloc.cpp, mm_allocate and mm_free).                             *)
THEOREM Invariance == Spec => []IInv
  BY InitIInv, StepIInv, PTL DEF Spec

----------------------------------------------------------------------------
(* What follows from the invariant.                                        *)

LEMMA TileOK == IInv => NodesTile
  <1> SUFFICES ASSUME IInv PROVE NodesTile
    OBVIOUS
  <1> DEFINE D == DOMAIN node
  <1>0. /\ arena \in Arena /\ arena \in Nat \ {0} /\ D \in SUBSET Addr
        /\ Heap0 \in HeapOver(D) /\ Tiled(Heap0, D) /\ GrantedSound
        /\ Heap0.node = node /\ Heap0.free_nodes = free_nodes
    BY ArenaNat DEF IInv, Sound, Heap0
  <1>1. TypeOK
    BY <1>0 DEF TypeOK, HeapOver, GrantedSound
  <1>2. 1 \in D /\ node[1].prev_size = 0
    BY <1>0 DEF Tiled
  <1>3. ASSUME NEW a \in D
        PROVE  LET b == a + node[a].size + 1 IN
               /\ b = Sentinel \/ (b \in D /\ node[b].prev_size = node[a].size)
               /\ \A c \in a + 1 .. b - 1 : c \notin D
               /\ node[a].allocated <=> a \in DOMAIN granted
               /\ a \in DOMAIN granted => granted[a] <= node[a].size
    <2> DEFINE b == a + node[a].size + 1
    <2>1. b = End(Heap0, a) /\ b \in Int /\ a \in Int
      BY <1>0, TiledFacts DEF End
    <2>2. Joint(Heap0, D, a) /\ Gap(Heap0, D, a)
      BY <1>0 DEF Tiled
    <2>3. b = Sentinel \/ (b \in D /\ node[b].prev_size = node[a].size)
      BY <1>0, <2>1, <2>2 DEF Joint
    <2>4. \A c \in a + 1 .. b - 1 : c \notin D
      BY <2>1, <2>2 DEF Gap
    <2>5. /\ node[a].allocated <=> a \in DOMAIN granted
          /\ a \in DOMAIN granted => granted[a] <= node[a].size
      BY <1>0 DEF GrantedSound
    <2> QED
      BY <2>3, <2>4, <2>5
  <1> QED
    BY <1>1, <1>2, <1>3 DEF NodesTile

(* The nodes tile the arena from the first header to the sentinel, each    *)
(* knows its predecessor's size and holds what was asked for.              *)
THEOREM TileCorrect == Spec => []NodesTile
  BY Invariance, TileOK, PTL

LEMMA CoalescedOK == IInv => Coalesced
  <1> SUFFICES ASSUME IInv, NEW a \in DOMAIN node,
                      ~ node[a].allocated, get_next_node(Heap0, a) # NULL
               PROVE  node[get_next_node(Heap0, a)].allocated
    BY DEF Coalesced
  <1>0. /\ arena \in Nat \ {0} /\ DOMAIN node \in SUBSET Addr
        /\ Heap0 \in HeapOver(DOMAIN node) /\ Tiled(Heap0, DOMAIN node)
        /\ Heap0.node = node /\ Touching(Heap0, DOMAIN node) = {}
    BY ArenaNat DEF IInv, Sound, Heap0
  <1>1. get_next_node(Heap0, a) = End(Heap0, a) /\ End(Heap0, a) \in DOMAIN node
    BY <1>0, TiledFacts
  <1>2. a \notin Touching(Heap0, DOMAIN node)
    BY <1>0
  <1> QED
    BY <1>0, <1>1, <1>2 DEF Touching, FreeNodes

(* Freeing joins a block with both neighbours: no two free nodes touch.    *)
THEOREM CoalescedCorrect == Spec => []Coalesced
  BY Invariance, CoalescedOK, PTL

LEMMA FindsOK == IInv => FindsMemory
  <1> SUFFICES ASSUME IInv, NEW units \in Request, NEW a \in DOMAIN node,
                      ~ node[a].allocated, node[a].size >= Rounded(units),
                      node[a].size >= sizes[get_size_index_upper(units)]
               PROVE  Find(Heap0, units) # NULL
    BY DEF FindsMemory
  <1>1. /\ arena \in Nat \ {0} /\ DOMAIN node \in SUBSET Addr
        /\ Sound(Heap0, DOMAIN node) /\ Heap0.node = node
    BY ArenaNat DEF IInv, Heap0
  <1>2. a \in FreeNodes(Heap0, DOMAIN node)
    BY <1>1 DEF FreeNodes
  <1>3. ~ (Find(Heap0, units) = NULL)
    BY <1>1, <1>2, FindFacts
  <1> QED
    BY <1>3

(* An allocation fails only when no free node has the size of the          *)
(* request's class: a look at one head is enough, and the search of the    *)
(* last class ends.                                                        *)
THEOREM FindsCorrect == Spec => []FindsMemory
  BY Invariance, FindsOK, PTL

LEMMA ClassesOK == IInv => ClassesMatch
  <1> SUFFICES ASSUME IInv, NEW units \in 1 .. arena, units <= LargestClassSize
               PROVE  LET i == get_size_index_upper(units) IN
                      /\ units <= sizes[i]
                      /\ \A j \in Class : j < i => sizes[j] < units
                      /\ \A j \in Class : j > i => sizes[j] > sizes[i]
    BY DEF ClassesMatch
  <1> DEFINE i == get_size_index_upper(units)
  <1>1. units \in Nat \ {0}
    BY ArenaNat DEF IInv
  <1>2. i \in Class
    BY <1>1, UpperType
  <1>3. units <= sizes[i] /\ \A j \in Class : j < i => sizes[j] < units
    BY <1>1, UpperFits
  <1>4. \A j \in Class : j \in Nat /\ sizes[j] \in Nat
    BY MiniMallocConstants, SizesFacts, LargestFacts DEF Class, LastClass
  <1> HIDE DEF i
  <1>5. ASSUME NEW j \in Class, j > i PROVE sizes[j] > sizes[i]
    <2>1. i < j
      BY <1>2, <1>4, <1>5
    <2>2. sizes[i] < sizes[j]
      BY <1>2, <2>1, SizesFacts
    <2> QED
      BY <1>2, <1>4, <2>2
  <1> QED
    BY <1>3, <1>5 DEF i

(* The bit arithmetic of the class index agrees with its meaning: the      *)
(* smallest class whose size suffices, for any number of classes.          *)
THEOREM ClassesCorrect == Spec => []ClassesMatch
  BY Invariance, ClassesOK, PTL

----------------------------------------------------------------------------
(* The nodes that a list reaches.                                          *)

Following(X) == {node[x].next : x \in X} \intersect DOMAIN node

Start(a) == {a} \intersect DOMAIN node

Steps(step, n, a) ==
    step = [i \in 0 .. n |-> IF i = 0 THEN {a} \intersect DOMAIN node
                             ELSE step[i - 1] \union
                                    ({node[x].next : x \in step[i - 1]} \intersect DOMAIN node)]

LEMMA StepsExist ==
  ASSUME NEW a, NEW n \in Nat
  PROVE  \E step : Steps(step, n, a)
  <1> DEFINE S == {m \in Nat : \E step : Steps(step, m, a)}
  <1>1. 0 \in S
    <2> DEFINE f == [i \in 0 .. 0 |-> Start(a)]
    <2>1. \A i \in 0 .. 0 : f[i] = IF i = 0 THEN Start(a) ELSE f[i - 1] \union Following(f[i - 1])
      OBVIOUS
    <2>2. f = [i \in 0 .. 0 |-> f[i]]
      OBVIOUS
    <2> HIDE DEF f
    <2>3. Steps(f, 0, a)
      BY <2>1, <2>2 DEF Steps, Start, Following
    <2> QED
      BY <2>3
  <1>2. ASSUME NEW m \in Nat, m \in S PROVE m + 1 \in S
    <2>1. PICK f : Steps(f, m, a)
      BY <1>2
    <2>2. \A i \in 0 .. m : f[i] = IF i = 0 THEN Start(a) ELSE f[i - 1] \union Following(f[i - 1])
      BY <2>1 DEF Steps, Start, Following
    <2> DEFINE g == [i \in 0 .. m + 1 |-> IF i = m + 1 THEN f[m] \union Following(f[m]) ELSE f[i]]
    <2>3. \A i \in 0 .. m : g[i] = f[i]
      OBVIOUS
    <2>4. g[m + 1] = g[m] \union Following(g[m])
      BY <2>3
    <2>5. g = [i \in 0 .. m + 1 |-> g[i]]
      OBVIOUS
    <2> HIDE DEF g
    <2>6. \A i \in 0 .. m + 1 : g[i] = IF i = 0 THEN Start(a) ELSE g[i - 1] \union Following(g[i - 1])
      <3> SUFFICES ASSUME NEW i \in 0 .. m + 1
                   PROVE  g[i] = IF i = 0 THEN Start(a) ELSE g[i - 1] \union Following(g[i - 1])
        OBVIOUS
      <3>1. CASE i = m + 1
        BY <2>4, <3>1
      <3>2. CASE i \in 0 .. m
        <4>1. i # 0 => i - 1 \in 0 .. m
          BY <3>2
        <4> QED
          BY <2>2, <2>3, <3>2, <4>1
      <3> QED
        BY <3>1, <3>2
    <2>7. Steps(g, m + 1, a)
      BY <2>5, <2>6 DEF Steps, Start, Following
    <2> QED
      BY <2>7
  <1> HIDE DEF S
  <1>3. n \in S
    BY <1>1, <1>2, SetInduction
  <1> QED
    BY <1>3 DEF S

\* What a list reaches from a: a, what follows, and no more.
LEMMA ReachedFacts ==
  ASSUME arena \in Nat, DOMAIN node \subseteq Addr, NEW a
  PROVE  /\ Reached(a) \subseteq DOMAIN node
         /\ a \in DOMAIN node => a \in Reached(a)
         /\ \A x \in Reached(a) : node[x].next \in DOMAIN node => node[x].next \in Reached(a)
         /\ \A P \in SUBSET DOMAIN node :
              /\ a \in DOMAIN node => a \in P
              /\ \A x \in P : node[x].next \in DOMAIN node => node[x].next \in P
              => Reached(a) \subseteq P
  <1> DEFINE D == DOMAIN node
             c == Cardinality(DOMAIN node)
             step == CHOOSE f : f = [i \in 0 .. c |-> IF i = 0 THEN {a} \intersect DOMAIN node
                             ELSE f[i - 1] \union
                                    ({node[x].next : x \in f[i - 1]} \intersect DOMAIN node)]
  <1>1. IsFiniteSet(D) /\ c \in Nat
    <2>1. IsFiniteSet(Addr)
      BY FS_Interval DEF Addr
    <2> QED
      BY <2>1, FS_Subset, FS_CardinalityType
  <1>2. Reached(a) = step[c]
    BY Zenon DEF Reached
  <1>3. Steps(step, c, a)
    <2>1. \E f : f = [i \in 0 .. c |-> IF i = 0 THEN {a} \intersect DOMAIN node
                             ELSE f[i - 1] \union
                                    ({node[x].next : x \in f[i - 1]} \intersect DOMAIN node)]
      <3> HIDE DEF c
      <3>1. \E f : Steps(f, c, a)
        BY <1>1, StepsExist, Zenon
      <3> QED
        BY <3>1 DEF Steps
    <2>2. step = [i \in 0 .. c |-> IF i = 0 THEN {a} \intersect DOMAIN node
                             ELSE step[i - 1] \union
                                    ({node[x].next : x \in step[i - 1]} \intersect DOMAIN node)]
      BY <2>1, Zenon
    <2> HIDE DEF step, c
    <2> QED
      BY <2>2 DEF Steps
  <1> HIDE DEF step, c
  <1>4. /\ step[0] = Start(a)
        /\ \A i \in 0 .. c : i # 0 => step[i] = step[i - 1] \union Following(step[i - 1])
    <2>1. step = [i \in 0 .. c |-> IF i = 0 THEN Start(a)
                                   ELSE step[i - 1] \union Following(step[i - 1])]
      BY <1>3 DEF Steps, Start, Following
    <2>2. \A i \in 0 .. c : step[i] = IF i = 0 THEN Start(a)
                                      ELSE step[i - 1] \union Following(step[i - 1])
      BY <2>1, Zenon
    <2>3. 0 \in 0 .. c
      BY <1>1
    <2> QED
      BY <2>2, <2>3
  <1>5. ASSUME NEW P \in SUBSET D, a \in D => a \in P,
               \A x \in P : node[x].next \in D => node[x].next \in P
        PROVE  step[c] \subseteq P
    <2> DEFINE S == {n \in Nat : n <= c => step[n] \subseteq P}
    <2>1. 0 \in S
      BY <1>1, <1>4, <1>5 DEF Start
    <2>2. ASSUME NEW n \in Nat, n \in S PROVE n + 1 \in S
      <3> SUFFICES ASSUME n + 1 <= c PROVE step[n + 1] \subseteq P
        OBVIOUS
      <3>1. step[n] \subseteq P
        BY <1>1, <2>2
      <3>2. step[n + 1] = step[n] \union Following(step[n])
        BY <1>1, <1>4
      <3> QED
        BY <1>5, <3>1, <3>2 DEF Following
    <2> HIDE DEF S
    <2>3. c \in S
      BY <1>1, <2>1, <2>2, SetInduction
    <2> QED
      BY <1>1, <2>3 DEF S
  <1>6. step[c] \subseteq D
    <2>1. \A x \in D : node[x].next \in D => node[x].next \in D
      OBVIOUS
    <2> QED
      BY <1>5, <2>1
  <1>7. ASSUME NEW n \in 0 .. c
        PROVE  step[n] \subseteq D /\ Start(a) \subseteq step[n]
    <2> DEFINE S == {m \in Nat : m <= c => step[m] \subseteq D /\ Start(a) \subseteq step[m]}
    <2>1. 0 \in S
      BY <1>1, <1>4 DEF Start
    <2>2. ASSUME NEW m \in Nat, m \in S PROVE m + 1 \in S
      <3> SUFFICES ASSUME m + 1 <= c PROVE step[m + 1] \subseteq D /\ Start(a) \subseteq step[m + 1]
        OBVIOUS
      <3>1. step[m + 1] = step[m] \union Following(step[m])
        BY <1>1, <1>4
      <3>2. step[m] \subseteq D /\ Start(a) \subseteq step[m]
        BY <1>1, <2>2
      <3> QED
        BY <3>1, <3>2 DEF Following
    <2> HIDE DEF S
    <2>3. n \in S
      BY <1>1, <2>1, <2>2, SetInduction
    <2> QED
      BY <1>1, <2>3 DEF S
  <1>8. Following(step[c]) \subseteq step[c]
    <2> DEFINE closed(n) == Following(step[n]) \subseteq step[n]
               S == {n \in Nat : n <= c => closed(n) \/ Cardinality(step[n]) >= n}
    <2>0. 0 \in S
      <3>1. IsFiniteSet(step[0])
        BY <1>1, <1>7, FS_Subset
      <3> QED
        BY <3>1, FS_CardinalityType
    <2>1. ASSUME NEW n \in Nat, n \in S PROVE n + 1 \in S
      <3> SUFFICES ASSUME n + 1 <= c PROVE closed(n + 1) \/ Cardinality(step[n + 1]) >= n + 1
        OBVIOUS
      <3>1. step[n + 1] = step[n] \union Following(step[n])
        BY <1>1, <1>4
      <3>2. closed(n) \/ Cardinality(step[n]) >= n
        BY <1>1, <2>1
      <3>3. CASE closed(n)
        <4>1. step[n + 1] = step[n]
          BY <3>1, <3>3
        <4> QED
          BY <3>3, <4>1
      <3>4. CASE ~ closed(n) /\ Cardinality(step[n]) >= n
        <4>1. PICK y \in Following(step[n]) : y \notin step[n]
          BY <3>4
        <4>2. step[n] \subseteq D /\ step[n + 1] \subseteq D
          BY <1>1, <1>7
        <4>3. IsFiniteSet(step[n]) /\ IsFiniteSet(step[n + 1])
          BY <1>1, <4>2, FS_Subset
        <4>4. Cardinality(step[n] \union {y}) = Cardinality(step[n]) + 1
          BY <4>1, <4>3, FS_AddElement
        <4>5. Cardinality(step[n] \union {y}) <= Cardinality(step[n + 1])
          <5>1. step[n] \union {y} \subseteq step[n + 1]
            BY <3>1, <4>1
          <5> QED
            BY <4>3, <5>1, FS_Subset
        <4>6. Cardinality(step[n]) \in Nat /\ Cardinality(step[n + 1]) \in Nat
          BY <4>3, FS_CardinalityType
        <4> QED
          BY <3>4, <4>4, <4>5, <4>6
      <3> QED
        BY <3>2, <3>3, <3>4
    <2>2. c \in S
      <3> HIDE DEF S
      <3> QED
        BY <1>1, <2>0, <2>1, SetInduction
    <2>3. CASE Cardinality(step[c]) >= c
      <3>1. Cardinality(step[c]) <= Cardinality(D) /\ Cardinality(step[c]) \in Nat
        BY <1>1, <1>6, FS_Subset, FS_CardinalityType
      <3>2. Cardinality(step[c]) = Cardinality(D)
        BY <1>1, <2>3, <3>1 DEF c
      <3>3. step[c] = D
        BY <1>1, <1>6, <3>2, FS_Subset
      <3> QED
        BY <3>3 DEF Following
    <2> QED
      BY <1>1, <2>2, <2>3
  <1>9. \A x \in step[c] : node[x].next \in D => node[x].next \in step[c]
    BY <1>8 DEF Following
  <1>10. a \in D => a \in step[c]
    BY <1>1, <1>7 DEF Start
  <1> QED
    BY <1>2, <1>5, <1>6, <1>9, <1>10

LEMMA FreeListsOK == IInv => FreeListsSound
  <1> SUFFICES ASSUME IInv PROVE FreeListsSound
    OBVIOUS
  <1> DEFINE D == DOMAIN node
             F == FreeNodes(Heap0, D)
  <1>0. /\ arena \in Nat \ {0} /\ D \in SUBSET Addr /\ D \subseteq Addr
        /\ Heap0 \in HeapOver(D) /\ Sound(Heap0, D)
        /\ Heap0.node = node /\ Heap0.free_nodes = free_nodes
    BY ArenaNat DEF IInv, Sound, Heap0
  <1>1. PICK class \in [Addr -> Class], rank \in [Addr -> Nat], bound \in Nat :
          Arranged(Heap0, F, class, rank, bound)
    BY <1>0 DEF Sound
  <1>2. F = {x \in D : ~ node[x].allocated} /\ NULL \notin D /\ F \subseteq D
    BY <1>0, HeadFacts DEF FreeNodes
  <1> HIDE DEF F
  <1>3. \A i \in Class : free_nodes[i] # NULL =>
          free_nodes[i] \in F /\ class[free_nodes[i]] = i /\ node[free_nodes[i]].prev = Head(i)
    BY <1>0, <1>1 DEF Arranged, Listed, First
  <1>4. \A x \in F : node[x].next # NULL =>
          /\ node[x].next \in F /\ node[node[x].next].prev = x
          /\ class[node[x].next] = class[x] /\ rank[node[x].next] < rank[x]
    BY <1>0, <1>1 DEF Arranged, Listed, After
  <1>5. \A x \in F :
          \/ node[x].prev = Head(class[x]) /\ free_nodes[class[x]] = x
          \/ node[x].prev \in F /\ node[node[x].prev].next = x
    BY <1>0, <1>1 DEF Arranged, Listed, Before
  <1>6. \A x \in F : /\ rank[x] \in Nat /\ rank[x] <= bound /\ class[x] \in Class
                     /\ \/ class[x] = get_size_index_lower(node[x].size)
                        \/ class[x] = LastClass /\ node[x].size = arena
    BY <1>0, <1>1, <1>2 DEF Arranged, Classed
  <1>7. ASSUME NEW i \in Class
        PROVE  Reached(free_nodes[i]) \subseteq {x \in F : class[x] = i}
    <2> DEFINE P == {x \in F : class[x] = i}
    <2>1. P \in SUBSET D
      BY <1>2
    <2>2. free_nodes[i] \in D => free_nodes[i] \in P
      BY <1>2, <1>3
    <2>3. \A x \in P : node[x].next \in D => node[x].next \in P
      BY <1>2, <1>4
    <2> HIDE DEF P
    <2>4. Reached(free_nodes[i]) \subseteq P
      BY <1>0, <2>1, <2>2, <2>3, ReachedFacts
    <2> QED
      BY <2>4 DEF P
  <1>8. ASSUME NEW x \in F PROVE x \in Reached(free_nodes[class[x]])
    <2> DEFINE Lost == {y \in F : y \notin Reached(free_nodes[class[y]])}
               R == {rank[y] : y \in Lost}
    <2> SUFFICES ASSUME Lost # {} PROVE FALSE
      OBVIOUS
    <2>1. R \subseteq Nat /\ R # {} /\ \A k \in R : k <= bound
      BY <1>6
    <2> HIDE DEF R, Lost
    <2>2. PICK m \in R : \A k \in R : k <= m
      BY <2>1, NatMax
    <2>3. PICK y \in Lost : rank[y] = m
      BY <2>2 DEF R
    <2>4. \A z \in Lost : rank[z] <= rank[y]
      BY <2>2, <2>3 DEF R
    <2>5. y \in F /\ y \notin Reached(free_nodes[class[y]]) /\ y \in D
      BY <1>2, <2>3 DEF Lost
    <2>6. CASE node[y].prev = Head(class[y]) /\ free_nodes[class[y]] = y
      BY <1>0, <2>5, <2>6, ReachedFacts
    <2>7. CASE node[y].prev \in F /\ node[node[y].prev].next = y
      <3> DEFINE p == node[y].prev
      <3>1. p \in F /\ node[p].next = y /\ class[p] = class[y] /\ rank[y] < rank[p]
        BY <1>2, <1>4, <2>5, <2>7
      <3> HIDE DEF p
      <3>2. p \notin Lost
        BY <1>6, <2>4, <2>5, <3>1
      <3>3. p \in Reached(free_nodes[class[y]])
        BY <3>1, <3>2 DEF Lost
      <3> QED
        BY <1>0, <2>5, <3>1, <3>3, ReachedFacts
    <2> QED
      BY <1>5, <2>5, <2>6, <2>7
  <1>9. \A i \in Class : Linked(Head(i), free_nodes[i])
    BY <1>2, <1>3 DEF Linked
  <1>10. ASSUME NEW i \in Class, NEW a \in Reached(free_nodes[i])
         PROVE  /\ ~ node[a].allocated
                /\ i = get_size_index_lower(node[a].size) \/ (i = LastClass /\ node[a].size = arena)
                /\ Linked(a, node[a].next)
    <2>1. a \in F /\ class[a] = i
      BY <1>7
    <2>2. Linked(a, node[a].next)
      BY <1>2, <1>4, <2>1 DEF Linked
    <2> QED
      BY <1>2, <1>6, <2>1, <2>2
  <1>11. \A a \in D : ~ node[a].allocated => \E i \in Class : a \in Reached(free_nodes[i])
    BY <1>2, <1>6, <1>8
  <1> QED
    BY <1>9, <1>10, <1>11 DEF FreeListsSound

(* Each free node is in exactly one list, that of the largest class it can *)
(* serve, whatever was allocated, split, freed and joined before; no list  *)
(* has a cycle or leads to a block in use (mini_malloc.cpp,                *)
(* prepend_free_node, attach_free_nodes).                                  *)
THEOREM FreeListsCorrect == Spec => []FreeListsSound
  BY Invariance, FreeListsOK, PTL

----------------------------------------------------------------------------
(* The blocks that are handed out are those of the abstract heap.          *)

Live == {[at |-> a, size |-> granted[a] + 1] : a \in DOMAIN granted}

Apart ==
    /\ \A a \in DOMAIN granted : /\ a \in 1 .. arena
                                 /\ granted[a] \in Nat \ {0}
                                 /\ a + granted[a] <= arena + 1
    /\ \A a, b \in DOMAIN granted : a < b => a + granted[a] < b

LEMMA ApartOK == IInv => arena \in Arena /\ arena \in Nat \ {0} /\ Apart
  <1> SUFFICES ASSUME IInv PROVE arena \in Arena /\ arena \in Nat \ {0} /\ Apart
    OBVIOUS
  <1>0. /\ arena \in Arena /\ arena \in Nat \ {0} /\ DOMAIN node \in SUBSET Addr
        /\ Heap0 \in HeapOver(DOMAIN node) /\ Tiled(Heap0, DOMAIN node)
        /\ Heap0.node = node /\ GrantedSound
    BY ArenaNat DEF IInv, Sound, Heap0
  <1>1. ASSUME NEW a \in DOMAIN granted
        PROVE  /\ a \in DOMAIN node /\ a \in 1 .. arena
               /\ granted[a] \in Nat \ {0} /\ granted[a] <= node[a].size
               /\ End(Heap0, a) = a + node[a].size + 1 /\ End(Heap0, a) <= arena + 2
               /\ node[a].size \in Nat
    <2>1. a \in DOMAIN node /\ granted[a] \in Request /\ granted[a] <= node[a].size
      BY <1>0 DEF GrantedSound
    <2>2. End(Heap0, a) <= arena + 2 /\ node[a].size \in Nat
      BY <1>0, <2>1, TiledFacts DEF Sentinel
    <2> QED
      BY <1>0, <2>1, <2>2, MiniMallocConstants DEF Addr, End
  <1>2. ASSUME NEW a \in DOMAIN granted, NEW b \in DOMAIN granted, a < b
        PROVE  a + granted[a] < b
    <2>1. ~ (a < b /\ b < End(Heap0, a))
      BY <1>0, <1>1 DEF Tiled, Gap
    <2> QED
      BY <1>1, <1>2, <2>1
  <1>3. ASSUME NEW a \in DOMAIN granted PROVE a + granted[a] <= arena + 1
    BY <1>0, <1>1
  <1> QED
    BY <1>0, <1>1, <1>2, <1>3 DEF Apart

LEMMA ApartNext == IInv' => Apart'
  BY ApartOK, PTL

LEMMA AllocateSimulation ==
  ASSUME IInv, IInv', NEW units \in Request, mm_allocate(units)
  PROVE  H!Next
  <1> DEFINE a == Find(Heap0, units)
             b == [at |-> a, size |-> units + 1]
             U == UNION {1 .. size + 1 : size \in Arena}
  <1>1. arena \in Arena /\ arena \in Nat \ {0} /\ arena' = arena /\ Apart'
    BY ApartOK, ApartNext DEF mm_allocate
  <1>2. a \in DOMAIN node /\ ~ node[a].allocated
    <2>1. Sound(Heap0, DOMAIN node) /\ DOMAIN node \in SUBSET Addr
      BY DEF IInv
    <2>2. a # NULL
      BY DEF mm_allocate
    <2> QED
      BY <1>1, <2>1, <2>2, FindFacts DEF FreeNodes, Heap0
  <1>3. a \notin DOMAIN granted
    BY <1>2 DEF IInv, GrantedSound
  <1>4. granted' = [x \in DOMAIN granted \union {a} |-> IF x = a THEN units ELSE granted[x]]
    BY DEF mm_allocate
  <1> HIDE DEF a
  <1>5. /\ DOMAIN granted' = DOMAIN granted \union {a}
        /\ granted'[a] = units /\ \A x \in DOMAIN granted : granted'[x] = granted[x]
    BY <1>3, <1>4
  <1>6. /\ a \in 1 .. arena /\ units \in Nat \ {0} /\ a + units <= arena + 1
        /\ \A x \in DOMAIN granted :
             /\ x \in 1 .. arena /\ granted[x] \in Nat \ {0}
             /\ x < a => x + granted[x] < a
             /\ a < x => a + units < x
    BY <1>1, <1>5 DEF Apart
  <1>7. Live' = Live \union {b}
    <2>1. Live' = {[at |-> x, size |-> granted'[x] + 1] : x \in DOMAIN granted \union {a}}
      BY <1>5 DEF Live
    <2>2. Live = {[at |-> x, size |-> granted'[x] + 1] : x \in DOMAIN granted}
      BY <1>5 DEF Live
    <2>3. b = [at |-> a, size |-> granted'[a] + 1]
      BY <1>5
    <2> HIDE DEF b
    <2> QED
      BY <2>1, <2>2, <2>3
  <1>8. 1 .. arena + 1 \subseteq U
    BY <1>1
  <1>9. a \in U /\ units + 1 \in U
    BY <1>1, <1>6, <1>8
  <1>10. b.at = a /\ b.size = units + 1
    OBVIOUS
  <1>11. H!Cells(b) = a .. a + units
    BY <1>6, <1>10 DEF H!Cells
  <1>12. H!Cells(b) \subseteq U
    BY <1>1, <1>6, <1>8, <1>11
  <1> HIDE DEF U
  <1>13. ASSUME NEW other \in Live PROVE H!Cells(b) \intersect H!Cells(other) = {}
    <2>1. PICK x \in DOMAIN granted : other = [at |-> x, size |-> granted[x] + 1]
      BY DEF Live
    <2>2. H!Cells(other) = x .. x + granted[x]
      BY <1>6, <2>1 DEF H!Cells
    <2>3. x < a \/ a < x
      BY <1>1, <1>3, <1>6
    <2> QED
      BY <1>1, <1>6, <1>11, <2>2, <2>3
  <1>14. \E at \in U : \E size \in U : H!Allocate([at |-> at, size |-> size])
    <2>1. PICK at \in U : at = a
      BY <1>9
    <2>2. PICK size \in U : size = units + 1
      BY <1>9
    <2>3. b = [at |-> at, size |-> size]
      BY <2>1, <2>2
    <2> HIDE DEF b
    <2>4. H!Allocate([at |-> at, size |-> size])
      BY <1>7, <1>12, <1>13, <2>3 DEF H!Allocate, Live, U
    <2> QED
      BY <2>4
  <1> QED
    BY <1>14, Zenon DEF H!Next, U

LEMMA FreeSimulation ==
  ASSUME NEW a \in DOMAIN granted, mm_free(a)
  PROVE  H!Next
  <1> DEFINE b == [at |-> a, size |-> granted[a] + 1]
  <1>1. granted' = [x \in DOMAIN granted \ {a} |-> granted[x]]
    BY DEF mm_free
  <1>2. DOMAIN granted' = DOMAIN granted \ {a}
          /\ \A x \in DOMAIN granted \ {a} : granted'[x] = granted[x]
    BY <1>1
  <1>3. Live' = {[at |-> x, size |-> granted[x] + 1] : x \in DOMAIN granted \ {a}}
    BY <1>2 DEF Live
  <1>4. \A x \in DOMAIN granted \ {a} : [at |-> x, size |-> granted[x] + 1] # b
    OBVIOUS
  <1>5. b \in Live
    BY DEF Live
  <1> HIDE DEF b
  <1>6. Live' = Live \ {b}
    <2>1. \A x \in DOMAIN granted : [at |-> x, size |-> granted[x] + 1] # b => x # a
      BY DEF b
    <2> QED
      BY <1>3, <1>4, <2>1 DEF Live
  <1> QED
    BY <1>5, <1>6 DEF H!Next, H!Free, Live

(* mm_allocate and mm_free implement the heap that mini_malloc promises: a *)
(* new block lies in the arena and overlaps no live block, with the header *)
(* before it, and only a live block ends.                                  *)
THEOREM Refinement == Spec => ImplementsHeap
  <1>1. Init => H!Init
    BY DEF Init, H!Init
  <1>2. IInv /\ IInv' /\ [Next]_vars => H!Next \/ Live' = Live
    <2> SUFFICES ASSUME IInv, IInv', [Next]_vars PROVE H!Next \/ Live' = Live
      OBVIOUS
    <2>1. CASE UNCHANGED vars
      BY <2>1 DEF vars, Live
    <2>2. CASE \E units \in Request : mm_allocate(units)
      BY <2>2, AllocateSimulation
    <2>3. CASE \E units \in Request : AllocateFails(units)
      BY <2>3 DEF AllocateFails, vars, Live
    <2>4. CASE \E a \in DOMAIN granted : mm_free(a)
      BY <2>4, FreeSimulation
    <2> QED
      BY <2>1, <2>2, <2>3, <2>4 DEF Next
  <1>3. IInv /\ IInv' /\ [Next]_vars => [H!Next]_Live
    BY <1>2
  <1>4. ImplementsHeap <=> H!Init /\ [][H!Next]_Live
    BY DEF ImplementsHeap, H!Spec, Live
  <1> QED
    BY <1>1, <1>3, <1>4, Invariance, PTL DEF Spec
=============================================================================
