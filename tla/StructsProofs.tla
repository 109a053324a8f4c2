---------------------------- MODULE StructsProofs ----------------------------
(***************************************************************************)
(* Proofs about Structs for any objects, regions, values and dimensions,   *)
(* any width of size_t and any number of failing allocations.              *)
(***************************************************************************)
EXTENDS Structs, WellFoundedInduction, TLAPS

----------------------------------------------------------------------------
(* Induction over the naturals, stated for sets.                           *)

LEMMA NatMin ==
  ASSUME NEW T, T \subseteq Nat, T # {}
  PROVE  \E m \in T : \A n \in T : m <= n
  <1>1. PICK x \in T : \A y \in T : ~ (<<y, x>> \in OpToRel(<, Nat))
    BY NatLessThanWellFounded, WFMin, Zenon
  <1>2. \A y \in T : y < x => <<y, x>> \in OpToRel(<, Nat)
    BY DEF OpToRel
  <1>3. \A y \in T : ~ (y < x)
    BY <1>1, <1>2, Zenon
  <1> QED
    BY <1>3

LEMMA SetInduction ==
  ASSUME NEW S, 0 \in S, \A n \in Nat : n \in S => n + 1 \in S
  PROVE  Nat \subseteq S
  <1> DEFINE T == Nat \ S
  <1> SUFFICES ASSUME T # {} PROVE FALSE
    OBVIOUS
  <1>1. PICK m \in T : \A n \in T : m <= n
    BY NatMin
  <1>2. m # 0 /\ m - 1 \in Nat
    BY <1>1
  <1>3. m - 1 \in S
    BY <1>1, <1>2
  <1> QED
    BY <1>1, <1>2, <1>3

----------------------------------------------------------------------------
(* The product of the dimensions.                                          *)

Shape == [1 .. MaxDims -> 0 .. Word - 1]

Multiplies(of, n, shape) ==
    of = [i \in 0 .. n |-> IF i = 0 THEN 1 ELSE of[i - 1] * shape[i]]

\* There is a function that multiplies one dimension after the other.
LEMMA ProductExists ==
  ASSUME NEW shape \in Shape
  PROVE  \A n \in 0 .. MaxDims : \E of \in [0 .. n -> Nat] : Multiplies(of, n, shape)
  <1> USE StructsConstants
  <1> DEFINE S == {n \in Nat : n <= MaxDims =>
                     \E of \in [0 .. n -> Nat] : Multiplies(of, n, shape)}
  <1>1. 0 \in S
    <2> DEFINE of == [i \in 0 .. 0 |-> 1]
    <2>1. of \in [0 .. 0 -> Nat] /\ Multiplies(of, 0, shape)
      BY DEF Multiplies
    <2> QED
      BY <2>1
  <1>2. ASSUME NEW n \in Nat, n \in S PROVE n + 1 \in S
    <2> SUFFICES ASSUME n + 1 <= MaxDims
                 PROVE  \E of \in [0 .. n + 1 -> Nat] : Multiplies(of, n + 1, shape)
      OBVIOUS
    <2>1. PICK of \in [0 .. n -> Nat] : Multiplies(of, n, shape)
      BY <1>2
    <2> DEFINE next == [i \in 0 .. n + 1 |-> IF i = n + 1 THEN of[n] * shape[n + 1] ELSE of[i]]
    <2>2. shape[n + 1] \in Nat /\ of[n] \in Nat /\ of[n] * shape[n + 1] \in Nat
      BY DEF Shape
    <2>3. next \in [0 .. n + 1 -> Nat]
      BY <2>2
    <2>4. \A i \in 0 .. n + 1 : next[i] = IF i = 0 THEN 1 ELSE next[i - 1] * shape[i]
      BY <2>1 DEF Multiplies
    <2>5. Multiplies(next, n + 1, shape)
      BY <2>4 DEF Multiplies
    <2> QED
      BY <2>3, <2>5
  <1> HIDE DEF S
  <1>3. Nat \subseteq S
    BY <1>1, <1>2, SetInduction
  <1>4. ASSUME NEW n \in 0 .. MaxDims PROVE \E of \in [0 .. n -> Nat] : Multiplies(of, n, shape)
    <2>1. n \in S /\ n <= MaxDims
      BY <1>3
    <2> QED
      BY <2>1 DEF S
  <1> QED
    BY <1>4

\* Product is the last value of such a function.
LEMMA ProductIs ==
  ASSUME NEW shape \in Shape, NEW n \in 0 .. MaxDims
  PROVE  \E of : Multiplies(of, n, shape) /\ Product(n, shape) = of[n]
  <1>1. \E of : of = [i \in 0 .. n |-> IF i = 0 THEN 1 ELSE of[i - 1] * shape[i]]
    BY ProductExists DEF Multiplies
  <1> DEFINE P == CHOOSE of : of = [i \in 0 .. n |-> IF i = 0 THEN 1 ELSE of[i - 1] * shape[i]]
  <1>2. P = [i \in 0 .. n |-> IF i = 0 THEN 1 ELSE P[i - 1] * shape[i]]
    BY <1>1, Zenon
  <1>3. Product(n, shape) = P[n]
    BY Zenon DEF Product
  <1> QED
    BY <1>2, <1>3 DEF Multiplies

LEMMA ProductType ==
  ASSUME NEW shape \in Shape, NEW n \in 0 .. MaxDims
  PROVE  Product(n, shape) \in Nat
  <1> USE StructsConstants
  <1>1. PICK of : Multiplies(of, n, shape) /\ Product(n, shape) = of[n]
    BY ProductIs
  <1> DEFINE S == {i \in Nat : i <= n => of[i] \in Nat}
  <1>2. 0 \in S
    BY <1>1 DEF Multiplies
  <1>3. ASSUME NEW i \in Nat, i \in S, i + 1 <= n PROVE of[i + 1] \in Nat
    <2>1. of[i + 1] = of[i] * shape[i + 1]
      BY <1>1, <1>3 DEF Multiplies
    <2>2. of[i] \in Nat /\ shape[i + 1] \in Nat
      BY <1>3 DEF Shape
    <2> QED
      BY <2>1, <2>2
  <1>4. Nat \subseteq S
    <2>1. \A i \in Nat : i \in S => i + 1 \in S
      BY <1>3
    <2> HIDE DEF S
    <2> QED
      BY <1>2, <2>1, SetInduction
  <1> QED
    BY <1>1, <1>4

\* Only the first n dimensions matter.
LEMMA ProductAgrees ==
  ASSUME NEW shape \in Shape, NEW other \in Shape, NEW n \in 0 .. MaxDims,
         \A i \in 1 .. n : shape[i] = other[i]
  PROVE  Product(n, shape) = Product(n, other)
  <1> USE StructsConstants
  <1>1. PICK of : Multiplies(of, n, shape) /\ Product(n, shape) = of[n]
    BY ProductIs
  <1>2. PICK of2 : Multiplies(of2, n, other) /\ Product(n, other) = of2[n]
    BY ProductIs
  <1> DEFINE S == {i \in Nat : i <= n => of[i] = of2[i]}
  <1>3. 0 \in S
    BY <1>1, <1>2 DEF Multiplies
  <1>4. \A i \in Nat : i \in S => i + 1 \in S
    BY <1>1, <1>2 DEF Multiplies
  <1>5. Nat \subseteq S
    <2> HIDE DEF S
    <2> QED
      BY <1>3, <1>4, SetInduction
  <1> QED
    BY <1>1, <1>2, <1>5

----------------------------------------------------------------------------
(* Matrix::from.                                                           *)

Data(o) == <<o, "data">>

\* blocks of two objects, or for two purposes, differ
LEMMA BlocksDiffer ==
  /\ \A o, x : <<o, "frame">> # <<x, "data">> /\ <<o, "frame">> # <<x, "leaked">>
               /\ <<o, "data">> # <<x, "leaked">>
  /\ \A o, x : (<<o, "frame">> = <<x, "frame">> <=> o = x) /\ (Data(o) = Data(x) <=> o = x)
  /\ \A o \in Object : <<o, "frame">> \in Block /\ Data(o) \in Block /\ <<o, "leaked">> \in Block
  /\ NULL \notin Block /\ NULL # Outside /\ Outside \notin Block
  BY StructsConstants DEF Block, Data

\* The size of a matrix is a size_t.
LEMMA BytesType ==
  ASSUME NEW n \in 0 .. MaxDims, NEW shape \in Shape
  PROVE  Bytes(n, shape) \in Nat /\ Bytes(n, shape) < Word
  <1>1. Product(n, shape) \in Nat
    BY ProductType
  <1>2. DoubleSize * Product(n, shape) \in Nat
    BY <1>1, StructsConstants
  <1>3. Word \in Nat \ {0}
    BY StructsConstants
  <1> HIDE DEF Product
  <1> QED
    BY <1>2, <1>3 DEF Bytes

\* The first dimensions are taken over: all of them when none is negative.
LEMMA ShapeSetFacts ==
  ASSUME NEW m \in MatrixType, NEW n \in 0 .. MaxDims, NEW shape \in Shape,
         NEW set \in 0 .. n
  PROVE  /\ ShapeSet(m, shape, set) \in Shape
         /\ \A i \in 1 .. set : ShapeSet(m, shape, set)[i] = shape[i]
  BY StructsConstants DEF ShapeSet, Shape, MatrixType

\* What from() does with a matrix that has other data.
LEMMA FromFacts ==
  ASSUME NEW m \in MatrixType, NEW n \in 0 .. MaxDims, NEW shape \in Shape,
         NEW data, NEW b, data # m.data
  PROVE  LET r == From(m, n, shape, data, b) IN
         /\ r.matrix.ndim = n /\ r.matrix.shape \in Shape
         /\ r.matrix.data \in {NULL, b}
         /\ r.matrix.data = b /\ b # NULL =>
              /\ ~r.throws /\ Bytes(n, shape) > 0
              /\ \A i \in 1 .. n : ~Negative(shape[i])
         /\ ~r.throws => /\ \A i \in 1 .. n : r.matrix.shape[i] = shape[i] /\ ~Negative(shape[i])
                         /\ r.matrix.data = NULL => Bytes(n, shape) = 0
         /\ r.full <=> ((\A i \in 1 .. n : ~Negative(shape[i])) /\ Bytes(n, shape) > 0 /\ b = NULL)
         /\ r.throws <=> ((\E i \in 1 .. n : Negative(shape[i])) \/ r.full)
         /\ r.matrix = [ndim |-> n, shape |-> r.matrix.shape, data |-> r.matrix.data]
         /\ (\A i \in 1 .. n : ~Negative(shape[i])) =>
              /\ \A i \in 1 .. n : r.matrix.shape[i] = shape[i]
              /\ Bytes(n, shape) > 0 => r.matrix.data = b
              /\ Bytes(n, shape) = 0 => r.matrix.data = NULL
  <1> DEFINE bad == {i \in 1 .. n : Negative(shape[i])}
             set == IF bad = {} THEN n ELSE Min(bad) - 1
             needs == bad = {} /\ Bytes(n, shape) > 0
  <1>1. set \in 0 .. n
    <2>1. CASE bad = {}
      BY <2>1
    <2>2. CASE bad # {}
      <3> HIDE DEF bad
      <3>1. bad \subseteq Nat /\ bad \subseteq 1 .. n
        BY DEF bad
      <3>2. \E k \in bad : \A i \in bad : k <= i
        BY <2>2, <3>1, NatMin
      <3>3. Min(bad) \in bad
        BY <3>2 DEF Min
      <3>4. Min(bad) \in 1 .. n
        BY <3>1, <3>3, Zenon
      <3>5. Min(bad) - 1 \in 0 .. n
        BY <3>4
      <3>6. set = Min(bad) - 1
        BY <2>2
      <3> HIDE DEF set
      <3> QED
        BY <3>5, <3>6
    <2> QED
      BY <2>1, <2>2
  <1>2. /\ ShapeSet(m, shape, set) \in Shape
        /\ \A i \in 1 .. set : ShapeSet(m, shape, set)[i] = shape[i]
    BY <1>1, ShapeSetFacts
  <1>3. Bytes(n, shape) \in Nat
    BY BytesType
  <1>4. From(m, n, shape, data, b) =
          [matrix |-> [ndim |-> n, shape |-> ShapeSet(m, shape, set),
                       data |-> IF needs THEN b ELSE NULL],
           full |-> needs /\ b = NULL,
           throws |-> bad # {} \/ (needs /\ b = NULL)]
    BY DEF From
  <1>5. bad = {} <=> \A i \in 1 .. n : ~Negative(shape[i])
    OBVIOUS
  <1>6. bad = {} => set = n
    OBVIOUS
  <1>7. needs <=> (\A i \in 1 .. n : ~Negative(shape[i])) /\ Bytes(n, shape) > 0
    BY <1>5
  <1> DEFINE S2 == ShapeSet(m, shape, set)
  <1>8. (\A i \in 1 .. n : ~Negative(shape[i])) => \A i \in 1 .. n : S2[i] = shape[i]
    BY <1>2, <1>5, <1>6
  <1> DEFINE r == From(m, n, shape, data, b)
  <1>9. /\ r.matrix = [ndim |-> n, shape |-> S2, data |-> IF needs THEN b ELSE NULL]
        /\ r.full <=> needs /\ b = NULL
        /\ r.throws <=> ~(\A i \in 1 .. n : ~Negative(shape[i])) \/ (needs /\ b = NULL)
    <2>1. r = [matrix |-> [ndim |-> n, shape |-> S2, data |-> IF needs THEN b ELSE NULL],
               full |-> needs /\ b = NULL,
               throws |-> bad # {} \/ (needs /\ b = NULL)]
      BY <1>4
    <2> HIDE DEF r, S2, needs, bad
    <2>2. r.matrix = [ndim |-> n, shape |-> S2, data |-> IF needs THEN b ELSE NULL]
      BY <2>1
    <2>3. r.full = (needs /\ b = NULL)
      BY <2>1, Zenon
    <2>4. r.throws = (bad # {} \/ (needs /\ b = NULL))
      BY <2>1, Zenon
    <2> QED
      BY <1>5, <2>2, <2>3, <2>4, Zenon
  <1>10. r.matrix.ndim = n /\ r.matrix.shape = S2 /\ r.matrix.data = IF needs THEN b ELSE NULL
    BY <1>9
  <1>11. S2 \in Shape
    BY <1>2
  <1> HIDE DEF bad, set, needs, S2, r
  <1> SUFFICES
         /\ r.matrix.ndim = n /\ r.matrix.shape \in Shape
         /\ r.matrix.data \in {NULL, b}
         /\ r.matrix.data = b /\ b # NULL =>
              /\ ~r.throws /\ Bytes(n, shape) > 0
              /\ \A i \in 1 .. n : ~Negative(shape[i])
         /\ ~r.throws => /\ \A i \in 1 .. n : r.matrix.shape[i] = shape[i] /\ ~Negative(shape[i])
                         /\ r.matrix.data = NULL => Bytes(n, shape) = 0
         /\ r.full <=> ((\A i \in 1 .. n : ~Negative(shape[i])) /\ Bytes(n, shape) > 0 /\ b = NULL)
         /\ r.throws <=> ((\E i \in 1 .. n : Negative(shape[i])) \/ r.full)
         /\ r.matrix = [ndim |-> n, shape |-> r.matrix.shape, data |-> r.matrix.data]
         /\ (\A i \in 1 .. n : ~Negative(shape[i])) =>
              /\ \A i \in 1 .. n : r.matrix.shape[i] = shape[i]
              /\ Bytes(n, shape) > 0 => r.matrix.data = b
              /\ Bytes(n, shape) = 0 => r.matrix.data = NULL
    BY DEF r
  <1> QED
    BY <1>3, <1>7, <1>8, <1>9, <1>10, <1>11

BlockType == [size : Nat, content : Value \union {Garbage}]

\* TypeOK in a form without a set of functions
LEMMA TypeFacts ==
  TypeOK <=>
    /\ frame = [o \in Live |-> frame[o]] /\ Live \subseteq Object
    /\ \A o \in Live : frame[o] \in [at : Block, t : Value, ptr : Object \union {Wild},
                                     matrix : MatrixType]
    /\ heap = [b \in DOMAIN heap |-> heap[b]] /\ DOMAIN heap \subseteq Block
    /\ \A b \in DOMAIN heap : heap[b] \in BlockType
    /\ op \in [do : {"none", "copy", "dict", "wild", "null"}, dst : Object \union {NULL},
               src : Object \union {NULL}, member : 0 .. 4]
    /\ failures \in 0 .. MaxFailures
    /\ halfway \subseteq Object /\ tainted \subseteq Object /\ leaked \subseteq Block
  BY DEF TypeOK, Live, BlockType

\* what a matrix of o may be set to: an array, nothing, another matrix's data
Source(o) == {NULL, Outside} \union {frame[x].matrix.data : x \in Live \ {o}}

Throws(o, n, shape, data) == From(frame[o].matrix, n, shape, data, Outside).throws

\* the outcome of SetMatrix: the matrix m2 and the heap
SetTo(o, n, shape, data, fails, m2) ==
    /\ frame' = [frame EXCEPT ![o].matrix = m2]
    /\ m2.data \in {NULL, Data(o)}
    /\ heap' = [b \in DOMAIN heap' |-> heap'[b]]
    /\ DOMAIN heap' = (DOMAIN heap \ {frame[o].matrix.data}) \union ({m2.data} \ {NULL})
    /\ \A b \in DOMAIN heap' \ {Data(o)} : heap'[b] = heap[b]
    /\ \A b \in DOMAIN heap' : heap'[b] \in BlockType
    /\ m2.data # NULL =>
         /\ heap'[m2.data].size = Bytes(m2.ndim, m2.shape) /\ heap'[m2.data].size > 0
         /\ \A i \in 1 .. m2.ndim : ~Negative(m2.shape[i])
         /\ data = Outside => heap'[m2.data].content \in Value
         /\ data \notin {NULL, Outside} => heap'[m2.data].content = heap[data].content
    /\ Throws(o, n, shape, data) => m2.data = NULL \/ UNCHANGED heap
    /\ ~Throws(o, n, shape, data) =>
         /\ m2.ndim = n /\ \A i \in 1 .. n : m2.shape[i] = shape[i]
         /\ ~fails /\ m2.data = NULL => data = NULL \/ Bytes(n, shape) = 0
    /\ failures' \in 0 .. MaxFailures

LEMMA SetMatrixFacts ==
  ASSUME IInv, NEW o \in Live, NEW n \in 0 .. MaxDims, NEW shape \in Shape,
         NEW data \in Source(o), NEW fails \in BOOLEAN, SetMatrix(o, n, shape, data, fails)
  PROVE  \E m2 \in MatrixType : SetTo(o, n, shape, data, fails, m2)
  <1> DEFINE m == frame[o].matrix
             b == IF fails THEN NULL ELSE Data(o)
             r == From(m, n, shape, data, b)
             m2 == r.matrix
  <1>1. /\ m \in MatrixType /\ m.data \in {NULL, Data(o)}
        /\ o \in Object /\ Data(o) \in Block /\ Data(o) # NULL
        /\ NULL # Outside /\ Data(o) # Outside
        /\ data \in {NULL, Outside} \/ (data \in DOMAIN heap /\ data # Data(o))
    <2>1. \A x \in Live : frame[x].matrix.data \in {NULL, Data(x)}
                          /\ (frame[x].matrix.data # NULL => frame[x].matrix.data \in DOMAIN heap)
      BY DEF IInv, BlockInv, Data
    <2>2. /\ \A x \in Live : x \in Object
          /\ frame[o] \in [at : Block, t : Value, ptr : Object \union {Wild}, matrix : MatrixType]
      BY TypeFacts DEF IInv
    <2>3. m \in MatrixType
      BY <2>2
    <2>4. /\ o \in Object /\ Data(o) \in Block /\ Data(o) # NULL
          /\ NULL # Outside /\ Data(o) # Outside
      <3>1. o \in Object
        BY <2>2
      <3>2. Data(o) \in Block /\ NULL \notin Block /\ NULL # Outside /\ Outside \notin Block
        BY <3>1, BlocksDiffer, Zenon
      <3> QED
        BY <3>1, <3>2, Zenon
    <2>5. ASSUME data \notin {NULL, Outside} PROVE data \in DOMAIN heap /\ data # Data(o)
      <3>1. PICK x \in Live \ {o} : data = frame[x].matrix.data
        BY <2>5 DEF Source
      <3>2. data = Data(x) /\ data \in DOMAIN heap
        BY <3>1, <2>1, <2>5
      <3>3. Data(x) # Data(o)
        BY BlocksDiffer
      <3> QED
        BY <3>2, <3>3
    <2> QED
      BY <2>1, <2>3, <2>4, <2>5
  <1>2. /\ fails => failures < MaxFailures /\ r.full
        /\ frame' = [frame EXCEPT ![o].matrix = m2]
        /\ failures' = IF fails THEN failures + 1 ELSE failures
        /\ failures \in 0 .. MaxFailures
    BY TypeFacts, Zenon DEF SetMatrix, Data, IInv
  <1>3. failures' \in 0 .. MaxFailures
    BY <1>2, StructsConstants
  <1>4. heap = [x \in DOMAIN heap |-> heap[x]] /\ \A x \in DOMAIN heap : heap[x] \in BlockType
    BY TypeFacts DEF IInv
  <1>5. CASE data = m.data
    <2>1. m2 = m /\ ~r.full
      BY <1>5 DEF From
    <2>2. UNCHANGED heap /\ ~fails
      BY <1>2, <1>5, <2>1 DEF SetMatrix
    <2>3. data = NULL /\ m.data = NULL
      BY <1>1, <1>5
    <2>4. Throws(o, n, shape, data) = (n # m.ndim \/ \E i \in 1 .. n : shape[i] # m.shape[i])
      BY <1>5, Zenon DEF From, Throws
    <2> HIDE DEF m2, r, m
    <2>5. frame' = [frame EXCEPT ![o].matrix = m]
      BY <1>2, <2>1
    <2>6. ~Throws(o, n, shape, data) => m.ndim = n /\ \A i \in 1 .. n : m.shape[i] = shape[i]
      BY <2>4
    <2>7. NULL \notin DOMAIN heap
      BY TypeFacts, BlocksDiffer DEF IInv
    <2> HIDE DEF m
    <2>8. SetTo(o, n, shape, data, fails, m)
      BY <1>1, <1>3, <1>4, <2>2, <2>3, <2>5, <2>6, <2>7 DEF SetTo, m
    <2> QED
      BY <1>1, <2>8 DEF m
  <1>6. CASE data # m.data
    <2>1. PICK v \in Value : heap' = Replaced(m, m2, CASE data = NULL -> Garbage
                                                       [] data = Outside -> v
                                                       [] OTHER -> heap[data].content)
      BY <1>6 DEF SetMatrix, Data
    <2> DEFINE content == CASE data = NULL -> Garbage
                            [] data = Outside -> v
                            [] OTHER -> heap[data].content
    <2>2. /\ content \in Value \union {Garbage}
          /\ data = Outside => content \in Value
          /\ data \notin {NULL, Outside} => content = heap[data].content
      <3>1. CASE data = NULL
        BY <3>1, <1>1
      <3>2. CASE data = Outside
        BY <3>2, <1>1
      <3>3. CASE data \notin {NULL, Outside}
        <4>1. heap[data] \in BlockType
          BY <1>1, <1>4, <3>3
        <4> QED
          BY <3>3, <4>1 DEF BlockType
      <3> QED
        BY <3>1, <3>2, <3>3
    <2> DEFINE good == \A i \in 1 .. n : ~Negative(shape[i])
    <2>3. /\ m2.ndim = n /\ m2.shape \in Shape /\ m2.data \in {NULL, b}
          /\ m2.data = b /\ b # NULL => Bytes(n, shape) > 0 /\ good
          /\ r.full => good
          /\ good => /\ \A i \in 1 .. n : m2.shape[i] = shape[i]
                     /\ Bytes(n, shape) > 0 => m2.data = b
          /\ m2 = [ndim |-> n, shape |-> m2.shape, data |-> m2.data]
      BY <1>1, <1>6, FromFacts
    <2>4. Throws(o, n, shape, data) <=> ~good
      <3> DEFINE r2 == From(m, n, shape, data, Outside)
      <3>1. r2.throws <=> ((\E i \in 1 .. n : Negative(shape[i])) \/ r2.full)
        BY <1>1, <1>6, FromFacts
      <3>2. ~r2.full
        <4>1. r2.full <=> (good /\ Bytes(n, shape) > 0 /\ Outside = NULL)
          BY <1>1, <1>6, FromFacts, ZenonT(30)
        <4> QED
          BY <4>1, <1>1
      <3> QED
        BY <3>1, <3>2 DEF Throws
    <2>5. m2 \in MatrixType /\ m2.data \in {NULL, Data(o)}
      <3>1. m2.data \in {NULL, Data(o)}
        BY <2>3, <1>1
      <3> HIDE DEF m2
      <3> QED
        BY <2>3, <1>1, <3>1 DEF MatrixType, Shape
    <2>6. m2.data # NULL => Bytes(m2.ndim, m2.shape) = Bytes(n, shape)
      BY <2>3, <1>1, ProductAgrees DEF Bytes
    <2>7. Bytes(n, shape) \in Nat
      BY BytesType
    <2>8. ~good => m2.data = NULL
      BY <2>3
    <2> HIDE DEF m2, r, good, content
    <2>9. /\ DOMAIN heap' = (DOMAIN heap \ {m.data}) \union ({m2.data} \ {NULL})
          /\ NULL \notin DOMAIN heap'
          /\ heap' = [x \in DOMAIN heap' |-> IF x = m2.data
                        THEN [size |-> Bytes(m2.ndim, m2.shape), content |-> content] ELSE heap[x]]
      <3>1. NULL \notin DOMAIN heap
        BY TypeFacts, BlocksDiffer DEF IInv
      <3> QED
        BY <2>1, <3>1 DEF Replaced, content
    <2>10. heap' = [x \in DOMAIN heap' |-> heap'[x]]
           /\ \A x \in DOMAIN heap' \ {Data(o)} : heap'[x] = heap[x]
      BY <2>9, <2>5, <1>1, BlocksDiffer
    <2>11. m2.data # NULL =>
             /\ heap'[m2.data] = [size |-> Bytes(m2.ndim, m2.shape), content |-> content]
             /\ heap'[m2.data] \in BlockType
      BY <2>9, <2>2, <2>6, <2>7 DEF BlockType
    <2>12. \A x \in DOMAIN heap' : heap'[x] \in BlockType
      BY <2>9, <2>11, <1>4
    <2>13. m2.data # NULL =>
             /\ Bytes(m2.ndim, m2.shape) > 0
             /\ \A i \in 1 .. m2.ndim : ~Negative(m2.shape[i])
      BY <2>3, <2>5, <2>6, <2>8 DEF good
    <2>14. ~Throws(o, n, shape, data) =>
             /\ m2.ndim = n /\ \A i \in 1 .. n : m2.shape[i] = shape[i]
             /\ ~fails /\ m2.data = NULL => data = NULL \/ Bytes(n, shape) = 0
      BY <2>3, <2>4, <2>7, <1>1
    <2>15. SetTo(o, n, shape, data, fails, m2)
      BY <1>2, <1>3, <2>2, <2>4, <2>5, <2>8, <2>9, <2>10, <2>11, <2>12, <2>13, <2>14 DEF SetTo
    <2> QED
      BY <2>5, <2>15
  <1> QED
    BY <1>5, <1>6

\* Setting a matrix keeps the blocks, the sizes, and what is known of shapes.
LEMMA SetMatrixInv ==
  ASSUME IInv, NEW o \in Live, NEW n \in 0 .. MaxDims, NEW shape \in Shape,
         NEW data \in Source(o), NEW fails \in BOOLEAN, SetMatrix(o, n, shape, data, fails),
         NEW badSource \in BOOLEAN, Taint(o, n, shape, data, badSource), UNCHANGED leaked,
         data = NULL => badSource \/ Product(n, shape) = 0,
         data \notin {NULL, Outside} => badSource \/ heap[data].content # Garbage
  PROVE  /\ BlockInv' /\ MatrixInv' /\ ShapeTells'
         /\ DOMAIN frame' = Live
         /\ \A x \in Live \ {o} : frame'[x] = frame[x]
         /\ frame'[o] = [frame[o] EXCEPT !.matrix = frame'[o].matrix]
         /\ frame'[o].matrix \in MatrixType
         /\ frame' = [x \in Live |-> frame'[x]]
         /\ heap' = [b \in DOMAIN heap' |-> heap'[b]] /\ DOMAIN heap' \subseteq Block
         /\ \A b \in DOMAIN heap' : heap'[b] \in BlockType
         /\ failures' \in 0 .. MaxFailures
         /\ tainted' \subseteq Object
  <1>1. PICK m2 \in MatrixType : SetTo(o, n, shape, data, fails, m2)
    BY SetMatrixFacts
  <1>2. /\ frame' = [frame EXCEPT ![o].matrix = m2]
        /\ frame = [x \in Live |-> frame[x]]
        /\ frame[o] \in [at : Block, t : Value, ptr : Object \union {Wild}, matrix : MatrixType]
        /\ o \in Object /\ Live \subseteq Object
    BY <1>1, TypeFacts DEF SetTo, IInv
  <1>3. /\ DOMAIN frame' = Live /\ Live' = Live
        /\ \A x \in Live \ {o} : frame'[x] = frame[x]
        /\ frame'[o] = [frame[o] EXCEPT !.matrix = m2]
        /\ frame'[o].matrix = m2 /\ frame'[o].at = frame[o].at
        /\ frame' = [x \in Live |-> frame'[x]]
    BY <1>2 DEF Live
  <1>4. /\ \A x \in Live : /\ frame[x].at = <<x, "frame">>
                          /\ frame[x].matrix.data \in {NULL, Data(x)}
        /\ leaked \subseteq Object \X {"leaked"}
        /\ DOMAIN heap = leaked \union {<<x, "frame">> : x \in Live}
              \union {Data(y) : y \in {x \in Live : frame[x].matrix.data # NULL}}
    BY DEF IInv, BlockInv, Data
  <1>5. /\ m2.data \in {NULL, Data(o)}
        /\ DOMAIN heap' = (DOMAIN heap \ {frame[o].matrix.data}) \union ({m2.data} \ {NULL})
        /\ \A b \in DOMAIN heap' \ {Data(o)} : heap'[b] = heap[b]
    BY <1>1 DEF SetTo
  <1>6. /\ \A l \in leaked : l # Data(o)
        /\ \A x \in Live : <<x, "frame">> # Data(o)
        /\ \A x \in Live : x # o => Data(x) # Data(o)
        /\ \A x \in Live : Data(x) # NULL
        /\ NULL \notin DOMAIN heap
    <2>1. \A l \in leaked : l # Data(o)
      BY <1>4 DEF Data
    <2>2. \A x \in Live : <<x, "frame">> # Data(o) /\ (x # o => Data(x) # Data(o))
      BY DEF Data
    <2>3. ASSUME NEW x \in Live PROVE Data(x) # NULL
      <3>1. Data(x) \in Block /\ NULL \notin Block
        BY <1>2, BlocksDiffer, Zenon
      <3> QED
        BY <3>1, Zenon
    <2>4. NULL \notin DOMAIN heap
      BY TypeFacts, BlocksDiffer DEF IInv
    <2> QED
      BY <2>1, <2>2, <2>3, <2>4
  <1>7. BlockInv'
    <2>a. ASSUME NEW x \in Live
          PROVE  /\ frame'[x].matrix.data = IF x = o THEN m2.data ELSE frame[x].matrix.data
                 /\ frame'[x].at = frame[x].at
      <3>1. CASE x = o
        BY <1>3, <3>1
      <3>2. CASE x # o
        BY <1>3, <3>2
      <3> QED
        BY <3>1, <3>2
    <2>1. \A x \in Live : frame'[x].at = <<x, "frame">> /\ frame'[x].matrix.data \in {NULL, Data(x)}
      BY <1>4, <1>5, <2>a
    <2>2. DOMAIN heap' = leaked \union {<<x, "frame">> : x \in Live}
             \union {Data(y) : y \in {x \in Live : frame'[x].matrix.data # NULL}}
      <3>1. CASE m2.data = NULL
        <4>1. {x \in Live : frame'[x].matrix.data # NULL} = {x \in Live : frame[x].matrix.data # NULL} \ {o}
          BY <2>a, <3>1
        <4>2. DOMAIN heap' = DOMAIN heap \ {Data(o)}
          BY <1>4, <1>5, <1>6, <3>1
        <4> QED
          BY <4>1, <4>2, <1>4, <1>6
      <3>2. CASE m2.data = Data(o)
        <4>1. {x \in Live : frame'[x].matrix.data # NULL} = {x \in Live : frame[x].matrix.data # NULL} \union {o}
          BY <1>6, <2>a, <3>2
        <4>2. DOMAIN heap' = DOMAIN heap \union {Data(o)}
          BY <1>4, <1>5, <1>6, <3>2
        <4> QED
          BY <4>1, <4>2, <1>4, <1>6
      <3> QED
        BY <1>5, <3>1, <3>2
    <2> QED
      BY <1>3, <1>4, <2>1, <2>2 DEF BlockInv, Data
  <1>8. \A x \in Live \ {o} : frame[x].matrix.data # NULL =>
          /\ frame[x].matrix.data \in DOMAIN heap'
          /\ heap'[frame[x].matrix.data] = heap[frame[x].matrix.data]
    <2> SUFFICES ASSUME NEW x \in Live \ {o}, frame[x].matrix.data # NULL
                 PROVE  /\ Data(x) \in DOMAIN heap'
                        /\ heap'[Data(x)] = heap[Data(x)]
      BY <1>4
    <2>1. Data(x) = frame[x].matrix.data /\ Data(x) # Data(o) /\ Data(x) # NULL
      BY <1>4, <1>6
    <2>2. Data(x) \in DOMAIN heap /\ Data(x) # frame[o].matrix.data
      BY <1>4, <2>1
    <2> QED
      BY <1>5, <2>1, <2>2
  <1>9. MatrixInv'
    <2> SUFFICES ASSUME NEW x \in Live PROVE Sized(frame[x].matrix)'
      BY <1>3 DEF MatrixInv
    <2>1. CASE x = o
      BY <1>1, <1>3, <2>1 DEF SetTo, Sized
    <2>2. CASE x # o
      <3>1. Sized(frame[x].matrix)
        BY DEF IInv, MatrixInv
      <3> QED
        BY <1>3, <1>8, <2>2, <3>1 DEF Sized
    <2> QED
      BY <2>1, <2>2
  <1>10. ASSUME NEW x \in Live \ {o}, x \notin tainted
         PROVE  /\ Readable(frame[x].matrix)'
                /\ frame'[x].matrix.data # NULL => heap'[frame'[x].matrix.data].content # Garbage
    <2>1. /\ Readable(frame[x].matrix)
          /\ frame[x].matrix.data # NULL => heap[frame[x].matrix.data].content # Garbage
      BY <1>10 DEF IInv, ShapeTells
    <2>2. frame'[x] = frame[x]
      BY <1>3
    <2> QED
      BY <1>8, <2>1, <2>2 DEF Readable, Elements
  <1>11. ASSUME o \notin tainted'
         PROVE  /\ Readable(m2)'
                /\ m2.data # NULL => heap'[m2.data].content # Garbage
    <2> DEFINE throws == Throws(o, n, shape, data)
    <2>1. IF throws /\ m2 = frame[o].matrix THEN UNCHANGED tainted
          ELSE IF \/ throws \/ badSource
                  \/ DoubleSize * Product(n, shape) >= Word
                  \/ m2.data = NULL /\ Elements(m2) > 0
               THEN tainted' = tainted \union {o}
               ELSE tainted' = tainted \ {o}
      BY <1>3 DEF Taint, Throws
    <2>2. CASE throws /\ m2 = frame[o].matrix
      <3>1. o \notin tainted
        BY <1>11, <2>1, <2>2
      <3>2. /\ Readable(m2)
            /\ m2.data # NULL => heap[m2.data].content # Garbage
        BY <3>1, <2>2 DEF IInv, ShapeTells
      <3>3. m2.data = NULL \/ UNCHANGED heap
        BY <1>1, <2>2 DEF SetTo
      <3> QED
        BY <3>2, <3>3 DEF Readable, Elements
    <2>3. CASE ~(throws /\ m2 = frame[o].matrix)
      <3>1. /\ ~throws /\ ~badSource
            /\ ~(DoubleSize * Product(n, shape) >= Word)
            /\ ~(m2.data = NULL /\ Elements(m2) > 0)
        BY <1>11, <2>1, <2>3
      <3>2. m2.ndim = n /\ \A i \in 1 .. n : m2.shape[i] = shape[i]
        BY <1>1, <3>1 DEF SetTo
      <3>3. Elements(m2) = Product(n, shape)
        BY <3>2, ProductAgrees DEF Elements, MatrixType, Shape
      <3>4. Product(n, shape) \in Nat
        BY ProductType
      <3>5. DoubleSize * Product(n, shape) \in Nat
        BY <3>4, StructsConstants
      <3>6. Bytes(m2.ndim, m2.shape) = DoubleSize * Elements(m2)
        <4>1. Bytes(m2.ndim, m2.shape) = (DoubleSize * Product(n, shape)) % Word
          BY <3>2, <3>3 DEF Bytes, Elements
        <4> HIDE DEF Product
        <4> QED
          BY <4>1, <3>1, <3>3, <3>5, StructsConstants
      <3>7. Readable(m2)'
        <4>1. m2.data # NULL => heap'[m2.data].size = DoubleSize * Elements(m2)
          BY <1>1, <3>6 DEF SetTo
        <4> QED
          BY <3>1, <3>3, <3>5, <4>1 DEF Readable, Elements
      <3>8. m2.data # NULL => heap'[m2.data].content # Garbage
        <4>1. ASSUME m2.data # NULL, data = NULL PROVE FALSE
          <5>1. Product(n, shape) = 0
            BY <3>1, <4>1
          <5>2. Bytes(m2.ndim, m2.shape) = 0
            BY <3>3, <3>6, <5>1, StructsConstants
          <5> QED
            BY <1>1, <4>1, <5>2 DEF SetTo
        <4>2. m2.data # NULL /\ data = Outside => heap'[m2.data].content # Garbage
          BY <1>1, StructsConstants DEF SetTo
        <4>3. m2.data # NULL /\ data \notin {NULL, Outside} => heap'[m2.data].content # Garbage
          BY <1>1, <3>1 DEF SetTo
        <4> QED
          BY <4>1, <4>2, <4>3
      <3> QED
        BY <3>7, <3>8
    <2> QED
      BY <2>2, <2>3
  <1>12. tainted' \subseteq tainted \union {o} /\ tainted \subseteq tainted' \union {o}
    BY DEF Taint
  <1>13. ShapeTells'
    <2> SUFFICES ASSUME NEW x \in Live, x \notin tainted'
                 PROVE  /\ Readable(frame[x].matrix)'
                        /\ frame'[x].matrix.data # NULL => heap'[frame'[x].matrix.data].content # Garbage
      BY <1>3 DEF ShapeTells
    <2> QED
      BY <1>3, <1>10, <1>11, <1>12
  <1>14. tainted' \subseteq Object
    BY <1>2, <1>12 DEF IInv, TypeOK
  <1>15. DOMAIN heap' \subseteq Block
    <2>1. Data(o) \in Block /\ DOMAIN heap \subseteq Block
      BY <1>2, TypeFacts, BlocksDiffer DEF IInv
    <2> QED
      BY <1>5, <2>1
  <1>16. /\ heap' = [b \in DOMAIN heap' |-> heap'[b]]
         /\ \A b \in DOMAIN heap' : heap'[b] \in BlockType
         /\ failures' \in 0 .. MaxFailures
    BY <1>1 DEF SetTo
  <1> QED
    BY <1>3, <1>7, <1>9, <1>13, <1>14, <1>15, <1>16

----------------------------------------------------------------------------
(* The steps.                                                              *)

FrameType == [at : Block, t : Value, ptr : Object \union {Wild}, matrix : MatrixType]
OpType == [do : {"none", "copy", "dict", "wild", "null"}, dst : Object \union {NULL},
           src : Object \union {NULL}, member : 0 .. 4]

LEMMA InitIInv == Init => IInv
  <1> SUFFICES ASSUME Init PROVE IInv
    OBVIOUS
  <1> USE StructsConstants DEF Init
  <1>1. Live = {} /\ DOMAIN heap = {}
    BY DEF Live
  <1>2. TypeOK
    BY <1>1, TypeFacts DEF Idle
  <1> QED
    BY <1>1, <1>2 DEF IInv, BlockInv, MatrixInv, OpInv, PointersHome, ShapeTells, CopyFaithful,
       Doing, Idle

\* Steps that write numbers and pointers only.
LEMMA QuietInv ==
  ASSUME IInv, UNCHANGED <<heap, leaked, tainted, failures>>,
         frame' = [x \in Live |-> frame'[x]],
         \A x \in Live : /\ frame'[x].at = frame[x].at /\ frame'[x].matrix = frame[x].matrix
                         /\ frame'[x] \in FrameType,
         op' \in OpType, halfway' \subseteq Object
  PROVE  TypeOK' /\ BlockInv' /\ MatrixInv' /\ ShapeTells' /\ Live' = Live
  <1>1. Live' = Live
    BY DEF Live
  <1>2. TypeOK'
    <2>1. TypeOK
      BY DEF IInv
    <2> QED
      BY <1>1, <2>1 DEF TypeOK, FrameType, OpType, Live
  <1>3. BlockInv'
    BY <1>1 DEF IInv, BlockInv
  <1>4. MatrixInv'
    BY <1>1 DEF IInv, MatrixInv, Sized
  <1>5. ShapeTells'
    BY <1>1 DEF IInv, ShapeTells, Readable, Elements
  <1> QED
    BY <1>1, <1>2, <1>3, <1>4, <1>5

\* Numbers and pointers of one object are written.
LEMMA WriteFacts ==
  ASSUME IInv, NEW o \in Live, NEW v \in Value, NEW p \in Object \union {Wild}
  PROVE  /\ o \in Object /\ Live \subseteq Object
         /\ \A x \in Live : frame[x] \in FrameType
         /\ frame = [x \in Live |-> frame[x]]
         /\ [frame EXCEPT ![o].t = v]
              = [x \in Live |-> IF x = o THEN [frame[o] EXCEPT !.t = v] ELSE frame[x]]
         /\ [frame EXCEPT ![o].ptr = p]
              = [x \in Live |-> IF x = o THEN [frame[o] EXCEPT !.ptr = p] ELSE frame[x]]
         /\ [frame[o] EXCEPT !.t = v] \in FrameType
         /\ [frame[o] EXCEPT !.ptr = p] \in FrameType
  <1>1. /\ o \in Object /\ Live \subseteq Object
        /\ \A x \in Live : frame[x] \in FrameType
        /\ frame = [x \in Live |-> frame[x]]
    BY TypeFacts DEF IInv, FrameType
  <1> QED
    BY <1>1 DEF FrameType, Live

LEMMA OpFacts ==
  ASSUME IInv
  PROVE  /\ op \in OpType
         /\ \A do, member : Doing(do, member) => op.do = do /\ op.member = member
         /\ op = Idle => op.do = "none" /\ op.dst = NULL /\ op.src = NULL
         /\ halfway \subseteq Object
  BY DEF IInv, TypeOK, OpType, Doing, Idle

LEMMA ReadMembersInv ==
  ASSUME IInv, NEW o \in Object, NEW x \in Object, ReadMembers(o, x)
  PROVE  IInv'
  <1>1. /\ UNCHANGED <<frame, heap, failures, halfway, tainted, leaked>>
        /\ o \in Live /\ x \in Live /\ frame' = [y \in Live |-> frame'[y]]
        /\ \A y \in Live : frame[y] \in FrameType
    BY TypeFacts DEF ReadMembers, IInv, FrameType
  <1>2. \/ /\ op' = [do |-> "wild", dst |-> o, src |-> x, member |-> 0]
           /\ frame[o].ptr # frame[x].ptr /\ ~{frame[o].ptr, frame[x].ptr} \subseteq Live
        \/ /\ op' = [do |-> "null", dst |-> o, src |-> x, member |-> 0]
           /\ ~Readable(frame[o].matrix)
    BY DEF ReadMembers
  <1>3. op' \in OpType
    BY <1>2 DEF OpType
  <1>4. TypeOK' /\ BlockInv' /\ MatrixInv' /\ ShapeTells' /\ Live' = Live
    BY <1>1, <1>3, OpFacts, QuietInv
  <1>5. PointersHome'
    <2>1. \A y \in Live \ halfway : frame[y].ptr = y
      BY DEF IInv, PointersHome
    <2>2. \A y \in Live \ tainted : Readable(frame[y].matrix)
      BY DEF IInv, ShapeTells
    <2> QED
      BY <1>1, <1>2, <1>4, <2>1, <2>2 DEF PointersHome
  <1>6. OpInv' /\ CopyFaithful'
    BY <1>2 DEF OpInv, CopyFaithful, Doing
  <1> QED
    BY <1>4, <1>5, <1>6 DEF IInv

\* An assignment begins.
LEMMA BeginInv ==
  ASSUME IInv, NEW o \in Object, FromDict(o) \/ \E x \in Object : Copy(o, x)
  PROVE  IInv'
  <1>1. /\ UNCHANGED <<frame, heap, failures, halfway, tainted, leaked>>
        /\ frame' = [y \in Live |-> frame'[y]]
        /\ \A y \in Live : frame[y] \in FrameType
    BY TypeFacts DEF FromDict, Copy, IInv, FrameType
  <1>2. /\ op' \in OpType /\ op'.member = 1 /\ op'.do \in {"dict", "copy"}
        /\ op'.dst \in Live
        /\ op'.do = "copy" => op'.src \in Live /\ op'.dst # op'.src
    BY DEF FromDict, Copy, OpType
  <1>3. TypeOK' /\ BlockInv' /\ MatrixInv' /\ ShapeTells' /\ Live' = Live
    BY <1>1, <1>2, OpFacts, QuietInv
  <1>4. PointersHome' /\ OpInv' /\ CopyFaithful'
    BY <1>1, <1>2, <1>3 DEF IInv, PointersHome, OpInv, CopyFaithful, Doing
  <1> QED
    BY <1>3, <1>4 DEF IInv

\* x.ptr = v, on its own or for an entry of a dict.
LEMMA WriteInv ==
  ASSUME IInv, NEW o \in Live, NEW v \in Value, NEW next \in OpType, Write(o, v, next),
         op.do # "copy", next.do \in {"none", "dict"},
         next.do = "none" => next = Idle, next.do = "dict" => next.dst = o,
         UNCHANGED <<heap, failures, halfway, tainted, leaked>>
  PROVE  IInv'
  <1>1. /\ \A p \in Live : /\ p \in Object
                           /\ [frame EXCEPT ![p].t = v]
                                = [x \in Live |-> IF x = p THEN [frame[p] EXCEPT !.t = v] ELSE frame[x]]
                           /\ [frame[p] EXCEPT !.t = v] \in FrameType
        /\ \A x \in Live : frame[x] \in FrameType
        /\ frame = [x \in Live |-> frame[x]]
    BY WriteFacts
  <1>2. /\ frame' = [x \in Live |-> frame'[x]]
        /\ \A x \in Live : /\ frame'[x].at = frame[x].at /\ frame'[x].matrix = frame[x].matrix
                           /\ frame'[x].ptr = frame[x].ptr
                           /\ frame'[x] \in FrameType
    <2>1. CASE frame[o].ptr \in Live
      <3> DEFINE p == frame[o].ptr
      <3>1. frame' = [x \in Live |-> IF x = p THEN [frame[p] EXCEPT !.t = v] ELSE frame[x]]
        BY <2>1, <1>1 DEF Write
      <3>2. [frame[p] EXCEPT !.t = v] \in FrameType /\ frame[p] \in FrameType
        BY <2>1, <1>1
      <3> HIDE DEF p
      <3> QED
        BY <3>1, <3>2, <1>1 DEF FrameType
    <2>2. CASE frame[o].ptr \notin Live
      BY <2>2, <1>1 DEF Write
    <2> QED
      BY <2>1, <2>2
  <1>3. op \in OpType
    BY OpFacts
  <1>4. \/ op' = next
        \/ /\ op'.do = "wild" /\ op'.dst = o /\ op' \in OpType
           /\ frame[o].ptr \notin Live
    BY <1>1, <1>3 DEF Write, OpType
  <1>5. TypeOK' /\ BlockInv' /\ MatrixInv' /\ ShapeTells' /\ Live' = Live
    BY <1>2, <1>4, OpFacts, QuietInv
  <1>6. PointersHome'
    <2>1. \A x \in Live \ halfway : frame[x].ptr = x
      BY DEF IInv, PointersHome
    <2> QED
      BY <1>2, <1>4, <1>5, <2>1 DEF PointersHome
  <1>7. OpInv' /\ CopyFaithful'
    BY <1>4, <1>5 DEF OpInv, CopyFaithful, Doing
  <1> QED
    BY <1>5, <1>6, <1>7 DEF IInv

\* Member by member: a number, a pointer, and the rest of operator=.
LEMMA CopyMemberInv ==
  ASSUME IInv, CopyNumber \/ CopyPointer \/ ResetPointer
  PROVE  IInv'
  <1>1. /\ op \in OpType /\ op.do = "copy"
        /\ op.dst \in Live /\ op.src \in Live /\ op.dst # op.src
        /\ op.member \in 2 .. 4 => Dst.t = Src.t
        /\ op.member \in 3 .. 4 => op.dst \in halfway
        /\ halfway \subseteq Object
        /\ op.dst \in Object
    <2>1. op.do = "copy"
      BY DEF CopyNumber, CopyPointer, ResetPointer, Doing
    <2>2. Live \subseteq Object
      BY TypeFacts DEF IInv
    <2> QED
      BY <2>1, <2>2, OpFacts DEF IInv, OpInv
  <1> DEFINE d == op.dst
  <1>2. /\ \A x \in Live : frame[x] \in FrameType
        /\ frame = [x \in Live |-> frame[x]]
        /\ Live \subseteq Object
    BY TypeFacts DEF IInv, FrameType
  <1>3. UNCHANGED <<heap, failures, tainted, leaked>>
    BY DEF CopyNumber, CopyPointer, ResetPointer
  <1>4. \A x \in Live \ halfway : frame[x].ptr = x
    BY DEF IInv, PointersHome
  <1>5. CASE CopyNumber
    <2>1. /\ frame' = [frame EXCEPT ![d].t = Src.t]
          /\ op' = [op EXCEPT !.member = 2] /\ op.member = 1 /\ UNCHANGED halfway
      BY <1>5 DEF CopyNumber, GoOn, Doing
    <2>2. Src.t \in Value
      BY <1>1, <1>2 DEF Src, FrameType
    <2>3. frame' = [x \in Live |-> IF x = d THEN [frame[d] EXCEPT !.t = Src.t] ELSE frame[x]]
      BY <2>1, <2>2, <1>1, WriteFacts
    <2>4. [frame[d] EXCEPT !.t = Src.t] \in FrameType
      BY <2>2, <1>1, WriteFacts
    <2>5. \A x \in Live : /\ frame'[x].at = frame[x].at /\ frame'[x].matrix = frame[x].matrix
                          /\ frame'[x].ptr = frame[x].ptr
                          /\ frame'[x] \in FrameType
      BY <1>1, <1>2, <2>3, <2>4 DEF FrameType
    <2>6. op' \in OpType /\ op'.do = "copy" /\ op'.dst = d /\ op'.src = op.src /\ op'.member = 2
      BY <1>1, <2>1 DEF OpType
    <2>7. TypeOK' /\ BlockInv' /\ MatrixInv' /\ ShapeTells' /\ Live' = Live
      BY <1>1, <1>3, <2>1, <2>3, <2>5, <2>6, QuietInv
    <2>8. frame'[d].t = Src.t /\ frame'[op.src].t = Src.t
      BY <1>1, <1>2, <2>3 DEF Src, FrameType
    <2>9. OpInv'
      BY <1>1, <2>6, <2>7, <2>8 DEF OpInv, Dst, Src
    <2>10. PointersHome' /\ CopyFaithful'
      BY <1>4, <2>1, <2>5, <2>6, <2>7 DEF PointersHome, CopyFaithful, Doing
    <2> QED
      BY <2>7, <2>9, <2>10 DEF IInv
  <1>6. CASE CopyPointer
    <2>1. PICK p \in Object \union {Wild} : frame' = [frame EXCEPT ![d].ptr = p]
      <3>1. Src.ptr \in Object \union {Wild}
        BY <1>1, <1>2 DEF Src, FrameType
      <3> QED
        BY <1>6, <3>1 DEF CopyPointer
    <2>2. /\ op' = [op EXCEPT !.member = 3] /\ op.member = 2 /\ halfway' = halfway \union {d}
      BY <1>6 DEF CopyPointer, GoOn, Doing
    <2>a. frame[d].t \in Value
      BY <1>1, <1>2 DEF FrameType
    <2>3. /\ frame' = [x \in Live |-> IF x = d THEN [frame[d] EXCEPT !.ptr = p] ELSE frame[x]]
          /\ [frame[d] EXCEPT !.ptr = p] \in FrameType
      BY <2>1, <2>a, <1>1, WriteFacts
    <2>4. \A x \in Live : /\ frame'[x].at = frame[x].at /\ frame'[x].matrix = frame[x].matrix
                          /\ frame'[x].t = frame[x].t
                          /\ x # d => frame'[x] = frame[x]
                          /\ frame'[x] \in FrameType
      BY <1>1, <1>2, <2>3 DEF FrameType
    <2>5. op' \in OpType /\ op'.do = "copy" /\ op'.dst = d /\ op'.src = op.src /\ op'.member = 3
      BY <1>1, <2>2 DEF OpType
    <2>6. TypeOK' /\ BlockInv' /\ MatrixInv' /\ ShapeTells' /\ Live' = Live
      BY <1>1, <1>3, <2>2, <2>3, <2>4, <2>5, QuietInv
    <2>7. OpInv'
      BY <1>1, <2>2, <2>4, <2>5, <2>6 DEF OpInv, Dst, Src
    <2>8. PointersHome' /\ CopyFaithful'
      BY <1>4, <2>2, <2>4, <2>5, <2>6 DEF PointersHome, CopyFaithful, Doing
    <2> QED
      BY <2>6, <2>7, <2>8 DEF IInv
  <1>7. CASE ResetPointer
    <2>1. /\ frame' = [frame EXCEPT ![d].ptr = d]
          /\ op' = Idle /\ halfway' = halfway \ {d}
      BY <1>7 DEF ResetPointer
    <2>a. frame[d].t \in Value
      BY <1>1, <1>2 DEF FrameType
    <2>2. /\ frame' = [x \in Live |-> IF x = d THEN [frame[d] EXCEPT !.ptr = d] ELSE frame[x]]
          /\ [frame[d] EXCEPT !.ptr = d] \in FrameType
      BY <2>1, <2>a, <1>1, WriteFacts
    <2>3. \A x \in Live : /\ frame'[x].at = frame[x].at /\ frame'[x].matrix = frame[x].matrix
                          /\ frame'[x].ptr = IF x = d THEN d ELSE frame[x].ptr
                          /\ frame'[x] \in FrameType
      BY <1>1, <1>2, <2>2 DEF FrameType
    <2>4. op' \in OpType
      BY <2>1 DEF OpType, Idle
    <2>5. TypeOK' /\ BlockInv' /\ MatrixInv' /\ ShapeTells' /\ Live' = Live
      BY <1>1, <1>3, <2>1, <2>2, <2>3, <2>4, QuietInv
    <2>6. PointersHome' /\ OpInv' /\ CopyFaithful'
      BY <1>4, <2>1, <2>3, <2>5 DEF PointersHome, OpInv, CopyFaithful, Doing, Idle
    <2> QED
      BY <2>5, <2>6 DEF IInv
  <1> QED
    BY <1>5, <1>6, <1>7

\* What SetMatrixInv leaves to be shown of TypeOK.
LEMMA MatrixType2 ==
  ASSUME IInv, NEW o \in Live, DOMAIN frame' = Live,
         \A x \in Live \ {o} : frame'[x] = frame[x],
         frame'[o] = [frame[o] EXCEPT !.matrix = frame'[o].matrix],
         frame'[o].matrix \in MatrixType,
         frame' = [x \in Live |-> frame'[x]],
         heap' = [b \in DOMAIN heap' |-> heap'[b]], DOMAIN heap' \subseteq Block,
         \A b \in DOMAIN heap' : heap'[b] \in BlockType,
         failures' \in 0 .. MaxFailures, tainted' \subseteq Object,
         op' \in OpType, UNCHANGED <<halfway, leaked>>
  PROVE  /\ TypeOK'
         /\ \A x \in Live : frame'[x].ptr = frame[x].ptr /\ frame'[x].t = frame[x].t
  <1>1. /\ \A x \in Live : frame[x] \in FrameType
        /\ Live \subseteq Object /\ halfway \subseteq Object /\ leaked \subseteq Block
    BY TypeFacts DEF IInv, FrameType
  <1>2. frame'[o] \in FrameType /\ frame'[o].ptr = frame[o].ptr /\ frame'[o].t = frame[o].t
    BY <1>1 DEF FrameType
  <1>3. \A x \in Live : frame'[x] \in FrameType /\ frame'[x].ptr = frame[x].ptr
                        /\ frame'[x].t = frame[x].t
    BY <1>1, <1>2
  <1>4. TypeOK'
    BY <1>1, <1>3 DEF TypeOK, FrameType, BlockType, OpType
  <1> QED
    BY <1>3, <1>4

LEMMA ArrayInv ==
  ASSUME IInv, NEW o \in Live, NEW n \in 0 .. MaxDims, NEW shape \in Shape,
         NEW data \in {Outside, NULL}, NEW fails \in BOOLEAN,
         SetMatrix(o, n, shape, data, fails), Taint(o, n, shape, data, data = NULL),
         op' = Idle, op.do \in {"none", "dict"}, UNCHANGED <<halfway, leaked>>
  PROVE  IInv'
  <1>1. /\ BlockInv' /\ MatrixInv' /\ ShapeTells'
        /\ DOMAIN frame' = Live
        /\ \A x \in Live \ {o} : frame'[x] = frame[x]
        /\ frame'[o] = [frame[o] EXCEPT !.matrix = frame'[o].matrix]
        /\ frame'[o].matrix \in MatrixType
        /\ frame' = [x \in Live |-> frame'[x]]
        /\ heap' = [b \in DOMAIN heap' |-> heap'[b]] /\ DOMAIN heap' \subseteq Block
        /\ \A b \in DOMAIN heap' : heap'[b] \in BlockType
        /\ failures' \in 0 .. MaxFailures /\ tainted' \subseteq Object
    <2>1. data \in Source(o) /\ (data = NULL) \in BOOLEAN
      BY DEF Source
    <2>2. data \in {NULL, Outside}
      OBVIOUS
    <2> QED
      BY <2>1, <2>2, SetMatrixInv
  <1>2. op' \in OpType
    BY DEF OpType, Idle
  <1>3. /\ TypeOK'
        /\ \A x \in Live : frame'[x].ptr = frame[x].ptr /\ frame'[x].t = frame[x].t
    BY <1>1, <1>2, MatrixType2
  <1>4. PointersHome' /\ OpInv' /\ CopyFaithful'
    BY <1>1, <1>3 DEF IInv, PointersHome, OpInv, CopyFaithful, Doing, Idle, Live
  <1> QED
    BY <1>1, <1>3, <1>4 DEF IInv

LEMMA CopyMatrixInv == IInv /\ CopyMatrix => IInv'
  <1> SUFFICES ASSUME IInv, CopyMatrix PROVE IInv'
    OBVIOUS
  <1> DEFINE d == op.dst
             m == Src.matrix
  <1>1. /\ op \in OpType /\ op.do = "copy" /\ op.member = 3
        /\ d \in Live /\ op.src \in Live /\ d # op.src
        /\ Dst.t = Src.t
        /\ d \in halfway
    BY OpFacts DEF CopyMatrix, Doing, IInv, OpInv
  <1>2. PICK fails \in BOOLEAN :
           /\ SetMatrix(d, m.ndim, m.shape, m.data, fails)
           /\ Taint(d, m.ndim, m.shape, m.data, op.src \in tainted)
           /\ IF fails \/ Throws(d, m.ndim, m.shape, m.data)
                THEN op' = Idle ELSE op' = [op EXCEPT !.member = 4]
    BY DEF CopyMatrix, GoOn, Throws, Dst
  <1>3. m \in MatrixType /\ m.ndim \in 0 .. MaxDims /\ m.shape \in Shape
    <2>1. Src \in FrameType
      BY <1>1, TypeFacts DEF IInv, FrameType, Src
    <2> QED
      BY <2>1 DEF FrameType, MatrixType, Shape
  <1>4. m.data \in Source(d) /\ m.data # Outside
    <2>1. m.data \in Source(d)
      BY <1>1 DEF Source, Src
    <2>2. m.data \in Block \union {NULL}
      BY <1>3 DEF MatrixType
    <2> QED
      BY <2>1, <2>2, BlocksDiffer
  <1>5. op.src \notin tainted =>
          /\ m.data = NULL => Product(m.ndim, m.shape) = 0
          /\ m.data # NULL => heap[m.data].content # Garbage
    <2>1. ASSUME op.src \notin tainted
          PROVE  Readable(m) /\ (m.data # NULL => heap[m.data].content # Garbage)
      BY <1>1, <2>1 DEF IInv, ShapeTells, Src
    <2>2. Product(m.ndim, m.shape) \in Nat
      BY <1>3, ProductType
    <2> HIDE DEF m
    <2> QED
      BY <2>1, <2>2 DEF Readable, Elements
  <1>6. UNCHANGED <<halfway, leaked>>
    BY DEF CopyMatrix
  <1>7. /\ BlockInv' /\ MatrixInv' /\ ShapeTells'
        /\ DOMAIN frame' = Live
        /\ \A x \in Live \ {d} : frame'[x] = frame[x]
        /\ frame'[d] = [frame[d] EXCEPT !.matrix = frame'[d].matrix]
        /\ frame'[d].matrix \in MatrixType
        /\ frame' = [x \in Live |-> frame'[x]]
        /\ heap' = [b \in DOMAIN heap' |-> heap'[b]] /\ DOMAIN heap' \subseteq Block
        /\ \A b \in DOMAIN heap' : heap'[b] \in BlockType
        /\ failures' \in 0 .. MaxFailures /\ tainted' \subseteq Object
    <2>1. PICK bad \in BOOLEAN : bad <=> op.src \in tainted
      <3>1. (TRUE \in BOOLEAN) /\ (FALSE \in BOOLEAN)
        OBVIOUS
      <3> QED
        BY <3>1, Zenon
    <2>2. /\ Taint(d, m.ndim, m.shape, m.data, bad)
          /\ m.data = NULL => bad \/ Product(m.ndim, m.shape) = 0
          /\ m.data \notin {NULL, Outside} => bad \/ heap[m.data].content # Garbage
      <3> HIDE DEF m
      <3> QED
        BY <1>2, <1>5, <2>1 DEF Taint
    <2> HIDE DEF m, d
    <2> QED
      BY <1>1, <1>2, <1>3, <1>4, <1>6, <2>2, SetMatrixInv
  <1>8. op' \in OpType /\ op' \in {Idle, [op EXCEPT !.member = 4]}
    BY <1>1, <1>2 DEF OpType, Idle
  <1>9. /\ TypeOK'
        /\ \A x \in Live : frame'[x].ptr = frame[x].ptr /\ frame'[x].t = frame[x].t
    <2> HIDE DEF d
    <2> QED
      BY <1>1, <1>6, <1>7, <1>8, MatrixType2
  <1>10. PointersHome'
    BY <1>1, <1>6, <1>7, <1>8, <1>9 DEF IInv, PointersHome, Live, Idle, OpType
  <1>11. OpInv'
    BY <1>1, <1>6, <1>7, <1>8, <1>9 DEF OpInv, Dst, Src, Live, Idle, OpType
  <1>12. CopyFaithful'
    <2> SUFFICES ASSUME Doing("copy", 4)' PROVE CopyFaithful'
      BY DEF CopyFaithful
    <2>1. op' = [op EXCEPT !.member = 4] /\ ~fails /\ ~Throws(d, m.ndim, m.shape, m.data)
      BY <1>2 DEF Doing, Idle
    <2>2. PICK m2 \in MatrixType : SetTo(d, m.ndim, m.shape, m.data, fails, m2)
      <3> HIDE DEF m, d
      <3> QED
        BY <1>1, <1>2, <1>3, <1>4, SetMatrixFacts
    <2>3. /\ frame'[d].matrix = m2
          /\ m2.ndim = m.ndim /\ \A i \in 1 .. m.ndim : m2.shape[i] = m.shape[i]
          /\ m2.data = NULL => m.data = NULL \/ Bytes(m.ndim, m.shape) = 0
      <3>1. frame' = [frame EXCEPT ![d].matrix = m2]
        BY <2>2 DEF SetTo
      <3>2. frame'[d].matrix = m2
        BY <1>1, <3>1, TypeFacts DEF IInv
      <3> QED
        BY <2>1, <2>2, <3>2 DEF SetTo
    <2>4. op'.dst = d /\ op'.src = op.src /\ frame'[op.src] = Src /\ frame'[d].t = Src.t
      BY <1>1, <1>7, <1>9, <2>1 DEF OpType, Src, Dst
    <2>5. ASSUME m.data # NULL PROVE m2.data # NULL /\ heap'[m2.data] = heap[m.data]
                                     /\ heap'[m.data] = heap[m.data]
      <3>1. /\ heap[m.data].size = Bytes(m.ndim, m.shape) /\ heap[m.data].size > 0
            /\ m.data = Data(op.src) /\ m.data \in DOMAIN heap
        BY <1>1, <2>5 DEF IInv, MatrixInv, Sized, BlockInv, Data, Src
      <3>2. m2.data # NULL
        <4> HIDE DEF m
        <4> QED
          BY <2>3, <2>5, <3>1
      <3>3. /\ heap'[m2.data].size = Bytes(m2.ndim, m2.shape)
            /\ heap'[m2.data].content = heap[m.data].content
            /\ heap'[m2.data] \in BlockType
            /\ m2.data = Data(d)
        BY <1>4, <2>2, <2>5, <3>2 DEF SetTo
      <3>4. Bytes(m2.ndim, m2.shape) = Bytes(m.ndim, m.shape)
        BY <1>3, <2>3, ProductAgrees DEF Bytes, MatrixType, Shape
      <3>5. heap[m.data] \in BlockType
        BY <3>1, TypeFacts DEF IInv
      <3>6. heap'[m2.data] = heap[m.data]
        BY <3>1, <3>3, <3>4, <3>5 DEF BlockType
      <3>7. Data(op.src) # Data(d)
        BY <1>1 DEF Data
      <3>8. m.data \in DOMAIN heap' /\ heap'[m.data] = heap[m.data]
        <4>1. frame[d].matrix.data \in {NULL, Data(d)}
          BY <1>1 DEF IInv, BlockInv, Data
        <4> HIDE DEF m, d
        <4> QED
          BY <2>2, <2>5, <3>1, <3>7, <4>1 DEF SetTo
      <3> QED
        BY <3>2, <3>6, <3>8
    <2> QED
      BY <2>3, <2>4, <2>5 DEF CopyFaithful, Dst, Src
  <1> QED
    BY <1>7, <1>9, <1>10, <1>11, <1>12 DEF IInv

\* Which blocks there are, for objects in Object.
LEMMA BlockFacts ==
  ASSUME IInv
  PROVE  /\ Live \subseteq Object /\ NULL \notin DOMAIN heap
         /\ \A x \in Live : /\ frame[x] \in FrameType
                            /\ frame[x].at = <<x, "frame">>
                            /\ frame[x].matrix.data \in {NULL, Data(x)}
                            /\ frame[x].matrix.data # NULL => Data(x) \in DOMAIN heap
         /\ \A x \in Object : Data(x) # NULL /\ <<x, "frame">> # NULL
         /\ DOMAIN heap = leaked \union {<<x, "frame">> : x \in Live}
              \union {Data(y) : y \in {x \in Live : frame[x].matrix.data # NULL}}
         /\ leaked \subseteq Object \X {"leaked"}
         /\ \A l \in leaked : \A x \in Object : l # Data(x) /\ l # <<x, "frame">>
         /\ \A x, y \in Object : <<x, "frame">> # Data(y)
         /\ \A x, y \in Object : x # y => Data(x) # Data(y) /\ <<x, "frame">> # <<y, "frame">>
         /\ \A x, y \in Object : <<x, "leaked">> # Data(y) /\ <<x, "leaked">> # <<y, "frame">>
  <1>1. /\ Live \subseteq Object
        /\ \A x \in Live : frame[x] \in FrameType
        /\ DOMAIN heap \subseteq Block
    BY TypeFacts DEF IInv, FrameType
  <1>2. ASSUME NEW x \in Object PROVE Data(x) # NULL /\ <<x, "frame">> # NULL
    <2>1. Data(x) \in Block /\ <<x, "frame">> \in Block
      BY BlocksDiffer, Zenon
    <2> QED
      BY <2>1, StructsConstants
  <1>3. NULL \notin DOMAIN heap
    BY <1>1, StructsConstants
  <1>4. /\ \A x \in Live : /\ frame[x].at = <<x, "frame">>
                           /\ frame[x].matrix.data \in {NULL, Data(x)}
        /\ DOMAIN heap = leaked \union {<<x, "frame">> : x \in Live}
              \union {Data(y) : y \in {x \in Live : frame[x].matrix.data # NULL}}
        /\ leaked \subseteq Object \X {"leaked"}
    BY DEF IInv, BlockInv, Data
  <1>5. \A x \in Live : frame[x].matrix.data # NULL => Data(x) \in DOMAIN heap
    BY <1>4
  <1>6. /\ \A l \in leaked : \A x \in Object : l # Data(x) /\ l # <<x, "frame">>
        /\ \A x, y \in Object : <<x, "frame">> # Data(y)
        /\ \A x, y \in Object : x # y => Data(x) # Data(y) /\ <<x, "frame">> # <<y, "frame">>
        /\ \A x, y \in Object : <<x, "leaked">> # Data(y) /\ <<x, "leaked">> # <<y, "frame">>
    BY <1>4 DEF Data
  <1> QED
    BY <1>1, <1>2, <1>3, <1>4, <1>5, <1>6

LEMMA CreateInv ==
  ASSUME IInv, NEW o \in Object, Create(o)
  PROVE  IInv'
  <1> DEFINE b == <<o, "frame">>
  <1>1. PICK v \in Value :
          /\ heap' = Allocated(b)
          /\ frame' = [x \in Live \union {o} |->
                         IF x = o THEN [at |-> b, t |-> v, ptr |-> o, matrix |-> NewMatrix]
                         ELSE frame[x]]
    BY DEF Create
  <1>2. /\ op = Idle /\ op' = op /\ o \notin Live /\ tainted' = tainted \union {o}
        /\ halfway' = halfway \ {o} /\ UNCHANGED <<failures, leaked>>
    BY DEF Create
  <1>3. b \in Block /\ b \notin DOMAIN heap
    <2>1. b \in Block
      BY DEF Block
    <2> QED
      BY <2>1, <1>2, BlockFacts
  <1>4. /\ Live' = Live \union {o}
        /\ frame' = [x \in Live' |-> frame'[x]]
        /\ \A x \in Live : frame'[x] = frame[x]
        /\ frame'[o] = [at |-> b, t |-> v, ptr |-> o, matrix |-> NewMatrix]
    BY <1>1, <1>2 DEF Live
  <1>5. /\ DOMAIN heap' = DOMAIN heap \union {b}
        /\ heap' = [x \in DOMAIN heap' |-> heap'[x]]
        /\ \A x \in DOMAIN heap : heap'[x] = heap[x]
        /\ heap'[b] \in BlockType
    BY <1>1, <1>3 DEF Allocated, BlockType
  <1>6. NewMatrix \in MatrixType /\ NewMatrix.data = NULL
    BY StructsConstants DEF NewMatrix, MatrixType
  <1>7. frame'[o] \in FrameType
    BY <1>3, <1>4, <1>6 DEF FrameType
  <1>8. TypeOK'
    <2>1. TypeOK
      BY DEF IInv
    <2>2. /\ Live' \subseteq Object /\ DOMAIN heap' \subseteq Block
          /\ \A x \in Live' : frame'[x] \in FrameType
          /\ \A x \in DOMAIN heap' : heap'[x] \in BlockType
      BY <1>3, <1>4, <1>5, <1>7, <2>1, TypeFacts DEF FrameType
    <2>3. /\ halfway' \subseteq Object /\ tainted' \subseteq Object /\ leaked' \subseteq Block
          /\ op' \in OpType /\ failures' \in 0 .. MaxFailures
      BY <1>2, <2>1 DEF TypeOK, OpType
    <2>4. frame' \in [Live' -> FrameType] /\ heap' \in [DOMAIN heap' -> BlockType]
      BY <1>4, <1>5, <2>2
    <2> QED
      BY <2>2, <2>3, <2>4 DEF TypeOK, FrameType, BlockType, OpType
  <1>9. BlockInv'
    <2>1. \A x \in Live' : /\ frame'[x].at = <<x, "frame">>
                           /\ frame'[x].matrix.data \in {NULL, Data(x)}
      BY <1>4, <1>6, BlockFacts
    <2>2. {x \in Live' : frame'[x].matrix.data # NULL} = {x \in Live : frame[x].matrix.data # NULL}
      BY <1>2, <1>4, <1>6
    <2>3. {<<x, "frame">> : x \in Live'} = {<<x, "frame">> : x \in Live} \union {b}
      BY <1>4
    <2>4. DOMAIN heap' = leaked' \union {<<x, "frame">> : x \in Live'}
              \union {Data(y) : y \in {x \in Live' : frame'[x].matrix.data # NULL}}
      BY <1>2, <1>5, <2>2, <2>3, BlockFacts
    <2> QED
      BY <1>2, <2>1, <2>4, BlockFacts DEF BlockInv, Data
  <1>10. \A x \in Live : frame[x].matrix.data # NULL =>
            frame[x].matrix.data \in DOMAIN heap /\ heap'[frame[x].matrix.data] = heap[frame[x].matrix.data]
    BY <1>5, BlockFacts
  <1>11. MatrixInv'
    <2> SUFFICES ASSUME NEW x \in Live' PROVE Sized(frame[x].matrix)'
      BY DEF MatrixInv
    <2>1. CASE x \in Live
      <3>1. Sized(frame[x].matrix)
        BY <2>1 DEF IInv, MatrixInv
      <3> QED
        BY <1>4, <1>10, <2>1, <3>1 DEF Sized
    <2>2. CASE x = o
      BY <1>4, <1>6, <2>2 DEF Sized
    <2> QED
      BY <1>4, <2>1, <2>2
  <1>12. ShapeTells'
    <2> SUFFICES ASSUME NEW x \in Live, x \notin tainted
                 PROVE  /\ Readable(frame[x].matrix)'
                        /\ frame'[x].matrix.data # NULL => heap'[frame'[x].matrix.data].content # Garbage
      BY <1>2, <1>4 DEF ShapeTells
    <2>1. /\ Readable(frame[x].matrix)
          /\ frame[x].matrix.data # NULL => heap[frame[x].matrix.data].content # Garbage
      BY DEF IInv, ShapeTells
    <2> QED
      BY <1>4, <1>10, <2>1 DEF Readable, Elements
  <1>13. PointersHome' /\ OpInv' /\ CopyFaithful'
    BY <1>2, <1>4 DEF IInv, PointersHome, OpInv, CopyFaithful, Doing, Idle
  <1> QED
    BY <1>8, <1>9, <1>11, <1>12, <1>13 DEF IInv

LEMMA CreateThrowsInv ==
  ASSUME IInv, NEW o \in Object, CreateThrows(o)
  PROVE  IInv'
  <1> DEFINE b == <<o, "leaked">>
  <1>1. /\ op = Idle /\ op' = op /\ heap' = Allocated(b) /\ leaked' = leaked \union {b}
        /\ failures < MaxFailures /\ failures' = failures + 1
        /\ UNCHANGED <<frame, halfway, tainted>> /\ b \notin leaked
    BY DEF CreateThrows
  <1>2. b \in Block /\ b \notin DOMAIN heap /\ b \in Object \X {"leaked"}
    <2>1. b \in Block /\ b \in Object \X {"leaked"}
      BY DEF Block
    <2> QED
      BY <2>1, <1>1, BlockFacts
  <1>3. Live' = Live
    BY <1>1 DEF Live
  <1>4. /\ DOMAIN heap' = DOMAIN heap \union {b}
        /\ heap' = [x \in DOMAIN heap' |-> heap'[x]]
        /\ \A x \in DOMAIN heap : heap'[x] = heap[x]
        /\ heap'[b] \in BlockType
    BY <1>1, <1>2 DEF Allocated, BlockType
  <1>5. TypeOK'
    <2>1. TypeOK
      BY DEF IInv
    <2>2. /\ DOMAIN heap' \subseteq Block /\ leaked' \subseteq Block
          /\ \A x \in DOMAIN heap' : heap'[x] \in BlockType
          /\ failures' \in 0 .. MaxFailures
      BY <1>1, <1>2, <1>4, <2>1, TypeFacts, StructsConstants
    <2> QED
      BY <1>1, <1>4, <2>1, <2>2 DEF TypeOK, BlockType, Live
  <1>6. BlockInv'
    <2>1. DOMAIN heap' = leaked' \union {<<x, "frame">> : x \in Live}
              \union {Data(y) : y \in {x \in Live : frame[x].matrix.data # NULL}}
      BY <1>1, <1>4, BlockFacts
    <2>2. leaked' \subseteq Object \X {"leaked"}
      BY <1>1, <1>2, BlockFacts
    <2> QED
      BY <1>1, <1>3, <2>1, <2>2, BlockFacts DEF BlockInv, Data
  <1>7. \A x \in Live : frame[x].matrix.data # NULL =>
            frame[x].matrix.data \in DOMAIN heap /\ heap'[frame[x].matrix.data] = heap[frame[x].matrix.data]
    BY <1>4, BlockFacts
  <1>8. MatrixInv' /\ ShapeTells'
    BY <1>1, <1>3, <1>7 DEF IInv, MatrixInv, Sized, ShapeTells, Readable, Elements
  <1>9. PointersHome' /\ OpInv' /\ CopyFaithful'
    BY <1>1, <1>3 DEF IInv, PointersHome, OpInv, CopyFaithful, Doing, Idle
  <1> QED
    BY <1>5, <1>6, <1>8, <1>9 DEF IInv

LEMMA DestroyInv ==
  ASSUME IInv, NEW o \in Object, Destroy(o)
  PROVE  IInv'
  <1>1. /\ op = Idle /\ op' = op /\ o \in Live
        /\ frame' = [x \in Live \ {o} |-> frame[x]]
        /\ heap' = [b \in DOMAIN heap \ {frame[o].at, frame[o].matrix.data} |-> heap[b]]
        /\ UNCHANGED <<failures, halfway, tainted, leaked>>
    BY DEF Destroy
  <1>2. /\ Live' = Live \ {o}
        /\ frame' = [x \in Live' |-> frame'[x]]
        /\ \A x \in Live \ {o} : frame'[x] = frame[x]
    BY <1>1 DEF Live
  <1>3. /\ DOMAIN heap' = DOMAIN heap \ {<<o, "frame">>, Data(o)}
        /\ heap' = [x \in DOMAIN heap' |-> heap'[x]]
        /\ \A x \in DOMAIN heap' : heap'[x] = heap[x]
    <2>1. DOMAIN heap \ {frame[o].at, frame[o].matrix.data} = DOMAIN heap \ {<<o, "frame">>, Data(o)}
      <3>1. CASE frame[o].matrix.data = Data(o)
        BY <1>1, <3>1, BlockFacts
      <3>2. CASE frame[o].matrix.data = NULL
        <4>1. Data(o) \notin DOMAIN heap
          BY <1>1, <3>2, BlockFacts
        <4> QED
          BY <1>1, <3>2, <4>1, BlockFacts, ZenonT(30)
      <3> QED
        BY <1>1, <3>1, <3>2, BlockFacts
    <2> QED
      BY <1>1, <2>1
  <1>4. TypeOK'
    <2>1. TypeOK
      BY DEF IInv
    <2>2. /\ Live' \subseteq Object /\ DOMAIN heap' \subseteq Block
          /\ \A x \in Live' : frame'[x] \in FrameType
          /\ \A x \in DOMAIN heap' : heap'[x] \in BlockType
      BY <1>2, <1>3, <2>1, TypeFacts DEF FrameType
    <2> QED
      BY <1>1, <1>2, <1>3, <2>1, <2>2 DEF TypeOK, FrameType, BlockType, Live
  <1>5. BlockInv'
    <2>1. {x \in Live' : frame'[x].matrix.data # NULL} = {x \in Live : frame[x].matrix.data # NULL} \ {o}
      BY <1>2
    <2>2. DOMAIN heap' = leaked \union {<<x, "frame">> : x \in Live'}
              \union {Data(y) : y \in {x \in Live' : frame'[x].matrix.data # NULL}}
      <3>1. ASSUME NEW b
            PROVE  b \in DOMAIN heap' <=>
                      \/ b \in leaked
                      \/ \E x \in Live \ {o} : b = <<x, "frame">>
                      \/ \E y \in {x \in Live : frame[x].matrix.data # NULL} \ {o} : b = Data(y)
        BY <1>1, <1>3, BlockFacts
      <3> DEFINE S == {x \in Live : frame[x].matrix.data # NULL} \ {o}
      <3>2. DOMAIN heap' = leaked \union {<<x, "frame">> : x \in Live \ {o}} \union {Data(y) : y \in S}
        <4> HIDE DEF S
        <4> QED
          BY <3>1 DEF S
      <3> QED
        BY <1>2, <2>1, <3>2
    <2> QED
      BY <1>1, <1>2, <2>2, BlockFacts DEF BlockInv, Data
  <1>6. \A x \in Live' : frame[x].matrix.data # NULL =>
            /\ frame[x].matrix.data \in DOMAIN heap'
            /\ heap'[frame[x].matrix.data] = heap[frame[x].matrix.data]
    <2> SUFFICES ASSUME NEW x \in Live \ {o}, frame[x].matrix.data # NULL
                 PROVE  Data(x) \in DOMAIN heap'
      BY <1>2, <1>3, BlockFacts, SMTT(30)
    <2>1. Data(x) \in DOMAIN heap /\ Data(x) # Data(o) /\ Data(x) # <<o, "frame">>
      BY BlockFacts
    <2> QED
      BY <1>3, <2>1
  <1>7. MatrixInv'
    <2> SUFFICES ASSUME NEW x \in Live' PROVE Sized(frame[x].matrix)'
      BY DEF MatrixInv
    <2>1. Sized(frame[x].matrix)
      BY <1>2 DEF IInv, MatrixInv
    <2> QED
      BY <1>2, <1>6, <2>1 DEF Sized
  <1>8. ShapeTells'
    <2> SUFFICES ASSUME NEW x \in Live' \ tainted
                 PROVE  /\ Readable(frame[x].matrix)'
                        /\ frame'[x].matrix.data # NULL => heap'[frame'[x].matrix.data].content # Garbage
      BY <1>1 DEF ShapeTells
    <2>1. /\ Readable(frame[x].matrix)
          /\ frame[x].matrix.data # NULL => heap[frame[x].matrix.data].content # Garbage
      BY <1>2 DEF IInv, ShapeTells
    <2> QED
      BY <1>2, <1>6, <2>1 DEF Readable, Elements
  <1>9. PointersHome' /\ OpInv' /\ CopyFaithful'
    BY <1>1, <1>2 DEF IInv, PointersHome, OpInv, CopyFaithful, Doing, Idle
  <1> QED
    BY <1>4, <1>5, <1>7, <1>8, <1>9 DEF IInv

\* Some of a struct's members are set, or an assignment goes on or stops.
LEMMA MembersInv ==
  ASSUME IInv,
         \/ \E o \in Object : SetMember(o) \/ WriteThrough(o)
         \/ FromDictThrows \/ FromDictNumber \/ FromDictPointer \/ FromDictMatrix
  PROVE  IInv'
  <1>1. op \in OpType /\ halfway \subseteq Object
    BY OpFacts
  <1>2. \A n \in 0 .. MaxDims, shape \in [1 .. MaxDims -> Dim] : n \in 0 .. MaxDims /\ shape \in Shape
    BY StructsConstants DEF Shape
  <1>3. /\ \A x \in Live : frame[x] \in FrameType
        /\ frame = [x \in Live |-> frame[x]]
    BY TypeFacts DEF IInv, FrameType
  <1>4. op.do = "dict" => op.dst \in Live
    BY DEF IInv, OpInv
  <1>5. ASSUME NEW o \in Object, SetMember(o) PROVE IInv'
    <2>1. /\ op.do = "none" /\ op' = Idle /\ o \in Live /\ UNCHANGED <<halfway, leaked>>
      BY <1>5 DEF SetMember, Idle
    <2>2. PICK n \in 0 .. MaxDims, shape \in [1 .. MaxDims -> Dim],
               data \in {Outside, NULL}, fails \in BOOLEAN :
                 SetMatrix(o, n, shape, data, fails) /\ Taint(o, n, shape, data, data = NULL)
      BY <1>5 DEF SetMember
    <2> QED
      BY <1>2, <2>1, <2>2, ArrayInv
  <1>6. ASSUME NEW o \in Object, WriteThrough(o) PROVE IInv'
    <2>1. /\ op = Idle /\ op.do = "none" /\ o \in Live
          /\ UNCHANGED <<heap, failures, halfway, tainted, leaked>>
      BY <1>6 DEF WriteThrough, Idle
    <2>2. PICK v \in Value : Write(o, v, op)
      BY <1>6 DEF WriteThrough
    <2> QED
      BY <1>1, <2>1, <2>2, WriteInv
  <1>7. CASE FromDictThrows
    <2>1. op' = Idle /\ UNCHANGED <<frame, heap, failures, halfway, tainted, leaked>>
      BY <1>7 DEF FromDictThrows
    <2>2. op' \in OpType
      BY <2>1 DEF Idle, OpType
    <2>3. TypeOK' /\ BlockInv' /\ MatrixInv' /\ ShapeTells' /\ Live' = Live
      BY <1>1, <1>3, <2>1, <2>2, QuietInv
    <2>4. PointersHome' /\ OpInv' /\ CopyFaithful'
      BY <2>1, <2>3 DEF IInv, PointersHome, OpInv, CopyFaithful, Doing, Idle
    <2> QED
      BY <2>3, <2>4 DEF IInv
  <1>8. CASE FromDictNumber
    <2>1. /\ op.do = "dict" /\ op' = [op EXCEPT !.member = 2] /\ op.dst \in Live
          /\ UNCHANGED <<heap, failures, halfway, tainted, leaked>>
      BY <1>4, <1>8 DEF FromDictNumber, Doing, GoOn
    <2>2. PICK v \in Value : frame' = [frame EXCEPT ![op.dst].t = v]
      BY <1>8 DEF FromDictNumber
    <2>3. /\ frame[op.dst].ptr \in Object \union {Wild}
          /\ frame[op.dst] \in FrameType
      BY <1>3, <2>1 DEF FrameType
    <2>4. /\ frame' = [x \in Live |-> IF x = op.dst THEN [frame[op.dst] EXCEPT !.t = v] ELSE frame[x]]
          /\ [frame[op.dst] EXCEPT !.t = v] \in FrameType
      BY <2>1, <2>2, <2>3, WriteFacts
    <2>5. \A x \in Live : /\ frame'[x].at = frame[x].at /\ frame'[x].matrix = frame[x].matrix
                          /\ frame'[x].ptr = frame[x].ptr
                          /\ frame'[x] \in FrameType
      BY <1>3, <2>1, <2>4 DEF FrameType
    <2>6. op' \in OpType /\ op'.do = "dict" /\ op'.dst = op.dst
      BY <1>1, <2>1 DEF OpType
    <2>7. TypeOK' /\ BlockInv' /\ MatrixInv' /\ ShapeTells' /\ Live' = Live
      BY <1>1, <2>1, <2>4, <2>5, <2>6, QuietInv
    <2>8. PointersHome' /\ OpInv' /\ CopyFaithful'
      BY <2>1, <2>5, <2>6, <2>7 DEF IInv, PointersHome, OpInv, CopyFaithful, Doing
    <2> QED
      BY <2>7, <2>8 DEF IInv
  <1>9. CASE FromDictPointer
    <2>1. /\ op.do = "dict" /\ op.dst \in Live
          /\ UNCHANGED <<heap, failures, halfway, tainted, leaked>>
      BY <1>4, <1>9 DEF FromDictPointer, Doing
    <2> DEFINE next == [op EXCEPT !.member = 3]
    <2>2. PICK v \in Value : Write(op.dst, v, next)
      BY <1>9 DEF FromDictPointer
    <2>3. next \in OpType /\ next.do = "dict" /\ next.dst = op.dst
      BY <1>1, <2>1 DEF OpType
    <2> HIDE DEF next
    <2> QED
      BY <2>1, <2>2, <2>3, WriteInv
  <1>10. CASE FromDictMatrix
    <2>1. op.do = "dict" /\ op' = Idle /\ op.dst \in Live /\ UNCHANGED <<halfway, leaked>>
      BY <1>4, <1>10 DEF FromDictMatrix, Doing
    <2>2. PICK n \in 0 .. MaxDims, shape \in [1 .. MaxDims -> Dim], fails \in BOOLEAN :
                 SetMatrix(op.dst, n, shape, Outside, fails) /\ Taint(op.dst, n, shape, Outside, FALSE)
      BY <1>10 DEF FromDictMatrix
    <2>3. Taint(op.dst, n, shape, Outside, Outside = NULL)
      BY <2>2, StructsConstants DEF Taint
    <2> QED
      BY <1>2, <2>1, <2>2, <2>3, ArrayInv
  <1> QED
    BY <1>5, <1>6, <1>7, <1>8, <1>9, <1>10

LEMMA StepIInv == IInv /\ [Next]_vars => IInv'
  <1> SUFFICES ASSUME IInv, [Next]_vars PROVE IInv'
    OBVIOUS
  <1>1. CASE UNCHANGED vars \/ Undefined
    <2>1. UNCHANGED vars
      BY <1>1 DEF Undefined
    <2> QED
      BY <2>1 DEF vars, IInv, TypeOK, BlockInv, MatrixInv, Sized, OpInv, Dst, Src, PointersHome,
         ShapeTells, Readable, Elements, CopyFaithful, Doing, Live
  <1>2. ASSUME NEW o \in Object, Create(o) \/ CreateThrows(o) \/ Destroy(o) PROVE IInv'
    BY <1>2, CreateInv, CreateThrowsInv, DestroyInv
  <1>3. ASSUME NEW o \in Object, SetMember(o) \/ WriteThrough(o) PROVE IInv'
    BY <1>3, MembersInv
  <1>4. ASSUME NEW o \in Object, FromDict(o) \/ \E x \in Object : Copy(o, x) PROVE IInv'
    BY <1>4, BeginInv
  <1>5. ASSUME NEW o \in Object, NEW x \in Object, ReadMembers(o, x) PROVE IInv'
    BY <1>5, ReadMembersInv
  <1>6. CASE CopyNumber \/ CopyPointer \/ ResetPointer
    BY <1>6, CopyMemberInv
  <1>7. CASE CopyMatrix
    BY <1>7, CopyMatrixInv
  <1>8. CASE FromDictThrows \/ FromDictNumber \/ FromDictPointer \/ FromDictMatrix
    BY <1>8, MembersInv
  <1> QED
    BY <1>1, <1>2, <1>3, <1>4, <1>5, <1>6, <1>7, <1>8 DEF Next

----------------------------------------------------------------------------
(* The theorems.                                                           *)

\* Whatever is created, copied, assigned and destroyed, and whichever
\* allocation fails, the invariant holds.
THEOREM Invariance == Spec => []IInv
  <1> QED
    BY InitIInv, StepIInv, PTL DEF Spec

\* An object's pointer points to the object itself (Frame's constructor and
\* operator=), unless a copy into the object threw in the middle; memory that
\* was freed is only reached through an object of that kind, and a null matrix
\* only where a matrix was never properly set.
THEOREM PointersCorrect == Spec => []PointersHome
  <1>1. IInv => PointersHome
    BY DEF IInv
  <1> QED
    BY <1>1, Invariance, PTL

\* Matrix::from and Field::clear neither leak nor share blocks, on no path of
\* failures; only a constructor that throws leaves its block behind.
THEOREM BlocksCorrect == Spec => []BlocksOwned
  <1>1. IInv => BlocksOwned
    <2> SUFFICES ASSUME IInv PROVE BlocksOwned
      OBVIOUS
    <2>1. \A o \in Live : o \in Object /\ frame[o].at = <<o, "frame">>
      BY BlockFacts
    <2>2. DOMAIN heap = leaked \union {frame[o].at : o \in Live}
                       \union ({frame[o].matrix.data : o \in Live} \ {NULL})
      <3>1. {<<x, "frame">> : x \in Live} = {frame[o].at : o \in Live}
        BY <2>1
      <3>2. {Data(y) : y \in {x \in Live : frame[x].matrix.data # NULL}}
              = {frame[o].matrix.data : o \in Live} \ {NULL}
        BY <2>1, BlockFacts
      <3> QED
        BY <3>1, <3>2, BlockFacts
    <2>3. ASSUME NEW o \in Live
          PROVE  /\ frame[o].at \notin leaked \union {frame[x].matrix.data : x \in Live}
                 /\ frame[o].matrix.data \notin leaked
      <3>1. NULL \notin leaked /\ <<o, "frame">> \notin leaked /\ Data(o) \notin leaked
        BY <2>1, BlockFacts
      <3>2. ASSUME NEW x \in Live PROVE frame[o].at # frame[x].matrix.data
        <4>1. frame[x].matrix.data \in {NULL, Data(x)}
          BY BlockFacts
        <4>2. <<o, "frame">> # NULL /\ <<o, "frame">> # Data(x)
          BY <2>1, BlockFacts
        <4> QED
          BY <2>1, <4>1, <4>2
      <3>3. frame[o].matrix.data \in {NULL, Data(o)}
        BY BlockFacts
      <3> QED
        BY <2>1, <3>1, <3>2, <3>3
    <2>4. ASSUME NEW o \in Live, NEW x \in Live \ {o}
          PROVE  /\ frame[x].at # frame[o].at
                 /\ frame[x].matrix.data # NULL => frame[x].matrix.data # frame[o].matrix.data
      BY <2>1, BlockFacts
    <2> QED
      BY <2>2, <2>3, <2>4 DEF BlocksOwned, IInv
  <1> QED
    BY <1>1, Invariance, PTL

\* A matrix holds as many elements as its shape tells of, whatever the width of
\* size_t, unless it is one of those the history names.
THEOREM ShapeCorrect == Spec => []ShapeTells
  <1>1. IInv => ShapeTells
    BY DEF IInv
  <1> QED
    BY <1>1, Invariance, PTL

\* A member-wise copy that came to its end equals its source.
THEOREM CopyCorrect == Spec => []CopyFaithful
  <1>1. IInv => CopyFaithful
    BY DEF IInv
  <1> QED
    BY <1>1, Invariance, PTL
=============================================================================
