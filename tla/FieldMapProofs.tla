--------------------------- MODULE FieldMapProofs ---------------------------
(***************************************************************************)
(* Proofs about FieldMap for any names, any number of blocks, lists of any *)
(* length and any number of operations and of failed allocations.          *)
(***************************************************************************)
EXTENDS FieldMap, FiniteSetTheorems, SequenceTheorems, WellFoundedInduction, TLAPS

----------------------------------------------------------------------------
(* The inductive invariant.                                                *)

IsBlock(b) ==
  /\ b = [type |-> b.type, parent |-> b.parent, slots |-> b.slots, fields |-> b.fields]
  /\ b.type \in Type /\ b.parent \in Block \union {NULL} /\ b.slots \in Seq(Index)
  /\ b.fields \in [DOMAIN b.fields -> FieldType]
  /\ IF b.type = "list" THEN b.fields \in Seq(FieldType) /\ Len(b.fields) <= MaxLength
     ELSE DOMAIN b.fields \subseteq Index
  /\ b.type # "store" => b.slots = <<>>
  /\ b.type \notin {"store", "list"} => b.fields = <<>>

\* a block that a field refers to has its type, calls its store or list the
\* parent, and is in no other field of it
Holds(h, o, k) ==
  LET f == h[o].fields[k]
  IN  f.data # NULL =>
        /\ f.data \in DOMAIN h \ {Root} /\ h[f.data].parent = o /\ h[f.data].type = f.type
        /\ \A l \in DOMAIN h[o].fields : h[o].fields[l].data = f.data => l = k

\* the parents lead to the root: no blocks have their parents among themselves
Rooted(h) ==
  \A S \in SUBSET (DOMAIN h \ {Root}) : S # {} => \E b \in S : h[b].parent \notin S

HeapInv(h) ==
  /\ h = [o \in DOMAIN h |-> h[o]] /\ DOMAIN h \subseteq Block
  /\ Root \in DOMAIN h /\ h[Root].type = "store"
  /\ \A o \in DOMAIN h : IsBlock(h[o])
  /\ \A o \in DOMAIN h : \A k \in DOMAIN h[o].fields : Holds(h, o, k)
  /\ \A b \in DOMAIN h \ {Root} : h[b].parent \in DOMAIN h /\ b \in Children(h, h[b].parent)
  /\ Rooted(h)

\* an index of data belongs to the name there; a name may have none after a failure
NameInv ==
  /\ map \in [DOMAIN map -> Index] /\ DOMAIN map \subseteq Name /\ data \in Seq(Name)
  /\ \A i \in DOMAIN data : data[i] \in DOMAIN map /\ map[data[i]] = i
  /\ op.pc = "string" =>
       op.name \in DOMAIN map /\ map[op.name] = Len(data) + 1 /\ op.name \notin Range(data)

Copying == op.pc \in {"copy", "copy field", "copy construct"}

OpInv ==
  /\ op \in OpType
  /\ op.pc \in {"intern", "string", "emplace", "slot"} => op.at \in Stores
  /\ op.pc \in {"emplace", "slot"} => op.key \in Index
  /\ op.pc = "construct" => op.at \in Stores \union Lists
  /\ op.pc \in {"slot", "construct"} => op.key \in DOMAIN heap[op.at].fields
  /\ op.pc \in {"copy field", "copy construct"} =>
       /\ ~ AtEnd(Running) /\ op.from = heap[Running.src].slots[Running.i] /\ op.key = op.from
  /\ op.pc = "copy construct" => op.key \in DOMAIN heap[Running.dst].fields

\* how many slots of its source the j-th frame has appended
Appended(j) ==
  IF j = Len(frames) /\ op.pc # "copy" THEN frames[j].i ELSE frames[j].i - 1

\* the stores that are copied and their copies are in trees apart, each frame
\* has a destination of its own, and has copied a part of the slots
FrameOK(j) ==
  /\ frames[j].dst \in Stores /\ frames[j].src \in Stores
  /\ frames[j].dst \in Tree(heap, frames[1].dst)
  /\ frames[j].src \in Tree(heap, frames[1].src)
  /\ \A l \in DOMAIN frames : frames[l].dst = frames[j].dst => l = j
  /\ frames[j].i <= Len(heap[frames[j].src].slots) + 1
  /\ heap[frames[j].dst].slots = SubSeq(heap[frames[j].src].slots, 1, Appended(j))

FrameInv ==
  /\ frames \in Seq([dst : Block, src : Block, i : Nat \ {0}])
  /\ frames # <<>> <=> Copying
  /\ frames # <<>> =>
       /\ frames[1].dst \notin Tree(heap, frames[1].src)
       /\ frames[1].src \notin Tree(heap, frames[1].dst)
  /\ \A j \in DOMAIN frames : FrameOK(j)

\* B relates blocks and copies of them that nothing changes any more: what is
\* below them is in B as well
FieldAlike(h, B, a, b, k) ==
  /\ k \in DOMAIN h[a].fields \intersect DOMAIN h[b].fields
  /\ h[a].fields[k].type = h[b].fields[k].type
  /\ h[a].fields[k].data # NULL
  /\ h[a].fields[k].type # "void" => <<h[a].fields[k].data, h[b].fields[k].data>> \in B

BlocksAlike(h, B, a, b) ==
  /\ h[a].type = h[b].type /\ h[a].slots = h[b].slots
  /\ h[a].type = "list" => h[a].fields = <<>> /\ h[b].fields = <<>>
  /\ \A k \in Range(h[a].slots) : FieldAlike(h, B, a, b, k)

Alike(h, B) ==
  B \subseteq (DOMAIN h) \X (DOMAIN h) /\ \A p \in B : BlocksAlike(h, B, p[1], p[2])

\* the fields of the first slots of the j-th frame's source have been copied,
\* but for what the frames above it are copying
Above(j) == {<<frames[l].dst, frames[l].src>> : l \in j + 1 .. Len(frames)}
SlotDone(B, j, m) ==
  FieldAlike(heap, B \union Above(j), frames[j].dst, frames[j].src, heap[frames[j].src].slots[m])

Finished(B) ==
  /\ Alike(heap, B)
  /\ \A p \in B : \A j \in DOMAIN frames : p[1] # frames[j].dst /\ p[2] # frames[j].dst
  /\ \A j \in DOMAIN frames : \A m \in 1 .. frames[j].i - 1 : SlotDone(B, j, m)

CopyInv == \E B : Finished(B)

\* without failures names are complete, and each field has data where its type
\* says so, a name, and a slot
NamesComplete ==
  \A n \in DOMAIN map :
    (op.pc = "string" /\ n = op.name) \/ (map[n] \in DOMAIN data /\ data[map[n]] = n)

DataComplete ==
  \A o \in DOMAIN heap : \A k \in DOMAIN heap[o].fields :
    heap[o].fields[k].type # "void" => heap[o].fields[k].data # NULL

SlotsOf(s) == Range(heap[s].slots)
StoreComplete(s) ==
  /\ IsInjective(heap[s].slots) /\ DOMAIN heap[s].fields \subseteq DOMAIN data
  /\ SlotsOf(s) \subseteq DOMAIN data
  /\ IF op.pc = "slot" /\ s = op.at
     THEN op.key \notin SlotsOf(s) /\ DOMAIN heap[s].fields = SlotsOf(s) \union {op.key}
     ELSE IF op.pc = "copy field" /\ s = Running.dst
     THEN op.key \notin DOMAIN heap[s].fields /\ SlotsOf(s) = DOMAIN heap[s].fields \union {op.key}
     ELSE SlotsOf(s) = DOMAIN heap[s].fields

Complete ==
  failures = 0 =>
    /\ op # Undefined /\ NamesComplete /\ DataComplete
    /\ op.pc = "emplace" => op.key \in DOMAIN data
    /\ \A s \in Stores : StoreComplete(s)

IInv ==
  /\ HeapInv(heap) /\ NameInv /\ OpInv /\ FrameInv /\ Complete
  /\ calls \in 0 .. MaxCalls /\ failures \in 0 .. MaxFailures

----------------------------------------------------------------------------
(* Induction over the naturals, stated for sets.                           *)

LEMMA NatMin ==
  ASSUME NEW T, T \subseteq Nat, T # {}
  PROVE  \E m \in T : \A n \in T : m <= n
  <1>1. PICK x \in T : \A y \in T : ~ (<<y, x>> \in OpToRel(<, Nat))
    BY NatLessThanWellFounded, WFMin, Zenon
  <1>2. \A y \in T : y < x => <<y, x>> \in OpToRel(<, Nat)
    BY DEF OpToRel
  <1>3. \A y \in T : ~ (y < x)
    BY <1>1, <1>2, Zenon
  <1> QED
    BY <1>3

LEMMA SetInduction ==
  ASSUME NEW S, 0 \in S, \A n \in Nat : n \in S => n + 1 \in S
  PROVE  Nat \subseteq S
  <1> DEFINE T == Nat \ S
  <1> SUFFICES ASSUME T # {} PROVE FALSE
    OBVIOUS
  <1>1. PICK m \in T : \A n \in T : m <= n
    BY NatMin
  <1>2. m # 0 /\ m - 1 \in Nat
    BY <1>1
  <1>3. m - 1 \in S
    BY <1>1, <1>2
  <1> QED
    BY <1>1, <1>2, <1>3

----------------------------------------------------------------------------
(* Sequences.                                                              *)

LEMMA RemoveAtFacts ==
  ASSUME NEW T, NEW s \in Seq(T), NEW i \in DOMAIN s
  PROVE  /\ RemoveAt(s, i) \in Seq(T)
         /\ Len(RemoveAt(s, i)) = Len(s) - 1
         /\ \A j \in 1 .. Len(s) - 1 : RemoveAt(s, i)[j] = IF j < i THEN s[j] ELSE s[j + 1]
  <1> DEFINE a == SubSeq(s, 1, i - 1)
             b == SubSeq(s, i + 1, Len(s))
  <1>0. i \in 1 .. Len(s) /\ Len(s) \in Nat /\ \A j \in 1 .. Len(s) : s[j] \in T
    OBVIOUS
  <1>1. a \in Seq(T) /\ Len(a) = i - 1 /\ \A j \in 1 .. i - 1 : a[j] = s[j]
    <2>1. \A j \in 1 .. i - 1 : s[j] \in T
      BY <1>0
    <2>2. /\ SubSeq(s, 1, i - 1) \in Seq(T)
          /\ Len(SubSeq(s, 1, i - 1)) = IF 1 <= i - 1 THEN (i - 1) - 1 + 1 ELSE 0
          /\ \A j \in 1 .. (i - 1) - 1 + 1 : SubSeq(s, 1, i - 1)[j] = s[1 + j - 1]
      BY <1>0, <2>1, SubSeqProperties
    <2> QED
      BY <1>0, <2>2
  <1>2. b \in Seq(T) /\ Len(b) = Len(s) - i /\ \A j \in 1 .. Len(s) - i : b[j] = s[i + j]
    <2>1. \A j \in i + 1 .. Len(s) : s[j] \in T
      BY <1>0
    <2>2. /\ SubSeq(s, i + 1, Len(s)) \in Seq(T)
          /\ Len(SubSeq(s, i + 1, Len(s))) =
               IF i + 1 <= Len(s) THEN Len(s) - (i + 1) + 1 ELSE 0
          /\ \A j \in 1 .. Len(s) - (i + 1) + 1 :
               SubSeq(s, i + 1, Len(s))[j] = s[(i + 1) + j - 1]
      BY <1>0, <2>1, SubSeqProperties
    <2> QED
      BY <1>0, <2>2
  <1> HIDE DEF a, b
  <1>3. /\ a \o b \in Seq(T)
        /\ Len(a \o b) = Len(a) + Len(b)
        /\ \A j \in 1 .. Len(a) + Len(b) :
             (a \o b)[j] = IF j <= Len(a) THEN a[j] ELSE b[j - Len(a)]
    BY <1>1, <1>2, ConcatProperties
  <1>4. RemoveAt(s, i) = a \o b
    BY DEF RemoveAt, a, b
  <1>6. Len(a) = i - 1 /\ Len(a) + Len(b) = Len(s) - 1
    BY <1>0, <1>1, <1>2
  <1>7. \A j \in 1 .. Len(s) - 1 : (a \o b)[j] = IF j <= i - 1 THEN a[j] ELSE b[j - (i - 1)]
    BY <1>3, <1>6
  <1>5. ASSUME NEW j \in 1 .. Len(s) - 1
        PROVE  (a \o b)[j] = IF j < i THEN s[j] ELSE s[j + 1]
    <2>1. (a \o b)[j] = IF j <= i - 1 THEN a[j] ELSE b[j - (i - 1)]
      BY <1>7
    <2>2. CASE j < i
      BY <1>0, <1>1, <2>1, <2>2
    <2>3. CASE ~ (j < i)
      <3>1. j - (i - 1) \in 1 .. Len(s) - i /\ i + (j - (i - 1)) = j + 1
        BY <1>0, <2>3
      <3> QED
        BY <1>0, <1>2, <2>1, <2>3, <3>1, SMTT(30)
    <2> QED
      BY <2>2, <2>3
  <1> QED
    BY <1>3, <1>4, <1>5, <1>6

\* s with e before its i-th element
Inserted(g, s, i, e) ==
  \A j \in 1 .. Len(s) + 1 : g[j] = IF j < i THEN s[j] ELSE IF j = i THEN e ELSE s[j - 1]

LEMMA InsertAtFacts ==
  ASSUME NEW T, NEW s \in Seq(T), NEW i \in 1 .. Len(s) + 1, NEW e \in T
  PROVE  /\ InsertAt(s, i, e) \in Seq(T)
         /\ Len(InsertAt(s, i, e)) = Len(s) + 1
         /\ Inserted(InsertAt(s, i, e), s, i, e)
  <1> DEFINE a == SubSeq(s, 1, i - 1)
             b == SubSeq(s, i, Len(s))
             m == a \o <<e>>
  <1>0. i \in 1 .. Len(s) + 1 /\ Len(s) \in Nat /\ \A j \in 1 .. Len(s) : s[j] \in T
    OBVIOUS
  <1>1. a \in Seq(T) /\ Len(a) = i - 1 /\ \A j \in 1 .. i - 1 : a[j] = s[j]
    <2>1. \A j \in 1 .. i - 1 : s[j] \in T
      BY <1>0
    <2>2. /\ SubSeq(s, 1, i - 1) \in Seq(T)
          /\ Len(SubSeq(s, 1, i - 1)) = IF 1 <= i - 1 THEN (i - 1) - 1 + 1 ELSE 0
          /\ \A j \in 1 .. (i - 1) - 1 + 1 : SubSeq(s, 1, i - 1)[j] = s[1 + j - 1]
      BY <1>0, <2>1, SubSeqProperties
    <2> QED
      BY <1>0, <2>2
  <1>2. /\ b \in Seq(T) /\ Len(b) = Len(s) - i + 1
        /\ \A j \in 1 .. Len(s) - i + 1 : b[j] = s[i + j - 1]
    <2>1. \A j \in i .. Len(s) : s[j] \in T
      BY <1>0
    <2>2. /\ SubSeq(s, i, Len(s)) \in Seq(T)
          /\ Len(SubSeq(s, i, Len(s))) = IF i <= Len(s) THEN Len(s) - i + 1 ELSE 0
          /\ \A j \in 1 .. Len(s) - i + 1 : SubSeq(s, i, Len(s))[j] = s[i + j - 1]
      BY <1>0, <2>1, SubSeqProperties
    <2> QED
      BY <1>0, <2>2
  <1>3. InsertAt(s, i, e) = m \o b
    BY DEF InsertAt
  <1> HIDE DEF a, b
  <1>4. m \in Seq(T) /\ Len(m) = i /\ \A j \in 1 .. i : m[j] = IF j < i THEN s[j] ELSE e
    <2>1. <<e>> \in Seq(T) /\ Len(<<e>>) = 1 /\ <<e>>[1] = e
      OBVIOUS
    <2>2. /\ a \o <<e>> \in Seq(T)
          /\ Len(a \o <<e>>) = Len(a) + 1
          /\ \A j \in 1 .. Len(a) + 1 :
               (a \o <<e>>)[j] = IF j <= Len(a) THEN a[j] ELSE <<e>>[j - Len(a)]
      BY <1>1, <2>1, ConcatProperties
    <2> QED
      BY <1>0, <1>1, <2>1, <2>2
  <1> HIDE DEF m
  <1>5. /\ m \o b \in Seq(T)
        /\ Len(m \o b) = Len(m) + Len(b)
        /\ \A j \in 1 .. Len(m) + Len(b) :
             (m \o b)[j] = IF j <= Len(m) THEN m[j] ELSE b[j - Len(m)]
    BY <1>2, <1>4, ConcatProperties
  <1>6. ASSUME NEW j \in 1 .. Len(s) + 1
        PROVE  (m \o b)[j] = IF j < i THEN s[j] ELSE IF j = i THEN e ELSE s[j - 1]
    <2>1. (m \o b)[j] = IF j <= i THEN m[j] ELSE b[j - i]
      BY <1>0, <1>2, <1>4, <1>5
    <2>2. CASE j <= i
      BY <1>0, <1>4, <2>1, <2>2
    <2>3. CASE ~ (j <= i)
      <3>1. j - i \in 1 .. Len(s) - i + 1 /\ i + (j - i) - 1 = j - 1 /\ i \in Nat
        BY <1>0, <2>3
      <3> QED
        BY <1>0, <1>2, <2>1, <2>3, <3>1
    <2> QED
      BY <2>2, <2>3
  <1>7. Inserted(m \o b, s, i, e)
    BY <1>6 DEF Inserted
  <1>8. m \o b \in Seq(T) /\ Len(m \o b) = Len(s) + 1
    BY <1>0, <1>2, <1>4, <1>5
  <1> QED
    BY <1>3, <1>7, <1>8

----------------------------------------------------------------------------
(* The tree below a block: what the block leads to, and no more.           *)

Linked(h) ==
  DOMAIN h \subseteq Block /\ \A x \in DOMAIN h : Children(h, x) \subseteq DOMAIN h

Closed(h, P) == \A x \in P : Children(h, x) \subseteq P

Reach(h, X) == X \union UNION {Children(h, x) : x \in X}

IsWithin(f, n, h, o) == f = [i \in 0 .. n |-> IF i = 0 THEN {o} ELSE Reach(h, f[i - 1])]

LEMMA WithinExists ==
  ASSUME NEW h, NEW o, NEW n \in Nat
  PROVE  \E f : IsWithin(f, n, h, o)
  <1> DEFINE S == {m \in Nat : \E f : IsWithin(f, m, h, o)}
  <1>1. 0 \in S
    <2> DEFINE f == [i \in 0 .. 0 |-> {o}]
    <2>1. \A i \in 0 .. 0 : f[i] = IF i = 0 THEN {o} ELSE Reach(h, f[i - 1])
      OBVIOUS
    <2>2. f = [i \in 0 .. 0 |-> f[i]]
      OBVIOUS
    <2> HIDE DEF f
    <2>3. IsWithin(f, 0, h, o)
      BY <2>1, <2>2 DEF IsWithin
    <2> QED
      BY <2>3
  <1>2. ASSUME NEW m \in Nat, m \in S PROVE m + 1 \in S
    <2>1. PICK f : IsWithin(f, m, h, o)
      BY <1>2
    <2>2. \A i \in 0 .. m : f[i] = IF i = 0 THEN {o} ELSE Reach(h, f[i - 1])
      BY <2>1 DEF IsWithin
    <2> DEFINE g == [i \in 0 .. m + 1 |-> IF i = m + 1 THEN Reach(h, f[m]) ELSE f[i]]
    <2>3. \A i \in 0 .. m : g[i] = f[i]
      OBVIOUS
    <2>4. g[m + 1] = Reach(h, g[m])
      BY <2>3
    <2>5. g = [i \in 0 .. m + 1 |-> g[i]]
      OBVIOUS
    <2> HIDE DEF g
    <2>6. \A i \in 0 .. m + 1 : g[i] = IF i = 0 THEN {o} ELSE Reach(h, g[i - 1])
      <3> SUFFICES ASSUME NEW i \in 0 .. m + 1
                   PROVE  g[i] = IF i = 0 THEN {o} ELSE Reach(h, g[i - 1])
        OBVIOUS
      <3>1. CASE i = m + 1
        BY <2>4, <3>1
      <3>2. CASE i \in 0 .. m
        <4>1. i # 0 => i - 1 \in 0 .. m
          BY <3>2
        <4> QED
          BY <2>2, <2>3, <3>2, <4>1
      <3> QED
        BY <3>1, <3>2
    <2>7. IsWithin(g, m + 1, h, o)
      BY <2>5, <2>6 DEF IsWithin
    <2> QED
      BY <2>7
  <1> HIDE DEF S
  <1>3. n \in S
    BY <1>1, <1>2, SetInduction
  <1> QED
    BY <1>3 DEF S

LEMMA TreeFacts ==
  ASSUME NEW h, Linked(h), NEW o \in DOMAIN h
  PROVE  /\ o \in Tree(h, o) /\ Tree(h, o) \subseteq DOMAIN h /\ Closed(h, Tree(h, o))
         /\ \A P : o \in P /\ Closed(h, P) => Tree(h, o) \subseteq P
  <1> DEFINE D == DOMAIN h
             c == Cardinality(Object)
             f == CHOOSE f : f = [n \in 0 .. c |->
                    IF n = 0 THEN {o}
                    ELSE f[n - 1] \union UNION {Children(h, x) : x \in f[n - 1]}]
  <1>1. c \in Nat /\ IsFiniteSet(D) /\ Cardinality(D) \in Nat /\ Cardinality(D) <= c + 1
    <2>1. /\ c \in Nat /\ IsFiniteSet(Block) /\ Cardinality(Block) = c + 1
      BY ObjectAssumption, FS_CardinalityType, FS_AddElement DEF Block
    <2>2. D \in SUBSET Block
      BY DEF Linked
    <2> HIDE DEF D
    <2>3. IsFiniteSet(D) /\ Cardinality(D) <= Cardinality(Block)
      BY <2>1, <2>2, FS_Subset
    <2> QED
      BY <2>1, <2>3, FS_CardinalityType
  <1>2. Tree(h, o) = f[c]
    BY Zenon DEF Tree
  <1>3. IsWithin(f, c, h, o)
    <2>1. \E g : g = [n \in 0 .. c |->
                    IF n = 0 THEN {o}
                    ELSE g[n - 1] \union UNION {Children(h, x) : x \in g[n - 1]}]
      <3> HIDE DEF c
      <3>1. \E g : IsWithin(g, c, h, o)
        BY <1>1, WithinExists, Zenon
      <3> QED
        BY <3>1 DEF IsWithin, Reach
    <2>2. f = [n \in 0 .. c |->
                    IF n = 0 THEN {o}
                    ELSE f[n - 1] \union UNION {Children(h, x) : x \in f[n - 1]}]
      BY <2>1, Zenon
    <2> HIDE DEF f, c
    <2> QED
      BY <2>2 DEF IsWithin, Reach
  <1> HIDE DEF f, c
  <1>4. f[0] = {o} /\ \A n \in 1 .. c : f[n] = Reach(h, f[n - 1])
    <2>1. \A n \in 0 .. c : f[n] = IF n = 0 THEN {o} ELSE Reach(h, f[n - 1])
      BY <1>3 DEF IsWithin
    <2>2. 0 \in 0 .. c
      BY <1>1
    <2> QED
      BY <1>1, <2>1, <2>2
  <1>5. ASSUME NEW P, o \in P, Closed(h, P) PROVE f[c] \subseteq P
    <2> DEFINE S == {n \in Nat : n <= c => f[n] \subseteq P}
    <2>1. 0 \in S
      BY <1>4, <1>5
    <2>2. ASSUME NEW n \in Nat, n \in S PROVE n + 1 \in S
      <3> SUFFICES ASSUME n + 1 <= c PROVE f[n + 1] \subseteq P
        OBVIOUS
      <3>1. f[n] \subseteq P
        BY <1>1, <2>2
      <3>2. f[n + 1] = Reach(h, f[n])
        BY <1>1, <1>4
      <3> QED
        BY <1>5, <3>1, <3>2 DEF Reach, Closed
    <2> HIDE DEF S
    <2>3. c \in S
      BY <1>1, <2>1, <2>2, SetInduction
    <2> QED
      BY <1>1, <2>3 DEF S
  <1>6. ASSUME NEW n \in 0 .. c PROVE f[n] \subseteq D /\ o \in f[n]
    <2> DEFINE S == {m \in Nat : m <= c => f[m] \subseteq D /\ o \in f[m]}
    <2>1. 0 \in S
      BY <1>4
    <2>2. ASSUME NEW m \in Nat, m \in S PROVE m + 1 \in S
      <3> SUFFICES ASSUME m + 1 <= c PROVE f[m + 1] \subseteq D /\ o \in f[m + 1]
        OBVIOUS
      <3>1. f[m + 1] = Reach(h, f[m])
        BY <1>1, <1>4
      <3>2. f[m] \subseteq D /\ o \in f[m]
        BY <1>1, <2>2
      <3> QED
        BY <3>1, <3>2 DEF Reach, Linked
    <2> HIDE DEF S
    <2>3. n \in S
      BY <1>1, <2>1, <2>2, SetInduction
    <2> QED
      BY <1>1, <2>3 DEF S
  <1>7. Closed(h, f[c])
    <2> DEFINE done(n) == Reach(h, f[n]) \subseteq f[n]
               S == {n \in Nat : n <= c => done(n) \/ Cardinality(f[n]) >= n + 1}
    <2>0. 0 \in S
      <3>1. Cardinality(f[0]) = 1
        BY <1>4, FS_Singleton
      <3> QED
        BY <3>1
    <2>1. ASSUME NEW n \in Nat, n \in S PROVE n + 1 \in S
      <3> SUFFICES ASSUME n + 1 <= c PROVE done(n + 1) \/ Cardinality(f[n + 1]) >= n + 2
        OBVIOUS
      <3>1. f[n + 1] = Reach(h, f[n])
        BY <1>1, <1>4
      <3>2. done(n) \/ Cardinality(f[n]) >= n + 1
        BY <1>1, <2>1
      <3>3. CASE done(n)
        <4>1. f[n + 1] = f[n]
          BY <3>1, <3>3 DEF Reach
        <4> QED
          BY <3>3, <4>1
      <3>4. CASE ~ done(n) /\ Cardinality(f[n]) >= n + 1
        <4>1. PICK y \in Reach(h, f[n]) : y \notin f[n]
          BY <3>4
        <4>2. f[n] \subseteq D /\ f[n + 1] \subseteq D
          BY <1>1, <1>6
        <4>3. IsFiniteSet(f[n]) /\ IsFiniteSet(f[n + 1])
          BY <1>1, <4>2, FS_Subset
        <4>4. Cardinality(f[n] \union {y}) = Cardinality(f[n]) + 1
          BY <4>1, <4>3, FS_AddElement
        <4>5. Cardinality(f[n] \union {y}) <= Cardinality(f[n + 1])
          <5>1. f[n] \union {y} \subseteq f[n + 1]
            BY <3>1, <4>1 DEF Reach
          <5> QED
            BY <4>3, <5>1, FS_Subset
        <4>6. Cardinality(f[n]) \in Nat /\ Cardinality(f[n + 1]) \in Nat
          BY <4>3, FS_CardinalityType
        <4> QED
          BY <3>4, <4>4, <4>5, <4>6
      <3> QED
        BY <3>2, <3>3, <3>4
    <2>2. c \in S
      <3> HIDE DEF S
      <3> QED
        BY <1>1, <2>0, <2>1, SetInduction
    <2>3. CASE Cardinality(f[c]) >= c + 1
      <3>0. f[c] \in SUBSET D
        BY <1>1, <1>6
      <3>1. Cardinality(f[c]) <= Cardinality(D) /\ Cardinality(f[c]) \in Nat
        BY <1>1, <3>0, FS_Subset, FS_CardinalityType
      <3>2. Cardinality(f[c]) = Cardinality(D)
        BY <1>1, <2>3, <3>1
      <3>3. f[c] = D
        BY <1>1, <3>0, <3>2, FS_Subset
      <3> QED
        BY <3>3 DEF Closed, Linked
    <2>4. CASE done(c)
      BY <2>4 DEF Reach, Closed
    <2> QED
      BY <1>1, <2>2, <2>3, <2>4
  <1> QED
    BY <1>1, <1>2, <1>5, <1>6, <1>7

----------------------------------------------------------------------------
(* The heap: parents and children, and what may be done to one block.      *)

LEMMA HeapFacts ==
  ASSUME NEW h, HeapInv(h)
  PROVE  /\ Linked(h)
         /\ \A o \in DOMAIN h : \A c \in Children(h, o) :
              c \in DOMAIN h \ {Root} /\ h[c].parent = o
         /\ \A c \in DOMAIN h \ {Root} :
              h[c].parent \in DOMAIN h /\ c \in Children(h, h[c].parent)
  <1>1. ASSUME NEW o \in DOMAIN h, NEW c \in Children(h, o)
        PROVE  c \in DOMAIN h \ {Root} /\ h[c].parent = o
    <2>1. PICK k \in DOMAIN h[o].fields : c = h[o].fields[k].data /\ c # NULL
      BY <1>1 DEF Children
    <2>2. Holds(h, o, k)
      BY DEF HeapInv
    <2> QED
      BY <2>1, <2>2 DEF Holds
  <1>2. DOMAIN h \subseteq Block
    BY DEF HeapInv
  <1>3. \A c \in DOMAIN h \ {Root} : h[c].parent \in DOMAIN h /\ c \in Children(h, h[c].parent)
    BY DEF HeapInv
  <1>4. Linked(h)
    BY <1>1, <1>2 DEF Linked
  <1> QED
    BY <1>1, <1>3, <1>4

\* Below a block, the parents are in its tree.
LEMMA TreeParents ==
  ASSUME NEW h, HeapInv(h), NEW o \in DOMAIN h, NEW x \in Tree(h, o), x # o
  PROVE  x \in DOMAIN h \ {Root} /\ h[x].parent \in Tree(h, o)
  <1> DEFINE T == Tree(h, o)
             P == {y \in T : y = o \/ (y # Root /\ h[y].parent \in T)}
  <1>1. o \in T /\ T \subseteq DOMAIN h /\ Closed(h, T)
    BY HeapFacts, TreeFacts
  <1>2. Closed(h, P)
    <2> SUFFICES ASSUME NEW y \in P, NEW c \in Children(h, y) PROVE c \in P
      BY DEF Closed
    <2>1. y \in T /\ y \in DOMAIN h
      BY <1>1
    <2>2. c \in T
      BY <1>1, <2>1 DEF Closed
    <2>3. c \in DOMAIN h \ {Root} /\ h[c].parent = y
      BY <2>1, HeapFacts
    <2> QED
      BY <2>1, <2>2, <2>3
  <1>3. o \in P
    BY <1>1
  <1> HIDE DEF P
  <1>4. T \subseteq P
    BY <1>2, <1>3, HeapFacts, TreeFacts
  <1>5. x \in P
    BY <1>4
  <1> QED
    BY <1>1, <1>5 DEF P

\* No block is in the tree below itself.
LEMMA NoCycle ==
  ASSUME NEW h, HeapInv(h), NEW o \in DOMAIN h, o # Root
  PROVE  h[o].parent \notin Tree(h, o)
  <1> SUFFICES ASSUME h[o].parent \in Tree(h, o) PROVE FALSE
    OBVIOUS
  <1> DEFINE T == Tree(h, o)
  <1>1. o \in T /\ T \subseteq DOMAIN h
    BY HeapFacts, TreeFacts
  <1>2. \A x \in T : x # Root /\ h[x].parent \in T
    BY TreeParents
  <1> HIDE DEF T
  <1>3. T \in SUBSET (DOMAIN h \ {Root}) /\ T # {}
    BY <1>1, <1>2
  <1>4. PICK b \in T : h[b].parent \notin T
    BY <1>3 DEF HeapInv, Rooted
  <1> QED
    BY <1>2, <1>4

Filled(b, F, S) == [type |-> b.type, parent |-> b.parent, slots |-> S, fields |-> F]
Data(F) == {F[k].data : k \in DOMAIN F} \ {NULL}

\* Block o has become b, and the blocks in R are freed.
Replaced(h, o, b, R) == [x \in DOMAIN h \ R |-> IF x = o THEN b ELSE h[x]]

\* The fields refer to blocks of their types, each to one of its own.
Typed(h, F) ==
  \A k \in DOMAIN F : F[k].data # NULL =>
    h[F[k].data].type = F[k].type /\ \A l \in DOMAIN F : F[l].data = F[k].data => l = k

\* What may be freed when block o changes: what is below some of its fields.
Freed(h, o, R) ==
  /\ R \subseteq DOMAIN h /\ o \notin R /\ Root \notin R /\ Closed(h, R)
  /\ \A x \in R : h[x].parent \in R \union {o}

LEMMA PruneOK ==
  ASSUME NEW h, HeapInv(h), NEW o \in DOMAIN h, NEW F, NEW S, IsBlock(Filled(h[o], F, S)),
         NEW R, Freed(h, o, R), Data(F) = Children(h, o) \ R, Typed(h, F)
  PROVE  HeapInv(Replaced(h, o, Filled(h[o], F, S), R))
  <1> DEFINE b == Filled(h[o], F, S)
             g == Replaced(h, o, b, R)
  <1>1. /\ DOMAIN g = DOMAIN h \ R
        /\ g = [x \in DOMAIN g |-> g[x]]
        /\ g[o] = b
        /\ \A x \in DOMAIN g : x # o => g[x] = h[x]
        /\ o \in DOMAIN g
    BY DEF Replaced, Freed
  <1>2. \A x \in DOMAIN g : g[x].parent = h[x].parent /\ g[x].type = h[x].type
    BY <1>1 DEF Filled
  <1>3. g[o].fields = F
    BY <1>1 DEF Filled
  <1> HIDE DEF g
  <1>4. DOMAIN g \subseteq Block /\ Root \in DOMAIN g /\ g[Root].type = "store"
    BY <1>1, <1>2 DEF HeapInv, Freed
  <1>5. \A x \in DOMAIN g : IsBlock(g[x])
    BY <1>1 DEF HeapInv
  <1>6. ASSUME NEW x \in DOMAIN g, NEW k \in DOMAIN g[x].fields PROVE Holds(g, x, k)
    <2> DEFINE d == g[x].fields[k].data
    <2> SUFFICES ASSUME d # NULL
                 PROVE  /\ d \in DOMAIN g \ {Root} /\ g[d].parent = x
                        /\ g[d].type = g[x].fields[k].type
                        /\ \A l \in DOMAIN g[x].fields : g[x].fields[l].data = d => l = k
      BY DEF Holds
    <2>1. CASE x = o
      <3>1. k \in DOMAIN F /\ d = F[k].data /\ d \in Data(F)
        BY <1>3, <2>1 DEF Data
      <3>2. d \in Children(h, o) /\ d \notin R
        BY <3>1
      <3>3. d \in DOMAIN h \ {Root} /\ h[d].parent = o
        BY <3>2, HeapFacts
      <3>4. d \in DOMAIN g
        BY <1>1, <3>2, <3>3
      <3>5. /\ h[F[k].data].type = F[k].type
            /\ \A l \in DOMAIN F : F[l].data = F[k].data => l = k
        BY <3>1 DEF Typed
      <3> QED
        BY <1>2, <1>3, <2>1, <3>1, <3>3, <3>4, <3>5
    <2>2. CASE x # o
      <3>1. g[x] = h[x] /\ x \in DOMAIN h /\ x \notin R
        BY <1>1, <2>2
      <3>2. Holds(h, x, k)
        BY <3>1 DEF HeapInv
      <3>3. /\ d \in DOMAIN h \ {Root} /\ h[d].parent = x
            /\ h[d].type = h[x].fields[k].type
            /\ \A l \in DOMAIN h[x].fields : h[x].fields[l].data = d => l = k
        BY <3>1, <3>2 DEF Holds
      <3>4. d \notin R
        BY <2>2, <3>1, <3>3 DEF Freed
      <3>5. d \in DOMAIN g
        BY <1>1, <3>3, <3>4
      <3> QED
        BY <1>2, <3>1, <3>3, <3>5
    <2> QED
      BY <2>1, <2>2
  <1>7. ASSUME NEW c \in DOMAIN g \ {Root}
        PROVE  g[c].parent \in DOMAIN g /\ c \in Children(g, g[c].parent)
    <2>1. c \in DOMAIN h \ {Root} /\ c \notin R /\ g[c].parent = h[c].parent
      BY <1>1, <1>2
    <2>2. h[c].parent \in DOMAIN h /\ c \in Children(h, h[c].parent)
      BY <2>1, HeapFacts
    <2>3. h[c].parent \notin R
      BY <2>1, <2>2 DEF Freed, Closed
    <2>4. h[c].parent \in DOMAIN g
      BY <1>1, <2>2, <2>3
    <2>5. CASE h[c].parent = o
      <3>1. c \in Data(F)
        BY <2>1, <2>2, <2>5
      <3> QED
        BY <1>3, <2>1, <2>4, <2>5, <3>1 DEF Children, Data
    <2>6. CASE h[c].parent # o
      <3>1. g[h[c].parent] = h[h[c].parent]
        BY <1>1, <2>4, <2>6
      <3> QED
        BY <2>1, <2>2, <2>4, <3>1 DEF Children
    <2> QED
      BY <2>5, <2>6
  <1>8. Rooted(g)
    <2> SUFFICES ASSUME NEW X \in SUBSET (DOMAIN g \ {Root}), X # {}
                 PROVE  \E c \in X : g[c].parent \notin X
      BY DEF Rooted
    <2>1. X \in SUBSET (DOMAIN h \ {Root})
      BY <1>1
    <2>2. PICK c \in X : h[c].parent \notin X
      BY <2>1 DEF HeapInv, Rooted
    <2> QED
      BY <1>2, <2>2
  <1>9. HeapInv(g)
    BY <1>1, <1>4, <1>5, <1>6, <1>7, <1>8 DEF HeapInv
  <1> QED
    BY <1>9 DEF g

\* A block with other fields or slots.
LEMMA FilledBlock ==
  ASSUME NEW b, IsBlock(b), NEW F, NEW S \in Seq(Index),
         F \in [DOMAIN F -> FieldType],
         IF b.type = "list" THEN F \in Seq(FieldType) /\ Len(F) <= MaxLength
         ELSE DOMAIN F \subseteq Index,
         b.type # "store" => S = <<>>,
         b.type \notin {"store", "list"} => F = <<>>
  PROVE  IsBlock(Filled(b, F, S))
  BY DEF IsBlock, Filled

LEMMA FieldsFilled ==
  ASSUME NEW b, IsBlock(b), NEW F
  PROVE  [b EXCEPT !.fields = F] = Filled(b, F, b.slots)
  BY DEF IsBlock, Filled

LEMMA SlotsFilled ==
  ASSUME NEW b, IsBlock(b), NEW S
  PROVE  [b EXCEPT !.slots = S] = Filled(b, b.fields, S)
  BY DEF IsBlock, Filled

LEMMA BothFilled ==
  ASSUME NEW b, IsBlock(b), NEW F, NEW S
  PROVE  [[b EXCEPT !.fields = F] EXCEPT !.slots = S] = Filled(b, F, S)
  <1>1. [b EXCEPT !.fields = F] = Filled(b, F, b.slots)
    BY FieldsFilled, Zenon
  <1>2. [Filled(b, F, b.slots) EXCEPT !.slots = S] = Filled(b, F, S)
    BY DEF Filled
  <1> QED
    BY <1>1, <1>2, Zenon

LEMMA WithKeyBlock ==
  ASSUME NEW b, IsBlock(b), b.type \in {"store", "list"}, NEW f \in FieldType, NEW k,
         k \in DOMAIN b.fields \/ (b.type = "store" /\ k \in Index)
  PROVE  IsBlock(Filled(b, WithKey(b.fields, k, f), b.slots))
  <1> DEFINE F == WithKey(b.fields, k, f)
  <1>1. F \in [DOMAIN F -> FieldType] /\ DOMAIN F = DOMAIN b.fields \union {k}
    BY DEF WithKey, IsBlock
  <1>2. b.slots \in Seq(Index) /\ (b.type # "store" => b.slots = <<>>)
    BY DEF IsBlock
  <1>3. CASE b.type = "list"
    <2>1. k \in 1 .. Len(b.fields) /\ b.fields \in Seq(FieldType) /\ Len(b.fields) <= MaxLength
      BY <1>3 DEF IsBlock
    <2>2. DOMAIN F = 1 .. Len(b.fields)
      BY <1>1, <2>1
    <2> HIDE DEF F
    <2>3. F \in Seq(FieldType) /\ Len(F) = Len(b.fields)
      BY <1>1, <2>1, <2>2
    <2>4. IsBlock(Filled(b, F, b.slots))
      BY <1>1, <1>2, <1>3, <2>1, <2>3, FilledBlock
    <2> QED
      BY <2>4 DEF F
  <1>4. CASE b.type = "store"
    <2>1. DOMAIN F \subseteq Index
      BY <1>1, <1>4 DEF IsBlock
    <2> HIDE DEF F
    <2>2. IsBlock(Filled(b, F, b.slots))
      BY <1>1, <1>2, <1>4, <2>1, FilledBlock
    <2> QED
      BY <2>2 DEF F
  <1> QED
    BY <1>3, <1>4

LEMMA SetFieldIs ==
  ASSUME NEW h, HeapInv(h), NEW o \in DOMAIN h, NEW k, NEW f
  PROVE  SetField(h, o, k, f) =
           Replaced(h, o, Filled(h[o], WithKey(h[o].fields, k, f), h[o].slots), {})
  <1>1. IsBlock(h[o])
    BY DEF HeapInv
  <1>2. Filled(h[o], WithKey(h[o].fields, k, f), h[o].slots) =
          [h[o] EXCEPT !.fields = WithKey(h[o].fields, k, f)]
    BY <1>1, FieldsFilled
  <1> QED
    BY <1>2 DEF SetField, Replaced

\* A block n is new in the heap, and block o has become b.
Grown(h, o, b, n, new) ==
  [x \in DOMAIN h \union {n} |-> IF x = n THEN new ELSE IF x = o THEN b ELSE h[x]]

LEMMA ConstructedIs ==
  ASSUME NEW h, HeapInv(h), NEW o \in DOMAIN h, NEW k, NEW t, NEW n \in Object \ DOMAIN h
  PROVE  Constructed(h, o, k, t, n) =
           Grown(h, o, Filled(h[o], WithKey(h[o].fields, k, [data |-> n, type |-> t]), h[o].slots),
                 n, NewBlock(t, o))
  <1>1. SetField(h, o, k, [data |-> n, type |-> t]) =
          Replaced(h, o, Filled(h[o], WithKey(h[o].fields, k, [data |-> n, type |-> t]), h[o].slots), {})
    BY SetFieldIs, Zenon
  <1> QED
    BY <1>1 DEF Constructed, Replaced, Grown

LEMMA GrowOK ==
  ASSUME NEW h, HeapInv(h), NEW o \in DOMAIN h, h[o].type \in {"store", "list"},
         NEW k \in DOMAIN h[o].fields, h[o].fields[k].data = NULL,
         NEW t \in Type, NEW n \in Object \ DOMAIN h
  PROVE  /\ HeapInv(Constructed(h, o, k, t, n))
         /\ \A x \in DOMAIN h :
              Children(Constructed(h, o, k, t, n), x) =
                IF x = o THEN Children(h, x) \union {n} ELSE Children(h, x)
         /\ Children(Constructed(h, o, k, t, n), n) = {}
  <1> DEFINE f == [data |-> n, type |-> t]
             F == WithKey(h[o].fields, k, f)
             b == Filled(h[o], F, h[o].slots)
             g == Constructed(h, o, k, t, n)
  <1>0. n # NULL /\ n # Root /\ NULL \notin Block /\ n \in Block
    BY ObjectAssumption DEF Block
  <1>1. /\ DOMAIN g = DOMAIN h \union {n}
        /\ g = [x \in DOMAIN g |-> g[x]]
        /\ g[o] = b /\ g[n] = NewBlock(t, o)
        /\ \A x \in DOMAIN h : x # o => g[x] = h[x]
    <2>1. g = Grown(h, o, b, n, NewBlock(t, o))
      BY ConstructedIs, Zenon
    <2> HIDE DEF g, b
    <2> QED
      BY <2>1 DEF Grown
  <1>2. /\ \A x \in DOMAIN h : g[x].parent = h[x].parent /\ g[x].type = h[x].type
        /\ g[n].parent = o /\ g[n].type = t /\ g[n].fields = <<>> /\ g[o].fields = F
    BY <1>1 DEF Filled, NewBlock
  <1>3. f \in FieldType /\ f.data = n /\ f.type = t
    BY DEF FieldType
  <1>4. IsBlock(b)
    <2>1. IsBlock(h[o])
      BY DEF HeapInv
    <2> HIDE DEF f
    <2> QED
      BY <1>3, <2>1, WithKeyBlock
  <1>5. IsBlock(NewBlock(t, o))
    <2>1. o \in Block
      BY DEF HeapInv
    <2>2. <<>> \in Seq(Index) /\ <<>> \in Seq(FieldType) /\ Len(<<>>) = 0 /\ DOMAIN <<>> = {}
          /\ <<>> \in [DOMAIN <<>> -> FieldType]
      OBVIOUS
    <2>3. MaxLength \in Nat
      BY BoundAssumption
    <2> QED
      BY <2>1, <2>2, <2>3 DEF NewBlock, IsBlock
  <1>6. /\ DOMAIN F = DOMAIN h[o].fields
        /\ F[k] = f /\ \A l \in DOMAIN F : l # k => F[l] = h[o].fields[l]
    BY DEF WithKey
  <1> HIDE DEF g, b, F, f
  <1>7. ASSUME NEW x \in DOMAIN h
        PROVE  Children(g, x) = IF x = o THEN Children(h, x) \union {n} ELSE Children(h, x)
    <2>1. CASE x = o
      <3>1. Children(g, o) = {F[l].data : l \in DOMAIN F} \ {NULL}
        BY <1>2 DEF Children
      <3> QED
        BY <1>0, <1>3, <1>6, <2>1, <3>1 DEF Children
    <2>2. CASE x # o
      BY <1>1, <2>2 DEF Children
    <2> QED
      BY <2>1, <2>2
  <1>8. Children(g, n) = {}
    BY <1>2 DEF Children
  <1>9. ASSUME NEW x \in DOMAIN h, NEW l \in DOMAIN h[x].fields, h[x].fields[l].data # NULL
        PROVE  /\ h[x].fields[l].data \in DOMAIN h \ {Root} /\ h[x].fields[l].data # n
               /\ h[h[x].fields[l].data].parent = x
               /\ h[h[x].fields[l].data].type = h[x].fields[l].type
               /\ \A m \in DOMAIN h[x].fields : h[x].fields[m].data = h[x].fields[l].data => m = l
    <2>1. Holds(h, x, l)
      BY DEF HeapInv
    <2> QED
      BY <1>9, <2>1 DEF Holds
  <1>10. ASSUME NEW x \in DOMAIN g, NEW l \in DOMAIN g[x].fields PROVE Holds(g, x, l)
    <2> DEFINE d == g[x].fields[l].data
    <2> SUFFICES ASSUME d # NULL
                 PROVE  /\ d \in DOMAIN g \ {Root} /\ g[d].parent = x
                        /\ g[d].type = g[x].fields[l].type
                        /\ \A m \in DOMAIN g[x].fields : g[x].fields[m].data = d => m = l
      BY DEF Holds
    <2>0. x # n
      BY <1>2
    <2>1. CASE x = o /\ l = k
      <3>1. d = n /\ g[x].fields[l].type = t
        BY <1>2, <1>3, <1>6, <2>1
      <3>2. \A m \in DOMAIN F : F[m].data = n => m = k
        BY <1>0, <1>6, <1>9
      <3> QED
        BY <1>0, <1>1, <1>2, <2>1, <3>1, <3>2
    <2>2. CASE x = o /\ l # k
      <3>1. g[x].fields[l] = h[o].fields[l] /\ l \in DOMAIN h[o].fields
        BY <1>2, <1>6, <2>2
      <3>2. /\ d \in DOMAIN h \ {Root} /\ d # n /\ h[d].parent = o
            /\ h[d].type = h[o].fields[l].type
            /\ \A m \in DOMAIN h[o].fields : h[o].fields[m].data = d => m = l
        BY <1>9, <3>1
      <3>3. \A m \in DOMAIN F : F[m].data = d => m = l
        BY <1>3, <1>6, <3>2
      <3> QED
        BY <1>1, <1>2, <2>2, <3>1, <3>2, <3>3
    <2>3. CASE x # o
      <3>1. x \in DOMAIN h /\ g[x] = h[x]
        BY <1>1, <2>0, <2>3
      <3> QED
        BY <1>1, <1>2, <1>9, <3>1
    <2> QED
      BY <2>1, <2>2, <2>3
  <1>11. ASSUME NEW c \in DOMAIN g \ {Root}
         PROVE  g[c].parent \in DOMAIN g /\ c \in Children(g, g[c].parent)
    <2>1. CASE c = n
      BY <1>1, <1>2, <1>7, <2>1
    <2>2. CASE c # n
      <3>1. c \in DOMAIN h \ {Root} /\ g[c].parent = h[c].parent
        BY <1>1, <1>2, <2>2
      <3>2. h[c].parent \in DOMAIN h /\ c \in Children(h, h[c].parent)
        BY <3>1, HeapFacts
      <3> QED
        BY <1>1, <1>7, <3>1, <3>2
    <2> QED
      BY <2>1, <2>2
  <1>12. Rooted(g)
    <2> SUFFICES ASSUME NEW X \in SUBSET (DOMAIN g \ {Root}), X # {}
                 PROVE  \E c \in X : g[c].parent \notin X
      BY DEF Rooted
    <2>1. CASE X = {n}
      BY <1>2, <2>1
    <2>2. CASE X # {n}
      <3>1. X \ {n} \in SUBSET (DOMAIN h \ {Root}) /\ X \ {n} # {}
        BY <1>1, <2>2
      <3>2. PICK c \in X \ {n} : h[c].parent \notin X \ {n}
        BY <3>1 DEF HeapInv, Rooted
      <3>3. h[c].parent \in DOMAIN h /\ g[c].parent = h[c].parent
        BY <1>2, <3>1, HeapFacts
      <3> QED
        BY <3>2, <3>3
    <2> QED
      BY <2>1, <2>2
  <1>13. \A x \in DOMAIN g : IsBlock(g[x])
    BY <1>1, <1>4, <1>5 DEF HeapInv
  <1>14. DOMAIN g \subseteq Block /\ Root \in DOMAIN g /\ g[Root].type = "store"
    BY <1>0, <1>1, <1>2 DEF HeapInv
  <1>15. HeapInv(g)
    BY <1>1, <1>10, <1>11, <1>12, <1>13, <1>14 DEF HeapInv
  <1> QED
    BY <1>7, <1>8, <1>15 DEF g

----------------------------------------------------------------------------
(* Trees when the heap changes, and trees apart.                           *)

\* A tree loses nothing when its blocks that stay keep their children.
LEMMA TreeGrows ==
  ASSUME NEW h, Linked(h), NEW g, Linked(g), NEW o \in DOMAIN h, o \in DOMAIN g,
         \A x \in Tree(h, o) : x \in DOMAIN g => Children(h, x) \subseteq Children(g, x)
  PROVE  Tree(h, o) \subseteq Tree(g, o)
  <1> DEFINE P == Tree(h, o) \intersect Tree(g, o)
  <1>1. o \in P /\ Tree(g, o) \subseteq DOMAIN g
    BY TreeFacts
  <1>2. Closed(h, P)
    BY <1>1, TreeFacts DEF Closed
  <1> HIDE DEF P
  <1>3. Tree(h, o) \subseteq P
    BY <1>1, <1>2, TreeFacts
  <1> QED
    BY <1>3 DEF P

\* Neither of two blocks is below the other: they have nothing in common.
LEMMA TreesApart ==
  ASSUME NEW h, HeapInv(h), NEW a \in DOMAIN h, NEW b \in DOMAIN h,
         a \notin Tree(h, b), b \notin Tree(h, a)
  PROVE  Tree(h, a) \intersect Tree(h, b) = {}
  <1> DEFINE X == Tree(h, a) \intersect Tree(h, b)
  <1> SUFFICES ASSUME X # {} PROVE FALSE
    OBVIOUS
  <1>1. \A x \in X : x \in DOMAIN h \ {Root} /\ h[x].parent \in X
    BY TreeParents
  <1> HIDE DEF X
  <1>2. X \in SUBSET (DOMAIN h \ {Root})
    BY <1>1
  <1>3. PICK x \in X : h[x].parent \notin X
    BY <1>2 DEF HeapInv, Rooted
  <1> QED
    BY <1>1, <1>3

\* What may be freed with a field, and what the other fields keep.
LEMMA ContentFreed ==
  ASSUME HeapInv(heap), NEW o \in DOMAIN heap, NEW k \in DOMAIN heap[o].fields
  PROVE  /\ Freed(heap, o, Content(o, k))
         /\ Children(heap, o) \ Content(o, k) =
              {heap[o].fields[l].data : l \in DOMAIN heap[o].fields \ {k}} \ {NULL}
  <1> DEFINE b == heap[o].fields[k].data
             T == Tree(heap, b)
  <1>1. CASE b = NULL
    <2>1. Content(o, k) = {}
      BY <1>1 DEF Content
    <2>2. o \in DOMAIN heap /\ Root \in DOMAIN heap
      BY DEF HeapInv
    <2> QED
      BY <1>1, <2>1, <2>2 DEF Freed, Closed, Children
  <1>2. CASE b # NULL
    <2>1. Content(o, k) = T
      BY <1>2 DEF Content
    <2>2. b \in DOMAIN heap \ {Root} /\ heap[b].parent = o
          /\ \A l \in DOMAIN heap[o].fields : heap[o].fields[l].data = b => l = k
      BY <1>2 DEF HeapInv, Holds
    <2>3. b \in T /\ T \subseteq DOMAIN heap /\ Closed(heap, T)
      BY <2>2, HeapFacts, TreeFacts
    <2>4. o \notin T
      BY <2>2, NoCycle
    <2>5. \A x \in T : x # b => x # Root /\ heap[x].parent \in T
      BY <2>2, TreeParents
    <2>6. Freed(heap, o, T)
      BY <2>2, <2>3, <2>4, <2>5 DEF Freed
    <2>7. ASSUME NEW l \in DOMAIN heap[o].fields, heap[o].fields[l].data # NULL, l # k
          PROVE  heap[o].fields[l].data \notin T
      <3>1. heap[o].fields[l].data \in Children(heap, o)
        BY <2>7 DEF Children
      <3>2. heap[heap[o].fields[l].data].parent = o
        BY <3>1, HeapFacts
      <3>3. heap[o].fields[l].data # b
        BY <2>2, <2>7
      <3> QED
        BY <2>4, <2>5, <3>2, <3>3
    <2>8. Children(heap, o) \ T =
            {heap[o].fields[l].data : l \in DOMAIN heap[o].fields \ {k}} \ {NULL}
      BY <2>3, <2>7 DEF Children
    <2> QED
      BY <2>1, <2>6, <2>8
  <1> QED
    BY <1>1, <1>2

LEMMA BelowFreed ==
  ASSUME HeapInv(heap), NEW o \in DOMAIN heap
  PROVE  Freed(heap, o, Below(o)) /\ Children(heap, o) \subseteq Below(o)
  <1> DEFINE T == Tree(heap, o)
  <1>1. o \in T /\ T \subseteq DOMAIN heap /\ Closed(heap, T)
    BY HeapFacts, TreeFacts
  <1>2. \A x \in T : x # o => x # Root /\ heap[x].parent \in T
    BY TreeParents
  <1>3. ASSUME NEW x \in T, NEW c \in Children(heap, x) PROVE c \in T /\ c # o
    <2>1. c \in T /\ c # Root /\ heap[c].parent = x
      BY <1>1, <1>3, HeapFacts DEF Closed
    <2> QED
      BY <2>1, NoCycle
  <1>4. Below(o) = T \ {o}
    BY DEF Below
  <1> HIDE DEF T
  <1> QED
    BY <1>1, <1>2, <1>3, <1>4 DEF Freed, Closed

LEMMA WithoutReplaced ==
  ASSUME NEW h, NEW o, NEW b, NEW R
  PROVE  Without(R, Replaced(h, o, b, {})) = Replaced(h, o, b, R)
  BY DEF Without, Restrict, Replaced

LEMMA ClearedIs ==
  ASSUME HeapInv(heap), NEW o \in DOMAIN heap
  PROVE  Cleared(o) = Replaced(heap, o, Filled(heap[o], <<>>, <<>>), Below(o))
  <1>1. IsBlock(heap[o])
    BY DEF HeapInv
  <1>2. [heap EXCEPT ![o].fields = <<>>, ![o].slots = <<>>] =
          [x \in DOMAIN heap |-> IF x = o THEN [[heap[o] EXCEPT !.fields = <<>>] EXCEPT !.slots = <<>>]
                                 ELSE heap[x]]
    BY DEF HeapInv
  <1>3. [[heap[o] EXCEPT !.fields = <<>>] EXCEPT !.slots = <<>>] = Filled(heap[o], <<>>, <<>>)
    BY <1>1, BothFilled, Zenon
  <1>4. [heap EXCEPT ![o].fields = <<>>, ![o].slots = <<>>] =
          Replaced(heap, o, Filled(heap[o], <<>>, <<>>), {})
    <2>1. DOMAIN heap \ {} = DOMAIN heap
      OBVIOUS
    <2> QED
      BY <1>2, <1>3, <2>1, Zenon DEF Replaced
  <1>5. \A b, R : Without(R, Replaced(heap, o, b, {})) = Replaced(heap, o, b, R)
    BY WithoutReplaced
  <1>6. Cleared(o) = Without(Below(o), [heap EXCEPT ![o].fields = <<>>, ![o].slots = <<>>])
    BY Zenon DEF Cleared
  <1> QED
    BY <1>4, <1>5, <1>6, Zenon

----------------------------------------------------------------------------
(* What the operations do to one block.                                    *)

\* Block o has other fields and slots, the blocks in R are freed, the rest is
\* as it was.
Changed(h, g, o, F, S, R) ==
  /\ DOMAIN g = DOMAIN h \ R /\ o \in DOMAIN g
  /\ g[o].fields = F /\ g[o].slots = S
  /\ \A x \in DOMAIN g : g[x].type = h[x].type /\ (x # o => g[x] = h[x])

SameTrees(h, g) == \A x \in DOMAIN h : Tree(g, x) = Tree(h, x)

LEMMA ReplacedParts ==
  ASSUME NEW h, NEW o \in DOMAIN h, NEW F, NEW S, NEW R, o \notin R
  PROVE  Changed(h, Replaced(h, o, Filled(h[o], F, S), R), o, F, S, R)
  BY DEF Changed, Replaced, Filled

\* Nothing is freed and no reference changes: the trees are the same.
LEMMA KeptOK ==
  ASSUME NEW h, HeapInv(h), NEW o \in DOMAIN h, NEW F, NEW S, IsBlock(Filled(h[o], F, S)),
         Data(F) = Children(h, o), Typed(h, F),
         NEW g, g = Replaced(h, o, Filled(h[o], F, S), {})
  PROVE  HeapInv(g) /\ Changed(h, g, o, F, S, {}) /\ SameTrees(h, g)
  <1>1. Freed(h, o, {})
    BY DEF Freed, Closed, HeapInv
  <1>2. Data(F) = Children(h, o) \ {}
    OBVIOUS
  <1>3. HeapInv(g)
    BY <1>1, <1>2, PruneOK
  <1>4. Changed(h, g, o, F, S, {})
    BY ReplacedParts
  <1>5. DOMAIN g = DOMAIN h /\ \A x \in DOMAIN h : Children(g, x) = Children(h, x)
    <2>1. Children(g, o) = Data(F)
      BY <1>4 DEF Children, Data, Changed
    <2>2. \A x \in DOMAIN h : x # o => g[x] = h[x]
      BY <1>4 DEF Changed
    <2>3. DOMAIN g = DOMAIN h
      BY <1>4 DEF Changed
    <2>4. ASSUME NEW x \in DOMAIN h PROVE Children(g, x) = Children(h, x)
      <3>1. CASE x = o
        BY <2>1, <3>1
      <3>2. CASE x # o
        BY <2>2, <3>2 DEF Children
      <3> QED
        BY <3>1, <3>2
    <2> QED
      BY <2>3, <2>4
  <1>6. ASSUME NEW x \in DOMAIN h PROVE Tree(g, x) = Tree(h, x)
    <2>0. Linked(h) /\ Linked(g)
      BY <1>3, HeapFacts
    <2>1. Tree(h, x) \subseteq DOMAIN h /\ Tree(g, x) \subseteq DOMAIN h
      BY <1>5, <2>0, TreeFacts
    <2>2. Tree(h, x) \subseteq Tree(g, x)
      BY <1>5, <2>0, <2>1, TreeGrows
    <2>3. Tree(g, x) \subseteq Tree(h, x)
      BY <1>5, <2>0, <2>1, TreeGrows
    <2> QED
      BY <2>2, <2>3
  <1> QED
    BY <1>3, <1>4, <1>6 DEF SameTrees

LEMMA TypedFields ==
  ASSUME NEW h, HeapInv(h), NEW o \in DOMAIN h
  PROVE  Typed(h, h[o].fields) /\ Data(h[o].fields) = Children(h, o)
  <1>1. \A k \in DOMAIN h[o].fields : Holds(h, o, k)
    BY DEF HeapInv
  <1> QED
    BY <1>1 DEF Typed, Holds, Data, Children

LEMMA EmptyFieldType == EmptyField \in FieldType /\ EmptyField.data = NULL /\ EmptyField.type = "void"
  BY DEF EmptyField, FieldType, Type

\* A field without data is added, or one without data changes its type.
LEMMA SetNull ==
  ASSUME NEW h, HeapInv(h), NEW o \in DOMAIN h, h[o].type \in {"store", "list"},
         NEW k, NEW f \in FieldType, f.data = NULL,
         IF k \in DOMAIN h[o].fields THEN h[o].fields[k].data = NULL
         ELSE h[o].type = "store" /\ k \in Index,
         NEW g, g = SetField(h, o, k, f)
  PROVE  /\ HeapInv(g) /\ SameTrees(h, g)
         /\ Changed(h, g, o, WithKey(h[o].fields, k, f), h[o].slots, {})
  <1> DEFINE F == WithKey(h[o].fields, k, f)
  <1>1. g = Replaced(h, o, Filled(h[o], F, h[o].slots), {})
    BY SetFieldIs
  <1>2. IsBlock(h[o])
    BY DEF HeapInv
  <1>3. IsBlock(Filled(h[o], F, h[o].slots))
    BY <1>2, WithKeyBlock
  <1>4. /\ DOMAIN F = DOMAIN h[o].fields \union {k} /\ F[k] = f
        /\ \A l \in DOMAIN h[o].fields : l # k => F[l] = h[o].fields[l]
    BY DEF WithKey
  <1> HIDE DEF F
  <1>5. Data(F) = Children(h, o)
    BY <1>4 DEF Data, Children
  <1>6. Typed(h, F)
    <2>1. Typed(h, h[o].fields)
      BY TypedFields
    <2> QED
      BY <1>4, <2>1 DEF Typed
  <1> HIDE DEF F
  <1>7. HeapInv(g) /\ Changed(h, g, o, F, h[o].slots, {}) /\ SameTrees(h, g)
    BY <1>1, <1>3, <1>5, <1>6, KeptOK
  <1> QED
    BY <1>7 DEF F

\* A slot is appended.
LEMMA SlotAdded ==
  ASSUME NEW h, HeapInv(h), NEW o \in DOMAIN h, h[o].type = "store", NEW k \in Index,
         NEW g, g = [h EXCEPT ![o].slots = Append(@, k)]
  PROVE  /\ HeapInv(g) /\ SameTrees(h, g)
         /\ Changed(h, g, o, h[o].fields, Append(h[o].slots, k), {})
  <1> DEFINE S == Append(h[o].slots, k)
  <1>1. IsBlock(h[o])
    BY DEF HeapInv
  <1>2. S \in Seq(Index)
    BY <1>1 DEF IsBlock
  <1>3. IsBlock(Filled(h[o], h[o].fields, S))
    <2>1. /\ h[o].fields \in [DOMAIN h[o].fields -> FieldType]
          /\ IF h[o].type = "list" THEN h[o].fields \in Seq(FieldType) /\ Len(h[o].fields) <= MaxLength
             ELSE DOMAIN h[o].fields \subseteq Index
          /\ h[o].type \notin {"store", "list"} => h[o].fields = <<>>
      BY <1>1 DEF IsBlock
    <2> HIDE DEF S
    <2> QED
      BY <1>1, <1>2, <2>1, FilledBlock
  <1> HIDE DEF S
  <1>4. g = Replaced(h, o, Filled(h[o], h[o].fields, S), {})
    <2>1. [h[o] EXCEPT !.slots = S] = Filled(h[o], h[o].fields, S)
      BY <1>1, SlotsFilled
    <2>2. g = [h EXCEPT ![o].slots = S]
      BY DEF S
    <2>3. h = [x \in DOMAIN h |-> h[x]]
      BY DEF HeapInv
    <2> QED
      BY <2>1, <2>2, <2>3 DEF Replaced
  <1>5. Typed(h, h[o].fields) /\ Data(h[o].fields) = Children(h, o)
    BY TypedFields
  <1>6. HeapInv(g) /\ Changed(h, g, o, h[o].fields, S, {}) /\ SameTrees(h, g)
    BY <1>3, <1>4, <1>5, KeptOK
  <1> QED
    BY <1>6 DEF S

LEMMA InsertedFields ==
  ASSUME NEW h, NEW s \in Seq(FieldType), NEW i \in 1 .. Len(s) + 1
  PROVE  /\ InsertAt(s, i, EmptyField) \in Seq(FieldType)
         /\ Len(InsertAt(s, i, EmptyField)) = Len(s) + 1
         /\ Data(InsertAt(s, i, EmptyField)) = Data(s)
         /\ Typed(h, s) => Typed(h, InsertAt(s, i, EmptyField))
         /\ \A j \in 1 .. Len(s) + 1 : InsertAt(s, i, EmptyField)[j].data # NULL =>
              \E k \in 1 .. Len(s) : InsertAt(s, i, EmptyField)[j] = s[k]
         /\ \A j \in 1 .. Len(s) + 1 : InsertAt(s, i, EmptyField)[j].type # "void" =>
              \E k \in 1 .. Len(s) : InsertAt(s, i, EmptyField)[j] = s[k]
         /\ InsertAt(s, i, EmptyField)[i] = EmptyField
  <1>1. PICK e : e = EmptyField
    OBVIOUS
  <1>2. e \in FieldType /\ e.data = NULL /\ e.type = "void"
    BY <1>1, EmptyFieldType
  <1> DEFINE F == InsertAt(s, i, e)
  <1>3. F \in Seq(FieldType)
    BY <1>2, InsertAtFacts
  <1>4. Len(F) = Len(s) + 1
    BY <1>2, InsertAtFacts
  <1>5. \A j \in 1 .. Len(s) + 1 : F[j] = IF j < i THEN s[j] ELSE IF j = i THEN e ELSE s[j - 1]
    <2>1. Inserted(F, s, i, e)
      BY <1>2, InsertAtFacts
    <2> HIDE DEF F
    <2> QED
      BY <2>1 DEF Inserted
  <1> HIDE DEF F
  <1>6. /\ i \in 1 .. Len(s) + 1 /\ Len(s) \in Nat /\ DOMAIN s = 1 .. Len(s)
        /\ DOMAIN F = 1 .. Len(s) + 1
    BY <1>3, <1>4
  <1>7. ASSUME NEW k \in 1 .. Len(s) PROVE \E j \in DOMAIN F : F[j] = s[k]
    <2>1. CASE k < i
      BY <1>5, <1>6, <2>1
    <2>2. CASE ~ (k < i)
      <3>1. k + 1 \in 1 .. Len(s) + 1 /\ ~ (k + 1 < i) /\ k + 1 # i /\ (k + 1) - 1 = k
        BY <1>6, <2>2
      <3>2. F[k + 1] = s[k]
        BY <1>5, <3>1
      <3> QED
        BY <1>6, <3>1, <3>2
    <2> QED
      BY <2>1, <2>2
  <1> DEFINE at(j) == IF j < i THEN j ELSE j - 1
  <1>8. \A j \in DOMAIN F : j # i => at(j) \in 1 .. Len(s) /\ F[j] = s[at(j)]
    BY <1>5, <1>6
  <1>9. F[i] = e
    BY <1>5, <1>6
  <1>10. \A j, l \in DOMAIN F : j # i /\ l # i /\ at(j) = at(l) => j = l
    BY <1>6
  <1> HIDE DEF at
  <1>11. ASSUME NEW j \in DOMAIN F, F[j].data # NULL \/ F[j].type # "void"
         PROVE  j # i /\ \E k \in 1 .. Len(s) : F[j] = s[k]
    BY <1>2, <1>8, <1>9, <1>11
  <1>12. Data(F) = Data(s)
    <2>1. \A d \in Data(F) : d \in Data(s)
      BY <1>6, <1>11 DEF Data
    <2>2. \A d \in Data(s) : d \in Data(F)
      BY <1>6, <1>7 DEF Data
    <2> QED
      BY <2>1, <2>2
  <1>13. ASSUME Typed(h, s) PROVE Typed(h, F)
    <2> SUFFICES ASSUME NEW k \in DOMAIN F, F[k].data # NULL
                 PROVE  /\ h[F[k].data].type = F[k].type
                        /\ \A l \in DOMAIN F : F[l].data = F[k].data => l = k
      BY DEF Typed
    <2>1. \A j \in DOMAIN F : F[j].data # NULL => at(j) \in DOMAIN s /\ F[j] = s[at(j)] /\ j # i
      BY <1>6, <1>8, <1>11
    <2> QED
      BY <1>10, <1>13, <2>1 DEF Typed
  <1> QED
    BY <1>1, <1>3, <1>4, <1>6, <1>9, <1>11, <1>12, <1>13 DEF F

LEMMA ListInserted ==
  ASSUME NEW h, HeapInv(h), NEW o \in DOMAIN h, h[o].type = "list",
         NEW i \in 1 .. Len(h[o].fields) + 1, Len(h[o].fields) < MaxLength,
         NEW g, g = [h EXCEPT ![o].fields = InsertAt(@, i, EmptyField)]
  PROVE  /\ HeapInv(g) /\ SameTrees(h, g)
         /\ Changed(h, g, o, InsertAt(h[o].fields, i, EmptyField), h[o].slots, {})
  <1> DEFINE F == InsertAt(h[o].fields, i, EmptyField)
  <1>1. IsBlock(h[o])
    BY DEF HeapInv
  <1>2. h[o].fields \in Seq(FieldType) /\ h[o].slots = <<>> /\ h[o].slots \in Seq(Index)
    BY <1>1 DEF IsBlock
  <1>3. g = Replaced(h, o, Filled(h[o], F, h[o].slots), {})
    <2>1. [h[o] EXCEPT !.fields = F] = Filled(h[o], F, h[o].slots)
      BY <1>1, FieldsFilled
    <2>2. g = [h EXCEPT ![o].fields = F]
      OBVIOUS
    <2> HIDE DEF F
    <2>3. h = [x \in DOMAIN h |-> h[x]]
      BY DEF HeapInv
    <2> QED
      BY <2>1, <2>2, <2>3 DEF Replaced
  <1>4. Typed(h, h[o].fields) /\ Data(h[o].fields) = Children(h, o)
    BY TypedFields
  <1>5. /\ F \in Seq(FieldType) /\ Len(F) = Len(h[o].fields) + 1
        /\ Data(F) = Children(h, o) /\ Typed(h, F)
    BY <1>2, <1>4, InsertedFields
  <1> HIDE DEF F
  <1>6. IsBlock(Filled(h[o], F, h[o].slots))
    <2>1. F \in [DOMAIN F -> FieldType] /\ Len(F) <= MaxLength
      BY <1>2, <1>5, BoundAssumption
    <2> QED
      BY <1>1, <1>2, <1>5, <2>1, FilledBlock
  <1>7. HeapInv(g) /\ Changed(h, g, o, F, h[o].slots, {}) /\ SameTrees(h, g)
    BY <1>3, <1>5, <1>6, KeptOK
  <1> QED
    BY <1>7 DEF F

\* A field goes with its content.
LEMMA FieldGone ==
  ASSUME HeapInv(heap), NEW o \in DOMAIN heap, NEW k \in DOMAIN heap[o].fields,
         NEW F, NEW S, IsBlock(Filled(heap[o], F, S)), Typed(heap, F),
         Data(F) = {heap[o].fields[l].data : l \in DOMAIN heap[o].fields \ {k}} \ {NULL},
         NEW g, g = Replaced(heap, o, Filled(heap[o], F, S), Content(o, k))
  PROVE  HeapInv(g) /\ Changed(heap, g, o, F, S, Content(o, k))
  <1>1. PICK R : R = Content(o, k)
    OBVIOUS
  <1>2. Freed(heap, o, R) /\ Data(F) = Children(heap, o) \ R
    BY <1>1, ContentFreed
  <1>3. g = Replaced(heap, o, Filled(heap[o], F, S), R)
    BY <1>1
  <1>4. HeapInv(g)
    BY <1>2, <1>3, PruneOK
  <1>5. o \notin R
    BY <1>2 DEF Freed
  <1>6. Changed(heap, g, o, F, S, R)
    BY <1>3, <1>5, ReplacedParts
  <1> QED
    BY <1>1, <1>4, <1>6

LEMMA FieldEmptied ==
  ASSUME HeapInv(heap), NEW o \in DOMAIN heap, heap[o].type \in {"store", "list"},
         NEW k \in DOMAIN heap[o].fields,
         heap' = Without(Content(o, k), SetField(heap, o, k, EmptyField))
  PROVE  HeapInv(heap') /\ Changed(heap, heap', o, WithKey(heap[o].fields, k, EmptyField),
                                   heap[o].slots, Content(o, k))
  <1> DEFINE F == WithKey(heap[o].fields, k, EmptyField)
  <1>1. SetField(heap, o, k, EmptyField) = Replaced(heap, o, Filled(heap[o], F, heap[o].slots), {})
    BY SetFieldIs
  <1>2. IsBlock(Filled(heap[o], F, heap[o].slots))
    <2>1. IsBlock(heap[o])
      BY DEF HeapInv
    <2> QED
      BY <2>1, EmptyFieldType, WithKeyBlock
  <1>3. /\ DOMAIN F = DOMAIN heap[o].fields /\ F[k] = EmptyField
        /\ \A l \in DOMAIN heap[o].fields : l # k => F[l] = heap[o].fields[l]
    BY DEF WithKey
  <1> HIDE DEF F
  <1>4. Data(F) = {heap[o].fields[l].data : l \in DOMAIN heap[o].fields \ {k}} \ {NULL}
    BY <1>3, EmptyFieldType DEF Data
  <1>5. Typed(heap, F)
    <2>1. Typed(heap, heap[o].fields)
      BY TypedFields
    <2> QED
      BY <1>3, <2>1, EmptyFieldType DEF Typed
  <1>6. \A b, R : Without(R, Replaced(heap, o, b, {})) = Replaced(heap, o, b, R)
    BY WithoutReplaced
  <1>7. heap' = Replaced(heap, o, Filled(heap[o], F, heap[o].slots), Content(o, k))
    BY <1>1, <1>6, Zenon
  <1>8. HeapInv(heap') /\ Changed(heap, heap', o, F, heap[o].slots, Content(o, k))
    BY <1>2, <1>4, <1>5, <1>7, FieldGone
  <1> QED
    BY <1>8 DEF F

LEMMA RemoveAtNth ==
  ASSUME NEW T, NEW s \in Seq(T), NEW i \in DOMAIN s, NEW j \in 1 .. Len(s) - 1
  PROVE  RemoveAt(s, i)[j] = IF j < i THEN s[j] ELSE s[j + 1]
  BY RemoveAtFacts

LEMMA RemovedFields ==
  ASSUME NEW h, NEW s \in Seq(FieldType), NEW i \in DOMAIN s
  PROVE  /\ RemoveAt(s, i) \in Seq(FieldType)
         /\ Len(RemoveAt(s, i)) = Len(s) - 1
         /\ Data(RemoveAt(s, i)) = {s[k].data : k \in DOMAIN s \ {i}} \ {NULL}
         /\ Typed(h, s) => Typed(h, RemoveAt(s, i))
         /\ \A j \in DOMAIN RemoveAt(s, i) : \E k \in DOMAIN s : RemoveAt(s, i)[j] = s[k]
  <1> DEFINE F == RemoveAt(s, i)
  <1>1. F \in Seq(FieldType)
    BY RemoveAtFacts
  <1>2. Len(F) = Len(s) - 1
    BY RemoveAtFacts
  <1>3. \A j \in 1 .. Len(s) - 1 : F[j] = IF j < i THEN s[j] ELSE s[j + 1]
    BY RemoveAtNth
  <1> HIDE DEF F
  <1>4. /\ i \in 1 .. Len(s) /\ Len(s) \in Nat /\ DOMAIN s = 1 .. Len(s)
        /\ DOMAIN F = 1 .. Len(s) - 1
    BY <1>1, <1>2
  <1>5. ASSUME NEW k \in 1 .. Len(s), k # i PROVE \E j \in DOMAIN F : F[j] = s[k]
    <2>1. CASE k < i
      BY <1>3, <1>4, <2>1
    <2>2. CASE ~ (k < i)
      <3>1. k - 1 \in 1 .. Len(s) - 1 /\ ~ (k - 1 < i) /\ (k - 1) + 1 = k
        BY <1>4, <1>5, <2>2
      <3>2. F[k - 1] = s[k]
        BY <1>3, <3>1
      <3> QED
        BY <1>4, <3>1, <3>2
    <2> QED
      BY <2>1, <2>2
  <1> DEFINE at(j) == IF j < i THEN j ELSE j + 1
  <1>6. \A j \in DOMAIN F : at(j) \in 1 .. Len(s) /\ at(j) # i /\ F[j] = s[at(j)]
    BY <1>3, <1>4
  <1>7. \A j, l \in DOMAIN F : at(j) = at(l) => j = l
    BY <1>4
  <1> HIDE DEF at
  <1>8. Data(F) = {s[k].data : k \in DOMAIN s \ {i}} \ {NULL}
    <2>1. \A d \in Data(F) : d \in {s[k].data : k \in DOMAIN s \ {i}} \ {NULL}
      BY <1>4, <1>6 DEF Data
    <2>2. \A d \in {s[k].data : k \in DOMAIN s \ {i}} \ {NULL} : d \in Data(F)
      BY <1>4, <1>5 DEF Data
    <2> QED
      BY <2>1, <2>2
  <1>9. ASSUME Typed(h, s) PROVE Typed(h, F)
    <2> SUFFICES ASSUME NEW k \in DOMAIN F, F[k].data # NULL
                 PROVE  /\ h[F[k].data].type = F[k].type
                        /\ \A l \in DOMAIN F : F[l].data = F[k].data => l = k
      BY DEF Typed
    <2> QED
      BY <1>4, <1>6, <1>7, <1>9 DEF Typed
  <1>10. \A j \in DOMAIN F : \E k \in DOMAIN s : F[j] = s[k]
    BY <1>4, <1>6
  <1> QED
    BY <1>1, <1>2, <1>8, <1>9, <1>10 DEF F

LEMMA ElementErased ==
  ASSUME HeapInv(heap), NEW l \in DOMAIN heap, heap[l].type = "list",
         NEW i \in DOMAIN heap[l].fields,
         heap' = Without(Content(l, i), [heap EXCEPT ![l].fields = RemoveAt(@, i)])
  PROVE  HeapInv(heap') /\ Changed(heap, heap', l, RemoveAt(heap[l].fields, i),
                                   heap[l].slots, Content(l, i))
  <1> DEFINE F == RemoveAt(heap[l].fields, i)
  <1>1. IsBlock(heap[l])
    BY DEF HeapInv
  <1>2. /\ heap[l].fields \in Seq(FieldType) /\ Len(heap[l].fields) <= MaxLength
        /\ heap[l].slots = <<>> /\ heap[l].slots \in Seq(Index)
    BY <1>1 DEF IsBlock
  <1>3. [heap EXCEPT ![l].fields = F] = Replaced(heap, l, Filled(heap[l], F, heap[l].slots), {})
    <2> HIDE DEF F
    <2>1. [heap[l] EXCEPT !.fields = F] = Filled(heap[l], F, heap[l].slots)
      BY <1>1, FieldsFilled
    <2>3. heap = [x \in DOMAIN heap |-> heap[x]]
      BY DEF HeapInv
    <2> QED
      BY <2>1, <2>3 DEF Replaced
  <1>4. Typed(heap, heap[l].fields)
    BY TypedFields
  <1>5. /\ F \in Seq(FieldType) /\ Len(F) = Len(heap[l].fields) - 1 /\ Typed(heap, F)
        /\ Data(F) = {heap[l].fields[k].data : k \in DOMAIN heap[l].fields \ {i}} \ {NULL}
    BY <1>2, <1>4, RemovedFields
  <1>6. \A b, R : Without(R, Replaced(heap, l, b, {})) = Replaced(heap, l, b, R)
    BY WithoutReplaced
  <1>7. heap' = Without(Content(l, i), [heap EXCEPT ![l].fields = F])
    OBVIOUS
  <1> HIDE DEF F
  <1>8. heap' = Replaced(heap, l, Filled(heap[l], F, heap[l].slots), Content(l, i))
    BY <1>3, <1>6, <1>7, Zenon
  <1>9. IsBlock(Filled(heap[l], F, heap[l].slots))
    <2>1. F \in [DOMAIN F -> FieldType] /\ Len(F) <= MaxLength
      BY <1>2, <1>5, BoundAssumption
    <2> QED
      BY <1>1, <1>2, <1>5, <2>1, FilledBlock
  <1>10. HeapInv(heap') /\ Changed(heap, heap', l, F, heap[l].slots, Content(l, i))
    BY <1>5, <1>8, <1>9, FieldGone
  <1> QED
    BY <1>10 DEF F

LEMMA MinFacts ==
  ASSUME NEW P, P \subseteq Nat, P # {}
  PROVE  Min(P) \in P /\ \A n \in P : Min(P) <= n
  <1>1. \E m \in P : \A n \in P : m <= n
    BY NatMin
  <1> QED
    BY <1>1 DEF Min

\* A field and its slot j are removed.
LEMMA FieldRemoved ==
  ASSUME HeapInv(heap), NEW s \in DOMAIN heap, heap[s].type = "store",
         NEW k \in DOMAIN heap[s].fields, NEW j \in DOMAIN heap[s].slots,
         heap' = Without(Content(s, k),
                   [heap EXCEPT ![s].fields = Restrict(@, DOMAIN @ \ {k}), ![s].slots = RemoveAt(@, j)])
  PROVE  HeapInv(heap') /\ Changed(heap, heap', s, Restrict(heap[s].fields, DOMAIN heap[s].fields \ {k}),
                                   RemoveAt(heap[s].slots, j), Content(s, k))
  <1> DEFINE F == Restrict(heap[s].fields, DOMAIN heap[s].fields \ {k})
             S == RemoveAt(heap[s].slots, j)
  <1>1. IsBlock(heap[s])
    BY DEF HeapInv
  <1>2. /\ DOMAIN heap[s].fields \subseteq Index /\ heap[s].slots \in Seq(Index)
        /\ heap[s].fields \in [DOMAIN heap[s].fields -> FieldType]
    BY <1>1 DEF IsBlock
  <1>3. S \in Seq(Index)
    BY <1>2, RemoveAtFacts
  <1>4. DOMAIN F = DOMAIN heap[s].fields \ {k} /\ \A l \in DOMAIN F : F[l] = heap[s].fields[l]
    BY DEF Restrict
  <1>5. F \in [DOMAIN F -> FieldType]
    BY <1>2 DEF Restrict
  <1>6. heap' = Without(Content(s, k), [heap EXCEPT ![s].fields = F, ![s].slots = S])
    OBVIOUS
  <1> HIDE DEF F, S
  <1>7. [heap EXCEPT ![s].fields = F, ![s].slots = S] = Replaced(heap, s, Filled(heap[s], F, S), {})
    <2>1. [heap EXCEPT ![s].fields = F, ![s].slots = S] =
            [x \in DOMAIN heap |-> IF x = s THEN [[heap[s] EXCEPT !.fields = F] EXCEPT !.slots = S]
                                   ELSE heap[x]]
      BY DEF HeapInv
    <2>2. [[heap[s] EXCEPT !.fields = F] EXCEPT !.slots = S] = Filled(heap[s], F, S)
      BY <1>1, BothFilled, Zenon
    <2>3. DOMAIN heap \ {} = DOMAIN heap
      OBVIOUS
    <2> QED
      BY <2>1, <2>2, <2>3, Zenon DEF Replaced
  <1>8. \A b, R : Without(R, Replaced(heap, s, b, {})) = Replaced(heap, s, b, R)
    BY WithoutReplaced
  <1>9. heap' = Replaced(heap, s, Filled(heap[s], F, S), Content(s, k))
    BY <1>6, <1>7, <1>8, Zenon
  <1>10. IsBlock(Filled(heap[s], F, S))
    BY <1>1, <1>2, <1>3, <1>4, <1>5, FilledBlock
  <1>11. Typed(heap, F)
    BY <1>4, TypedFields DEF Typed
  <1>12. Data(F) = {heap[s].fields[l].data : l \in DOMAIN heap[s].fields \ {k}} \ {NULL}
    BY <1>4 DEF Data
  <1>13. HeapInv(heap') /\ Changed(heap, heap', s, F, S, Content(s, k))
    BY <1>9, <1>10, <1>11, <1>12, FieldGone
  <1> QED
    BY <1>13 DEF F, S

LEMMA ClearedOK ==
  ASSUME HeapInv(heap), NEW o \in DOMAIN heap, heap' = Cleared(o)
  PROVE  /\ HeapInv(heap') /\ Changed(heap, heap', o, <<>>, <<>>, Below(o))
         /\ Tree(heap', o) = {o}
         /\ \A x \in DOMAIN heap' : o \notin Tree(heap, x) => Tree(heap', x) \subseteq Tree(heap, x)
  <1>1. heap' = Replaced(heap, o, Filled(heap[o], <<>>, <<>>), Below(o))
    BY ClearedIs
  <1>2. IsBlock(Filled(heap[o], <<>>, <<>>))
    <2>1. IsBlock(heap[o])
      BY DEF HeapInv
    <2>2. <<>> \in Seq(Index) /\ <<>> \in Seq(FieldType) /\ Len(<<>>) = 0 /\ DOMAIN <<>> = {}
          /\ <<>> \in [DOMAIN <<>> -> FieldType]
      OBVIOUS
    <2>3. MaxLength \in Nat
      BY BoundAssumption
    <2> QED
      BY <2>1, <2>2, <2>3 DEF Filled, IsBlock
  <1>3. PICK R : R = Below(o)
    OBVIOUS
  <1>4. Freed(heap, o, R) /\ Children(heap, o) \subseteq R
    BY <1>3, BelowFreed
  <1>5. Data(<<>>) = Children(heap, o) \ R /\ Typed(heap, <<>>)
    BY <1>4 DEF Data, Typed
  <1>6. PICK e : e = <<>>
    OBVIOUS
  <1>7. heap' = Replaced(heap, o, Filled(heap[o], e, e), R)
    BY <1>1, <1>3, <1>6
  <1>8. HeapInv(heap')
    BY <1>2, <1>4, <1>5, <1>6, <1>7, PruneOK
  <1>9. o \notin R
    BY <1>4 DEF Freed
  <1>10. Changed(heap, heap', o, e, e, R)
    BY <1>7, <1>9, ReplacedParts
  <1>11. Children(heap', o) = {} /\ o \in DOMAIN heap'
    BY <1>6, <1>10 DEF Changed, Children
  <1>12. Linked(heap') /\ Linked(heap)
    BY <1>8, HeapFacts
  <1>13. Tree(heap', o) = {o}
    <2>1. Closed(heap', {o})
      BY <1>11 DEF Closed
    <2> QED
      BY <1>11, <1>12, <2>1, TreeFacts
  <1>14. ASSUME NEW x \in DOMAIN heap', o \notin Tree(heap, x)
         PROVE  Tree(heap', x) \subseteq Tree(heap, x)
    <2>1. x \in DOMAIN heap /\ DOMAIN heap' \subseteq DOMAIN heap
      BY <1>10 DEF Changed
    <2>2. x \in Tree(heap, x) /\ Closed(heap, Tree(heap, x))
      BY <1>12, <2>1, TreeFacts
    <2> DEFINE P == Tree(heap, x) \intersect DOMAIN heap'
    <2>3. \A y \in P : Children(heap', y) \subseteq Tree(heap, x)
      <3> SUFFICES ASSUME NEW y \in P PROVE Children(heap', y) \subseteq Tree(heap, x)
        OBVIOUS
      <3>1. y # o /\ heap'[y] = heap[y]
        BY <1>10, <1>14 DEF Changed
      <3>2. Children(heap', y) = Children(heap, y)
        BY <3>1 DEF Children
      <3> QED
        BY <2>2, <3>2 DEF Closed
    <2>4. Closed(heap', P) /\ x \in P
      BY <1>12, <2>2, <2>3 DEF Closed, Linked
    <2> HIDE DEF P
    <2>5. Tree(heap', x) \subseteq P
      BY <1>12, <2>4, TreeFacts
    <2> QED
      BY <2>5 DEF P
  <1> QED
    BY <1>3, <1>6, <1>8, <1>10, <1>13, <1>14

\* A new block is in the trees its parent is in.
LEMMA TreeConstructed ==
  ASSUME NEW h, HeapInv(h), NEW o \in DOMAIN h, h[o].type \in {"store", "list"},
         NEW k \in DOMAIN h[o].fields, h[o].fields[k].data = NULL,
         NEW t \in Type, NEW n \in Object \ DOMAIN h,
         NEW g, g = Constructed(h, o, k, t, n)
  PROVE  /\ \A x \in DOMAIN h : Tree(h, x) \subseteq Tree(g, x)
         /\ \A x \in DOMAIN h : o \notin Tree(h, x) => Tree(g, x) = Tree(h, x)
         /\ \A x \in DOMAIN h : o \in Tree(h, x) => Tree(g, x) = Tree(h, x) \union {n}
         /\ Tree(g, n) = {n}
  <1>1. /\ HeapInv(g) /\ Children(g, n) = {}
        /\ \A x \in DOMAIN h :
             Children(g, x) = IF x = o THEN Children(h, x) \union {n} ELSE Children(h, x)
    BY GrowOK
  <1>2. DOMAIN g = DOMAIN h \union {n}
    BY DEF Constructed, SetField
  <1>3. Linked(h) /\ Linked(g)
    BY <1>1, HeapFacts
  <1>4. ASSUME NEW x \in DOMAIN h
        PROVE  /\ x \in Tree(h, x) /\ Closed(h, Tree(h, x)) /\ Tree(h, x) \subseteq DOMAIN h
               /\ Tree(h, x) \subseteq Tree(g, x)
    <2>1. x \in Tree(h, x) /\ Closed(h, Tree(h, x)) /\ Tree(h, x) \subseteq DOMAIN h
      BY <1>3, TreeFacts
    <2>2. \A y \in Tree(h, x) : y \in DOMAIN g => Children(h, y) \subseteq Children(g, y)
      BY <1>1, <2>1
    <2>3. Tree(h, x) \subseteq Tree(g, x)
      BY <1>2, <1>3, <2>2, TreeGrows
    <2> QED
      BY <2>1, <2>3
  <1>5. ASSUME NEW x \in DOMAIN h, o \notin Tree(h, x) PROVE Tree(g, x) = Tree(h, x)
    <2>1. Closed(g, Tree(h, x))
      BY <1>1, <1>4, <1>5 DEF Closed
    <2>2. Tree(g, x) \subseteq Tree(h, x)
      BY <1>2, <1>3, <1>4, <2>1, TreeFacts
    <2> QED
      BY <1>4, <2>2
  <1>6. ASSUME NEW x \in DOMAIN h, o \in Tree(h, x) PROVE Tree(g, x) = Tree(h, x) \union {n}
    <2>1. Closed(g, Tree(h, x) \union {n})
      BY <1>1, <1>4 DEF Closed
    <2>2. Tree(g, x) \subseteq Tree(h, x) \union {n}
      BY <1>2, <1>3, <1>4, <2>1, TreeFacts
    <2>3. n \in Children(g, o) /\ o \in Tree(g, x)
      BY <1>1, <1>4, <1>6
    <2>4. Closed(g, Tree(g, x))
      BY <1>2, <1>3, TreeFacts
    <2>5. n \in Tree(g, x)
      BY <2>3, <2>4 DEF Closed
    <2> QED
      BY <1>4, <2>2, <2>5
  <1>7. Tree(g, n) = {n}
    <2>1. Closed(g, {n})
      BY <1>1 DEF Closed
    <2> QED
      BY <1>2, <1>3, <2>1, TreeFacts
  <1> QED
    BY <1>4, <1>5, <1>6, <1>7

----------------------------------------------------------------------------
(* The names, the operation and the frames.                                *)

LEMMA OpForms ==
  ASSUME op \in OpType
  PROVE  /\ op.pc \in {"idle", "undefined", "copy", "intern", "string", "emplace", "slot",
                       "construct", "copy field", "copy construct"}
         /\ op.pc = "idle" <=> op = Idle
         /\ op.pc = "undefined" <=> op = Undefined
         /\ op.pc \in {"intern", "string"} =>
              /\ op = [pc |-> op.pc, at |-> op.at, name |-> op.name, type |-> op.type]
              /\ op.at \in Block /\ op.name \in Name /\ op.type \in Type
         /\ op.pc \in {"emplace", "slot", "construct"} =>
              /\ op = [pc |-> op.pc, at |-> op.at, key |-> op.key, type |-> op.type]
              /\ op.at \in Block /\ op.key \in Nat \ {0} /\ op.type \in Type
         /\ op.pc \in {"copy field", "copy construct"} =>
              /\ op = [pc |-> op.pc, key |-> op.key, from |-> op.from]
              /\ op.key \in Index /\ op.from \in Index
  <1>1. Idle.pc = "idle" /\ Undefined.pc = "undefined"
    BY DEF Idle, Undefined
  <1>2. CASE op = Idle
    BY <1>1, <1>2
  <1>3. CASE op = Undefined
    BY <1>1, <1>3
  <1>4. CASE op = [pc |-> "copy"]
    <2>1. op.pc = "copy"
      BY <1>4
    <2> QED
      BY <1>1, <2>1
  <1>5. CASE op \in [pc : {"intern", "string"}, at : Block, name : Name, type : Type]
    <2>1. /\ op.pc \in {"intern", "string"} /\ op.at \in Block /\ op.name \in Name /\ op.type \in Type
          /\ op = [pc |-> op.pc, at |-> op.at, name |-> op.name, type |-> op.type]
      BY <1>5
    <2> QED
      BY <1>1, <2>1, Zenon
  <1>6. CASE op \in [pc : {"emplace", "slot", "construct"}, at : Block, key : Nat \ {0}, type : Type]
    <2>1. /\ op.pc \in {"emplace", "slot", "construct"} /\ op.at \in Block
          /\ op.key \in Nat \ {0} /\ op.type \in Type
          /\ op = [pc |-> op.pc, at |-> op.at, key |-> op.key, type |-> op.type]
      BY <1>6
    <2> QED
      BY <1>1, <2>1, Zenon
  <1>7. CASE op \in [pc : {"copy field", "copy construct"}, key : Index, from : Index]
    <2>1. /\ op.pc \in {"copy field", "copy construct"} /\ op.key \in Index /\ op.from \in Index
          /\ op = [pc |-> op.pc, key |-> op.key, from |-> op.from]
      BY <1>7
    <2> QED
      BY <1>1, <2>1, Zenon
  <1> QED
    BY <1>2, <1>3, <1>4, <1>5, <1>6, <1>7 DEF OpType

LEMMA IndexFacts == Cardinality(Name) \in Nat /\ Index \subseteq Nat \ {0}
  BY ObjectAssumption, FS_CardinalityType DEF Index

\* There are no more strings than names.
LEMMA DataBound ==
  ASSUME NameInv
  PROVE  /\ Len(data) \in Nat /\ DOMAIN data = 1 .. Len(data) /\ DOMAIN data \subseteq Index
         /\ \A n \in Name : n \notin Range(data) => Len(data) + 1 \in Index
         /\ \A i, j \in DOMAIN data : data[i] = data[j] => i = j
         /\ Len(data) <= Cardinality(Name)
  <1>1. data \in Seq(Name) /\ \A i \in DOMAIN data : data[i] \in DOMAIN map /\ map[data[i]] = i
    BY DEF NameInv
  <1>2. Len(data) \in Nat /\ DOMAIN data = 1 .. Len(data) /\ data \in [1 .. Len(data) -> Name]
    BY <1>1
  <1>3. \A i, j \in DOMAIN data : data[i] = data[j] => i = j
    BY <1>1, Zenon
  <1>4. IsFiniteSet(Name) /\ Cardinality(Name) \in Nat
    BY ObjectAssumption, IndexFacts
  <1>5. ASSUME NEW T \in SUBSET Name, Range(data) \subseteq T
        PROVE  Len(data) <= Cardinality(T) /\ IsFiniteSet(T) /\ Cardinality(T) \in Nat
    <2>1. IsFiniteSet(T)
      BY <1>4, FS_Subset
    <2>2. data \in [1 .. Len(data) -> T]
      BY <1>2, <1>5 DEF Range
    <2>3. data \in Injection(1 .. Len(data), T)
      BY <1>2, <1>3, <2>2 DEF Injection, IsInjective
    <2>4. IsFiniteSet(1 .. Len(data)) /\ Cardinality(1 .. Len(data)) <= Cardinality(T)
      BY <2>1, <2>3, FS_Injection
    <2>5. Cardinality(1 .. Len(data)) = Len(data)
      BY <1>2, FS_Interval, SMTT(30)
    <2> QED
      BY <2>1, <2>4, <2>5, FS_CardinalityType
  <1>6. Range(data) \subseteq Name
    BY <1>2 DEF Range
  <1>7. Len(data) <= Cardinality(Name)
    BY <1>5, <1>6
  <1>8. ASSUME NEW n \in Name, n \notin Range(data) PROVE Len(data) + 1 \in Index
    <2>1. Len(data) <= Cardinality(Name \ {n})
      BY <1>5, <1>6, <1>8
    <2>2. Cardinality(Name \ {n}) = Cardinality(Name) - 1
      BY <1>4, FS_RemoveElement
    <2> QED
      BY <1>2, <1>4, <2>1, <2>2 DEF Index
  <1> QED
    BY <1>2, <1>3, <1>4, <1>7, <1>8 DEF Index

LEMMA NamesKept ==
  ASSUME NameInv, UNCHANGED <<map, data>>, op'.pc # "string"
  PROVE  NameInv'
  BY DEF NameInv

LEMMA NoElements == DOMAIN <<>> = {}
  <1>1. <<>> \in Seq(Nat) /\ Len(<<>>) = 0 /\ DOMAIN <<>> = {}
    OBVIOUS
  <1> QED
    BY <1>1

LEMMA NoFrames ==
  ASSUME frames' = <<>>, op'.pc \notin {"copy", "copy field", "copy construct"}
  PROVE  FrameInv'
  <1>1. <<>> \in Seq([dst : Block, src : Block, i : Nat \ {0}])
    BY EmptySeq, Zenon
  <1>2. DOMAIN <<>> = {}
    BY NoElements
  <1> QED
    BY <1>1, <1>2 DEF FrameInv, Copying

LEMMA OpDone ==
  ASSUME op' = Idle \/ op' = Undefined
  PROVE  OpInv' /\ op'.pc \in {"idle", "undefined"}
  <1>1. op'.pc \in {"idle", "undefined"}
    BY DEF Idle, Undefined
  <1>2. op' \in OpType
    BY DEF OpType
  <1> QED
    BY <1>1, <1>2 DEF OpInv

\* An operation that does not copy has no frames.
LEMMA NotCopying ==
  ASSUME FrameInv, op.pc \notin {"copy", "copy field", "copy construct"}
  PROVE  frames = <<>>
  BY DEF FrameInv, Copying

\* The stores an operation is half-way with.
HalfWay(s) == (op.pc = "slot" /\ s = op.at) \/ (op.pc = "copy field" /\ s = Running.dst)

LEMMA StoreKept ==
  ASSUME NEW s, StoreComplete(s), heap'[s] = heap[s], DOMAIN data \subseteq DOMAIN data',
         ~ HalfWay(s), ~ HalfWay(s)'
  PROVE  StoreComplete(s)'
  BY DEF StoreComplete, SlotsOf, HalfWay, Running

LEMMA DataKept ==
  ASSUME DataComplete, NEW o, NEW F, NEW S, NEW R, Changed(heap, heap', o, F, S, R),
         \A k \in DOMAIN F : F[k].type # "void" => F[k].data # NULL
  PROVE  DataComplete'
  BY DEF DataComplete, Changed

LEMMA SameHeap ==
  ASSUME Complete, UNCHANGED <<map, data, heap, failures>>,
         op.pc \notin {"string", "slot", "copy field"}, op'.pc \notin {"slot", "copy field"},
         op' # Undefined, op'.pc = "emplace" => op'.key \in DOMAIN data
  PROVE  Complete'
  <1> SUFFICES ASSUME failures' = 0 PROVE Complete'
    BY DEF Complete
  <1>1. NamesComplete /\ DataComplete /\ \A s \in Stores : StoreComplete(s)
    BY DEF Complete
  <1>2. NamesComplete' /\ DataComplete'
    BY <1>1 DEF NamesComplete, DataComplete
  <1>3. Stores' = Stores
    BY DEF Stores
  <1>4. \A s \in Stores' : StoreComplete(s)'
    <2> SUFFICES ASSUME NEW s \in Stores' PROVE StoreComplete(s)'
      OBVIOUS
    <2>1. StoreComplete(s) /\ heap'[s] = heap[s] /\ DOMAIN data \subseteq DOMAIN data'
      BY <1>1, <1>3
    <2>2. ~ HalfWay(s) /\ ~ HalfWay(s)'
      BY DEF HalfWay
    <2> QED
      BY <2>1, <2>2, StoreKept
  <1> QED
    BY <1>2, <1>4 DEF Complete

(* One lemma for each action.                                              *)

LEMMA InsertStep ==
  ASSUME IInv, NEW s \in Stores, NEW n \in Name, NEW t \in Type, Insert(s, n, t)
  PROVE  IInv'
  <1>1. /\ op = Idle /\ calls < MaxCalls /\ calls' = calls + 1
        /\ op' = [pc |-> "intern", at |-> s, name |-> n, type |-> t]
        /\ UNCHANGED <<map, data, heap, frames, failures>>
    BY DEF Insert, Begin
  <1>2. op.pc = "idle" /\ op'.pc = "intern" /\ op'.at = s
    BY <1>1 DEF Idle
  <1>3. HeapInv(heap')
    BY <1>1 DEF IInv
  <1>4. NameInv'
    BY <1>1, <1>2, NamesKept DEF IInv
  <1>5. OpInv'
    <2>1. s \in Block
      BY DEF Stores, IInv, HeapInv
    <2>2. op' \in OpType
      BY <1>1, <2>1 DEF OpType
    <2>3. s \in Stores'
      BY <1>1 DEF Stores
    <2> QED
      BY <1>2, <2>2, <2>3 DEF OpInv
  <1>6. FrameInv'
    <2>1. frames' = <<>>
      BY <1>1, <1>2, NotCopying DEF IInv
    <2> QED
      BY <1>2, <2>1, NoFrames
  <1>7. Complete'
    <2>1. op' # Undefined
      BY <1>2 DEF Undefined
    <2> QED
      BY <1>1, <1>2, <2>1, SameHeap DEF IInv
  <1>8. calls' \in 0 .. MaxCalls /\ failures' \in 0 .. MaxFailures
    BY <1>1, BoundAssumption DEF IInv
  <1> QED
    BY <1>3, <1>4, <1>5, <1>6, <1>7, <1>8 DEF IInv

LEMMA InternFoundStep ==
  ASSUME IInv, InternFound
  PROVE  IInv'
  <1>1. /\ op.pc = "intern" /\ op.name \in DOMAIN map
        /\ op' = [pc |-> "emplace", at |-> op.at, key |-> map[op.name], type |-> op.type]
        /\ UNCHANGED <<map, data, heap, frames, calls, failures>>
    BY DEF InternFound
  <1>2. op'.pc = "emplace" /\ op'.at = op.at /\ op'.key = map[op.name]
    BY <1>1
  <1>3. HeapInv(heap')
    BY <1>1 DEF IInv
  <1>4. NameInv'
    BY <1>1, <1>2, NamesKept DEF IInv
  <1>5. OpInv'
    <2>1. op.at \in Block /\ op.type \in Type /\ op.at \in Stores
      BY <1>1, OpForms DEF IInv, OpInv
    <2>2. map[op.name] \in Index /\ map[op.name] \in Nat \ {0}
      BY <1>1, IndexFacts DEF IInv, NameInv
    <2>3. op' \in OpType
      BY <1>1, <2>1, <2>2 DEF OpType
    <2>4. op.at \in Stores'
      BY <1>1, <2>1 DEF Stores
    <2> QED
      BY <1>2, <2>2, <2>3, <2>4 DEF OpInv
  <1>6. FrameInv'
    <2>1. frames' = <<>>
      BY <1>1, NotCopying DEF IInv
    <2> QED
      BY <1>2, <2>1, NoFrames
  <1>7. Complete'
    <2>1. op' # Undefined
      BY <1>2 DEF Undefined
    <2>2. CASE failures = 0
      <3>1. NamesComplete
        BY <2>2 DEF IInv, Complete
      <3>2. map[op.name] \in DOMAIN data
        BY <1>1, <3>1 DEF NamesComplete
      <3> QED
        BY <1>1, <1>2, <2>1, <3>2, SameHeap DEF IInv
    <2>3. CASE failures # 0
      BY <1>1, <2>3 DEF Complete
    <2> QED
      BY <2>2, <2>3
  <1>8. calls' \in 0 .. MaxCalls /\ failures' \in 0 .. MaxFailures
    BY <1>1 DEF IInv
  <1> QED
    BY <1>3, <1>4, <1>5, <1>6, <1>7, <1>8 DEF IInv

LEMMA InternMapStep ==
  ASSUME IInv, InternMap
  PROVE  IInv'
  <1>1. /\ op.pc = "intern" /\ op.name \notin DOMAIN map
        /\ map' = WithKey(map, op.name, Len(data) + 1)
        /\ op' = [op EXCEPT !.pc = "string"]
        /\ UNCHANGED <<data, heap, frames, calls, failures>>
    BY DEF InternMap, Goto
  <1>2. /\ op = [pc |-> op.pc, at |-> op.at, name |-> op.name, type |-> op.type]
        /\ op.at \in Block /\ op.name \in Name /\ op.type \in Type /\ op.at \in Stores
    BY <1>1, OpForms DEF IInv, OpInv
  <1>3. op' = [pc |-> "string", at |-> op.at, name |-> op.name, type |-> op.type]
    BY <1>1, <1>2
  <1>4. op'.pc = "string" /\ op'.at = op.at /\ op'.name = op.name
    BY <1>3
  <1>5. /\ DOMAIN map' = DOMAIN map \union {op.name} /\ map'[op.name] = Len(data) + 1
        /\ \A n \in DOMAIN map : map'[n] = map[n]
    BY <1>1 DEF WithKey
  <1>6. HeapInv(heap')
    BY <1>1 DEF IInv
  <1>7. NameInv'
    <2>1. /\ map \in [DOMAIN map -> Index] /\ DOMAIN map \subseteq Name /\ data \in Seq(Name)
          /\ \A i \in DOMAIN data : data[i] \in DOMAIN map /\ map[data[i]] = i
      BY DEF IInv, NameInv
    <2>2. op.name \notin Range(data)
      BY <1>1, <2>1 DEF Range
    <2>3. Len(data) + 1 \in Index
      BY <1>2, <2>2, DataBound DEF IInv
    <2>4. map' \in [DOMAIN map' -> Index]
      BY <1>1, <1>5, <2>1, <2>3 DEF WithKey
    <2>5. \A i \in DOMAIN data' : data'[i] \in DOMAIN map' /\ map'[data'[i]] = i
      BY <1>1, <1>5, <2>1
    <2>6. DOMAIN map' \subseteq Name /\ data' \in Seq(Name)
      BY <1>1, <1>2, <1>5, <2>1
    <2>7. op.name \notin Range(data')
      BY <1>1, <2>2
    <2>8. map'[op.name] = Len(data') + 1
      BY <1>1, <1>5
    <2> QED
      BY <1>4, <1>5, <2>4, <2>5, <2>6, <2>7, <2>8 DEF NameInv
  <1>8. OpInv'
    <2>1. op' \in OpType
      BY <1>2, <1>3 DEF OpType
    <2>2. op.at \in Stores'
      BY <1>1, <1>2 DEF Stores
    <2> QED
      BY <1>4, <2>1, <2>2 DEF OpInv
  <1>9. FrameInv'
    <2>1. frames' = <<>>
      BY <1>1, NotCopying DEF IInv
    <2> QED
      BY <1>4, <2>1, NoFrames
  <1>10. Complete'
    <2> SUFFICES ASSUME failures' = 0 PROVE Complete'
      BY DEF Complete
    <2>1. NamesComplete /\ DataComplete /\ \A s \in Stores : StoreComplete(s)
      BY <1>1 DEF IInv, Complete
    <2>2. NamesComplete'
      BY <1>1, <1>4, <1>5, <2>1 DEF NamesComplete
    <2>3. DataComplete'
      BY <1>1, <2>1 DEF DataComplete
    <2>4. \A s \in Stores' : StoreComplete(s)'
      <3> SUFFICES ASSUME NEW s \in Stores' PROVE StoreComplete(s)'
        OBVIOUS
      <3>1. s \in Stores /\ heap'[s] = heap[s] /\ DOMAIN data \subseteq DOMAIN data'
        BY <1>1 DEF Stores
      <3>2. ~ HalfWay(s) /\ ~ HalfWay(s)'
        BY <1>1, <1>4 DEF HalfWay
      <3> QED
        BY <2>1, <3>1, <3>2, StoreKept
    <2>5. op' # Undefined
      BY <1>4 DEF Undefined
    <2> QED
      BY <1>4, <2>2, <2>3, <2>4, <2>5 DEF Complete
  <1>11. calls' \in 0 .. MaxCalls /\ failures' \in 0 .. MaxFailures
    BY <1>1 DEF IInv
  <1> QED
    BY <1>6, <1>7, <1>8, <1>9, <1>10, <1>11 DEF IInv

LEMMA InternStringStep ==
  ASSUME IInv, InternString
  PROVE  IInv'
  <1>1. /\ op.pc = "string" /\ data' = Append(data, op.name)
        /\ op' = [pc |-> "emplace", at |-> op.at, key |-> map[op.name], type |-> op.type]
        /\ UNCHANGED <<map, heap, frames, calls, failures>>
    BY DEF InternString
  <1>2. op'.pc = "emplace" /\ op'.at = op.at /\ op'.key = map[op.name]
    BY <1>1
  <1>3. op.at \in Block /\ op.name \in Name /\ op.type \in Type /\ op.at \in Stores
    BY <1>1, OpForms DEF IInv, OpInv
  <1>4. /\ map \in [DOMAIN map -> Index] /\ DOMAIN map \subseteq Name /\ data \in Seq(Name)
        /\ \A i \in DOMAIN data : data[i] \in DOMAIN map /\ map[data[i]] = i
        /\ op.name \in DOMAIN map /\ map[op.name] = Len(data) + 1
    BY <1>1 DEF IInv, NameInv
  <1>5. /\ data' \in Seq(Name) /\ Len(data') = Len(data) + 1
        /\ \A i \in 1 .. Len(data) : data'[i] = data[i]
        /\ data'[Len(data) + 1] = op.name /\ DOMAIN data' = 1 .. Len(data) + 1
        /\ DOMAIN data = 1 .. Len(data) /\ Len(data) \in Nat
    BY <1>1, <1>3, <1>4
  <1>6. HeapInv(heap')
    BY <1>1 DEF IInv
  <1>7. NameInv'
    <2>1. \A i \in DOMAIN data' : data'[i] \in DOMAIN map' /\ map'[data'[i]] = i
      <3> SUFFICES ASSUME NEW i \in DOMAIN data'
                   PROVE  data'[i] \in DOMAIN map' /\ map'[data'[i]] = i
        OBVIOUS
      <3>1. i \in DOMAIN data \/ i = Len(data) + 1
        BY <1>5
      <3> QED
        BY <1>1, <1>4, <1>5, <3>1
    <2>2. map' \in [DOMAIN map' -> Index] /\ DOMAIN map' \subseteq Name
      BY <1>1, <1>4
    <2> QED
      BY <1>2, <1>5, <2>1, <2>2 DEF NameInv
  <1>8. OpInv'
    <2>1. map[op.name] \in Index /\ map[op.name] \in Nat \ {0}
      BY <1>4, IndexFacts
    <2>2. op' \in OpType
      BY <1>1, <1>3, <2>1 DEF OpType
    <2>3. op.at \in Stores'
      BY <1>1, <1>3 DEF Stores
    <2> QED
      BY <1>2, <2>1, <2>2, <2>3 DEF OpInv
  <1>9. FrameInv'
    <2>1. frames' = <<>>
      BY <1>1, NotCopying DEF IInv
    <2> QED
      BY <1>2, <2>1, NoFrames
  <1>10. Complete'
    <2> SUFFICES ASSUME failures' = 0 PROVE Complete'
      BY DEF Complete
    <2>1. NamesComplete /\ DataComplete /\ \A s \in Stores : StoreComplete(s)
      BY <1>1 DEF IInv, Complete
    <2>2. NamesComplete'
      BY <1>1, <1>4, <1>5, <2>1 DEF NamesComplete
    <2>3. DataComplete'
      BY <1>1, <2>1 DEF DataComplete
    <2>4. \A s \in Stores' : StoreComplete(s)'
      <3> SUFFICES ASSUME NEW s \in Stores' PROVE StoreComplete(s)'
        OBVIOUS
      <3>1. s \in Stores /\ heap'[s] = heap[s] /\ DOMAIN data \subseteq DOMAIN data'
        BY <1>1, <1>5 DEF Stores
      <3>2. ~ HalfWay(s) /\ ~ HalfWay(s)'
        BY <1>1, <1>2 DEF HalfWay
      <3> QED
        BY <2>1, <3>1, <3>2, StoreKept
    <2>5. op' # Undefined
      BY <1>2 DEF Undefined
    <2>6. op'.key \in DOMAIN data'
      BY <1>2, <1>4, <1>5
    <2> QED
      BY <2>2, <2>3, <2>4, <2>5, <2>6 DEF Complete
  <1>11. calls' \in 0 .. MaxCalls /\ failures' \in 0 .. MaxFailures
    BY <1>1 DEF IInv
  <1> QED
    BY <1>6, <1>7, <1>8, <1>9, <1>10, <1>11 DEF IInv

LEMMA StoresChanged ==
  ASSUME NEW o, NEW F, NEW S, NEW R, Changed(heap, heap', o, F, S, R)
  PROVE  Stores' = Stores \ R /\ Lists' = Lists \ R
  BY DEF Changed, Stores, Lists

\* After an operation that has changed one block, names unchanged, without
\* failures: what is left to show is about that block.
LEMMA ChangedComplete ==
  ASSUME Complete, NEW o, NEW F, NEW S, NEW R, Changed(heap, heap', o, F, S, R),
         UNCHANGED <<map, data, failures>>, failures = 0,
         \A k \in DOMAIN F : F[k].type # "void" => F[k].data # NULL,
         op.pc # "string", op'.pc # "emplace", op' # Undefined,
         \A s \in Stores' : s # o => ~ HalfWay(s) /\ ~ HalfWay(s)',
         o \in Stores => StoreComplete(o)'
  PROVE  Complete'
  <1>1. NamesComplete /\ DataComplete /\ \A s \in Stores : StoreComplete(s)
    BY DEF Complete
  <1>2. NamesComplete'
    BY <1>1 DEF NamesComplete
  <1>3. DataComplete'
    BY <1>1, DataKept
  <1>4. ASSUME NEW s \in Stores' PROVE StoreComplete(s)'
    <2>1. s \in Stores
      BY StoresChanged
    <2>2. CASE s = o
      BY <2>1, <2>2
    <2>3. CASE s # o
      <3>1. heap'[s] = heap[s]
        BY <2>3 DEF Changed, Stores
      <3>2. DOMAIN data \subseteq DOMAIN data'
        OBVIOUS
      <3>3. ~ HalfWay(s) /\ ~ HalfWay(s)'
        BY <2>3
      <3> QED
        BY <1>1, <2>1, <3>1, <3>2, <3>3, StoreKept
    <2> QED
      BY <2>2, <2>3
  <1> QED
    BY <1>2, <1>3, <1>4 DEF Complete

LEMMA EmplaceFieldStep ==
  ASSUME IInv, EmplaceField
  PROVE  IInv'
  <1>0. PICK s, k : s = op.at /\ k = op.key
    OBVIOUS
  <1>1. op.pc = "emplace" /\ UNCHANGED <<map, data, frames, calls, failures>>
    BY DEF EmplaceField
  <1>2. /\ op = [pc |-> op.pc, at |-> op.at, key |-> op.key, type |-> op.type]
        /\ op.at \in Block /\ op.key \in Nat \ {0} /\ op.type \in Type
        /\ s \in Stores /\ k \in Index /\ s \in DOMAIN heap /\ heap[s].type = "store"
    BY <1>0, <1>1, OpForms DEF IInv, OpInv, Stores
  <1>3. HeapInv(heap) /\ NameInv /\ Complete
    BY DEF IInv
  <1>4. frames' = <<>>
    BY <1>1, NotCopying DEF IInv
  <1>5. calls' \in 0 .. MaxCalls /\ failures' \in 0 .. MaxFailures
    BY <1>1 DEF IInv
  <1>6. CASE k \in DOMAIN heap[s].fields
    <2>1. op' = [op EXCEPT !.pc = "construct"] /\ heap' = heap
      BY <1>0, <1>6 DEF EmplaceField, Goto
    <2>2. op' = [pc |-> "construct", at |-> op.at, key |-> op.key, type |-> op.type]
      BY <1>2, <2>1
    <2>3. op'.pc = "construct" /\ op'.at = s /\ op'.key = k
      BY <1>0, <2>2
    <2>4. NameInv'
      BY <1>1, <1>3, <2>3, NamesKept
    <2>5. OpInv'
      <3>1. op' \in OpType
        BY <1>2, <2>2 DEF OpType
      <3>2. s \in Stores'
        BY <1>2, <2>1 DEF Stores
      <3> QED
        BY <1>6, <2>1, <2>3, <3>1, <3>2 DEF OpInv
    <2>6. FrameInv'
      BY <1>4, <2>3, NoFrames
    <2>7. Complete'
      <3>1. op' # Undefined
        BY <2>3 DEF Undefined
      <3> QED
        BY <1>1, <1>3, <2>1, <2>3, <3>1, SameHeap
    <2> QED
      BY <1>3, <1>5, <2>1, <2>4, <2>5, <2>6, <2>7 DEF IInv
  <1>7. CASE k \notin DOMAIN heap[s].fields
    <2> DEFINE F == WithKey(heap[s].fields, k, EmptyField)
    <2>1. op' = [op EXCEPT !.pc = "slot"] /\ heap' = SetField(heap, s, k, EmptyField)
      BY <1>0, <1>7 DEF EmplaceField, Goto
    <2>2. op' = [pc |-> "slot", at |-> op.at, key |-> op.key, type |-> op.type]
      BY <1>2, <2>1
    <2>3. op'.pc = "slot" /\ op'.at = s /\ op'.key = k
      BY <1>0, <2>2
    <2>4. HeapInv(heap') /\ Changed(heap, heap', s, F, heap[s].slots, {})
      BY <1>2, <1>3, <1>7, <2>1, EmptyFieldType, SetNull
    <2>5. /\ DOMAIN F = DOMAIN heap[s].fields \union {k} /\ F[k] = EmptyField
          /\ \A l \in DOMAIN heap[s].fields : F[l] = heap[s].fields[l]
      BY <1>7 DEF WithKey
    <2> HIDE DEF F
    <2>6. heap'[s].fields = F /\ heap'[s].slots = heap[s].slots
      BY <2>4 DEF Changed
    <2>7. s \in Stores'
      BY <1>2, <2>4, StoresChanged
    <2>8. NameInv'
      BY <1>1, <1>3, <2>3, NamesKept
    <2>9. OpInv'
      <3>1. op' \in OpType
        BY <1>2, <2>2 DEF OpType
      <3> QED
        BY <1>2, <2>3, <2>5, <2>6, <2>7, <3>1 DEF OpInv
    <2>10. FrameInv'
      BY <1>4, <2>3, NoFrames
    <2>11. Complete'
      <3> SUFFICES ASSUME failures' = 0 PROVE Complete'
        BY DEF Complete
      <3>1. failures = 0 /\ op' # Undefined
        BY <1>1, <2>3 DEF Undefined
      <3>2. StoreComplete(s) /\ DataComplete /\ k \in DOMAIN data
        BY <1>0, <1>1, <1>2, <1>3, <3>1 DEF Complete
      <3>3. \A l \in DOMAIN F : F[l].type # "void" => F[l].data # NULL
        BY <1>2, <2>5, <3>2, EmptyFieldType DEF DataComplete
      <3>4. StoreComplete(s)'
        BY <1>1, <1>7, <2>3, <2>5, <2>6, <3>2 DEF StoreComplete, SlotsOf
      <3>5. \A x \in Stores' : x # s => ~ HalfWay(x) /\ ~ HalfWay(x)'
        BY <1>1, <2>3 DEF HalfWay
      <3>6. op.pc # "string" /\ op'.pc # "emplace" /\ UNCHANGED <<map, data, failures>>
        BY <1>1, <2>3
      <3> QED
        BY <1>3, <2>4, <3>1, <3>3, <3>4, <3>5, <3>6, ChangedComplete
    <2> QED
      BY <1>5, <2>4, <2>8, <2>9, <2>10, <2>11 DEF IInv
  <1> QED
    BY <1>6, <1>7

\* A key that is not in a sequence is appended.
LEMMA FreshAppended ==
  ASSUME NEW S \in Seq(Index), IsInjective(S), NEW k \in Index, k \notin Range(S),
         NEW Q, Q = Append(S, k)
  PROVE  IsInjective(Q) /\ Range(Q) = Range(S) \union {k}
  <1>1. /\ DOMAIN Q = 1 .. Len(S) + 1 /\ DOMAIN S = 1 .. Len(S) /\ Len(S) \in Nat
        /\ Q[Len(S) + 1] = k /\ \A i \in 1 .. Len(S) : Q[i] = S[i]
    OBVIOUS
  <1>2. IsInjective(Q)
    <2> SUFFICES ASSUME NEW i \in DOMAIN Q, NEW j \in DOMAIN Q, Q[i] = Q[j] PROVE i = j
      BY DEF IsInjective
    <2>1. (i \in DOMAIN S \/ i = Len(S) + 1) /\ (j \in DOMAIN S \/ j = Len(S) + 1)
      BY <1>1
    <2>2. \A l \in DOMAIN S : S[l] # k
      BY DEF Range
    <2> QED
      BY <1>1, <2>1, <2>2 DEF IsInjective
  <1>3. Range(Q) = Range(S) \union {k}
    <2>1. \A x \in Range(Q) : x \in Range(S) \union {k}
      <3> SUFFICES ASSUME NEW i \in DOMAIN Q PROVE Q[i] \in Range(S) \union {k}
        BY DEF Range
      <3>1. i \in DOMAIN S \/ i = Len(S) + 1
        BY <1>1
      <3> QED
        BY <1>1, <3>1 DEF Range
    <2>2. \A x \in Range(S) : x \in Range(Q)
      <3> SUFFICES ASSUME NEW i \in DOMAIN S PROVE S[i] \in Range(Q)
        BY DEF Range
      <3>1. i \in DOMAIN Q /\ Q[i] = S[i]
        BY <1>1
      <3> QED
        BY <3>1 DEF Range
    <2>3. k \in Range(Q)
      <3>1. Len(S) + 1 \in DOMAIN Q
        BY <1>1
      <3> QED
        BY <1>1, <3>1 DEF Range
    <2> QED
      BY <2>1, <2>2, <2>3
  <1> QED
    BY <1>2, <1>3

LEMMA EmplaceSlotStep ==
  ASSUME IInv, EmplaceSlot
  PROVE  IInv'
  <1>0. PICK s, k : s = op.at /\ k = op.key
    OBVIOUS
  <1>1. /\ op.pc = "slot" /\ UNCHANGED <<map, data, frames, calls, failures>>
        /\ op' = [op EXCEPT !.pc = "construct"]
        /\ heap' = [heap EXCEPT ![s].slots = Append(@, k)]
    BY <1>0 DEF EmplaceSlot, Goto
  <1>2. /\ op = [pc |-> op.pc, at |-> op.at, key |-> op.key, type |-> op.type]
        /\ op.at \in Block /\ op.key \in Nat \ {0} /\ op.type \in Type
        /\ s \in Stores /\ k \in Index /\ s \in DOMAIN heap /\ heap[s].type = "store"
        /\ k \in DOMAIN heap[s].fields
    BY <1>0, <1>1, OpForms DEF IInv, OpInv, Stores
  <1>3. HeapInv(heap) /\ NameInv /\ Complete
    BY DEF IInv
  <1>4. frames' = <<>>
    BY <1>1, NotCopying DEF IInv
  <1>5. calls' \in 0 .. MaxCalls /\ failures' \in 0 .. MaxFailures
    BY <1>1 DEF IInv
  <1>6. op' = [pc |-> "construct", at |-> op.at, key |-> op.key, type |-> op.type]
    BY <1>1, <1>2
  <1>7. op'.pc = "construct" /\ op'.at = s /\ op'.key = k
    BY <1>0, <1>6
  <1>8. HeapInv(heap') /\ Changed(heap, heap', s, heap[s].fields, Append(heap[s].slots, k), {})
    BY <1>1, <1>2, <1>3, SlotAdded
  <1>9. heap'[s].fields = heap[s].fields /\ heap'[s].slots = Append(heap[s].slots, k)
    BY <1>8 DEF Changed
  <1>10. s \in Stores'
    BY <1>2, <1>8, StoresChanged
  <1>11. NameInv'
    BY <1>1, <1>3, <1>7, NamesKept
  <1>12. OpInv'
    <2>1. op' \in OpType
      BY <1>2, <1>6 DEF OpType
    <2> QED
      BY <1>2, <1>7, <1>9, <1>10, <2>1 DEF OpInv
  <1>13. FrameInv'
    BY <1>4, <1>7, NoFrames
  <1>14. Complete'
    <2> SUFFICES ASSUME failures' = 0 PROVE Complete'
      BY DEF Complete
    <2>1. failures = 0 /\ op' # Undefined
      BY <1>1, <1>7 DEF Undefined
    <2>2. StoreComplete(s) /\ DataComplete
      BY <1>2, <1>3, <2>1 DEF Complete
    <2>3. \A l \in DOMAIN heap[s].fields :
            heap[s].fields[l].type # "void" => heap[s].fields[l].data # NULL
      BY <1>2, <2>2 DEF DataComplete
    <2>4. StoreComplete(s)'
      <3>1. /\ IsInjective(heap[s].slots) /\ DOMAIN heap[s].fields \subseteq DOMAIN data
            /\ k \notin Range(heap[s].slots) /\ DOMAIN heap[s].fields = Range(heap[s].slots) \union {k}
        BY <1>0, <1>1, <2>2 DEF StoreComplete, SlotsOf
      <3>2. heap[s].slots \in Seq(Index)
        BY <1>2, <1>3 DEF HeapInv, IsBlock
      <3>3. /\ IsInjective(heap'[s].slots)
            /\ Range(heap'[s].slots) = Range(heap[s].slots) \union {k}
        <4>1. PICK S, Q : S = heap[s].slots /\ Q = heap'[s].slots
          OBVIOUS
        <4>2. S \in Seq(Index) /\ IsInjective(S) /\ k \notin Range(S) /\ Q = Append(S, k)
          BY <1>9, <3>1, <3>2, <4>1
        <4>3. IsInjective(Q) /\ Range(Q) = Range(S) \union {k}
          BY <1>2, <4>2, FreshAppended
        <4> QED
          BY <4>1, <4>3, Zenon
      <3> QED
        BY <1>1, <1>7, <1>9, <3>1, <3>3 DEF StoreComplete, SlotsOf
    <2>5. \A x \in Stores' : x # s => ~ HalfWay(x) /\ ~ HalfWay(x)'
      BY <1>0, <1>1, <1>7 DEF HalfWay
    <2>6. op.pc # "string" /\ op'.pc # "emplace" /\ UNCHANGED <<map, data, failures>>
      BY <1>1, <1>7
    <2> QED
      BY <1>3, <1>8, <2>1, <2>3, <2>4, <2>5, <2>6, ChangedComplete
  <1> QED
    BY <1>5, <1>8, <1>11, <1>12, <1>13, <1>14 DEF IInv

LEMMA ListInsertStep ==
  ASSUME IInv, NEW l \in Lists, NEW i, NEW t \in Type, ListInsert(l, i, t)
  PROVE  IInv'
  <1> DEFINE F == InsertAt(heap[l].fields, i, EmptyField)
  <1>1. /\ op = Idle /\ calls < MaxCalls /\ calls' = calls + 1
        /\ i \in 1 .. Len(heap[l].fields) + 1 /\ Len(heap[l].fields) < MaxLength
        /\ heap' = [heap EXCEPT ![l].fields = InsertAt(@, i, EmptyField)]
        /\ op' = [pc |-> "construct", at |-> l, key |-> i, type |-> t]
        /\ UNCHANGED <<map, data, frames, failures>>
    BY DEF ListInsert, Begin
  <1>2. op.pc = "idle" /\ op'.pc = "construct" /\ op'.at = l /\ op'.key = i
    BY <1>1 DEF Idle
  <1>3. HeapInv(heap) /\ NameInv /\ Complete /\ l \in DOMAIN heap /\ heap[l].type = "list"
    BY DEF IInv, Lists
  <1>4. HeapInv(heap') /\ Changed(heap, heap', l, F, heap[l].slots, {})
    BY <1>1, <1>3, ListInserted
  <1>5. heap[l].fields \in Seq(FieldType)
    BY <1>3 DEF HeapInv, IsBlock
  <1>6. /\ F \in Seq(FieldType) /\ Len(F) = Len(heap[l].fields) + 1
        /\ \A j \in 1 .. Len(heap[l].fields) + 1 : F[j].type # "void" =>
             \E m \in 1 .. Len(heap[l].fields) : F[j] = heap[l].fields[m]
    BY <1>1, <1>5, InsertedFields
  <1> HIDE DEF F
  <1>7. heap'[l].fields = F
    BY <1>4 DEF Changed
  <1>8. NameInv'
    BY <1>1, <1>2, <1>3, NamesKept
  <1>9. OpInv'
    <2>1. l \in Block /\ i \in Nat \ {0}
      BY <1>1, <1>3, <1>5 DEF HeapInv
    <2>2. op' \in OpType
      BY <1>1, <2>1 DEF OpType
    <2>3. l \in Lists'
      BY <1>4, StoresChanged
    <2>4. i \in DOMAIN heap'[l].fields
      BY <1>1, <1>6, <1>7
    <2> QED
      BY <1>2, <2>2, <2>3, <2>4 DEF OpInv
  <1>10. FrameInv'
    <2>1. frames' = <<>>
      BY <1>1, <1>2, NotCopying DEF IInv
    <2> QED
      BY <1>2, <2>1, NoFrames
  <1>11. Complete'
    <2> SUFFICES ASSUME failures' = 0 PROVE Complete'
      BY DEF Complete
    <2>1. failures = 0 /\ op' # Undefined
      BY <1>1, <1>2 DEF Undefined
    <2>2. DataComplete
      BY <1>3, <2>1 DEF Complete
    <2>3. \A j \in DOMAIN F : F[j].type # "void" => F[j].data # NULL
      <3> SUFFICES ASSUME NEW j \in DOMAIN F, F[j].type # "void" PROVE F[j].data # NULL
        OBVIOUS
      <3>1. PICK m \in 1 .. Len(heap[l].fields) : F[j] = heap[l].fields[m]
        BY <1>6, SMTT(30)
      <3>2. m \in DOMAIN heap[l].fields
        BY <1>5
      <3> QED
        BY <1>3, <2>2, <3>1, <3>2 DEF DataComplete
    <2>4. l \notin Stores
      BY <1>3 DEF Stores
    <2>5. \A x \in Stores' : x # l => ~ HalfWay(x) /\ ~ HalfWay(x)'
      BY <1>2 DEF HalfWay
    <2>6. op.pc # "string" /\ op'.pc # "emplace" /\ UNCHANGED <<map, data, failures>>
      BY <1>1, <1>2
    <2> QED
      BY <1>3, <1>4, <2>1, <2>3, <2>4, <2>5, <2>6, ChangedComplete
  <1>12. calls' \in 0 .. MaxCalls /\ failures' \in 0 .. MaxFailures
    BY <1>1, BoundAssumption DEF IInv
  <1> QED
    BY <1>4, <1>8, <1>9, <1>10, <1>11, <1>12 DEF IInv

LEMMA ListAtStep ==
  ASSUME IInv, NEW l \in Lists, NEW i, NEW t \in Type, ListAt(l, i, t)
  PROVE  IInv'
  <1>1. /\ op = Idle /\ calls < MaxCalls /\ calls' = calls + 1
        /\ i \in DOMAIN heap[l].fields
        /\ op' = [pc |-> "construct", at |-> l, key |-> i, type |-> t]
        /\ UNCHANGED <<map, data, heap, frames, failures>>
    BY DEF ListAt, Begin
  <1>2. op.pc = "idle" /\ op'.pc = "construct" /\ op'.at = l /\ op'.key = i
    BY <1>1 DEF Idle
  <1>3. HeapInv(heap) /\ NameInv /\ Complete /\ l \in DOMAIN heap /\ heap[l].type = "list"
    BY DEF IInv, Lists
  <1>4. NameInv'
    BY <1>1, <1>2, <1>3, NamesKept
  <1>5. OpInv'
    <2>1. heap[l].fields \in Seq(FieldType) /\ l \in Block
      BY <1>3 DEF HeapInv, IsBlock
    <2>2. i \in Nat \ {0}
      BY <1>1, <2>1
    <2>3. op' \in OpType
      BY <1>1, <2>1, <2>2 DEF OpType
    <2>4. l \in Lists' /\ i \in DOMAIN heap'[l].fields
      BY <1>1 DEF Lists
    <2> QED
      BY <1>2, <2>3, <2>4 DEF OpInv
  <1>6. FrameInv'
    <2>1. frames' = <<>>
      BY <1>1, <1>2, NotCopying DEF IInv
    <2> QED
      BY <1>2, <2>1, NoFrames
  <1>7. Complete'
    <2>1. op' # Undefined
      BY <1>2 DEF Undefined
    <2> QED
      BY <1>1, <1>2, <1>3, <2>1, SameHeap
  <1>8. calls' \in 0 .. MaxCalls /\ failures' \in 0 .. MaxFailures
    BY <1>1, BoundAssumption DEF IInv
  <1> QED
    BY <1>1, <1>3, <1>4, <1>5, <1>6, <1>7, <1>8 DEF IInv

LEMMA ConstructNoneStep ==
  ASSUME IInv, ConstructNone
  PROVE  IInv'
  <1>0. PICK o, k, R, F : o = op.at /\ k = op.key /\ R = Content(o, k)
                          /\ F = WithKey(heap[o].fields, k, EmptyField)
    OBVIOUS
  <1>1. /\ op.pc = "construct" /\ op' = Idle /\ frames' = <<>>
        /\ UNCHANGED <<map, data, calls, failures>>
        /\ heap' = Without(Content(o, k), SetField(heap, o, k, EmptyField))
    BY <1>0 DEF ConstructNone, Done
  <1>2. HeapInv(heap) /\ NameInv /\ Complete
    BY DEF IInv
  <1>3. o \in DOMAIN heap /\ heap[o].type \in {"store", "list"} /\ k \in DOMAIN heap[o].fields
    BY <1>0, <1>1 DEF IInv, OpInv, Stores, Lists
  <1>4. HeapInv(heap') /\ Changed(heap, heap', o, F, heap[o].slots, R)
    BY <1>0, <1>1, <1>2, <1>3, FieldEmptied
  <1>5. OpInv' /\ op'.pc \in {"idle", "undefined"} /\ op' # Undefined
    BY <1>1, OpDone DEF Idle, Undefined
  <1>6. NameInv' /\ FrameInv'
    BY <1>1, <1>2, <1>5, NamesKept, NoFrames
  <1>7. Complete'
    <2> SUFFICES ASSUME failures' = 0 PROVE Complete'
      BY DEF Complete
    <2>1. failures = 0
      BY <1>1
    <2>2. DataComplete /\ \A s \in Stores : StoreComplete(s)
      BY <1>2, <2>1 DEF Complete
    <2>3. DOMAIN F = DOMAIN heap[o].fields
          /\ \A l \in DOMAIN F : F[l] = IF l = k THEN EmptyField ELSE heap[o].fields[l]
      BY <1>0, <1>3 DEF WithKey
    <2>4. \A l \in DOMAIN F : F[l].type # "void" => F[l].data # NULL
      BY <1>3, <2>2, <2>3, EmptyFieldType DEF DataComplete
    <2>5. ASSUME o \in Stores PROVE StoreComplete(o)'
      <3>1. StoreComplete(o)
        BY <2>2, <2>5
      <3>2. heap'[o].fields = F /\ heap'[o].slots = heap[o].slots
        BY <1>4 DEF Changed
      <3> QED
        BY <1>1, <1>5, <2>3, <3>1, <3>2 DEF StoreComplete, SlotsOf
    <2>6. \A x \in Stores' : x # o => ~ HalfWay(x) /\ ~ HalfWay(x)'
      BY <1>1, <1>5 DEF HalfWay
    <2>7. op.pc # "string" /\ op'.pc # "emplace" /\ UNCHANGED <<map, data, failures>>
      BY <1>1, <1>5
    <2> QED
      BY <1>2, <1>4, <1>5, <2>1, <2>4, <2>5, <2>6, <2>7, ChangedComplete
  <1>8. calls' \in 0 .. MaxCalls /\ failures' \in 0 .. MaxFailures
    BY <1>1 DEF IInv
  <1> QED
    BY <1>4, <1>5, <1>6, <1>7, <1>8 DEF IInv

LEMMA ConstructKeepsStep ==
  ASSUME IInv, ConstructKeeps
  PROVE  IInv'
  <1>1. /\ op.pc = "construct" /\ op' = Idle /\ frames' = <<>>
        /\ UNCHANGED <<map, data, heap, calls, failures>>
    BY DEF ConstructKeeps, Done
  <1>2. HeapInv(heap) /\ NameInv /\ Complete
    BY DEF IInv
  <1>3. OpInv' /\ op'.pc \in {"idle", "undefined"} /\ op' # Undefined
    BY <1>1, OpDone DEF Idle, Undefined
  <1>4. NameInv' /\ FrameInv'
    BY <1>1, <1>2, <1>3, NamesKept, NoFrames
  <1>5. Complete'
    BY <1>1, <1>2, <1>3, SameHeap
  <1>6. calls' \in 0 .. MaxCalls /\ failures' \in 0 .. MaxFailures
    BY <1>1 DEF IInv
  <1> QED
    BY <1>1, <1>2, <1>3, <1>4, <1>5, <1>6 DEF IInv

\* Block n is new, of type t, as the data of field k of o; the rest is as it was.
Built(h, g, o, k, t, n) ==
  /\ DOMAIN g = DOMAIN h \union {n}
  /\ g[o].slots = h[o].slots /\ g[o].type = h[o].type
  /\ DOMAIN g[o].fields = DOMAIN h[o].fields
  /\ \A l \in DOMAIN h[o].fields :
       g[o].fields[l] = IF l = k THEN [data |-> n, type |-> t] ELSE h[o].fields[l]
  /\ \A x \in DOMAIN h : x # o => g[x] = h[x]
  /\ g[n] = NewBlock(t, o) /\ n # NULL

LEMMA BuiltOK ==
  ASSUME NEW h, HeapInv(h), NEW o \in DOMAIN h, h[o].type \in {"store", "list"},
         NEW k \in DOMAIN h[o].fields, h[o].fields[k].data = NULL,
         NEW t \in Type, NEW n \in Object \ DOMAIN h,
         NEW g, g = Constructed(h, o, k, t, n)
  PROVE  HeapInv(g) /\ Built(h, g, o, k, t, n)
  <1>1. PICK b : b = Filled(h[o], WithKey(h[o].fields, k, [data |-> n, type |-> t]), h[o].slots)
    OBVIOUS
  <1>2. g = Grown(h, o, b, n, NewBlock(t, o))
    BY <1>1, ConstructedIs
  <1>3. HeapInv(g)
    BY GrowOK
  <1>4. b.slots = h[o].slots /\ b.type = h[o].type
        /\ b.fields = WithKey(h[o].fields, k, [data |-> n, type |-> t])
    BY <1>1 DEF Filled
  <1>5. DOMAIN g = DOMAIN h \union {n} /\ g[o] = b /\ g[n] = NewBlock(t, o)
        /\ \A x \in DOMAIN h : x # o => g[x] = h[x]
    BY <1>2 DEF Grown
  <1>6. n # NULL
    BY ObjectAssumption
  <1>7. DOMAIN b.fields = DOMAIN h[o].fields
        /\ \A l \in DOMAIN h[o].fields :
             b.fields[l] = IF l = k THEN [data |-> n, type |-> t] ELSE h[o].fields[l]
    BY <1>4 DEF WithKey
  <1>8. Built(h, g, o, k, t, n)
    BY <1>4, <1>5, <1>6, <1>7 DEF Built
  <1> QED
    BY <1>3, <1>8

LEMMA ConstructedComplete ==
  ASSUME IInv, failures = 0, UNCHANGED <<map, data, failures>>,
         NEW o \in DOMAIN heap, heap[o].type \in {"store", "list"},
         NEW k \in DOMAIN heap[o].fields, heap[o].fields[k].data = NULL,
         NEW t \in Type, NEW n \in Object \ DOMAIN heap,
         heap' = Constructed(heap, o, k, t, n),
         op.pc \notin {"string", "slot", "copy field"},
         op'.pc \notin {"emplace", "slot", "copy field"}, op' # Undefined
  PROVE  Complete'
  <1>1. /\ DOMAIN heap' = DOMAIN heap \union {n}
        /\ heap'[o].slots = heap[o].slots /\ heap'[o].type = heap[o].type
        /\ DOMAIN heap'[o].fields = DOMAIN heap[o].fields
        /\ \A l \in DOMAIN heap[o].fields :
             heap'[o].fields[l] = IF l = k THEN [data |-> n, type |-> t] ELSE heap[o].fields[l]
        /\ \A x \in DOMAIN heap : x # o => heap'[x] = heap[x]
        /\ heap'[n] = NewBlock(t, o) /\ n # NULL
    <2>1. HeapInv(heap)
      BY DEF IInv
    <2>2. Built(heap, heap', o, k, t, n)
      BY <2>1, BuiltOK
    <2> QED
      BY <2>2 DEF Built
  <1>2. NamesComplete /\ DataComplete /\ \A s \in Stores : StoreComplete(s)
    BY DEF IInv, Complete
  <1>3. NamesComplete'
    BY <1>2 DEF NamesComplete
  <1>4. heap'[n].slots = <<>> /\ heap'[n].fields = <<>> /\ DOMAIN heap'[n].fields = {}
        /\ DOMAIN heap'[n].slots = {}
    <2>1. heap'[n].slots = <<>> /\ heap'[n].fields = <<>>
      <3>1. NewBlock(t, o).slots = <<>> /\ NewBlock(t, o).fields = <<>>
        BY DEF NewBlock
      <3> QED
        BY <1>1, <3>1, Zenon
    <2> QED
      BY <2>1, NoElements
  <1>5. DataComplete'
    <2> SUFFICES ASSUME NEW x \in DOMAIN heap', NEW l \in DOMAIN heap'[x].fields,
                        heap'[x].fields[l].type # "void"
                 PROVE  heap'[x].fields[l].data # NULL
      BY DEF DataComplete
    <2>1. x # n
      BY <1>4
    <2>2. CASE x = o
      <3>1. l \in DOMAIN heap[o].fields
        BY <1>1, <2>2
      <3>2. CASE l = k
        <4>1. heap'[o].fields[k] = [data |-> n, type |-> t]
          BY <1>1
        <4>2. heap'[x].fields[l].data = n
          <5>1. [data |-> n, type |-> t].data = n
            OBVIOUS
          <5> QED
            BY <2>2, <3>2, <4>1, <5>1, Zenon
        <4> QED
          BY <1>1, <4>2
      <3>3. CASE l # k
        BY <1>1, <1>2, <2>2, <3>1, <3>3, ZenonT(30) DEF DataComplete
      <3> QED
        BY <3>2, <3>3
    <2>3. CASE x # o
      <3>1. x \in DOMAIN heap /\ heap'[x] = heap[x]
        BY <1>1, <2>1, <2>3
      <3> QED
        BY <1>2, <3>1 DEF DataComplete
    <2> QED
      BY <2>2, <2>3
  <1>6. ASSUME NEW s \in Stores' PROVE StoreComplete(s)'
    <2>1. CASE s = n
      <3>1. IsInjective(heap'[s].slots) /\ Range(heap'[s].slots) = {}
        BY <1>4, <2>1 DEF IsInjective, Range
      <3> QED
        BY <1>4, <2>1, <3>1 DEF StoreComplete, SlotsOf
    <2>2. CASE s = o
      <3>1. StoreComplete(o)
        BY <1>1, <1>2, <2>2 DEF Stores
      <3> QED
        BY <1>1, <2>2, <3>1 DEF StoreComplete, SlotsOf
    <2>3. CASE s # n /\ s # o
      <3>1. s \in Stores /\ heap'[s] = heap[s] /\ DOMAIN data \subseteq DOMAIN data'
        BY <1>1, <2>3 DEF Stores
      <3>2. ~ HalfWay(s) /\ ~ HalfWay(s)'
        BY DEF HalfWay
      <3> QED
        BY <1>2, <3>1, <3>2, StoreKept
    <2> QED
      BY <2>1, <2>2, <2>3
  <1> QED
    BY <1>3, <1>5, <1>6 DEF Complete

LEMMA ConstructStep ==
  ASSUME IInv, Construct
  PROVE  IInv'
  <1>0. PICK o, k, t : o = op.at /\ k = op.key /\ t = op.type
    OBVIOUS
  <1>1. /\ op.pc = "construct" /\ op' = Idle /\ frames' = <<>>
        /\ UNCHANGED <<map, data, calls, failures>>
        /\ heap[o].fields[k].data = NULL
        /\ \E b \in Free : heap' = Constructed(heap, o, k, t, b)
    BY <1>0 DEF Construct, Done, Target
  <1>2. HeapInv(heap) /\ NameInv
    BY DEF IInv
  <1>3. o \in DOMAIN heap /\ heap[o].type \in {"store", "list"} /\ k \in DOMAIN heap[o].fields
    BY <1>0, <1>1 DEF IInv, OpInv, Stores, Lists
  <1>4. PICK n \in Object \ DOMAIN heap : heap' = Constructed(heap, o, k, t, n)
    BY <1>1 DEF Free
  <1>5. t \in Type
    BY <1>0, <1>1, OpForms DEF IInv, OpInv
  <1>6. HeapInv(heap')
    BY <1>1, <1>2, <1>3, <1>4, <1>5, BuiltOK
  <1>7. OpInv' /\ op'.pc \in {"idle", "undefined"} /\ op' # Undefined
    BY <1>1, OpDone DEF Idle, Undefined
  <1>8. NameInv' /\ FrameInv'
    BY <1>1, <1>2, <1>7, NamesKept, NoFrames
  <1>9. Complete'
    <2> SUFFICES ASSUME failures' = 0 PROVE Complete'
      BY DEF Complete
    <2>1. failures = 0 /\ UNCHANGED <<map, data, failures>>
      BY <1>1
    <2> QED
      BY <1>1, <1>3, <1>4, <1>5, <1>7, <2>1, ConstructedComplete
  <1>10. calls' \in 0 .. MaxCalls /\ failures' \in 0 .. MaxFailures
    BY <1>1 DEF IInv
  <1> QED
    BY <1>6, <1>7, <1>8, <1>9, <1>10 DEF IInv

LEMMA SlotRemoved ==
  ASSUME NEW S \in Seq(Index), IsInjective(S), NEW j \in DOMAIN S, NEW Q, Q = RemoveAt(S, j)
  PROVE  IsInjective(Q) /\ Range(Q) = Range(S) \ {S[j]}
  <1>1. Q \in Seq(Index) /\ Len(Q) = Len(S) - 1
    BY RemoveAtFacts
  <1>2. \A i \in 1 .. Len(S) - 1 : Q[i] = IF i < j THEN S[i] ELSE S[i + 1]
    BY RemoveAtNth
  <1>3. /\ j \in 1 .. Len(S) /\ Len(S) \in Nat /\ DOMAIN S = 1 .. Len(S)
        /\ DOMAIN Q = 1 .. Len(S) - 1
    BY <1>1
  <1> DEFINE at(i) == IF i < j THEN i ELSE i + 1
  <1>4. \A i \in DOMAIN Q : at(i) \in DOMAIN S /\ at(i) # j /\ Q[i] = S[at(i)]
    BY <1>2, <1>3
  <1>5. \A i, l \in DOMAIN Q : at(i) = at(l) => i = l
    BY <1>3
  <1>6. \A l \in DOMAIN S : l # j => \E i \in DOMAIN Q : at(i) = l
    <2> SUFFICES ASSUME NEW l \in DOMAIN S, l # j PROVE \E i \in DOMAIN Q : at(i) = l
      OBVIOUS
    <2>1. CASE l < j
      BY <1>3, <2>1
    <2>2. CASE ~ (l < j)
      <3>1. l - 1 \in DOMAIN Q /\ at(l - 1) = l
        BY <1>3, <2>2
      <3> QED
        BY <3>1
    <2> QED
      BY <2>1, <2>2
  <1> HIDE DEF at
  <1>7. IsInjective(Q)
    BY <1>4, <1>5 DEF IsInjective
  <1>8. Range(Q) = Range(S) \ {S[j]}
    <2>1. ASSUME NEW i \in DOMAIN Q PROVE Q[i] \in Range(S) \ {S[j]}
      BY <1>4 DEF Range, IsInjective
    <2>2. ASSUME NEW l \in DOMAIN S, S[l] # S[j] PROVE S[l] \in Range(Q)
      BY <1>4, <1>6, <2>2 DEF Range
    <2> QED
      BY <2>1, <2>2 DEF Range
  <1> QED
    BY <1>7, <1>8

LEMMA RemoveFieldStep ==
  ASSUME IInv, NEW s \in Stores, NEW n \in Name, RemoveField(s, n)
  PROVE  IInv'
  <1>0. PICK k, P, j : /\ k = map[n] /\ P = {i \in DOMAIN heap[s].slots : heap[s].slots[i] = k}
                       /\ j = Min(P)
    OBVIOUS
  <1>1. /\ op = Idle /\ calls < MaxCalls /\ calls' = calls + 1 /\ k \in DOMAIN heap[s].fields
        /\ IF P = {} THEN UndefinedBehaviour
           ELSE /\ heap' = Without(Content(s, k), [heap EXCEPT
                     ![s].fields = Restrict(@, DOMAIN @ \ {k}), ![s].slots = RemoveAt(@, j)])
                /\ UNCHANGED <<map, data, op, frames, failures>>
    BY <1>0 DEF RemoveField, Begin
  <1>2. /\ HeapInv(heap) /\ NameInv /\ Complete
        /\ s \in DOMAIN heap /\ heap[s].type = "store" /\ heap[s].slots \in Seq(Index)
    BY DEF IInv, Stores, HeapInv, IsBlock
  <1>3. calls' \in 0 .. MaxCalls
    BY <1>1, BoundAssumption DEF IInv
  <1>4. op.pc = "idle" /\ frames = <<>>
    <2>1. op.pc = "idle"
      BY <1>1 DEF Idle
    <2> QED
      BY <2>1, NotCopying DEF IInv
  <1>5. ASSUME failures = 0 PROVE StoreComplete(s) /\ SlotsOf(s) = DOMAIN heap[s].fields /\ P # {}
    <2>1. StoreComplete(s)
      BY <1>2, <1>5 DEF Complete
    <2>2. SlotsOf(s) = DOMAIN heap[s].fields
      BY <1>4, <2>1 DEF StoreComplete
    <2>3. \E i \in DOMAIN heap[s].slots : heap[s].slots[i] = k
      BY <1>1, <2>2 DEF SlotsOf, Range
    <2> QED
      BY <1>0, <2>1, <2>2, <2>3
  <1>6. CASE P = {}
    <2>1. op' = Undefined /\ frames' = <<>> /\ UNCHANGED <<map, data, heap, failures>>
      BY <1>1, <1>6 DEF UndefinedBehaviour
    <2>2. OpInv' /\ op'.pc \in {"idle", "undefined"}
      BY <2>1, OpDone
    <2>3. NameInv' /\ FrameInv'
      BY <1>2, <2>1, <2>2, NamesKept, NoFrames
    <2>4. Complete'
      BY <1>5, <1>6, <2>1 DEF Complete
    <2> QED
      BY <1>2, <1>3, <2>1, <2>2, <2>3, <2>4 DEF IInv
  <1>7. CASE P # {}
    <2>0. PICK F, S, R : /\ F = Restrict(heap[s].fields, DOMAIN heap[s].fields \ {k})
                         /\ S = RemoveAt(heap[s].slots, j) /\ R = Content(s, k)
      OBVIOUS
    <2>1. /\ op' = Idle /\ frames' = <<>> /\ UNCHANGED <<map, data, failures>>
          /\ heap' = Without(Content(s, k), [heap EXCEPT
                ![s].fields = Restrict(@, DOMAIN @ \ {k}), ![s].slots = RemoveAt(@, j)])
      BY <1>1, <1>4, <1>7
    <2>2. j \in DOMAIN heap[s].slots /\ heap[s].slots[j] = k
      <3>1. P \subseteq Nat
        BY <1>0, <1>2
      <3>2. j \in P
        BY <1>0, <1>7, <3>1, MinFacts
      <3> QED
        BY <1>0, <3>2
    <2>3. HeapInv(heap') /\ Changed(heap, heap', s, F, S, R)
      BY <1>1, <1>2, <2>0, <2>1, <2>2, FieldRemoved
    <2>4. OpInv' /\ op'.pc \in {"idle", "undefined"} /\ op' # Undefined
      BY <2>1, OpDone DEF Idle, Undefined
    <2>5. NameInv' /\ FrameInv'
      BY <1>2, <2>1, <2>4, NamesKept, NoFrames
    <2>6. Complete'
      <3> SUFFICES ASSUME failures' = 0 PROVE Complete'
        BY DEF Complete
      <3>1. failures = 0
        BY <2>1
      <3>2. DataComplete /\ StoreComplete(s) /\ SlotsOf(s) = DOMAIN heap[s].fields
        BY <1>2, <1>5, <3>1 DEF Complete
      <3>3. DOMAIN F = DOMAIN heap[s].fields \ {k} /\ \A l \in DOMAIN F : F[l] = heap[s].fields[l]
        BY <2>0 DEF Restrict
      <3>4. \A l \in DOMAIN F : F[l].type # "void" => F[l].data # NULL
        BY <1>2, <3>2, <3>3 DEF DataComplete
      <3>5. StoreComplete(s)'
        <4>1. PICK Q : Q = heap[s].slots
          OBVIOUS
        <4>2. Q \in Seq(Index) /\ IsInjective(Q) /\ j \in DOMAIN Q /\ S = RemoveAt(Q, j)
          BY <1>2, <2>0, <2>2, <3>2, <4>1 DEF StoreComplete
        <4>3. IsInjective(S) /\ Range(S) = Range(Q) \ {Q[j]}
          BY <4>2, SlotRemoved
        <4>4. heap'[s].fields = F /\ heap'[s].slots = S
          BY <2>3 DEF Changed
        <4>5. Range(S) = DOMAIN F
          BY <2>2, <3>2, <3>3, <4>1, <4>3 DEF SlotsOf
        <4>6. Range(S) \subseteq DOMAIN data'
          BY <2>1, <3>2, <3>3, <4>5 DEF StoreComplete
        <4> QED
          BY <2>4, <4>3, <4>4, <4>5, <4>6 DEF StoreComplete, SlotsOf
      <3>6. \A x \in Stores' : x # s => ~ HalfWay(x) /\ ~ HalfWay(x)'
        BY <1>4, <2>4 DEF HalfWay
      <3>7. op.pc # "string" /\ op'.pc # "emplace" /\ UNCHANGED <<map, data, failures>>
        BY <1>4, <2>1, <2>4
      <3> QED
        BY <1>2, <2>3, <2>4, <3>1, <3>4, <3>5, <3>6, <3>7, ChangedComplete
    <2>7. failures' \in 0 .. MaxFailures
      BY <2>1 DEF IInv
    <2> QED
      BY <1>3, <2>3, <2>4, <2>5, <2>6, <2>7 DEF IInv
  <1> QED
    BY <1>6, <1>7

LEMMA ListEraseStep ==
  ASSUME IInv, NEW l \in Lists, NEW i, ListErase(l, i)
  PROVE  IInv'
  <1>0. PICK F, R : F = RemoveAt(heap[l].fields, i) /\ R = Content(l, i)
    OBVIOUS
  <1>1. /\ op = Idle /\ calls < MaxCalls /\ calls' = calls + 1 /\ i \in DOMAIN heap[l].fields
        /\ heap' = Without(Content(l, i), [heap EXCEPT ![l].fields = RemoveAt(@, i)])
        /\ UNCHANGED <<map, data, op, frames, failures>>
    BY DEF ListErase, Begin
  <1>2. /\ HeapInv(heap) /\ NameInv /\ Complete
        /\ l \in DOMAIN heap /\ heap[l].type = "list" /\ heap[l].fields \in Seq(FieldType)
    BY DEF IInv, Lists, HeapInv, IsBlock
  <1>3. op.pc = "idle" /\ frames' = <<>> /\ op' = Idle
    <2>1. op.pc = "idle"
      BY <1>1 DEF Idle
    <2> QED
      BY <1>1, <2>1, NotCopying DEF IInv
  <1>4. HeapInv(heap') /\ Changed(heap, heap', l, F, heap[l].slots, R)
    BY <1>0, <1>1, <1>2, ElementErased
  <1>5. OpInv' /\ op'.pc \in {"idle", "undefined"} /\ op' # Undefined
    BY <1>3, OpDone DEF Idle, Undefined
  <1>6. NameInv' /\ FrameInv'
    BY <1>1, <1>2, <1>3, <1>5, NamesKept, NoFrames
  <1>7. Complete'
    <2> SUFFICES ASSUME failures' = 0 PROVE Complete'
      BY DEF Complete
    <2>1. failures = 0
      BY <1>1
    <2>2. DataComplete
      BY <1>2, <2>1 DEF Complete
    <2>3. \A j \in DOMAIN F : \E k \in DOMAIN heap[l].fields : F[j] = heap[l].fields[k]
      BY <1>0, <1>1, <1>2, RemovedFields
    <2>4. \A j \in DOMAIN F : F[j].type # "void" => F[j].data # NULL
      BY <1>2, <2>2, <2>3 DEF DataComplete
    <2>5. l \notin Stores
      BY <1>2 DEF Stores
    <2>6. \A x \in Stores' : x # l => ~ HalfWay(x) /\ ~ HalfWay(x)'
      BY <1>3, <1>5 DEF HalfWay
    <2>7. op.pc # "string" /\ op'.pc # "emplace" /\ UNCHANGED <<map, data, failures>>
      BY <1>1, <1>3, <1>5
    <2> QED
      BY <1>2, <1>4, <1>5, <2>1, <2>4, <2>5, <2>6, <2>7, ChangedComplete
  <1>8. calls' \in 0 .. MaxCalls /\ failures' \in 0 .. MaxFailures
    BY <1>1, BoundAssumption DEF IInv
  <1> QED
    BY <1>4, <1>5, <1>6, <1>7, <1>8 DEF IInv

\* Clearing a store or a list, alone or at the beginning of a copy.
LEMMA ClearedComplete ==
  ASSUME IInv, failures = 0, UNCHANGED <<map, data, failures>>,
         NEW o \in DOMAIN heap, heap' = Cleared(o),
         op = Idle, op'.pc \in {"idle", "copy"}, op' # Undefined
  PROVE  Complete'
  <1>1. PICK e, R : e = <<>> /\ R = Below(o)
    OBVIOUS
  <1>2. Complete /\ HeapInv(heap)
    BY DEF IInv
  <1>3. Changed(heap, heap', o, e, e, R)
    BY <1>1, <1>2, ClearedOK
  <1>4. op.pc = "idle"
    BY DEF Idle
  <1>5. DOMAIN e = {}
    BY <1>1, NoElements
  <1>6. \A l \in DOMAIN e : e[l].type # "void" => e[l].data # NULL
    BY <1>5
  <1>7. StoreComplete(o)'
    <2>1. heap'[o].slots = e /\ heap'[o].fields = e
      BY <1>3 DEF Changed
    <2>2. IsInjective(e) /\ Range(e) = {}
      BY <1>5 DEF IsInjective, Range
    <2> QED
      BY <1>5, <2>1, <2>2 DEF StoreComplete, SlotsOf
  <1>8. \A x \in Stores' : x # o => ~ HalfWay(x) /\ ~ HalfWay(x)'
    BY <1>4 DEF HalfWay
  <1>9. op.pc # "string" /\ op'.pc # "emplace"
    BY <1>4
  <1> QED
    BY <1>2, <1>3, <1>6, <1>7, <1>8, <1>9, ChangedComplete

LEMMA ClearStep ==
  ASSUME IInv, NEW o \in DOMAIN heap, Clear(o)
  PROVE  IInv'
  <1>1. /\ op = Idle /\ calls < MaxCalls /\ calls' = calls + 1 /\ heap' = Cleared(o)
        /\ UNCHANGED <<map, data, op, frames, failures>>
    BY DEF Clear, Begin
  <1>2. HeapInv(heap) /\ NameInv /\ Complete
    BY DEF IInv
  <1>3. op.pc = "idle" /\ frames' = <<>> /\ op' = Idle
    <2>1. op.pc = "idle"
      BY <1>1 DEF Idle
    <2> QED
      BY <1>1, <2>1, NotCopying DEF IInv
  <1>4. HeapInv(heap')
    BY <1>1, <1>2, ClearedOK
  <1>5. OpInv' /\ op'.pc \in {"idle", "undefined"} /\ op' # Undefined /\ op'.pc = "idle"
    BY <1>3, OpDone DEF Idle, Undefined
  <1>6. NameInv' /\ FrameInv'
    BY <1>1, <1>2, <1>3, <1>5, NamesKept, NoFrames
  <1>7. Complete'
    <2> SUFFICES ASSUME failures' = 0 PROVE Complete'
      BY DEF Complete
    <2>1. failures = 0 /\ UNCHANGED <<map, data, failures>>
      BY <1>1
    <2> QED
      BY <1>1, <1>5, <2>1, ClearedComplete
  <1>8. calls' \in 0 .. MaxCalls /\ failures' \in 0 .. MaxFailures
    BY <1>1, BoundAssumption DEF IInv
  <1> QED
    BY <1>4, <1>5, <1>6, <1>7, <1>8 DEF IInv

----------------------------------------------------------------------------
(* The steps of a copy.                                                    *)

\* The stores that are copied are none of the copies.
LEMMA CopyFacts ==
  ASSUME IInv, Copying
  PROVE  /\ Len(frames) \in DOMAIN frames /\ DOMAIN frames = 1 .. Len(frames)
         /\ 1 \in DOMAIN frames /\ Len(frames) \in Nat \ {0}
         /\ \A j \in DOMAIN frames : frames[j] \in [dst : Block, src : Block, i : Nat \ {0}]
         /\ \A j \in DOMAIN frames :
              /\ frames[j].dst \in Stores /\ frames[j].src \in Stores
              /\ frames[j].dst \in Tree(heap, frames[1].dst)
              /\ frames[j].src \in Tree(heap, frames[1].src)
              /\ frames[j].dst \notin Tree(heap, frames[1].src)
              /\ frames[j].src \notin Tree(heap, frames[1].dst)
         /\ \A j, l \in DOMAIN frames : frames[j].src # frames[l].dst
         /\ \A j, l \in DOMAIN frames : frames[l].dst = frames[j].dst => l = j
  <1>1. FrameInv /\ HeapInv(heap)
    BY DEF IInv
  <1>2. frames # <<>> /\ frames \in Seq([dst : Block, src : Block, i : Nat \ {0}])
    BY <1>1 DEF FrameInv
  <1>3. /\ Len(frames) \in DOMAIN frames /\ DOMAIN frames = 1 .. Len(frames)
        /\ 1 \in DOMAIN frames /\ Len(frames) \in Nat \ {0}
        /\ \A j \in DOMAIN frames : frames[j] \in [dst : Block, src : Block, i : Nat \ {0}]
    <2>1. PICK T, f : T = [dst : Block, src : Block, i : Nat \ {0}] /\ f = frames
      OBVIOUS
    <2>2. f \in Seq(T) /\ f # <<>>
      BY <1>2, <2>1
    <2>3. /\ Len(f) \in DOMAIN f /\ DOMAIN f = 1 .. Len(f) /\ 1 \in DOMAIN f /\ Len(f) \in Nat \ {0}
          /\ \A j \in DOMAIN f : f[j] \in T
      <3>1. Len(f) \in Nat /\ DOMAIN f = 1 .. Len(f) /\ Len(f) # 0
        BY <2>2
      <3> QED
        BY <2>2, <3>1
    <2> QED
      BY <2>1, <2>3, Zenon
  <1>4. \A j \in DOMAIN frames :
              /\ frames[j].dst \in Stores /\ frames[j].src \in Stores
              /\ frames[j].dst \in Tree(heap, frames[1].dst)
              /\ frames[j].src \in Tree(heap, frames[1].src)
              /\ \A l \in DOMAIN frames : frames[l].dst = frames[j].dst => l = j
    BY <1>1 DEF FrameInv, FrameOK
  <1>5. Tree(heap, frames[1].dst) \intersect Tree(heap, frames[1].src) = {}
    <2>1. frames[1].dst \in DOMAIN heap /\ frames[1].src \in DOMAIN heap
      BY <1>3, <1>4 DEF Stores
    <2>2. frames[1].dst \notin Tree(heap, frames[1].src) /\ frames[1].src \notin Tree(heap, frames[1].dst)
      BY <1>1, <1>2 DEF FrameInv
    <2> QED
      BY <1>1, <2>1, <2>2, TreesApart
  <1>6. \A j \in DOMAIN frames :
          frames[j].dst \notin Tree(heap, frames[1].src) /\ frames[j].src \notin Tree(heap, frames[1].dst)
    BY <1>4, <1>5
  <1>7. \A j, l \in DOMAIN frames : frames[j].src # frames[l].dst
    BY <1>4, <1>6
  <1> QED
    BY <1>3, <1>4, <1>6, <1>7

\* The slots that have been copied, and the next one.
LEMMA SlotsCopied ==
  ASSUME NEW S \in Seq(Index), NEW i \in DOMAIN S, NEW D, D = SubSeq(S, 1, i - 1)
  PROVE  /\ Append(D, S[i]) = SubSeq(S, 1, i)
         /\ IsInjective(S) => S[i] \notin Range(D)
  <1>1. i \in 1 .. Len(S) /\ Len(S) \in Nat
    OBVIOUS
  <1>2. /\ D \in Seq(Index) /\ Len(D) = i - 1 /\ DOMAIN D = 1 .. i - 1
        /\ \A j \in 1 .. i - 1 : D[j] = S[j]
    BY <1>1
  <1>3. Append(D, S[i]) = SubSeq(S, 1, i)
    <2>1. /\ Append(D, S[i]) \in Seq(Index) /\ Len(Append(D, S[i])) = i
          /\ \A j \in 1 .. i : Append(D, S[i])[j] = S[j]
      BY <1>1, <1>2
    <2>2. /\ SubSeq(S, 1, i) \in Seq(Index) /\ Len(SubSeq(S, 1, i)) = i
          /\ \A j \in 1 .. i : SubSeq(S, 1, i)[j] = S[j]
      BY <1>1
    <2> QED
      BY <2>1, <2>2, SeqEqual
  <1>4. ASSUME IsInjective(S) PROVE S[i] \notin Range(D)
    BY <1>1, <1>2, <1>4 DEF IsInjective, Range
  <1> QED
    BY <1>3, <1>4

\* A frame stays as it is, in a heap with the same slots in its stores.
LEMMA FrameStays ==
  ASSUME NEW j, FrameOK(j), frames'[j].dst = frames[j].dst, frames'[j].src = frames[j].src,
         frames'[j].i <= Len(heap[frames[j].src].slots) + 1,
         frames'[1].dst = frames[1].dst, frames'[1].src = frames[1].src,
         Tree(heap, frames[1].dst) \subseteq Tree(heap', frames[1].dst),
         Tree(heap, frames[1].src) \subseteq Tree(heap', frames[1].src),
         frames[j].dst \in Stores', frames[j].src \in Stores',
         heap'[frames[j].src].slots = heap[frames[j].src].slots,
         heap'[frames[j].dst].slots = SubSeq(heap[frames[j].src].slots, 1, Appended(j)'),
         \A l \in DOMAIN frames' : frames'[l].dst = frames[j].dst => l = j
  PROVE  FrameOK(j)'
  BY DEF FrameOK

LEMMA CopySlotStep ==
  ASSUME IInv, CopySlot
  PROVE  IInv'
  <1>0. PICK n, d, s, i, Q, D, k :
          /\ n = Len(frames) /\ d = frames[n].dst /\ s = frames[n].src /\ i = frames[n].i
          /\ Q = heap[s].slots /\ D = heap[d].slots /\ k = Q[i]
    OBVIOUS
  <1>1. /\ op.pc = "copy" /\ ~ (i > Len(Q)) /\ UNCHANGED calls
        /\ IF k > Len(data) THEN UndefinedBehaviour
           ELSE /\ heap' = [heap EXCEPT ![d].slots = Append(@, map[data[k]])]
                /\ op' = [pc |-> "copy field", key |-> map[data[k]], from |-> k]
                /\ UNCHANGED <<map, data, frames, failures>>
    BY <1>0 DEF CopySlot, Running, AtEnd
  <1>2. HeapInv(heap) /\ NameInv /\ Complete /\ FrameInv /\ Copying
    BY <1>1 DEF IInv, Copying
  <1>3. calls' \in 0 .. MaxCalls
    BY <1>1 DEF IInv
  <1>4. /\ n \in DOMAIN frames /\ 1 \in DOMAIN frames /\ i \in Nat \ {0}
        /\ d \in Stores /\ s \in Stores /\ s # d
    BY <1>0, <1>2, CopyFacts
  <1>5. /\ d \in DOMAIN heap /\ heap[d].type = "store" /\ D \in Seq(Index)
        /\ s \in DOMAIN heap /\ heap[s].type = "store" /\ Q \in Seq(Index)
    BY <1>0, <1>2, <1>4 DEF Stores, HeapInv, IsBlock
  <1>6. i \in DOMAIN Q /\ k \in Index /\ k \in Range(Q) /\ i <= Len(Q) /\ Len(Q) \in Nat
    <2>0. DOMAIN Q = 1 .. Len(Q) /\ Len(Q) \in Nat
      BY <1>5, LenProperties
    <2>1. i \in DOMAIN Q /\ i <= Len(Q) /\ Len(Q) \in Nat
      <3>1. ~ (i > Len(Q)) /\ i \in Nat \ {0}
        BY <1>1, <1>4
      <3> QED
        BY <2>0, <3>1
    <2> QED
      BY <1>0, <1>5, <2>1 DEF Range
  <1>7. Len(data) \in Nat /\ DOMAIN data = 1 .. Len(data) /\ k \in Nat \ {0}
    BY <1>2, <1>6, DataBound, IndexFacts
  <1>8. CASE k > Len(data)
    <2>1. op' = Undefined /\ frames' = <<>> /\ UNCHANGED <<map, data, heap, failures>>
      BY <1>1, <1>8 DEF UndefinedBehaviour
    <2>2. OpInv' /\ op'.pc \in {"idle", "undefined"}
      BY <2>1, OpDone
    <2>3. NameInv' /\ FrameInv'
      BY <1>2, <2>1, <2>2, NamesKept, NoFrames
    <2>4. failures # 0
      <3> SUFFICES ASSUME failures = 0 PROVE FALSE
        OBVIOUS
      <3>1. StoreComplete(s)
        BY <1>2, <1>4 DEF Complete
      <3>2. k \in DOMAIN data
        BY <1>0, <1>6, <3>1 DEF StoreComplete, SlotsOf
      <3> QED
        BY <1>7, <1>8, <3>2
    <2>5. Complete'
      BY <2>1, <2>4 DEF Complete
    <2>6. failures' \in 0 .. MaxFailures
      BY <2>1 DEF IInv
    <2> QED
      BY <1>2, <1>3, <2>1, <2>2, <2>3, <2>5, <2>6 DEF IInv
  <1>9. CASE ~ (k > Len(data))
    <2>1. k \in DOMAIN data /\ map[data[k]] = k
      BY <1>2, <1>7, <1>9 DEF NameInv
    <2>2. /\ heap' = [heap EXCEPT ![d].slots = Append(@, k)]
          /\ op' = [pc |-> "copy field", key |-> k, from |-> k]
          /\ UNCHANGED <<map, data, frames, failures>>
      BY <1>1, <1>9, <2>1
    <2>3. /\ HeapInv(heap') /\ SameTrees(heap, heap')
          /\ Changed(heap, heap', d, heap[d].fields, Append(D, k), {})
      BY <1>0, <1>2, <1>5, <1>6, <2>2, SlotAdded
    <2>4. /\ DOMAIN heap' = DOMAIN heap /\ Stores' = Stores
          /\ heap'[d].slots = Append(D, k) /\ heap'[d].fields = heap[d].fields
          /\ \A x \in DOMAIN heap : x # d => heap'[x] = heap[x]
      <3>1. Stores' = Stores \ {}
        BY <2>3, StoresChanged
      <3> QED
        BY <2>3, <3>1 DEF Changed
    <2>5. op'.pc = "copy field" /\ op'.key = k /\ op'.from = k /\ op' # Undefined
      BY <2>2 DEF Undefined
    <2>6. NameInv'
      BY <1>2, <2>2, <2>5, NamesKept
    <2>7. Running'.src = s /\ Running'.dst = d /\ Running'.i = i
      BY <1>0, <2>2 DEF Running
    <2>8. OpInv'
      <3>1. op' \in OpType
        BY <1>6, <2>2 DEF OpType
      <3>2. heap'[s].slots = Q
        BY <1>0, <1>4, <1>5, <2>4
      <3>3. ~ AtEnd(Running)'
        BY <1>1, <2>7, <3>2 DEF AtEnd
      <3>4. op'.from = heap'[Running'.src].slots[Running'.i]
        BY <1>0, <2>5, <2>7, <3>2
      <3> QED
        BY <2>5, <3>1, <3>3, <3>4 DEF OpInv
    <2>9. D = SubSeq(Q, 1, i - 1)
      BY <1>0, <1>1, <1>2, <1>4 DEF FrameInv, FrameOK, Appended
    <2>10. FrameInv'
      <3>1. \A j \in DOMAIN frames : frames[j].dst \in DOMAIN heap /\ frames[j].src \in DOMAIN heap
        BY <1>2, CopyFacts DEF Stores
      <3>2. Tree(heap', frames[1].dst) = Tree(heap, frames[1].dst)
            /\ Tree(heap', frames[1].src) = Tree(heap, frames[1].src)
        BY <1>4, <2>3, <3>1 DEF SameTrees
      <3>3. ASSUME NEW j \in DOMAIN frames PROVE FrameOK(j)'
        <4>1. FrameOK(j)
          BY <1>2 DEF FrameInv
        <4>2. /\ frames[j].dst \in Stores' /\ frames[j].src \in Stores' /\ frames[j].src # d
              /\ frames[j].dst = d => j = n
              /\ \A l \in DOMAIN frames' : frames'[l].dst = frames[j].dst => l = j
          BY <1>0, <1>2, <1>4, <2>2, <2>4, CopyFacts
        <4>3. heap'[frames[j].src].slots = heap[frames[j].src].slots
          BY <2>4, <3>1, <4>2
        <4>4. heap'[frames[j].dst].slots = SubSeq(heap[frames[j].src].slots, 1, Appended(j)')
          <5>1. CASE j = n
            <6>1. Appended(j)' = i
              BY <1>0, <2>2, <2>5, <5>1 DEF Appended
            <6>2. Append(D, k) = SubSeq(Q, 1, i)
              BY <1>0, <1>5, <1>6, <2>9, SlotsCopied
            <6> QED
              BY <1>0, <2>4, <5>1, <6>1, <6>2
          <5>2. CASE j # n
            <6>1. Appended(j)' = Appended(j)
              BY <1>0, <2>2, <5>2 DEF Appended
            <6>2. heap'[frames[j].dst] = heap[frames[j].dst]
              BY <2>4, <3>1, <4>2, <5>2
            <6> QED
              BY <4>1, <6>1, <6>2 DEF FrameOK
          <5> QED
            BY <5>1, <5>2
        <4>5. frames[j].i <= Len(heap[frames[j].src].slots) + 1
          BY <4>1 DEF FrameOK
        <4> QED
          BY <2>2, <3>2, <4>1, <4>2, <4>3, <4>4, <4>5, FrameStays
      <3>4. Copying'
        BY <2>5 DEF Copying
      <3> QED
        BY <1>2, <2>2, <3>2, <3>3, <3>4 DEF FrameInv
    <2>11. Complete'
      <3> SUFFICES ASSUME failures' = 0 PROVE Complete'
        BY DEF Complete
      <3>1. failures = 0 /\ op.pc # "string" /\ op'.pc # "emplace" /\ UNCHANGED <<map, data, failures>>
        BY <1>1, <2>2, <2>5
      <3>2. StoreComplete(s) /\ StoreComplete(d) /\ DataComplete
        BY <1>2, <1>4, <3>1 DEF Complete
      <3>3. \A l \in DOMAIN heap[d].fields :
              heap[d].fields[l].type # "void" => heap[d].fields[l].data # NULL
        BY <1>5, <3>2 DEF DataComplete
      <3>4. IsInjective(Q) /\ IsInjective(D)
        BY <1>0, <3>2 DEF StoreComplete
      <3>5. DOMAIN heap[d].fields = Range(D) /\ Range(D) \subseteq DOMAIN data
        BY <1>0, <1>1, <3>2 DEF StoreComplete, SlotsOf
      <3>6. k \notin Range(D)
        BY <1>0, <1>5, <1>6, <2>9, <3>4, SlotsCopied
      <3>7. PICK A : A = Append(D, k)
        OBVIOUS
      <3>8. IsInjective(A) /\ Range(A) = Range(D) \union {k}
        BY <1>5, <1>6, <3>4, <3>6, <3>7, FreshAppended
      <3>9. StoreComplete(d)'
        BY <2>1, <2>2, <2>4, <2>5, <2>7, <3>5, <3>6, <3>7, <3>8 DEF StoreComplete, SlotsOf
      <3>10. \A x \in Stores' : x # d => ~ HalfWay(x) /\ ~ HalfWay(x)'
        BY <1>1, <2>5, <2>7 DEF HalfWay
      <3> QED
        BY <1>2, <2>3, <2>5, <3>1, <3>3, <3>9, <3>10, ChangedComplete
    <2>12. failures' \in 0 .. MaxFailures
      BY <2>2 DEF IInv
    <2> QED
      BY <1>3, <2>3, <2>6, <2>8, <2>10, <2>11, <2>12 DEF IInv
  <1> QED
    BY <1>8, <1>9

LEMMA CopyFieldStep ==
  ASSUME IInv, CopyField
  PROVE  IInv'
  <1>0. PICK n, d, s, i, k, F :
          /\ n = Len(frames) /\ d = frames[n].dst /\ s = frames[n].src /\ i = frames[n].i
          /\ k = op.key
          /\ F = IF k \in DOMAIN heap[d].fields THEN heap[d].fields
                 ELSE WithKey(heap[d].fields, k, EmptyField)
    OBVIOUS
  <1>1. /\ op.pc = "copy field" /\ UNCHANGED <<map, data, frames, calls, failures>>
        /\ heap' = IF k \in DOMAIN heap[d].fields THEN heap ELSE SetField(heap, d, k, EmptyField)
        /\ op' = [op EXCEPT !.pc = "copy construct"]
    BY <1>0 DEF CopyField, Running, Goto
  <1>2. HeapInv(heap) /\ NameInv /\ Complete /\ FrameInv /\ OpInv /\ Copying
    BY <1>1 DEF IInv, Copying
  <1>3. calls' \in 0 .. MaxCalls /\ failures' \in 0 .. MaxFailures
    BY <1>1 DEF IInv
  <1>4. /\ n \in DOMAIN frames /\ 1 \in DOMAIN frames
        /\ d \in Stores /\ s \in Stores /\ s # d
        /\ d \in DOMAIN heap /\ s \in DOMAIN heap /\ heap[d].type = "store"
    BY <1>0, <1>2, CopyFacts DEF Stores
  <1>5. /\ op = [pc |-> op.pc, key |-> op.key, from |-> op.from]
        /\ k \in Index /\ op.from \in Index
        /\ op.from = heap[s].slots[i] /\ ~ (i > Len(heap[s].slots)) /\ op.from = k
    BY <1>0, <1>1, <1>2, OpForms DEF OpInv, Running, AtEnd
  <1>6. op' = [pc |-> "copy construct", key |-> k, from |-> k]
    BY <1>0, <1>1, <1>5
  <1>7. op'.pc = "copy construct" /\ op'.key = k /\ op'.from = k /\ op' # Undefined
    BY <1>6 DEF Undefined
  <1>8. /\ HeapInv(heap') /\ SameTrees(heap, heap')
        /\ Changed(heap, heap', d, F, heap[d].slots, {})
    <2>1. CASE k \in DOMAIN heap[d].fields
      BY <1>0, <1>1, <1>2, <1>4, <2>1 DEF SameTrees, Changed
    <2>2. CASE k \notin DOMAIN heap[d].fields
      BY <1>0, <1>1, <1>2, <1>4, <1>5, <2>2, SetNull, EmptyFieldType
    <2> QED
      BY <2>1, <2>2
  <1>9. Stores' = Stores
    <2>1. Stores' = Stores \ {}
      BY <1>8, StoresChanged
    <2> QED
      BY <2>1
  <1>10. /\ heap'[d].fields = F /\ DOMAIN F = DOMAIN heap[d].fields \union {k}
         /\ \A l \in DOMAIN F : F[l] = IF l \in DOMAIN heap[d].fields THEN heap[d].fields[l] ELSE EmptyField
         /\ \A x \in DOMAIN heap : heap'[x].slots = heap[x].slots /\ (x # d => heap'[x] = heap[x])
    <2>1. DOMAIN F = DOMAIN heap[d].fields \union {k}
         /\ \A l \in DOMAIN F : F[l] = IF l \in DOMAIN heap[d].fields THEN heap[d].fields[l] ELSE EmptyField
      BY <1>0 DEF WithKey
    <2> QED
      BY <1>8, <2>1 DEF Changed
  <1>11. NameInv'
    BY <1>1, <1>2, <1>7, NamesKept
  <1>12. Running'.src = s /\ Running'.dst = d /\ Running'.i = i
    BY <1>0, <1>1 DEF Running
  <1>13. OpInv'
    <2>1. op' \in OpType
      BY <1>5, <1>6 DEF OpType
    <2>2. heap'[s].slots = heap[s].slots
      BY <1>4, <1>10
    <2>3. ~ AtEnd(Running)' /\ op'.from = heap'[Running'.src].slots[Running'.i]
      BY <1>5, <1>7, <1>12, <2>2 DEF AtEnd
    <2>4. op'.key \in DOMAIN heap'[Running'.dst].fields
      BY <1>7, <1>10, <1>12
    <2> QED
      BY <1>7, <2>1, <2>3, <2>4 DEF OpInv
  <1>14. FrameInv'
    <2>1. \A j \in DOMAIN frames : frames[j].dst \in DOMAIN heap /\ frames[j].src \in DOMAIN heap
      BY <1>2, CopyFacts DEF Stores
    <2>2. Tree(heap', frames[1].dst) = Tree(heap, frames[1].dst)
          /\ Tree(heap', frames[1].src) = Tree(heap, frames[1].src)
      BY <1>4, <1>8, <2>1 DEF SameTrees
    <2>3. ASSUME NEW j \in DOMAIN frames PROVE FrameOK(j)'
      <3>1. FrameOK(j)
        BY <1>2 DEF FrameInv
      <3>2. /\ frames[j].dst \in Stores' /\ frames[j].src \in Stores'
            /\ \A l \in DOMAIN frames' : frames'[l].dst = frames[j].dst => l = j
        BY <1>1, <1>2, <1>9, CopyFacts
      <3>3. Appended(j)' = Appended(j)
        BY <1>1, <1>7 DEF Appended
      <3>4. frames[j].i <= Len(heap[frames[j].src].slots) + 1
            /\ heap'[frames[j].src].slots = heap[frames[j].src].slots
            /\ heap'[frames[j].dst].slots = SubSeq(heap[frames[j].src].slots, 1, Appended(j)')
        BY <1>10, <2>1, <3>1, <3>3 DEF FrameOK
      <3> QED
        BY <1>1, <2>2, <3>1, <3>2, <3>4, FrameStays
    <2>4. Copying'
      BY <1>7 DEF Copying
    <2> QED
      BY <1>1, <1>2, <2>2, <2>3, <2>4 DEF FrameInv
  <1>15. Complete'
    <2> SUFFICES ASSUME failures' = 0 PROVE Complete'
      BY DEF Complete
    <2>1. failures = 0 /\ op.pc # "string" /\ op'.pc # "emplace" /\ UNCHANGED <<map, data, failures>>
      BY <1>1, <1>7
    <2>2. StoreComplete(d) /\ DataComplete
      BY <1>2, <1>4, <2>1 DEF Complete
    <2>3. \A l \in DOMAIN F : F[l].type # "void" => F[l].data # NULL
      BY <1>4, <1>10, <2>2, EmptyFieldType DEF DataComplete
    <2>4. StoreComplete(d)'
      <3>1. /\ IsInjective(heap[d].slots) /\ Range(heap[d].slots) = DOMAIN heap[d].fields \union {k}
            /\ Range(heap[d].slots) \subseteq DOMAIN data
        BY <1>0, <1>1, <2>2 DEF StoreComplete, SlotsOf, Running
      <3>2. heap'[d].slots = heap[d].slots /\ DOMAIN heap'[d].fields = DOMAIN heap[d].fields \union {k}
        BY <1>4, <1>10
      <3> QED
        BY <1>1, <1>7, <3>1, <3>2 DEF StoreComplete, SlotsOf
    <2>5. \A x \in Stores' : x # d => ~ HalfWay(x) /\ ~ HalfWay(x)'
      BY <1>0, <1>1, <1>7 DEF HalfWay, Running
    <2> QED
      BY <1>2, <1>7, <1>8, <2>1, <2>3, <2>4, <2>5, ChangedComplete
  <1> QED
    BY <1>3, <1>8, <1>11, <1>13, <1>14, <1>15 DEF IInv

LEMMA CopyThrowsStep ==
  ASSUME IInv, CopyThrows
  PROVE  IInv'
  <1>1. /\ op.pc = "copy construct" /\ op' = Idle /\ frames' = <<>>
        /\ UNCHANGED <<map, data, heap, calls, failures>>
    BY DEF CopyThrows, Done
  <1>2. HeapInv(heap) /\ NameInv /\ Complete
    BY DEF IInv
  <1>3. OpInv' /\ op'.pc \in {"idle", "undefined"} /\ op' # Undefined
    BY <1>1, OpDone DEF Idle, Undefined
  <1>4. NameInv' /\ FrameInv'
    BY <1>1, <1>2, <1>3, NamesKept, NoFrames
  <1>5. Complete'
    BY <1>1, <1>2, <1>3, SameHeap
  <1>6. calls' \in 0 .. MaxCalls /\ failures' \in 0 .. MaxFailures
    BY <1>1 DEF IInv
  <1> QED
    BY <1>1, <1>2, <1>3, <1>4, <1>5, <1>6 DEF IInv

LEMMA CopyStep ==
  ASSUME IInv, NEW dst \in Stores, NEW src \in Stores, Copy(dst, src)
  PROVE  IInv'
  <1>1. /\ op = Idle /\ calls < MaxCalls /\ calls' = calls + 1
        /\ dst \notin Tree(heap, src) /\ src \notin Tree(heap, dst)
        /\ heap' = Cleared(dst) /\ op' = [pc |-> "copy"] /\ UNCHANGED <<map, data, failures>>
        /\ frames' = <<[dst |-> dst, src |-> src, i |-> 1]>>
    BY DEF Copy, Begin, Frame
  <1>2. HeapInv(heap) /\ NameInv /\ Complete /\ dst \in DOMAIN heap /\ src \in DOMAIN heap
        /\ heap[dst].type = "store" /\ heap[src].type = "store"
    BY DEF IInv, Stores
  <1>3. op'.pc = "copy" /\ op' # Undefined /\ op.pc = "idle" /\ op' \in OpType
    BY <1>1 DEF Idle, Undefined, OpType
  <1>4. NameInv' /\ OpInv'
    BY <1>1, <1>2, <1>3, NamesKept DEF OpInv
  <1>5. /\ HeapInv(heap') /\ Changed(heap, heap', dst, <<>>, <<>>, Below(dst))
        /\ Tree(heap', dst) = {dst}
        /\ \A x \in DOMAIN heap' : dst \notin Tree(heap, x) => Tree(heap', x) \subseteq Tree(heap, x)
    BY <1>1, <1>2, ClearedOK
  <1>6. src # dst /\ src \in DOMAIN heap' /\ dst \in DOMAIN heap'
    <2>1. DOMAIN heap' = DOMAIN heap \ Below(dst) /\ dst \in DOMAIN heap'
      BY <1>5 DEF Changed
    <2>2. src \notin Below(dst)
      BY <1>1 DEF Below
    <2>3. dst \in Tree(heap, dst)
      BY <1>2, HeapFacts, TreeFacts
    <2> QED
      BY <1>1, <1>2, <2>1, <2>2, <2>3
  <1>7. FrameInv'
    <2>1. PICK f, T : f = [dst |-> dst, src |-> src, i |-> 1] /\ T = [dst : Block, src : Block, i : Nat \ {0}]
      OBVIOUS
    <2>2. f \in T /\ f.dst = dst /\ f.src = src /\ f.i = 1
      BY <1>2, <2>1 DEF HeapInv
    <2>3. frames' = <<f>> /\ frames' \in Seq(T) /\ DOMAIN frames' = {1} /\ Len(frames') = 1
          /\ frames'[1] = f /\ frames' # <<>>
      BY <1>1, <2>1, <2>2
    <2>4. dst \notin Tree(heap', src) /\ src \notin Tree(heap', dst)
      BY <1>1, <1>5, <1>6
    <2>5. FrameOK(1)'
      <3>1. dst \in Stores' /\ src \in Stores'
        BY <1>2, <1>5, <1>6 DEF Changed, Stores
      <3>2. Linked(heap')
        BY <1>5, HeapFacts
      <3>3. dst \in Tree(heap', dst) /\ src \in Tree(heap', src)
        BY <1>6, <3>2, TreeFacts
      <3>4. heap'[src].slots \in Seq(Index)
        BY <1>5, <1>6 DEF HeapInv, IsBlock
      <3>5. Len(heap'[src].slots) \in Nat /\ SubSeq(heap'[src].slots, 1, 0) = <<>>
        BY <3>4
      <3>6. heap'[dst].slots = <<>>
        BY <1>5 DEF Changed
      <3>7. Appended(1)' = 0
        BY <1>3, <2>2, <2>3 DEF Appended
      <3>8. frames'[1].dst = dst /\ frames'[1].src = src /\ frames'[1].i = 1
        BY <2>2, <2>3
      <3>9. frames'[1].i <= Len(heap'[frames'[1].src].slots) + 1
        BY <3>5, <3>8
      <3>10. heap'[frames'[1].dst].slots = SubSeq(heap'[frames'[1].src].slots, 1, Appended(1)')
        BY <3>5, <3>6, <3>7, <3>8
      <3>11. \A l \in DOMAIN frames' : frames'[l].dst = frames'[1].dst => l = 1
        BY <2>3
      <3> QED
        BY <3>1, <3>3, <3>8, <3>9, <3>10, <3>11 DEF FrameOK
    <2>6. Copying'
      BY <1>3 DEF Copying
    <2> QED
      BY <2>1, <2>2, <2>3, <2>4, <2>5, <2>6 DEF FrameInv
  <1>8. Complete'
    <2> SUFFICES ASSUME failures' = 0 PROVE Complete'
      BY DEF Complete
    <2>1. failures = 0 /\ UNCHANGED <<map, data, failures>>
      BY <1>1
    <2> QED
      BY <1>1, <1>2, <1>3, <2>1, ClearedComplete
  <1>9. calls' \in 0 .. MaxCalls /\ failures' \in 0 .. MaxFailures
    BY <1>1, BoundAssumption DEF IInv
  <1> QED
    BY <1>4, <1>5, <1>7, <1>8, <1>9 DEF IInv

LEMMA CopyReturnStep ==
  ASSUME IInv, CopyReturn
  PROVE  IInv'
  <1>0. PICK n : n = Len(frames)
    OBVIOUS
  <1>1. /\ op.pc = "copy" /\ frames' = Front(frames) /\ UNCHANGED <<map, data, heap, calls, failures>>
        /\ op' = IF n = 1 THEN Idle ELSE op
    BY <1>0 DEF CopyReturn
  <1>2. HeapInv(heap) /\ NameInv /\ Complete /\ FrameInv /\ OpInv /\ Copying
    BY <1>1 DEF IInv, Copying
  <1>3. calls' \in 0 .. MaxCalls /\ failures' \in 0 .. MaxFailures
    BY <1>1 DEF IInv
  <1>4. op'.pc \in {"idle", "copy"} /\ op' # Undefined
    BY <1>1 DEF Idle, Undefined
  <1>5. NameInv'
    BY <1>1, <1>2, <1>4, NamesKept
  <1>6. Complete'
    BY <1>1, <1>2, <1>4, SameHeap
  <1>7. n \in DOMAIN frames /\ DOMAIN frames = 1 .. n /\ n \in Nat \ {0}
    BY <1>0, <1>2, CopyFacts
  <1>8. /\ frames' = SubSeq(frames, 1, n - 1) /\ frames' \in Seq([dst : Block, src : Block, i : Nat \ {0}])
        /\ Len(frames') = n - 1 /\ DOMAIN frames' = 1 .. n - 1
        /\ \A j \in 1 .. n - 1 : frames'[j] = frames[j]
    <2>1. PICK T, f, g : /\ T = [dst : Block, src : Block, i : Nat \ {0}] /\ f = frames /\ g = SubSeq(f, 1, n - 1)
      OBVIOUS
    <2>2. f \in Seq(T) /\ n = Len(f)
      BY <1>0, <1>2, <2>1 DEF FrameInv
    <2>3. g \in Seq(T) /\ Len(g) = n - 1 /\ DOMAIN g = 1 .. n - 1 /\ \A j \in 1 .. n - 1 : g[j] = f[j]
      <3>1. n \in Nat \ {0} /\ n = Len(f) /\ f \in Seq(T) /\ g = SubSeq(f, 1, n - 1)
        BY <1>7, <2>1, <2>2
      <3>2. g \in Seq(T) /\ Len(g) = n - 1 /\ \A j \in 1 .. n - 1 : g[j] = f[j]
        BY <3>1
      <3> QED
        BY <3>2, LenProperties
    <2>4. frames' = g
      BY <1>0, <1>1, <2>1 DEF Front
    <2> QED
      BY <2>1, <2>3, <2>4, Zenon
  <1>9. OpInv'
    <2>1. op' \in OpType
      BY <1>1, <1>2 DEF OpInv, OpType
    <2> QED
      BY <1>4, <2>1 DEF OpInv
  <1>10. FrameInv'
    <2>1. CASE n = 1
      <3>1. frames' = <<>>
        BY <1>8, <2>1, EmptySeq
      <3>2. op'.pc = "idle"
        BY <1>1, <2>1 DEF Idle
      <3> QED
        BY <3>1, <3>2, NoFrames
    <2>2. CASE n # 1
      <3>1. op' = op /\ 1 \in DOMAIN frames' /\ frames'[1] = frames[1] /\ frames' # <<>>
        <4>1. op' = op /\ 1 \in 1 .. n - 1 /\ Len(frames') # 0
          BY <1>1, <1>7, <1>8, <2>2
        <4>2. frames' # <<>>
          BY <1>8, <4>1, NoElements
        <4> QED
          BY <1>8, <4>1, <4>2
      <3>2. ASSUME NEW j \in DOMAIN frames' PROVE FrameOK(j)'
        <4>1. FrameOK(j) /\ frames'[j] = frames[j] /\ j \in DOMAIN frames /\ j # n
          BY <1>2, <1>7, <1>8, SMTT(30) DEF FrameInv
        <4>2. Appended(j) = frames[j].i - 1 /\ Appended(j)' = frames[j].i - 1
          BY <1>1, <3>1, <4>1 DEF Appended
        <4>3. Stores' = Stores
          BY <1>1 DEF Stores
        <4>4. \A l \in DOMAIN frames' : frames'[l].dst = frames[j].dst => l = j
          BY <1>2, <1>7, <1>8, <4>1, CopyFacts
        <4>5. /\ frames[j].dst \in Stores' /\ frames[j].src \in Stores'
              /\ frames[j].i <= Len(heap[frames[j].src].slots) + 1
              /\ heap'[frames[j].dst].slots = SubSeq(heap[frames[j].src].slots, 1, Appended(j)')
          BY <1>1, <4>1, <4>2, <4>3 DEF FrameOK
        <4> QED
          BY <1>1, <3>1, <4>1, <4>4, <4>5, FrameStays
      <3>3. Copying'
        BY <1>1, <3>1 DEF Copying
      <3> QED
        BY <1>1, <1>2, <1>8, <3>1, <3>2, <3>3 DEF FrameInv
    <2> QED
      BY <2>1, <2>2
  <1> QED
    BY <1>1, <1>2, <1>3, <1>5, <1>6, <1>9, <1>10 DEF IInv

LEMMA FailStep ==
  ASSUME IInv, Fail
  PROVE  IInv'
  <1>0. PICK d, k, t : d = Running.dst /\ k = op.key /\ t = heap[Running.src].fields[op.from].type
    OBVIOUS
  <1>1. /\ MayAllocate /\ op' = Idle /\ frames' = <<>> /\ UNCHANGED <<map, data, calls>>
        /\ failures' = Min({failures + 1, MaxFailures})
        /\ heap' = IF op.pc # "copy construct" THEN heap
                   ELSE [heap EXCEPT ![d].fields[k].type = t]
    BY <1>0 DEF Fail, Done
  <1>2. HeapInv(heap) /\ NameInv /\ OpInv /\ failures \in Nat /\ MaxFailures \in Nat \ {0}
    BY BoundAssumption DEF IInv
  <1>3. OpInv' /\ op'.pc \in {"idle", "undefined"} /\ op' # Undefined
    BY <1>1, OpDone DEF Idle, Undefined
  <1>4. NameInv' /\ FrameInv'
    BY <1>1, <1>2, <1>3, NamesKept, NoFrames
  <1>5. failures' \in 0 .. MaxFailures /\ failures' # 0
    <2>1. PICK P : P = {failures + 1, MaxFailures}
      OBVIOUS
    <2>2. P \subseteq Nat \ {0} /\ P # {} /\ MaxFailures \in P
      BY <1>2, <2>1
    <2>3. Min(P) \in P /\ Min(P) <= MaxFailures
      BY <2>2, MinFacts
    <2>4. failures' = Min(P)
      BY <1>1, <2>1, Zenon
    <2>5. failures' \in P /\ failures' <= MaxFailures
      BY <2>3, <2>4, Zenon
    <2>6. failures' \in Nat /\ failures' # 0
      BY <2>2, <2>5
    <2> QED
      BY <1>2, <2>5, <2>6
  <1>6. Complete'
    BY <1>5 DEF Complete
  <1>7. HeapInv(heap')
    <2>1. CASE op.pc # "copy construct"
      BY <1>1, <1>2, <2>1
    <2>2. CASE op.pc = "copy construct"
      <3>1. Copying
        BY <2>2 DEF Copying
      <3>2. ~ CopyRefused
        BY <1>1, <2>2 DEF MayAllocate
      <3>3. /\ d \in DOMAIN heap /\ heap[d].type = "store" /\ Running.src \in DOMAIN heap
            /\ k \in DOMAIN heap[d].fields
        BY <1>0, <1>2, <2>2, <3>1, CopyFacts DEF Running, Stores, OpInv
      <3>4. heap[d].fields[k].data = NULL /\ op.from \in DOMAIN heap[Running.src].fields
        BY <1>0, <3>2 DEF CopyRefused
      <3>5. t \in Type
        BY <1>0, <1>2, <3>3, <3>4 DEF HeapInv, IsBlock, FieldType
      <3>6. PICK f : f = [data |-> NULL, type |-> t]
        OBVIOUS
      <3>7. f \in FieldType /\ f.data = NULL
        BY <3>5, <3>6 DEF FieldType
      <3>8. heap' = SetField(heap, d, k, f)
        <4>1. PICK F : F = heap[d].fields
          OBVIOUS
        <4>2. F \in [DOMAIN F -> FieldType] /\ k \in DOMAIN F /\ F[k].data = NULL
          BY <1>2, <3>3, <3>4, <4>1 DEF HeapInv, IsBlock
        <4>3. [F[k] EXCEPT !.type = t] = f
          BY <3>6, <4>2 DEF FieldType
        <4>4. [F EXCEPT ![k] = f] = WithKey(F, k, f)
          BY <4>2 DEF WithKey
        <4>5. heap' = [x \in DOMAIN heap |-> IF x = d
                        THEN [heap[d] EXCEPT !.fields = [heap[d].fields EXCEPT ![k] =
                                [heap[d].fields[k] EXCEPT !.type = t]]]
                        ELSE heap[x]]
          BY <1>1, <1>2, <2>2 DEF HeapInv
        <4>6. heap' = [x \in DOMAIN heap |-> IF x = d THEN [heap[d] EXCEPT !.fields = WithKey(F, k, f)]
                                                      ELSE heap[x]]
          BY <4>1, <4>3, <4>4, <4>5, Zenon
        <4>7. SetField(heap, d, k, f) =
                [x \in DOMAIN heap |-> IF x = d THEN [heap[d] EXCEPT !.fields = WithKey(heap[d].fields, k, f)]
                                                ELSE heap[x]]
          BY <1>2 DEF SetField, HeapInv
        <4> QED
          BY <4>1, <4>6, <4>7, Zenon
      <3> QED
        BY <1>2, <3>3, <3>4, <3>7, <3>8, SetNull
    <2> QED
      BY <2>1, <2>2
  <1>8. calls' \in 0 .. MaxCalls
    BY <1>1 DEF IInv
  <1> QED
    BY <1>3, <1>4, <1>5, <1>6, <1>7, <1>8 DEF IInv

\* The running frame copies one more slot, the key k, into a block new of type t,
\* and if that is a store there is a frame for it, whose source is x.
SlotCopied(k, t, new, x) ==
  /\ op.pc = "copy construct" /\ op'.pc = "copy"
  /\ k \in DOMAIN heap[Running.dst].fields /\ heap[Running.dst].fields[k].data = NULL
  /\ Running.i <= Len(heap[Running.src].slots) /\ k = heap[Running.src].slots[Running.i]
  /\ k \in DOMAIN heap[Running.src].fields /\ heap[Running.src].fields[k].type = t
  /\ heap[Running.src].fields[k].data = x /\ (t # "void" => x # NULL)
  /\ t = "list" => heap[x].fields = <<>>
  /\ t \in Type /\ new \in Object \ DOMAIN heap
  /\ t = "store" => x \in Children(heap, Running.src) /\ x \in Stores
  /\ heap' = Constructed(heap, Running.dst, k, t, new)
  /\ frames' = IF t = "store" THEN Append(Advanced, Frame(new, x)) ELSE Advanced

\* The running frame has gone on; a store is the next frame's to copy.
FramesAdvance(t, new, x, n, i) ==
  /\ frames' \in Seq([dst : Block, src : Block, i : Nat \ {0}])
  /\ \A j \in 1 .. n : frames'[j].dst = frames[j].dst /\ frames'[j].src = frames[j].src
  /\ \A j \in 1 .. n : frames'[j].i = IF j = n THEN i + 1 ELSE frames[j].i
  /\ t = "store" => /\ DOMAIN frames' = 1 .. n + 1 /\ Len(frames') = n + 1
                    /\ frames'[n + 1] = [dst |-> new, src |-> x, i |-> 1]
  /\ t # "store" => DOMAIN frames' = 1 .. n /\ Len(frames') = n

LEMMA FramesNow ==
  ASSUME IInv, NEW k, NEW t, NEW new, NEW x, SlotCopied(k, t, new, x),
         NEW n, n = Len(frames), NEW i, i = frames[n].i
  PROVE  FramesAdvance(t, new, x, n, i)
  <1>0. PICK T, f, g, a :
          /\ T = [dst : Block, src : Block, i : Nat \ {0}] /\ f = frames
          /\ a = [frames EXCEPT ![n].i = @ + 1] /\ g = frames'
    OBVIOUS
  <1>a. t = "store" => new \in Object /\ x \in Stores
    BY DEF SlotCopied
  <1>c. g = IF t = "store" THEN Append(Advanced, Frame(new, x)) ELSE Advanced
    BY <1>0 DEF SlotCopied
  <1>1. HeapInv(heap) /\ FrameInv /\ Copying
    BY DEF IInv, Copying, SlotCopied
  <1>2. /\ n \in DOMAIN frames /\ DOMAIN frames = 1 .. n /\ n \in Nat \ {0}
        /\ \A j \in DOMAIN frames : frames[j] \in T
    BY <1>0, <1>1, CopyFacts
  <1>3. i \in Nat \ {0}
    BY <1>0, <1>2
  <1>8. /\ a \in Seq(T) /\ DOMAIN a = 1 .. n /\ Len(a) = n
        /\ \A j \in 1 .. n : a[j].dst = frames[j].dst /\ a[j].src = frames[j].src
        /\ \A j \in 1 .. n : a[j].i = IF j = n THEN i + 1 ELSE frames[j].i
    <2>1. f \in Seq(T) /\ Len(f) = n
      BY <1>0, <1>1 DEF FrameInv
    <2>2. f[n] \in T /\ f[n].i = i
      BY <1>0, <1>2
    <2>3. [f[n] EXCEPT !.i = i + 1] \in T
      BY <1>0, <1>3, <2>2
    <2>4. a = [f EXCEPT ![n] = [f[n] EXCEPT !.i = i + 1]]
      BY <1>0
    <2>5. PICK c : c = [f[n] EXCEPT !.i = i + 1]
      OBVIOUS
    <2>6. c \in T /\ c.i = i + 1 /\ c.dst = f[n].dst /\ c.src = f[n].src
      BY <1>0, <2>2, <2>3, <2>5
    <2>7. a = [f EXCEPT ![n] = c]
      BY <2>4, <2>5
    <2>8. a \in Seq(T) /\ DOMAIN a = 1 .. n /\ Len(a) = n /\ \A j \in 1 .. n : a[j] = IF j = n THEN c ELSE f[j]
      BY <1>2, <2>1, <2>6, <2>7
    <2> QED
      BY <1>0, <1>2, <2>6, <2>8
  <1>9. Advanced = a
    BY <1>0 DEF Advanced
  <1>10. /\ g \in Seq(T) /\ n \in DOMAIN g
         /\ \A j \in 1 .. n : g[j] = a[j]
         /\ t = "store" => DOMAIN g = 1 .. n + 1 /\ Len(g) = n + 1 /\ g[n + 1] = [dst |-> new, src |-> x, i |-> 1]
         /\ t # "store" => DOMAIN g = 1 .. n /\ Len(g) = n
    <2>1. CASE t = "store"
      <3>1. PICK c : c = [dst |-> new, src |-> x, i |-> 1]
        OBVIOUS
      <3>2. c \in T
        BY <1>0, <1>1, <1>a, <2>1, <3>1 DEF Block, Stores, HeapInv
      <3>3. g = Append(a, c)
        BY <1>c, <1>9, <2>1, <3>1 DEF Frame
      <3>4. g \in Seq(T) /\ Len(g) = n + 1 /\ g[n + 1] = c /\ \A j \in 1 .. n : g[j] = a[j]
        BY <1>2, <1>8, <3>2, <3>3
      <3> QED
        BY <1>2, <2>1, <3>1, <3>4, LenProperties
    <2>2. CASE t # "store"
      BY <1>2, <1>8, <1>9, <1>c, <2>2
    <2> QED
      BY <2>1, <2>2
  <1> QED
    <2>1. \A j \in 1 .. n : /\ g[j].dst = frames[j].dst /\ g[j].src = frames[j].src
                            /\ g[j].i = IF j = n THEN i + 1 ELSE frames[j].i
      BY <1>8, <1>10
    <2> QED
      BY <1>0, <1>10, <2>1 DEF FramesAdvance

LEMMA FramesBuilt ==
  ASSUME IInv, NEW k, NEW t, NEW new, NEW x, SlotCopied(k, t, new, x)
  PROVE  FrameInv'
  <1>0. PICK n, d, s, T, g, i :
          /\ n = Len(frames) /\ d = frames[n].dst /\ s = frames[n].src /\ i = frames[n].i
          /\ T = [dst : Block, src : Block, i : Nat \ {0}] /\ g = frames'
    OBVIOUS
  <1>a. /\ k \in DOMAIN heap[d].fields /\ heap[d].fields[k].data = NULL
        /\ t \in Type /\ new \in Object \ DOMAIN heap
        /\ t = "store" => x \in Children(heap, s) /\ x \in Stores
        /\ heap' = Constructed(heap, d, k, t, new)
    BY <1>0 DEF SlotCopied, Running
  <1>b. i <= Len(heap[s].slots)
    BY <1>0 DEF SlotCopied, Running
  <1>1. HeapInv(heap) /\ FrameInv /\ Copying /\ Linked(heap)
    BY HeapFacts DEF IInv, Copying, SlotCopied
  <1>2. /\ n \in DOMAIN frames /\ DOMAIN frames = 1 .. n /\ 1 \in DOMAIN frames /\ n \in Nat \ {0}
        /\ \A j \in DOMAIN frames : frames[j] \in T
        /\ \A j \in DOMAIN frames :
              /\ frames[j].dst \in Stores /\ frames[j].src \in Stores
              /\ frames[j].dst \in Tree(heap, frames[1].dst)
              /\ frames[j].src \in Tree(heap, frames[1].src)
              /\ frames[j].dst \notin Tree(heap, frames[1].src)
              /\ frames[j].src \notin Tree(heap, frames[1].dst)
        /\ \A j, l \in DOMAIN frames : frames[j].src # frames[l].dst
        /\ \A j, l \in DOMAIN frames : frames[l].dst = frames[j].dst => l = j
    BY <1>0, <1>1, CopyFacts
  <1>3. /\ d \in Stores /\ s \in Stores /\ s # d /\ i \in Nat \ {0}
        /\ d \in DOMAIN heap /\ s \in DOMAIN heap /\ heap[d].type = "store"
    BY <1>0, <1>2 DEF Stores
  <1>4. HeapInv(heap') /\ Built(heap, heap', d, k, t, new)
    BY <1>1, <1>3, <1>a, BuiltOK
  <1>5. /\ \A y \in DOMAIN heap : Tree(heap, y) \subseteq Tree(heap', y)
        /\ \A y \in DOMAIN heap : d \notin Tree(heap, y) => Tree(heap', y) = Tree(heap, y)
        /\ \A y \in DOMAIN heap : d \in Tree(heap, y) => Tree(heap', y) = Tree(heap, y) \union {new}
        /\ Tree(heap', new) = {new}
    BY <1>1, <1>3, <1>a, TreeConstructed
  <1>6. /\ DOMAIN heap' = DOMAIN heap \union {new} /\ heap'[new] = NewBlock(t, d)
        /\ \A y \in DOMAIN heap : heap'[y].slots = heap[y].slots /\ heap'[y].type = heap[y].type
    BY <1>4 DEF Built
  <1>7. Stores \subseteq Stores' /\ heap'[new].slots = <<>> /\ (t = "store" => new \in Stores')
    <2>1. NewBlock(t, d).slots = <<>> /\ NewBlock(t, d).type = t
      BY DEF NewBlock
    <2> QED
      BY <1>6, <2>1 DEF Stores
  <1>d. FramesAdvance(t, new, x, n, i)
    BY <1>0, FramesNow
  <1>8. /\ \A j \in 1 .. n : g[j].dst = frames[j].dst /\ g[j].src = frames[j].src
        /\ \A j \in 1 .. n : g[j].i = IF j = n THEN i + 1 ELSE frames[j].i
    BY <1>0, <1>d DEF FramesAdvance
  <1>10. /\ g \in Seq(T) /\ n \in DOMAIN g
         /\ t = "store" => DOMAIN g = 1 .. n + 1 /\ Len(g) = n + 1 /\ g[n + 1] = [dst |-> new, src |-> x, i |-> 1]
         /\ t # "store" => DOMAIN g = 1 .. n /\ Len(g) = n
    BY <1>0, <1>2, <1>d DEF FramesAdvance
  <1>11. frames' = g /\ 1 \in DOMAIN g /\ g[1].dst = frames[1].dst /\ g[1].src = frames[1].src /\ g # <<>>
    <2>1. 1 \in DOMAIN g /\ 1 \in 1 .. n
      BY <1>2, <1>10
    <2> QED
      BY <1>0, <1>8, <1>10, <2>1, NoElements
  <1>12. op'.pc = "copy" /\ op.pc = "copy construct"
    BY DEF SlotCopied
  <1>13. frames[1].dst \in DOMAIN heap /\ frames[1].src \in DOMAIN heap
    BY <1>2 DEF Stores
  <1>14. /\ Tree(heap', frames[1].dst) = Tree(heap, frames[1].dst) \union {new}
         /\ Tree(heap', frames[1].src) = Tree(heap, frames[1].src)
    BY <1>0, <1>2, <1>5, <1>13
  <1>15. frames[1].dst \notin Tree(heap', frames[1].src) /\ frames[1].src \notin Tree(heap', frames[1].dst)
    BY <1>2, <1>13, <1>14, <1>a
  <1>16. \A j \in 1 .. n : Appended(j)' = Appended(j)
    <2> SUFFICES ASSUME NEW j \in 1 .. n PROVE Appended(j)' = Appended(j)
      OBVIOUS
    <2>1. Appended(j)' = g[j].i - 1
      BY <1>11, <1>12 DEF Appended
    <2>2. CASE j = n
      <3>1. g[j].i = i + 1 /\ Appended(j) = i
        BY <1>0, <1>8, <1>10, <1>12, <2>2 DEF Appended
      <3> QED
        BY <1>3, <2>1, <3>1
    <2>3. CASE j # n
      <3>1. g[j].i = frames[j].i /\ Appended(j) = frames[j].i - 1
        BY <1>0, <1>8, <1>10, <2>3 DEF Appended
      <3> QED
        BY <2>1, <3>1
    <2> QED
      BY <2>2, <2>3
  <1>17. \A j, l \in DOMAIN g : g[l].dst = g[j].dst => l = j
    <2>1. \A j \in 1 .. n : g[j].dst = frames[j].dst /\ g[j].dst \in DOMAIN heap
      BY <1>2, <1>8, <1>10 DEF Stores
    <2>2. CASE t = "store"
      <3>1. g[n + 1].dst = new /\ DOMAIN g = 1 .. n + 1
        BY <1>10, <2>2
      <3>2. \A j \in DOMAIN g : j \in 1 .. n \/ j = n + 1
        BY <1>2, <3>1
      <3> QED
        BY <1>a, <1>2, <2>1, <3>1, <3>2
    <2>3. CASE t # "store"
      BY <1>2, <1>10, <2>1, <2>3
    <2> QED
      BY <2>2, <2>3
  <1>18. ASSUME NEW j \in 1 .. n PROVE FrameOK(j)'
    <2>1. j \in DOMAIN frames /\ FrameOK(j)
      BY <1>1, <1>2 DEF FrameInv
    <2>2. frames'[j].dst = frames[j].dst /\ frames'[j].src = frames[j].src
      BY <1>8, <1>10, <1>11
    <2>3. frames[j].dst \in DOMAIN heap /\ frames[j].src \in DOMAIN heap
      BY <1>2, <2>1 DEF Stores
    <2>4. frames'[j].i <= Len(heap[frames[j].src].slots) + 1
      <3>1. CASE j = n
        <4>1. frames'[j].i = i + 1 /\ frames[j].src = s
          BY <1>0, <1>8, <1>10, <1>11, <3>1
        <4>2. Len(heap[s].slots) \in Nat
          BY <1>1, <1>3, LenProperties DEF HeapInv, IsBlock
        <4> QED
          BY <1>b, <1>3, <4>1, <4>2
      <3>2. CASE j # n
        BY <1>8, <1>10, <1>11, <2>1, <3>2 DEF FrameOK
      <3> QED
        BY <3>1, <3>2
    <2>5. /\ heap'[frames[j].src].slots = heap[frames[j].src].slots
          /\ heap'[frames[j].dst].slots = SubSeq(heap[frames[j].src].slots, 1, Appended(j)')
      BY <1>6, <1>16, <2>1, <2>3 DEF FrameOK
    <2>6. /\ frames[j].dst \in Stores' /\ frames[j].src \in Stores'
          /\ \A l \in DOMAIN frames' : frames'[l].dst = frames[j].dst => l = j
      <3>1. j \in DOMAIN g
        BY <1>2, <1>10
      <3> QED
        BY <1>2, <1>7, <1>11, <1>17, <2>1, <2>2, <3>1
    <2>7. /\ Tree(heap, frames[1].dst) \subseteq Tree(heap', frames[1].dst)
          /\ Tree(heap, frames[1].src) \subseteq Tree(heap', frames[1].src)
      BY <1>14
    <2> QED
      BY <1>11, <2>1, <2>2, <2>4, <2>5, <2>6, <2>7, FrameStays
  <1>19. ASSUME t = "store" PROVE FrameOK(n + 1)'
    <2>1. PICK m : m = n + 1
      OBVIOUS
    <2>2. frames'[m].dst = new /\ frames'[m].src = x /\ frames'[m].i = 1 /\ m \in DOMAIN g
      BY <1>2, <1>10, <1>11, <1>19, <2>1
    <2>3. new \in Stores' /\ x \in Stores' /\ x \in DOMAIN heap
      BY <1>a, <1>7, <1>19 DEF Stores
    <2>4. x \in Tree(heap, frames[1].src)
      <3>1. s \in Tree(heap, frames[1].src) /\ x \in Children(heap, s)
        BY <1>0, <1>a, <1>2, <1>19
      <3>2. Closed(heap, Tree(heap, frames[1].src))
        BY <1>1, <1>13, TreeFacts
      <3> QED
        BY <3>1, <3>2 DEF Closed
    <2>5. Appended(m)' = 0
      <3>1. Appended(m)' = frames'[m].i - 1
        BY <1>12 DEF Appended
      <3> QED
        BY <2>2, <3>1
    <2>6. heap'[x].slots \in Seq(Index)
      BY <1>4, <2>3 DEF HeapInv, IsBlock, Stores
    <2>7. Len(heap'[x].slots) \in Nat /\ SubSeq(heap'[x].slots, 1, 0) = <<>>
      BY <2>6
    <2>8. heap'[frames'[m].dst].slots = SubSeq(heap'[frames'[m].src].slots, 1, Appended(m)')
      BY <1>7, <2>2, <2>5, <2>7
    <2>9. frames'[m].i <= Len(heap'[frames'[m].src].slots) + 1
      BY <2>2, <2>7
    <2>10. \A l \in DOMAIN frames' : frames'[l].dst = frames'[m].dst => l = m
      BY <1>11, <1>17, <2>2
    <2>11. frames'[m].dst \in Tree(heap', frames'[1].dst) /\ frames'[m].src \in Tree(heap', frames'[1].src)
      BY <1>11, <1>14, <2>2, <2>4
    <2>12. FrameOK(m)'
      BY <2>2, <2>3, <2>8, <2>9, <2>10, <2>11 DEF FrameOK
    <2> QED
      BY <2>1, <2>12
  <1>20. \A j \in DOMAIN frames' : FrameOK(j)'
    <2>1. \A j \in DOMAIN g : j \in 1 .. n \/ (t = "store" /\ j = n + 1)
      BY <1>2, <1>10
    <2> QED
      BY <1>11, <1>18, <1>19, <2>1
  <1>21. Copying'
    BY <1>12 DEF Copying
  <1> QED
    BY <1>0, <1>10, <1>11, <1>15, <1>20, <1>21 DEF FrameInv

\* The call has a field to copy.
AtCopy == op.pc = "copy construct" /\ ~ CopyRefused

\* The field that is to be copied, and the one that is to become its copy.
LEMMA FieldAtHand ==
  ASSUME IInv, AtCopy,
         NEW d, d = Running.dst, NEW s, s = Running.src, NEW k, k = op.key,
         NEW e, e = heap[s].fields[op.from]
  PROVE  /\ d \in DOMAIN heap /\ s \in DOMAIN heap /\ heap[d].type = "store"
         /\ k \in DOMAIN heap[d].fields /\ heap[d].fields[k].data = NULL
         /\ k \in DOMAIN heap[s].fields /\ e = heap[s].fields[k] /\ e \in FieldType /\ e.type \in Type
         /\ Running.i <= Len(heap[s].slots) /\ k = heap[s].slots[Running.i]
         /\ Holds(heap, s, k)
  <1>0. PICK n, i : n = Len(frames) /\ i = frames[n].i
    OBVIOUS
  <1>1. op.pc = "copy construct" /\ ~ CopyRefused
    BY DEF AtCopy
  <1>2. HeapInv(heap) /\ OpInv /\ Copying
    BY <1>1 DEF IInv, Copying
  <1>3. d = frames[n].dst /\ s = frames[n].src /\ Running.i = i
    BY <1>0 DEF Running
  <1>4. /\ n \in DOMAIN frames /\ i \in Nat \ {0}
        /\ d \in Stores /\ s \in Stores
        /\ d \in DOMAIN heap /\ s \in DOMAIN heap /\ heap[d].type = "store"
    BY <1>0, <1>2, <1>3, CopyFacts DEF Stores
  <1>5. op.from = k /\ k \in DOMAIN heap[d].fields /\ i <= Len(heap[s].slots) /\ k = heap[s].slots[i]
    <2>1. op.from = k /\ k \in DOMAIN heap[d].fields /\ ~ (i > Len(heap[s].slots)) /\ k = heap[s].slots[i]
      BY <1>0, <1>1, <1>2, <1>3 DEF OpInv, AtEnd
    <2>2. Len(heap[s].slots) \in Nat
      BY <1>2, <1>4, LenProperties DEF HeapInv, IsBlock
    <2> QED
      BY <1>4, <2>1, <2>2
  <1>6. k \in DOMAIN heap[s].fields /\ heap[d].fields[k].data = NULL
    BY <1>1, <1>5 DEF CopyRefused
  <1>7. e \in FieldType /\ e.type \in Type /\ e = heap[s].fields[k] /\ Holds(heap, s, k)
    BY <1>2, <1>4, <1>5, <1>6 DEF HeapInv, IsBlock, FieldType
  <1> QED
    BY <1>3, <1>4, <1>5, <1>6, <1>7

LEMMA SlotIsCopied ==
  ASSUME IInv, CopyConstruct, op' = [pc |-> "copy"]
  PROVE  \E t, new, x : SlotCopied(op.key, t, new, x)
  <1>0. PICK d, s, k, e, t : /\ d = Running.dst /\ s = Running.src /\ k = op.key
                             /\ e = heap[s].fields[op.from] /\ t = e.type
    OBVIOUS
  <1>1. /\ d \in DOMAIN heap /\ s \in DOMAIN heap /\ heap[d].type = "store"
        /\ k \in DOMAIN heap[d].fields /\ heap[d].fields[k].data = NULL
        /\ k \in DOMAIN heap[s].fields /\ e = heap[s].fields[k] /\ t \in Type
        /\ Running.i <= Len(heap[s].slots) /\ k = heap[s].slots[Running.i]
        /\ Holds(heap, s, k)
    <2>1. AtCopy
      BY DEF AtCopy, CopyConstruct
    <2> QED
      BY <1>0, <2>1, FieldAtHand
  <1>2. PICK new \in Free :
          IF t # "void" /\ e.data = NULL THEN UndefinedBehaviour
          ELSE /\ heap' = Constructed(heap, d, k, t, new)
               /\ IF t = "list" /\ heap[e.data].fields # <<>> THEN Done
                  ELSE /\ op' = [pc |-> "copy"]
                       /\ frames' = IF t = "store" THEN Append(Advanced, Frame(new, e.data)) ELSE Advanced
    BY <1>0 DEF CopyConstruct
  <1>3. ~ (t # "void" /\ e.data = NULL)
    BY <1>2 DEF UndefinedBehaviour, Undefined
  <1>4. ~ (t = "list" /\ heap[e.data].fields # <<>>)
    BY <1>2, <1>3 DEF Done, Idle
  <1>5. /\ heap' = Constructed(heap, d, k, t, new) /\ op'.pc = "copy"
        /\ frames' = IF t = "store" THEN Append(Advanced, Frame(new, e.data)) ELSE Advanced
    BY <1>2, <1>3, <1>4
  <1>6. t = "store" => e.data \in Children(heap, s) /\ e.data \in Stores
    BY <1>0, <1>1, <1>3 DEF Holds, Children, Stores
  <1>7. op.pc = "copy construct" /\ new \in Object \ DOMAIN heap
    BY DEF CopyConstruct, Free
  <1>8. SlotCopied(k, t, new, e.data)
    BY <1>0, <1>1, <1>3, <1>4, <1>5, <1>6, <1>7 DEF SlotCopied
  <1> QED
    BY <1>0, <1>8

LEMMA CopyConstructStep ==
  ASSUME IInv, CopyConstruct
  PROVE  IInv'
  <1>0. PICK d, s, k, e, t : /\ d = Running.dst /\ s = Running.src /\ k = op.key
                             /\ e = heap[s].fields[op.from] /\ t = e.type
    OBVIOUS
  <1>1. op.pc = "copy construct" /\ UNCHANGED calls
    BY DEF CopyConstruct
  <1>2. PICK new \in Free :
          IF t # "void" /\ e.data = NULL THEN UndefinedBehaviour
          ELSE /\ heap' = Constructed(heap, d, k, t, new)
               /\ Done \/ op' = [pc |-> "copy"]
               /\ UNCHANGED <<map, data, failures>>
    BY <1>0 DEF CopyConstruct
  <1>3. HeapInv(heap) /\ NameInv /\ Complete
    BY DEF IInv
  <1>4. calls' \in 0 .. MaxCalls
    BY <1>1 DEF IInv
  <1>5. /\ d \in DOMAIN heap /\ s \in DOMAIN heap /\ heap[d].type = "store"
        /\ k \in DOMAIN heap[d].fields /\ heap[d].fields[k].data = NULL
        /\ k \in DOMAIN heap[s].fields /\ e = heap[s].fields[k] /\ t \in Type
    <2>1. AtCopy
      BY DEF AtCopy, CopyConstruct
    <2> QED
      BY <1>0, <2>1, FieldAtHand
  <1>9. CASE t # "void" /\ e.data = NULL
    <2>1. op' = Undefined /\ frames' = <<>> /\ UNCHANGED <<map, data, heap, failures>>
      BY <1>2, <1>9 DEF UndefinedBehaviour
    <2>2. OpInv' /\ op'.pc \in {"idle", "undefined"}
      BY <2>1, OpDone
    <2>3. NameInv' /\ FrameInv'
      BY <1>3, <2>1, <2>2, NamesKept, NoFrames
    <2>4. failures # 0
      BY <1>0, <1>3, <1>5, <1>9 DEF Complete, DataComplete
    <2>5. Complete'
      BY <2>1, <2>4 DEF Complete
    <2>6. failures' \in 0 .. MaxFailures
      BY <2>1 DEF IInv
    <2> QED
      BY <1>3, <1>4, <2>1, <2>2, <2>3, <2>5, <2>6 DEF IInv
  <1>10. CASE ~ (t # "void" /\ e.data = NULL)
    <2>1. heap' = Constructed(heap, d, k, t, new) /\ UNCHANGED <<map, data, failures>>
      BY <1>2, <1>10
    <2>2. new \in Object \ DOMAIN heap
      BY DEF Free
    <2>3. HeapInv(heap') /\ Built(heap, heap', d, k, t, new)
      <3>1. /\ HeapInv(heap) /\ d \in DOMAIN heap /\ heap[d].type \in {"store", "list"} /\ t \in Type
            /\ k \in DOMAIN heap[d].fields /\ heap[d].fields[k].data = NULL
        BY <1>3, <1>5
      <3> QED
        BY <2>1, <2>2, <3>1, BuiltOK
    <2>4. (op' = Idle /\ frames' = <<>>) \/ op' = [pc |-> "copy"]
      BY <1>2, <1>10 DEF Done
    <2>5. op' \in OpType /\ op'.pc \in {"idle", "copy"} /\ op' # Undefined
      <3>1. op' = Idle \/ op' = [pc |-> "copy"]
        BY <2>4
      <3>2. op' \in OpType
        BY <3>1 DEF OpType
      <3> QED
        BY <3>1, <3>2 DEF Idle, Undefined
    <2>6. NameInv' /\ OpInv'
      BY <1>3, <2>1, <2>5, NamesKept DEF OpInv
    <2>7. Complete'
      <3> SUFFICES ASSUME failures' = 0 PROVE Complete'
        BY DEF Complete
      <3>1. failures = 0 /\ UNCHANGED <<map, data, failures>>
        BY <2>1
      <3> QED
        <4>1. /\ d \in DOMAIN heap /\ heap[d].type \in {"store", "list"} /\ t \in Type
              /\ k \in DOMAIN heap[d].fields /\ heap[d].fields[k].data = NULL
              /\ op.pc = "copy construct" /\ op'.pc \in {"idle", "copy"} /\ op' # Undefined
          BY <1>1, <1>5, <2>5
        <4> QED
          BY <2>1, <2>2, <3>1, <4>1, ConstructedComplete
    <2>8. failures' \in 0 .. MaxFailures
      BY <2>1 DEF IInv
    <2>9. FrameInv'
      <3>1. CASE op' = Idle /\ frames' = <<>>
        BY <3>1, NoFrames DEF Idle
      <3>2. CASE op' = [pc |-> "copy"]
        BY <3>2, SlotIsCopied, FramesBuilt
      <3> QED
        BY <2>4, <3>1, <3>2
    <2> QED
      BY <1>4, <2>3, <2>6, <2>7, <2>8, <2>9 DEF IInv
  <1> QED
    BY <1>9, <1>10

LEMMA CopyLeafFailsStep ==
  ASSUME IInv, CopyLeafFails
  PROVE  IInv'
  <1>0. PICK d, s, k, e, t : /\ d = Running.dst /\ s = Running.src /\ k = op.key
                             /\ e = heap[s].fields[op.from] /\ t = "leaf"
    OBVIOUS
  <1>1. /\ op' = Idle /\ frames' = <<>> /\ UNCHANGED <<map, data, calls>>
        /\ failures < MaxFailures /\ failures' = failures + 1
    BY DEF CopyLeafFails, Done
  <1>2. PICK new \in Free : heap' = Constructed(heap, d, k, t, new)
    BY <1>0 DEF CopyLeafFails
  <1>3. HeapInv(heap) /\ NameInv /\ failures \in Nat /\ MaxFailures \in Nat
    BY BoundAssumption DEF IInv
  <1>4. /\ d \in DOMAIN heap /\ heap[d].type \in {"store", "list"} /\ t \in Type
        /\ k \in DOMAIN heap[d].fields /\ heap[d].fields[k].data = NULL
    <2>1. AtCopy
      BY DEF AtCopy, CopyLeafFails
    <2>2. t \in Type
      BY <1>0 DEF Type
    <2>3. heap[d].type = "store"
      BY <1>0, <2>1, FieldAtHand
    <2> QED
      BY <1>0, <2>1, <2>2, <2>3, FieldAtHand
  <1>5. new \in Object \ DOMAIN heap
    BY DEF Free
  <1>6. HeapInv(heap')
    BY <1>2, <1>3, <1>4, <1>5, BuiltOK
  <1>7. OpInv' /\ op'.pc \in {"idle", "undefined"} /\ op' # Undefined
    BY <1>1, OpDone DEF Idle, Undefined
  <1>8. NameInv' /\ FrameInv'
    BY <1>1, <1>3, <1>7, NamesKept, NoFrames
  <1>9. failures' \in 0 .. MaxFailures /\ failures' # 0
    BY <1>1, <1>3
  <1>10. Complete'
    BY <1>9 DEF Complete
  <1>11. calls' \in 0 .. MaxCalls
    BY <1>1 DEF IInv
  <1> QED
    BY <1>6, <1>7, <1>8, <1>9, <1>10, <1>11 DEF IInv

----------------------------------------------------------------------------
(* The invariant.                                                          *)

LEMMA InitInvariant == Init => IInv
  <1> SUFFICES ASSUME Init PROVE IInv
    OBVIOUS
  <1>1. /\ map = <<>> /\ data = <<>> /\ op = Idle /\ frames = <<>> /\ calls = 0 /\ failures = 0
        /\ heap = [o \in {Root} |-> NewBlock("store", NULL)]
    BY DEF Init
  <1>2. PICK r : r = NewBlock("store", NULL)
    OBVIOUS
  <1>3. /\ r = [type |-> "store", parent |-> NULL, slots |-> <<>>, fields |-> <<>>]
        /\ r.type = "store" /\ r.parent = NULL /\ r.slots = <<>> /\ r.fields = <<>>
    BY <1>2 DEF NewBlock
  <1>4. heap = [o \in {Root} |-> r] /\ DOMAIN heap = {Root} /\ heap[Root] = r
    BY <1>1, <1>2
  <1>5. op.pc = "idle" /\ op # Undefined
    BY <1>1 DEF Idle, Undefined
  <1>6. HeapInv(heap)
    <2>1. IsBlock(r)
      <3>1. <<>> \in Seq(Index) /\ DOMAIN r.fields = {}
        BY <1>3, EmptySeq, NoElements
      <3>2. r.fields \in [DOMAIN r.fields -> FieldType]
        <4>1. r.fields = [k \in {} |-> NULL]
          BY <1>3
        <4> QED
          BY <3>1, <4>1
      <3>3. r = [type |-> r.type, parent |-> r.parent, slots |-> r.slots, fields |-> r.fields]
        BY <1>3
      <3> QED
        BY <1>3, <3>1, <3>2, <3>3 DEF IsBlock, Type
    <2>2. DOMAIN heap[Root].fields = {}
      BY <1>3, <1>4, NoElements
    <2> QED
      BY <1>3, <1>4, <2>1, <2>2 DEF HeapInv, Rooted, Block
  <1>7. NameInv
    <2>1. DOMAIN map = {} /\ DOMAIN data = {} /\ data \in Seq(Name)
      BY <1>1, NoElements
    <2>2. map \in [DOMAIN map -> Index]
      <3>1. map = [k \in {} |-> NULL]
        BY <1>1
      <3> QED
        BY <2>1, <3>1
    <2> QED
      BY <1>5, <2>1, <2>2 DEF NameInv
  <1>8. OpInv
    <2>1. op \in OpType
      BY <1>1 DEF OpType
    <2> QED
      BY <1>5, <2>1 DEF OpInv
  <1>9. FrameInv
    <2>1. frames \in Seq([dst : Block, src : Block, i : Nat \ {0}]) /\ DOMAIN frames = {}
      BY <1>1, EmptySeq, NoElements, Zenon
    <2> QED
      BY <1>1, <1>5, <2>1 DEF FrameInv, Copying
  <1>10. Complete
    <2>1. DOMAIN map = {}
      BY <1>1, NoElements
    <2>2. DOMAIN heap[Root].fields = {} /\ DOMAIN heap[Root].slots = {}
      BY <1>3, <1>4, NoElements
    <2>3. StoreComplete(Root)
      <3>1. IsInjective(heap[Root].slots) /\ Range(heap[Root].slots) = {}
        BY <2>2 DEF IsInjective, Range
      <3> QED
        BY <1>5, <2>2, <3>1 DEF StoreComplete, SlotsOf
    <2> QED
      BY <1>4, <1>5, <2>1, <2>2, <2>3 DEF Complete, NamesComplete, DataComplete, Stores
  <1>11. calls \in 0 .. MaxCalls /\ failures \in 0 .. MaxFailures
    BY <1>1, BoundAssumption
  <1> QED
    BY <1>6, <1>7, <1>8, <1>9, <1>10, <1>11 DEF IInv

LEMMA IdleStep ==
  ASSUME IInv, UNCHANGED vars
  PROVE  IInv'
  <1>1. UNCHANGED <<map, data, heap, op, frames, calls, failures>>
    BY DEF vars
  <1>2. HeapInv(heap)' /\ NameInv' /\ OpInv' /\ FrameInv' /\ Complete'
    <2>1. HeapInv(heap)' /\ NameInv'
      BY <1>1 DEF IInv, NameInv
    <2>2. OpInv' = OpInv
      BY <1>1 DEF OpInv, Stores, Lists, AtEnd, Running
    <2>3. FrameInv' = FrameInv
      <3>1. \A j : FrameOK(j)' = FrameOK(j)
        BY <1>1 DEF FrameOK, Stores, Appended
      <3> QED
        BY <1>1, <3>1 DEF FrameInv, Copying
    <2>4. Complete' = Complete
      BY <1>1 DEF Complete, NamesComplete, DataComplete, StoreComplete, SlotsOf, Stores, Running
    <2> QED
      BY <2>1, <2>2, <2>3, <2>4 DEF IInv
  <1> QED
    BY <1>1, <1>2 DEF IInv

LEMMA NextInvariant == IInv /\ [Next]_vars => IInv'
  <1> SUFFICES ASSUME IInv, [Next]_vars PROVE IInv'
    OBVIOUS
  <1>1. CASE StoreCalls
    <2>1. PICK s \in Stores :
            \/ Clear(s)
            \/ \E n \in Name : RemoveField(s, n) \/ \E t \in Type : Insert(s, n, t)
            \/ \E src \in Stores : Copy(s, src)
      BY <1>1 DEF StoreCalls
    <2>2. s \in DOMAIN heap
      BY DEF Stores
    <2> QED
      BY <2>1, <2>2, ClearStep, RemoveFieldStep, InsertStep, CopyStep
  <1>2. CASE ListCalls
    <2>1. PICK l \in Lists :
            \/ Clear(l)
            \/ \E i \in 1 .. MaxLength :
                 ListErase(l, i) \/ \E t \in Type : ListInsert(l, i, t) \/ ListAt(l, i, t)
      BY <1>2 DEF ListCalls
    <2>2. l \in DOMAIN heap
      BY DEF Lists
    <2> QED
      BY <2>1, <2>2, ClearStep, ListEraseStep, ListInsertStep, ListAtStep
  <1>3. CASE Runs
    BY <1>3, InternFoundStep, InternMapStep, InternStringStep, EmplaceFieldStep, EmplaceSlotStep,
       ConstructNoneStep, ConstructKeepsStep, ConstructStep, CopySlotStep, CopyFieldStep,
       CopyThrowsStep, CopyConstructStep, CopyLeafFailsStep, CopyReturnStep, FailStep DEF Runs
  <1>4. CASE Stopped \/ UNCHANGED vars
    BY <1>4, IdleStep DEF Stopped
  <1> QED
    BY <1>1, <1>2, <1>3, <1>4 DEF Next

\* The blocks are one tree, whose fields, slots and names fit together, however
\* many allocations fail; without failures they are complete.
THEOREM Invariance == Spec => []IInv
  <1>1. Init => IInv
    BY InitInvariant
  <1>2. IInv /\ [Next]_vars => IInv'
    BY NextInvariant
  <1> QED
    BY <1>1, <1>2, PTL DEF Spec

----------------------------------------------------------------------------
(* What the invariant says.                                                *)

LEMMA TypeCorrect ==
  ASSUME IInv
  PROVE  TypeOK
  <1>1. HeapInv(heap) /\ NameInv /\ OpInv /\ FrameInv
    BY DEF IInv
  <1>2. \E names \in SUBSET Name : map \in [names -> Index]
    BY <1>1 DEF NameInv
  <1>3. data \in BoundedSeq(Name, Cardinality(Name))
    <2>1. data \in Seq(Name) /\ Len(data) \in Nat /\ Len(data) <= Cardinality(Name) /\ Cardinality(Name) \in Nat
      BY <1>1, DataBound, IndexFacts DEF NameInv
    <2>2. data \in [1 .. Len(data) -> Name] /\ Len(data) \in 0 .. Cardinality(Name)
      BY <2>1
    <2> QED
      BY <2>2 DEF BoundedSeq, SeqOf
  <1>4. DOMAIN heap \subseteq Block
    BY <1>1 DEF HeapInv
  <1>5. ASSUME NEW o \in DOMAIN heap
        PROVE  /\ heap[o].type \in Type
               /\ heap[o].parent \in Block \union {NULL}
               /\ heap[o].slots \in Seq(Index)
               /\ \A k \in DOMAIN heap[o].fields : heap[o].fields[k] \in FieldType
               /\ DOMAIN heap[o].fields \subseteq IF heap[o].type = "list" THEN 1 .. MaxLength ELSE Index
    <2>1. IsBlock(heap[o])
      BY <1>1 DEF HeapInv
    <2>2. /\ heap[o].type \in Type /\ heap[o].parent \in Block \union {NULL} /\ heap[o].slots \in Seq(Index)
          /\ \A k \in DOMAIN heap[o].fields : heap[o].fields[k] \in FieldType
      BY <2>1 DEF IsBlock
    <2>3. ASSUME heap[o].type = "list" PROVE DOMAIN heap[o].fields \subseteq 1 .. MaxLength
      <3>1. heap[o].fields \in Seq(FieldType) /\ Len(heap[o].fields) <= MaxLength
        BY <2>1, <2>3 DEF IsBlock
      <3>2. DOMAIN heap[o].fields = 1 .. Len(heap[o].fields) /\ Len(heap[o].fields) \in Nat
        BY <3>1, LenProperties
      <3> QED
        BY <3>1, <3>2, BoundAssumption
    <2>4. heap[o].type # "list" => DOMAIN heap[o].fields \subseteq Index
      BY <2>1 DEF IsBlock
    <2> QED
      BY <2>2, <2>3, <2>4
  <1>6. op \in OpType /\ frames \in Seq([dst : Block, src : Block, i : Nat \ {0}])
    BY <1>1 DEF OpInv, FrameInv
  <1>7. calls \in 0 .. MaxCalls /\ failures \in 0 .. MaxFailures
    BY DEF IInv
  <1> QED
    BY <1>2, <1>3, <1>4, <1>5, <1>6, <1>7 DEF TypeOK

LEMMA OwnersFacts ==
  ASSUME NEW b
  PROVE  /\ \A f \in Owners(b) : f = <<f[1], f[2]>> /\ f[1] \in DOMAIN heap
                                 /\ f[2] \in DOMAIN heap[f[1]].fields
                                 /\ heap[f[1]].fields[f[2]].data = b
         /\ \A o \in DOMAIN heap : \A k \in DOMAIN heap[o].fields :
              heap[o].fields[k].data = b => <<o, k>> \in Owners(b)
  <1>1. ASSUME NEW f \in Owners(b)
        PROVE f = <<f[1], f[2]>> /\ f[1] \in DOMAIN heap /\ f[2] \in DOMAIN heap[f[1]].fields
              /\ heap[f[1]].fields[f[2]].data = b
    <2>1. f \in AllFields /\ heap[f[1]].fields[f[2]].data = b
      BY DEF Owners
    <2>2. PICK o \in DOMAIN heap : f \in {o} \X DOMAIN heap[o].fields
      BY <2>1 DEF AllFields, Fields
    <2> QED
      BY <2>1, <2>2
  <1>2. ASSUME NEW o \in DOMAIN heap, NEW k \in DOMAIN heap[o].fields, heap[o].fields[k].data = b
        PROVE  <<o, k>> \in Owners(b)
    <2>1. <<o, k>> \in {o} \X DOMAIN heap[o].fields
      OBVIOUS
    <2>2. <<o, k>> \in AllFields
      BY <2>1 DEF AllFields, Fields
    <2> QED
      BY <1>2, <2>2 DEF Owners
  <1> QED
    BY <1>1, <1>2

LEMMA OwnedCorrect ==
  ASSUME IInv
  PROVE  TreeOwned
  <1>1. HeapInv(heap) /\ TypeOK
    BY TypeCorrect DEF IInv
  <1>2. \A o \in DOMAIN heap : \A k \in DOMAIN heap[o].fields : Holds(heap, o, k)
    BY <1>1 DEF HeapInv
  <1>3. \A f \in AllFields : heap[f[1]].fields[f[2]].data \in DOMAIN heap \union {NULL}
    <2> SUFFICES ASSUME NEW f \in AllFields
                 PROVE heap[f[1]].fields[f[2]].data \in DOMAIN heap \union {NULL}
      OBVIOUS
    <2>1. PICK o \in DOMAIN heap : f \in {o} \X DOMAIN heap[o].fields
      BY DEF AllFields, Fields
    <2>2. Holds(heap, f[1], f[2])
      BY <1>2, <2>1
    <2> QED
      BY <2>2 DEF Holds
  <1>4. Owners(Root) = {}
    <2> SUFFICES ASSUME NEW f \in Owners(Root) PROVE FALSE
      OBVIOUS
    <2>1. /\ f[1] \in DOMAIN heap /\ f[2] \in DOMAIN heap[f[1]].fields
          /\ heap[f[1]].fields[f[2]].data = Root
      BY OwnersFacts
    <2>2. Holds(heap, f[1], f[2])
      BY <1>2, <2>1
    <2> QED
      BY <2>1, <2>2, ObjectAssumption DEF Holds
  <1>5. ASSUME NEW b \in DOMAIN heap \ {Root}
        PROVE \E f \in AllFields : /\ Owners(b) = {f} /\ heap[b].parent = f[1]
                                   /\ heap[b].type = heap[f[1]].fields[f[2]].type
    <2>1. PICK o : o = heap[b].parent
      OBVIOUS
    <2>2. o \in DOMAIN heap /\ b \in Children(heap, o)
      BY <1>1, <2>1 DEF HeapInv
    <2>3. PICK k \in DOMAIN heap[o].fields : heap[o].fields[k].data = b /\ b # NULL
      BY <2>2 DEF Children
    <2>4. <<o, k>> \in Owners(b)
      BY <2>2, <2>3, OwnersFacts
    <2>5. ASSUME NEW f \in Owners(b) PROVE f = <<o, k>>
      <3>1. /\ f = <<f[1], f[2]>> /\ f[1] \in DOMAIN heap /\ f[2] \in DOMAIN heap[f[1]].fields
            /\ heap[f[1]].fields[f[2]].data = b
        BY OwnersFacts
      <3>2. Holds(heap, f[1], f[2]) /\ Holds(heap, o, k)
        BY <1>2, <2>2, <3>1
      <3>3. f[1] = o
        BY <2>1, <2>3, <3>1, <3>2 DEF Holds
      <3>4. f[2] = k
        BY <2>3, <3>1, <3>2, <3>3 DEF Holds
      <3> QED
        BY <3>1, <3>3, <3>4, Zenon
    <2>6. Owners(b) = {<<o, k>>}
      BY <2>4, <2>5
    <2>7. Holds(heap, o, k)
      BY <1>2, <2>2
    <2>8. PICK f : f = <<o, k>>
      OBVIOUS
    <2>9. f \in AllFields /\ f[1] = o /\ f[2] = k
      BY <2>4, <2>8 DEF Owners
    <2>10. heap[b].type = heap[o].fields[k].type
      BY <2>3, <2>7 DEF Holds
    <2> QED
      BY <2>1, <2>6, <2>8, <2>9, <2>10
  <1> QED
    BY <1>1, <1>3, <1>4, <1>5 DEF TreeOwned

\* Each block is the content of exactly one field, of its type, in its parent.
THEOREM TreeCorrect == Spec => []TreeOwned
  <1>1. IInv => TreeOwned
    BY OwnedCorrect
  <1> QED
    BY <1>1, Invariance, PTL

LEMMA InjectiveLength ==
  ASSUME NEW T, NEW s \in Seq(T), IsInjective(s)
  PROVE  IsFiniteSet(Range(s)) /\ Cardinality(Range(s)) = Len(s)
  <1>1. Len(s) \in Nat /\ DOMAIN s = 1 .. Len(s) /\ s \in [1 .. Len(s) -> Range(s)]
    BY DEF Range
  <1>2. s \in Bijection(1 .. Len(s), Range(s))
    BY <1>1 DEF Bijection, Injection, Surjection, Range
  <1>3. IsFiniteSet(1 .. Len(s)) /\ Cardinality(1 .. Len(s)) = Len(s)
    BY <1>1, FS_Interval, SMTT(30)
  <1> QED
    BY <1>2, <1>3, FS_Bijection DEF ExistsBijection

LEMMA ChecksOK ==
  ASSUME IInv
  PROVE  CheckPasses
  <1> SUFFICES ASSUME failures = 0 PROVE CheckPasses
    BY DEF CheckPasses
  <1>1. /\ op # Undefined /\ NamesComplete /\ \A s \in Stores : StoreComplete(s)
        /\ NameInv /\ HeapInv(heap)
    BY DEF IInv, Complete
  <1>2. ASSUME op = Idle, NEW s \in Stores
        PROVE  /\ Range(heap[s].slots) = DOMAIN heap[s].fields
               /\ Len(heap[s].slots) = Cardinality(DOMAIN heap[s].fields)
    <2>1. op.pc = "idle"
      BY <1>2 DEF Idle
    <2>2. IsInjective(heap[s].slots) /\ Range(heap[s].slots) = DOMAIN heap[s].fields
      BY <1>1, <2>1 DEF StoreComplete, SlotsOf
    <2>3. heap[s].slots \in Seq(Index)
      BY <1>1 DEF HeapInv, IsBlock, Stores
    <2> QED
      BY <2>2, <2>3, InjectiveLength
  <1>3. ASSUME op = Idle
        PROVE  /\ Len(data) = Cardinality(DOMAIN map)
               /\ \A n \in DOMAIN map : map[n] \in DOMAIN data /\ data[map[n]] = n
    <2>1. op.pc = "idle"
      BY <1>3 DEF Idle
    <2>2. \A n \in DOMAIN map : map[n] \in DOMAIN data /\ data[map[n]] = n
      BY <1>1, <2>1 DEF NamesComplete
    <2>3. Range(data) = DOMAIN map
      <3>1. \A i \in DOMAIN data : data[i] \in DOMAIN map
        BY <1>1 DEF NameInv
      <3>2. \A n \in DOMAIN map : \E i \in DOMAIN data : data[i] = n
        BY <2>2
      <3> QED
        BY <3>1, <3>2 DEF Range
    <2>4. data \in Seq(Name) /\ IsInjective(data)
      BY <1>1, DataBound DEF NameInv, IsInjective
    <2> QED
      BY <2>2, <2>3, <2>4, InjectiveLength
  <1> QED
    BY <1>1, <1>2, <1>3 DEF CheckPasses

\* Without failures there is no undefined behaviour, and check() has nothing to
\* complain about in names, slots and fields.
THEOREM CheckCorrect == Spec => []CheckPasses
  <1>1. IInv => CheckPasses
    BY ChecksOK
  <1> QED
    BY <1>1, Invariance, PTL

\* Outside the store that is copied into, block o is what it was.
KeptOutside(o) == o \in DOMAIN heap' /\ heap'[o] = heap[o]

\* A step of a copy changes the store at hand, and what it has made.
LEMMA RunningKeeps ==
  ASSUME IInv, Copying, [Next]_vars, NEW o \in DOMAIN heap, o # Running.dst
  PROVE  KeptOutside(o)
  <1>1. CASE UNCHANGED heap
    BY <1>1 DEF KeptOutside
  <1>2. HeapInv(heap) /\ OpInv
    BY DEF IInv
  <1>3. PICK d : d = Running.dst
    OBVIOUS
  <1>4. d \in DOMAIN heap /\ heap[d].type = "store" /\ Running.src \in DOMAIN heap
    BY <1>3, CopyFacts DEF Running, Stores
  <1>5. op # Idle /\ op # Undefined /\ op.pc \in {"copy", "copy field", "copy construct"}
    <2>1. op.pc \in {"copy", "copy field", "copy construct"}
      BY DEF Copying
    <2>2. Idle.pc = "idle" /\ Undefined.pc = "undefined"
      BY DEF Idle, Undefined
    <2> QED
      BY <2>1, <2>2
  <1>6. CASE CopySlot
    <2>1. heap' = heap \/ \E k : heap' = [heap EXCEPT ![d].slots = Append(@, k)]
      BY <1>3, <1>6 DEF CopySlot, UndefinedBehaviour
    <2>2. ASSUME NEW k, heap' = [heap EXCEPT ![d].slots = Append(@, k)]
          PROVE  o \in DOMAIN heap' /\ heap'[o] = heap[o]
      BY <1>3, <2>2
    <2> QED
      BY <2>1, <2>2 DEF KeptOutside
  <1>7. CASE CopyField
    <2>1. heap' = heap \/ heap' = SetField(heap, d, op.key, EmptyField)
      BY <1>3, <1>7 DEF CopyField
    <2> QED
      BY <1>3, <2>1 DEF KeptOutside, SetField
  <1>8. CASE CopyConstruct \/ CopyLeafFails
    <2>1. heap' = heap \/ \E t : \E b \in Free : heap' = Constructed(heap, d, op.key, t, b)
      BY <1>3, <1>8 DEF CopyConstruct, CopyLeafFails, UndefinedBehaviour
    <2>2. ASSUME NEW t, NEW b \in Free, heap' = Constructed(heap, d, op.key, t, b)
          PROVE  o \in DOMAIN heap' /\ heap'[o] = heap[o]
      <3>1. b # o
        BY DEF Free
      <3>2. PICK h1 : h1 = SetField(heap, d, op.key, [data |-> b, type |-> t])
        OBVIOUS
      <3>3. o \in DOMAIN h1 /\ h1[o] = heap[o]
        BY <1>3, <3>2 DEF SetField
      <3>4. heap' = [x \in DOMAIN h1 \union {b} |-> IF x = b THEN NewBlock(t, d) ELSE h1[x]]
        BY <2>2, <3>2 DEF Constructed
      <3> QED
        BY <3>1, <3>3, <3>4
    <2> QED
      BY <2>1, <2>2 DEF KeptOutside
  <1>9. CASE Fail
    <2>1. heap' = heap \/ \E k, t : heap' = [heap EXCEPT ![d].fields[k].type = t]
      BY <1>3, <1>9 DEF Fail
    <2>2. ASSUME NEW k, NEW t, heap' = [heap EXCEPT ![d].fields[k].type = t]
          PROVE  o \in DOMAIN heap' /\ heap'[o] = heap[o]
      BY <1>3, <2>2
    <2> QED
      BY <2>1, <2>2 DEF KeptOutside
  <1>10. CASE StoreCalls
    BY <1>5, <1>10 DEF StoreCalls, Clear, RemoveField, Insert, Copy, Begin
  <1>11. CASE ListCalls
    BY <1>5, <1>11 DEF ListCalls, Clear, ListErase, ListInsert, ListAt, Begin
  <1>12. CASE CopyThrows \/ CopyReturn \/ Stopped \/ UNCHANGED vars
    BY <1>1, <1>12 DEF CopyThrows, CopyReturn, Stopped, vars
  <1>13. CASE \/ InternFound \/ InternMap \/ InternString \/ EmplaceField \/ EmplaceSlot
              \/ ConstructNone \/ ConstructKeeps \/ Construct
    BY <1>5, <1>13 DEF InternFound, InternMap, InternString, EmplaceField, EmplaceSlot,
       ConstructNone, ConstructKeeps, Construct
  <1> QED
    BY <1>6, <1>7, <1>8, <1>9, <1>10, <1>11, <1>12, <1>13 DEF Next, Runs

\* Only Copy begins a copy.
LEMMA CopyBegins ==
  ASSUME IInv, ~ Copying, [Next]_vars, frames' # <<>>
  PROVE  \E dst, src \in Stores : Copy(dst, src)
  <1>1. op.pc \notin {"copy", "copy field", "copy construct"}
    BY DEF Copying
  <1>2. frames = <<>>
    BY <1>1, NotCopying DEF IInv
  <1>3. CASE StoreCalls
    <2>1. PICK s \in Stores :
            \/ Clear(s)
            \/ \E n \in Name : RemoveField(s, n) \/ \E t \in Type : Insert(s, n, t)
            \/ \E src \in Stores : Copy(s, src)
      BY <1>3 DEF StoreCalls
    <2>2. ~ Clear(s) /\ ~ \E n \in Name : RemoveField(s, n) \/ \E t \in Type : Insert(s, n, t)
      BY <1>2 DEF Clear, RemoveField, UndefinedBehaviour, Insert
    <2> QED
      BY <2>1, <2>2
  <1>4. ~ ListCalls
    BY <1>2 DEF ListCalls, Clear, ListErase, ListInsert, ListAt
  <1>5. ~ Runs
    <2>1. /\ ~ InternFound /\ ~ InternMap /\ ~ InternString /\ ~ EmplaceField /\ ~ EmplaceSlot
          /\ ~ ConstructNone /\ ~ ConstructKeeps /\ ~ Construct /\ ~ CopyThrows
          /\ ~ CopyLeafFails /\ ~ Fail
      BY <1>2 DEF InternFound, InternMap, InternString, EmplaceField, EmplaceSlot,
         ConstructNone, ConstructKeeps, Construct, CopyThrows, CopyLeafFails, Fail, Done
    <2>2. ~ CopySlot /\ ~ CopyField /\ ~ CopyConstruct /\ ~ CopyReturn
      BY <1>1 DEF CopySlot, CopyField, CopyConstruct, CopyReturn
    <2> QED
      BY <2>1, <2>2 DEF Runs
  <1>6. ~ (Stopped \/ UNCHANGED vars)
    BY <1>2 DEF Stopped, vars
  <1> QED
    BY <1>3, <1>4, <1>5, <1>6 DEF Next

LEMMA CopyKeeps ==
  ASSUME IInv, [Next]_vars, frames # <<>> \/ frames' # <<>>,
         NEW d, d = IF frames # <<>> THEN frames[1].dst ELSE frames'[1].dst,
         NEW o \in DOMAIN heap \ Tree(heap, d)
  PROVE  KeptOutside(o)
  <1>1. CASE Copying
    <2>1. frames # <<>>
      BY <1>1 DEF IInv, FrameInv
    <2>2. Running.dst \in Tree(heap, frames[1].dst)
      BY <1>1, CopyFacts DEF Running
    <2> QED
      BY <1>1, <2>1, <2>2, RunningKeeps
  <1>2. CASE ~ Copying
    <2>1. frames = <<>> /\ HeapInv(heap)
      BY <1>2, NotCopying DEF IInv, Copying
    <2>2. PICK dst \in Stores, src \in Stores : Copy(dst, src)
      BY <1>2, <2>1, CopyBegins
    <2>3. dst \in DOMAIN heap /\ heap' = Cleared(dst) /\ frames' = <<Frame(dst, src)>>
      BY <2>2 DEF Copy, Stores
    <2>4. d = dst
      <3>1. frames'[1] = Frame(dst, src) /\ Frame(dst, src).dst = dst
        BY <2>3 DEF Frame
      <3> QED
        BY <2>1, <3>1
    <2>5. PICK R, e : R = Below(dst) /\ e = <<>>
      OBVIOUS
    <2>6. Changed(heap, heap', dst, e, e, R)
      BY <2>1, <2>3, <2>5, ClearedOK
    <2>7. o \notin R /\ o # dst
      <3>1. dst \in Tree(heap, dst)
        BY <2>1, <2>3, HeapFacts, TreeFacts
      <3> QED
        BY <2>4, <2>5, <3>1 DEF Below
    <2> QED
      BY <2>6, <2>7 DEF Changed, KeptOutside
  <1> QED
    BY <1>1, <1>2

\* A copy, also one that fails half-way, changes nothing outside the store it
\* copies into.
THEOREM KeepsCorrect == Spec => CopyKeepsOthers
  <1> DEFINE Kept == frames # <<>> \/ frames' # <<>> =>
               LET outermost == IF frames # <<>> THEN frames[1] ELSE frames'[1]
               IN  \A o \in DOMAIN heap \ Tree(heap, outermost.dst) :
                     o \in DOMAIN heap' /\ heap'[o] = heap[o]
  <1>1. IInv /\ [Next]_vars => Kept
    <2> SUFFICES ASSUME IInv, [Next]_vars, frames # <<>> \/ frames' # <<>> PROVE Kept
      OBVIOUS
    <2>1. PICK d : d = IF frames # <<>> THEN frames[1].dst ELSE frames'[1].dst
      OBVIOUS
    <2>2. \A o \in DOMAIN heap \ Tree(heap, d) : KeptOutside(o)
      BY <2>1, CopyKeeps
    <2>3. d = (IF frames # <<>> THEN frames[1] ELSE frames'[1]).dst
      BY <2>1
    <2> QED
      BY <2>2, <2>3 DEF KeptOutside
  <1> HIDE DEF Kept
  <1>2. IInv /\ [Next]_vars => [Kept]_vars
    BY <1>1
  <1>3. Spec => [][Kept]_vars
    BY <1>2, Invariance, PTL DEF Spec
  <1> QED
    BY <1>3 DEF CopyKeepsOthers, Kept

----------------------------------------------------------------------------
(* Copies are equal to their sources.                                      *)

LEMMA AlikeKept ==
  ASSUME NEW B, Alike(heap, B), NEW d, \A p \in B : p[1] # d /\ p[2] # d,
         \A x \in DOMAIN heap : x # d => KeptOutside(x)
  PROVE  Alike(heap', B)
  <1>1. B \subseteq (DOMAIN heap) \X (DOMAIN heap) /\ \A p \in B : BlocksAlike(heap, B, p[1], p[2])
    BY DEF Alike
  <1>2. ASSUME NEW p \in B
        PROVE  p \in (DOMAIN heap') \X (DOMAIN heap') /\ BlocksAlike(heap', B, p[1], p[2])
    <2>1. p = <<p[1], p[2]>> /\ p[1] \in DOMAIN heap /\ p[2] \in DOMAIN heap
      BY <1>1
    <2>2. /\ p[1] \in DOMAIN heap' /\ heap'[p[1]] = heap[p[1]]
          /\ p[2] \in DOMAIN heap' /\ heap'[p[2]] = heap[p[2]]
      BY <2>1 DEF KeptOutside
    <2>3. BlocksAlike(heap, B, p[1], p[2])
      BY <1>1
    <2>4. \A k : FieldAlike(heap', B, p[1], p[2], k) <=> FieldAlike(heap, B, p[1], p[2], k)
      BY <2>2 DEF FieldAlike
    <2>5. BlocksAlike(heap', B, p[1], p[2])
      BY <2>2, <2>3, <2>4 DEF BlocksAlike
    <2> QED
      BY <2>1, <2>2, <2>5
  <1> QED
    BY <1>2 DEF Alike

\* A block and its copy are added.
LEMMA AlikeAdded ==
  ASSUME NEW h, NEW B, Alike(h, B), NEW a \in DOMAIN h, NEW b \in DOMAIN h, BlocksAlike(h, B, a, b)
  PROVE  Alike(h, B \union {<<a, b>>})
  <1>1. PICK C : C = B \union {<<a, b>>}
    OBVIOUS
  <1>2. B \subseteq (DOMAIN h) \X (DOMAIN h) /\ \A p \in B : BlocksAlike(h, B, p[1], p[2])
    BY DEF Alike
  <1>3. \A x, y, k : FieldAlike(h, B, x, y, k) => FieldAlike(h, C, x, y, k)
    BY <1>1 DEF FieldAlike
  <1>4. \A x, y : BlocksAlike(h, B, x, y) => BlocksAlike(h, C, x, y)
    BY <1>3 DEF BlocksAlike
  <1>5. PICK q : q = <<a, b>>
    OBVIOUS
  <1>6. q[1] = a /\ q[2] = b /\ C = B \union {q} /\ q \in (DOMAIN h) \X (DOMAIN h)
    BY <1>1, <1>5
  <1>7. \A p \in C : p \in (DOMAIN h) \X (DOMAIN h) /\ BlocksAlike(h, C, p[1], p[2])
    BY <1>2, <1>4, <1>6
  <1> QED
    BY <1>1, <1>7 DEF Alike

LEMMA SlotDoneKept ==
  ASSUME NEW B, NEW C, B \subseteq C, NEW j, NEW m, SlotDone(B, j, m),
         frames'[j].dst = frames[j].dst, frames'[j].src = frames[j].src,
         heap'[frames[j].src] = heap[frames[j].src],
         \A k \in DOMAIN heap[frames[j].dst].fields :
           heap[frames[j].dst].fields[k].data # NULL =>
             k \in DOMAIN heap'[frames[j].dst].fields
             /\ heap'[frames[j].dst].fields[k] = heap[frames[j].dst].fields[k],
         Above(j) \subseteq C \union Above(j)'
  PROVE  SlotDone(C, j, m)'
  BY DEF SlotDone, FieldAlike

\* No frames, or one that has copied nothing.
LEMMA NothingCopied ==
  ASSUME \A j \in DOMAIN frames' : frames'[j].i = 1
  PROVE  CopyInv'
  <1>1. PICK B : B = {}
    OBVIOUS
  <1>2. Finished(B)'
    BY <1>1 DEF Finished, Alike
  <1> QED
    BY <1>2 DEF CopyInv

LEMMA NoCopy ==
  ASSUME frames' = <<>>
  PROVE  CopyInv'
  <1>1. DOMAIN frames' = {}
    BY NoElements
  <1> QED
    BY <1>1, NothingCopied

\* The frames stay, and what has been copied stays.
LEMMA SameFrames ==
  ASSUME IInv, CopyInv, Copying, [Next]_vars, UNCHANGED frames,
         \A k \in DOMAIN heap[Running.dst].fields :
           heap[Running.dst].fields[k].data # NULL =>
             k \in DOMAIN heap'[Running.dst].fields
             /\ heap'[Running.dst].fields[k] = heap[Running.dst].fields[k]
  PROVE  CopyInv'
  <1>1. PICK B : Finished(B)
    BY DEF CopyInv
  <1>2. PICK n, d : n = Len(frames) /\ d = frames[n].dst
    OBVIOUS
  <1>3. n \in DOMAIN frames /\ d = Running.dst
    BY <1>2, CopyFacts DEF Running
  <1>4. \A x \in DOMAIN heap : x # d => KeptOutside(x)
    BY <1>3, RunningKeeps
  <1>5. Alike(heap', B)
    <2>1. Alike(heap, B) /\ \A p \in B : p[1] # d /\ p[2] # d
      BY <1>1, <1>2, <1>3 DEF Finished
    <2> QED
      BY <1>4, <2>1, AlikeKept
  <1>6. ASSUME NEW j \in DOMAIN frames, NEW m \in 1 .. frames[j].i - 1 PROVE SlotDone(B, j, m)'
    <2>1. SlotDone(B, j, m)
      BY <1>1 DEF Finished
    <2>2. frames[j].src # d /\ frames[j].src \in DOMAIN heap /\ frames[j].dst \in DOMAIN heap
      BY <1>2, <1>3, CopyFacts, ZenonT(30) DEF Stores
    <2>3. heap'[frames[j].src] = heap[frames[j].src]
      BY <1>4, <2>2 DEF KeptOutside
    <2>4. ASSUME NEW k \in DOMAIN heap[frames[j].dst].fields, heap[frames[j].dst].fields[k].data # NULL
          PROVE  k \in DOMAIN heap'[frames[j].dst].fields
                 /\ heap'[frames[j].dst].fields[k] = heap[frames[j].dst].fields[k]
      <3>1. CASE frames[j].dst = d
        BY <1>3, <2>4, <3>1
      <3>2. CASE frames[j].dst # d
        BY <1>4, <2>2, <3>2 DEF KeptOutside
      <3> QED
        BY <3>1, <3>2
    <2>5. Above(j)' = Above(j)
      BY DEF Above
    <2> QED
      BY <2>1, <2>3, <2>4, <2>5, SlotDoneKept
  <1>7. Finished(B)'
    BY <1>1, <1>5, <1>6 DEF Finished
  <1> QED
    BY <1>7 DEF CopyInv

\* At its end, the running frame's stores are alike.
LEMMA AlikeAtEnd ==
  ASSUME IInv, op.pc = "copy", AtEnd(Running), NEW B, Finished(B)
  PROVE  BlocksAlike(heap, B, Running.dst, Running.src)
  <1>1. PICK n, d, s, i, S : /\ n = Len(frames) /\ d = frames[n].dst /\ s = frames[n].src /\ i = frames[n].i
                             /\ S = heap[s].slots
    OBVIOUS
  <1>2. Copying /\ HeapInv(heap) /\ FrameInv
    BY DEF Copying, IInv
  <1>3. /\ n \in DOMAIN frames /\ DOMAIN frames = 1 .. n /\ n \in Nat \ {0} /\ i \in Nat \ {0}
        /\ d \in Stores /\ s \in Stores
    BY <1>1, <1>2, CopyFacts
  <1>4. Running.dst = d /\ Running.src = s /\ Running.i = i
    BY <1>1 DEF Running
  <1>5. S \in Seq(Index) /\ heap[d].type = "store" /\ heap[s].type = "store"
    BY <1>1, <1>2, <1>3 DEF HeapInv, IsBlock, Stores
  <1>6. i <= Len(S) + 1 /\ heap[d].slots = SubSeq(S, 1, i - 1)
    <2>1. FrameOK(n)
      BY <1>2, <1>3 DEF FrameInv
    <2> QED
      BY <1>1, <2>1 DEF FrameOK, Appended
  <1>7. Len(S) \in Nat /\ i = Len(S) + 1
    <2>1. i > Len(S)
      BY <1>1, <1>4 DEF AtEnd
    <2>2. Len(S) \in Nat
      BY <1>5, LenProperties
    <2> QED
      BY <1>3, <1>6, <2>1, <2>2
  <1>8. heap[d].slots = S
    <2>1. heap[d].slots = SubSeq(S, 1, Len(S))
      BY <1>6, <1>7
    <2> QED
      BY <1>5, <2>1
  <1>9. ASSUME NEW k \in Range(S) PROVE FieldAlike(heap, B, d, s, k)
    <2>1. PICK m \in 1 .. Len(S) : k = S[m]
      BY <1>5 DEF Range
    <2>2. SlotDone(B, n, m)
      <3>1. m \in 1 .. frames[n].i - 1
        BY <1>1, <1>7
      <3> QED
        BY <1>3, <3>1 DEF Finished
    <2>3. n + 1 .. Len(frames) = {}
      BY <1>1, <1>3
    <2>4. Above(n) = {}
      BY <2>3 DEF Above
    <2>5. B \union Above(n) = B
      BY <2>4
    <2> QED
      BY <1>1, <2>1, <2>2, <2>5 DEF SlotDone
  <1> QED
    BY <1>1, <1>4, <1>5, <1>8, <1>9 DEF BlocksAlike

\* The store that has been copied is added to what is finished.
LEMMA ReturnCopied ==
  ASSUME IInv, CopyInv, CopyReturn
  PROVE  CopyInv'
  <1>1. PICK B : Finished(B)
    BY DEF CopyInv
  <1>2. PICK n, d, s, q, C : /\ n = Len(frames) /\ d = frames[n].dst /\ s = frames[n].src
                             /\ q = <<d, s>> /\ C = B \union {q}
    OBVIOUS
  <1>3. op.pc = "copy" /\ AtEnd(Running) /\ frames' = Front(frames) /\ UNCHANGED heap
    BY DEF CopyReturn
  <1>4. Copying /\ FrameInv
    BY <1>3 DEF Copying, IInv
  <1>5. /\ n \in DOMAIN frames /\ DOMAIN frames = 1 .. n /\ n \in Nat \ {0}
        /\ d \in DOMAIN heap /\ s \in DOMAIN heap
        /\ \A j, l \in DOMAIN frames : frames[j].src # frames[l].dst
        /\ \A j, l \in DOMAIN frames : frames[l].dst = frames[j].dst => l = j
    BY <1>2, <1>4, CopyFacts DEF Stores
  <1>6. /\ DOMAIN frames' = 1 .. n - 1 /\ Len(frames') = n - 1
        /\ \A j \in 1 .. n - 1 : frames'[j] = frames[j]
    <2>1. PICK T, f, g : T = [dst : Block, src : Block, i : Nat \ {0}] /\ f = frames /\ g = SubSeq(f, 1, n - 1)
      OBVIOUS
    <2>2. f \in Seq(T) /\ n = Len(f)
      BY <1>2, <1>4, <2>1 DEF FrameInv
    <2>3. g \in Seq(T) /\ Len(g) = n - 1 /\ \A j \in 1 .. n - 1 : g[j] = f[j]
      <3>1. g = SubSeq(f, 1, n - 1) /\ n \in Nat \ {0}
        BY <1>5, <2>1
      <3> QED
        BY <2>2, <3>1
    <2>4. frames' = g
      BY <1>2, <1>3, <2>1 DEF Front
    <2>5. DOMAIN g = 1 .. n - 1
      BY <2>3, LenProperties
    <2> QED
      BY <2>1, <2>3, <2>4, <2>5, Zenon
  <1>7. Alike(heap', C)
    <2>1. BlocksAlike(heap, B, d, s)
      <3>1. Running.dst = d /\ Running.src = s
        BY <1>2 DEF Running
      <3> QED
        BY <1>1, <1>3, <3>1, AlikeAtEnd
    <2>2. Alike(heap, C)
      BY <1>1, <1>2, <1>5, <2>1, AlikeAdded DEF Finished
    <2>3. \A x, y, k : FieldAlike(heap', C, x, y, k) = FieldAlike(heap, C, x, y, k)
      BY <1>3 DEF FieldAlike
    <2>4. \A x, y : BlocksAlike(heap', C, x, y) = BlocksAlike(heap, C, x, y)
      BY <1>3, <2>3 DEF BlocksAlike
    <2> QED
      BY <1>3, <2>2, <2>4 DEF Alike
  <1>8. ASSUME NEW p \in C, NEW j \in DOMAIN frames' PROVE p[1] # frames'[j].dst /\ p[2] # frames'[j].dst
    <2>1. j \in DOMAIN frames /\ j # n /\ frames'[j] = frames[j]
      BY <1>5, <1>6
    <2>2. CASE p \in B
      BY <1>1, <2>1, <2>2 DEF Finished
    <2>3. CASE p = q
      <3>1. p[1] = d /\ p[2] = s
        BY <1>2, <2>3
      <3> QED
        BY <1>2, <1>5, <2>1, <3>1
    <2> QED
      BY <1>2, <2>2, <2>3
  <1>9. ASSUME NEW j \in DOMAIN frames', NEW m \in 1 .. frames'[j].i - 1 PROVE SlotDone(C, j, m)'
    <2>1. j \in DOMAIN frames /\ frames'[j] = frames[j] /\ j \in 1 .. n - 1
      BY <1>5, <1>6
    <2>2. SlotDone(B, j, m)
      BY <1>1, <2>1 DEF Finished
    <2>3. Above(j) \subseteq C \union Above(j)'
      <3> SUFFICES ASSUME NEW l \in j + 1 .. Len(frames)
                   PROVE  <<frames[l].dst, frames[l].src>> \in C \union Above(j)'
        BY DEF Above
      <3>1. CASE l = n
        BY <1>2, <3>1
      <3>2. CASE l # n
        <4>1. l \in j + 1 .. n - 1 /\ l \in 1 .. n - 1
          BY <1>2, <1>5, <2>1, <3>2
        <4>2. frames'[l] = frames[l]
          BY <1>6, <4>1
        <4> QED
          BY <1>6, <4>1, <4>2 DEF Above
      <3> QED
        BY <3>1, <3>2
    <2>4. B \subseteq C
      BY <1>2
    <2> QED
      BY <1>3, <2>1, <2>2, <2>3, <2>4, SlotDoneKept
  <1>10. Finished(C)'
    BY <1>7, <1>8, <1>9 DEF Finished
  <1> QED
    BY <1>10 DEF CopyInv

\* Another slot has been copied; what is not a store is finished with that.
LEMMA ConstructCopied ==
  ASSUME IInv, CopyInv, [Next]_vars, NEW k, NEW t, NEW new, NEW x, SlotCopied(k, t, new, x)
  PROVE  CopyInv'
  <1>0. PICK n, d, s, i, q, B, C :
          /\ n = Len(frames) /\ d = frames[n].dst /\ s = frames[n].src /\ i = frames[n].i
          /\ q = <<new, x>> /\ Finished(B)
          /\ C = IF t \in {"store", "void"} THEN B ELSE B \union {q}
    BY DEF CopyInv
  <1>1. /\ k \in DOMAIN heap[d].fields /\ heap[d].fields[k].data = NULL
        /\ i <= Len(heap[s].slots) /\ k = heap[s].slots[i]
        /\ k \in DOMAIN heap[s].fields /\ heap[s].fields[k].type = t /\ heap[s].fields[k].data = x
        /\ (t # "void" => x # NULL) /\ (t = "list" => heap[x].fields = <<>>)
        /\ t \in Type /\ new \in Object \ DOMAIN heap
        /\ t = "store" => x \in Children(heap, s) /\ x \in Stores
        /\ heap' = Constructed(heap, d, k, t, new)
    BY <1>0 DEF SlotCopied, Running
  <1>2. HeapInv(heap) /\ FrameInv /\ Copying
    BY DEF IInv, Copying, SlotCopied
  <1>3. /\ n \in DOMAIN frames /\ DOMAIN frames = 1 .. n /\ n \in Nat \ {0}
        /\ d \in DOMAIN heap /\ s \in DOMAIN heap /\ heap[d].type = "store" /\ i \in Nat \ {0}
        /\ \A j \in DOMAIN frames : frames[j].dst \in DOMAIN heap /\ frames[j].src \in DOMAIN heap
        /\ \A j, l \in DOMAIN frames : frames[j].src # frames[l].dst
        /\ \A j, l \in DOMAIN frames : frames[l].dst = frames[j].dst => l = j
    BY <1>0, <1>2, CopyFacts DEF Stores
  <1>4. Built(heap, heap', d, k, t, new)
    BY <1>1, <1>2, <1>3, BuiltOK
  <1>5. /\ DOMAIN heap' = DOMAIN heap \union {new} /\ heap'[new] = NewBlock(t, d)
        /\ DOMAIN heap'[d].fields = DOMAIN heap[d].fields
        /\ \A l \in DOMAIN heap[d].fields : l # k => heap'[d].fields[l] = heap[d].fields[l]
        /\ heap'[d].fields[k].data = new /\ heap'[d].fields[k].type = t /\ new # NULL
        /\ \A y \in DOMAIN heap : y # d => heap'[y] = heap[y]
    <2>1. PICK f : f = [data |-> new, type |-> t]
      OBVIOUS
    <2>2. f.data = new /\ f.type = t /\ heap'[d].fields[k] = f
      BY <1>1, <1>4, <2>1 DEF Built
    <2> QED
      BY <1>4, <2>2 DEF Built
  <1>6. /\ DOMAIN frames' = IF t = "store" THEN 1 .. n + 1 ELSE 1 .. n
        /\ Len(frames') = IF t = "store" THEN n + 1 ELSE n
        /\ \A j \in 1 .. n : frames'[j].dst = frames[j].dst /\ frames'[j].src = frames[j].src
        /\ \A j \in 1 .. n : frames'[j].i = IF j = n THEN i + 1 ELSE frames[j].i
        /\ t = "store" => frames'[n + 1].dst = new /\ frames'[n + 1].src = x /\ frames'[n + 1].i = 1
    <2>1. FramesAdvance(t, new, x, n, i)
      BY <1>0, FramesNow
    <2>2. PICK c : c = [dst |-> new, src |-> x, i |-> 1]
      OBVIOUS
    <2>3. c.dst = new /\ c.src = x /\ c.i = 1
      BY <2>2
    <2> QED
      BY <2>1, <2>2, <2>3 DEF FramesAdvance
  <1>7. x \in DOMAIN heap \/ t = "void"
    <2>1. Holds(heap, s, k)
      BY <1>1, <1>2, <1>3 DEF HeapInv
    <2> QED
      BY <1>1, <2>1 DEF Holds
  <1>8. Alike(heap', B)
    <2>1. \A y \in DOMAIN heap : y # d => KeptOutside(y)
      BY <1>5 DEF KeptOutside
    <2>2. \A p \in B : p[1] # d /\ p[2] # d
      BY <1>0, <1>3 DEF Finished
    <2> QED
      BY <1>0, <2>1, <2>2, AlikeKept DEF Finished
  <1>9. Alike(heap', C)
    <2>1. CASE t \in {"store", "void"}
      BY <1>0, <1>8, <2>1
    <2>2. CASE t \notin {"store", "void"}
      <3>1. /\ heap'[new].type = t /\ heap'[new].slots = <<>> /\ heap'[new].fields = <<>>
        BY <1>5 DEF NewBlock
      <3>2. heap[x].type = t /\ x \in DOMAIN heap
        <4>1. Holds(heap, s, k)
          BY <1>1, <1>2, <1>3 DEF HeapInv
        <4> QED
          BY <1>1, <2>2, <4>1 DEF Holds
      <3>3. heap[x].slots = <<>> /\ heap'[x] = heap[x]
        <4>1. IsBlock(heap[x])
          BY <1>2, <3>2 DEF HeapInv
        <4> QED
          BY <1>3, <1>5, <2>2, <3>2, <4>1 DEF IsBlock
      <3>4. BlocksAlike(heap', B, new, x)
        <4>1. Range(heap'[new].slots) = {}
          BY <3>1, NoElements DEF Range
        <4>2. t = "list" => heap'[new].fields = <<>> /\ heap'[x].fields = <<>>
          BY <1>1, <3>1, <3>3
        <4> QED
          BY <3>1, <3>2, <3>3, <4>1, <4>2 DEF BlocksAlike
      <3>5. new \in DOMAIN heap' /\ x \in DOMAIN heap'
        BY <1>5, <3>2
      <3>6. Alike(heap', B \union {<<new, x>>})
        BY <1>8, <3>4, <3>5, AlikeAdded
      <3> QED
        BY <1>0, <2>2, <3>6
    <2> QED
      BY <2>1, <2>2
  <1>10. ASSUME NEW p \in C, NEW j \in DOMAIN frames' PROVE p[1] # frames'[j].dst /\ p[2] # frames'[j].dst
    <2>1. ASSUME p \in B PROVE p[1] \in DOMAIN heap /\ p[2] \in DOMAIN heap
      BY <1>0, <2>1 DEF Finished, Alike
    <2>2. CASE t = "store" /\ j = n + 1
      <3>1. frames'[j].dst = new /\ p \in B
        BY <1>0, <1>6, <2>2
      <3> QED
        BY <1>1, <2>1, <3>1
    <2>3. CASE ~ (t = "store" /\ j = n + 1)
      <3>1. j \in 1 .. n /\ frames'[j].dst = frames[j].dst
        BY <1>3, <1>6, <2>3
      <3>2. CASE p \in B
        BY <1>0, <1>3, <3>1, <3>2 DEF Finished
      <3>3. CASE p = q /\ t \notin {"store", "void"}
        <4>1. p[1] = new /\ p[2] = x
          BY <1>0, <3>3
        <4>2. frames[j].dst # x
          <5>1. x \in Tree(heap, frames[1].src)
            <6>1. s \in Tree(heap, frames[1].src) /\ frames[1].src \in DOMAIN heap
              BY <1>0, <1>2, CopyFacts DEF Stores
            <6>2. x \in Children(heap, s)
              BY <1>1, <3>3 DEF Children
            <6>3. Closed(heap, Tree(heap, frames[1].src))
              BY <1>2, <6>1, HeapFacts, TreeFacts
            <6> QED
              BY <6>1, <6>2, <6>3 DEF Closed
          <5>2. frames[j].dst \notin Tree(heap, frames[1].src)
            BY <1>2, <1>3, <3>1, CopyFacts
          <5> QED
            BY <5>1, <5>2
        <4> QED
          BY <1>1, <1>3, <3>1, <4>1, <4>2
      <3> QED
        BY <1>0, <3>2, <3>3
    <2> QED
      BY <2>2, <2>3
  <1>11. B \subseteq C
    BY <1>0
  <1>12. ASSUME NEW j \in 1 .. n, NEW m \in 1 .. frames[j].i - 1 PROVE SlotDone(C, j, m)'
    <2>1. SlotDone(B, j, m) /\ frames'[j].dst = frames[j].dst /\ frames'[j].src = frames[j].src
      BY <1>0, <1>3, <1>6 DEF Finished
    <2>2. heap'[frames[j].src] = heap[frames[j].src]
      BY <1>0, <1>3, <1>5
    <2>3. ASSUME NEW l \in DOMAIN heap[frames[j].dst].fields, heap[frames[j].dst].fields[l].data # NULL
          PROVE  l \in DOMAIN heap'[frames[j].dst].fields
                 /\ heap'[frames[j].dst].fields[l] = heap[frames[j].dst].fields[l]
      <3>1. CASE frames[j].dst = d
        BY <1>1, <1>5, <2>3, <3>1
      <3>2. CASE frames[j].dst # d
        BY <1>3, <1>5, <2>3, <3>2
      <3> QED
        BY <3>1, <3>2
    <2>4. Above(j) \subseteq Above(j)'
      <3> SUFFICES ASSUME NEW l \in j + 1 .. Len(frames)
                   PROVE  <<frames[l].dst, frames[l].src>> \in Above(j)'
        BY DEF Above
      <3>1. l \in 1 .. n /\ l \in j + 1 .. Len(frames')
        BY <1>0, <1>3, <1>6
      <3>2. frames'[l].dst = frames[l].dst /\ frames'[l].src = frames[l].src
        BY <1>6, <3>1
      <3> QED
        BY <3>1, <3>2 DEF Above
    <2> QED
      BY <1>11, <2>1, <2>2, <2>3, <2>4, SlotDoneKept
  <1>13. SlotDone(C, n, i)'
    <2>1. heap'[s] = heap[s] /\ frames'[n].dst = d /\ frames'[n].src = s
      BY <1>0, <1>3, <1>5, <1>6
    <2>2. t # "void" => <<new, x>> \in C \union Above(n)'
      <3>1. CASE t = "store"
        <4>1. n + 1 \in n + 1 .. Len(frames')
          BY <1>3, <1>6, <3>1
        <4> QED
          BY <1>6, <3>1, <4>1 DEF Above
      <3>2. CASE t \notin {"store", "void"}
        BY <1>0, <3>2
      <3> QED
        BY <3>1, <3>2
    <2>3. FieldAlike(heap', C \union Above(n)', d, s, k)
      BY <1>1, <1>5, <2>1, <2>2, ZenonT(30) DEF FieldAlike
    <2> QED
      <3>1. heap'[frames'[n].src].slots[i] = k
        BY <1>1, <2>1
      <3>2. FieldAlike(heap', C \union Above(n)', frames'[n].dst, frames'[n].src, k)
        BY <2>1, <2>3
      <3> QED
        BY <3>1, <3>2 DEF SlotDone
  <1>14. ASSUME NEW j \in DOMAIN frames', NEW m \in 1 .. frames'[j].i - 1 PROVE SlotDone(C, j, m)'
    <2>1. CASE t = "store" /\ j = n + 1
      BY <1>6, <2>1
    <2>2. CASE ~ (t = "store" /\ j = n + 1)
      <3>1. j \in 1 .. n
        BY <1>3, <1>6, <2>2
      <3>2. CASE j = n /\ m = i
        BY <1>13, <3>2
      <3>3. CASE ~ (j = n /\ m = i)
        <4>1. m \in 1 .. frames[j].i - 1
          <5>1. CASE j = n
            BY <1>0, <1>3, <1>6, <3>1, <3>3, <5>1
          <5>2. CASE j # n
            BY <1>6, <3>1, <5>2
          <5> QED
            BY <5>1, <5>2
        <4> QED
          BY <1>12, <3>1, <4>1
      <3> QED
        BY <3>2, <3>3
    <2> QED
      BY <2>1, <2>2
  <1>15. Finished(C)'
    BY <1>9, <1>10, <1>14 DEF Finished
  <1> QED
    BY <1>15 DEF CopyInv

LEMMA CopyInvCopying ==
  ASSUME IInv, CopyInv, Copying, [Next]_vars, frames' # <<>>
  PROVE  CopyInv'
  <1>1. PICK d : d = Running.dst
    OBVIOUS
  <1>2. d \in DOMAIN heap /\ HeapInv(heap)
    BY <1>1, CopyFacts DEF IInv, Running, Stores
  <1>3. op # Idle /\ op # Undefined /\ op.pc \in {"copy", "copy field", "copy construct"}
    <2>1. op.pc \in {"copy", "copy field", "copy construct"}
      BY DEF Copying
    <2>2. Idle.pc = "idle" /\ Undefined.pc = "undefined"
      BY DEF Idle, Undefined
    <2> QED
      BY <2>1, <2>2
  <1>4. CASE CopySlot
    <2>1. /\ UNCHANGED frames
          /\ \E key : heap' = [heap EXCEPT ![d].slots = Append(@, key)]
      BY <1>1, <1>4 DEF CopySlot, UndefinedBehaviour
    <2>2. heap'[d].fields = heap[d].fields
      BY <1>2, <2>1 DEF HeapInv, IsBlock
    <2> QED
      BY <1>1, <2>1, <2>2, SameFrames
  <1>5. CASE CopyField
    <2>1. UNCHANGED frames
      BY <1>5 DEF CopyField
    <2>2. CASE op.key \in DOMAIN heap[d].fields
      <3>1. heap' = heap
        BY <1>1, <1>5, <2>2 DEF CopyField
      <3> QED
        BY <2>1, <3>1, SameFrames
    <2>3. CASE op.key \notin DOMAIN heap[d].fields
      <3>1. PICK F : F = WithKey(heap[d].fields, op.key, EmptyField)
        OBVIOUS
      <3>2. heap'[d].fields = F
        <4>1. heap' = SetField(heap, d, op.key, EmptyField)
          BY <1>1, <1>5, <2>3 DEF CopyField
        <4>2. heap' = [heap EXCEPT ![d].fields = F]
          BY <3>1, <4>1 DEF SetField
        <4>3. heap[d] = [type |-> heap[d].type, parent |-> heap[d].parent,
                         slots |-> heap[d].slots, fields |-> heap[d].fields]
          BY <1>2 DEF HeapInv, IsBlock
        <4> QED
          BY <1>2, <4>2, <4>3
      <3>3. \A k \in DOMAIN heap[d].fields : k \in DOMAIN F /\ F[k] = heap[d].fields[k]
        BY <2>3, <3>1 DEF WithKey
      <3> QED
        BY <1>1, <2>1, <3>2, <3>3, SameFrames
    <2> QED
      BY <2>2, <2>3
  <1>6. CASE CopyConstruct
    <2>1. op' = [pc |-> "copy"]
      BY <1>6 DEF CopyConstruct, UndefinedBehaviour, Done
    <2>2. PICK k, t, new, x : SlotCopied(k, t, new, x)
      BY <1>6, <2>1, SlotIsCopied
    <2> QED
      BY <2>2, ConstructCopied
  <1>7. CASE CopyReturn
    BY <1>7, ReturnCopied
  <1>8. CASE Stopped \/ UNCHANGED vars
    <2>1. UNCHANGED <<heap, frames>>
      BY <1>8 DEF Stopped, vars
    <2> QED
      BY <2>1, SameFrames
  <1>9. ~ CopyThrows /\ ~ CopyLeafFails /\ ~ Fail
    BY DEF CopyThrows, CopyLeafFails, Fail, Done
  <1>10. ~ StoreCalls
    BY <1>3 DEF StoreCalls, Clear, RemoveField, Insert, Copy, Begin
  <1>11. ~ ListCalls
    BY <1>3 DEF ListCalls, Clear, ListErase, ListInsert, ListAt, Begin
  <1>12. ~ \/ InternFound \/ InternMap \/ InternString \/ EmplaceField \/ EmplaceSlot
           \/ ConstructNone \/ ConstructKeeps \/ Construct
    BY <1>3 DEF InternFound, InternMap, InternString, EmplaceField, EmplaceSlot,
       ConstructNone, ConstructKeeps, Construct
  <1> QED
    BY <1>4, <1>5, <1>6, <1>7, <1>8, <1>9, <1>10, <1>11, <1>12 DEF Next, Runs

LEMMA CopyInvNext ==
  ASSUME IInv, CopyInv, [Next]_vars
  PROVE  CopyInv'
  <1>1. CASE frames' = <<>>
    BY <1>1, NoCopy
  <1>2. CASE frames' # <<>> /\ Copying
    BY <1>2, CopyInvCopying
  <1>3. CASE frames' # <<>> /\ ~ Copying
    <2>1. PICK dst \in Stores, src \in Stores : Copy(dst, src)
      BY <1>3, CopyBegins
    <2>2. PICK c : c = Frame(dst, src)
      OBVIOUS
    <2>3. frames' = <<c>> /\ c.i = 1
      BY <2>1, <2>2 DEF Copy, Frame
    <2>4. \A j \in DOMAIN frames' : frames'[j].i = 1
      BY <2>3
    <2> QED
      BY <2>4, NothingCopied
  <1> QED
    BY <1>1, <1>2, <1>3

LEMMA CopyInvInit ==
  ASSUME Init
  PROVE  CopyInv
  <1>1. DOMAIN frames = {}
    BY NoElements DEF Init
  <1>2. Finished({})
    BY <1>1 DEF Finished, Alike
  <1> QED
    BY <1>2 DEF CopyInv

\* The pairs that are equal as far as E says so of what is below them.
EqualPairs(n, E) ==
  {p \in (DOMAIN heap) \X (DOMAIN heap) :
     /\ heap[p[1]].type = heap[p[2]].type
     /\ heap[p[1]].slots = heap[p[2]].slots
     /\ Keys(p[1]) = Keys(p[2])
     /\ \A k \in Keys(p[1]) :
          /\ k \in DOMAIN heap[p[1]].fields \intersect DOMAIN heap[p[2]].fields
          /\ n > 0 => FieldsEqual(heap[p[1]].fields[k], heap[p[2]].fields[k], E)}

IsEqual(f, n) == f = [m \in 0 .. n |-> EqualPairs(m, f[m - 1])]

LEMMA EqualExists ==
  ASSUME NEW n \in Nat
  PROVE  \E f : IsEqual(f, n)
  <1> DEFINE S == {m \in Nat : \E f : IsEqual(f, m)}
  <1>0. \A E, F : EqualPairs(0, E) = EqualPairs(0, F)
    <2>1. ~ (0 > 0)
      OBVIOUS
    <2> QED
      BY <2>1 DEF EqualPairs
  <1>1. 0 \in S
    <2> DEFINE f == [i \in 0 .. 0 |-> EqualPairs(0, {})]
    <2>1. \A i \in 0 .. 0 : i = 0
      OBVIOUS
    <2>2. f = [i \in 0 .. 0 |-> f[i]] /\ \A i \in 0 .. 0 : f[i] = EqualPairs(0, {})
      OBVIOUS
    <2> HIDE DEF f
    <2>3. \A i \in 0 .. 0 : f[i] = EqualPairs(i, f[i - 1])
      BY <1>0, <2>1, <2>2
    <2>4. IsEqual(f, 0)
      BY <2>2, <2>3 DEF IsEqual
    <2> QED
      BY <2>4
  <1>2. ASSUME NEW m \in Nat, m \in S PROVE m + 1 \in S
    <2>1. PICK f : IsEqual(f, m)
      BY <1>2
    <2>2. \A i \in 0 .. m : f[i] = EqualPairs(i, f[i - 1])
      BY <2>1 DEF IsEqual
    <2> DEFINE g == [i \in 0 .. m + 1 |-> IF i = m + 1 THEN EqualPairs(m + 1, f[m]) ELSE f[i]]
    <2>3. \A i \in 0 .. m : g[i] = f[i]
      OBVIOUS
    <2>4. g[m + 1] = EqualPairs(m + 1, g[m])
      BY <2>3
    <2>5. g = [i \in 0 .. m + 1 |-> g[i]]
      OBVIOUS
    <2> HIDE DEF g
    <2>6. ASSUME NEW i \in 0 .. m + 1 PROVE g[i] = EqualPairs(i, g[i - 1])
      <3>1. CASE i = m + 1
        BY <2>4, <3>1
      <3>2. CASE i = 0
        BY <1>0, <2>2, <2>3, <3>2
      <3>3. CASE i \in 1 .. m
        <4>1. i \in 0 .. m /\ i - 1 \in 0 .. m
          BY <3>3
        <4> QED
          BY <2>2, <2>3, <4>1
      <3> QED
        BY <3>1, <3>2, <3>3
    <2>7. IsEqual(g, m + 1)
      BY <2>5, <2>6 DEF IsEqual
    <2> QED
      BY <2>7
  <1> HIDE DEF S
  <1>3. n \in S
    BY <1>1, <1>2, SetInduction
  <1> QED
    BY <1>3 DEF S

\* Pairs each of which is equal as far as the others are equal are the same, to
\* whatever depth one compares.
LEMMA EqualSame ==
  ASSUME NEW R, R \subseteq EqualPairs(1, R), NEW a, NEW b, <<a, b>> \in R
  PROVE  Same(a, b)
  <1> DEFINE c == Cardinality(Object)
             f == CHOOSE f : f = [n \in 0 .. c |->
                    {p \in (DOMAIN heap) \X (DOMAIN heap) :
                       /\ heap[p[1]].type = heap[p[2]].type
                       /\ heap[p[1]].slots = heap[p[2]].slots
                       /\ Keys(p[1]) = Keys(p[2])
                       /\ \A k \in Keys(p[1]) :
                            /\ k \in DOMAIN heap[p[1]].fields \intersect DOMAIN heap[p[2]].fields
                            /\ n > 0 => FieldsEqual(heap[p[1]].fields[k], heap[p[2]].fields[k], f[n - 1])}]
  <1>1. c \in Nat
    BY ObjectAssumption, FS_CardinalityType
  <1>2. Same(a, b) <=> <<a, b>> \in f[c]
    BY Zenon DEF Same
  <1>3. IsEqual(f, c)
    <2>1. \E g : g = [n \in 0 .. c |->
                    {p \in (DOMAIN heap) \X (DOMAIN heap) :
                       /\ heap[p[1]].type = heap[p[2]].type
                       /\ heap[p[1]].slots = heap[p[2]].slots
                       /\ Keys(p[1]) = Keys(p[2])
                       /\ \A k \in Keys(p[1]) :
                            /\ k \in DOMAIN heap[p[1]].fields \intersect DOMAIN heap[p[2]].fields
                            /\ n > 0 => FieldsEqual(heap[p[1]].fields[k], heap[p[2]].fields[k], g[n - 1])}]
      <3> HIDE DEF c
      <3>1. \E g : IsEqual(g, c)
        BY <1>1, EqualExists, Zenon
      <3> QED
        BY <3>1, Zenon DEF IsEqual, EqualPairs
    <2> QED
      BY <2>1, Zenon DEF IsEqual, EqualPairs
  <1> HIDE DEF f, c
  <1>4. \A n \in 0 .. c : f[n] = EqualPairs(n, f[n - 1])
    BY <1>3 DEF IsEqual
  <1> DEFINE S == {n \in Nat : n <= c => R \subseteq f[n]}
  <1>5. \A n, E : R \subseteq E => R \subseteq EqualPairs(n, E)
    <2>1. \A g, h, E : R \subseteq E /\ FieldsEqual(g, h, R) => FieldsEqual(g, h, E)
      BY DEF FieldsEqual
    <2>2. 1 > 0
      OBVIOUS
    <2> QED
      BY <2>1, <2>2 DEF EqualPairs
  <1>6. \A E : R \subseteq EqualPairs(0, E)
    <2>1. ~ (0 > 0)
      OBVIOUS
    <2> QED
      BY <2>1 DEF EqualPairs
  <1>7. 0 \in S
    BY <1>1, <1>4, <1>6
  <1>8. ASSUME NEW n \in Nat, n \in S PROVE n + 1 \in S
    <2> SUFFICES ASSUME n + 1 <= c PROVE R \subseteq f[n + 1]
      OBVIOUS
    <2>1. R \subseteq f[n] /\ n + 1 \in 0 .. c /\ n + 1 - 1 = n
      BY <1>1, <1>8
    <2>2. f[n + 1] = EqualPairs(n + 1, f[n])
      BY <1>4, <2>1
    <2> QED
      BY <1>5, <2>1, <2>2
  <1> HIDE DEF S
  <1>9. c \in S
    BY <1>1, <1>7, <1>8, SetInduction
  <1>10. R \subseteq f[c]
    BY <1>1, <1>9 DEF S
  <1> QED
    BY <1>2, <1>10

\* The keys of alike blocks.
LEMMA AlikeKeys ==
  ASSUME NEW B, NEW a, NEW b, BlocksAlike(heap, B, a, b)
  PROVE  /\ Keys(a) = Keys(b)
         /\ \A k \in Keys(a) : FieldAlike(heap, B, a, b, k)
  <1>1. CASE heap[a].type = "list"
    <2>1. Keys(a) = {} /\ Keys(b) = {}
      BY <1>1, NoElements DEF BlocksAlike, Keys
    <2> QED
      BY <2>1
  <1>2. CASE heap[a].type # "list"
    <2>1. Keys(a) = Range(heap[a].slots) /\ Keys(b) = Range(heap[a].slots)
      BY <1>2 DEF BlocksAlike, Keys
    <2> QED
      BY <2>1 DEF BlocksAlike
  <1> QED
    BY <1>1, <1>2

LEMMA AlikeSame ==
  ASSUME NEW B, Alike(heap, B), NEW a, NEW b, <<a, b>> \in B
  PROVE  Same(a, b)
  <1>1. B \subseteq (DOMAIN heap) \X (DOMAIN heap) /\ \A p \in B : BlocksAlike(heap, B, p[1], p[2])
    BY DEF Alike
  <1>2. \A p \in B : /\ Keys(p[1]) = Keys(p[2])
                     /\ \A k \in Keys(p[1]) : FieldAlike(heap, B, p[1], p[2], k)
    BY <1>1, AlikeKeys
  <1>3. \A p \in B : heap[p[1]].type = heap[p[2]].type /\ heap[p[1]].slots = heap[p[2]].slots
    BY <1>1 DEF BlocksAlike
  <1>4. \A x, y, k : FieldAlike(heap, B, x, y, k) =>
          /\ k \in DOMAIN heap[x].fields \intersect DOMAIN heap[y].fields
          /\ FieldsEqual(heap[x].fields[k], heap[y].fields[k], B)
    BY DEF FieldAlike, FieldsEqual
  <1>5. B \subseteq EqualPairs(1, B)
    BY <1>1, <1>2, <1>3, <1>4 DEF EqualPairs
  <1> QED
    BY <1>5, EqualSame

\* The other way round that holds where the source has no empty field.
LEMMA SameAlike ==
  ASSUME HeapInv(heap), NEW B, Alike(heap, B), NEW a, NEW b, <<a, b>> \in B, ~ HasEmptyField(b)
  PROVE  Same(b, a)
  <1>1. B \subseteq (DOMAIN heap) \X (DOMAIN heap) /\ \A p \in B : BlocksAlike(heap, B, p[1], p[2])
    BY DEF Alike
  <1>2. b \in DOMAIN heap
    BY <1>1
  <1>3. PICK T : T = Tree(heap, b)
    OBVIOUS
  <1>4. b \in T /\ T \subseteq DOMAIN heap /\ Closed(heap, T)
    BY <1>2, <1>3, HeapFacts, TreeFacts
  <1>5. \A x \in T : \A k \in DOMAIN heap[x].fields : heap[x].fields[k].data \in T \ {NULL}
    <2>1. \A x \in T : \A k \in DOMAIN heap[x].fields : heap[x].fields[k].data # NULL
      BY <1>3 DEF HasEmptyField
    <2>2. \A x \in T : \A k \in DOMAIN heap[x].fields : heap[x].fields[k].data \in Children(heap, x)
      BY <2>1 DEF Children
    <2> QED
      BY <1>4, <2>1, <2>2 DEF Closed
  <1>6. PICK D : D = {<<p[2], p[1]>> : p \in {q \in B : q[2] \in T}}
    OBVIOUS
  <1>7. \A x, y : <<x, y>> \in D <=> <<y, x>> \in B /\ x \in T
    BY <1>1, <1>6
  <1>8. \A p \in D : p = <<p[1], p[2]>>
    BY <1>6
  <1>9. ASSUME NEW p \in D
        PROVE  p \in EqualPairs(1, D)
    <2>1. PICK x, y : x = p[1] /\ y = p[2]
      OBVIOUS
    <2>2. p = <<x, y>> /\ <<y, x>> \in B /\ x \in T
      BY <1>7, <1>8, <2>1
    <2>3. BlocksAlike(heap, B, y, x) /\ x \in DOMAIN heap /\ y \in DOMAIN heap
      <3>1. PICK q : q = <<y, x>>
        OBVIOUS
      <3> QED
        BY <1>1, <2>2, <3>1
    <2>4. Keys(y) = Keys(x) /\ \A k \in Keys(y) : FieldAlike(heap, B, y, x, k)
      BY <2>3, AlikeKeys
    <2>5. heap[x].type = heap[y].type /\ heap[x].slots = heap[y].slots
      BY <2>3 DEF BlocksAlike
    <2>6. ASSUME NEW k \in Keys(x)
          PROVE  /\ k \in DOMAIN heap[x].fields \intersect DOMAIN heap[y].fields
                 /\ FieldsEqual(heap[x].fields[k], heap[y].fields[k], D)
      <3>1. FieldAlike(heap, B, y, x, k)
        BY <2>4
      <3>2. /\ k \in DOMAIN heap[x].fields /\ k \in DOMAIN heap[y].fields
            /\ heap[x].fields[k].type = heap[y].fields[k].type
            /\ heap[x].fields[k].type # "void" => <<heap[y].fields[k].data, heap[x].fields[k].data>> \in B
        BY <3>1 DEF FieldAlike
      <3>3. heap[x].fields[k].data # NULL /\ heap[x].fields[k].data \in T
        BY <1>5, <2>2, <3>2
      <3>4. heap[x].fields[k].type # "void" => <<heap[x].fields[k].data, heap[y].fields[k].data>> \in D
        BY <1>7, <3>2, <3>3
      <3> QED
        BY <3>2, <3>3, <3>4 DEF FieldsEqual
    <2> QED
      BY <2>1, <2>2, <2>3, <2>4, <2>5, <2>6 DEF EqualPairs
  <1>10. D \subseteq EqualPairs(1, D) /\ <<b, a>> \in D
    BY <1>4, <1>7, <1>9
  <1> QED
    BY <1>10, EqualSame

\* A copy that comes to its end, at whatever depth, is equal to its source, and
\* its source to it unless that has an empty field: for the program's operator==,
\* which is not symmetric, since a copied None has data where its source has none.
THEOREM CopyCorrect == Spec => []CopyFaithful
  <1>1. Init => CopyInv
    BY CopyInvInit
  <1>2. IInv /\ CopyInv /\ [Next]_vars => CopyInv'
    BY CopyInvNext
  <1>3. IInv /\ CopyInv => CopyFaithful
    <2> SUFFICES ASSUME IInv, CopyInv, op.pc = "copy", AtEnd(Running)
                 PROVE  /\ Same(Running.dst, Running.src)
                        /\ ~ HasEmptyField(Running.src) => Same(Running.src, Running.dst)
      BY DEF CopyFaithful
    <2>1. PICK B : Finished(B)
      BY DEF CopyInv
    <2>2. PICK a, b, C : a = Running.dst /\ b = Running.src /\ C = B \union {<<a, b>>}
      OBVIOUS
    <2>3. BlocksAlike(heap, B, a, b)
      BY <2>1, <2>2, AlikeAtEnd
    <2>4. a \in DOMAIN heap /\ b \in DOMAIN heap
      <3>1. Copying
        BY DEF Copying
      <3> QED
        BY <2>2, <3>1, CopyFacts DEF Running, Stores
    <2>5. Alike(heap, C) /\ <<a, b>> \in C
      BY <2>1, <2>2, <2>3, <2>4, AlikeAdded DEF Finished
    <2>6. Same(a, b)
      BY <2>5, AlikeSame
    <2>7. ~ HasEmptyField(b) => Same(b, a)
      BY <2>5, SameAlike DEF IInv
    <2> QED
      BY <2>2, <2>6, <2>7
  <1> QED
    BY <1>1, <1>2, <1>3, Invariance, PTL DEF Spec
=============================================================================
