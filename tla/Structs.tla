------------------------------- MODULE Structs -------------------------------
(***************************************************************************)
(* User-defined structs in shared memory: Struct and FieldMap<false>,      *)
(* which list the members of a C++ object by name, the member-wise copies  *)
(* they make, and two kinds of members: pointers (OffsetPtr) and Matrix.   *)
(*                                                                         *)
(* The struct is Frame of tests/mystruct0.hpp with a matrix added: a       *)
(* number, a pointer to a number that the constructor and operator= make   *)
(* point to the object's own, and the matrix.  Objects are fields of       *)
(* stores in several regions (arenas).  Operations run one after the other.*)
(* Copies and assignments go member by member and stop where one throws.   *)
(*                                                                         *)
(* Sizes are those of a machine whose size_t has Word values and whose     *)
(* double takes DoubleSize bytes.                                          *)
(***************************************************************************)
EXTENDS Integers, FiniteSets, FiniteSetsExt

CONSTANTS
    Object,      \* fields that may hold a struct
    Region,      \* the arena of each
    Value,       \* numbers, and contents of matrices
    NULL,
    Wild,        \* a pointer to anything
    Garbage,     \* the content of memory nobody has written
    Outside,     \* memory outside of all arenas
    MaxDims,     \* MAX_DIMS
    Dim,         \* dimensions that matrices are assigned
    Word, DoubleSize,
    MaxFailures  \* bound: allocations that fail although a block is free

(* Which free block the arena hands out does not matter: no address that   *)
(* was freed is compared with another.  So each use has a block of its own.*)
Block == Object \X {"frame", "data", "leaked"}

ASSUME StructsConstants ==
    /\ NULL \notin Object \union Block \union {Outside}
    /\ Wild \notin Object /\ Outside \notin Block /\ Garbage \notin Value
    /\ Dim \subseteq 0 .. Word - 1
    /\ Word \in Nat /\ DoubleSize \in 1 .. Word - 1 /\ MaxDims \in Nat
    /\ MaxFailures \in Nat

VARIABLES
    frame,    \* the members of the objects that exist
    heap,     \* the blocks in use
    op,       \* the running copy or assignment
    failures, \* how many allocations have failed
    halfway,  \* history: objects whose last copy stopped in the middle
    tainted,  \* history: objects whose matrix was not set, or from such a one
    leaked    \* history: blocks of constructors that threw

vars == <<frame, heap, op, failures, halfway, tainted, leaked>>

Idle == [do |-> "none", dst |-> NULL, src |-> NULL, member |-> 0]
Member == <<"t", "ptr", "matrix">>      \* in the order of store_ref

MatrixType ==
    [ndim : 0 .. MaxDims, shape : [1 .. MaxDims -> 0 .. Word - 1],
     data : Block \union {NULL}]

TypeOK ==
    /\ \E live \in SUBSET Object :
         frame \in [live -> [at : Block, t : Value, ptr : Object \union {Wild},
                             matrix : MatrixType]]
    /\ \E used \in SUBSET Block :
         heap \in [used -> [size : Nat, content : Value \union {Garbage}]]
    /\ op \in [do : {"none", "copy", "dict", "wild", "null"}, dst : Object \union {NULL},
               src : Object \union {NULL}, member : 0 .. 4]
    /\ failures \in 0 .. MaxFailures
    /\ halfway \subseteq Object /\ tainted \subseteq Object /\ leaked \subseteq Block

Init ==
    /\ frame = <<>> /\ heap = <<>> /\ op = Idle /\ failures = 0
    /\ halfway = {} /\ tainted = {} /\ leaked = {}

----------------------------------------------------------------------------
(* Matrix.                                                                 *)

Live == DOMAIN frame

NewMatrix == [ndim |-> 0, shape |-> [i \in 1 .. MaxDims |-> 0], data |-> NULL]

Product(n, shape) ==
    LET of[i \in 0 .. n] == IF i = 0 THEN 1 ELSE of[i - 1] * shape[i]
    IN  of[n]

Elements(m) == Product(m.ndim, m.shape)
\* faulty: the size is that of the elements' count
BytesOfChars(n, shape) == Product(n, shape) % Word
Bytes(n, shape) == (DoubleSize * Product(n, shape)) % Word
Negative(d) == d >= Word \div 2

\* faulty: the shape is not taken over
ShapeForgotten(m, shape, set) == m.shape
\* the first dimensions are set, the others stay
ShapeSet(m, shape, set) ==
    [i \in 1 .. MaxDims |-> IF i <= set THEN shape[i] ELSE m.shape[i]]

(* Matrix::from: the matrix afterwards and whether it throws.  The new     *)
(* block is b, NULL if the allocation fails.                               *)
From(m, n, shape, data, b) ==
    IF data = m.data
    THEN [matrix |-> m, full |-> FALSE,
          throws |-> n # m.ndim \/ \E i \in 1 .. n : shape[i] # m.shape[i]]
    ELSE LET bad == {i \in 1 .. n : Negative(shape[i])}
             set == IF bad = {} THEN n ELSE Min(bad) - 1
             needs == bad = {} /\ Bytes(n, shape) > 0
         IN  [matrix |->
                [ndim |-> n,
                 shape |-> ShapeSet(m, shape, set),
                 data |-> IF needs THEN b ELSE NULL],
              full |-> needs /\ b = NULL,
              throws |-> bad # {} \/ (needs /\ b = NULL)]

(* to_text and operator== read every element.                              *)
Readable(m) ==
    Elements(m) > 0 =>
        m.data # NULL /\ heap[m.data].size >= DoubleSize * Elements(m)

(* The heap when a matrix m becomes m2 with new data of that content.      *)
Replaced(m, m2, content) ==
    [b \in ((DOMAIN heap \ {m.data}) \union {m2.data}) \ {NULL} |->
            IF b = m2.data THEN [size |-> Bytes(m2.ndim, m2.shape), content |-> content]
            ELSE heap[b]]

(* o.matrix.from(n, shape, data), where the allocation fails or not: data  *)
(* that the matrix had are freed first, and there may be none to copy.     *)
SetMatrix(o, n, shape, data, fails) ==
    LET m == frame[o].matrix
        b == IF fails THEN NULL ELSE <<o, "data">>
        r == From(m, n, shape, data, b)
    IN  /\ fails => failures < MaxFailures /\ r.full
        /\ frame' = [frame EXCEPT ![o].matrix = r.matrix]
        /\ IF data = m.data THEN UNCHANGED heap
           ELSE \E v \in Value : heap' = Replaced(m, r.matrix,
                  CASE data = NULL -> Garbage
                    [] data = Outside -> v
                    [] OTHER -> heap[data].content)
        /\ failures' = IF fails THEN failures + 1 ELSE failures

(* What becomes of the history: a matrix that was not set is tainted, and  *)
(* so is a copy of one, one set without data, and one whose size does not  *)
(* fit into a size_t.                                                      *)
Taint(o, n, shape, data, badSource) ==
    LET throws == From(frame[o].matrix, n, shape, data, Outside).throws
        m2 == frame'[o].matrix
    IN  IF throws /\ m2 = frame[o].matrix THEN UNCHANGED tainted
        ELSE IF \/ throws \/ badSource
                \/ DoubleSize * Product(n, shape) >= Word
                \/ m2.data = NULL /\ Elements(m2) > 0
             THEN tainted' = tainted \union {o}
             ELSE tainted' = tainted \ {o}

----------------------------------------------------------------------------
(* Objects come and go.                                                    *)

Allocated(b) ==
    [x \in DOMAIN heap \union {b} |->
       IF x = b THEN [size |-> 0, content |-> Garbage] ELSE heap[x]]

\* get_or_construct, whose constructor registers each member by store_ref
Create(o) ==
    /\ op = Idle /\ o \notin Live
    /\ \E v \in Value : LET b == <<o, "frame">> IN
         /\ heap' = Allocated(b)
         /\ frame' = [x \in Live \union {o} |->
                        IF x = o THEN [at |-> b, t |-> v, ptr |-> o, matrix |-> NewMatrix]
                        ELSE frame[x]]
    /\ tainted' = tainted \union {o}
    /\ halfway' = halfway \ {o}
    /\ UNCHANGED <<op, failures, leaked>>

\* store_ref throws: ~Struct forgets the members, but nobody frees the block
CreateThrows(o) ==
    /\ op = Idle /\ o \notin Live /\ failures < MaxFailures
    /\ <<o, "leaked">> \notin leaked
    /\ heap' = Allocated(<<o, "leaked">>)
    /\ leaked' = leaked \union {<<o, "leaked">>}
    /\ failures' = failures + 1
    /\ UNCHANGED <<frame, op, halfway, tainted>>

\* faulty: the destructor leaves the matrix's block
DestroyKeepsData(o) ==
    /\ op = Idle /\ o \in Live
    /\ frame' = [x \in Live \ {o} |-> frame[x]]
    /\ heap' = [b \in DOMAIN heap \ {frame[o].at} |-> heap[b]]
    /\ UNCHANGED <<op, failures, halfway, tainted, leaked>>

\* Field::clear
Destroy(o) ==
    /\ op = Idle /\ o \in Live
    /\ frame' = [x \in Live \ {o} |-> frame[x]]
    /\ heap' = [b \in DOMAIN heap \ {frame[o].at, frame[o].matrix.data} |-> heap[b]]
    /\ UNCHANGED <<op, failures, halfway, tainted, leaked>>

----------------------------------------------------------------------------
(* Members are set one by one.                                             *)

\* a matrix is set to an array, or given a shape only (no data)
SetMember(o) ==
    /\ op = Idle /\ o \in Live
    /\ \E n \in 0 .. MaxDims, shape \in [1 .. MaxDims -> Dim],
          data \in {Outside, NULL}, fails \in BOOLEAN :
         /\ \A i \in n + 1 .. MaxDims : shape[i] = 0
         /\ SetMatrix(o, n, shape, data, fails)
         /\ Taint(o, n, shape, data, data = NULL)
    /\ UNCHANGED <<op, halfway, leaked>>

\* x.ptr = v writes through the pointer
Write(o, v, next) ==
    IF frame[o].ptr \in Live
    THEN frame' = [frame EXCEPT ![frame[o].ptr].t = v] /\ op' = next
    ELSE op' = [op EXCEPT !.do = "wild", !.dst = o] /\ UNCHANGED frame

WriteThrough(o) ==
    /\ op = Idle /\ o \in Live
    /\ \E v \in Value : Write(o, v, op)
    /\ UNCHANGED <<heap, failures, halfway, tainted, leaked>>

\* to_text reads the matrix, operator== also what the pointers point to
\* unless they are equal
ReadMembers(o, x) ==
    /\ op = Idle /\ o \in Live /\ x \in Live
    /\ IF frame[o].ptr # frame[x].ptr /\ ~{frame[o].ptr, frame[x].ptr} \subseteq Live
         THEN op' = [do |-> "wild", dst |-> o, src |-> x, member |-> 0]
         ELSE /\ ~Readable(frame[o].matrix)
              /\ op' = [do |-> "null", dst |-> o, src |-> x, member |-> 0]
    /\ UNCHANGED <<frame, heap, failures, halfway, tainted, leaked>>

----------------------------------------------------------------------------
(* Assignments member by member.                                           *)

GoOn(k) == op' = [op EXCEPT !.member = k]
Dst == frame[op.dst]
Src == frame[op.src]
Doing(do, member) == op.do = do /\ op.member = member

Copy(dst, src) ==
    /\ op = Idle /\ dst \in Live /\ src \in Live /\ dst # src
    /\ op' = [do |-> "copy", dst |-> dst, src |-> src, member |-> 1]
    /\ UNCHANGED <<frame, heap, failures, halfway, tainted, leaked>>

CopyNumber ==
    /\ Doing("copy", 1)
    /\ frame' = [frame EXCEPT ![op.dst].t = Src.t]
    /\ GoOn(2)
    /\ UNCHANGED <<heap, failures, halfway, tainted, leaked>>

(* OffsetPtr keeps the difference of two addresses in 32 bits, which need  *)
(* not be enough from one region to another.                               *)
CopyPointer ==
    /\ Doing("copy", 2)
    /\ \E p \in {Src.ptr} \union (IF Region[op.dst] # Region[op.src] THEN {Wild} ELSE {}) :
         frame' = [frame EXCEPT ![op.dst].ptr = p]
    /\ halfway' = halfway \union {op.dst}
    /\ GoOn(3)
    /\ UNCHANGED <<heap, failures, tainted, leaked>>

CopyMatrix ==
    /\ Doing("copy", 3)
    /\ LET m == Src.matrix
       IN \E fails \in BOOLEAN :
            /\ SetMatrix(op.dst, m.ndim, m.shape, m.data, fails)
            /\ Taint(op.dst, m.ndim, m.shape, m.data, op.src \in tainted)
            /\ IF fails \/ From(Dst.matrix, m.ndim, m.shape, m.data, Outside).throws
                 THEN op' = Idle ELSE GoOn(4)
    /\ UNCHANGED <<halfway, leaked>>

\* faulty: copy_from is all that operator= does
KeepPointer ==
    /\ Doing("copy", 4)
    /\ halfway' = halfway \ {op.dst}
    /\ op' = Idle
    /\ UNCHANGED <<frame, heap, failures, tainted, leaked>>

\* operator= of the struct goes on behind copy_from
ResetPointer ==
    /\ Doing("copy", 4)
    /\ frame' = [frame EXCEPT ![op.dst].ptr = op.dst]
    /\ halfway' = halfway \ {op.dst}
    /\ op' = Idle
    /\ UNCHANGED <<heap, failures, tainted, leaked>>

\* a dict with the right number of entries is assigned
FromDict(dst) ==
    /\ op = Idle /\ dst \in Live
    /\ op' = [do |-> "dict", dst |-> dst, src |-> NULL, member |-> 1]
    /\ UNCHANGED <<frame, heap, failures, halfway, tainted, leaked>>

\* a key is missing, or its value is None or of the wrong type
FromDictThrows ==
    /\ op.do = "dict"
    /\ op' = Idle
    /\ UNCHANGED <<frame, heap, failures, halfway, tainted, leaked>>

FromDictNumber ==
    /\ Doing("dict", 1)
    /\ \E v \in Value : frame' = [frame EXCEPT ![op.dst].t = v]
    /\ GoOn(2)
    /\ UNCHANGED <<heap, failures, halfway, tainted, leaked>>

FromDictPointer ==
    /\ Doing("dict", 2)
    /\ \E v \in Value : Write(op.dst, v, [op EXCEPT !.member = 3])
    /\ UNCHANGED <<heap, failures, halfway, tainted, leaked>>

FromDictMatrix ==
    /\ Doing("dict", 3)
    /\ \E n \in 0 .. MaxDims, shape \in [1 .. MaxDims -> Dim], fails \in BOOLEAN :
         /\ \A i \in n + 1 .. MaxDims : shape[i] = 0
         /\ SetMatrix(op.dst, n, shape, Outside, fails)
         /\ Taint(op.dst, n, shape, Outside, FALSE)
    /\ op' = Idle
    /\ UNCHANGED <<halfway, leaked>>

\* what follows undefined behaviour is not modelled
Undefined == op.do \in {"wild", "null"} /\ UNCHANGED vars

Next ==
    \/ \E o \in Object :
         \/ Create(o) \/ CreateThrows(o) \/ Destroy(o)
         \/ SetMember(o) \/ WriteThrough(o) \/ FromDict(o)
         \/ \E x \in Object : Copy(o, x) \/ ReadMembers(o, x)
    \/ CopyNumber \/ CopyPointer \/ CopyMatrix \/ ResetPointer
    \/ FromDictThrows \/ FromDictNumber \/ FromDictPointer \/ FromDictMatrix
    \/ Undefined

Spec == Init /\ [][Next]_vars

----------------------------------------------------------------------------

(* The pointer of an object points into the object itself, unless a copy   *)
(* into it stopped half way: then it is left pointing to its source, and   *)
(* nothing keeps the source alive or in the same region.  Reads and writes *)
(* through a pointer to freed memory or to nowhere take such an object,    *)
(* and operator[] of a null pointer takes a matrix that was never set.     *)
PointersHome ==
    /\ \A o \in Live \ halfway : frame[o].ptr = o
    /\ op.do = "wild" => {op.dst, op.src} \intersect halfway # {}
    /\ op.do = "null" => op.dst \in tainted

(* Every block in use is an object or the data of one object's matrix: no  *)
(* copy shares data, and no failure on the way loses a block, but for the  *)
(* constructor that throws.                                                *)
BlocksOwned ==
    /\ TypeOK
    /\ DOMAIN heap = leaked \union {frame[o].at : o \in Live}
                       \union ({frame[o].matrix.data : o \in Live} \ {NULL})
    /\ \A o \in Live :
         /\ frame[o].at \notin leaked \union {frame[x].matrix.data : x \in Live}
         /\ frame[o].matrix.data \notin leaked
         /\ \A x \in Live \ {o} :
              /\ frame[x].at # frame[o].at
              /\ frame[x].matrix.data # NULL => frame[x].matrix.data # frame[o].matrix.data

(* All the elements that a matrix's shape tells of exist and were written, *)
(* unless it was never set, the assignment failed, its size overflowed, or *)
(* it is a copy of such a matrix.                                          *)
ShapeTells ==
    \A o \in Live \ tainted :
        LET m == frame[o].matrix IN
        /\ Readable(m)
        /\ m.data # NULL => heap[m.data].content # Garbage

(* A copy that did not throw is equal to its source: number, shape, data.  *)
CopyFaithful ==
    Doing("copy", 4) =>
        /\ Dst.t = Src.t
        /\ Dst.matrix.ndim = Src.matrix.ndim
        /\ \A i \in 1 .. Src.matrix.ndim : Dst.matrix.shape[i] = Src.matrix.shape[i]
        /\ Src.matrix.data # NULL =>
             /\ Dst.matrix.data # NULL
             /\ heap[Dst.matrix.data] = heap[Src.matrix.data]

(* The inductive invariant: each object has blocks of its own, a matrix    *)
(* with data has as many as its shape asks for, and a copy under way has   *)
(* what it copied so far.                                                  *)
BlockInv ==
    /\ leaked \subseteq Object \X {"leaked"}
    /\ \A o \in Live :
         /\ frame[o].at = <<o, "frame">>
         /\ frame[o].matrix.data \in {NULL, <<o, "data">>}
    /\ DOMAIN heap = leaked \union {<<o, "frame">> : o \in Live}
            \union {<<o, "data">> : o \in {x \in Live : frame[x].matrix.data # NULL}}

Sized(m) ==
    m.data # NULL =>
        /\ heap[m.data].size = Bytes(m.ndim, m.shape) /\ heap[m.data].size > 0
        /\ \A i \in 1 .. m.ndim : ~Negative(m.shape[i])

MatrixInv == \A o \in Live : Sized(frame[o].matrix)

OpInv ==
    /\ op.do = "none" => op = Idle
    /\ op.do = "dict" => op.dst \in Live
    /\ op.do = "copy" =>
         /\ op.dst \in Live /\ op.src \in Live /\ op.dst # op.src
         /\ op.member \in 2 .. 4 => Dst.t = Src.t
         /\ op.member \in 3 .. 4 => op.dst \in halfway

IInv ==
    /\ TypeOK /\ BlockInv /\ MatrixInv /\ OpInv
    /\ PointersHome /\ ShapeTells /\ CopyFaithful
=============================================================================
