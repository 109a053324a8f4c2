----------------------------- MODULE MiniMalloc -----------------------------
(***************************************************************************)
(* structstore's allocator (mini_malloc.cpp): nodes that tile the arena,   *)
(* each with a header of one unit that knows its own size and that of the  *)
(* node before, and one doubly linked list of free nodes per size class.   *)
(* mm_allocate and mm_free run under SharedAlloc's write lock (stst_alloc. *)
(* hpp), so each is one step, with every link it writes in the order of    *)
(* the code.                                                               *)
(*                                                                         *)
(* A unit is eight bytes, ALIGN and ALLOC_NODE_SIZE; requests are in units *)
(* (the code rounds bytes up) and fit the 32-bit size_type.  An address is *)
(* a unit's number in the arena.  A header that lies inside of a node that *)
(* absorbed it is never read again, so it is dropped.                      *)
(***************************************************************************)
EXTENDS Integers, FiniteSets

CONSTANTS
    Arena,      \* sizes of arenas: units between the first header and the sentinel
    Bits,       \* the largest size class holds 2^(Bits/4) units; 64 in the code
    Request     \* sizes that are asked for

ASSUME MiniMallocConstants ==
    /\ Arena \subseteq Nat \ {0}
    /\ Bits \in Nat /\ Bits >= 12 /\ Bits % 4 = 0
    /\ Request \subseteq Nat \ {0}

VARIABLES
    arena,      \* the size of the arena
    node,       \* the nodes by the address of their header
    free_nodes, \* the first free node of each size class
    granted     \* history: the size asked for, by the address of the node

vars == <<arena, node, free_nodes, granted>>

----------------------------------------------------------------------------
(* Size classes                                                            *)

LastClass == Bits - 6
Class == 0 .. LastClass

\* powers of two, and fourth powers
Pow2[n \in 0 .. Bits + 1] == IF n = 0 THEN 1 ELSE 2 * Pow2[n - 1]
Fourth(n) == (n * n) * (n * n)

Log2(n) == CHOOSE i \in 0 .. Bits : Pow2[i] <= n /\ n < Pow2[i + 1]

LargestClassSize == Pow2[Bits \div 4]

\* faulty: a size equal to a class's is put one class higher
IndexUpperWithoutMinusOne(units) ==
    IF units <= 4 THEN units - 1
    ELSE IF units > LargestClassSize THEN LastClass
    ELSE Log2(Fourth(units)) - 5

\* the smallest class whose size suffices
get_size_index_upper(units) ==
    IF units <= 4 THEN units - 1
    ELSE IF units > LargestClassSize THEN LastClass
    ELSE Log2(Fourth(units) - 1) - 5

\* the sizes that the table is filled with: 2^(bits/4), rounded down
TableSize(bits) ==
    CHOOSE u \in 1 .. LargestClassSize :
        Fourth(u) <= Pow2[bits] /\ Pow2[bits] < Fourth(u + 1)

\* larger values of bits overwrite smaller ones
sizes ==
    [i \in Class |->
        LET written == {b \in 1 .. Bits : get_size_index_upper(TableSize(b)) = i}
        IN IF written = {} THEN 0
           ELSE TableSize(CHOOSE b \in written : \A c \in written : c <= b)]

\* the largest class that a node of that size can serve: the code goes down
\* from the upper class until the size fits
get_size_index_lower(units) ==
    CHOOSE i \in 0 .. get_size_index_upper(units) :
        /\ sizes[i] <= units
        /\ \A j \in i + 1 .. get_size_index_upper(units) : units < sizes[j]

----------------------------------------------------------------------------
(* The heap h: nodes and list heads.  The head of a free list is the link  *)
(* field of a pseudo node, addressed by a negative number.                 *)

NULL == 0
Addr == 1 .. arena
Sentinel == arena + 2
Head(i) == -1 - i
Link == {Head(i) : i \in Class} \union {NULL} \union Addr

SetNext(h, a, to) ==
    IF a < 0 THEN [h EXCEPT !.free_nodes[-1 - a] = to]
             ELSE [h EXCEPT !.node[a].next = to]

SetPrev(h, a, to) == [h EXCEPT !.node[a].prev = to]

attach_free_nodes(h, a, b) ==
    LET forward == IF a # NULL THEN SetNext(h, a, b) ELSE h
    IN  IF b # NULL THEN SetPrev(forward, b, a) ELSE forward

Unlink(h, a) == attach_free_nodes(h, h.node[a].prev, h.node[a].next)

prepend_free_node(h, a, i) ==
    LET old == h.free_nodes[i]
    IN  attach_free_nodes(attach_free_nodes(h, Head(i), a), a, old)

get_next_node(h, a) ==
    LET b == a + h.node[a].size + 1 IN IF b = Sentinel THEN NULL ELSE b

get_prev_node(h, a) ==
    IF h.node[a].prev_size = 0 THEN NULL ELSE a - h.node[a].prev_size - 1

\* the size shares its word with the flag, which is set along
SetPrevSize(h, a, size) ==
    IF a = NULL THEN h
    ELSE [h EXCEPT !.node[a].prev_size = size, !.node[a].allocated = TRUE]

Heap0 == [node |-> node, free_nodes |-> free_nodes]

NodeType ==
    [size : 1 .. arena, prev_size : 0 .. arena,
     allocated : BOOLEAN, prev : Link, next : Link \ {Head(i) : i \in Class}]

TypeOK ==
    /\ arena \in Arena
    /\ DOMAIN node \subseteq Addr
    /\ \A a \in DOMAIN node : node[a] \in NodeType
    /\ free_nodes \in [Class -> Addr \union {NULL}]
    /\ DOMAIN granted \subseteq DOMAIN node
    /\ \A a \in DOMAIN granted : granted[a] \in Request

\* init_mini_malloc: the first node is always put into the last class
Init ==
    /\ arena \in Arena
    /\ node = [a \in {1} |-> [size |-> arena, prev_size |-> 0, allocated |-> FALSE,
                              prev |-> Head(LastClass), next |-> NULL]]
    /\ free_nodes = [i \in Class |-> IF i = LastClass THEN 1 ELSE NULL]
    /\ granted = [a \in {} |-> 0]

----------------------------------------------------------------------------
(* mm_allocate                                                             *)

\* what is taken for a request: a class size, or the request itself
Rounded(units) ==
    IF get_size_index_upper(units) < LastClass
    THEN sizes[get_size_index_upper(units)] ELSE units

\* the first node of the last class that is large enough
FirstFit(h, units) ==
    LET from[a \in DOMAIN h.node \union {NULL}] ==
            IF a = NULL THEN NULL
            ELSE IF h.node[a].size >= units THEN a ELSE from[h.node[a].next]
    IN  from[h.free_nodes[LastClass]]

\* faulty: only the request's own class is searched
FindInOwnClass(h, units) ==
    LET i == get_size_index_upper(units) IN
    IF h.free_nodes[i] = NULL THEN NULL
    ELSE IF i = LastClass THEN FirstFit(h, Rounded(units))
    ELSE h.free_nodes[i]

\* the node an allocation takes, NULL if there is not enough memory
Find(h, units) ==
    LET candidates == {i \in get_size_index_upper(units) .. LastClass : h.free_nodes[i] # NULL}
        first == CHOOSE i \in candidates : \A j \in candidates : i <= j
    IN  IF candidates = {} THEN NULL
        ELSE IF first = LastClass THEN FirstFit(h, Rounded(units))
        ELSE IF h.node[h.free_nodes[first]].size < Rounded(units) THEN NULL
        ELSE h.free_nodes[first]

\* faulty: the node behind the new one is not told its size
SplitTellsNobody(h, a, size) ==
    LET left == h.node[a].size - size - 1
        b == a + size + 1
        new == [size |-> left, prev_size |-> size, allocated |-> FALSE,
                prev |-> NULL, next |-> NULL]
        cut == [h EXCEPT !.node = [x \in DOMAIN h.node \union {b} |->
                    IF x = b THEN new
                    ELSE IF x = a THEN [h.node[a] EXCEPT !.size = size] ELSE h.node[x]]]
    IN  IF left < 1 THEN h ELSE prepend_free_node(cut, b, get_size_index_lower(left))

\* faulty: the new node's header overlaps the last unit of the block
SplitOverlaps(h, a, size) ==
    LET left == h.node[a].size - size
        b == a + size
        new == [size |-> left, prev_size |-> size - 1, allocated |-> FALSE,
                prev |-> NULL, next |-> NULL]
        cut == [h EXCEPT !.node = [x \in DOMAIN h.node \union {b} |->
                    IF x = b THEN new
                    ELSE IF x = a THEN [h.node[a] EXCEPT !.size = size - 1] ELSE h.node[x]]]
        told == SetPrevSize(cut, get_next_node(cut, b), left)
    IN  IF left < 2 \/ size = 1 THEN h
        ELSE prepend_free_node(told, b, get_size_index_lower(left))

\* give back what node a has beyond size, if it can hold a node
Split(h, a, size) ==
    LET left == h.node[a].size - size - 1
        b == a + size + 1
        new == [size |-> left, prev_size |-> size, allocated |-> FALSE,
                prev |-> NULL, next |-> NULL]
        cut == [h EXCEPT !.node = [x \in DOMAIN h.node \union {b} |->
                    IF x = b THEN new
                    ELSE IF x = a THEN [h.node[a] EXCEPT !.size = size] ELSE h.node[x]]]
        told == SetPrevSize(cut, get_next_node(cut, b), left)
    IN  IF left < 1 THEN h ELSE prepend_free_node(told, b, get_size_index_lower(left))

\* the links of an allocated node belong to the block's user
TakeNode(h, a) ==
    [Unlink(h, a) EXCEPT !.node[a].allocated = TRUE,
                         !.node[a].prev = NULL, !.node[a].next = NULL]

mm_allocate(units) ==
    LET a == Find(Heap0, units)
        h == TakeNode(Split(Heap0, a, Rounded(units)), a)
    IN  /\ a # NULL
        /\ node' = h.node
        /\ free_nodes' = h.free_nodes
        /\ UNCHANGED arena
        /\ granted' = [x \in DOMAIN granted \union {a} |-> IF x = a THEN units ELSE granted[x]]

\* returns NULL, and SharedAlloc::allocate throws
AllocateFails(units) ==
    /\ Find(Heap0, units) = NULL
    /\ UNCHANGED vars

----------------------------------------------------------------------------
(* mm_free                                                                 *)

\* faulty: reads the links of both nodes before it unlinks the first
JoinWithStaleLinks(h, a) ==
    LET b == get_next_node(h, a)
        grown == [h EXCEPT !.node[a].size = @ + h.node[b].size + 1]
        alone == attach_free_nodes(Unlink(grown, a), h.node[b].prev, h.node[b].next)
        merged == [alone EXCEPT !.node = [x \in DOMAIN @ \ {b} |-> @[x]]]
        told == SetPrevSize(merged, get_next_node(merged, a), merged.node[a].size)
    IN  IF a = NULL \/ h.node[a].allocated \/ b = NULL \/ h.node[b].allocated
        THEN h
        ELSE prepend_free_node(told, a, get_size_index_lower(told.node[a].size))

\* the free node a takes in the free node b behind it
Merge(h, a, b) ==
    LET grown == [h EXCEPT !.node[a].size = @ + h.node[b].size + 1]
        alone == Unlink(Unlink(grown, a), b)
        merged == [alone EXCEPT !.node = [x \in DOMAIN @ \ {b} |-> @[x]]]
        told == SetPrevSize(merged, get_next_node(merged, a), merged.node[a].size)
    IN  prepend_free_node(told, a, get_size_index_lower(told.node[a].size))

join_with_next(h, a) ==
    LET b == get_next_node(h, a)
    IN  IF a = NULL \/ h.node[a].allocated \/ b = NULL \/ h.node[b].allocated
        THEN h ELSE Merge(h, a, b)

\* faulty: does not join with the node before
FreeJoinsForward(a) ==
    LET released == [Heap0 EXCEPT !.node[a].allocated = FALSE]
        listed == prepend_free_node(released, a, get_size_index_lower(node[a].size))
        h == join_with_next(listed, a)
    IN  /\ node' = h.node
        /\ free_nodes' = h.free_nodes
        /\ UNCHANGED arena
        /\ granted' = [x \in DOMAIN granted \ {a} |-> granted[x]]

mm_free(a) ==
    LET released == [Heap0 EXCEPT !.node[a].allocated = FALSE]
        listed == prepend_free_node(released, a, get_size_index_lower(node[a].size))
        next == join_with_next(listed, a)
        h == join_with_next(next, get_prev_node(next, a))
    IN  /\ node' = h.node
        /\ free_nodes' = h.free_nodes
        /\ UNCHANGED arena
        /\ granted' = [x \in DOMAIN granted \ {a} |-> granted[x]]

Next ==
    \/ \E units \in Request : mm_allocate(units) \/ AllocateFails(units)
    \/ \E a \in DOMAIN granted : mm_free(a)

Spec == Init /\ [][Next]_vars

----------------------------------------------------------------------------

(* The nodes tile the arena: from the first header on, each node ends at   *)
(* the next one's header or at the sentinel, each knows the size of its    *)
(* predecessor, and each allocated node holds what was asked for.          *)
NodesTile ==
    /\ TypeOK
    /\ 1 \in DOMAIN node /\ node[1].prev_size = 0
    /\ \A a \in DOMAIN node :
        LET b == a + node[a].size + 1 IN
        /\ b = Sentinel \/ (b \in DOMAIN node /\ node[b].prev_size = node[a].size)
        /\ \A c \in a + 1 .. b - 1 : c \notin DOMAIN node
        /\ node[a].allocated <=> a \in DOMAIN granted
        /\ a \in DOMAIN granted => granted[a] <= node[a].size

(* Freeing joins with both neighbours: no two free nodes touch.            *)
Coalesced ==
    \A a \in DOMAIN node :
        LET b == get_next_node(Heap0, a) IN
        ~node[a].allocated /\ b # NULL => node[b].allocated

\* the nodes from a on, following the list; none twice, whatever the links
Reached(a) ==
    LET step[n \in 0 .. Cardinality(DOMAIN node)] ==
            IF n = 0 THEN {a} \intersect DOMAIN node
            ELSE step[n - 1] \union ({node[x].next : x \in step[n - 1]} \intersect DOMAIN node)
    IN  step[Cardinality(DOMAIN node)]

\* b follows a, a node or a list's head
Linked(a, b) == b = NULL \/ (b \in DOMAIN node /\ node[b].prev = a)

(* Each free node is in exactly one list, that of the largest class it can *)
(* serve, and its links back are those that lead to it; the node that      *)
(* spans the arena is in the last class at first, whatever its size.       *)
FreeListsSound ==
    /\ \A i \in Class : Linked(Head(i), free_nodes[i])
    /\ \A i \in Class : \A a \in Reached(free_nodes[i]) :
        /\ ~node[a].allocated
        /\ i = get_size_index_lower(node[a].size) \/ (i = LastClass /\ node[a].size = arena)
        /\ Linked(a, node[a].next)
    /\ \A a \in DOMAIN node :
        ~node[a].allocated => \E i \in Class : a \in Reached(free_nodes[i])

(* An allocation fails only if no free node has the size of the request's  *)
(* class: one look at the head of a list is enough.                        *)
FindsMemory ==
    \A units \in Request :
        (\E a \in DOMAIN node :
            /\ ~node[a].allocated
            /\ node[a].size >= Rounded(units)
            /\ node[a].size >= sizes[get_size_index_upper(units)])
        => Find(Heap0, units) # NULL

(* The arithmetic of the class index agrees with its meaning: the smallest *)
(* class that is large enough, for every size the arena could grant, and   *)
(* sizes grow with the class.                                              *)
ClassesMatch ==
    \A units \in 1 .. arena : units <= LargestClassSize =>
        LET i == get_size_index_upper(units) IN
        /\ units <= sizes[i]
        /\ \A j \in Class : j < i => sizes[j] < units
        /\ \A j \in Class : j > i => sizes[j] > sizes[i]

(* The blocks handed out are those of the abstract heap, each counted with *)
(* the header before it, which the block's user must not reach either.     *)
H == INSTANCE Heap WITH
        Unit <- UNION {1 .. size + 1 : size \in Arena},
        live <- {[at |-> a, size |-> granted[a] + 1] : a \in DOMAIN granted}

(* mm_allocate and mm_free do what Heap promises: a new block overlaps no  *)
(* block that is live and lies in the arena, and only a live block ends.   *)
ImplementsHeap == H!Spec
=============================================================================
