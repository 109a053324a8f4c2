-------------------------------- MODULE Heap --------------------------------
(***************************************************************************)
(* What mini_malloc promises: "a pointer to size bytes of memory", memory  *)
(* of the arena that no other live block shares, until it is freed.  Sizes *)
(* and addresses are in units of eight bytes.                              *)
(***************************************************************************)
EXTENDS Naturals

CONSTANTS
    Unit    \* the units of the arena

VARIABLES
    live    \* the live blocks: the first unit of each and its requested size

Cells(b) == b.at .. (b.at + b.size - 1)

HeapTypeOK == live \subseteq [at : Unit, size : Nat \ {0}]

Init == live = {}

Allocate(b) ==
    /\ Cells(b) \subseteq Unit
    /\ \A other \in live : Cells(b) \intersect Cells(other) = {}
    /\ live' = live \union {b}

Free(b) ==
    /\ b \in live
    /\ live' = live \ {b}

Next ==
    \/ \E at \in Unit : \E size \in Unit : Allocate([at |-> at, size |-> size])
    \/ \E b \in live : Free(b)

Spec == Init /\ [][Next]_live
=============================================================================
