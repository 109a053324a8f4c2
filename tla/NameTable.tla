------------------------------ MODULE NameTable ------------------------------
(***************************************************************************)
(* What StringStorage promises to the field maps: a name that was once     *)
(* given an index keeps it for good, no two names share one, index 0 means *)
(* "none", and whoever is told an index is told that of the name.          *)
(***************************************************************************)
EXTENDS Naturals

CONSTANTS Name, Index

VARIABLES
    index,      \* the index of each name that has one
    answers     \* history: the pairs of name and index that callers were told

tableVars == <<index, answers>>

Init ==
    /\ index = [n \in {} |-> 0]
    /\ answers = {}

Tell(n) ==
    /\ n \in DOMAIN index
    /\ answers' = answers \union {<<n, index[n]>>}
    /\ UNCHANGED index

\* a new name gets an index that no other name has
Give(n, i) ==
    /\ n \notin DOMAIN index
    /\ i # 0 /\ \A m \in DOMAIN index : index[m] # i
    /\ index' = [m \in DOMAIN index \union {n} |-> IF m = n THEN i ELSE index[m]]
    /\ answers' = answers \union {<<n, i>>}

Next == \E n \in Name : Tell(n) \/ \E i \in Index : Give(n, i)

Spec == Init /\ [][Next]_tableVars
=============================================================================
