----------------------------- MODULE MCBindings -----------------------------
(* Two processes.  A free address remains when each refers to a freed list.*)
EXTENDS Bindings, TLC

CONSTANTS p, q, v, b1, b2, b3

MCParent == Store :> NoField @@ List :> Store
MCHandle == Thread \X Role
MCOwner == [h \in MCHandle |-> h[1]]
MCTarget == [h \in MCHandle |-> IF h[2] \in {"with", "set"} THEN Store ELSE List]
Symmetry == Permutations({p, q}) \union Permutations({b1, b2, b3})
=============================================================================
