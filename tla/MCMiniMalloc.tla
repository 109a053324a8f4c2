---------------------------- MODULE MCMiniMalloc ----------------------------
(* Classes of 1, 2, 3, 4, 5, 6 and 8 units, in an arena larger than the    *)
(* last class and in one that is smaller.                                  *)
EXTENDS MiniMalloc
=============================================================================
