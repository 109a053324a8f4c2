----------------------------- MODULE MCStructs ------------------------------
(* Two structs, each in a region of its own.                              *)
EXTENDS Structs, TLC

CONSTANTS o1, o2, v1, v2, here, there

MCRegion == o1 :> here @@ o2 :> there
=============================================================================
