------------------------------ MODULE MCStrings ------------------------------
(* Three threads, of which one may die, and as many names as indices.      *)
EXTENDS Strings, TLC
=============================================================================
