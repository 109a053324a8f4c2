----------------------------- MODULE MCFieldMap -----------------------------
(* Addresses and names are interchangeable.                                *)
EXTENDS FieldMap, TLC

Symmetry == Permutations(Object) \union Permutations(Name)
=============================================================================
