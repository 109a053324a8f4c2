---------------------------- MODULE MCFieldLock -----------------------------
(* A store, a list in it and an element of the list; one thread has lock   *)
(* objects for the list and the element, the other for store and element.  *)
EXTENDS FieldLock, TLC

CONSTANTS store, list, elem, t1, t2, h1, h2, h3, h4

MCParent == store :> NoField @@ list :> store @@ elem :> list
MCOwner == h1 :> t1 @@ h2 :> t1 @@ h3 :> t2 @@ h4 :> t2
MCTarget == h1 :> list @@ h2 :> elem @@ h3 :> store @@ h4 :> elem
=============================================================================
