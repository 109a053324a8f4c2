---------------------------- MODULE MCSpinMutex -----------------------------
(* Three threads on one mutex: the first nests two lock objects and takes  *)
(* the second as an ancestor's lock, the others have one each.             *)
EXTENDS SpinMutexProofs, TLC

CONSTANTS t1, t2, t3, h1, h2, h3, h4

MCOwner == h1 :> t1 @@ h2 :> t1 @@ h3 :> t2 @@ h4 :> t3
MCAdaptive == {h2}
MCTid == t1 :> 11 @@ t2 :> 12 @@ t3 :> 13
=============================================================================
