-------------------------- MODULE MCSharedSegment ---------------------------
(* Two processes on one path: one tears it down whenever it closes and     *)
(* polls with revalidate(false), the other cleans up as the last and       *)
(* blocks.                                                                 *)
EXTENDS SharedSegment, TLC

CONSTANTS p1, p2

MCCleanup == [p \in Process |-> IF p = p1 THEN "ALWAYS" ELSE "IF_LAST"]
Symmetry == Permutations(Seg)
MCLast == [p \in Process |-> "IF_LAST"]

Limits(reinits, crashes, fds, restores, overs) ==
    [e \in Event |->
        CASE e = "reinit" -> reinits [] e = "crash" -> crashes [] e = "fd" -> fds
          [] e = "restore" -> restores [] e = "restore_shared" -> overs]
CrashAndPaste == Limits(1, 1, 0, 1, 1)
Descriptor == Limits(1, 0, 1, 0, 0)
Undisturbed == Limits(0, 0, 0, 0, 0)
=============================================================================
