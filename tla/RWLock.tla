------------------------------- MODULE RWLock -------------------------------
(***************************************************************************)
(* What a structstore lock promises to the code between a ScopedLock's     *)
(* construction and its unlock(): many readers or one writing thread,      *)
(* whose write locks nest.  How the lock is taken is left to SpinMutex.    *)
(*                                                                         *)
(* A handle is one ScopedLock object, Owner the thread that created it.    *)
(***************************************************************************)
EXTENDS Naturals

CONSTANTS Handle, Owner

VARIABLES
    reading,    \* handles that hold the lock for reading
    writing     \* handles that hold the lock for writing

lockVars == <<reading, writing>>

LockTypeOK ==
    /\ reading \subseteq Handle
    /\ writing \subseteq Handle

Init ==
    /\ reading = {}
    /\ writing = {}

GrantRead(h) ==
    /\ h \notin reading
    /\ writing = {}
    /\ reading' = reading \union {h}
    /\ UNCHANGED writing

\* a thread that already writes may be granted the lock again
GrantWrite(h) ==
    /\ h \notin writing
    /\ reading = {}
    /\ \A g \in writing : Owner[g] = Owner[h]
    /\ writing' = writing \union {h}
    /\ UNCHANGED reading

Release(h) ==
    /\ h \in reading \union writing
    /\ reading' = reading \ {h}
    /\ writing' = writing \ {h}

Next ==
    \E h \in Handle : GrantRead(h) \/ GrantWrite(h) \/ Release(h)

Spec == Init /\ [][Next]_lockVars
=============================================================================
