----------------------------- MODULE SpinMutex ------------------------------
(***************************************************************************)
(* structstore's SpinMutex (stst_lock.cpp), the reader-writer spin lock    *)
(* that lies in shared memory beside every StructStore, List, Matrix and   *)
(* String and in every allocator, one action per access to shared memory   *)
(* (WriteEntry has two where only the owner of the mutex gets to both).    *)
(*                                                                         *)
(* The threads are those of all processes that map the segment.  A handle  *)
(* is one ScopedLock object: held[h] is what its constructor acquired,     *)
(* "none" before the constructor returns and after unlock().  A handle in  *)
(* Adaptive is taken and released the way FieldTypeBase locks an ancestor, *)
(* by read_or_write_lock and read_or_write_unlock.                         *)
(*                                                                         *)
(* A spurious failure of compare_exchange_weak leaves everything but v as  *)
(* it was, and v is either loaded again (locking) or equal to the level    *)
(* (unlocking), so it is a stuttering step.  write_lock_tid is no atomic;  *)
(* its 32-bit accesses are taken as single steps in program order.         *)
(***************************************************************************)
EXTENDS Integers, FiniteSets

CONSTANTS
    Thread,
    Handle,
    NoHandle,
    Owner,      \* the thread that constructs and destroys a handle
    Adaptive,   \* the handles locked through read_or_write_lock
    Tid,        \* the value of the thread_local SpinMutex::tid
    MaxLevel    \* largest value of the int16_t level, 32767 in the code

ASSUME SpinMutexConstants ==
    /\ IsFiniteSet(Handle)
    /\ NoHandle \notin Handle
    /\ Owner \in [Handle -> Thread]
    /\ Adaptive \subseteq Handle
    /\ Tid \in [Thread -> Nat]
    /\ MaxLevel \in Nat \ {0}

VARIABLES
    level,           \* > 0 read-locked, 0 unlocked, < 0 write-locked
    write_lock_tid,  \* tid of the writing thread, or zero
    pc,              \* next access of each thread
    v,               \* the local v of each thread's call, 0 outside of one
    cur,             \* the handle each thread is locking or unlocking
    held             \* what each handle holds

vars == <<level, write_lock_tid, pc, v, cur, held>>

----------------------------------------------------------------------------

\* conversion of an int to the int16_t that level holds
Int16(n) ==
    IF n > MaxLevel THEN n - 2 * (MaxLevel + 1)
    ELSE IF n < -MaxLevel - 1 THEN n + 2 * (MaxLevel + 1)
    ELSE n

Level == (-MaxLevel - 1) .. MaxLevel

ReadLocking == {"read_entry", "read_load", "read_cas"}
WriteLocking ==
    {"write_entry", "write_restore", "write_load", "write_cas",
     "write_check", "write_set"}
ReadUnlocking == {"read_unlock", "read_unlock_cas"}
WriteUnlocking == {"write_unlock", "write_unlock_store"}

PC == {"idle", "write_unlock_clear"}
        \union ReadLocking \union WriteLocking
        \union ReadUnlocking \union WriteUnlocking

TypeOK ==
    /\ level \in Level
    /\ write_lock_tid \in {0} \union {Tid[t] : t \in Thread}
    /\ pc \in [Thread -> PC]
    /\ v \in [Thread -> Level]
    /\ cur \in [Thread -> Handle \union {NoHandle}]
    /\ held \in [Handle -> {"none", "read", "write"}]

Init ==
    /\ level = 0
    /\ write_lock_tid = 0
    /\ pc = [t \in Thread |-> "idle"]
    /\ v = [t \in Thread |-> 0]
    /\ cur = [t \in Thread |-> NoHandle]
    /\ held = [h \in Handle |-> "none"]

----------------------------------------------------------------------------

Goto(t, l) == pc' = [pc EXCEPT ![t] = l]

\* t returns from the call on its current handle, normally or by throwing
Return(t) ==
    /\ Goto(t, "idle")
    /\ v' = [v EXCEPT ![t] = 0]
    /\ cur' = [cur EXCEPT ![t] = NoHandle]

WritesHere(t) == write_lock_tid = Tid[t]

Call(t, h, l) ==
    /\ pc[t] = "idle"
    /\ Owner[h] = t
    /\ Goto(t, l)
    /\ cur' = [cur EXCEPT ![t] = h]
    /\ UNCHANGED <<level, write_lock_tid, v, held>>

\* ScopedLock<false>(mutex)
CallReadLock(t, h) ==
    /\ held[h] = "none" /\ h \notin Adaptive
    /\ Call(t, h, "read_entry")

\* ScopedLock<true>(mutex)
CallWriteLock(t, h) ==
    /\ held[h] = "none" /\ h \notin Adaptive
    /\ Call(t, h, "write_entry")

CallReadOrWriteLock(t, h) ==
    /\ held[h] = "none" /\ h \in Adaptive
    /\ Call(t, h, IF WritesHere(t) THEN "write_entry" ELSE "read_entry")

\* unlock() of a ScopedLock knows from its type what to release
CallUnlock(t, h) ==
    /\ held[h] # "none" /\ h \notin Adaptive
    /\ Call(t, h, IF held[h] = "write" THEN "write_unlock" ELSE "read_unlock")

\* an ancestor's lock is released by what write_lock_tid says now
CallReadOrWriteUnlock(t, h) ==
    /\ held[h] # "none" /\ h \in Adaptive
    /\ Call(t, h, IF WritesHere(t) THEN "write_unlock" ELSE "read_unlock")

----------------------------------------------------------------------------
(* read_lock and read_unlock                                               *)

ReadEntry(t) ==
    /\ pc[t] = "read_entry"
    /\ IF WritesHere(t)
         THEN Return(t)     \* throws: the current thread has the write lock
         ELSE Goto(t, "read_load") /\ UNCHANGED <<v, cur>>
    /\ UNCHANGED <<level, write_lock_tid, held>>

\* faulty: reads below a write lock that has just been nested
ReadLoadOffByOne(t) ==
    /\ pc[t] = "read_load"
    /\ level >= -1
    /\ v' = [v EXCEPT ![t] = level]
    /\ Goto(t, "read_cas")
    /\ UNCHANGED <<level, write_lock_tid, cur, held>>

ReadLoad(t) ==
    /\ pc[t] = "read_load"
    /\ level >= 0
    /\ v' = [v EXCEPT ![t] = level]
    /\ Goto(t, "read_cas")
    /\ UNCHANGED <<level, write_lock_tid, cur, held>>

\* faulty: waits forever for a write lock that is not nested
ReadTimeoutOffByOne(t) ==
    /\ pc[t] = "read_load"
    /\ level < -1
    /\ Return(t)
    /\ UNCHANGED <<level, write_lock_tid, held>>

ReadTimeout(t) ==
    /\ pc[t] = "read_load"
    /\ level < 0
    /\ Return(t)
    /\ UNCHANGED <<level, write_lock_tid, held>>

ReadCas(t) ==
    /\ pc[t] = "read_cas"
    /\ IF level = v[t]
         THEN /\ level' = Int16(v[t] + 1)
              /\ held' = [held EXCEPT ![cur[t]] = "read"]
              /\ Return(t)
         ELSE /\ v' = [v EXCEPT ![t] = level]
              /\ Goto(t, "read_load")
              /\ UNCHANGED <<level, cur, held>>
    /\ UNCHANGED write_lock_tid

ReadUnlock(t) ==
    /\ pc[t] = "read_unlock"
    /\ v' = [v EXCEPT ![t] = level]
    /\ Goto(t, "read_unlock_cas")
    /\ UNCHANGED <<level, write_lock_tid, cur, held>>

\* faulty: a plain store of the loaded level, less one
ReadUnlockStore(t) ==
    /\ pc[t] = "read_unlock_cas"
    /\ level' = Int16(v[t] - 1)
    /\ held' = [held EXCEPT ![cur[t]] = "none"]
    /\ Return(t)
    /\ UNCHANGED write_lock_tid

ReadUnlockCas(t) ==
    /\ pc[t] = "read_unlock_cas"
    /\ IF level = v[t]
         THEN /\ level' = Int16(v[t] - 1)
              /\ held' = [held EXCEPT ![cur[t]] = "none"]
              /\ Return(t)
         ELSE /\ v' = [v EXCEPT ![t] = level]
              /\ UNCHANGED <<level, pc, cur, held>>
    /\ UNCHANGED write_lock_tid

----------------------------------------------------------------------------
(* write_lock and write_unlock                                             *)

\* the test of write_lock_tid, and when it says that the thread has the mutex
\* the load of level, which nobody else changes then
WriteEntry(t) ==
    /\ pc[t] = "write_entry"
    /\ IF WritesHere(t)
         THEN Goto(t, "write_restore") /\ v' = [v EXCEPT ![t] = level]
         ELSE Goto(t, "write_load") /\ UNCHANGED v
    /\ UNCHANGED <<level, write_lock_tid, cur, held>>

\* a recursive write lock stores the level it has just loaded, less one
WriteRestore(t) ==
    /\ pc[t] = "write_restore"
    /\ level' = Int16(v[t] - 1)
    /\ held' = [held EXCEPT ![cur[t]] = "write"]
    /\ Return(t)
    /\ UNCHANGED write_lock_tid

\* faulty: does not wait for readers
WriteLoadOverReaders(t) ==
    /\ pc[t] = "write_load"
    /\ level >= 0
    /\ v' = [v EXCEPT ![t] = level]
    /\ Goto(t, "write_cas")
    /\ UNCHANGED <<level, write_lock_tid, cur, held>>

WriteLoad(t) ==
    /\ pc[t] = "write_load"
    /\ level = 0
    /\ v' = [v EXCEPT ![t] = level]
    /\ Goto(t, "write_cas")
    /\ UNCHANGED <<level, write_lock_tid, cur, held>>

WriteTimeout(t) ==
    /\ pc[t] = "write_load"
    /\ level # 0
    /\ Return(t)
    /\ UNCHANGED <<level, write_lock_tid, held>>

WriteCas(t) ==
    /\ pc[t] = "write_cas"
    /\ IF level = v[t]
         THEN level' = -1 /\ Goto(t, "write_check") /\ UNCHANGED v
         ELSE /\ v' = [v EXCEPT ![t] = level]
              /\ Goto(t, "write_load")
              /\ UNCHANGED level
    /\ UNCHANGED <<write_lock_tid, cur, held>>

\* faulty: does not look at the tid
WriteCheckSkipped(t) ==
    /\ pc[t] = "write_check"
    /\ Goto(t, "write_set")
    /\ UNCHANGED <<level, write_lock_tid, v, cur, held>>

\* throws "internal error" and leaves level at -1 if the tid is not cleared
WriteCheck(t) ==
    /\ pc[t] = "write_check"
    /\ IF write_lock_tid # 0
         THEN Return(t)
         ELSE Goto(t, "write_set") /\ UNCHANGED <<v, cur>>
    /\ UNCHANGED <<level, write_lock_tid, held>>

WriteSet(t) ==
    /\ pc[t] = "write_set"
    /\ write_lock_tid' = Tid[t]
    /\ held' = [held EXCEPT ![cur[t]] = "write"]
    /\ Return(t)
    /\ UNCHANGED level

WriteUnlock(t) ==
    /\ pc[t] = "write_unlock"
    /\ v' = [v EXCEPT ![t] = level]
    /\ Goto(t, "write_unlock_store")
    /\ UNCHANGED <<level, write_lock_tid, cur, held>>

\* faulty: every unlock clears the tid, also that of a nested write lock
WriteUnlockStoreClears(t) ==
    /\ pc[t] = "write_unlock_store"
    /\ level' = Int16(v[t] + 1)
    /\ held' = [held EXCEPT ![cur[t]] = "none"]
    /\ Goto(t, "write_unlock_clear")
    /\ UNCHANGED <<write_lock_tid, v, cur>>

\* the lock is free for others from here on, the tid is cleared afterwards
WriteUnlockStore(t) ==
    /\ pc[t] = "write_unlock_store"
    /\ level' = Int16(v[t] + 1)
    /\ held' = [held EXCEPT ![cur[t]] = "none"]
    /\ IF v[t] + 1 = 0
         THEN Goto(t, "write_unlock_clear") /\ UNCHANGED <<v, cur>>
         ELSE Return(t)
    /\ UNCHANGED write_lock_tid

WriteUnlockClear(t) ==
    /\ pc[t] = "write_unlock_clear"
    /\ write_lock_tid' = 0
    /\ Return(t)
    /\ UNCHANGED <<level, held>>

----------------------------------------------------------------------------

Calls(t) ==
    \E h \in Handle :
        \/ CallReadLock(t, h)
        \/ CallWriteLock(t, h)
        \/ CallReadOrWriteLock(t, h)
        \/ CallUnlock(t, h)
        \/ CallReadOrWriteUnlock(t, h)

Runs(t) ==
    \/ ReadEntry(t) \/ ReadLoad(t) \/ ReadTimeout(t) \/ ReadCas(t)
    \/ ReadUnlock(t) \/ ReadUnlockCas(t)
    \/ WriteEntry(t) \/ WriteRestore(t)
    \/ WriteLoad(t) \/ WriteTimeout(t) \/ WriteCas(t)
    \/ WriteCheck(t) \/ WriteSet(t)
    \/ WriteUnlock(t) \/ WriteUnlockStore(t) \/ WriteUnlockClear(t)

Next == \E t \in Thread : Calls(t) \/ Runs(t)

Spec == Init /\ [][Next]_vars

\* a thread inside of a call goes on; nobody has to call
FairSpec == Spec /\ \A t \in Thread : WF_vars(Runs(t))

----------------------------------------------------------------------------

Reading == {h \in Handle : held[h] = "read"}
Writing == {h \in Handle : held[h] = "write"}

(* While a ScopedLock<true> holds the mutex, every other lock object that  *)
(* holds it is a write lock of the same thread (the recursion write_lock   *)
(* allows): nobody else reads or writes.                                   *)
Exclusion ==
    \A g \in Writing : \A h \in Reading \union Writing :
        h \in Writing /\ Owner[h] = Owner[g]

(* The unlock that runs is the one for what the handle acquired, also when *)
(* read_or_write_unlock picks it by the value write_lock_tid has then.     *)
UnlockMatches ==
    \A t \in Thread :
        /\ pc[t] \in ReadUnlocking => held[cur[t]] = "read"
        /\ pc[t] \in WriteUnlocking => held[cur[t]] = "write"

(* level counts the holders: no lock or unlock is lost, although nested    *)
(* write locks and unlocks load and store level without a compare.         *)
LevelAccounts ==
    /\ level >= 0 => Writing = {} /\ level = Cardinality(Reading)
    /\ level < 0 => Reading = {}
    /\ Writing # {} => level = -Cardinality(Writing)

(* A thread that holds the write lock never waits for that same mutex: its *)
(* second write lock nests and its read lock throws at once.               *)
NoSelfWait ==
    \A t \in Thread :
        pc[t] \in {"read_load", "read_cas", "write_load", "write_cas"}
            => \A h \in Writing : Owner[h] # t

(* write_lock_tid passes from one writer to the next only through zero: it *)
(* is set by a thread while the level is -1 and cleared only by the thread *)
(* it names, once that thread writes through no handle.                    *)
OwnershipThroughZero ==
    [][write_lock_tid' # write_lock_tid =>
         IF write_lock_tid = 0
         THEN level = -1 /\ Writing = {}
         ELSE /\ write_lock_tid' = 0
              /\ \A h \in Writing : Tid[Owner[h]] # write_lock_tid]_vars

(* A call ends, at the latest by its timeout, unless other threads change  *)
(* the level forever (then its compare_exchange may fail forever).         *)
CallsEnd ==
    <>[][FALSE]_level =>
        \A t \in Thread : (pc[t] # "idle") ~> (pc[t] = "idle")

(* The check at the end of write_lock, "internal error: write_lock_tid !=  *)
(* 0", asserts that a thread whose compare_exchange took the level from 0  *)
(* finds no writer's tid.                                                  *)
NoInternalError ==
    \A t \in Thread : pc[t] = "write_check" => write_lock_tid = 0

\* The spin lock implements the abstract reader-writer lock.
RW == INSTANCE RWLock WITH reading <- Reading, writing <- Writing
ImplementsRWLock == RW!Spec
=============================================================================
