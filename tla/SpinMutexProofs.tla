-------------------------- MODULE SpinMutexProofs ---------------------------
(***************************************************************************)
(* Proofs about SpinMutex for any number of threads and lock objects.      *)
(* The lock is correct under two assumptions the code makes silently: the  *)
(* pseudo thread ids differ and are not zero, and fewer lock objects exist *)
(* than the int16_t level can count.                                       *)
(***************************************************************************)
EXTENDS SpinMutex, FiniteSetTheorems, TLAPS

ASSUME TidsDistinct ==
    /\ \A t \in Thread : Tid[t] # 0
    /\ \A t, u \in Thread : Tid[t] = Tid[u] => t = u

ASSUME NoOverflow == Cardinality(Handle) <= MaxLevel

----------------------------------------------------------------------------
(* The inductive invariant                                                 *)

Locking == ReadLocking \union WriteLocking

\* what the handle a thread works on is
CurInv ==
    \A t \in Thread : pc[t] # "idle" =>
        /\ cur[t] \in Handle
        /\ Owner[cur[t]] = t
        /\ pc[t] \in Locking => held[cur[t]] = "none"
        /\ pc[t] \in ReadUnlocking => held[cur[t]] = "read"
        /\ pc[t] \in WriteUnlocking => held[cur[t]] = "write"

\* between its compare_exchange and its assignment of the tid a writer is alone
Taking == {"write_check", "write_set"}

TakeInv ==
    \A t \in Thread : pc[t] \in Taking =>
        /\ level = -1
        /\ Writing = {}
        /\ \A u \in Thread : pc[u] \in Taking => u = t
        /\ pc[t] = "write_set" => write_lock_tid = 0

\* whom write_lock_tid names
OwnerInv ==
    /\ \A h \in Writing : write_lock_tid = Tid[Owner[h]]
    /\ write_lock_tid # 0 =>
         \E t \in Thread :
            /\ write_lock_tid = Tid[t]
            /\ pc[t] = "write_unlock_clear" \/ \E h \in Writing : Owner[h] = t
    /\ \A t \in Thread : pc[t] = "write_unlock_clear" =>
         write_lock_tid = Tid[t] /\ Writing = {}

\* what the loaded value still says about the level
LocalInv ==
    \A t \in Thread :
        /\ pc[t] = "write_restore" => v[t] = level /\ write_lock_tid = Tid[t]
        /\ pc[t] = "write_unlock_store" => v[t] = level
        /\ pc[t] = "read_cas" => v[t] >= 0
        /\ pc[t] = "write_cas" => v[t] = 0
        /\ pc[t] \in {"read_load", "read_cas", "write_load", "write_cas"} \union Taking
             => write_lock_tid # Tid[t]

IInv ==
    /\ TypeOK
    /\ LevelAccounts
    /\ CurInv
    /\ TakeInv
    /\ OwnerInv
    /\ LocalInv

\* a macro of the model, expanded everywhere
USE DEF WritesHere

\* A new mutex, unlocked and without lock objects, satisfies the invariant.
LEMMA InitIInv == Init => IInv
  <1> SUFFICES ASSUME Init PROVE IInv
    OBVIOUS
  <1> USE SpinMutexConstants DEF Init
  <1>1. Reading = {} /\ Writing = {} /\ Cardinality({}) = 0
    BY FS_EmptySet DEF Reading, Writing
  <1>2. TypeOK
    BY DEF TypeOK, PC, Level
  <1>3. LevelAccounts
    BY <1>1 DEF LevelAccounts
  <1>4. CurInv /\ TakeInv /\ OwnerInv /\ LocalInv
    BY <1>1 DEF CurInv, TakeInv, OwnerInv, LocalInv, Taking
  <1> QED
    BY <1>2, <1>3, <1>4 DEF IInv

\* Beginning a call keeps the invariant: by OwnerInv, read_or_write_unlock
\* finds the caller's tid exactly if the handle holds a write lock.
LEMMA CallsIInv ==
  ASSUME IInv, NEW t \in Thread, Calls(t)
  PROVE  IInv'
  <1> USE SpinMutexConstants, TidsDistinct DEF IInv
  <1>1. PICK h \in Handle :
          \/ CallReadLock(t, h) \/ CallWriteLock(t, h) \/ CallReadOrWriteLock(t, h)
          \/ CallUnlock(t, h) \/ CallReadOrWriteUnlock(t, h)
    BY DEF Calls
  <1>2. PICK l \in PC : Call(t, h, l) /\ l \in {"read_entry", "write_entry", "read_unlock", "write_unlock"}
    BY <1>1 DEF CallReadLock, CallWriteLock, CallReadOrWriteLock, CallUnlock,
                CallReadOrWriteUnlock, PC, ReadLocking, WriteLocking,
                ReadUnlocking, WriteUnlocking
  <1>3. Reading' = Reading /\ Writing' = Writing
    BY <1>2 DEF Call, Reading, Writing
  <1>4. /\ l \in Locking => held[h] = "none"
        /\ l \in ReadUnlocking => held[h] = "read"
        /\ l \in WriteUnlocking => held[h] = "write"
    <2>1. held[h] \in {"none", "read", "write"}
      BY DEF TypeOK
    <2>2. held[h] = "write" => WritesHere(t)
      BY <1>2 DEF OwnerInv, Writing, Call
    <2>3. WritesHere(t) => held[h] # "read"
      <3> SUFFICES ASSUME WritesHere(t) PROVE Reading = {}
        BY DEF Reading
      <3>1. Writing # {}
        BY <1>2 DEF OwnerInv, Call
      <3> QED
        BY <3>1, FS_Subset, FS_EmptySet, FS_CardinalityType DEF LevelAccounts, Writing, TypeOK, Level
    <2> QED
      BY <1>1, <1>2, <2>1, <2>2, <2>3
         DEF CallReadLock, CallWriteLock, CallReadOrWriteLock, CallUnlock, Call, Goto, TypeOK,
             CallReadOrWriteUnlock, Locking, ReadLocking, WriteLocking, ReadUnlocking, WriteUnlocking
  <1>5. TypeOK'
    BY <1>2 DEF TypeOK, Call, Goto
  <1>6. LevelAccounts'
    BY <1>2, <1>3 DEF LevelAccounts, Call
  <1>7. CurInv'
    BY <1>2, <1>4 DEF CurInv, Call, Goto, TypeOK
  <1>8. TakeInv'
    BY <1>2, <1>3 DEF TakeInv, Call, Goto, TypeOK, Taking
  <1>9. OwnerInv'
    BY <1>2, <1>3 DEF OwnerInv, Call, Goto, TypeOK
  <1>10. LocalInv'
    BY <1>2 DEF LocalInv, Call, Goto, TypeOK, Taking
  <1> QED
    BY <1>5, <1>6, <1>7, <1>8, <1>9, <1>10

\* the steps of a call that touch neither the mutex nor a handle
LocalStep(t) ==
    /\ \/ ReadEntry(t) \/ ReadLoad(t) \/ ReadTimeout(t) \/ ReadCas(t)
       \/ ReadUnlock(t) \/ ReadUnlockCas(t)
       \/ WriteEntry(t) \/ WriteLoad(t) \/ WriteTimeout(t) \/ WriteCas(t)
       \/ WriteCheck(t) \/ WriteUnlock(t)
    /\ UNCHANGED <<level, write_lock_tid, held>>

\* Loads, failed compare_exchanges, timeouts and exceptions keep it.
LEMMA LocalIInv ==
  ASSUME IInv, NEW t \in Thread, LocalStep(t)
  PROVE  IInv'
  <1> USE SpinMutexConstants, TidsDistinct DEF IInv
  <1>1. Reading' = Reading /\ Writing' = Writing
    BY DEF LocalStep, Reading, Writing
  <1>2. level \in Level /\ v[t] \in Level /\ 0 \in Level
    BY DEF TypeOK, Level
  <1> USE DEF LocalStep, ReadEntry, ReadLoad, ReadTimeout, ReadCas, ReadUnlock, ReadUnlockCas,
              WriteEntry, WriteLoad, WriteTimeout, WriteCas, WriteCheck, WriteUnlock, Goto, Return
  <1>3. TypeOK'
    BY <1>2 DEF TypeOK, PC, ReadLocking, WriteLocking, ReadUnlocking, WriteUnlocking
  <1>4. LevelAccounts'
    BY <1>1 DEF LevelAccounts
  <1>5. CurInv'
    BY DEF CurInv, TypeOK, Locking, ReadLocking, WriteLocking, ReadUnlocking, WriteUnlocking
  <1>6. level # -1 \/ pc[t] # "write_cas" \/ level # v[t]
    BY DEF LocalInv
  <1>7. TakeInv'
    BY <1>1, <1>2, <1>6 DEF TakeInv, TypeOK, Taking, LocalInv, Level
  <1>8. OwnerInv'
    BY <1>1 DEF OwnerInv, TypeOK
  <1>9. LocalInv'
    BY <1>2, <1>6 DEF LocalInv, TypeOK, Taking, Level
  <1> QED
    BY <1>3, <1>4, <1>5, <1>7, <1>8, <1>9

----------------------------------------------------------------------------
(* How the holders and their number change                                 *)

\* The sets whose cardinality the level is.
LEMMA HoldersFinite ==
  /\ IsFiniteSet(Reading) /\ IsFiniteSet(Writing)
  /\ Cardinality(Reading) \in Nat /\ Cardinality(Writing) \in Nat
  /\ Cardinality(Reading) = 0 <=> Reading = {}
  /\ Cardinality(Writing) = 0 <=> Writing = {}
  BY SpinMutexConstants, FS_Subset, FS_EmptySet, FS_CardinalityType DEF Reading, Writing

\* a handle that holds nothing leaves room for one more level
LEMMA FreeHandle ==
  ASSUME NEW h \in Handle, held[h] = "none"
  PROVE  /\ Cardinality(Reading) < MaxLevel
         /\ Cardinality(Writing) < MaxLevel
  <1>1. Cardinality(Handle \ {h}) = Cardinality(Handle) - 1 /\ IsFiniteSet(Handle \ {h})
    BY SpinMutexConstants, FS_RemoveElement
  <1>2. Reading \subseteq Handle \ {h} /\ Writing \subseteq Handle \ {h}
    BY DEF Reading, Writing
  <1>3. /\ Cardinality(Reading) <= Cardinality(Handle) - 1
        /\ Cardinality(Writing) <= Cardinality(Handle) - 1
    BY <1>1, <1>2, FS_Subset
  <1>4. Cardinality(Handle) \in Nat
    BY SpinMutexConstants, FS_CardinalityType
  <1> QED
    BY <1>3, <1>4, HoldersFinite, NoOverflow, SpinMutexConstants

\* A handle that acquires the lock raises the number of holders by one.
LEMMA Acquires ==
  ASSUME TypeOK, NEW h \in Handle, held[h] = "none", NEW k \in {"read", "write"},
         held' = [held EXCEPT ![h] = k]
  PROVE  /\ k = "read" =>
              /\ Reading' = Reading \union {h} /\ Writing' = Writing
              /\ Cardinality(Reading') = Cardinality(Reading) + 1
         /\ k = "write" =>
              /\ Writing' = Writing \union {h} /\ Reading' = Reading
              /\ Cardinality(Writing') = Cardinality(Writing) + 1
  <1>1. h \notin Reading /\ h \notin Writing
    BY DEF Reading, Writing
  <1>2. k = "read" => Reading' = Reading \union {h} /\ Writing' = Writing
    BY DEF Reading, Writing, TypeOK
  <1>3. k = "write" => Writing' = Writing \union {h} /\ Reading' = Reading
    BY DEF Reading, Writing, TypeOK
  <1>4. /\ Cardinality(Reading \union {h}) = Cardinality(Reading) + 1
        /\ Cardinality(Writing \union {h}) = Cardinality(Writing) + 1
    BY <1>1, HoldersFinite, FS_AddElement
  <1> QED
    BY <1>2, <1>3, <1>4

\* A handle that releases the lock lowers it by one.
LEMMA Releases ==
  ASSUME TypeOK, NEW h \in Handle, held[h] # "none",
         held' = [held EXCEPT ![h] = "none"]
  PROVE  /\ Reading' = Reading \ {h} /\ Writing' = Writing \ {h}
         /\ held[h] = "read" =>
              Writing' = Writing /\ Cardinality(Reading') = Cardinality(Reading) - 1
         /\ held[h] = "write" =>
              Reading' = Reading /\ Cardinality(Writing') = Cardinality(Writing) - 1
  <1>1. Reading' = Reading \ {h} /\ Writing' = Writing \ {h}
    BY DEF Reading, Writing, TypeOK
  <1>2. /\ h \in Reading => Cardinality(Reading \ {h}) = Cardinality(Reading) - 1
        /\ h \in Writing => Cardinality(Writing \ {h}) = Cardinality(Writing) - 1
    BY HoldersFinite, FS_RemoveElement
  <1>3. held[h] = "read" => h \in Reading /\ h \notin Writing
    BY DEF Reading, Writing
  <1>4. held[h] = "write" => h \in Writing /\ h \notin Reading
    BY DEF Reading, Writing
  <1> QED
    BY <1>1, <1>2, <1>3, <1>4

\* The conversion to int16_t changes nothing that fits.
LEMMA Int16InRange ==
  ASSUME NEW n \in Level
  PROVE  Int16(n) = n
  BY SpinMutexConstants DEF Int16, Level

----------------------------------------------------------------------------
(* The steps that change the mutex                                         *)

\* read_lock succeeds: the compare_exchange adds the reader it counts.
LEMMA ReadCasIInv ==
  ASSUME IInv, NEW t \in Thread, ReadCas(t), level = v[t]
  PROVE  IInv'
  <1> USE SpinMutexConstants, TidsDistinct DEF IInv
  <1>1. pc[t] = "read_cas" /\ level' = Int16(level + 1) /\ write_lock_tid' = write_lock_tid
        /\ held' = [held EXCEPT ![cur[t]] = "read"] /\ Return(t)
    BY DEF ReadCas
  <1>2. cur[t] \in Handle /\ held[cur[t]] = "none"
    BY <1>1 DEF CurInv, Locking, ReadLocking
  <1>3. Writing = {} /\ level = Cardinality(Reading)
    BY <1>1 DEF LocalInv, LevelAccounts
  <1>4. Reading' = Reading \union {cur[t]} /\ Writing' = {}
        /\ Cardinality(Reading') = level + 1
    BY <1>1, <1>2, <1>3, Acquires
  <1>5. level' = level + 1 /\ level + 1 \in Level /\ level' > 0
    BY <1>1, <1>2, <1>3, FreeHandle, HoldersFinite, Int16InRange DEF Level
  <1>6. TypeOK'
    BY <1>1, <1>2, <1>5 DEF TypeOK, Return, Goto, PC, Level
  <1>7. LevelAccounts'
    BY <1>4, <1>5 DEF LevelAccounts, Level
  <1>8. CurInv'
    BY <1>1, <1>2 DEF CurInv, Return, Goto, TypeOK, Locking, ReadLocking, WriteLocking,
                      ReadUnlocking, WriteUnlocking
  <1>9. \A u \in Thread : pc[u] \notin Taking
    BY <1>3, HoldersFinite DEF TakeInv
  <1>10. TakeInv'
    BY <1>1, <1>9 DEF TakeInv, Return, Goto, TypeOK, Taking
  <1>11. OwnerInv'
    BY <1>1, <1>3, <1>4 DEF OwnerInv, Return, Goto, TypeOK
  <1>12. \A u \in Thread : pc[u] \notin {"write_restore", "write_unlock_store"}
    BY <1>3 DEF LocalInv, OwnerInv, CurInv, Writing, WriteUnlocking
  <1>13. LocalInv'
    BY <1>1, <1>12 DEF LocalInv, Return, Goto, TypeOK, Taking
  <1> QED
    BY <1>6, <1>7, <1>8, <1>10, <1>11, <1>13

\* read_unlock succeeds: the compare_exchange takes off its reader.
LEMMA ReadUnlockCasIInv ==
  ASSUME IInv, NEW t \in Thread, ReadUnlockCas(t), level = v[t]
  PROVE  IInv'
  <1> USE SpinMutexConstants, TidsDistinct DEF IInv
  <1>1. pc[t] = "read_unlock_cas" /\ level' = Int16(level - 1) /\ write_lock_tid' = write_lock_tid
        /\ held' = [held EXCEPT ![cur[t]] = "none"] /\ Return(t)
    BY DEF ReadUnlockCas
  <1>2. cur[t] \in Handle /\ held[cur[t]] = "read"
    BY <1>1 DEF CurInv, ReadUnlocking
  <1>3. cur[t] \in Reading /\ level \in Level
    BY <1>2 DEF Reading, TypeOK
  <1>4. Writing = {} /\ level >= 0 /\ level = Cardinality(Reading) /\ level # 0
    BY <1>3, HoldersFinite DEF LevelAccounts, Level
  <1>5. Writing' = {} /\ Cardinality(Reading') = level - 1
    BY <1>1, <1>2, <1>4, Releases
  <1>6. level' = level - 1 /\ level - 1 \in Level /\ level' >= 0
    BY <1>1, <1>3, <1>4, Int16InRange DEF Level
  <1>7. TypeOK'
    BY <1>1, <1>2, <1>6 DEF TypeOK, Return, Goto, PC, Level
  <1>8. LevelAccounts'
    BY <1>5, <1>6 DEF LevelAccounts, Level
  <1>9. CurInv'
    <2>1. \A u \in Thread : u # t /\ pc[u] # "idle" => cur[u] # cur[t]
      BY <1>1 DEF CurInv
    <2> QED
      BY <1>1, <1>2, <2>1 DEF CurInv, Return, Goto, TypeOK, Locking, ReadLocking, WriteLocking,
                              ReadUnlocking, WriteUnlocking
  <1>10. \A u \in Thread : pc[u] \notin Taking
    BY <1>4 DEF TakeInv
  <1>11. TakeInv'
    BY <1>1, <1>10 DEF TakeInv, Return, Goto, TypeOK, Taking
  <1>12. OwnerInv'
    BY <1>1, <1>4, <1>5 DEF OwnerInv, Return, Goto, TypeOK
  <1>13. \A u \in Thread : pc[u] \notin {"write_restore", "write_unlock_store"}
    BY <1>4 DEF LocalInv, OwnerInv, CurInv, Writing, WriteUnlocking
  <1>14. LocalInv'
    BY <1>1, <1>13 DEF LocalInv, Return, Goto, TypeOK, Taking
  <1> QED
    BY <1>7, <1>8, <1>9, <1>11, <1>12, <1>14

\* A nested write_lock: the level it loaded is still the level, as only
\* the writing thread changes a negative level.
LEMMA WriteRestoreIInv ==
  ASSUME IInv, NEW t \in Thread, WriteRestore(t)
  PROVE  IInv'
  <1> USE SpinMutexConstants, TidsDistinct DEF IInv
  <1>1. pc[t] = "write_restore" /\ v[t] = level /\ level' = Int16(level - 1)
        /\ write_lock_tid = Tid[t] /\ write_lock_tid' = write_lock_tid
        /\ held' = [held EXCEPT ![cur[t]] = "write"] /\ Return(t)
    BY DEF WriteRestore, LocalInv
  <1>2. cur[t] \in Handle /\ held[cur[t]] = "none" /\ Owner[cur[t]] = t
    BY <1>1 DEF CurInv, Locking, WriteLocking
  <1>3. Writing # {}
    BY <1>1 DEF OwnerInv
  <1>4. level = -Cardinality(Writing) /\ level < 0 /\ Reading = {}
    BY <1>3, HoldersFinite DEF LevelAccounts
  <1>5. Writing' = Writing \union {cur[t]} /\ Reading' = {}
        /\ Cardinality(Writing') = Cardinality(Writing) + 1
    BY <1>1, <1>2, <1>4, Acquires
  <1>6. level' = level - 1 /\ level - 1 \in Level /\ level' < 0
    BY <1>1, <1>2, <1>4, FreeHandle, HoldersFinite, Int16InRange DEF Level
  <1>7. TypeOK'
    BY <1>1, <1>2, <1>6 DEF TypeOK, Return, Goto, PC, Level
  <1>8. LevelAccounts'
    BY <1>4, <1>5, <1>6, HoldersFinite DEF LevelAccounts, Level
  <1>9. CurInv'
    <2>1. \A u \in Thread : u # t /\ pc[u] # "idle" => cur[u] # cur[t]
      BY <1>1 DEF CurInv
    <2> QED
      BY <1>1, <1>2, <2>1 DEF CurInv, Return, Goto, TypeOK, Locking, ReadLocking, WriteLocking,
                              ReadUnlocking, WriteUnlocking
  <1>10. \A u \in Thread : pc[u] \notin Taking
    BY <1>3 DEF TakeInv
  <1>11. TakeInv'
    BY <1>1, <1>10 DEF TakeInv, Return, Goto, TypeOK, Taking
  <1>12. OwnerInv'
    BY <1>1, <1>2, <1>3, <1>5 DEF OwnerInv, Return, Goto, TypeOK
  <1>13. \A u \in Thread : u # t => pc[u] \notin {"write_restore", "write_unlock_store"}
    BY <1>1 DEF LocalInv, OwnerInv, CurInv, Writing, WriteUnlocking
  <1>14. LocalInv'
    BY <1>1, <1>13 DEF LocalInv, Return, Goto, TypeOK, Taking
  <1> QED
    BY <1>7, <1>8, <1>9, <1>11, <1>12, <1>14

\* A writer's compare_exchange: from here it is alone in Taking.
LEMMA WriteCasIInv ==
  ASSUME IInv, NEW t \in Thread, WriteCas(t), level = v[t]
  PROVE  IInv'
  <1> USE SpinMutexConstants, TidsDistinct DEF IInv
  <1>1. pc[t] = "write_cas" /\ level = 0 /\ level' = -1
        /\ UNCHANGED <<write_lock_tid, cur, held, v>> /\ Goto(t, "write_check")
    BY DEF WriteCas, LocalInv
  <1>2. Reading = {} /\ Writing = {} /\ Reading' = Reading /\ Writing' = Writing
    BY <1>1, HoldersFinite DEF LevelAccounts, Reading, Writing
  <1>3. TypeOK'
    BY <1>1 DEF TypeOK, Goto, PC, WriteLocking, Level
  <1>4. LevelAccounts'
    BY <1>1, <1>2 DEF LevelAccounts
  <1>5. CurInv'
    BY <1>1 DEF CurInv, Goto, TypeOK, Locking, ReadLocking, WriteLocking,
                ReadUnlocking, WriteUnlocking
  <1>6. \A u \in Thread : pc[u] \notin Taking
    BY <1>1 DEF TakeInv
  <1>7. TakeInv'
    BY <1>1, <1>2, <1>6 DEF TakeInv, Goto, TypeOK, Taking
  <1>8. OwnerInv'
    BY <1>1, <1>2 DEF OwnerInv, Goto, TypeOK
  <1>9. \A u \in Thread : pc[u] \notin {"write_restore", "write_unlock_store"}
    BY <1>2 DEF LocalInv, OwnerInv, CurInv, Writing, WriteUnlocking
  <1>10. LocalInv'
    BY <1>1, <1>9 DEF LocalInv, Goto, TypeOK, Taking
  <1> QED
    BY <1>3, <1>4, <1>5, <1>7, <1>8, <1>10

\* The writer assigns the tid and holds the lock.
LEMMA WriteSetIInv ==
  ASSUME IInv, NEW t \in Thread, WriteSet(t)
  PROVE  IInv'
  <1> USE SpinMutexConstants, TidsDistinct DEF IInv
  <1>1. pc[t] = "write_set" /\ level' = level /\ write_lock_tid' = Tid[t]
        /\ held' = [held EXCEPT ![cur[t]] = "write"] /\ Return(t)
    BY DEF WriteSet
  <1>2. cur[t] \in Handle /\ held[cur[t]] = "none" /\ Owner[cur[t]] = t
    BY <1>1 DEF CurInv, Locking, WriteLocking
  <1>3. level = -1 /\ Writing = {} /\ Reading = {} /\ write_lock_tid = 0
        /\ \A u \in Thread : u # t => pc[u] \notin Taking
    BY <1>1 DEF TakeInv, Taking, LevelAccounts
  <1>4. Writing' = {cur[t]} /\ Reading' = {} /\ Cardinality(Writing') = 1
    <2>1. /\ Writing' = Writing \union {cur[t]} /\ Reading' = Reading
          /\ Cardinality(Writing') = Cardinality(Writing) + 1
      BY <1>1, <1>2, Acquires
    <2>2. Cardinality(Writing) = 0
      BY <1>3, HoldersFinite
    <2> QED
      BY <2>1, <2>2, <1>3
  <1>5. TypeOK'
    BY <1>1, <1>2 DEF TypeOK, Return, Goto, PC, Level
  <1>6. LevelAccounts'
    BY <1>1, <1>3, <1>4 DEF LevelAccounts
  <1>7. CurInv'
    <2>1. \A u \in Thread : u # t /\ pc[u] # "idle" => cur[u] # cur[t]
      BY <1>1 DEF CurInv
    <2> QED
      BY <1>1, <1>2, <2>1 DEF CurInv, Return, Goto, TypeOK, Locking, ReadLocking, WriteLocking,
                              ReadUnlocking, WriteUnlocking
  <1>8. TakeInv'
    BY <1>1, <1>3 DEF TakeInv, Return, Goto, TypeOK, Taking
  <1>9. \A u \in Thread : pc[u] # "write_unlock_clear" /\ pc[u] # "write_restore"
    BY <1>3 DEF OwnerInv, LocalInv
  <1>10. OwnerInv'
    BY <1>1, <1>2, <1>4, <1>9 DEF OwnerInv, Return, Goto, TypeOK
  <1>11. LocalInv'
    BY <1>1, <1>9 DEF LocalInv, Return, Goto, TypeOK, Taking
  <1> QED
    BY <1>5, <1>6, <1>7, <1>8, <1>10, <1>11

\* write_unlock stores the level: its load is still the level, as above.
LEMMA WriteUnlockStoreIInv ==
  ASSUME IInv, NEW t \in Thread, WriteUnlockStore(t)
  PROVE  IInv'
  <1> USE SpinMutexConstants, TidsDistinct DEF IInv
  <1>1. pc[t] = "write_unlock_store" /\ v[t] = level /\ level' = Int16(level + 1)
        /\ write_lock_tid' = write_lock_tid /\ held' = [held EXCEPT ![cur[t]] = "none"]
    BY DEF WriteUnlockStore, LocalInv
  <1>2. cur[t] \in Handle /\ held[cur[t]] = "write" /\ Owner[cur[t]] = t
    BY <1>1 DEF CurInv, WriteUnlocking
  <1>3. cur[t] \in Writing /\ write_lock_tid = Tid[t] /\ level \in Level
    BY <1>2 DEF Writing, OwnerInv, TypeOK
  <1>4. Reading = {} /\ level = -Cardinality(Writing) /\ level < 0
    BY <1>3, HoldersFinite DEF LevelAccounts
  <1>5. Writing' = Writing \ {cur[t]} /\ Reading' = {}
        /\ Cardinality(Writing') = Cardinality(Writing) - 1
    BY <1>1, <1>2, <1>4, Releases
  <1>6. level' = level + 1 /\ level + 1 \in Level
    BY <1>1, <1>3, <1>4, Int16InRange DEF Level
  <1>7. Writing' = {} <=> level' = 0
    <2>1. Writing \ {cur[t]} = {} <=> Cardinality(Writing \ {cur[t]}) = 0
      BY HoldersFinite, FS_EmptySet, FS_RemoveElement
    <2> QED
      BY <2>1, <1>4, <1>5, <1>6, HoldersFinite
  <1>8. \/ level' = 0 /\ Goto(t, "write_unlock_clear") /\ UNCHANGED <<v, cur>>
        \/ level' # 0 /\ Return(t)
    BY <1>1, <1>6 DEF WriteUnlockStore
  <1>9. TypeOK'
    BY <1>1, <1>2, <1>6, <1>8 DEF TypeOK, Return, Goto, PC, Level
  <1>10. LevelAccounts'
    <2>1. level' = -Cardinality(Writing') /\ Cardinality({}) = 0
      BY <1>4, <1>5, <1>6, HoldersFinite, FS_EmptySet
    <2> QED
      BY <2>1, <1>4, <1>5, <1>6, <1>7 DEF LevelAccounts, Level
  <1>11. CurInv'
    <2>1. \A u \in Thread : u # t /\ pc[u] # "idle" => cur[u] # cur[t]
      BY <1>1 DEF CurInv
    <2> QED
      BY <1>1, <1>2, <1>8, <2>1 DEF CurInv, Return, Goto, TypeOK, Locking, ReadLocking,
                                    WriteLocking, ReadUnlocking, WriteUnlocking
  <1>12. \A u \in Thread : pc[u] \notin Taking
    BY <1>3 DEF TakeInv
  <1>13. TakeInv'
    BY <1>8, <1>12 DEF TakeInv, Return, Goto, TypeOK, Taking
  <1>14. \A u \in Thread : pc[u] # "write_unlock_clear"
    BY <1>3 DEF OwnerInv
  <1>15. OwnerInv'
    <2>1. \A h \in Writing' : h \in Writing /\ write_lock_tid' = Tid[Owner[h]] /\ Owner[h] \in Thread
      BY <1>1, <1>5 DEF OwnerInv, Writing
    <2>2. CASE level' = 0
      BY <2>1, <2>2, <1>1, <1>3, <1>7, <1>8, <1>14 DEF OwnerInv, Goto, TypeOK
    <2>3. CASE level' # 0
      BY <2>1, <2>3, <1>1, <1>3, <1>7, <1>8, <1>14 DEF OwnerInv, Return, Goto, TypeOK
    <2> QED
      BY <2>2, <2>3
  <1>16. \A u \in Thread : u # t => pc[u] \notin {"write_restore", "write_unlock_store"}
    BY <1>3 DEF LocalInv, OwnerInv, CurInv, Writing, WriteUnlocking
  <1>17. LocalInv'
    BY <1>1, <1>8, <1>16 DEF LocalInv, Return, Goto, TypeOK, Taking
  <1> QED
    BY <1>9, <1>10, <1>11, <1>13, <1>15, <1>17

\* Only the thread that is named by the tid clears it, and writes nowhere.
LEMMA WriteUnlockClearIInv ==
  ASSUME IInv, NEW t \in Thread, WriteUnlockClear(t)
  PROVE  IInv'
  <1> USE SpinMutexConstants, TidsDistinct DEF IInv
  <1>1. pc[t] = "write_unlock_clear" /\ write_lock_tid' = 0 /\ level' = level
        /\ held' = held /\ Return(t)
    BY DEF WriteUnlockClear
  <1>2. write_lock_tid = Tid[t] /\ Writing = {} /\ Writing' = {} /\ Reading' = Reading
    BY <1>1 DEF OwnerInv, Writing, Reading
  <1>3. \A u \in Thread : u # t => pc[u] \notin {"write_unlock_clear", "write_restore"}
    BY <1>2 DEF OwnerInv, LocalInv
  <1>4. TypeOK'
    BY <1>1 DEF TypeOK, Return, Goto, PC, Level
  <1>5. LevelAccounts'
    BY <1>1, <1>2 DEF LevelAccounts
  <1>6. CurInv'
    BY <1>1 DEF CurInv, Return, Goto, TypeOK
  <1>7. TakeInv'
    BY <1>1, <1>2 DEF TakeInv, Return, Goto, TypeOK, Taking
  <1>8. OwnerInv'
    BY <1>1, <1>2, <1>3 DEF OwnerInv, Return, Goto, TypeOK
  <1>9. LocalInv'
    BY <1>1, <1>3 DEF LocalInv, Return, Goto, TypeOK, Taking
  <1> QED
    BY <1>4, <1>5, <1>6, <1>7, <1>8, <1>9

\* every step is one of those above
LEMMA StepCases ==
  ASSUME IInv, NEW t \in Thread, Runs(t)
  PROVE  \/ LocalStep(t)
         \/ ReadCas(t) /\ level = v[t]
         \/ ReadUnlockCas(t) /\ level = v[t]
         \/ WriteRestore(t)
         \/ WriteCas(t) /\ level = v[t]
         \/ WriteSet(t) \/ WriteUnlockStore(t) \/ WriteUnlockClear(t)
  BY DEF Runs, LocalStep, ReadEntry, ReadLoad, ReadTimeout, ReadCas, ReadUnlock, ReadUnlockCas,
         WriteEntry, WriteLoad, WriteTimeout, WriteCas, WriteCheck, WriteUnlock

\* Every step keeps the invariant.
LEMMA NextIInv == IInv /\ [Next]_vars => IInv'
  <1> SUFFICES ASSUME IInv, [Next]_vars PROVE IInv'
    OBVIOUS
  <1>1. CASE UNCHANGED vars
    BY <1>1 DEF vars, IInv, TypeOK, LevelAccounts, CurInv, TakeInv, OwnerInv, LocalInv,
                Reading, Writing, Taking
  <1>2. ASSUME NEW t \in Thread, Calls(t) PROVE IInv'
    BY <1>2, CallsIInv
  <1>3. ASSUME NEW t \in Thread, Runs(t) PROVE IInv'
    BY <1>3, StepCases, LocalIInv, ReadCasIInv, ReadUnlockCasIInv, WriteRestoreIInv,
       WriteCasIInv, WriteSetIInv, WriteUnlockStoreIInv, WriteUnlockClearIInv
  <1> QED
    BY <1>1, <1>2, <1>3 DEF Next

\* The inductive invariant holds in every reachable state of the mutex.
THEOREM Invariance == Spec => []IInv
  BY InitIInv, NextIInv, PTL DEF Spec

----------------------------------------------------------------------------
(* What the invariant gives                                                *)

\* Every variable keeps its type: in particular the int16_t level never
\* wraps around and write_lock_tid is zero or the id of a thread.
THEOREM TypeCorrect == Spec => []TypeOK
  <1>1. IInv => TypeOK
    BY DEF IInv
  <1> QED
    BY <1>1, Invariance, PTL

\* The level of a mutex is the number of its readers or minus the number of
\* the write locks of its writer, for any number of threads and handles.
THEOREM LevelCorrect == Spec => []LevelAccounts
  <1>1. IInv => LevelAccounts
    BY DEF IInv
  <1> QED
    BY <1>1, Invariance, PTL

\* A write lock excludes all lock objects of other threads.
THEOREM ExclusionCorrect == Spec => []Exclusion
  <1>1. IInv => Exclusion
    <2> SUFFICES ASSUME IInv, NEW g \in Writing, NEW h \in Reading \union Writing
                 PROVE  h \in Writing /\ Owner[h] = Owner[g]
      BY DEF Exclusion
    <2>1. Reading = {}
      BY HoldersFinite DEF IInv, LevelAccounts
    <2>2. Owner[g] \in Thread /\ Owner[h] \in Thread
      BY SpinMutexConstants DEF Reading, Writing
    <2> QED
      BY <2>1, <2>2, TidsDistinct DEF IInv, OwnerInv
  <1> QED
    BY <1>1, Invariance, PTL

\* read_or_write_unlock always undoes what the same handle acquired.
THEOREM UnlockCorrect == Spec => []UnlockMatches
  <1>1. IInv => UnlockMatches
    BY DEF IInv, CurInv, UnlockMatches, ReadUnlocking, WriteUnlocking
  <1> QED
    BY <1>1, Invariance, PTL

\* No thread waits for the mutex it writes under.
THEOREM NoSelfWaitCorrect == Spec => []NoSelfWait
  <1>1. IInv => NoSelfWait
    BY DEF IInv, OwnerInv, LocalInv, NoSelfWait
  <1> QED
    BY <1>1, Invariance, PTL

\* The tid of a writer is only ever set from zero and cleared by its owner.
THEOREM OwnershipCorrect == Spec => OwnershipThroughZero
  <1>1. IInv /\ [Next]_vars =>
          [write_lock_tid' # write_lock_tid =>
             IF write_lock_tid = 0
             THEN level = -1 /\ Writing = {}
             ELSE /\ write_lock_tid' = 0
                  /\ \A h \in Writing : Tid[Owner[h]] # write_lock_tid]_vars
    <2> SUFFICES ASSUME IInv, Next, write_lock_tid' # write_lock_tid
                 PROVE  IF write_lock_tid = 0
                        THEN level = -1 /\ Writing = {}
                        ELSE /\ write_lock_tid' = 0
                             /\ \A h \in Writing : Tid[Owner[h]] # write_lock_tid
      BY DEF vars
    <2>1. PICK t \in Thread : WriteSet(t) \/ WriteUnlockClear(t)
      <3>1. PICK t \in Thread : Calls(t) \/ Runs(t)
        BY DEF Next
      <3>2. ~Calls(t)
        BY DEF Calls, CallReadLock, CallWriteLock, CallReadOrWriteLock, CallUnlock,
               CallReadOrWriteUnlock, Call
      <3> QED
        BY <3>1, <3>2, StepCases DEF LocalStep, ReadCas, ReadUnlockCas, WriteRestore, WriteCas,
                                     WriteUnlockStore
    <2>2. CASE WriteSet(t)
      BY <2>2 DEF WriteSet, IInv, TakeInv, Taking
    <2>3. CASE WriteUnlockClear(t)
      BY <2>3, TidsDistinct DEF WriteUnlockClear, IInv, OwnerInv
    <2> QED
      BY <2>1, <2>2, <2>3
  <1> QED
    BY <1>1, Invariance, PTL DEF Spec, OwnershipThroughZero

----------------------------------------------------------------------------
(* The spin lock implements the abstract lock                              *)

\* A step of the spin lock is a step of the abstract lock or changes no holder.
LEMMA StepSimulation ==
  ASSUME IInv, NEW t \in Thread, Calls(t) \/ Runs(t)
  PROVE  RW!Next \/ UNCHANGED RW!lockVars
  <1> USE SpinMutexConstants, TidsDistinct DEF IInv
  <1>1. CASE held' = held
    BY <1>1 DEF RW!lockVars, Reading, Writing
  <1>2. CASE ReadCas(t) /\ level = v[t]
    <2>1. pc[t] = "read_cas" /\ held' = [held EXCEPT ![cur[t]] = "read"] /\ v[t] >= 0
      BY <1>2 DEF ReadCas, LocalInv
    <2>2. cur[t] \in Handle /\ held[cur[t]] = "none" /\ Writing = {}
      BY <1>2, <2>1 DEF CurInv, Locking, ReadLocking, LevelAccounts
    <2>3. Reading' = Reading \union {cur[t]} /\ Writing' = Writing /\ cur[t] \notin Reading
      BY <2>1, <2>2, Acquires DEF Reading
    <2>4. RW!GrantRead(cur[t])
      BY <2>2, <2>3 DEF RW!GrantRead
    <2> QED
      BY <2>2, <2>4 DEF RW!Next
  <1>3. CASE WriteRestore(t) \/ WriteSet(t)
    <2>1. /\ held' = [held EXCEPT ![cur[t]] = "write"]
          /\ cur[t] \in Handle /\ held[cur[t]] = "none" /\ Owner[cur[t]] = t
      BY <1>3 DEF WriteRestore, WriteSet, CurInv, Locking, WriteLocking
    <2>2. \/ Writing = {} /\ level = -1
          \/ write_lock_tid = Tid[t] /\ Writing # {}
      BY <1>3 DEF WriteRestore, WriteSet, LocalInv, TakeInv, Taking, OwnerInv
    <2>3. Reading = {}
      BY <2>2, HoldersFinite DEF LevelAccounts
    <2>4. \A g \in Writing : Owner[g] = Owner[cur[t]]
      BY <2>1, <2>2 DEF OwnerInv, Writing
    <2>5. Writing' = Writing \union {cur[t]} /\ Reading' = Reading /\ cur[t] \notin Writing
      BY <2>1, Acquires DEF Writing
    <2>6. RW!GrantWrite(cur[t])
      BY <2>3, <2>4, <2>5 DEF RW!GrantWrite
    <2> QED
      BY <2>1, <2>6 DEF RW!Next
  <1>4. CASE (ReadUnlockCas(t) /\ level = v[t]) \/ WriteUnlockStore(t)
    <2>1. /\ held' = [held EXCEPT ![cur[t]] = "none"]
          /\ cur[t] \in Handle /\ held[cur[t]] \in {"read", "write"}
      BY <1>4 DEF ReadUnlockCas, WriteUnlockStore, CurInv, ReadUnlocking, WriteUnlocking
    <2>2. /\ Reading' = Reading \ {cur[t]} /\ Writing' = Writing \ {cur[t]}
          /\ cur[t] \in Reading \union Writing
      BY <2>1, Releases DEF Reading, Writing
    <2>3. RW!Release(cur[t])
      BY <2>2 DEF RW!Release
    <2> QED
      BY <2>1, <2>3 DEF RW!Next
  <1>5. CASE Calls(t)
    BY <1>1, <1>5 DEF Calls, CallReadLock, CallWriteLock, CallReadOrWriteLock, CallUnlock,
                      CallReadOrWriteUnlock, Call
  <1>6. CASE Runs(t)
    BY <1>1, <1>2, <1>3, <1>4, <1>6, StepCases DEF LocalStep, WriteCas, WriteUnlockClear
  <1> QED
    BY <1>5, <1>6

\* SpinMutex implements RWLock: a lock object holds the mutex from the
\* successful compare_exchange (a first write lock: from the assignment of
\* the tid, a nested one: from the store of the level) to the change of the
\* level in its unlock.
THEOREM Refinement == Spec => ImplementsRWLock
  <1>1. Init => RW!Init
    BY DEF Init, RW!Init, Reading, Writing
  <1>2. IInv /\ [Next]_vars => [RW!Next]_(RW!lockVars)
    <2> SUFFICES ASSUME IInv, [Next]_vars PROVE RW!Next \/ UNCHANGED RW!lockVars
      OBVIOUS
    <2>1. CASE UNCHANGED vars
      BY <2>1 DEF vars, RW!lockVars, Reading, Writing
    <2>2. CASE Next
      BY <2>2, StepSimulation DEF Next
    <2> QED
      BY <2>1, <2>2
  <1> QED
    BY <1>1, <1>2, Invariance, PTL DEF Spec, ImplementsRWLock, RW!Spec
=============================================================================
