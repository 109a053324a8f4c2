----------------------------- MODULE FieldLock ------------------------------
(***************************************************************************)
(* The hierarchical lock of FieldTypeBase (stst_typing.cpp) as taken and   *)
(* released by ScopedFieldLock objects.  Locking a field first locks its   *)
(* ancestors from the root down, each by read_or_write_lock, then its own  *)
(* mutex; unlocking goes back up.  No lock is undone when a later one in   *)
(* the chain throws.                                                       *)
(*                                                                         *)
(* Every call of a mutex is one step here, with the outcomes SpinMutex     *)
(* gives it: the internal error of write_lock and equal pseudo thread ids  *)
(* are left to that module, so wtid names the thread itself.  taken and    *)
(* lost are history: what each lock object acquired along its path, and    *)
(* what constructors that threw left behind.                               *)
(***************************************************************************)
EXTENDS Integers, FiniteSets, SequencesExt

CONSTANTS
    Field, NoField,
    Parent,             \* parent_field, NoField for a root
    Thread, NoThread,
    Handle, NoHandle,   \* ScopedFieldLock objects
    Owner,              \* the thread that constructs and destroys a handle
    Target,             \* the field a handle locks
    MaxLost             \* bound: no lock call once this many locks are lost

ASSUME FieldLockConstants ==
    /\ NoField \notin Field /\ NoThread \notin Thread /\ NoHandle \notin Handle
    /\ IsFiniteSet(Handle)
    /\ Parent \in [Field -> Field \union {NoField}]
    /\ Owner \in [Handle -> Thread]
    /\ Target \in [Handle -> Field]
    /\ MaxLost \in Nat

VARIABLES
    level,  \* of each field's mutex
    wtid,   \* write_lock_tid of each field's mutex, NoThread for zero
    call,   \* the call each thread is in
    held,   \* what each constructed handle holds on its target
    taken,  \* history: the kinds a handle acquired along its path
    lost    \* history: lock levels of a mutex that no handle will release

vars == <<level, wtid, call, held, taken, lost>>

Kind == {"read", "write"}

\* the mutexes a lock on f takes, in the order they are taken
Path[f \in Field] ==
    IF Parent[f] = NoField THEN <<f>> ELSE Append(Path[Parent[f]], f)

\* parent_field leads from every field to a root: the path of a field ends in
\* the field, and begins with the path of each ancestor
ASSUME ParentsAreForest ==
    \A f \in Field :
        /\ Path[f] \in Seq(Field) /\ Path[f] # <<>>
        /\ Path[f][Len(Path[f])] = f
        /\ \A i \in DOMAIN Path[f] : Path[Path[f][i]] = SubSeq(Path[f], 1, i)

Idle == [op |-> "none", h |-> NoHandle, kind |-> "read", pos |-> 0]

CallType ==
    [op : {"none", "lock", "unlock"}, h : Handle \union {NoHandle},
     kind : Kind, pos : Nat]

TypeOK ==
    /\ level \in [Field -> Int]
    /\ wtid \in [Field -> Thread \union {NoThread}]
    /\ call \in [Thread -> CallType]
    /\ held \in [Handle -> {"none"} \union Kind]
    /\ taken \in [Handle -> Seq(Kind)]
    /\ lost \in [Field -> Nat]

Init ==
    /\ level = [f \in Field |-> 0]
    /\ wtid = [f \in Field |-> NoThread]
    /\ call = [t \in Thread |-> Idle]
    /\ held = [h \in Handle |-> "none"]
    /\ taken = [h \in Handle |-> <<>>]
    /\ lost = [f \in Field |-> 0]

----------------------------------------------------------------------------

PathOf(h) == Path[Target[h]]
Here(t) == PathOf(call[t].h)[call[t].pos]
AtTarget(t) == call[t].pos = Len(PathOf(call[t].h))
WritesHere(t) == wtid[Here(t)] = t

\* what the next mutex call of t locks or unlocks for: an ancestor by what
\* its write_lock_tid says, the target by the type of the handle
NextKind(t) ==
    IF AtTarget(t) THEN call[t].kind
    ELSE IF WritesHere(t) THEN "write" ELSE "read"

\* the handles for which f's mutex is locked
TakenOn(f) == {h \in Handle : \E i \in DOMAIN taken[h] : PathOf(h)[i] = f}

LostTotal == FoldFunctionOnSet(+, 0, lost, Field)

\* ScopedFieldLock's constructor
CallLock(t, h, k) ==
    /\ call[t] = Idle
    /\ Owner[h] = t /\ held[h] = "none"
    /\ LostTotal < MaxLost
    /\ call' = [call EXCEPT ![t] = [op |-> "lock", h |-> h, kind |-> k, pos |-> 1]]
    /\ UNCHANGED <<level, wtid, held, taken, lost>>

\* the mutex at hand is locked; go on below it or return to the caller
Locked(t, k) ==
    LET h == call[t].h IN
    /\ taken' = [taken EXCEPT ![h] = Append(@, k)]
    /\ IF AtTarget(t)
         THEN held' = [held EXCEPT ![h] = k] /\ call' = [call EXCEPT ![t] = Idle]
         ELSE call' = [call EXCEPT ![t].pos = @ + 1] /\ UNCHANGED held
    /\ UNCHANGED lost

\* faulty: an ancestor is read-locked over another thread's write lock
LockReadOverWriter(t) ==
    /\ call[t].op = "lock" /\ NextKind(t) = "read"
    /\ ~WritesHere(t)
    /\ level' = [level EXCEPT ![Here(t)] = @ + 1]
    /\ Locked(t, "read")
    /\ UNCHANGED wtid

LockRead(t) ==
    /\ call[t].op = "lock" /\ NextKind(t) = "read"
    /\ ~WritesHere(t) /\ level[Here(t)] >= 0
    /\ level' = [level EXCEPT ![Here(t)] = @ + 1]
    /\ Locked(t, "read")
    /\ UNCHANGED wtid

LockWrite(t) ==
    /\ call[t].op = "lock" /\ NextKind(t) = "write"
    /\ ~WritesHere(t) /\ level[Here(t)] = 0
    /\ level' = [level EXCEPT ![Here(t)] = -1]
    /\ wtid' = [wtid EXCEPT ![Here(t)] = t]
    /\ Locked(t, "write")

NestWrite(t) ==
    /\ call[t].op = "lock" /\ NextKind(t) = "write"
    /\ WritesHere(t)
    /\ level' = [level EXCEPT ![Here(t)] = @ - 1]
    /\ Locked(t, "write")
    /\ UNCHANGED wtid

\* the exception leaves the ancestors locked
Throw(t) ==
    LET h == call[t].h IN
    /\ lost' = [f \in Field |-> IF h \in TakenOn(f) THEN lost[f] + 1 ELSE lost[f]]
    /\ taken' = [taken EXCEPT ![h] = <<>>]
    /\ call' = [call EXCEPT ![t] = Idle]
    /\ UNCHANGED <<level, wtid, held>>

\* a read lock on a target that the thread itself has write-locked
ThrowOwnWrite(t) ==
    /\ call[t].op = "lock" /\ NextKind(t) = "read"
    /\ WritesHere(t)
    /\ Throw(t)

\* faulty: only read locks time out
TimeoutReadsOnly(t) ==
    /\ call[t].op = "lock" /\ NextKind(t) = "read" /\ ~WritesHere(t)
    /\ level[Here(t)] < 0
    /\ Throw(t)

\* the mutex stayed locked by others, or by the thread's own read lock
Timeout(t) ==
    /\ call[t].op = "lock" /\ ~WritesHere(t)
    /\ IF NextKind(t) = "read" THEN level[Here(t)] < 0 ELSE level[Here(t)] # 0
    /\ Throw(t)

\* ScopedFieldLock::unlock, also from the destructor
CallUnlock(t, h) ==
    /\ call[t] = Idle
    /\ Owner[h] = t /\ held[h] # "none"
    /\ call' = [call EXCEPT ![t] =
                  [op |-> "unlock", h |-> h, kind |-> held[h], pos |-> Len(PathOf(h))]]
    /\ held' = [held EXCEPT ![h] = "none"]
    /\ UNCHANGED <<level, wtid, taken, lost>>

\* the mutex at hand is unlocked; go on above it or return
Unlocked(t) ==
    LET h == call[t].h IN
    /\ taken' = [taken EXCEPT ![h] = Front(@)]
    /\ IF call[t].pos = 1
         THEN call' = [call EXCEPT ![t] = Idle]
         ELSE call' = [call EXCEPT ![t].pos = @ - 1]
    /\ UNCHANGED <<held, lost>>

\* faulty: the last reader to come is taken for the only one
UnlockReadResets(t) ==
    /\ call[t].op = "unlock" /\ NextKind(t) = "read"
    /\ level' = [level EXCEPT ![Here(t)] = 0]
    /\ Unlocked(t)
    /\ UNCHANGED wtid

UnlockRead(t) ==
    /\ call[t].op = "unlock" /\ NextKind(t) = "read"
    /\ level' = [level EXCEPT ![Here(t)] = @ - 1]
    /\ Unlocked(t)
    /\ UNCHANGED wtid

\* faulty: unlocking a nested write lock clears the tid
UnlockWriteClears(t) ==
    /\ call[t].op = "unlock" /\ NextKind(t) = "write"
    /\ level' = [level EXCEPT ![Here(t)] = @ + 1]
    /\ wtid' = [wtid EXCEPT ![Here(t)] = NoThread]
    /\ Unlocked(t)

UnlockWrite(t) ==
    /\ call[t].op = "unlock" /\ NextKind(t) = "write"
    /\ level' = [level EXCEPT ![Here(t)] = @ + 1]
    /\ wtid' = [wtid EXCEPT ![Here(t)] = IF level'[Here(t)] = 0 THEN NoThread ELSE @]
    /\ Unlocked(t)

\* the bound is reached and every handle is released
Exhausted ==
    /\ LostTotal >= MaxLost
    /\ \A t \in Thread : call[t] = Idle
    /\ \A h \in Handle : held[h] = "none"
    /\ UNCHANGED vars

----------------------------------------------------------------------------

Calls(t) ==
    \E h \in Handle : CallUnlock(t, h) \/ \E k \in Kind : CallLock(t, h, k)

Runs(t) ==
    \/ LockRead(t) \/ LockWrite(t) \/ NestWrite(t)
    \/ ThrowOwnWrite(t) \/ Timeout(t)
    \/ UnlockRead(t) \/ UnlockWrite(t)

Next ==
    \/ \E t \in Thread : Calls(t) \/ Runs(t)
    \/ Exhausted

Spec == Init /\ [][Next]_vars

\* a thread inside of a call goes on; nobody has to call
FairSpec == Spec /\ \A t \in Thread : WF_vars(Runs(t))

----------------------------------------------------------------------------

(* A mutex counts exactly the locks taken on it by handles, those of       *)
(* constructors under way and those left behind by an exception.           *)
LevelAccounts ==
    \A f \in Field :
        IF wtid[f] = NoThread
        THEN level[f] = Cardinality(TakenOn(f)) + lost[f]
        ELSE level[f] = -(Cardinality(TakenOn(f)) + lost[f])

\* a handle has locked exactly the upper part of its path that its call has
\* come to, all of it when it is held, nothing when it is not in use
TakenInv ==
    \A h \in Handle :
        \/ /\ held[h] \in Kind
           /\ Len(taken[h]) = Len(PathOf(h)) /\ Last(taken[h]) = held[h]
           /\ \A t \in Thread : call[t] # Idle => call[t].h # h
        \/ /\ held[h] = "none" /\ taken[h] = <<>>
           /\ \A t \in Thread : call[t] # Idle => call[t].h # h
        \/ /\ held[h] = "none" /\ call[Owner[h]] # Idle /\ call[Owner[h]].h = h

CallInv ==
    \A t \in Thread : call[t] # Idle =>
        /\ call[t].op # "none"
        /\ call[t].h \in Handle /\ Owner[call[t].h] = t
        /\ call[t].pos \in 1 .. Len(PathOf(call[t].h))
        /\ call[t].op = "lock" => Len(taken[call[t].h]) = call[t].pos - 1
        /\ call[t].op = "unlock" =>
             /\ Len(taken[call[t].h]) = call[t].pos
             /\ AtTarget(t) => Last(taken[call[t].h]) = call[t].kind

\* write_lock_tid tells how a mutex was locked for a handle, and is zero when
\* the mutex is not locked
TidInv ==
    /\ \A f \in Field : wtid[f] # NoThread => level[f] # 0
    /\ \A h \in Handle : \A i \in DOMAIN taken[h] :
         wtid[PathOf(h)[i]] = IF taken[h][i] = "write" THEN Owner[h] ELSE NoThread

IInv == TypeOK /\ LevelAccounts /\ TakenInv /\ CallInv /\ TidInv

(* While a handle write-locks a field, no other thread holds a lock on the *)
(* field or on anything below it.                                          *)
SubtreeExclusion ==
    \A h, g \in Handle :
        held[h] = "write" /\ held[g] # "none" /\ Owner[g] # Owner[h]
            => ~Contains(PathOf(g), Target[h])

(* read_or_write_unlock looks at write_lock_tid when it unlocks: it always *)
(* releases an ancestor the way this handle acquired it.                   *)
UnlockMatches ==
    \A t \in Thread : call[t].op = "unlock" => Last(taken[call[t].h]) = NextKind(t)

(* While a handle is held, no mutex on its path is free or write-locked by *)
(* another thread: nobody else can write-lock an ancestor and delete the   *)
(* field underneath.                                                       *)
AncestorsPinned ==
    \A h \in Handle : held[h] # "none" =>
        \A i \in DOMAIN PathOf(h) :
            /\ level[PathOf(h)[i]] # 0
            /\ wtid[PathOf(h)[i]] \in {NoThread, Owner[h]}

(* A call ends unless other threads change the levels forever.  Two        *)
(* threads that read and want to write, or one thread that waits for its   *)
(* own read lock, are freed by the timeout only.                           *)
CallsEnd ==
    <>[][FALSE]_level =>
        \A t \in Thread : (call[t] # Idle) ~> (call[t] = Idle)

(* When no lock object exists and no call is under way every mutex is      *)
(* unlocked, so a write lock can be taken.                                 *)
QuietMeansUnlocked ==
    (\A t \in Thread : call[t] = Idle) /\ (\A h \in Handle : held[h] = "none")
        => \A f \in Field : level[f] = 0
=============================================================================
