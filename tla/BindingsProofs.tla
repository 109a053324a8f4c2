--------------------------- MODULE BindingsProofs ---------------------------
(***************************************************************************)
(* Proofs about Bindings for any number of Python processes: the bindings  *)
(* use the locks of FieldLock as that module allows, so what is proved of  *)
(* the locks holds here; which lock objects a binding holds at which line; *)
(* and what they protect.                                                  *)
(***************************************************************************)
EXTENDS Bindings, FieldLockProofs

----------------------------------------------------------------------------
(* The lock objects.                                                       *)

\* Who owns a lock object and which fields it locks.
LEMMA Handles ==
  ASSUME NEW t \in Thread, NEW r \in Role
  PROVE  /\ <<t, r>> \in Handle /\ Owner[<<t, r>>] = t
         /\ Target[<<t, r>>] = IF r \in {"with", "set"} THEN Store ELSE List
         /\ PathOf(<<t, r>>) = IF r \in {"with", "set"} THEN <<Store>> ELSE <<Store, List>>
  <1>1. <<t, r>> \in Handle /\ <<t, r>>[1] = t /\ <<t, r>>[2] = r
    BY BindingsConstants
  <1> QED
    BY <1>1, BindingsConstants DEF PathOf

\* The lock objects by their names.
LEMMA Names ==
  ASSUME NEW t \in Thread
  PROVE  /\ \A fn : LockOf(t, fn) \in Handle /\ Owner[LockOf(t, fn)] = t
         /\ \A fn : LockOf(t, fn) \in {<<t, "set">>, <<t, "body">>, <<t, "iter">>}
         /\ With(t) \in Handle /\ Begin(t) \in Handle /\ End(t) \in Handle /\ Iter(t) \in Handle
         /\ Owner[With(t)] = t /\ Owner[Begin(t)] = t /\ Owner[End(t)] = t /\ Owner[Iter(t)] = t
  BY Handles DEF LockOf, With, Begin, End, Iter, Role

\* Each lock object has one name.
LEMMA Apart ==
  ASSUME NEW t, NEW fn
  PROVE  /\ LockOf(t, fn) \notin {With(t), Begin(t), End(t)}
         /\ (LockOf(t, fn) = Iter(t)) <=> (fn = "iter")
         /\ With(t) # Begin(t) /\ With(t) # End(t) /\ Begin(t) # End(t)
         /\ Iter(t) \notin {With(t), Begin(t), End(t)}
  BY DEF LockOf, With, Begin, End, Iter

LEMMA Kinds ==
  ASSUME NEW fn
  PROVE  /\ KindOf(fn) \in Kind
         /\ fn \in {"insert", "extend", "setitem", "delitem", "clear", "setattr"} => KindOf(fn) = "write"
         /\ fn = "iter" => KindOf(fn) = "read"
  BY DEF KindOf, Kind, Reader

----------------------------------------------------------------------------
(* The bindings are users of the field locks.                              *)

\* Every step is a step of the locks or leaves them alone.
LEMMA LockStep == [BNext]_bvars => [Next]_vars
  <1>1. ASSUME NEW t \in Thread, Python(t)
        PROVE  Next \/ UNCHANGED vars
    <2>1. CASE \E k \in Kind : EnterWith(t, k)
      BY <2>1, Names DEF EnterWith, Next, Calls
    <2>2. CASE ExitWith(t)
      BY <2>2, Names DEF ExitWith, Next, Calls
    <2>3. CASE GetAttr(t) \/ DelAttr(t)
      BY <2>3 DEF GetAttr, DelAttr
    <2>4. CASE DropIter(t)
      BY <2>4, Names DEF DropIter, Next, Calls
    <2>5. CASE \E fn \in Function : Call(t, fn)
      BY <2>5, Names, Kinds DEF Call, Next, Calls
    <2> QED  BY <1>1, <2>1, <2>2, <2>3, <2>4, <2>5 DEF Python
  <1>2. ASSUME NEW t \in Thread, Body(t)
        PROVE  Next \/ UNCHANGED vars
    <2>1. CASE ExtendByItself(t) \/ IterBegin(t) \/ IterEnd(t)
      BY <2>1, Names DEF ExtendByItself, IterBegin, IterEnd, Next, Calls, Kind
    <2>2. CASE Leave(t) \/ DropBegin(t)
      BY <2>2, Names DEF Leave, DropBegin, Next, Calls
    <2>3. CASE ~(ExtendByItself(t) \/ IterBegin(t) \/ IterEnd(t) \/ Leave(t) \/ DropBegin(t))
      BY <1>2, <2>3 DEF Body, Raise, Read, Insert, Convert, ConvertThrows, Extend, Push,
           PushedAll, SetItem, DelItem, Clear, IterMade, SetList, SetNone
    <2> QED  BY <2>1, <2>2, <2>3
  <1>3. ASSUME NEW t \in Thread, Locking(t)
        PROVE  Next
    BY <1>3 DEF Locking, Next
  <1>4. Stopped \/ UNCHANGED bvars => UNCHANGED vars
    BY DEF Stopped, bvars
  <1> QED  BY <1>1, <1>2, <1>3, <1>4 DEF BNext

(* Whatever the bindings do with their lock objects is what FieldLock      *)
(* allows: its theorems hold of the bindings.                              *)
THEOREM Composition == BSpec => Spec
<1>1. BInit => Init
  BY DEF BInit
<1> QED  BY <1>1, LockStep, PTL DEF BSpec, Spec

----------------------------------------------------------------------------
(* What the steps of the locks do to the lock objects.                     *)

LEMMA CallLockEffect ==
  ASSUME IInv, NEW t \in Thread, NEW h \in Handle, NEW k \in Kind, CallLock(t, h, k)
  PROVE  /\ call[t] = Idle /\ held[h] = "none" /\ held' = held
         /\ call'[t] # Idle
         /\ call'[t].op = "lock" /\ call'[t].h = h /\ call'[t].kind = k
         /\ \A u \in Thread \ {t} : call'[u] = call[u]
  <1>1. call'[t] = [op |-> "lock", h |-> h, kind |-> k, pos |-> 1]
    BY DEF CallLock, IInv, TypeOK
  <1>2. \A u \in Thread \ {t} : call'[u] = call[u]
    BY DEF CallLock, IInv, TypeOK
  <1> QED  BY <1>1, <1>2 DEF CallLock, Idle

LEMMA CallUnlockEffect ==
  ASSUME IInv, NEW t \in Thread, NEW h \in Handle, CallUnlock(t, h)
  PROVE  /\ call[t] = Idle /\ held[h] # "none" /\ held'[h] = "none"
         /\ call'[t].op = "unlock" /\ call'[t] # Idle
         /\ \A u \in Thread \ {t} : call'[u] = call[u]
         /\ \A g \in Handle \ {h} : held'[g] = held[g]
  <1>1. call'[t].op = "unlock" /\ held'[h] = "none"
    BY DEF CallUnlock, IInv, TypeOK
  <1>2. /\ \A u \in Thread \ {t} : call'[u] = call[u]
        /\ \A g \in Handle \ {h} : held'[g] = held[g]
    BY DEF CallUnlock, IInv, TypeOK
  <1> QED  BY <1>1, <1>2 DEF CallUnlock, Idle

LEMMA RunsEffect ==
  ASSUME IInv, NEW t \in Thread, Runs(t)
  PROVE  /\ call[t] # Idle /\ call[t].op \in {"lock", "unlock"}
         /\ H(t) \in Handle /\ Owner[H(t)] = t
         /\ \A u \in Thread \ {t} : call'[u] = call[u]
         /\ \/ call'[t] = Idle
            \/ /\ call'[t].op = call[t].op /\ call'[t].h = H(t) /\ call'[t].kind = call[t].kind
               /\ held' = held
         /\ \A g \in Handle \ {H(t)} : held'[g] = held[g]
         /\ held' = held \/ (/\ AtTarget(t) /\ ~Timeout(t) /\ ~ThrowOwnWrite(t)
                             /\ call[t].op = "lock" /\ held'[H(t)] = call[t].kind)
         /\ call[t].op = "lock" /\ call'[t] = Idle /\ held' = held
              => Timeout(t) \/ ThrowOwnWrite(t)
  <1>1. /\ call \in [Thread -> CallType] /\ held \in [Handle -> {"none"} \union Kind]
        /\ call[t] \in CallType
    BY DEF IInv, TypeOK
  <1>2. call[t].op # "none"
    BY DEF Runs, LockRead, LockWrite, NestWrite, ThrowOwnWrite, Timeout, UnlockRead, UnlockWrite
  <1>3. call[t].op \in {"lock", "unlock"} /\ call[t] # Idle /\ H(t) \in Handle
        /\ Owner[H(t)] = t /\ held[H(t)] = "none"
    BY <1>1, <1>2, CallFacts DEF CallType
  <1>4. ASSUME NEW k \in Kind, Locked(t, k), call[t].op = "lock", AtTarget(t) => k = call[t].kind,
               ~Timeout(t), ~ThrowOwnWrite(t)
        PROVE  /\ \A u \in Thread \ {t} : call'[u] = call[u]
               /\ \/ call'[t] = Idle
                  \/ /\ call'[t].op = call[t].op /\ call'[t].h = H(t)
                     /\ call'[t].kind = call[t].kind /\ held' = held
               /\ \A g \in Handle \ {H(t)} : held'[g] = held[g]
               /\ held' = held \/ (AtTarget(t) /\ held'[H(t)] = call[t].kind)
               /\ ~(call'[t] = Idle /\ held' = held)
    <2>1. CASE AtTarget(t)
      <3>1. call' = [call EXCEPT ![t] = Idle] /\ held' = [held EXCEPT ![H(t)] = k] /\ k = call[t].kind
        BY <1>4, <2>1 DEF Locked, H
      <3>2. held'[H(t)] = k /\ k # "none"
        BY <1>1, <1>3, <3>1 DEF Kind
      <3> QED  BY <1>1, <1>3, <2>1, <3>1, <3>2
    <2>2. CASE ~AtTarget(t)
      <3>1. call' = [call EXCEPT ![t].pos = @ + 1] /\ held' = held
        BY <1>4, <2>2 DEF Locked
      <3>2. call'[t] = [call[t] EXCEPT !.pos = @ + 1] /\ \A u \in Thread \ {t} : call'[u] = call[u]
        BY <1>1, <3>1
      <3>3. call'[t].op = call[t].op /\ call'[t].h = H(t) /\ call'[t].kind = call[t].kind
        BY <1>1, <3>2 DEF CallType, H
      <3>4. call'[t] # Idle
        BY <1>3, <3>3 DEF Idle
      <3> QED  BY <3>1, <3>2, <3>3, <3>4
    <2> QED  BY <2>1, <2>2
  <1>5. CASE LockRead(t) \/ LockWrite(t) \/ NestWrite(t)
    <2>1. PICK k \in Kind : Locked(t, k) /\ NextKind(t) = k /\ call[t].op = "lock"
      BY <1>5 DEF LockRead, LockWrite, NestWrite, Kind
    <2>2. AtTarget(t) => k = call[t].kind
      BY <2>1 DEF NextKind
    <2>3. ~Timeout(t)
      <3>1. CASE LockRead(t) \/ LockWrite(t)
        <4>1. /\ ~WritesHere(t)
              /\ IF NextKind(t) = "read" THEN level[Here(t)] >= 0 ELSE level[Here(t)] = 0
          BY <3>1 DEF LockRead, LockWrite
        <4>2. Here(t) \in Field /\ level[Here(t)] \in Int
          BY <1>2, CallFacts DEF IInv, TypeOK
        <4> QED  BY <4>1, <4>2 DEF Timeout
      <3>2. CASE NestWrite(t)
        BY <3>2 DEF NestWrite, Timeout
      <3> QED  BY <1>5, <3>1, <3>2
    <2>4. ~ThrowOwnWrite(t)
      BY <1>5 DEF LockRead, LockWrite, NestWrite, ThrowOwnWrite
    <2> QED  BY <1>3, <1>4, <2>1, <2>2, <2>3, <2>4
  <1>6. CASE ThrowOwnWrite(t) \/ Timeout(t)
    <2>1. call' = [call EXCEPT ![t] = Idle] /\ held' = held
      BY <1>6 DEF ThrowOwnWrite, Timeout, Throw
    <2> QED  BY <1>1, <1>3, <1>6, <2>1
  <1>7. CASE UnlockRead(t) \/ UnlockWrite(t)
    <2>1. Unlocked(t) /\ held' = held /\ call[t].op = "unlock"
      BY <1>7 DEF UnlockRead, UnlockWrite, Unlocked
    <2>2. CASE call[t].pos = 1
      <3>1. call' = [call EXCEPT ![t] = Idle]
        BY <2>1, <2>2 DEF Unlocked
      <3> QED  BY <1>1, <1>3, <2>1, <3>1
    <2>3. CASE call[t].pos # 1
      <3>1. call' = [call EXCEPT ![t].pos = @ - 1]
        BY <2>1, <2>3 DEF Unlocked
      <3>2. call'[t] = [call[t] EXCEPT !.pos = @ - 1] /\ \A u \in Thread \ {t} : call'[u] = call[u]
        BY <1>1, <3>1
      <3>3. call'[t].op = call[t].op /\ call'[t].h = H(t) /\ call'[t].kind = call[t].kind
        BY <1>1, <3>2 DEF CallType, H
      <3> QED  BY <1>3, <2>1, <3>2, <3>3
    <2> QED  BY <2>2, <2>3
  <1> QED  BY <1>5, <1>6, <1>7 DEF Runs

\* What the mutexes on a path look like while a thread holds a lock object.
LEMMA PathHeld ==
  ASSUME IInv, NEW g \in Handle, held[g] # "none", NEW i \in DOMAIN PathOf(g)
  PROVE  LET f == PathOf(g)[i] IN
         /\ f \in Field /\ level[f] \in Int
         /\ wtid[f] \in {Owner[g], NoThread} /\ NoThread # Owner[g]
         /\ wtid[f] = NoThread => level[f] > 0
         /\ i = Len(PathOf(g)) =>
              wtid[f] = IF held[g] = "write" THEN Owner[g] ELSE NoThread
  <1> DEFINE f == PathOf(g)[i]
  <1>1. /\ Len(taken[g]) = Len(PathOf(g)) /\ Last(taken[g]) = held[g]
        /\ taken[g] \in Seq(Kind) /\ held[g] \in Kind
    BY DEF IInv, TakenInv, TypeOK
  <1>2. /\ Len(PathOf(g)) \in Nat \ {0} /\ DOMAIN PathOf(g) = 1 .. Len(PathOf(g)) /\ f \in Field
        /\ i \in DOMAIN taken[g]
    BY <1>1, PathFacts
  <1>3. wtid[f] = IF taken[g][i] = "write" THEN Owner[g] ELSE NoThread
    BY <1>2 DEF IInv, TidInv
  <1>4. i = Len(PathOf(g)) => taken[g][i] = held[g]
    BY <1>1, <1>2 DEF Last
  <1>5. /\ Cardinality(TakenOn(f)) \in Nat /\ Cardinality(TakenOn(f)) # 0
        /\ lost[f] \in Nat /\ level[f] \in Int
    BY <1>2, TakenFinite DEF TakenOn, IInv, TypeOK
  <1>6. wtid[f] = NoThread => level[f] = Cardinality(TakenOn(f)) + lost[f]
    BY <1>2 DEF IInv, LevelAccounts
  <1>7. NoThread # Owner[g]
    BY FieldLockConstants
  <1> QED  BY <1>2, <1>3, <1>4, <1>5, <1>6, <1>7

\* A read lock succeeds for a thread that has one on the same field.
LEMMA ReadAgain ==
  ASSUME IInv, NEW t \in Thread, call[t].op = "lock", call[t].kind = "read",
         NEW g \in Handle, held[g] = "read", Owner[g] = t, PathOf(g) = PathOf(H(t))
  PROVE  ~Timeout(t) /\ ~ThrowOwnWrite(t)
  <1>1. call[t].pos \in DOMAIN PathOf(g) /\ Here(t) = PathOf(g)[call[t].pos]
    BY CallFacts DEF Here, H
  <1>2. /\ level[Here(t)] \in Int /\ wtid[Here(t)] \in {t, NoThread} /\ NoThread # t
        /\ wtid[Here(t)] = NoThread => level[Here(t)] > 0
        /\ AtTarget(t) => wtid[Here(t)] = NoThread
    BY <1>1, PathHeld DEF AtTarget, H
  <1> QED  BY <1>2 DEF Timeout, ThrowOwnWrite, NextKind, WritesHere

\* A read lock fails on a field that the thread has locked for writing.
LEMMA ReadOwnWrite ==
  ASSUME IInv, NEW t \in Thread, call[t].op = "lock", call[t].kind = "read", Runs(t),
         NEW g \in Handle, held[g] = "write", Owner[g] = t, PathOf(g) = PathOf(H(t))
  PROVE  held' = held
  <1>1. CASE AtTarget(t)
    <2>1. call[t].pos \in DOMAIN PathOf(g) /\ Here(t) = PathOf(g)[call[t].pos]
      BY CallFacts DEF Here, H
    <2>2. WritesHere(t) /\ NextKind(t) = "read"
      BY <1>1, <2>1, PathHeld DEF AtTarget, H, WritesHere, NextKind
    <2> QED
      BY <1>1, <2>2, RunsEffect DEF Runs, LockRead, LockWrite, NestWrite, ThrowOwnWrite, Timeout,
         UnlockRead, UnlockWrite, Throw, Unlocked
  <1>2. CASE ~AtTarget(t)
    BY <1>2, RunsEffect
  <1> QED  BY <1>1, <1>2

----------------------------------------------------------------------------
(* The invariant, thread by thread.                                        *)

Good(t) == PcInv(t) /\ HeldInv(t) /\ LockingInv(t) /\ IterInv(t)

LEMMA AtFields ==
  ASSUME BTypeOK, NEW t \in Thread,
         NEW at \in {"none", "lock", "body", "convert", "begin", "end", "leave"}, At(t, at)
  PROVE  /\ py' \in [Thread -> PyType]
         /\ py'[t].fn = py[t].fn /\ py'[t].at = at
         /\ \A u \in Thread \ {t} : py'[u] = py[u]
  <1>1. py \in [Thread -> PyType] /\ py[t] \in PyType
    BY DEF BTypeOK
  <1>2. py' = [py EXCEPT ![t].at = at]
    BY DEF At
  <1>3. py'[t] = [py[t] EXCEPT !.at = at] /\ \A u \in Thread \ {t} : py'[u] = py[u]
    BY <1>1, <1>2
  <1>4. py'[t] \in PyType /\ py'[t].fn = py[t].fn /\ py'[t].at = at
    BY <1>1, <1>3 DEF PyType
  <1> QED  BY <1>1, <1>2, <1>3, <1>4

LEMMA ConvertFields ==
  ASSUME BTypeOK, NEW t \in Thread, NEW i \in Nat,
         py' = [py EXCEPT ![t].at = "convert", ![t].i = i]
  PROVE  /\ py' \in [Thread -> PyType]
         /\ py'[t].fn = py[t].fn /\ py'[t].at = "convert" /\ py'[t].i = i
         /\ \A u \in Thread \ {t} : py'[u] = py[u]
  <1>1. py \in [Thread -> PyType] /\ py[t] \in PyType
    BY DEF BTypeOK
  <1>2. /\ py'[t] = [py[t] EXCEPT !.at = "convert", !.i = i]
        /\ \A u \in Thread \ {t} : py'[u] = py[u]
    BY <1>1
  <1>3. py'[t] \in PyType /\ py'[t].fn = py[t].fn /\ py'[t].at = "convert" /\ py'[t].i = i
    BY <1>1, <1>2 DEF PyType
  <1> QED  BY <1>1, <1>2, <1>3

LEMMA NewFields ==
  ASSUME BTypeOK, NEW t \in Thread, NEW p \in PyType, py' = [py EXCEPT ![t] = p]
  PROVE  /\ py' \in [Thread -> PyType] /\ py'[t] = p
         /\ \A u \in Thread \ {t} : py'[u] = py[u]
  BY DEF BTypeOK

\* A thread's part of the invariant is about its own state only.
LEMMA OthersStay ==
  ASSUME NEW u \in Thread, Good(u), py'[u] = py[u], call'[u] = call[u],
         \A r \in Role : held'[<<u, r>>] = held[<<u, r>>]
  PROVE  Good(u)'
  <1>1. /\ held'[With(u)] = held[With(u)] /\ held'[Begin(u)] = held[Begin(u)]
        /\ held'[End(u)] = held[End(u)]
        /\ \A r \in {"set", "body", "iter"} : held'[<<u, r>>] = held[<<u, r>>]
        /\ \A fn : held'[LockOf(u, fn)] = held[LockOf(u, fn)]
    BY DEF With, Begin, End, LockOf, Role
  <1>2. PcInv(u)'
    BY DEF PcInv, Good
  <1>3. HeldInv(u)'
    BY <1>1 DEF HeldInv, Good
  <1>4. LockedAt(u)' = LockedAt(u)
    BY DEF LockedAt
  <1>5. LockingInv(u)'
    BY <1>4 DEF LockingInv, Good
  <1>6. IterInv(u)'
    BY <1>1 DEF IterInv, Iterating, Good
  <1> QED  BY <1>2, <1>3, <1>5, <1>6 DEF Good

\* A body goes on to its next line.
LEMMA BodyMove ==
  ASSUME NEW t \in Thread, Good(t), call[t] = Idle, call' = call, held' = held,
         py[t].fn \in Function, held[LockOf(t, py[t].fn)] # "none",
         py'[t].fn = py[t].fn, py'[t].at \in {"body", "convert", "leave"},
         py'[t].at = "body" => py[t].fn \in {"extend", "setattr"},
         py'[t].at = "convert" => py[t].fn \in {"insert", "extend", "setattr"}
  PROVE  Good(t)'
  <1>1. PcInv(t)'
    BY DEF PcInv, Function, Reader, Writer
  <1>2. HeldInv(t)'
    BY DEF HeldInv, Good
  <1>3. LockingInv(t)'
    BY DEF LockingInv, Idle
  <1>4. IterInv(t)'
    BY DEF IterInv
  <1> QED  BY <1>1, <1>2, <1>3, <1>4 DEF Good

\* The constructor of a lock object is called.
LEMMA LockMove ==
  ASSUME IInv, NEW t \in Thread, Good(t), NEW h \in Handle, NEW k \in Kind, CallLock(t, h, k),
         PcInv(t)', HeldInv(t)', h = LockedAt(t)',
         py'[t].at = "lock" => k = KindOf(py'[t].fn),
         py'[t].at \in {"begin", "end", "leave"} => k = "read",
         py'[t].at = "leave" => py'[t].fn = "extend"
  PROVE  Good(t)'
  <1>1. call'[t] # Idle /\ call'[t].op = "lock" /\ call'[t].h = h /\ call'[t].kind = k
    BY CallLockEffect
  <1>2. LockingInv(t)' /\ IterInv(t)'
    BY <1>1 DEF LockingInv, IterInv
  <1> QED  BY <1>2 DEF Good

\* A lock object is destroyed, and the thread runs no function any more.
LEMMA UnlockMove ==
  ASSUME IInv, NEW t \in Thread, Good(t), NEW h \in Handle, CallUnlock(t, h), Owner[h] = t,
         py'[t].fn \in {"none", "drop"}, py'[t].at = "none",
         \A r \in {"set", "body", "iter"} : held[<<t, r>>] # "none" => h = <<t, r>>
  PROVE  Good(t)'
  <1>1. /\ call'[t].op = "unlock" /\ call'[t] # Idle /\ held'[h] = "none"
        /\ \A g \in Handle \ {h} : held'[g] = held[g]
    BY CallUnlockEffect
  <1>2. \A r \in {"set", "body", "iter"} : held'[<<t, r>>] = "none"
    BY <1>1, Handles DEF Role
  <1>3. held'[Begin(t)] # "write" /\ held'[End(t)] # "write"
    BY <1>1, Names DEF Good, HeldInv
  <1> QED  BY <1>1, <1>2, <1>3 DEF Good, PcInv, HeldInv, LockingInv, IterInv

\* A mutex is locked or unlocked.
LEMMA RunMove ==
  ASSUME IInv, NEW t \in Thread, Good(t), Runs(t), py' = py, py[t] \in PyType
  PROVE  Good(t)'
  <1>1. PcInv(t)' /\ LockedAt(t)' = LockedAt(t) /\ LockedAt(t) = LockedAt(t)
    BY DEF Good, PcInv, LockedAt
  <1>2. LockingInv(t)'
    BY <1>1, RunsEffect DEF Good, LockingInv, Idle, H
  <1>3. HeldInv(t)'
    <2>1. CASE held' = held
      BY <2>1 DEF Good, HeldInv
    <2>2. CASE held' # held
      <3>1. /\ call[t].op = "lock" /\ held'[H(t)] = call[t].kind /\ H(t) = LockedAt(t)
            /\ \A g \in Handle \ {H(t)} : held'[g] = held[g]
        BY <2>2, RunsEffect DEF Good, LockingInv, H
      <3>2. H(t) # NoHandle /\ NoHandle \notin Handle
        BY RunsEffect, FieldLockConstants
      <3>3. CASE py[t].at = "none"
        <4>1. H(t) = With(t)
          BY <3>1, <3>3 DEF LockedAt
        <4>2. /\ \A r \in {"set", "body", "iter"} : held'[<<t, r>>] = held[<<t, r>>]
              /\ held'[Begin(t)] = held[Begin(t)] /\ held'[End(t)] = held[End(t)]
          <5>1. \A r \in {"set", "body", "iter"} : <<t, r>> \in Handle /\ <<t, r>> # With(t)
            BY Handles DEF With, Role
          <5> QED  BY <3>1, <4>1, <5>1, Names, Apart
        <4> QED  BY <3>3, <4>2 DEF Good, HeldInv
      <3>4. CASE py[t].at = "lock"
        <4>1. H(t) = LockOf(t, py[t].fn) /\ call[t].kind = KindOf(py[t].fn)
              /\ py[t].fn \in Function
          BY <3>1, <3>4 DEF LockedAt, Good, LockingInv, PcInv, PyType
        <4>2. held'[Begin(t)] = held[Begin(t)] /\ held'[End(t)] = held[End(t)]
          BY <3>1, <4>1, Names, Apart
        <4>3. \A r \in {"set", "body", "iter"} :
                 held'[<<t, r>>] # "none" =>
                    <<t, r>> = LockOf(t, py[t].fn) /\ held'[<<t, r>>] = KindOf(py[t].fn)
          <5> TAKE r \in {"set", "body", "iter"}
          <5>1. <<t, r>> \in Handle
            BY Handles DEF Role
          <5> QED  BY <3>1, <4>1, <5>1 DEF Good, HeldInv
        <4> QED  BY <3>4, <4>1, <4>2, <4>3 DEF Good, HeldInv
      <3>5. CASE py[t].at \in {"begin", "end"}
        <4>1. H(t) \in {Begin(t), End(t)} /\ call[t].kind = "read" /\ py[t].fn = "iter"
          BY <3>1, <3>5 DEF LockedAt, Good, LockingInv, PcInv
        <4>2. /\ \A r \in {"set", "body", "iter"} : held'[<<t, r>>] = held[<<t, r>>]
              /\ held'[LockOf(t, py[t].fn)] = held[LockOf(t, py[t].fn)]
          <5>1. \A r \in {"set", "body", "iter"} :
                   <<t, r>> \in Handle /\ <<t, r>> \notin {Begin(t), End(t)}
            BY Handles DEF Begin, End, Role
          <5>2. LockOf(t, py[t].fn) \in Handle /\ LockOf(t, py[t].fn) \notin {Begin(t), End(t)}
            BY Names, Apart
          <5> QED  BY <3>1, <4>1, <5>1, <5>2
        <4>3. held'[Begin(t)] # "write" /\ held'[End(t)] # "write"
          BY <3>1, <4>1, Names DEF Good, HeldInv
        <4> QED  BY <3>5, <4>2, <4>3 DEF Good, HeldInv
      <3>6. CASE py[t].at = "leave"
        <4>1. H(t) = Iter(t) /\ call[t].kind = "read" /\ py[t].fn = "extend"
          BY <3>1, <3>6 DEF LockedAt, Good, LockingInv
        <4>2. LockOf(t, "extend") = <<t, "body">> /\ held[<<t, "body">>] = "write"
          BY <3>6, <4>1, Kinds DEF Good, HeldInv, LockOf
        <4>3. /\ <<t, "body">> \in Handle /\ Owner[<<t, "body">>] = t
              /\ PathOf(<<t, "body">>) = PathOf(H(t))
          BY <4>1, Handles DEF Iter, Role
        <4> QED  BY <2>2, <3>1, <4>1, <4>2, <4>3, ReadOwnWrite
      <3>7. CASE py[t].at \notin {"none", "lock", "begin", "end", "leave"}
        BY <3>1, <3>2, <3>7 DEF LockedAt
      <3> QED  BY <3>3, <3>4, <3>5, <3>6, <3>7
    <2> QED  BY <2>1, <2>2
  <1>4. IterInv(t)'
    <2> SUFFICES ASSUME py[t].fn = "iter", call'[t] = Idle, py[t].at \in {"begin", "end"}
                 PROVE  held'[IF py[t].at = "begin" THEN Begin(t) ELSE End(t)] # "none"
      BY DEF IterInv, Iterating
    <2>1. /\ call[t].op = "lock" /\ call[t].kind = "read"
          /\ H(t) = IF py[t].at = "begin" THEN Begin(t) ELSE End(t)
      BY RunsEffect DEF Good, LockingInv, LockedAt, H
    <2>2. LockOf(t, "iter") = Iter(t) /\ held[Iter(t)] = "read"
      BY Kinds DEF Good, HeldInv, LockOf, Iter
    <2>3. Iter(t) \in Handle /\ Owner[Iter(t)] = t /\ PathOf(Iter(t)) = PathOf(H(t))
      BY <2>1, Handles DEF Iter, Begin, End, Role
    <2>4. ~Timeout(t) /\ ~ThrowOwnWrite(t)
      BY <2>1, <2>2, <2>3, ReadAgain
    <2>5. held'[H(t)] = "read"
      BY <2>1, <2>4, RunsEffect
    <2> QED  BY <2>1, <2>5
  <1> QED  BY <1>1, <1>2, <1>3, <1>4 DEF Good

----------------------------------------------------------------------------
(* The steps of the bindings.                                              *)

\* A step of one thread leaves what the others run and hold.
Keeps(t) ==
    \A u \in Thread \ {t} :
        /\ py'[u] = py[u] /\ call'[u] = call[u]
        /\ \A r \in Role : held'[<<u, r>>] = held[<<u, r>>]

LEMMA KeepsLock ==
  ASSUME IInv, NEW t \in Thread, NEW h \in Handle, NEW k \in Kind, CallLock(t, h, k),
         \A u \in Thread \ {t} : py'[u] = py[u]
  PROVE  Keeps(t)
  BY CallLockEffect DEF Keeps

LEMMA KeepsUnlock ==
  ASSUME IInv, NEW t \in Thread, NEW h \in Handle, Owner[h] = t, CallUnlock(t, h),
         \A u \in Thread \ {t} : py'[u] = py[u]
  PROVE  Keeps(t)
  <1>1. ASSUME NEW u \in Thread \ {t}, NEW r \in Role
        PROVE  <<u, r>> \in Handle \ {h}
    <2>1. <<u, r>> \in Handle /\ Owner[<<u, r>>] = u
      BY Handles
    <2> QED  BY <2>1
  <1> QED  BY <1>1, CallUnlockEffect DEF Keeps

LEMMA KeepsRuns ==
  ASSUME IInv, NEW t \in Thread, Runs(t), py' = py
  PROVE  Keeps(t)
  <1>1. ASSUME NEW u \in Thread \ {t}, NEW r \in Role
        PROVE  <<u, r>> \in Handle \ {H(t)}
    <2>1. <<u, r>> \in Handle /\ Owner[<<u, r>>] = u
      BY Handles
    <2> QED  BY <2>1, RunsEffect
  <1> QED  BY <1>1, RunsEffect DEF Keeps

LEMMA NotRunningType == NotRunning \in PyType /\ NotRunning.fn = "none" /\ NotRunning.at = "none"
  BY DEF NotRunning, PyType

\* Python outside of the bindings.
LEMMA PythonStep ==
  ASSUME BInv, NEW t \in Thread, Python(t)
  PROVE  Good(t)' /\ Keeps(t) /\ py' \in [Thread -> PyType]
  <1>1. /\ IInv /\ Good(t) /\ BTypeOK /\ py \in [Thread -> PyType]
    BY DEF BInv, Good, BTypeOK
  <1>2. Ready(t) => /\ py[t].fn = "none" /\ py[t].at = "none" /\ call[t] = Idle
                    /\ \A r \in {"set", "body", "iter"} : held[<<t, r>>] = "none"
    BY <1>1 DEF Ready, Running, Good, HeldInv, PcInv, Function, Reader, Writer
  <1>3. ASSUME NEW k \in Kind, EnterWith(t, k)
        PROVE  Good(t)' /\ Keeps(t) /\ py' = py
    <2>1. CallLock(t, With(t), k) /\ py' = py /\ Ready(t)
      BY <1>3 DEF EnterWith, dvars
    <2>2. held' = held
      BY <1>1, <2>1, Names, CallLockEffect
    <2>3. PcInv(t)' /\ HeldInv(t)' /\ With(t) = LockedAt(t)'
      BY <1>1, <1>2, <2>1, <2>2 DEF Good, PcInv, HeldInv, LockedAt
    <2> QED  BY <1>1, <1>2, <2>1, <2>3, Names, LockMove, KeepsLock
  <1>4. CASE ExitWith(t)
    <2>1. CallUnlock(t, With(t)) /\ py' = py /\ Ready(t)
      BY <1>4 DEF ExitWith
    <2> QED  BY <1>1, <1>2, <2>1, Names, UnlockMove, KeepsUnlock
  <1>5. CASE GetAttr(t) \/ DelAttr(t)
    <2>1. UNCHANGED <<vars, py>>
      BY <1>5 DEF GetAttr, DelAttr
    <2> QED  BY <1>1, <2>1, OthersStay DEF Keeps, vars
  <1>6. ASSUME NEW fn \in Function, Call(t, fn)
        PROVE  Good(t)' /\ Keeps(t) /\ py' \in [Thread -> PyType]
    <2>1. CASE UNCHANGED <<vars, py>>
      BY <1>1, <2>1, OthersStay DEF Keeps, vars
    <2>2. CASE ~(UNCHANGED <<vars, py>>)
      <3> DEFINE p == [fn |-> fn, at |-> "lock", i |-> 0]
      <3>1. /\ CallLock(t, LockOf(t, fn), KindOf(fn)) /\ Ready(t)
            /\ py' = [py EXCEPT ![t] = p] /\ p \in PyType
        BY <1>6, <2>2 DEF Call, PyType
      <3>2. py' \in [Thread -> PyType] /\ py'[t] = p /\ \A u \in Thread \ {t} : py'[u] = py[u]
        BY <1>1, <3>1, NewFields
      <3>3. held' = held
        BY <1>1, <3>1, Names, Kinds, CallLockEffect
      <3>4. PcInv(t)' /\ HeldInv(t)' /\ LockOf(t, fn) = LockedAt(t)'
        BY <1>1, <1>2, <3>1, <3>2, <3>3
        DEF Good, PcInv, HeldInv, LockedAt, Function, Reader, Writer
      <3>5. py'[t].at = "lock" /\ py'[t].fn = fn
        BY <3>2
      <3> QED  BY <1>1, <3>1, <3>2, <3>4, <3>5, Names, Kinds, LockMove, KeepsLock
    <2> QED  BY <2>1, <2>2
  <1>7. CASE DropIter(t)
    <2> DEFINE p == [fn |-> "drop", at |-> "none", i |-> 0]
    <2>1. CallUnlock(t, End(t)) /\ Ready(t) /\ py' = [py EXCEPT ![t] = p] /\ p \in PyType
      BY <1>7 DEF DropIter, PyType
    <2>2. py' \in [Thread -> PyType] /\ py'[t] = p /\ \A u \in Thread \ {t} : py'[u] = py[u]
      BY <1>1, <2>1, NewFields
    <2> QED  BY <1>1, <1>2, <2>1, <2>2, Names, UnlockMove, KeepsUnlock
  <1> QED  BY <1>1, <1>3, <1>4, <1>5, <1>6, <1>7 DEF Python, ExitWith, GetAttr, DelAttr

\* While a value is converted the binding has its lock object.
LEMMA ConvertHolds ==
  ASSUME BInv, NEW t \in Thread, py[t].at = "convert"
  PROVE  /\ py[t].fn \in {"insert", "extend", "setattr"}
         /\ call[t] = Idle /\ held[LockOf(t, py[t].fn)] # "none"
  <1>1. /\ IInv /\ PcInv(t) /\ HeldInv(t) /\ LockingInv(t) /\ call[t] \in CallType
    BY DEF BInv, IInv, TypeOK
  <1>2. py[t].fn \in {"insert", "extend", "setattr"}
    BY <1>1 DEF PcInv
  <1>3. call[t].op # "unlock"
    BY <1>1, <1>2 DEF LockingInv
  <1>4. ASSUME call[t].op = "lock" PROVE FALSE
    <2>1. H(t) = NoHandle
      BY <1>1, <1>4 DEF LockingInv, LockedAt, H
    <2>2. H(t) \in Handle
      BY <1>1, <1>4, CallFacts
    <2> QED  BY <2>1, <2>2, FieldLockConstants
  <1>5. call[t].op = "none"
    BY <1>1, <1>3, <1>4 DEF CallType
  <1>6. call[t] = Idle
    BY <1>1, <1>5 DEF IInv, CallInv
  <1> QED  BY <1>1, <1>2, <1>6 DEF HeldInv

\* The bodies of the bindings.
LEMMA BodyStep ==
  ASSUME BInv, NEW t \in Thread, Body(t)
  PROVE  Good(t)' /\ Keeps(t) /\ py' \in [Thread -> PyType]
  <1>1. /\ IInv /\ Good(t) /\ BTypeOK /\ py \in [Thread -> PyType] /\ py[t] \in PyType
        /\ call[t] \in CallType
    BY DEF BInv, Good, BTypeOK, IInv, TypeOK
  <1>2. ASSUME NEW fn, In(t, fn)
        PROVE  py[t].fn = fn /\ call[t] = Idle /\ held[LockOf(t, fn)] # "none"
    BY <1>2 DEF In
  <1>3. py[t].at = "convert" =>
          /\ py[t].fn \in {"insert", "extend", "setattr"}
          /\ call[t] = Idle /\ held[LockOf(t, py[t].fn)] # "none"
    BY ConvertHolds
  <1>4. ASSUME NEW at \in {"body", "convert", "leave"}, At(t, at), UNCHANGED vars,
               call[t] = Idle, held[LockOf(t, py[t].fn)] # "none",
               at = "body" => py[t].fn \in {"extend", "setattr"},
               at = "convert" => py[t].fn \in {"insert", "extend", "setattr"},
               py[t].fn \in Function
        PROVE  Good(t)' /\ Keeps(t) /\ py' \in [Thread -> PyType]
    <2>1. /\ py'[t].fn = py[t].fn /\ py'[t].at = at /\ py' \in [Thread -> PyType]
          /\ \A u \in Thread \ {t} : py'[u] = py[u]
      BY <1>1, <1>4, AtFields
    <2>2. call' = call /\ held' = held
      BY <1>4 DEF vars
    <2>3. Good(t)'
      BY <1>1, <1>4, <2>1, <2>2, BodyMove
    <2> QED  BY <2>1, <2>2, <2>3 DEF Keeps
  <1>5. ASSUME NEW i \in Nat, py' = [py EXCEPT ![t].at = "convert", ![t].i = i], UNCHANGED vars,
               call[t] = Idle, held[LockOf(t, py[t].fn)] # "none",
               py[t].fn \in {"insert", "extend", "setattr"}
        PROVE  Good(t)' /\ Keeps(t) /\ py' \in [Thread -> PyType]
    <2>1. /\ py'[t].fn = py[t].fn /\ py'[t].at = "convert" /\ py' \in [Thread -> PyType]
          /\ \A u \in Thread \ {t} : py'[u] = py[u]
      BY <1>1, <1>5, ConvertFields
    <2>2. call' = call /\ held' = held /\ py[t].fn \in Function
      BY <1>5 DEF vars, Function, Writer
    <2>3. Good(t)'
      BY <1>1, <1>5, <2>1, <2>2, BodyMove
    <2> QED  BY <2>1, <2>2, <2>3 DEF Keeps
  <1>6. CASE Raise(t)
    <2>1. /\ py[t].at = "lock" /\ call[t] = Idle /\ held[LockOf(t, py[t].fn)] = "none"
          /\ py' = [py EXCEPT ![t] = NotRunning] /\ held' = held /\ call' = call
      BY <1>6 DEF Raise, vars
    <2>2. /\ py' \in [Thread -> PyType] /\ py'[t] = NotRunning
          /\ \A u \in Thread \ {t} : py'[u] = py[u]
      BY <1>1, <2>1, NewFields, NotRunningType
    <2>3. \A r \in {"set", "body", "iter"} : held[<<t, r>>] = "none"
      BY <1>1, <2>1 DEF Good, HeldInv
    <2>4. Good(t)'
      BY <1>1, <2>1, <2>2, <2>3, NotRunningType
      DEF Good, PcInv, HeldInv, LockingInv, IterInv, Idle
    <2> QED  BY <2>1, <2>2, <2>4 DEF Keeps
  <1>7. CASE Leave(t) \/ DropBegin(t)
    <2>1. PICK h \in Handle :
            /\ CallUnlock(t, h) /\ Owner[h] = t /\ call[t] = Idle
            /\ py' = [py EXCEPT ![t] = NotRunning]
            /\ \A r \in {"set", "body", "iter"} : held[<<t, r>>] # "none" => h = <<t, r>>
      <3>1. CASE Leave(t)
        BY <1>1, <3>1, Names DEF Leave, Good, HeldInv
      <3>2. CASE DropBegin(t)
        BY <1>1, <3>2, Names DEF DropBegin, Good, HeldInv, Function, Reader, Writer
      <3> QED  BY <1>7, <3>1, <3>2
    <2>2. /\ py' \in [Thread -> PyType] /\ py'[t] = NotRunning
          /\ \A u \in Thread \ {t} : py'[u] = py[u]
      BY <1>1, <2>1, NewFields, NotRunningType
    <2> QED  BY <1>1, <2>1, <2>2, NotRunningType, UnlockMove, KeepsUnlock
  <1>8. CASE Read(t) \/ Extend(t) \/ SetItem(t) \/ DelItem(t) \/ Clear(t) \/ IterMade(t)
             \/ SetList(t) \/ SetNone(t) \/ PushedAll(t)
    <2>1. PICK fn \in Function : In(t, fn)
      BY <1>8 DEF Read, Extend, SetItem, DelItem, Clear, IterMade, SetList, SetNone, PushedAll,
         Function, Reader, Writer
    <2>2. PICK at \in {"body", "leave"} :
            At(t, at) /\ UNCHANGED vars /\ (at = "body" => py[t].fn \in {"extend", "setattr"})
      BY <1>8 DEF Read, Extend, SetItem, DelItem, Clear, IterMade, SetList, SetNone, PushedAll, In
    <2> QED  BY <1>2, <1>4, <2>1, <2>2
  <1>9. CASE Insert(t)
    <2>1. PICK i \in 1 .. Len(items) + 1 : py' = [py EXCEPT ![t].at = "convert", ![t].i = i]
      BY <1>9 DEF Insert
    <2>2. In(t, "insert") /\ UNCHANGED vars /\ i \in Nat
      BY <1>1, <1>9 DEF Insert, BTypeOK
    <2> QED  BY <1>2, <1>5, <2>1, <2>2
  <1>10. CASE Push(t)
    <2>1. /\ In(t, "extend") \/ In(t, "setattr")
          /\ UNCHANGED vars /\ Len(items) + 1 \in Nat
          /\ py' = [py EXCEPT ![t].at = "convert", ![t].i = Len(items) + 1]
      BY <1>1, <1>10 DEF Push, BTypeOK
    <2> QED  BY <1>2, <1>5, <2>1
  <1>11. CASE Convert(t) \/ ConvertThrows(t)
    <2>1. PICK at \in {"body", "leave"} :
            /\ At(t, at) /\ UNCHANGED vars /\ py[t].at = "convert"
            /\ at = "body" => py[t].fn # "insert"
      BY <1>11 DEF Convert, ConvertThrows
    <2>2. py[t].fn \in Function
      BY <1>3, <2>1 DEF Function, Writer
    <2> QED  BY <1>3, <1>4, <2>1, <2>2
  <1>12. CASE ExtendByItself(t) \/ IterBegin(t) \/ IterEnd(t)
    <2>1. PICK at \in {"leave", "begin", "end"}, h \in Handle :
            /\ At(t, at) /\ CallLock(t, h, "read") /\ In(t, py[t].fn)
            /\ at = "leave" => h = Iter(t) /\ py[t].fn = "extend"
            /\ at = "begin" => h = Begin(t) /\ py[t].fn = "iter"
            /\ at = "end" => h = End(t) /\ py[t].fn = "iter"
      BY <1>12, Names DEF ExtendByItself, IterBegin, IterEnd, In
    <2>2. /\ py'[t].fn = py[t].fn /\ py'[t].at = at /\ py' \in [Thread -> PyType]
          /\ \A u \in Thread \ {t} : py'[u] = py[u]
      BY <1>1, <2>1, AtFields
    <2>3. held' = held /\ "read" \in Kind
      BY <1>1, <2>1, CallLockEffect DEF Kind
    <2>4. PcInv(t)'
      BY <2>1, <2>2 DEF PcInv
    <2>5. HeldInv(t)'
      BY <1>1, <1>2, <2>1, <2>2, <2>3 DEF Good, HeldInv
    <2>6. h = LockedAt(t)'
      BY <2>1, <2>2 DEF LockedAt
    <2> QED  BY <1>1, <2>1, <2>2, <2>3, <2>4, <2>5, <2>6, LockMove, KeepsLock
  <1> QED  BY <1>6, <1>7, <1>8, <1>9, <1>10, <1>11, <1>12 DEF Body

\* Every thread's part of the invariant survives every step.
LEMMA GoodStep ==
  ASSUME BInv, [BNext]_bvars
  PROVE  /\ \A u \in Thread : Good(u)'
         /\ py' \in [Thread -> PyType]
  <1>1. /\ IInv /\ BTypeOK /\ py \in [Thread -> PyType]
        /\ \A u \in Thread : Good(u)
    BY DEF BInv, Good, BTypeOK
  <1>2. ASSUME NEW t \in Thread, Good(t)', Keeps(t)
        PROVE  \A u \in Thread : Good(u)'
    <2> SUFFICES ASSUME NEW u \in Thread \ {t} PROVE Good(u)'
      BY <1>2
    <2> QED  BY <1>1, <1>2, OthersStay DEF Keeps
  <1>3. ASSUME NEW t \in Thread, Python(t) \/ Body(t)
        PROVE  Good(t)' /\ Keeps(t) /\ py' \in [Thread -> PyType]
    BY <1>3, PythonStep, BodyStep
  <1>4. ASSUME NEW t \in Thread, Locking(t)
        PROVE  Good(t)' /\ Keeps(t) /\ py' \in [Thread -> PyType]
    <2>1. Runs(t) /\ py' = py
      BY <1>4 DEF Locking, dvars
    <2> QED  BY <1>1, <2>1, RunMove, KeepsRuns
  <1>5. CASE UNCHANGED bvars
    <2>1. py' = py /\ call' = call /\ held' = held
      BY <1>5 DEF bvars, dvars, vars
    <2> QED  BY <1>1, <2>1, OthersStay
  <1> QED  BY <1>2, <1>3, <1>4, <1>5 DEF BNext, Stopped

----------------------------------------------------------------------------
(* What the lock objects protect.                                          *)

\* A lock object of one thread for writing, and another thread's for the list
\* or for writing, do not exist at the same time.
LEMMA Excluded ==
  ASSUME SubtreeExclusion, NEW t \in Thread, NEW u \in Thread \ {t},
         NEW q \in Role, NEW r \in Role,
         held[<<t, q>>] = "write", held[<<u, r>>] # "none"
  PROVE  r \in {"with", "set"} /\ q \notin {"with", "set"} /\ held[<<u, r>>] # "write"
  <1>1. /\ <<t, q>> \in Handle /\ <<u, r>> \in Handle
        /\ Owner[<<t, q>>] = t /\ Owner[<<u, r>>] = u
        /\ Target[<<t, q>>] = IF q \in {"with", "set"} THEN Store ELSE List
        /\ Target[<<u, r>>] = IF r \in {"with", "set"} THEN Store ELSE List
    BY Handles
  <1>2. /\ ~Contains(PathOf(<<u, r>>), Target[<<t, q>>])
        /\ held[<<u, r>>] = "write" => ~Contains(PathOf(<<t, q>>), Target[<<u, r>>])
    BY <1>1 DEF SubtreeExclusion
  <1>3. \A p \in {<<t, q>>, <<u, r>>} :
          PathOf(p) = IF p[2] \in {"with", "set"} THEN <<Store>> ELSE <<Store, List>>
    BY Handles
  <1>4. /\ Contains(<<Store>>, Store) /\ Contains(<<Store, List>>, Store)
        /\ Contains(<<Store, List>>, List)
    BY DEF Contains
  <1> QED  BY <1>1, <1>2, <1>3, <1>4

\* A thread in the body of a function that changes the list has it to itself.
LEMMA WriterHolds ==
  ASSUME BInv, NEW t \in Thread, NEW fn \in Writer \union {"setattr"}, py[t].fn = fn,
         held[LockOf(t, fn)] # "none"
  PROVE  \E q \in {"set", "body"} :
           /\ LockOf(t, fn) = <<t, q>> /\ held[<<t, q>>] = "write"
           /\ q = "set" <=> fn = "setattr"
  <1>1. PICK q \in {"set", "body"} : LockOf(t, fn) = <<t, q>> /\ (q = "set" <=> fn = "setattr")
    BY DEF LockOf, Writer
  <1>2. held[<<t, q>>] = KindOf(fn)
    BY <1>1 DEF BInv, HeldInv
  <1>3. KindOf(fn) = "write"
    BY Kinds DEF Writer
  <1> QED  BY <1>1, <1>2, <1>3

\* Who changes the list.
LEMMA Changes ==
  ASSUME BInv, [BNext]_bvars, items' # items
  PROVE  \E t \in Thread :
           \/ DelAttr(t)
           \/ /\ py[t].fn \in Writer \union {"setattr"} /\ In(t, py[t].fn)
              /\ Insert(t) \/ Push(t) \/ py'[t].at # "convert"
  <1>0. BTypeOK
    BY DEF BInv
  <1>1. ASSUME NEW t \in Thread, Python(t) PROVE DelAttr(t)
    BY <1>1 DEF Python, EnterWith, ExitWith, GetAttr, DropIter, Call, dvars
  <1>2. ASSUME NEW t \in Thread, Body(t)
        PROVE  /\ py[t].fn \in Writer \union {"setattr"} /\ In(t, py[t].fn)
               /\ Insert(t) \/ Push(t) \/ py'[t].at # "convert"
    <2>1. CASE Insert(t) \/ Push(t)
      BY <2>1 DEF Insert, Push, In, Writer
    <2>2. CASE SetItem(t) \/ DelItem(t) \/ Clear(t) \/ SetList(t) \/ SetNone(t)
      <3>1. /\ py[t].fn \in Writer \union {"setattr"} /\ In(t, py[t].fn)
            /\ At(t, "leave") \/ At(t, "body")
        BY <2>2 DEF SetItem, DelItem, Clear, SetList, SetNone, In, Writer
      <3> QED  BY <1>0, <3>1, AtFields
    <2>3. CASE Convert(t)
      <3>1. py[t].at = "convert" /\ ~undefined /\ (At(t, "leave") \/ At(t, "body"))
        BY <2>3 DEF Convert
      <3>2. py'[t].at # "convert"
        BY <1>0, <3>1, AtFields
      <3> QED  BY <3>1, <3>2, ConvertHolds DEF In, Writer
    <2> QED
      BY <1>2, <2>1, <2>2, <2>3 DEF Body, Raise, Leave, Read, ConvertThrows, Extend,
         ExtendByItself, PushedAll, IterBegin, IterEnd, IterMade, DropBegin
  <1> QED  BY <1>1, <1>2 DEF BNext, Locking, Stopped, bvars, dvars

\* Removing the list while it is in use is undefined behaviour.
LEMMA RemovedInUse ==
  ASSUME BInv, NEW t \in Thread, DelAttr(t), NEW u \in Thread, NEW r \in Role,
         held[<<u, r>>] # "none", r \notin {"with", "set"}
  PROVE  undefined'
  <1>1. <<u, r>> \in Handle /\ Target[<<u, r>>] = List
    BY Handles
  <1> QED  BY <1>1 DEF DelAttr, Free, InUse

----------------------------------------------------------------------------
(* The element that is converted, and the types.                           *)

LEMMA Elements ==
  ASSUME NEW S, NEW q \in Seq(S), NEW v \in S
  PROVE  /\ \A i \in 1 .. Len(q) + 1 :
              InsertAt(q, i, v) \in Seq(S) /\ Len(InsertAt(q, i, v)) = Len(q) + 1
         /\ \A i \in DOMAIN q : RemoveAt(q, i) \in Seq(S)
         /\ Append(q, v) \in Seq(S) /\ Len(Append(q, v)) = Len(q) + 1
         /\ \A i \in DOMAIN q : [q EXCEPT ![i] = v] \in Seq(S)
  <1>1. \A i \in 1 .. Len(q) + 1 :
          /\ SubSeq(q, 1, i - 1) \in Seq(S) /\ Len(SubSeq(q, 1, i - 1)) = i - 1
          /\ SubSeq(q, i, Len(q)) \in Seq(S) /\ Len(SubSeq(q, i, Len(q))) = Len(q) + 1 - i
    OBVIOUS
  <1>2. ASSUME NEW i \in 1 .. Len(q) + 1
        PROVE  InsertAt(q, i, v) \in Seq(S) /\ Len(InsertAt(q, i, v)) = Len(q) + 1
    <2> DEFINE a == SubSeq(q, 1, i - 1)
               b == SubSeq(q, i, Len(q))
    <2>1. a \in Seq(S) /\ b \in Seq(S) /\ <<v>> \in Seq(S) /\ Len(a) = i - 1 /\ Len(<<v>>) = 1
      BY <1>1
    <2>2. /\ a \o <<v>> \in Seq(S) /\ Len(a \o <<v>>) = Len(a) + Len(<<v>>)
          /\ \A c \in Seq(S) : c \o b \in Seq(S) /\ Len(c \o b) = Len(c) + Len(b)
      BY <2>1, ConcatProperties
    <2>3. /\ (a \o <<v>>) \o b \in Seq(S)
          /\ Len((a \o <<v>>) \o b) = Len(a \o <<v>>) + Len(b)
      BY <2>2
    <2>4. InsertAt(q, i, v) = (a \o <<v>>) \o b
      BY DEF InsertAt
    <2>5. Len(b) = Len(q) + 1 - i /\ Len(q) \in Nat
      BY <1>1
    <2>6. Len(a) + Len(<<v>>) + Len(b) = Len(q) + 1
      BY <2>1, <2>5
    <2>7. Len((a \o <<v>>) \o b) = Len(q) + 1
      BY <2>2, <2>3, <2>6
    <2> HIDE DEF a, b
    <2> QED  BY <2>3, <2>4, <2>7
  <1>3. \A i \in DOMAIN q :
          SubSeq(q, 1, i - 1) \in Seq(S) /\ SubSeq(q, i + 1, Len(q)) \in Seq(S)
    OBVIOUS
  <1>4. \A i \in DOMAIN q : RemoveAt(q, i) \in Seq(S)
    BY <1>3 DEF RemoveAt
  <1>5. /\ Append(q, v) \in Seq(S) /\ Len(Append(q, v)) = Len(q) + 1
        /\ \A i \in DOMAIN q : [q EXCEPT ![i] = v] \in Seq(S)
    BY AppendProperties, ExceptSeq
  <1> QED  BY <1>2, <1>4, <1>5

LEMMA ConvertStep ==
  ASSUME BInv, SubtreeExclusion, [BNext]_bvars, NEW u \in Thread
  PROVE  ConvertInv(u)'
  <1> SUFFICES ASSUME py'[u].at = "convert", ~undefined'
               PROVE  py'[u].i \in DOMAIN items'
    BY DEF ConvertInv
  <1>1. /\ BTypeOK /\ py \in [Thread -> PyType] /\ items \in Seq(Value \union {None})
        /\ ConvertInv(u) /\ HeldInv(u) /\ Len(items) \in Nat /\ DOMAIN items = 1 .. Len(items)
    BY DEF BInv, BTypeOK
  <1>2. CASE Insert(u)
    <2>1. PICK i \in 1 .. Len(items) + 1 :
            /\ items' = InsertAt(items, i, None)
            /\ py' = [py EXCEPT ![u].at = "convert", ![u].i = i]
      BY <1>2 DEF Insert
    <2>2. i \in Nat /\ None \in Value \union {None}
      BY <1>1
    <2> DEFINE S == Value \union {None}
    <2>3. InsertAt(items, i, None) \in Seq(S) /\ Len(InsertAt(items, i, None)) = Len(items) + 1
      <3>1. items \in Seq(S) /\ None \in S
        BY <1>1, <2>2
      <3> HIDE DEF S
      <3> QED  BY <3>1, Elements
    <2>4. py'[u].i = i
      BY <1>1, <2>1, <2>2, ConvertFields
    <2> QED  BY <2>1, <2>3, <2>4
  <1>3. CASE Push(u)
    <2>1. /\ items' = Append(items, None)
          /\ py' = [py EXCEPT ![u].at = "convert", ![u].i = Len(items) + 1]
      BY <1>3 DEF Push
    <2>2. Len(items) + 1 \in Nat /\ None \in Value \union {None}
      BY <1>1
    <2>3. items' \in Seq(Value \union {None}) /\ Len(items') = Len(items) + 1
      BY <1>1, <2>1, <2>2, AppendProperties
    <2>4. py'[u].i = Len(items) + 1
      BY <1>1, <2>1, <2>2, ConvertFields
    <2> QED  BY <1>1, <2>3, <2>4
  <1>4. CASE ~Insert(u) /\ ~Push(u)
    <2>1. py'[u] = py[u]
      <3>1. ASSUME NEW t \in Thread \ {u}, Python(t) \/ Body(t) \/ Locking(t)
            PROVE  py'[u] = py[u]
        BY <1>1, <3>1, PythonStep, BodyStep DEF Keeps, Locking, dvars
      <3>2. CASE Python(u)
        <4>1. CASE \E fn \in Function : Call(u, fn)
          <5>1. PICK fn \in Function : Call(u, fn)
            BY <4>1
          <5>2. CASE py' = py
            BY <5>2
          <5>3. CASE py' = [py EXCEPT ![u] = [fn |-> fn, at |-> "lock", i |-> 0]]
            BY <1>1, <5>3
          <5> QED  BY <5>1, <5>2, <5>3 DEF Call
        <4>2. CASE DropIter(u)
          BY <1>1, <4>2 DEF DropIter
        <4> QED  BY <3>2, <4>1, <4>2 DEF Python, EnterWith, ExitWith, GetAttr, DelAttr, dvars
      <3>3. CASE Body(u)
        <4>1. CASE \E at \in {"none", "lock", "body", "begin", "end", "leave"} : At(u, at)
          BY <1>1, <4>1, AtFields
        <4>2. CASE py' = [py EXCEPT ![u] = NotRunning]
          BY <1>1, <4>2, NotRunningType
        <4> QED
          BY <1>4, <3>3, <4>1, <4>2 DEF Body, Raise, Leave, Read, Convert, ConvertThrows, Extend,
             ExtendByItself, PushedAll, SetItem, DelItem, Clear, IterBegin, IterEnd, IterMade,
             DropBegin, SetList, SetNone
      <3> QED  BY <3>1, <3>2, <3>3 DEF BNext, Locking, Stopped, bvars, dvars
    <2>2. py[u].at = "convert" /\ py'[u].i = py[u].i
      BY <2>1
    <2>3. CASE undefined
      <3>1. items' = items /\ undefined' = undefined
        <4>1. ASSUME NEW t \in Thread PROVE ~Python(t) /\ ~Locking(t) /\ (Body(t) => Raise(t))
          BY <2>3 DEF Python, Locking, Body, EnterWith, ExitWith, GetAttr, DelAttr, DropIter, Call,
             Ready, In, Leave, Read, Insert, Convert, ConvertThrows, Extend, ExtendByItself, Push,
             PushedAll, SetItem, DelItem, Clear, IterBegin, IterEnd, IterMade, DropBegin, SetList,
             SetNone
        <4> QED  BY <4>1 DEF BNext, Raise, Stopped, bvars, dvars
      <3> QED  BY <2>3, <3>1
    <2>4. CASE ~undefined /\ items' = items
      BY <1>1, <2>2, <2>4 DEF ConvertInv
    <2>5. CASE ~undefined /\ items' # items
      <3>1. /\ py[u].fn \in {"insert", "extend", "setattr"} /\ call[u] = Idle
            /\ held[LockOf(u, py[u].fn)] # "none"
        BY <2>2, ConvertHolds
      <3>2. PICK r \in {"set", "body"} :
              /\ LockOf(u, py[u].fn) = <<u, r>> /\ held[<<u, r>>] = "write"
              /\ r = "set" <=> py[u].fn = "setattr"
        BY <3>1, WriterHolds DEF Writer
      <3>3. PICK t \in Thread :
              \/ DelAttr(t)
              \/ /\ py[t].fn \in Writer \union {"setattr"} /\ In(t, py[t].fn)
                 /\ Insert(t) \/ Push(t) \/ py'[t].at # "convert"
        BY <2>5, Changes
      <3>4. CASE DelAttr(t)
        <4>1. CASE r = "body"
          <5>1. undefined'
            BY <3>2, <3>4, <4>1, RemovedInUse DEF Role
          <5> QED  BY <5>1
        <4>2. CASE r = "set"
          <5>1. In(u, "setattr")
            BY <2>5, <3>1, <3>2, <4>2 DEF In
          <5>2. t # u
            BY <1>1, <2>2, <3>1, <3>4 DEF DelAttr, Ready, Running
          <5>3. undefined'
            BY <3>4, <5>1, <5>2 DEF DelAttr, Free, Racing
          <5> QED  BY <5>3
        <4> QED  BY <4>1, <4>2
      <3>5. CASE ~DelAttr(t)
        <4>1. py[t].fn \in Writer \union {"setattr"} /\ held[LockOf(t, py[t].fn)] # "none"
          BY <3>3, <3>5 DEF In
        <4>2. PICK q \in {"set", "body"} : held[<<t, q>>] = "write"
          BY <4>1, WriterHolds
        <4>3. t = u
          BY <3>2, <4>2, Excluded DEF Role
        <4> QED  BY <1>4, <3>3, <3>5, <4>3
      <3> QED  BY <3>4, <3>5
    <2> QED  BY <2>3, <2>4, <2>5
  <1> QED  BY <1>2, <1>3, <1>4

LEMMA RefFields ==
  ASSUME BTypeOK, NEW t \in Thread,
         \/ ref' = ref \/ ref' = [ref EXCEPT ![t].kept = FALSE]
         \/ \E kept \in BOOLEAN : ref' = [ref EXCEPT ![t] = [block |-> block, kept |-> kept]]
  PROVE  ref' \in [Thread -> [block : Block \union {NoBlock}, kept : BOOLEAN]]
  <1> DEFINE R == [block : Block \union {NoBlock}, kept : BOOLEAN]
  <1>1. ref \in [Thread -> R] /\ ref[t] \in R
    BY DEF BTypeOK
  <1>2. CASE ref' = [ref EXCEPT ![t].kept = FALSE]
    <2>1. [ref[t] EXCEPT !.kept = FALSE] \in R
      BY <1>1
    <2> QED  BY <1>1, <1>2, <2>1
  <1>3. ASSUME NEW kept \in BOOLEAN, ref' = [ref EXCEPT ![t] = [block |-> block, kept |-> kept]]
        PROVE  ref' \in [Thread -> R]
    <2>1. [block |-> block, kept |-> kept] \in R
      BY DEF BTypeOK
    <2> QED  BY <1>1, <1>3, <2>1
  <1> QED  BY <1>1, <1>2, <1>3

LEMMA TypeStep ==
  ASSUME BInv, [BNext]_bvars, TypeOK', py' \in [Thread -> PyType]
  PROVE  BTypeOK'
  <1>1. /\ BTypeOK /\ undefined \in BOOLEAN /\ careless \in BOOLEAN
        /\ block \in Block \union {NoBlock} /\ items \in Seq(Value \union {None})
        /\ ref \in [Thread -> [block : Block \union {NoBlock}, kept : BOOLEAN]]
    BY DEF BInv, BTypeOK
  <1>0. <<>> \in Seq(Value \union {None})
    OBVIOUS
  <1> DEFINE Fine ==
        /\ block' \in Block \union {NoBlock} /\ items' \in Seq(Value \union {None})
        /\ ref' \in [Thread -> [block : Block \union {NoBlock}, kept : BOOLEAN]]
        /\ undefined' \in BOOLEAN /\ careless' \in BOOLEAN
  <1>2. ASSUME NEW t \in Thread, Python(t) PROVE Fine
    <2>1. ref' \in [Thread -> [block : Block \union {NoBlock}, kept : BOOLEAN]]
      <3>1. \/ ref' = ref \/ ref' = [ref EXCEPT ![t].kept = FALSE]
            \/ \E kept \in BOOLEAN : ref' = [ref EXCEPT ![t] = [block |-> block, kept |-> kept]]
        BY <1>2 DEF Python, EnterWith, ExitWith, GetAttr, DelAttr, DropIter, Call, Free, dvars
      <3> QED  BY <1>1, <3>1, RefFields
    <2>2. undefined' \in BOOLEAN /\ careless' \in BOOLEAN
      BY <1>1, <1>2 DEF Python, EnterWith, ExitWith, GetAttr, DelAttr, DropIter, Call, Free, dvars,
         InUse, Racing
    <2>3. block' \in Block \union {NoBlock} /\ items' \in Seq(Value \union {None})
      <3>1. /\ block' = block \/ block' = NoBlock
            /\ items' = items \/ items' = <<>>
        BY <1>2 DEF Python, EnterWith, ExitWith, GetAttr, DelAttr, DropIter, Call, Free, dvars
      <3> QED  BY <1>1, <1>0, <3>1
    <2> QED  BY <2>1, <2>2, <2>3
  <1>3. ASSUME NEW t \in Thread, Body(t) PROVE Fine
    <2>1. ref' \in [Thread -> [block : Block \union {NoBlock}, kept : BOOLEAN]]
      <3>1. ref' = ref \/ ref' = [ref EXCEPT ![t].kept = FALSE]
        BY <1>3 DEF Body, Raise, Leave, Read, Insert, Convert, ConvertThrows, Extend, ExtendByItself,
           Push, PushedAll, SetItem, DelItem, Clear, IterBegin, IterEnd, IterMade, DropBegin,
           SetList, SetNone, Free
      <3> QED  BY <1>1, <3>1, RefFields
    <2>2. undefined' \in BOOLEAN /\ careless' \in BOOLEAN
      BY <1>1, <1>3 DEF Body, Raise, Leave, Read, Insert, Convert, ConvertThrows, Extend,
         ExtendByItself, Push, PushedAll, SetItem, DelItem, Clear, IterBegin, IterEnd, IterMade,
         DropBegin, SetList, SetNone, Free, InUse, Racing
    <2>3. block' \in Block \union {NoBlock}
      BY <1>1, <1>3 DEF Body, Raise, Leave, Read, Insert, Convert, ConvertThrows, Extend,
         ExtendByItself, Push, PushedAll, SetItem, DelItem, Clear, IterBegin, IterEnd, IterMade,
         DropBegin, SetList, SetNone, Free
    <2>4. items' \in Seq(Value \union {None})
      <3> DEFINE S == Value \union {None}
      <3>1. items \in Seq(S) /\ None \in S /\ Value \union {None} = S
        BY <1>1
      <3>2. ASSUME py[t].at = "convert", ~undefined PROVE py[t].i \in DOMAIN items
        BY <3>2 DEF BInv, ConvertInv
      <3> HIDE DEF S
      <3>3. CASE Insert(t)
        BY <3>1, <3>3, Elements DEF Insert
      <3>4. CASE Convert(t)
        <4>1. PICK v \in S : items' = [items EXCEPT ![py[t].i] = v]
          BY <3>1, <3>4 DEF Convert
        <4>2. py[t].i \in DOMAIN items
          BY <3>2, <3>4 DEF Convert
        <4> QED  BY <3>1, <4>1, <4>2, Elements
      <3>5. CASE Push(t)
        BY <3>1, <3>5, AppendProperties DEF Push
      <3>6. CASE SetItem(t)
        <4>1. PICK i \in DOMAIN items, v \in S : items' = [items EXCEPT ![i] = v]
          BY <3>1, <3>6 DEF SetItem
        <4> QED  BY <3>1, <4>1, Elements
      <3>7. CASE DelItem(t)
        <4>1. PICK i \in DOMAIN items : items' = RemoveAt(items, i)
          BY <3>7 DEF DelItem
        <4> QED  BY <3>1, <4>1, Elements
      <3>8. CASE items' = items \/ items' = <<>>
        <4>1. <<>> \in Seq(S)
          OBVIOUS
        <4> QED  BY <3>1, <3>8, <4>1
      <3> QED
        BY <1>3, <3>3, <3>4, <3>5, <3>6, <3>7, <3>8 DEF Body, Raise, Leave, Read, ConvertThrows,
           Extend, ExtendByItself, PushedAll, Clear, IterBegin, IterEnd, IterMade, DropBegin,
           SetList, SetNone, Free
    <2> QED  BY <2>1, <2>2, <2>3, <2>4
  <1>4. ASSUME UNCHANGED dvars PROVE Fine
    <2>1. block' = block /\ items' = items /\ ref' = ref /\ undefined' = undefined
          /\ careless' = careless
      BY <1>4 DEF dvars
    <2> QED  BY <1>1, <2>1
  <1>5. Fine
    <2> HIDE DEF Fine
    <2> QED  BY <1>2, <1>3, <1>4 DEF BNext, Locking, Stopped, bvars
  <1> QED  BY <1>5 DEF BTypeOK

----------------------------------------------------------------------------

LEMMA InitBInv == BInit => BInv
  <1> SUFFICES ASSUME BInit PROVE BInv
    OBVIOUS
  <1>1. Init /\ IInv
    BY InitIInv DEF BInit
  <1>2. TypeOK
    BY <1>1 DEF IInv
  <1>3. <<>> \in Seq(Value \union {None})
    OBVIOUS
  <1>4. BTypeOK
    BY <1>2, <1>3, NotRunningType DEF BInit, BTypeOK
  <1>5. ASSUME NEW t \in Thread
        PROVE  PcInv(t) /\ HeldInv(t) /\ LockingInv(t) /\ IterInv(t) /\ ConvertInv(t)
    <2>1. /\ py[t].fn = "none" /\ py[t].at = "none" /\ call[t] = Idle
          /\ \A h \in Handle : held[h] = "none"
      BY <1>1, NotRunningType DEF BInit, Init
    <2>2. \A r \in Role : held[<<t, r>>] = "none"
      BY <2>1, Handles
    <2>3. HeldInv(t)
      BY <2>1, <2>2 DEF HeldInv, Begin, End, Role
    <2> QED  BY <2>1, <2>3 DEF PcInv, LockingInv, IterInv, ConvertInv, Idle
  <1> QED  BY <1>1, <1>4, <1>5 DEF BInv


(* Who has which lock object at which line, and what the locks look like.  *)
THEOREM BindingsInvariance == BSpec => []BInv
  <1>1. ASSUME BInv, [BNext]_bvars PROVE BInv'
    <2>1. IInv'
      BY <1>1, LockStep, NextIInv DEF BInv
    <2>2. TypeOK'
      BY <2>1 DEF IInv
    <2>3. \A u \in Thread : Good(u)' /\ py' \in [Thread -> PyType]
      BY <1>1, GoodStep
    <2>4. SubtreeExclusion
      BY <1>1, WriteExcludes DEF BInv
    <2>5. \A u \in Thread : ConvertInv(u)'
      BY <1>1, <2>4, ConvertStep
    <2>6. BTypeOK'
      BY <1>1, <2>2, GoodStep, TypeStep
    <2> QED  BY <2>1, <2>3, <2>5, <2>6 DEF BInv, Good
  <1> QED  BY InitBInv, <1>1, PTL DEF BSpec

----------------------------------------------------------------------------

(* The bodies of insert, append, extend, __setitem__, pop, __delitem__,    *)
(* clear and of the store's __setattr__ have the list to themselves: no    *)
(* other thread is in a body that uses the list or iterates over it.       *)
THEOREM BodiesCorrect == BSpec => []BodiesExclude
  <1>1. ASSUME BInv PROVE BodiesExclude
    <2> SUFFICES ASSUME NEW t \in Thread, NEW u \in Thread, t # u,
                        NEW fn \in Writer \union {"setattr"}, In(t, fn)
                 PROVE  /\ ~Iterating(u)
                        /\ \A f \in Function : ~In(u, f)
      BY DEF BodiesExclude
    <2>1. PICK q \in {"set", "body"} : held[<<t, q>>] = "write" /\ (q = "set" <=> fn = "setattr")
      BY <1>1, WriterHolds DEF In
    <2>2. SubtreeExclusion
      BY <1>1, WriteExcludes DEF BInv
    <2>3. ASSUME NEW r \in Role, held[<<u, r>>] # "none"
          PROVE  r \in {"with", "set"} /\ held[<<u, r>>] # "write"
      BY <2>1, <2>2, <2>3, Excluded DEF Role
    <2>4. ~Iterating(u)
      BY <2>3 DEF Iterating, End, Role
    <2>5. ASSUME NEW f \in Function, In(u, f) PROVE FALSE
      <3>1. held[LockOf(u, f)] # "none" /\ py[u].fn = f
        BY <2>5 DEF In
      <3>2. f = "setattr"
        BY <2>3, <3>1 DEF LockOf, Role
      <3>3. held[<<u, "set">>] = "write"
        BY <1>1, <3>1, <3>2, WriterHolds
      <3> QED  BY <2>3, <3>3 DEF Role
    <2> QED  BY <2>4, <2>5
  <1> QED  BY BindingsInvariance, <1>1, PTL

(* The lock objects of the iterators that __iter__ makes are constructed   *)
(* without an exception.                                                   *)
THEOREM IterCorrect == BSpec => []IterNeverThrows
  <1>1. BInv => IterNeverThrows
    BY DEF BInv, IterNeverThrows
  <1> QED  BY BindingsInvariance, <1>1, PTL

(* A list keeps its elements while a thread iterates over it, but for what *)
(* this thread assigns itself, and for the removal of the list from the    *)
(* store by this thread or by one without the store's write lock, which is *)
(* undefined behaviour.                                                    *)
THEOREM StableCorrect == BSpec => IterationStable
  <1>1. ASSUME BInv, [BNext]_bvars, NEW u \in Thread, Iterating(u), items' # items
        PROVE  \/ In(u, "setattr")
               \/ \E t \in Thread :
                    DelAttr(t) /\ undefined' /\ (t = u \/ held[With(t)] # "write")
    <2>1. PICK t \in Thread :
            \/ DelAttr(t)
            \/ /\ py[t].fn \in Writer \union {"setattr"} /\ In(t, py[t].fn)
               /\ Insert(t) \/ Push(t) \/ py'[t].at # "convert"
      BY <1>1, Changes
    <2>2. held[<<u, "end">>] # "none"
      BY <1>1 DEF Iterating, End
    <2>3. CASE DelAttr(t)
      <3>1. undefined'
        BY <1>1, <2>2, <2>3, RemovedInUse DEF Role
      <3>2. ASSUME t # u, held[<<t, "with">>] = "write" PROVE FALSE
        <4>1. SubtreeExclusion
          BY <1>1, WriteExcludes DEF BInv
        <4> QED  BY <2>2, <3>2, <4>1, Excluded DEF Role
      <3> QED  BY <2>3, <3>1, <3>2 DEF With
    <2>4. CASE ~DelAttr(t)
      <3>1. PICK q \in {"set", "body"} :
              held[<<t, q>>] = "write" /\ (q = "set" <=> py[t].fn = "setattr")
        BY <1>1, <2>1, <2>4, WriterHolds DEF In
      <3>2. t = u
        <4>1. SubtreeExclusion
          BY <1>1, WriteExcludes DEF BInv
        <4> QED  BY <2>2, <3>1, <4>1, Excluded DEF Role
      <3>3. q # "body"
        <4> SUFFICES ASSUME held[<<u, "body">>] = "write" PROVE FALSE
          BY <3>1, <3>2
        <4>1. /\ <<u, "body">> \in Handle /\ Owner[<<u, "body">>] = u
              /\ <<u, "end">> \in Handle /\ Owner[<<u, "end">>] = u
              /\ PathOf(<<u, "body">>) = <<Store, List>> /\ PathOf(<<u, "end">>) = <<Store, List>>
          BY Handles DEF Role
        <4>2. held[<<u, "end">>] = "read"
          <5>1. held[<<u, "end">>] # "write"
            BY <1>1 DEF BInv, HeldInv, End
          <5>2. held[<<u, "end">>] \in {"none"} \union Kind
            BY <1>1, <4>1 DEF BInv, IInv, TypeOK
          <5> QED  BY <2>2, <5>1, <5>2 DEF Kind
        <4>3. IInv /\ u # NoThread /\ Len(<<Store, List>>) = 2 /\ DOMAIN <<Store, List>> = 1 .. 2
          BY <1>1, FieldLockConstants DEF BInv
        <4>4. ASSUME NEW g \in Handle, held[g] # "none", PathOf(g) = <<Store, List>>
              PROVE  wtid[List] = IF held[g] = "write" THEN Owner[g] ELSE NoThread
          <5>1. 2 \in DOMAIN PathOf(g) /\ PathOf(g)[2] = List /\ Len(PathOf(g)) = 2
            BY <4>4
          <5> QED  BY <4>3, <4>4, <5>1, PathHeld
        <4>5. wtid[List] = u
          BY <4>1, <4>4
        <4>6. wtid[List] = NoThread
          BY <4>1, <4>2, <4>4
        <4> QED  BY <4>3, <4>5, <4>6
      <3> QED  BY <2>1, <2>4, <3>1, <3>2, <3>3
    <2> QED  BY <2>3, <2>4
  <1>2. ASSUME BInv, [BNext]_bvars
        PROVE  [\A t \in Thread :
                  Iterating(t) /\ items' # items =>
                    \/ In(t, "setattr")
                    \/ \E u \in Thread :
                         DelAttr(u) /\ undefined' /\ (u = t \/ held[With(u)] # "write")]_bvars
    BY <1>1, <1>2
  <1>3. []BInv /\ [][BNext]_bvars => IterationStable
    BY <1>2, PTL DEF IterationStable
  <1> QED  BY BindingsInvariance, <1>3, PTL DEF BSpec

----------------------------------------------------------------------------
(* What the protocol of ProtectedUse protects.                             *)

\* The reference a thread took under a lock of the store is good while it has
\* that lock, and it calls functions of the list through no other.
Kept(t) ==
    /\ ref[t].kept => held[With(t)] # "none" /\ ref[t].block \in {NoBlock, block}
    /\ py[t].fn \in Reader \union Writer => ref[t].kept

\* The lock object of the first iterator is there without that of the last
\* only while both are made or dropped.
IteratorInv(t) ==
    /\ held[Begin(t)] # "none" =>
         Iterating(t) \/ py[t].fn = "drop" \/ (py[t].fn = "iter" /\ py[t].at # "lock")
    /\ py[t].fn = "iter" /\ py[t].at = "leave" => Iterating(t)

PInv ==
    /\ BInv
    /\ \A t \in Thread : IteratorInv(t)
    /\ ~careless => ~undefined /\ \A t \in Thread : Kept(t)

LEMMA IteratorStays ==
  ASSUME NEW u \in Thread, IteratorInv(u), py'[u] = py[u],
         \A r \in Role : held'[<<u, r>>] = held[<<u, r>>]
  PROVE  IteratorInv(u)'
  BY DEF IteratorInv, Iterating, Begin, End, Role

\* The binding goes on behind its lock object, or another constructor begins.
LEMMA IteratorMoves ==
  ASSUME BInv, NEW u \in Thread, IteratorInv(u), held' = held,
         NEW at \in {"body", "convert", "begin", "end", "leave"},
         py'[u].fn = py[u].fn, py'[u].at = at,
         at = "leave" => py[u].fn # "iter" \/ Iterating(u)
  PROVE  IteratorInv(u)'
  BY DEF IteratorInv, Iterating

LEMMA IteratorStep ==
  ASSUME PInv, [BNext]_bvars, NEW u \in Thread
  PROVE  IteratorInv(u)'
  <1>1. /\ BInv /\ IInv /\ BTypeOK /\ py \in [Thread -> PyType] /\ IteratorInv(u)
        /\ PcInv(u) /\ HeldInv(u) /\ LockingInv(u)
    BY DEF PInv, BInv, BTypeOK
  <1>2. ASSUME NEW t \in Thread \ {u}, Python(t) \/ Body(t) \/ Locking(t)
        PROVE  IteratorInv(u)'
    <2>1. Keeps(t)
      <3>1. CASE Locking(t)
        BY <1>1, <3>1, KeepsRuns DEF Locking, dvars
      <3> QED  BY <1>1, <1>2, <3>1, PythonStep, BodyStep
    <2> QED  BY <1>1, <2>1, IteratorStays DEF Keeps
  <1>3. CASE Python(u)
    <2>1. Ready(u) => py[u].fn = "none" /\ py[u].at = "none"
      BY <1>1 DEF Ready, Running, PcInv
    <2>2. ASSUME NEW k \in Kind, EnterWith(u, k) PROVE IteratorInv(u)'
      <3>1. held' = held /\ py' = py
        BY <1>1, <2>2, Names, CallLockEffect DEF EnterWith, dvars
      <3> QED  BY <1>1, <3>1, IteratorStays
    <2>3. CASE ExitWith(u)
      <3>1. /\ py' = py /\ CallUnlock(u, With(u))
            /\ \A g \in Handle \ {With(u)} : held'[g] = held[g]
        BY <1>1, <2>3, Names, CallUnlockEffect DEF ExitWith
      <3>2. held'[Begin(u)] = held[Begin(u)] /\ held'[End(u)] = held[End(u)]
        BY <3>1, Names, Apart
      <3> QED  BY <1>1, <3>1, <3>2 DEF IteratorInv, Iterating
    <2>4. CASE GetAttr(u) \/ DelAttr(u)
      <3>1. held' = held /\ py' = py
        BY <2>4 DEF GetAttr, DelAttr, vars
      <3> QED  BY <1>1, <3>1, IteratorStays
    <2>5. CASE DropIter(u)
      <3>1. py' = [py EXCEPT ![u] = [fn |-> "drop", at |-> "none", i |-> 0]]
        BY <2>5 DEF DropIter
      <3>2. py'[u].fn = "drop"
        BY <1>1, <3>1
      <3> QED  BY <3>2 DEF IteratorInv
    <2>6. ASSUME NEW fn \in Function, Call(u, fn) PROVE IteratorInv(u)'
      <3>1. CASE UNCHANGED <<vars, py>>
        <4>1. held' = held /\ py' = py
          BY <3>1 DEF vars
        <4> QED  BY <1>1, <4>1, IteratorStays
      <3>2. CASE ~(UNCHANGED <<vars, py>>)
        <4>1. /\ CallLock(u, LockOf(u, fn), KindOf(fn)) /\ Ready(u)
              /\ py' = [py EXCEPT ![u] = [fn |-> fn, at |-> "lock", i |-> 0]]
              /\ fn = "iter" => ~Iterating(u)
          BY <2>6, <3>2 DEF Call
        <4>2. held' = held
          BY <1>1, <4>1, Names, Kinds, CallLockEffect
        <4>3. py'[u].fn = fn /\ py'[u].at = "lock"
          BY <1>1, <4>1
        <4>4. held[Begin(u)] # "none" => Iterating(u)
          BY <1>1, <2>1, <4>1 DEF IteratorInv
        <4> QED  BY <4>1, <4>2, <4>3, <4>4 DEF IteratorInv, Iterating
      <3> QED  BY <3>1, <3>2
    <2> QED  BY <1>3, <2>2, <2>3, <2>4, <2>5, <2>6 DEF Python
  <1>4. CASE Body(u)
    <2>1. CASE Raise(u)
      <3>1. /\ py[u].at = "lock" /\ held' = held
            /\ py' = [py EXCEPT ![u] = NotRunning]
        BY <2>1 DEF Raise, vars
      <3>2. py'[u].fn = "none"
        BY <1>1, <3>1, NotRunningType
      <3>3. held[Begin(u)] # "none" => Iterating(u)
        BY <1>1, <3>1 DEF IteratorInv, PcInv
      <3> QED  BY <3>1, <3>2, <3>3 DEF IteratorInv, Iterating
    <2>2. CASE Leave(u)
      <3>1. /\ py[u].at = "leave" /\ CallUnlock(u, LockOf(u, py[u].fn))
            /\ py' = [py EXCEPT ![u] = NotRunning]
        BY <2>2 DEF Leave
      <3>2. py'[u].fn = "none"
        BY <1>1, <3>1, NotRunningType
      <3>3. held'[Begin(u)] = held[Begin(u)] /\ held'[End(u)] = held[End(u)]
        BY <1>1, <3>1, Names, Apart, CallUnlockEffect
      <3>4. held[Begin(u)] # "none" => Iterating(u)
        BY <1>1, <3>1 DEF IteratorInv, PcInv
      <3> QED  BY <3>2, <3>3, <3>4 DEF IteratorInv, Iterating
    <2>3. CASE DropBegin(u)
      <3>1. held'[Begin(u)] = "none" /\ py' = [py EXCEPT ![u] = NotRunning]
        BY <1>1, <2>3, Names, CallUnlockEffect DEF DropBegin
      <3>2. py'[u].fn = "none"
        BY <1>1, <3>1, NotRunningType
      <3> QED  BY <3>1, <3>2 DEF IteratorInv
    <2>4. CASE ExtendByItself(u) \/ IterBegin(u) \/ IterEnd(u)
      <3>1. PICK at \in {"begin", "end", "leave"}, h \in Handle :
              /\ At(u, at) /\ CallLock(u, h, "read")
              /\ at = "leave" => py[u].fn # "iter"
        BY <2>4, Names DEF ExtendByItself, IterBegin, IterEnd, In
      <3>2. held' = held /\ "read" \in Kind
        BY <1>1, <3>1, CallLockEffect DEF Kind
      <3>3. py'[u].fn = py[u].fn /\ py'[u].at = at
        BY <1>1, <3>1, AtFields
      <3> QED  BY <1>1, <3>1, <3>2, <3>3, IteratorMoves
    <2>5. CASE Insert(u) \/ Push(u)
      <3>1. PICK i \in Nat : py' = [py EXCEPT ![u].at = "convert", ![u].i = i]
        <4>1. Len(items) \in Nat
          BY <1>1 DEF BTypeOK
        <4>2. CASE Insert(u)
          <5>1. PICK i \in 1 .. Len(items) + 1 : py' = [py EXCEPT ![u].at = "convert", ![u].i = i]
            BY <4>2 DEF Insert
          <5>2. i \in Nat
            BY <4>1
          <5> QED  BY <5>1, <5>2, Zenon
        <4>3. CASE Push(u)
          <5>1. py' = [py EXCEPT ![u].at = "convert", ![u].i = Len(items) + 1]
            BY <4>3 DEF Push
          <5>2. Len(items) + 1 \in Nat
            BY <4>1
          <5> QED  BY <5>1, <5>2, Zenon
        <4> QED  BY <2>5, <4>2, <4>3
      <3>2. held' = held
        BY <2>5 DEF Insert, Push, vars
      <3>3. py'[u].fn = py[u].fn /\ py'[u].at = "convert"
        BY <1>1, <3>1, ConvertFields
      <3> QED  BY <1>1, <3>2, <3>3, IteratorMoves
    <2>6. CASE Read(u) \/ Convert(u) \/ ConvertThrows(u) \/ Extend(u) \/ PushedAll(u) \/ SetItem(u)
               \/ DelItem(u) \/ Clear(u) \/ IterMade(u) \/ SetList(u) \/ SetNone(u)
      <3>1. PICK at \in {"body", "leave"} :
              At(u, at) /\ UNCHANGED vars /\ (at = "leave" => py[u].fn # "iter" \/ Iterating(u))
        BY <1>1, <2>6 DEF Read, Convert, ConvertThrows, Extend, PushedAll, SetItem, DelItem, Clear,
           IterMade, SetList, SetNone, In, PcInv
      <3>2. held' = held
        BY <3>1 DEF vars
      <3>3. py'[u].fn = py[u].fn /\ py'[u].at = at
        BY <1>1, <3>1, AtFields
      <3> QED  BY <1>1, <3>1, <3>2, <3>3, IteratorMoves
    <2> QED  BY <1>4, <2>1, <2>2, <2>3, <2>4, <2>5, <2>6 DEF Body
  <1>5. CASE Locking(u)
    <2>1. Runs(u) /\ py' = py
      BY <1>5 DEF Locking, dvars
    <2>2. CASE held' = held
      BY <1>1, <2>1, <2>2, IteratorStays
    <2>3. CASE held' # held
      <3>1. /\ call[u].op = "lock" /\ held'[H(u)] = call[u].kind /\ H(u) = LockedAt(u)
            /\ held'[H(u)] # "none"
            /\ \A g \in Handle \ {H(u)} : held'[g] = held[g]
        BY <1>1, <2>1, <2>3, RunsEffect DEF LockingInv, H, IInv, TypeOK, CallType, Kind
      <3>2. Iterating(u) => Iterating(u)'
        BY <3>1, Names DEF Iterating
      <3>3. CASE H(u) = Begin(u)
        <4>1. py[u].at = "begin"
          <5>1. LockOf(u, py[u].fn) # Begin(u) /\ With(u) # Begin(u) /\ End(u) # Begin(u)
                  /\ Iter(u) # Begin(u) /\ NoHandle # Begin(u)
            BY Apart, Names, FieldLockConstants
          <5> QED  BY <3>1, <3>3, <5>1 DEF LockedAt
        <4>2. py[u].fn = "iter"
          BY <1>1, <4>1 DEF PcInv
        <4> QED  BY <2>1, <4>1, <4>2 DEF IteratorInv
      <3>4. CASE H(u) # Begin(u)
        <4>1. held'[Begin(u)] = held[Begin(u)]
          BY <3>1, <3>4, Names
        <4> QED  BY <1>1, <2>1, <3>2, <4>1 DEF IteratorInv
      <3> QED  BY <3>3, <3>4
    <2> QED  BY <2>2, <2>3
  <1>6. CASE UNCHANGED bvars
    <2>1. held' = held /\ py' = py
      BY <1>6 DEF bvars, dvars, vars
    <2> QED  BY <1>1, <2>1, IteratorStays
  <1> QED  BY <1>2, <1>3, <1>4, <1>5, <1>6 DEF BNext, Stopped

\* While a thread has a lock object of the store for writing no other thread
\* has a lock object.
LEMMA Alone ==
  ASSUME BInv, NEW t \in Thread, NEW q \in {"with", "set"}, held[<<t, q>>] = "write",
         NEW u \in Thread \ {t}, NEW r \in Role
  PROVE  held[<<u, r>>] = "none"
  <1>1. SubtreeExclusion
    BY WriteExcludes DEF BInv
  <1> QED  BY <1>1, Excluded DEF Role

\* A lock object that is destroyed still has its part of the store's mutex.
LEMMA UnlockPins ==
  ASSUME BInv, NEW t \in Thread, NEW q \in {"with", "set"}, held[<<t, q>>] = "write",
         NEW u \in Thread \ {t}
  PROVE  call[u].op # "unlock"
  <1> SUFFICES ASSUME call[u].op = "unlock" PROVE FALSE
    OBVIOUS
  <1>1. IInv /\ <<t, q>> \in Handle /\ Owner[<<t, q>>] = t /\ PathOf(<<t, q>>) = <<Store>>
    BY Handles DEF BInv, Role
  <1>2. wtid[Store] = t
    <2>1. 1 \in DOMAIN PathOf(<<t, q>>) /\ PathOf(<<t, q>>)[1] = Store /\ Len(PathOf(<<t, q>>)) = 1
      BY <1>1
    <2> QED  BY <1>1, <2>1, PathHeld
  <1>3. /\ H(u) \in Handle /\ Owner[H(u)] = u /\ taken[H(u)] \in Seq(Kind)
        /\ Len(taken[H(u)]) = call[u].pos /\ call[u].pos \in DOMAIN PathOf(H(u))
    BY <1>1, CallFacts
  <1>4. 1 \in DOMAIN taken[H(u)]
    BY <1>3, PathFacts
  <1>5. PathOf(H(u))[1] = Store
    <2>1. H(u) \in Thread \X Role
      BY <1>3, BindingsConstants
    <2>2. PICK r \in Role : H(u) = <<u, r>>
      BY <1>3, <2>1, BindingsConstants
    <2> QED  BY <2>2, Handles
  <1>6. wtid[Store] \in {u, NoThread}
    BY <1>1, <1>3, <1>4, <1>5 DEF IInv, TidInv
  <1> QED  BY <1>2, <1>6, FieldLockConstants

\* Only functions of the list lock the list.
LEMMA ListCalls ==
  ASSUME BInv, NEW u \in Thread, call[u].op = "lock", Target[call[u].h] = List
  PROVE  py[u].fn \in Reader \union Writer
  <1>1. PcInv(u) /\ LockingInv(u) /\ IInv /\ py[u] \in PyType
    BY DEF BInv, BTypeOK
  <1>2. call[u].h = LockedAt(u)
    BY <1>1 DEF LockingInv
  <1>3. call[u].h \in Handle /\ call[u].h # NoHandle
    BY <1>1, CallFacts, FieldLockConstants DEF H
  <1>4. Target[With(u)] = Store /\ Target[<<u, "set">>] = Store /\ Store # List
    BY Handles, BindingsConstants DEF With, Role
  <1>5. py[u].at \in {"lock", "begin", "end", "leave"}
    BY <1>1, <1>2, <1>3, <1>4 DEF LockedAt, PyType
  <1>6. py[u].fn \in Function
    BY <1>1, <1>5 DEF PcInv, PyType
  <1>7. ASSUME py[u].fn = "setattr" PROVE FALSE
    <2>1. py[u].at = "lock"
      BY <1>1, <1>5, <1>7 DEF PcInv, LockingInv
    <2> QED  BY <1>2, <1>4, <1>7, <2>1 DEF LockedAt, LockOf
  <1> QED  BY <1>6, <1>7 DEF Function

\* Who has a lock object of the store for writing, and no iterator, can remove
\* the list: nobody uses it.
LEMMA ListFree ==
  ASSUME PInv, ~careless, NEW t \in Thread, NEW q \in {"with", "set"}, held[<<t, q>>] = "write",
         ~Iterating(t), call[t] = Idle, py[t].fn \in {"none", "setattr"}
  PROVE  ~InUse /\ ~Racing(t)
  <1>0. /\ BInv /\ IInv /\ HeldInv(t) /\ IteratorInv(t)
        /\ \A u \in Thread : Kept(u)
    BY DEF PInv, BInv
  <1>1. \A h \in Handle : \E u \in Thread, r \in Role : h = <<u, r>>
    BY BindingsConstants
  <1>2. ASSUME NEW u \in Thread, NEW r \in Role, Target[<<u, r>>] = List
        PROVE  r \in {"body", "iter", "begin", "end"}
    BY <1>2, Handles, BindingsConstants DEF Role
  <1>3. ASSUME NEW u \in Thread, NEW r \in {"body", "iter", "begin", "end"}
        PROVE  held[<<u, r>>] = "none"
    <2>1. CASE u # t
      <3>1. u \in Thread \ {t} /\ r \in Role
        BY <2>1 DEF Role
      <3> QED  BY <1>0, <3>1, Alone
    <2>2. CASE u = t /\ r \in {"body", "iter"}
      BY <1>0, <2>2 DEF HeldInv, LockOf, Function, Reader, Writer
    <2>3. CASE u = t /\ r \in {"begin", "end"}
      BY <1>0, <2>3 DEF IteratorInv, Iterating, Begin, End
    <2> QED  BY <2>1, <2>2, <2>3
  <1>4. ASSUME NEW h \in Handle, Target[h] = List, NEW u \in Thread, call[u].h = h
        PROVE  FALSE
    <2>1. NoHandle \notin Handle
      BY FieldLockConstants
    <2>2. call[u] # Idle /\ u # t
      BY <1>4, <2>1 DEF Idle
    <2>3. call[u].op \in {"lock", "unlock"}
      BY <1>0, <2>2 DEF IInv, CallInv, TypeOK, CallType
    <2>4. call[u].op = "lock"
      BY <1>0, <2>2, <2>3, UnlockPins
    <2>5. ref[u].kept
      BY <1>0, <1>4, <2>4, ListCalls DEF Kept
    <2>6. held[<<u, "with">>] # "none"
      BY <1>0, <2>5 DEF Kept, With
    <2> QED  BY <1>0, <2>2, <2>6, Alone DEF Role
  <1>5. ~InUse
    <2> SUFFICES ASSUME NEW h \in Handle, Target[h] = List, held[h] # "none" PROVE FALSE
      BY <1>4 DEF InUse
    <2>1. PICK u \in Thread, r \in Role : h = <<u, r>>
      BY <1>1
    <2> QED  BY <1>2, <1>3, <2>1
  <1>6. ASSUME NEW u \in Thread \ {t} PROVE ~In(u, "setattr")
    <2>1. held[<<u, "set">>] = "none"
      BY <1>0, Alone DEF Role
    <2> QED  BY <2>1 DEF In, LockOf
  <1> QED  BY <1>5, <1>6 DEF Racing

\* Removing the list by __setattr__ and by __delattr__.
LEMMA Removes ==
  ASSUME PInv, NEW t \in Thread, DelAttr(t) \/ SetNone(t), ~careless'
  PROVE  /\ ~undefined' /\ block' = NoBlock /\ ref' = [ref EXCEPT ![t].kept = FALSE]
         /\ \E q \in {"with", "set"} : held[<<t, q>>] = "write"
         /\ py[t].fn \in {"none", "setattr"}
  <1>0. BInv
    BY DEF PInv
  <1>1. PICK q \in {"with", "set"} : held[<<t, q>>] = "write"
    <2>1. CASE DelAttr(t)
      BY <2>1 DEF DelAttr, With
    <2>2. CASE SetNone(t)
      <3>1. py[t].fn = "setattr" /\ held[LockOf(t, "setattr")] # "none"
        BY <2>2 DEF SetNone, In
      <3> QED  BY <1>0, <3>1, WriterHolds
    <2> QED  BY <2>1, <2>2
  <1>2. /\ ~Iterating(t) /\ call[t] = Idle /\ py[t].fn \in {"none", "setattr"} /\ ~careless
        /\ Free(t)
    BY DEF DelAttr, SetNone, Ready, Running, In
  <1>3. ~InUse /\ ~Racing(t)
    BY <1>1, <1>2, ListFree
  <1> QED  BY <1>1, <1>2, <1>3 DEF Free

\* Nobody uses freed memory while all follow the protocol.
LEMMA DefinedStep ==
  ASSUME PInv, [BNext]_bvars, ~careless'
  PROVE  ~careless /\ ~undefined'
  <1>1. ~careless
    <2>1. ASSUME NEW t \in Thread, Python(t) PROVE careless => careless'
      BY <2>1 DEF Python, EnterWith, ExitWith, GetAttr, DelAttr, DropIter, Call, dvars
    <2>2. ASSUME NEW t \in Thread, Body(t) PROVE careless => careless'
      BY <2>2 DEF Body, Raise, Leave, Read, Insert, Convert, ConvertThrows, Extend,
         ExtendByItself, Push, PushedAll, SetItem, DelItem, Clear, IterBegin, IterEnd, IterMade,
         DropBegin, SetList, SetNone
    <2> QED  BY <2>1, <2>2 DEF BNext, Locking, Stopped, bvars, dvars
  <1>2. BInv /\ BTypeOK /\ ~undefined /\ \A t \in Thread : Kept(t)
    BY <1>1 DEF PInv, BInv
  <1>3. ASSUME NEW t \in Thread, Python(t) PROVE ~undefined'
    <2>1. CASE GetAttr(t)
      <3>1. held[<<t, "with">>] # "none"
        BY <2>1 DEF GetAttr, With
      <3>2. ASSUME NEW u \in Thread \ {t}, In(u, "setattr") PROVE FALSE
        <4>1. PICK q \in {"set", "body"} :
                held[<<u, q>>] = "write" /\ LockOf(u, "setattr") = <<u, q>>
          BY <1>2, <3>2, WriterHolds DEF In
        <4>2. q = "set"
          BY <4>1 DEF LockOf
        <4>3. held[<<u, "set">>] = "write" /\ t \in Thread \ {u} /\ "with" \in Role
          BY <4>1, <4>2 DEF Role
        <4> QED  BY <1>2, <3>1, <4>3, Alone
      <3> QED  BY <2>1, <3>2 DEF GetAttr, Racing
    <2>2. CASE DelAttr(t)
      BY <2>2, Removes
    <2>3. ASSUME NEW fn \in Function, Call(t, fn) PROVE ~undefined'
      <3>1. fn # "setattr" => ref[t].kept /\ ref[t].block # NoBlock
        BY <2>3 DEF Call
      <3>2. fn # "setattr" => ref[t].block = block
        BY <1>2, <3>1 DEF Kept
      <3> QED  BY <1>2, <2>3, <3>2 DEF Call
    <2> QED
      BY <1>2, <1>3, <2>1, <2>2, <2>3 DEF Python, EnterWith, ExitWith, DropIter, dvars
  <1>4. ASSUME NEW t \in Thread, Body(t) PROVE ~undefined'
    <2>1. CASE SetNone(t)
      BY <2>1, Removes
    <2> QED
      BY <1>2, <1>4, <2>1 DEF Body, Raise, Leave, Read, Insert, Convert, ConvertThrows, Extend,
         ExtendByItself, Push, PushedAll, SetItem, DelItem, Clear, IterBegin, IterEnd, IterMade,
         DropBegin, SetList
  <1> QED  BY <1>1, <1>2, <1>3, <1>4 DEF BNext, Locking, Stopped, bvars, dvars

\* A thread's reference is about the list and its own state only.
LEMMA KeptStays ==
  ASSUME NEW u \in Thread, Kept(u), py'[u].fn = py[u].fn \/ py'[u].fn \notin Reader \union Writer,
         held[With(u)] # "none" => held'[With(u)] # "none",
         ref'[u] = ref[u], block' = block \/ ref[u].block \in {NoBlock, block'} \/ ~ref[u].kept
  PROVE  Kept(u)'
  BY DEF Kept

\* What a step of thread t does to the list's block and to the references.
LEMMA RefEffect ==
  ASSUME BTypeOK, NEW t \in Thread, Python(t) \/ Body(t) \/ Locking(t)
  PROVE  /\ \A u \in Thread \ {t} : ref'[u] = ref[u]
         /\ block' = block \/ SetList(t) \/ SetNone(t) \/ DelAttr(t)
         /\ ref' = ref \/ GetAttr(t) \/ ExitWith(t) \/ SetNone(t) \/ DelAttr(t)
  <1>1. ref \in [Thread -> [block : Block \union {NoBlock}, kept : BOOLEAN]]
    BY DEF BTypeOK
  <1>2. CASE Python(t)
    <2>1. \A u \in Thread \ {t} : ref'[u] = ref[u]
      BY <1>1, <1>2 DEF Python, EnterWith, ExitWith, GetAttr, DelAttr, DropIter, Call, Free, dvars
    <2> QED  BY <1>2, <2>1 DEF Python, EnterWith, ExitWith, GetAttr, DropIter, Call, dvars
  <1>3. CASE Body(t)
    <2>1. ref' = ref \/ SetNone(t)
      BY <1>3 DEF Body, Raise, Leave, Read, Insert, Convert, ConvertThrows, Extend,
         ExtendByItself, Push, PushedAll, SetItem, DelItem, Clear, IterBegin, IterEnd, IterMade,
         DropBegin, SetList
    <2>2. SetNone(t) => \A u \in Thread \ {t} : ref'[u] = ref[u]
      BY <1>1 DEF SetNone, Free
    <2>3. block' = block \/ SetList(t) \/ SetNone(t)
      BY <1>3 DEF Body, Raise, Leave, Read, Insert, Convert, ConvertThrows, Extend,
         ExtendByItself, Push, PushedAll, SetItem, DelItem, Clear, IterBegin, IterEnd, IterMade,
         DropBegin
    <2> QED  BY <2>1, <2>2, <2>3
  <1>4. CASE Locking(t)
    BY <1>4 DEF Locking, dvars
  <1> QED  BY <1>2, <1>3, <1>4

\* The lock object that Python got ends with the with block.
LEMMA WithStays ==
  ASSUME BInv, NEW u \in Thread, Python(u) \/ Body(u) \/ Locking(u), ~ExitWith(u),
         held[With(u)] # "none"
  PROVE  held'[With(u)] # "none"
  <1>1. IInv /\ held \in [Handle -> {"none"} \union Kind]
    BY DEF BInv, IInv, TypeOK
  <1>2. ASSUME NEW h \in Handle, h # With(u), CallUnlock(u, h)
        PROVE  held'[With(u)] # "none"
    BY <1>1, <1>2, Names, CallUnlockEffect
  <1>3. ASSUME NEW h \in Handle, NEW k \in Kind, CallLock(u, h, k)
        PROVE  held'[With(u)] # "none"
    BY <1>1, <1>3, CallLockEffect
  <1>4. CASE Python(u)
    <2>1. CASE \E k \in Kind : EnterWith(u, k)
      BY <1>3, <2>1, Names DEF EnterWith
    <2>2. CASE \E fn \in Function : Call(u, fn)
      BY <1>3, <2>2, Names, Kinds DEF Call, vars
    <2>3. CASE DropIter(u)
      BY <1>2, <2>3, Names, Apart DEF DropIter
    <2>4. CASE GetAttr(u) \/ DelAttr(u)
      BY <2>4 DEF GetAttr, DelAttr, vars
    <2> QED  BY <1>4, <2>1, <2>2, <2>3, <2>4 DEF Python
  <1>5. CASE Body(u)
    <2>1. CASE ExtendByItself(u) \/ IterBegin(u) \/ IterEnd(u)
      BY <1>3, <2>1, Names DEF ExtendByItself, IterBegin, IterEnd, Kind
    <2>2. CASE Leave(u) \/ DropBegin(u)
      BY <1>2, <2>2, Names, Apart DEF Leave, DropBegin
    <2>3. CASE UNCHANGED vars
      BY <2>3 DEF vars
    <2> QED
      BY <1>5, <2>1, <2>2, <2>3 DEF Body, Raise, Read, Insert, Convert, ConvertThrows, Extend, Push,
         PushedAll, SetItem, DelItem, Clear, IterMade, SetList, SetNone
  <1>6. CASE Locking(u)
    <2>1. Runs(u) /\ held[H(u)] = "none"
      BY <1>1, <1>6, RunsEffect, CallFacts DEF Locking
    <2> QED  BY <1>1, <2>1, Names, RunsEffect
  <1> QED  BY <1>4, <1>5, <1>6

\* Which function a thread runs changes when it calls one or returns.
LEMMA FunctionStays ==
  ASSUME BInv, NEW u \in Thread, Python(u) \/ Body(u) \/ Locking(u),
         \A fn \in Reader \union Writer : ~Call(u, fn)
  PROVE  py'[u].fn = py[u].fn \/ py'[u].fn \notin Reader \union Writer
  <1>1. BTypeOK /\ py \in [Thread -> PyType]
    BY DEF BInv, BTypeOK
  <1>2. ASSUME NEW p \in PyType, py' = [py EXCEPT ![u] = p] PROVE py'[u].fn = p.fn
    BY <1>1, <1>2
  <1>3. CASE Python(u)
    <2>1. CASE \E fn \in Function : Call(u, fn)
      <3>1. Call(u, "setattr")
        BY <2>1 DEF Function
      <3>2. [fn |-> "setattr", at |-> "lock", i |-> 0] \in PyType
        BY DEF PyType, Function
      <3>3. py'[u].fn = "setattr" \/ py' = py
        BY <1>2, <3>1, <3>2 DEF Call
      <3> QED  BY <3>3 DEF Reader, Writer
    <2>2. CASE DropIter(u)
      <3>1. [fn |-> "drop", at |-> "none", i |-> 0] \in PyType
        BY DEF PyType
      <3>2. py'[u].fn = "drop"
        BY <1>2, <2>2, <3>1 DEF DropIter
      <3> QED  BY <3>2 DEF Reader, Writer
    <2> QED  BY <1>3, <2>1, <2>2 DEF Python, EnterWith, ExitWith, GetAttr, DelAttr, dvars
  <1>4. CASE Body(u)
    <2>1. CASE Raise(u) \/ Leave(u) \/ DropBegin(u)
      <3>1. py'[u].fn = "none"
        BY <1>2, <2>1, NotRunningType DEF Raise, Leave, DropBegin
      <3> QED  BY <3>1 DEF Reader, Writer
    <2>2. CASE Insert(u) \/ Push(u)
      <3>1. \E i : py' = [py EXCEPT ![u].at = "convert", ![u].i = i]
        BY <2>2 DEF Insert, Push
      <3>2. PICK i : py' = [py EXCEPT ![u].at = "convert", ![u].i = i]
        BY <3>1
      <3>3. py'[u] = [[py[u] EXCEPT !.at = "convert"] EXCEPT !.i = i]
        BY <1>1, <3>2
      <3> QED  BY <1>1, <3>3 DEF PyType
    <2>3. CASE \E at \in {"none", "lock", "body", "convert", "begin", "end", "leave"} : At(u, at)
      BY <1>1, <2>3, AtFields
    <2> QED
      BY <1>4, <2>1, <2>2, <2>3 DEF Body, Read, Convert, ConvertThrows, Extend, ExtendByItself,
         PushedAll, SetItem, DelItem, Clear, IterBegin, IterEnd, IterMade, SetList, SetNone
  <1>5. CASE Locking(u)
    BY <1>5 DEF Locking, dvars
  <1> QED  BY <1>3, <1>4, <1>5

LEMMA KeptStep ==
  ASSUME PInv, [BNext]_bvars, ~careless', NEW u \in Thread
  PROVE  Kept(u)'
  <1>1. /\ BInv /\ IInv /\ BTypeOK /\ Kept(u) /\ ~careless /\ py \in [Thread -> PyType]
        /\ ref \in [Thread -> [block : Block \union {NoBlock}, kept : BOOLEAN]]
        /\ PcInv(u)
    BY DefinedStep DEF PInv, BInv, BTypeOK
  <1>2. ASSUME NEW t \in Thread, SetList(t)
        PROVE  block' = block \/ ref[u].block \in {NoBlock, block'} \/ ~ref[u].kept
    BY <1>1, <1>2 DEF SetList, Kept
  <1>3. ASSUME NEW t \in Thread \ {u}, Python(t) \/ Body(t) \/ Locking(t)
        PROVE  Kept(u)'
    <2>1. Keeps(t)
      <3>1. CASE Locking(t)
        BY <1>1, <3>1, KeepsRuns DEF Locking, dvars
      <3> QED  BY <1>1, <1>3, <3>1, PythonStep, BodyStep
    <2>2. py'[u] = py[u] /\ held'[With(u)] = held[With(u)] /\ ref'[u] = ref[u]
      <3>1. \A x \in Thread \ {t} : ref'[x] = ref[x]
        BY <1>1, <1>3, RefEffect
      <3> QED  BY <2>1, <3>1 DEF Keeps, With, Role
    <2>3. CASE SetNone(t) \/ DelAttr(t)
      <3>1. PICK q \in {"with", "set"} : held[<<t, q>>] = "write"
        BY <2>3, Removes
      <3>2. held[With(u)] = "none"
        BY <1>1, <3>1, Alone DEF With, Role
      <3>3. ~ref[u].kept
        BY <1>1, <3>2 DEF Kept
      <3> QED  BY <1>1, <2>2, <3>3, KeptStays
    <2>4. CASE ~SetNone(t) /\ ~DelAttr(t)
      <3>1. block' = block \/ SetList(t)
        BY <1>1, <1>3, <2>4, RefEffect
      <3> QED  BY <1>1, <1>2, <2>2, <3>1, KeptStays
    <2> QED  BY <2>3, <2>4
  <1>4. ASSUME Python(u) \/ Body(u) \/ Locking(u)
        PROVE  Kept(u)'
    <2>1. CASE GetAttr(u)
      <3>1. /\ ref' = [ref EXCEPT ![u] = [block |-> block, kept |-> held[With(u)] # "none"]]
            /\ UNCHANGED <<vars, block, py>> /\ Ready(u)
        BY <2>1 DEF GetAttr
      <3>2. ref'[u].block = block /\ (ref'[u].kept <=> held[With(u)] # "none")
        BY <1>1, <3>1
      <3>3. held' = held /\ py' = py /\ block' = block /\ py[u].fn = "none"
        BY <3>1 DEF vars, Ready, Running
      <3> QED  BY <3>2, <3>3 DEF Kept, Reader, Writer
    <2>2. CASE ExitWith(u) \/ DelAttr(u) \/ SetNone(u)
      <3>1. ref' = [ref EXCEPT ![u].kept = FALSE] /\ py[u].fn \in {"none", "setattr"}
        BY <2>2, Removes DEF ExitWith, Ready, Running
      <3>2. ~ref'[u].kept
        BY <1>1, <3>1
      <3>3. py'[u].fn = py[u].fn
        <4>1. CASE SetNone(u)
          BY <1>1, <4>1, AtFields DEF SetNone
        <4> QED  BY <2>2, <4>1 DEF ExitWith, DelAttr
      <3> QED  BY <3>1, <3>2, <3>3 DEF Kept, Reader, Writer
    <2>3. CASE ~(GetAttr(u) \/ ExitWith(u) \/ DelAttr(u) \/ SetNone(u))
      <3>1. ref' = ref /\ (block' = block \/ SetList(u))
        BY <1>1, <1>4, <2>3, RefEffect
      <3>2. held[With(u)] # "none" => held'[With(u)] # "none"
        BY <1>1, <1>4, <2>3, WithStays
      <3>3. block' = block \/ ref[u].block \in {NoBlock, block'} \/ ~ref[u].kept
        BY <1>2, <3>1
      <3>4. CASE \A fn \in Reader \union Writer : ~Call(u, fn)
        <4>1. py'[u].fn = py[u].fn \/ py'[u].fn \notin Reader \union Writer
          BY <1>1, <1>4, <3>4, FunctionStays
        <4> QED  BY <1>1, <3>1, <3>2, <3>3, <4>1, KeptStays
      <3>5. ASSUME NEW fn \in Reader \union Writer, Call(u, fn)
            PROVE  Kept(u)'
        <4>1. ref[u].kept /\ block' = block
          BY <3>5 DEF Call, Reader, Writer
        <4> QED  BY <1>1, <3>1, <3>2, <4>1 DEF Kept
      <3> QED  BY <3>4, <3>5
    <2> QED  BY <2>1, <2>2, <2>3
  <1>5. CASE UNCHANGED bvars
    <2>1. py' = py /\ held' = held /\ ref' = ref /\ block' = block
      BY <1>5 DEF bvars, dvars, vars
    <2> QED  BY <1>1, <2>1, KeptStays
  <1> QED  BY <1>3, <1>4, <1>5 DEF BNext, Stopped

LEMMA InitPInv == BInit => PInv
  <1> SUFFICES ASSUME BInit PROVE PInv
    OBVIOUS
  <1>1. BInv
    BY InitBInv
  <1>2. ASSUME NEW t \in Thread PROVE IteratorInv(t) /\ Kept(t)
    <2>1. py[t].fn = "none" /\ held[Begin(t)] = "none" /\ ~ref[t].kept
      BY Names, NotRunningType DEF BInit, Init
    <2> QED  BY <2>1 DEF IteratorInv, Kept, Reader, Writer
  <1> QED  BY <1>1, <1>2 DEF PInv, BInit

(* Python code that looks attributes up and uses references under a lock   *)
(* of the store, removes attributes under a write lock, and frees no list  *)
(* it iterates over, never uses freed memory, for any number of processes, *)
(* though look-ups and clear() lock nothing (structstore_py.cpp).          *)
THEOREM ProtectedCorrect == BSpec => []ProtectedUse
  <1>1. PInv /\ BInv' /\ [BNext]_bvars => PInv'
    <2> SUFFICES ASSUME PInv, BInv', [BNext]_bvars PROVE PInv'
      OBVIOUS
    <2>1. \A u \in Thread : IteratorInv(u)'
      BY IteratorStep
    <2>2. ~careless' => ~undefined' /\ \A u \in Thread : Kept(u)'
      BY DefinedStep, KeptStep
    <2> QED  BY <2>1, <2>2 DEF PInv
  <1>2. PInv => ProtectedUse
    BY DEF PInv, ProtectedUse
  <1> QED  BY InitPInv, BindingsInvariance, <1>1, <1>2, PTL DEF BSpec
=============================================================================
