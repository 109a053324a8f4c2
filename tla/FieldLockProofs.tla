--------------------------- MODULE FieldLockProofs ---------------------------
(***************************************************************************)
(* Proofs about FieldLock for every forest of fields and any number of     *)
(* threads and lock objects: exceptions that leave locks behind included,  *)
(* a write lock excludes the subtree, and every unlock releases what the   *)
(* same object has locked.                                                 *)
(***************************************************************************)
EXTENDS FieldLock, FiniteSetTheorems, SequenceTheorems, TLAPS

\* the handle of the call a thread is in
H(t) == call[t].h

\* The path of a handle is a sequence of different fields that ends in its target.
LEMMA PathFacts ==
  ASSUME NEW h \in Handle
  PROVE  /\ PathOf(h) \in Seq(Field)
         /\ Len(PathOf(h)) \in Nat \ {0}
         /\ DOMAIN PathOf(h) = 1 .. Len(PathOf(h))
         /\ PathOf(h)[Len(PathOf(h))] = Target[h]
         /\ \A i, j \in DOMAIN PathOf(h) : PathOf(h)[i] = PathOf(h)[j] => i = j
  <1>1. Target[h] \in Field
    BY FieldLockConstants
  <1>2. /\ PathOf(h) \in Seq(Field) /\ PathOf(h) # <<>>
        /\ PathOf(h)[Len(PathOf(h))] = Target[h]
        /\ \A i \in DOMAIN PathOf(h) : Path[PathOf(h)[i]] = SubSeq(PathOf(h), 1, i)
    BY <1>1, ParentsAreForest DEF PathOf
  <1>3. \A i \in DOMAIN PathOf(h) : Len(SubSeq(PathOf(h), 1, i)) = i
    BY <1>2
  <1>4. \A i, j \in DOMAIN PathOf(h) : PathOf(h)[i] = PathOf(h)[j] => i = j
    <2> SUFFICES ASSUME NEW i \in DOMAIN PathOf(h), NEW j \in DOMAIN PathOf(h),
                        PathOf(h)[i] = PathOf(h)[j]
                 PROVE  i = j
      OBVIOUS
    <2>1. SubSeq(PathOf(h), 1, i) = SubSeq(PathOf(h), 1, j)
      BY <1>2
    <2> QED
      BY <1>3, <2>1
  <1>5. Len(PathOf(h)) \in Nat \ {0} /\ DOMAIN PathOf(h) = 1 .. Len(PathOf(h))
    BY <1>2
  <1> QED
    BY <1>2, <1>4, <1>5

\* What a thread inside of a call has locked so far.
LEMMA CallFacts ==
  ASSUME IInv, NEW t \in Thread, call[t].op # "none"
  PROVE  /\ call[t] # Idle
         /\ H(t) \in Handle /\ Owner[H(t)] = t /\ held[H(t)] = "none"
         /\ call[t].pos \in DOMAIN PathOf(H(t)) /\ Here(t) \in Field
         /\ taken[H(t)] \in Seq(Kind)
         /\ call[t].op = "lock" => Len(taken[H(t)]) = call[t].pos - 1
         /\ call[t].op = "unlock" =>
              /\ Len(taken[H(t)]) = call[t].pos
              /\ AtTarget(t) => Last(taken[H(t)]) = call[t].kind
  <1>1. call[t] # Idle
    BY DEF Idle
  <1>2. H(t) \in Handle /\ Owner[H(t)] = t /\ call[t].pos \in 1 .. Len(PathOf(H(t)))
    BY <1>1 DEF IInv, CallInv, H
  <1>3. call[t].pos \in DOMAIN PathOf(H(t)) /\ Here(t) \in Field
    BY <1>2, PathFacts DEF Here, H
  <1>4. held[H(t)] = "none"
    BY <1>1, <1>2 DEF IInv, TakenInv, H, Kind
  <1>5. taken[H(t)] \in Seq(Kind)
    BY <1>2 DEF IInv, TypeOK
  <1> QED
    BY <1>1, <1>2, <1>3, <1>4, <1>5 DEF IInv, CallInv, H

\* The number of handles a mutex is locked for is finite.
LEMMA TakenFinite ==
  ASSUME NEW f
  PROVE  /\ TakenOn(f) \subseteq Handle /\ IsFiniteSet(TakenOn(f))
         /\ Cardinality(TakenOn(f)) \in Nat
         /\ Cardinality(TakenOn(f)) = 0 <=> TakenOn(f) = {}
  <1>1. TakenOn(f) \subseteq Handle
    BY DEF TakenOn
  <1> QED
    BY <1>1, FieldLockConstants, FS_Subset, FS_CardinalityType, FS_EmptySet

\* Locking the mutex at hand adds the handle to those the mutex is locked for.
LEMMA LockedTaken ==
  ASSUME IInv, NEW t \in Thread, call[t].op = "lock", NEW k \in Kind,
         taken' = [taken EXCEPT ![H(t)] = Append(@, k)]
  PROVE  /\ H(t) \notin TakenOn(Here(t))
         /\ \A f \in Field : TakenOn(f)' =
              IF f = Here(t) THEN TakenOn(f) \union {H(t)} ELSE TakenOn(f)
         /\ taken' \in [Handle -> Seq(Kind)]
         /\ \A h \in Handle \ {H(t)} : taken'[h] = taken[h]
         /\ Len(taken'[H(t)]) = call[t].pos
         /\ taken'[H(t)][call[t].pos] = k
         /\ \A i \in DOMAIN taken[H(t)] : i < call[t].pos /\ taken'[H(t)][i] = taken[H(t)][i]
         /\ DOMAIN taken'[H(t)] = DOMAIN taken[H(t)] \union {call[t].pos}
  <1> USE CallFacts
  <1>1. /\ H(t) \in Handle /\ taken[H(t)] \in Seq(Kind) /\ taken \in [Handle -> Seq(Kind)]
        /\ Len(taken[H(t)]) = call[t].pos - 1
        /\ call[t].pos \in DOMAIN PathOf(H(t)) /\ call[t].pos \in Nat
    BY PathFacts DEF IInv, TypeOK
  <1>2. taken' \in [Handle -> Seq(Kind)] /\ taken'[H(t)] = Append(taken[H(t)], k)
    BY <1>1
  <1>3. \A h \in Handle \ {H(t)} : taken'[h] = taken[h]
    BY <1>1
  <1>4. /\ Len(taken'[H(t)]) = call[t].pos /\ taken'[H(t)][call[t].pos] = k
        /\ \A i \in DOMAIN taken[H(t)] : i < call[t].pos /\ taken'[H(t)][i] = taken[H(t)][i]
        /\ DOMAIN taken'[H(t)] = DOMAIN taken[H(t)] \union {call[t].pos}
        /\ DOMAIN taken[H(t)] = 1 .. (call[t].pos - 1)
    BY <1>1, <1>2
  <1>5. H(t) \notin TakenOn(Here(t))
    BY <1>1, <1>4, PathFacts DEF TakenOn, Here, H
  <1>6. ASSUME NEW f \in Field
        PROVE  TakenOn(f)' = IF f = Here(t) THEN TakenOn(f) \union {H(t)} ELSE TakenOn(f)
    <2>1. \A h \in Handle \ {H(t)} : h \in TakenOn(f)' <=> h \in TakenOn(f)
      BY <1>3 DEF TakenOn, PathOf
    <2>2. H(t) \in TakenOn(f)' <=> H(t) \in TakenOn(f) \/ f = Here(t)
      BY <1>1, <1>4 DEF TakenOn, PathOf, Here, H
    <2> QED
      BY <1>1, <2>1, <2>2, TakenFinite DEF TakenOn
  <1> QED
    BY <1>2, <1>3, <1>4, <1>5, <1>6

\* A prefix of a sequence.
LEMMA PrefixFacts ==
  ASSUME NEW S, NEW s \in Seq(S), NEW n \in 0 .. Len(s)
  PROVE  /\ SubSeq(s, 1, n) \in Seq(S) /\ Len(SubSeq(s, 1, n)) = n
         /\ \A i \in 1 .. n : SubSeq(s, 1, n)[i] = s[i]
  OBVIOUS

\* Unlocking the mutex at hand, or forgetting the path after an exception,
\* takes the handle away from those a mutex is locked for.
LEMMA UnlockedTaken ==
  ASSUME IInv, NEW t \in Thread, call[t].op = "unlock",
         taken' = [taken EXCEPT ![H(t)] = Front(@)]
  PROVE  /\ H(t) \in TakenOn(Here(t))
         /\ \A f \in Field : TakenOn(f)' =
              IF f = Here(t) THEN TakenOn(f) \ {H(t)} ELSE TakenOn(f)
         /\ taken' \in [Handle -> Seq(Kind)]
         /\ \A h \in Handle \ {H(t)} : taken'[h] = taken[h]
         /\ Len(taken'[H(t)]) = call[t].pos - 1
         /\ \A i \in DOMAIN taken'[H(t)] :
              i \in DOMAIN taken[H(t)] /\ i < call[t].pos /\ taken'[H(t)][i] = taken[H(t)][i]
  <1> USE CallFacts
  <1>1. /\ H(t) \in Handle /\ taken[H(t)] \in Seq(Kind) /\ taken \in [Handle -> Seq(Kind)]
        /\ Len(taken[H(t)]) = call[t].pos
        /\ call[t].pos \in DOMAIN PathOf(H(t)) /\ call[t].pos \in Nat \ {0}
    BY PathFacts DEF IInv, TypeOK
  <1>2. taken'[H(t)] = SubSeq(taken[H(t)], 1, call[t].pos - 1)
    BY <1>1 DEF Front
  <1>3. /\ taken'[H(t)] \in Seq(Kind) /\ Len(taken'[H(t)]) = call[t].pos - 1
        /\ \A i \in DOMAIN taken'[H(t)] :
              i \in DOMAIN taken[H(t)] /\ i < call[t].pos /\ taken'[H(t)][i] = taken[H(t)][i]
        /\ DOMAIN taken[H(t)] = DOMAIN taken'[H(t)] \union {call[t].pos}
    <2> DEFINE p == call[t].pos
    <2>1. DOMAIN taken[H(t)] = 1 .. p /\ p - 1 \in 0 .. Len(taken[H(t)])
      BY <1>1
    <2>2. /\ taken'[H(t)] \in Seq(Kind) /\ Len(taken'[H(t)]) = p - 1
          /\ \A i \in 1 .. p - 1 : taken'[H(t)][i] = taken[H(t)][i]
      <3> HIDE DEF p
      <3>1. taken[H(t)] \in Seq(Kind) /\ taken'[H(t)] = SubSeq(taken[H(t)], 1, p - 1)
        BY <1>1, <1>2 DEF p
      <3> QED
        BY <2>1, <3>1, PrefixFacts
    <2>3. DOMAIN taken'[H(t)] = 1 .. p - 1
      BY <2>2
    <2> QED
      BY <1>1, <2>1, <2>2, <2>3
  <1>4. taken' \in [Handle -> Seq(Kind)] /\ \A h \in Handle \ {H(t)} : taken'[h] = taken[h]
    BY <1>1, <1>3
  <1>5. H(t) \in TakenOn(Here(t))
    BY <1>1, <1>3 DEF TakenOn, Here, H
  <1>6. ASSUME NEW f \in Field
        PROVE  TakenOn(f)' = IF f = Here(t) THEN TakenOn(f) \ {H(t)} ELSE TakenOn(f)
    <2>1. \A h \in Handle \ {H(t)} : h \in TakenOn(f)' <=> h \in TakenOn(f)
      BY <1>4 DEF TakenOn, PathOf
    <2>2. H(t) \in TakenOn(f)' <=> H(t) \in TakenOn(f) /\ f # Here(t)
      <3>1. /\ DOMAIN taken[H(t)] \subseteq DOMAIN PathOf(H(t))
            /\ \A i, j \in DOMAIN PathOf(H(t)) : PathOf(H(t))[i] = PathOf(H(t))[j] => i = j
        BY <1>1, PathFacts
      <3>2. H(t) \in TakenOn(f)' <=> \E i \in DOMAIN taken'[H(t)] : PathOf(H(t))[i] = f
        BY <1>1 DEF TakenOn, PathOf
      <3>3. H(t) \in TakenOn(f) <=> \E i \in DOMAIN taken[H(t)] : PathOf(H(t))[i] = f
        BY <1>1 DEF TakenOn
      <3>4. Here(t) = PathOf(H(t))[call[t].pos]
        BY DEF Here, H
      <3> QED
        BY <1>1, <1>3, <3>1, <3>2, <3>3, <3>4
    <2> QED
      BY <1>1, <2>1, <2>2, TakenFinite DEF TakenOn
  <1> QED
    BY <1>3, <1>4, <1>5, <1>6

\* The accounting of one mutex: one handle more or less, one level more or less.
LEMMA CountStep ==
  ASSUME NEW f \in Field, NEW h \in Handle
  PROVE  /\ TakenOn(f)' = TakenOn(f) \union {h} /\ h \notin TakenOn(f)
              => Cardinality(TakenOn(f)') = Cardinality(TakenOn(f)) + 1
         /\ TakenOn(f)' = TakenOn(f) \ {h} /\ h \in TakenOn(f)
              => Cardinality(TakenOn(f)') = Cardinality(TakenOn(f)) - 1
  BY TakenFinite, FS_AddElement, FS_RemoveElement

\* No two threads work on one handle.
LEMMA OthersApart ==
  ASSUME IInv, NEW t \in Thread, NEW u \in Thread \ {t},
         call[t] # Idle, call[u] # Idle
  PROVE  H(u) \in Handle /\ H(u) # H(t)
  BY DEF IInv, CallInv, H

\* Going on after a mutex was locked: into the next one, or back to the caller.
LEMMA LockedCalls ==
  ASSUME IInv, NEW t \in Thread, call[t].op = "lock", NEW k \in Kind, Locked(t, k),
         AtTarget(t) => k = call[t].kind
  PROVE  /\ call' \in [Thread -> CallType] /\ held' \in [Handle -> {"none"} \union Kind]
         /\ TakenInv' /\ CallInv'
  <1> DEFINE h == H(t)
             p == call[t].pos
  <1>0. /\ taken' = [taken EXCEPT ![h] = Append(@, k)]
        /\ AtTarget(t) => held' = [held EXCEPT ![h] = k] /\ call' = [call EXCEPT ![t] = Idle]
        /\ ~AtTarget(t) => held' = held /\ call' = [call EXCEPT ![t].pos = p + 1]
    BY DEF Locked, H
  <1>1. /\ call[t] # Idle /\ h \in Handle /\ Owner[h] = t /\ held[h] = "none"
        /\ p \in 1 .. Len(PathOf(h)) /\ Len(PathOf(h)) \in Nat
        /\ call[t] \in CallType /\ call \in [Thread -> CallType]
        /\ held \in [Handle -> {"none"} \union Kind]
    BY CallFacts, PathFacts DEF IInv, TypeOK
  <1>2. /\ \A g \in Handle \ {h} : taken'[g] = taken[g]
        /\ taken'[h] \in Seq(Kind) /\ Len(taken'[h]) = p /\ taken'[h][p] = k
    BY <1>0, <1>1, LockedTaken
  <1>3. \A u \in Thread \ {t} : call'[u] = call[u] /\ (call[u] # Idle => H(u) \in Handle \ {h})
    <2>1. \A u \in Thread \ {t} : call'[u] = call[u]
      BY <1>0, <1>1
    <2> QED
      BY <1>1, <2>1, OthersApart
  <1>4. \A g \in Handle \ {h} : held'[g] = held[g]
    BY <1>0, <1>1
  <1>5. CASE AtTarget(t)
    <2>1. call' = [call EXCEPT ![t] = Idle] /\ held' = [held EXCEPT ![h] = k] /\ p = Len(PathOf(h))
      BY <1>0, <1>5 DEF AtTarget, H
    <2>2. call'[t] = Idle /\ held'[h] = k /\ Idle \in CallType
      BY <1>1, <2>1 DEF Idle, CallType, Kind
    <2>3. TakenInv'
      <3> SUFFICES ASSUME NEW g \in Handle
                   PROVE \/ /\ held'[g] \in Kind
                            /\ Len(taken'[g]) = Len(PathOf(g)) /\ Last(taken'[g]) = held'[g]
                            /\ \A u \in Thread : call'[u] # Idle => call'[u].h # g
                         \/ /\ held'[g] = "none" /\ taken'[g] = <<>>
                            /\ \A u \in Thread : call'[u] # Idle => call'[u].h # g
                         \/ /\ held'[g] = "none" /\ call'[Owner[g]] # Idle /\ call'[Owner[g]].h = g
        BY DEF TakenInv, PathOf
      <3>1. CASE g = h
        BY <1>2, <1>3, <2>1, <2>2, <3>1 DEF Last, H
      <3>2. CASE g # h
        BY <1>1, <1>2, <1>3, <1>4, <2>2, <3>2, FieldLockConstants DEF IInv, TakenInv, H, Kind
      <3> QED
        BY <3>1, <3>2
    <2>4. CallInv'
      <3> SUFFICES ASSUME NEW u \in Thread \ {t}, call'[u] # Idle
                   PROVE  /\ call'[u].op # "none"
                          /\ call'[u].h \in Handle /\ Owner[call'[u].h] = u
                          /\ call'[u].pos \in 1 .. Len(PathOf(call'[u].h))
                          /\ call'[u].op = "lock" => Len(taken'[call'[u].h]) = call'[u].pos - 1
                          /\ call'[u].op = "unlock" =>
                               /\ Len(taken'[call'[u].h]) = call'[u].pos
                               /\ AtTarget(u)' => Last(taken'[call'[u].h]) = call'[u].kind
        BY <2>2 DEF CallInv, PathOf
      <3>1. /\ call'[u] = call[u] /\ call[u] # Idle
            /\ taken'[call[u].h] = taken[call[u].h] /\ (AtTarget(u)' <=> AtTarget(u))
        BY <1>2, <1>3 DEF AtTarget, PathOf, H
      <3> QED
        BY <3>1 DEF IInv, CallInv
    <2> QED
      BY <1>1, <2>1, <2>2, <2>3, <2>4
  <1>6. CASE ~AtTarget(t)
    <2>1. call' = [call EXCEPT ![t].pos = p + 1] /\ held' = held /\ p < Len(PathOf(h))
      BY <1>0, <1>1, <1>6 DEF AtTarget, H
    <2>2. /\ call'[t] = [call[t] EXCEPT !.pos = p + 1] /\ call'[t] \in CallType
          /\ call'[t].op = "lock" /\ call'[t].h = h /\ call'[t].pos = p + 1
      BY <1>1, <2>1 DEF CallType, H
    <2>3. call'[t] # Idle
      BY <2>2 DEF Idle
    <2>4. TakenInv'
      <3> SUFFICES ASSUME NEW g \in Handle
                   PROVE \/ /\ held'[g] \in Kind
                            /\ Len(taken'[g]) = Len(PathOf(g)) /\ Last(taken'[g]) = held'[g]
                            /\ \A u \in Thread : call'[u] # Idle => call'[u].h # g
                         \/ /\ held'[g] = "none" /\ taken'[g] = <<>>
                            /\ \A u \in Thread : call'[u] # Idle => call'[u].h # g
                         \/ /\ held'[g] = "none" /\ call'[Owner[g]] # Idle /\ call'[Owner[g]].h = g
        BY DEF TakenInv, PathOf
      <3>1. CASE g = h
        BY <1>1, <2>1, <2>2, <2>3, <3>1
      <3>2. CASE g # h
        <4>1. \A u \in Thread : call'[u] # Idle /\ call'[u].h = g => call[u] # Idle /\ call[u].h = g
          BY <1>3, <2>2, <3>2
        <4>2. held'[g] = held[g] /\ taken'[g] = taken[g]
          BY <1>2, <2>1, <3>2
        <4>3. Owner[g] \in Thread /\ (call[Owner[g]] # Idle /\ call[Owner[g]].h = g => call'[Owner[g]] = call[Owner[g]])
          BY <1>3, <3>2, FieldLockConstants DEF H
        <4> QED
          BY <4>1, <4>2, <4>3 DEF IInv, TakenInv
      <3> QED
        BY <3>1, <3>2
    <2>5. CallInv'
      <3>1. \A u \in Thread \ {t} : call[u] # Idle => taken'[H(u)] = taken[H(u)]
        BY <1>2, <1>3
      <3> SUFFICES ASSUME NEW u \in Thread, call'[u] # Idle
                   PROVE  /\ call'[u].op # "none"
                          /\ call'[u].h \in Handle /\ Owner[call'[u].h] = u
                          /\ call'[u].pos \in 1 .. Len(PathOf(call'[u].h))
                          /\ call'[u].op = "lock" => Len(taken'[call'[u].h]) = call'[u].pos - 1
                          /\ call'[u].op = "unlock" =>
                               /\ Len(taken'[call'[u].h]) = call'[u].pos
                               /\ AtTarget(u)' => Last(taken'[call'[u].h]) = call'[u].kind
        BY DEF CallInv, PathOf
      <3>2. CASE u = t
        BY <1>1, <1>2, <2>1, <2>2, <3>2
      <3>3. CASE u # t
        <4>1. call'[u] = call[u] /\ taken'[call[u].h] = taken[call[u].h]
          BY <1>3, <3>1, <3>3 DEF H
        <4>2. AtTarget(u)' <=> AtTarget(u)
          BY <4>1 DEF AtTarget, PathOf
        <4> QED
          BY <4>1, <4>2 DEF IInv, CallInv
      <3> QED
        BY <3>2, <3>3
    <2> QED
      BY <1>1, <2>1, <2>2, <2>4, <2>5
  <1> QED
    BY <1>5, <1>6

\* What a handle has locked lies on its path.
LEMMA TakenWithin ==
  ASSUME IInv, NEW g \in Handle, NEW i \in DOMAIN taken[g]
  PROVE  i \in DOMAIN PathOf(g) /\ PathOf(g)[i] \in Field
  <1>1. taken[g] \in Seq(Kind) /\ Owner[g] \in Thread
    BY FieldLockConstants DEF IInv, TypeOK
  <1>2. Len(taken[g]) <= Len(PathOf(g))
    <2>1. CASE held[g] = "none" /\ call[Owner[g]] # Idle /\ call[Owner[g]].h = g
      <3>1. /\ call[Owner[g]].op \in {"lock", "unlock"}
            /\ call[Owner[g]].pos \in 1 .. Len(PathOf(g))
            /\ Len(taken[g]) \in {call[Owner[g]].pos, call[Owner[g]].pos - 1}
        BY <1>1, <2>1 DEF IInv, CallInv, TypeOK, CallType
      <3> QED
        BY <3>1, PathFacts
    <2>2. CASE Len(taken[g]) = Len(PathOf(g))
      BY <2>2, PathFacts
    <2>3. CASE taken[g] = <<>>
      BY <2>3, PathFacts
    <2> QED
      BY <2>1, <2>2, <2>3 DEF IInv, TakenInv
  <1>3. i \in 1 .. Len(taken[g])
    BY <1>1
  <1> QED
    BY <1>1, <1>2, <1>3, PathFacts

\* The accounting carries over if it does for the mutex f at hand, and the
\* others are untouched.
LEMMA AccountsByField ==
  ASSUME IInv, NEW f \in Field,
         lost' = lost,
         \A g \in Field \ {f} :
            level'[g] = level[g] /\ wtid'[g] = wtid[g] /\ Cardinality(TakenOn(g)') = Cardinality(TakenOn(g)),
         level'[f] = IF wtid'[f] = NoThread THEN Cardinality(TakenOn(f)') + lost[f]
                     ELSE -(Cardinality(TakenOn(f)') + lost[f])
  PROVE  LevelAccounts'
  <1> SUFFICES ASSUME NEW g \in Field
               PROVE  level'[g] = IF wtid'[g] = NoThread THEN Cardinality(TakenOn(g)') + lost'[g]
                                  ELSE -(Cardinality(TakenOn(g)') + lost'[g])
    BY DEF LevelAccounts
  <1> QED
    BY DEF IInv, LevelAccounts

\* Locking one mutex keeps the invariant.
LEMMA LockIInv ==
  ASSUME IInv, NEW t \in Thread, LockRead(t) \/ LockWrite(t) \/ NestWrite(t)
  PROVE  IInv'
  <1>0. PICK f \in Field, h \in Handle : f = Here(t) /\ h = H(t)
    BY CallFacts DEF LockRead, LockWrite, NestWrite
  <1> DEFINE n == Cardinality(TakenOn(f))
  <1>1. PICK k \in Kind :
          /\ k = NextKind(t) /\ call[t].op = "lock" /\ Locked(t, k)
          /\ level' = [level EXCEPT ![f] = level'[f]]
          /\ \/ /\ k = "read" /\ level[f] >= 0 /\ level'[f] = level[f] + 1 /\ wtid' = wtid
             \/ /\ k = "write" /\ level[f] = 0 /\ level'[f] = -1 /\ wtid' = [wtid EXCEPT ![f] = t]
             \/ /\ k = "write" /\ wtid[f] = t /\ level'[f] = level[f] - 1 /\ wtid' = wtid
    <2>1. f = Here(t) /\ level \in [Field -> Int]
      BY <1>0 DEF IInv, TypeOK
    <2>2. CASE LockRead(t)
      BY <2>1, <2>2 DEF LockRead, Kind
    <2>3. CASE LockWrite(t)
      BY <2>1, <2>3 DEF LockWrite, Kind
    <2>4. CASE NestWrite(t)
      BY <2>1, <2>4 DEF NestWrite, WritesHere, Kind
    <2> QED
      BY <2>2, <2>3, <2>4
  <1>2. /\ h \in Handle /\ Owner[h] = t /\ call[t].pos \in DOMAIN PathOf(h) /\ f \in Field
        /\ f = PathOf(h)[call[t].pos]
        /\ level \in [Field -> Int] /\ wtid \in [Field -> Thread \union {NoThread}]
        /\ lost \in [Field -> Nat] /\ lost' = lost /\ t # NoThread
    BY <1>0, <1>1, CallFacts, FieldLockConstants DEF IInv, TypeOK, Locked, Here, H
  <1>3. taken' = [taken EXCEPT ![h] = Append(@, k)]
    BY <1>0, <1>1 DEF Locked, H
  <1>4. /\ h \notin TakenOn(f)
        /\ \A g \in Field : TakenOn(g)' = IF g = f THEN TakenOn(g) \union {h} ELSE TakenOn(g)
        /\ taken' \in [Handle -> Seq(Kind)]
        /\ \A g \in Handle \ {h} : taken'[g] = taken[g]
        /\ taken'[h][call[t].pos] = k
        /\ \A i \in DOMAIN taken[h] : i < call[t].pos /\ taken'[h][i] = taken[h][i]
        /\ DOMAIN taken'[h] = DOMAIN taken[h] \union {call[t].pos}
    <2>1. taken' = [taken EXCEPT ![H(t)] = Append(@, k)] /\ k \in Kind /\ call[t].op = "lock"
      BY <1>0, <1>1, <1>3
    <2>2. \A g \in Field : TakenOn(g)' = IF g = Here(t) THEN TakenOn(g) \union {H(t)} ELSE TakenOn(g)
      BY <2>1, LockedTaken
    <2> QED
      BY <1>0, <2>1, <2>2, LockedTaken
  <1>5. n \in Nat /\ Cardinality(TakenOn(f)') = n + 1 /\ (n = 0 => TakenOn(f) = {})
    <2>1. TakenOn(f)' = TakenOn(f) \union {h} /\ h \notin TakenOn(f)
      BY <1>2, <1>4
    <2>2. Cardinality(TakenOn(f)') = n + 1
      BY <1>2, <2>1, CountStep
    <2> QED
      BY <2>2, TakenFinite
  <1>6. /\ level[f] = IF wtid[f] = NoThread THEN n + lost[f] ELSE -(n + lost[f])
        /\ wtid[f] # NoThread => level[f] # 0
    BY <1>2 DEF IInv, LevelAccounts, TidInv
  <1>7. /\ k = "read" => wtid[f] = NoThread
        /\ level[f] = 0 => wtid[f] = NoThread /\ n = 0 /\ lost[f] = 0
    BY <1>1, <1>2, <1>5, <1>6
  <1>8. \A g \in Field \ {f} : level'[g] = level[g] /\ wtid'[g] = wtid[g]
    BY <1>1, <1>2
  <1>9. /\ level' \in [Field -> Int] /\ wtid' \in [Field -> Thread \union {NoThread}]
        /\ wtid'[f] = IF k = "write" THEN t ELSE NoThread
        /\ level'[f] = IF wtid'[f] = NoThread THEN n + 1 + lost[f] ELSE -(n + 1 + lost[f])
    BY <1>1, <1>2, <1>5, <1>6, <1>7
  <1>10. LevelAccounts'
    <2>1. \A g \in Field \ {f} : Cardinality(TakenOn(g)') = Cardinality(TakenOn(g))
      BY <1>4
    <2> QED
      BY <1>2, <1>5, <1>8, <1>9, <2>1, AccountsByField
  <1>11. TidInv'
    <2>1. \A g \in Field : wtid'[g] # NoThread => level'[g] # 0
      BY <1>2, <1>5, <1>8, <1>9 DEF IInv, TidInv
    <2>2. ASSUME NEW g \in Handle, NEW i \in DOMAIN taken'[g]
          PROVE  wtid'[PathOf(g)[i]] = IF taken'[g][i] = "write" THEN Owner[g] ELSE NoThread
      <3>1. CASE g = h /\ i = call[t].pos
        BY <1>1, <1>2, <1>4, <1>9, <3>1 DEF Kind
      <3>2. CASE ~(g = h /\ i = call[t].pos)
        <4>1. i \in DOMAIN taken[g] /\ taken'[g][i] = taken[g][i]
          BY <1>4, <3>2
        <4>2. wtid[PathOf(g)[i]] = IF taken[g][i] = "write" THEN Owner[g] ELSE NoThread
          BY <4>1 DEF IInv, TidInv
        <4>3. PathOf(g)[i] = f => g \in TakenOn(f)
          BY <4>1 DEF TakenOn
        <4>4. wtid'[PathOf(g)[i]] = wtid[PathOf(g)[i]]
          BY <1>1, <1>2, <1>5, <1>7, <4>1, <4>3, TakenWithin
        <4> QED
          BY <4>1, <4>2, <4>4
      <3> QED
        BY <3>1, <3>2
    <2> QED
      BY <2>1, <2>2 DEF TidInv, PathOf
  <1>12. /\ call' \in [Thread -> CallType] /\ held' \in [Handle -> {"none"} \union Kind]
         /\ TakenInv' /\ CallInv'
    BY <1>0, <1>1, LockedCalls DEF NextKind
  <1>13. TypeOK'
    BY <1>2, <1>4, <1>9, <1>12 DEF TypeOK
  <1> QED
    BY <1>10, <1>11, <1>12, <1>13 DEF IInv

\* A call of t that ends, begins or goes on leaves the other calls and handles
\* alone; what is left to show concerns its own handle.
LEMMA OwnHandle ==
  ASSUME IInv, NEW t \in Thread, NEW h \in Handle, Owner[h] = t,
         call[t] # Idle => call[t].h = h,
         call' \in [Thread -> CallType], \A u \in Thread \ {t} : call'[u] = call[u],
         call'[t] # Idle => call'[t].h = h,
         \A g \in Handle \ {h} : held'[g] = held[g] /\ taken'[g] = taken[g],
         \/ held'[h] = "none" /\ taken'[h] = <<>> /\ call'[t] = Idle
         \/ held'[h] = "none" /\ call'[t] # Idle,
         call'[t] # Idle =>
            /\ call'[t].op # "none" /\ call'[t].pos \in 1 .. Len(PathOf(h))
            /\ call'[t].op = "lock" => Len(taken'[h]) = call'[t].pos - 1
            /\ call'[t].op = "unlock" =>
                 /\ Len(taken'[h]) = call'[t].pos
                 /\ call'[t].pos = Len(PathOf(h)) => Last(taken'[h]) = call'[t].kind
  PROVE  TakenInv' /\ CallInv'
  <1>1. \A u \in Thread \ {t} : call[u] # Idle => call[u].h \in Handle /\ call[u].h # h
    BY DEF IInv, CallInv
  <1>2. TakenInv'
    <2> SUFFICES ASSUME NEW g \in Handle
                 PROVE \/ /\ held'[g] \in Kind
                          /\ Len(taken'[g]) = Len(PathOf(g)) /\ Last(taken'[g]) = held'[g]
                          /\ \A u \in Thread : call'[u] # Idle => call'[u].h # g
                       \/ /\ held'[g] = "none" /\ taken'[g] = <<>>
                          /\ \A u \in Thread : call'[u] # Idle => call'[u].h # g
                       \/ /\ held'[g] = "none" /\ call'[Owner[g]] # Idle /\ call'[Owner[g]].h = g
      BY DEF TakenInv, PathOf
    <2>1. CASE g = h
      BY <1>1, <2>1
    <2>2. CASE g # h
      <3>1. \A u \in Thread : call'[u] # Idle /\ call'[u].h = g => call[u] # Idle /\ call[u].h = g
        BY <2>2
      <3>2. held'[g] = held[g] /\ taken'[g] = taken[g]
        BY <2>2
      <3>3. Owner[g] \in Thread /\ (call[Owner[g]] # Idle /\ call[Owner[g]].h = g => call'[Owner[g]] = call[Owner[g]])
        BY <2>2, FieldLockConstants
      <3> QED
        BY <3>1, <3>2, <3>3 DEF IInv, TakenInv
    <2> QED
      BY <2>1, <2>2
  <1>3. CallInv'
    <2> SUFFICES ASSUME NEW u \in Thread, call'[u] # Idle
                 PROVE  /\ call'[u].op # "none"
                        /\ call'[u].h \in Handle /\ Owner[call'[u].h] = u
                        /\ call'[u].pos \in 1 .. Len(PathOf(call'[u].h))
                        /\ call'[u].op = "lock" => Len(taken'[call'[u].h]) = call'[u].pos - 1
                        /\ call'[u].op = "unlock" =>
                             /\ Len(taken'[call'[u].h]) = call'[u].pos
                             /\ AtTarget(u)' => Last(taken'[call'[u].h]) = call'[u].kind
      BY DEF CallInv, PathOf
    <2>1. CASE u = t
      <3>1. AtTarget(t)' <=> call'[t].pos = Len(PathOf(h))
        BY <2>1 DEF AtTarget, PathOf
      <3> QED
        BY <2>1, <3>1
    <2>2. CASE u # t
      <3>1. call'[u] = call[u] /\ taken'[call[u].h] = taken[call[u].h]
        BY <1>1, <2>2
      <3>2. AtTarget(u)' <=> AtTarget(u)
        BY <3>1 DEF AtTarget, PathOf
      <3> QED
        BY <3>1, <3>2 DEF IInv, CallInv
    <2> QED
      BY <2>1, <2>2
  <1> QED
    BY <1>2, <1>3

\* Unlocking one mutex keeps the invariant: the tid tells how it was locked.
LEMMA UnlockIInv ==
  ASSUME IInv, NEW t \in Thread, UnlockRead(t) \/ UnlockWrite(t)
  PROVE  IInv'
  <1>0. PICK f \in Field, h \in Handle : f = Here(t) /\ h = H(t)
    BY CallFacts DEF UnlockRead, UnlockWrite
  <1> DEFINE n == Cardinality(TakenOn(f))
             p == call[t].pos
  <1>1. /\ call[t].op = "unlock" /\ Unlocked(t)
        /\ level \in [Field -> Int] /\ wtid \in [Field -> Thread \union {NoThread}]
        /\ lost \in [Field -> Nat] /\ lost' = lost /\ held' = held /\ held[h] = "none"
        /\ call \in [Thread -> CallType] /\ held \in [Handle -> {"none"} \union Kind]
        /\ call[t] # Idle /\ Owner[h] = t /\ t # NoThread
        /\ p \in DOMAIN PathOf(h) /\ f = PathOf(h)[p]
        /\ Len(taken[h]) = p /\ taken[h] \in Seq(Kind)
        /\ AtTarget(t) => Last(taken[h]) = call[t].kind
    BY <1>0, CallFacts, FieldLockConstants DEF UnlockRead, UnlockWrite, Unlocked, IInv, TypeOK, Here, H
  <1>2. /\ taken' = [taken EXCEPT ![h] = Front(@)]
        /\ call' = [call EXCEPT ![t] = IF p = 1 THEN Idle ELSE [call[t] EXCEPT !.pos = p - 1]]
    <2>1. taken' = [taken EXCEPT ![h] = Front(@)]
      BY <1>0, <1>1 DEF Unlocked, H
    <2>2. call' = [call EXCEPT ![t] = IF p = 1 THEN Idle ELSE [call[t] EXCEPT !.pos = p - 1]]
      BY <1>1 DEF Unlocked
    <2> QED
      BY <2>1, <2>2
  <1>3. /\ \A g \in Field : TakenOn(g)' = IF g = Here(t) THEN TakenOn(g) \ {H(t)} ELSE TakenOn(g)
        /\ H(t) \in TakenOn(Here(t))
        /\ taken' \in [Handle -> Seq(Kind)]
        /\ \A g \in Handle \ {H(t)} : taken'[g] = taken[g]
        /\ Len(taken'[H(t)]) = p - 1
        /\ \A i \in DOMAIN taken'[H(t)] :
             i \in DOMAIN taken[H(t)] /\ i < p /\ taken'[H(t)][i] = taken[H(t)][i]
    BY <1>0, <1>1, <1>2, UnlockedTaken
  <1>4. /\ n \in Nat /\ Cardinality(TakenOn(f)') = n - 1
        /\ \A g \in Field \ {f} : TakenOn(g)' = TakenOn(g)
        /\ \A g \in Handle : \A i \in DOMAIN taken'[g] : i \in DOMAIN taken[g] /\ taken'[g][i] = taken[g][i]
    <2>1. TakenOn(f)' = TakenOn(f) \ {h} /\ h \in TakenOn(f)
      BY <1>0, <1>3
    <2>2. Cardinality(TakenOn(f)') = n - 1
      BY <2>1, CountStep
    <2> QED
      BY <1>0, <1>3, <2>2, TakenFinite
  <1>5. /\ level[f] = IF wtid[f] = NoThread THEN n + lost[f] ELSE -(n + lost[f])
        /\ wtid[f] = IF Last(taken[h]) = "write" THEN t ELSE NoThread
        /\ NextKind(t) = Last(taken[h])
    <2>1. Last(taken[h]) = taken[h][p] /\ p \in DOMAIN taken[h] /\ taken[h][p] \in Kind
      <3>1. p \in Nat \ {0}
        BY <1>1, PathFacts
      <3> QED
        BY <1>1, <3>1 DEF Last
    <2>2. wtid[f] = IF Last(taken[h]) = "write" THEN t ELSE NoThread
      BY <1>1, <2>1 DEF IInv, TidInv
    <2> QED
      BY <1>0, <1>1, <2>1, <2>2 DEF IInv, LevelAccounts, NextKind, WritesHere, Kind
  <1>6. /\ level' \in [Field -> Int] /\ wtid' \in [Field -> Thread \union {NoThread}]
        /\ \A g \in Field \ {f} : level'[g] = level[g] /\ wtid'[g] = wtid[g]
        /\ level'[f] = IF wtid'[f] = NoThread THEN n - 1 + lost[f] ELSE -(n - 1 + lost[f])
        /\ wtid'[f] = wtid[f] \/ (wtid'[f] = NoThread /\ n - 1 = 0)
        /\ wtid'[f] # NoThread => level'[f] # 0
    <2>1. CASE UnlockRead(t)
      <3>1. /\ level' = [level EXCEPT ![f] = level[f] - 1] /\ wtid' = wtid
            /\ wtid[f] = NoThread
        BY <1>0, <1>5, <2>1 DEF UnlockRead
      <3> QED
        BY <1>1, <1>4, <1>5, <3>1
    <2>2. CASE UnlockWrite(t)
      <3>1. /\ level' = [level EXCEPT ![f] = level[f] + 1] /\ level'[f] = level[f] + 1
            /\ wtid' = [wtid EXCEPT ![f] = IF level[f] + 1 = 0 THEN NoThread ELSE wtid[f]]
        BY <1>0, <1>1, <2>2 DEF UnlockWrite
      <3>2. wtid[f] = t
        BY <1>5, <2>2 DEF UnlockWrite
      <3>3. n # 0
        BY <1>0, <1>3, TakenFinite
      <3> QED
        <4>1. level[f] = -(n + lost[f]) /\ lost[f] \in Nat
          BY <1>1, <1>5, <3>2
        <4>2. CASE level[f] + 1 = 0
          BY <1>1, <1>4, <3>1, <3>3, <4>1, <4>2
        <4>3. CASE level[f] + 1 # 0
          BY <1>1, <1>4, <3>1, <3>2, <4>1, <4>3
        <4> QED
          BY <4>2, <4>3
    <2> QED
      BY <2>1, <2>2
  <1>7. LevelAccounts'
    BY <1>1, <1>4, <1>6, AccountsByField
  <1>8. TidInv'
    <2>1. \A g \in Field : wtid'[g] # NoThread => level'[g] # 0
      BY <1>6 DEF IInv, TidInv
    <2>2. ASSUME NEW g \in Handle, NEW i \in DOMAIN taken'[g]
          PROVE  wtid'[PathOf(g)[i]] = IF taken'[g][i] = "write" THEN Owner[g] ELSE NoThread
      <3>1. /\ i \in DOMAIN taken[g] /\ taken'[g][i] = taken[g][i]
            /\ wtid[PathOf(g)[i]] = IF taken[g][i] = "write" THEN Owner[g] ELSE NoThread
        BY <1>4 DEF IInv, TidInv
      <3>2. PathOf(g)[i] \in Field
        BY <3>1, TakenWithin
      <3>3. PathOf(g)[i] = f => n - 1 # 0
        <4>1. PathOf(g)[i] = f => g \in TakenOn(f)'
          BY DEF TakenOn, PathOf
        <4>2. Cardinality(TakenOn(f)') = 0 => TakenOn(f)' = {}
          <5>1. TakenOn(f)' \subseteq Handle
            BY DEF TakenOn
          <5> QED
            BY <5>1, FieldLockConstants, FS_Subset, FS_EmptySet
        <4> QED
          BY <1>4, <4>1, <4>2
      <3> QED
        BY <1>6, <3>1, <3>2, <3>3
    <2> QED
      BY <2>1, <2>2 DEF TidInv, PathOf
  <1>9. p \in Nat \ {0} /\ p \in 1 .. Len(PathOf(h)) /\ Len(PathOf(h)) \in Nat
    BY <1>1, PathFacts
  <1>10. call' \in [Thread -> CallType] /\ \A u \in Thread \ {t} : call'[u] = call[u]
    <2>1. Idle \in CallType
      BY DEF Idle, CallType, Kind
    <2>2. p - 1 \in Nat /\ call[t] \in CallType
      BY <1>1, <1>9
    <2>3. [call[t] EXCEPT !.pos = p - 1] \in CallType
      BY <2>2 DEF CallType
    <2> QED
      BY <1>1, <1>2, <2>1, <2>3
  <1>11. /\ p = 1 => call'[t] = Idle /\ taken'[h] = <<>>
         /\ p # 1 => /\ call'[t] # Idle /\ call'[t].op = "unlock" /\ call'[t].h = h
                     /\ call'[t].pos = p - 1 /\ p - 1 \in 1 .. Len(PathOf(h))
                     /\ p - 1 # Len(PathOf(h))
    <2>1. CASE p = 1
      BY <1>0, <1>1, <1>2, <1>3, <2>1
    <2>2. CASE p # 1
      <3>1. call'[t] = [call[t] EXCEPT !.pos = p - 1]
        BY <1>1, <1>2, <2>2
      <3>2. call'[t].op = "unlock" /\ call'[t].h = h /\ call'[t].pos = p - 1
        BY <1>0, <1>1, <3>1 DEF CallType, H
      <3> QED
        BY <1>9, <2>2, <3>2 DEF Idle
    <2> QED
      BY <2>1, <2>2
  <1>12. TakenInv' /\ CallInv'
    <2>1. /\ \A g \in Handle \ {h} : held'[g] = held[g] /\ taken'[g] = taken[g]
          /\ call[t].h = h /\ held'[h] = "none" /\ Len(taken'[h]) = p - 1
      BY <1>0, <1>1, <1>3 DEF H
    <2> QED
      BY <1>1, <1>9, <1>10, <1>11, <2>1, OwnHandle DEF Idle
  <1>13. TypeOK'
    BY <1>1, <1>3, <1>6, <1>10 DEF TypeOK
  <1> QED
    BY <1>7, <1>8, <1>12, <1>13 DEF IInv

\* An exception keeps the invariant: what was locked becomes lost.
LEMMA ThrowIInv ==
  ASSUME IInv, NEW t \in Thread, ThrowOwnWrite(t) \/ Timeout(t)
  PROVE  IInv'
  <1>0. PICK h \in Handle : h = H(t)
    BY CallFacts DEF ThrowOwnWrite, Timeout
  <1>1. /\ call[t] # Idle /\ Owner[h] = t /\ held[h] = "none" /\ call[t].h = h
        /\ call' = [call EXCEPT ![t] = Idle] /\ taken' = [taken EXCEPT ![h] = <<>>]
        /\ lost' = [f \in Field |-> IF h \in TakenOn(f) THEN lost[f] + 1 ELSE lost[f]]
        /\ UNCHANGED <<level, wtid, held>>
    BY <1>0, CallFacts DEF ThrowOwnWrite, Timeout, Throw, H
  <1>2. TypeOK'
    <2>1. Idle \in CallType
      BY DEF Idle, CallType, Kind
    <2> QED
      BY <1>1, <2>1 DEF IInv, TypeOK
  <1>3. /\ \A g \in Handle \ {h} : taken'[g] = taken[g]
        /\ taken'[h] = <<>>
        /\ \A u \in Thread \ {t} : call'[u] = call[u]
        /\ call'[t] = Idle
    BY <1>1 DEF IInv, TypeOK
  <1>4. LevelAccounts'
    <2> SUFFICES ASSUME NEW f \in Field
                 PROVE  level[f] = IF wtid[f] = NoThread THEN Cardinality(TakenOn(f)') + lost'[f]
                                   ELSE -(Cardinality(TakenOn(f)') + lost'[f])
      BY <1>1 DEF LevelAccounts
    <2>1. TakenOn(f)' = TakenOn(f) \ {h}
      BY <1>3 DEF TakenOn, PathOf
    <2>2. Cardinality(TakenOn(f)) \in Nat /\ Cardinality(TakenOn(f)')
            = IF h \in TakenOn(f) THEN Cardinality(TakenOn(f)) - 1 ELSE Cardinality(TakenOn(f))
      BY <2>1, TakenFinite, FS_RemoveElement
    <2>3. lost[f] \in Nat /\ lost'[f] = IF h \in TakenOn(f) THEN lost[f] + 1 ELSE lost[f]
      BY <1>1 DEF IInv, TypeOK
    <2> QED
      BY <2>2, <2>3 DEF IInv, LevelAccounts
  <1>5. TidInv'
    BY <1>1, <1>3 DEF IInv, TidInv, PathOf
  <1>6. TakenInv' /\ CallInv'
    BY <1>1, <1>2, <1>3, OwnHandle DEF TypeOK
  <1> QED
    BY <1>2, <1>4, <1>5, <1>6 DEF IInv

\* Beginning to lock or to unlock keeps the invariant.
LEMMA CallsIInv ==
  ASSUME IInv, NEW t \in Thread, Calls(t)
  PROVE  IInv'
  <1>1. PICK h \in Handle : CallUnlock(t, h) \/ \E k \in Kind : CallLock(t, h, k)
    BY DEF Calls
  <1>2. /\ UNCHANGED <<level, wtid, taken, lost>> /\ call[t] = Idle /\ Owner[h] = t
        /\ Len(PathOf(h)) \in Nat \ {0}
    BY <1>1, PathFacts DEF CallUnlock, CallLock
  <1>3. \A f \in Field : TakenOn(f)' = TakenOn(f)
    BY <1>2 DEF TakenOn, PathOf
  <1>4. /\ \/ held[h] = "none" /\ taken[h] = <<>>
           \/ held[h] \in Kind /\ Len(taken[h]) = Len(PathOf(h)) /\ Last(taken[h]) = held[h]
        /\ held[h] \in {"none"} \union Kind
    BY <1>2 DEF IInv, TakenInv, TypeOK
  <1>5. PICK c \in CallType :
          /\ call' = [call EXCEPT ![t] = c] /\ c # Idle /\ c.h = h /\ c.op # "none"
          /\ c.pos \in 1 .. Len(PathOf(h)) /\ held' = [held EXCEPT ![h] = "none"]
          /\ c.op = "lock" => Len(taken[h]) = c.pos - 1
          /\ c.op = "unlock" => Len(taken[h]) = c.pos /\ Last(taken[h]) = c.kind
    <2>1. CASE CallUnlock(t, h)
      <3> DEFINE c == [op |-> "unlock", h |-> h, kind |-> held[h], pos |-> Len(PathOf(h))]
      <3>1. held[h] \in Kind /\ Len(taken[h]) = Len(PathOf(h)) /\ Last(taken[h]) = held[h]
        BY <1>4, <2>1 DEF CallUnlock, Kind
      <3>2. c \in CallType /\ c # Idle
        BY <1>2, <3>1 DEF CallType, Idle
      <3>3. /\ call' = [call EXCEPT ![t] = c] /\ c.h = h /\ c.op = "unlock"
            /\ c.pos = Len(PathOf(h)) /\ c.kind = held[h] /\ held' = [held EXCEPT ![h] = "none"]
        BY <2>1 DEF CallUnlock
      <3>4. c.pos \in 1 .. Len(PathOf(h)) /\ Len(taken[h]) = c.pos /\ Last(taken[h]) = c.kind
        BY <1>2, <3>1, <3>3
      <3>5. c.op # "none" /\ c.op # "lock"
        BY <3>3
      <3> HIDE DEF c
      <3> QED
        BY <3>2, <3>3, <3>4, <3>5
    <2>2. ASSUME NEW k \in Kind, CallLock(t, h, k)
          PROVE  \E c \in CallType :
                  /\ call' = [call EXCEPT ![t] = c] /\ c # Idle /\ c.h = h /\ c.op # "none"
                  /\ c.pos \in 1 .. Len(PathOf(h)) /\ held' = [held EXCEPT ![h] = "none"]
                  /\ c.op = "lock" => Len(taken[h]) = c.pos - 1
                  /\ c.op = "unlock" => Len(taken[h]) = c.pos /\ Last(taken[h]) = c.kind
      <3> DEFINE c == [op |-> "lock", h |-> h, kind |-> k, pos |-> 1]
      <3>1. held[h] = "none" /\ taken[h] = <<>> /\ held' = held
        BY <1>4, <2>2 DEF CallLock, Kind
      <3>2. c \in CallType /\ c # Idle
        BY DEF CallType, Idle
      <3>3. held' = [held EXCEPT ![h] = "none"]
        BY <3>1 DEF IInv, TypeOK
      <3>4. call' = [call EXCEPT ![t] = c] /\ c.h = h /\ c.op = "lock" /\ c.pos = 1
        BY <2>2 DEF CallLock
      <3>5. Len(taken[h]) = c.pos - 1 /\ c.pos \in 1 .. Len(PathOf(h))
        BY <1>2, <3>1, <3>4
      <3> QED
        BY <3>2, <3>3, <3>4, <3>5
    <2> QED
      BY <1>1, <2>1, <2>2
  <1>6. /\ call' \in [Thread -> CallType] /\ call'[t] = c
        /\ \A u \in Thread \ {t} : call'[u] = call[u]
        /\ held' \in [Handle -> {"none"} \union Kind] /\ held'[h] = "none"
        /\ \A g \in Handle \ {h} : held'[g] = held[g]
    BY <1>5 DEF IInv, TypeOK
  <1>7. TypeOK'
    BY <1>2, <1>6 DEF IInv, TypeOK
  <1>8. TakenInv' /\ CallInv'
    BY <1>2, <1>5, <1>6, OwnHandle
  <1>9. LevelAccounts' /\ TidInv'
    BY <1>2, <1>3 DEF IInv, LevelAccounts, TidInv, PathOf
  <1> QED
    BY <1>7, <1>8, <1>9 DEF IInv

----------------------------------------------------------------------------

\* Unlocked fields without lock objects satisfy the invariant.
LEMMA InitIInv == Init => IInv
  <1> SUFFICES ASSUME Init PROVE IInv
    OBVIOUS
  <1> USE FieldLockConstants DEF Init
  <1>1. \A f : TakenOn(f) = {} /\ Cardinality({}) = 0
    BY FS_EmptySet DEF TakenOn
  <1>2. TypeOK
    BY DEF TypeOK, CallType, Idle, Kind
  <1>3. LevelAccounts /\ TidInv
    <2>1. \A f \in Field : Cardinality(TakenOn(f)) = 0
      BY <1>1
    <2> QED
      BY <2>1 DEF LevelAccounts, TidInv
  <1>4. TakenInv /\ CallInv
    BY DEF TakenInv, CallInv
  <1> QED
    BY <1>2, <1>3, <1>4 DEF IInv

\* Every step keeps the invariant.
LEMMA NextIInv == IInv /\ [Next]_vars => IInv'
  <1> SUFFICES ASSUME IInv, [Next]_vars PROVE IInv'
    OBVIOUS
  <1>1. CASE UNCHANGED vars
    <2>1. UNCHANGED <<level, wtid, call, held, taken, lost>>
      BY <1>1 DEF vars
    <2>2. \A f : TakenOn(f)' = TakenOn(f)
      BY <2>1 DEF TakenOn, PathOf
    <2> QED
      BY <2>1, <2>2 DEF IInv, TypeOK, LevelAccounts, TakenInv, CallInv, TidInv, AtTarget, PathOf
  <1>2. ASSUME NEW t \in Thread, Calls(t) \/ Runs(t)
        PROVE  IInv'
    BY <1>2, CallsIInv, LockIInv, ThrowIInv, UnlockIInv DEF Runs
  <1> QED
    BY <1>1, <1>2 DEF Next, Exhausted

\* The inductive invariant of the field locks, for every forest of fields and
\* any threads and lock objects.
THEOREM Invariance == Spec => []IInv
  BY InitIInv, NextIInv, PTL DEF Spec

\* Each mutex counts the locks of handles and those left behind.
THEOREM LevelCorrect == Spec => []LevelAccounts
  <1>1. IInv => LevelAccounts
    BY DEF IInv
  <1> QED
    BY Invariance, <1>1, PTL

\* An ancestor is unlocked the way the same handle has locked it.
THEOREM UnlockCorrect == Spec => []UnlockMatches
  <1>1. ASSUME IInv PROVE UnlockMatches
    <2> SUFFICES ASSUME NEW t \in Thread, call[t].op = "unlock"
                 PROVE  Last(taken[H(t)]) = NextKind(t)
      BY DEF UnlockMatches, H
    <2> DEFINE p == call[t].pos
    <2>1. /\ H(t) \in Handle /\ Owner[H(t)] = t /\ taken[H(t)] \in Seq(Kind)
          /\ Len(taken[H(t)]) = p /\ p \in Nat \ {0}
          /\ AtTarget(t) => Last(taken[H(t)]) = call[t].kind
          /\ Here(t) = PathOf(H(t))[p] /\ t # NoThread
      BY <1>1, CallFacts, PathFacts, FieldLockConstants DEF Here, H
    <2>2. p \in DOMAIN taken[H(t)] /\ taken[H(t)][p] \in Kind
      BY <2>1
    <2>3. wtid[Here(t)] = IF taken[H(t)][p] = "write" THEN t ELSE NoThread
      BY <1>1, <2>1, <2>2 DEF IInv, TidInv
    <2> QED
      BY <2>1, <2>2, <2>3 DEF NextKind, WritesHere, Last, Kind
  <1> QED
    BY Invariance, <1>1, PTL

\* While a handle is held, what is above it cannot be write-locked by others.
THEOREM AncestorsCorrect == Spec => []AncestorsPinned
  <1>1. ASSUME IInv PROVE AncestorsPinned
    <2> SUFFICES ASSUME NEW h \in Handle, held[h] # "none", NEW i \in DOMAIN PathOf(h)
                 PROVE  /\ level[PathOf(h)[i]] # 0
                        /\ wtid[PathOf(h)[i]] \in {NoThread, Owner[h]}
      BY DEF AncestorsPinned
    <2> DEFINE f == PathOf(h)[i]
    <2>1. i \in DOMAIN taken[h] /\ f \in Field
      BY <1>1, PathFacts DEF IInv, TakenInv, TypeOK
    <2>2. wtid[f] \in {NoThread, Owner[h]}
      BY <1>1, <2>1 DEF IInv, TidInv
    <2>3. Cardinality(TakenOn(f)) # 0 /\ Cardinality(TakenOn(f)) \in Nat
      BY <2>1, TakenFinite DEF TakenOn
    <2>4. level[f] # 0
      <3>1. lost[f] \in Nat
        BY <1>1, <2>1 DEF IInv, TypeOK
      <3>2. level[f] \in {Cardinality(TakenOn(f)) + lost[f], -(Cardinality(TakenOn(f)) + lost[f])}
        BY <1>1, <2>1 DEF IInv, LevelAccounts
      <3> QED
        BY <2>3, <3>1, <3>2
    <2> QED
      BY <2>2, <2>4
  <1> QED
    BY Invariance, <1>1, PTL

LEMMA WriteExcludes ==
  ASSUME IInv
  PROVE  SubtreeExclusion
  <1> SUFFICES ASSUME NEW h \in Handle, NEW g \in Handle,
                      held[h] = "write", held[g] # "none",
                      Contains(PathOf(g), Target[h])
               PROVE  Owner[g] = Owner[h]
    BY DEF SubtreeExclusion
  <1>1. PICK i \in DOMAIN PathOf(g) : PathOf(g)[i] = Target[h]
    BY PathFacts DEF Contains
  <1>2. i \in DOMAIN taken[g]
    BY PathFacts DEF IInv, TakenInv, TypeOK
  <1> DEFINE n == Len(PathOf(h))
  <1>3. n \in DOMAIN taken[h] /\ taken[h][n] = "write" /\ PathOf(h)[n] = Target[h]
    <2>1. Len(taken[h]) = n /\ Last(taken[h]) = "write" /\ taken[h] \in Seq(Kind)
      BY DEF IInv, TakenInv, TypeOK
    <2>2. n \in Nat \ {0} /\ PathOf(h)[n] = Target[h]
      BY PathFacts
    <2> QED
      BY <2>1, <2>2 DEF Last
  <1>4. wtid[Target[h]] = Owner[h] /\ Owner[h] # NoThread
    BY <1>3, FieldLockConstants DEF IInv, TidInv
  <1>5. wtid[Target[h]] \in {NoThread, Owner[g]}
    BY <1>1, <1>2 DEF IInv, TidInv
  <1> QED
    BY <1>4, <1>5

\* A write lock on a field excludes the other threads from the field and from
\* everything below it.
THEOREM ExclusionCorrect == Spec => []SubtreeExclusion
  BY Invariance, WriteExcludes, PTL
=============================================================================
