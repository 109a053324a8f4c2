---------------------------- MODULE StringsProofs ----------------------------
(***************************************************************************)
(* Proofs about Strings for any threads and names, as long as an index can *)
(* count the names (NamesFit): refused allocations, timeouts and deaths of *)
(* lock holders included, the table of names is a NameTable.               *)
(***************************************************************************)
EXTENDS Strings, FiniteSetTheorems, TLAPS

USE DEF storage, history, Arg

Stored == DOMAIN map \ half

\* A new storage satisfies the invariant.
LEMMA InitIInv == Init => IInv
  <1> SUFFICES ASSUME Init PROVE IInv
    OBVIOUS
  <1> USE StringsConstants DEF Init, Mutex!Init
  <1>1. DOMAIN map = {}
    OBVIOUS
  <1>2. TypeOK
    BY <1>1, NamesFit DEF TypeOK, CallType, Idle
  <1>3. LockInv
    BY DEF LockInv, Idle
  <1>4. DataInv
    BY <1>1, FS_EmptySet DEF DataInv, Idle
  <1> QED
    BY <1>2, <1>3, <1>4 DEF IInv

\* The steps that leave the table and the mutex alone: calls, get, a timeout,
\* the death of a thread.
LEMMA QuietIInv ==
  ASSUME IInv, NEW t \in Thread, Call(t) \/ Get(t) \/ Timeout(t) \/ Deref(t) \/ Die(t)
  PROVE  IInv'
  <1> USE DEF IInv
  <1>1. /\ UNCHANGED <<map, data, capacity, half, reading, writing, answers, failures>>
        /\ deaths' \in 0 .. MaxDeaths
    BY StringsConstants DEF Call, Get, Timeout, Deref, Die, TypeOK
  <1>2. PICK c \in CallType : call' = [call EXCEPT ![t] = c]
    <2>1. CASE Call(t)
      BY <2>1 DEF Call, CallType
    <2>2. CASE Get(t)
      BY <2>2 DEF Get, CallType, TypeOK
    <2>3. CASE Timeout(t) \/ Deref(t)
      BY <2>3 DEF Timeout, Deref, Return, Idle, CallType
    <2>4. CASE Die(t)
      <3>1. [call[t] EXCEPT !.at = "dead"] \in CallType
        BY DEF TypeOK, CallType
      <3> QED
        BY <2>4, <3>1 DEF Die, Goto
    <2> QED
      BY <2>1, <2>2, <2>3, <2>4
  <1>3. TypeOK'
    BY <1>1, <1>2 DEF TypeOK
  <1>4. /\ \A u \in Thread \ {t} : call'[u] = call[u]
        /\ call[t].at \notin {"find", "emplace", "append"} \/ call'[t].at = "dead"
        /\ call'[t].at \notin {"find", "emplace", "append"}
        /\ call'[t].at # call[t].at
        /\ call'[t].at \notin {"idle", "dead"} => call'[t].name \in Name
        /\ call'[t].at = "deref" => call'[t].name \in DOMAIN map
        /\ call[t].at = "dead" => call'[t].at = "dead"
    <2> USE DEF TypeOK, CallType
    <2>1. CASE Call(t)
      BY <2>1 DEF Call, Idle
    <2>2. CASE Get(t)
      BY <2>2 DEF Get, Idle, DataInv
    <2>3. CASE Timeout(t) \/ Deref(t)
      BY <2>3 DEF Timeout, Deref, Return, Idle
    <2>4. CASE Die(t)
      BY <2>4 DEF Die, Goto
    <2> QED
      BY <2>1, <2>2, <2>3, <2>4
  <1>5. LockInv'
    BY <1>1, <1>4 DEF LockInv
  <1>6. DataInv'
    <2>1. \A u \in Thread : call'[u].at = "append" => call[u].at = "append" /\ call'[u] = call[u]
      BY <1>4
    <2>2. \A u \in Thread : call'[u].at = "deref" => call'[u].name \in DOMAIN map
      BY <1>4 DEF DataInv
    <2>3. \A u \in Thread : call'[u].at = "append" =>
            /\ call'[u].name \in half /\ map[call'[u].name] = Len(data) + 1
            /\ \A a \in answers : a[1] # call'[u].name
      BY <2>1 DEF DataInv, Arg
    <2> QED
      BY <1>1, <2>2, <2>3 DEF DataInv, Arg
  <1> QED
    BY <1>3, <1>5, <1>6

\* The steps that take or release the mutex without entering anything.
LEMMA MutexIInv ==
  ASSUME IInv, NEW t \in Thread, LockRead(t) \/ Find(t) \/ LockWrite(t)
  PROVE  IInv'
  <1> USE DEF IInv
  <1>1. UNCHANGED <<map, data, capacity, half, failures, deaths>>
    BY DEF LockRead, Find, LockWrite
  <1>2. PICK c \in CallType : call' = [call EXCEPT ![t] = c]
    <2>1. \A at \in {"find", "emplace", "await_write"} : [call[t] EXCEPT !.at = at] \in CallType
      BY DEF TypeOK, CallType
    <2>2. Idle \in CallType
      BY DEF Idle, CallType
    <2> QED
      BY <2>1, <2>2 DEF LockRead, Find, LockWrite, Return, Goto
  <1>3. answers' = answers \/ (Arg(t) \in DOMAIN map /\ answers' = answers \union {<<Arg(t), map[Arg(t)]>>})
    BY DEF LockRead, Find, LockWrite, Answer
  <1>4. reading' \subseteq Thread /\ writing' \subseteq Thread
    BY DEF LockRead, Find, LockWrite, Mutex!GrantRead, Mutex!GrantWrite, Mutex!Release, TypeOK
  <1>5. TypeOK'
    BY <1>1, <1>2, <1>3, <1>4 DEF TypeOK
  <1>6. LockInv'
    <2> USE DEF LockInv, TypeOK, CallType
    <2>1. CASE LockRead(t)
      BY <2>1 DEF LockRead, Goto, Mutex!GrantRead
    <2>2. CASE Find(t)
      <3>1. call'[t].at \in {"idle", "await_write"} /\ call'[t].name \in Name \union {0}
        BY <2>2 DEF Find, Goto, Return, Idle
      <3>2. /\ \A u \in Thread \ {t} : call'[u] = call[u]
            /\ call'[t].at # "idle" => call'[t].name = call[t].name
        BY <2>2 DEF Find, Goto, Return, Idle
      <3> QED
        BY <2>2, <3>1, <3>2 DEF Find, Mutex!Release
    <2>3. CASE LockWrite(t)
      BY <2>3 DEF LockWrite, Goto, Mutex!GrantWrite
    <2> QED
      BY <2>1, <2>2, <2>3
  <1>7. DataInv'
    <2>1. \A u \in Thread : call'[u].at \in {"append", "deref"} => u # t /\ call'[u] = call[u]
      BY DEF LockRead, Find, LockWrite, Goto, Return, Idle, TypeOK, CallType
    <2>2. CASE UNCHANGED answers
      BY <1>1, <2>1, <2>2 DEF DataInv
    <2>3. CASE Arg(t) \in DOMAIN map /\ answers' = answers \union {<<Arg(t), map[Arg(t)]>>} /\ Find(t)
      \* a reader holds the mutex: nobody is appending
      <3>1. \A u \in Thread : call[u].at # "append"
        BY <2>3 DEF Find, LockInv
      <3>2. \A a \in answers' : a[1] \in DOMAIN map /\ a[2] = map[a[1]]
        BY <2>3 DEF DataInv
      <3> QED
        BY <1>1, <2>1, <3>1, <3>2 DEF DataInv
    <2> QED
      BY <1>3, <2>2, <2>3 DEF LockRead, LockWrite
  <1> QED
    BY <1>5, <1>6, <1>7
\* Fewer strings are stored than there are names, one less if n has none.
LEMMA RoomForName ==
  ASSUME IInv, NEW n \in Name, n \notin DOMAIN map \/ n \in half
  PROVE  /\ Len(data) \in Nat
         /\ Len(data) + 1 < Width
         /\ (Len(data) + 1) % Width = Len(data) + 1
  <1>1. Stored \subseteq Name \ {n}
    BY DEF Stored, IInv, TypeOK
  <1>2. IsFiniteSet(Name \ {n}) /\ Cardinality(Name \ {n}) = Cardinality(Name) - 1
    BY StringsConstants, FS_RemoveElement
  <1>3. Cardinality(Stored) <= Cardinality(Name) - 1
    BY <1>1, <1>2, FS_Subset
  <1>4. Len(data) = Cardinality(Stored)
    BY DEF Stored, IInv, DataInv
  <1>6. Len(data) \in Nat
    BY DEF IInv, TypeOK
  <1>5. Cardinality(Name) \in Nat
    BY StringsConstants, FS_CardinalityType
  <1> QED
    BY <1>3, <1>4, <1>5, <1>6, NamesFit, StringsConstants

\* Under the write lock nobody else is in a critical section.
LEMMA WriterAlone ==
  ASSUME IInv, NEW t \in Thread, call[t].at \in {"emplace", "append"}
  PROVE  /\ writing = {t} /\ reading = {}
         /\ \A u \in Thread \ {t} : call[u].at \notin {"find", "emplace", "append"}
         /\ Arg(t) \in Name
  BY DEF IInv, LockInv

\* Entering a name: its index is free, and it is not known before its string is.
LEMMA EmplaceIInv ==
  ASSUME IInv, NEW t \in Thread, Emplace(t)
  PROVE  IInv'
  <1> USE DEF IInv, Emplace
  <1>1. /\ writing = {t} /\ reading = {}
        /\ \A u \in Thread \ {t} : call[u].at \notin {"find", "emplace", "append"}
        /\ Arg(t) \in Name
    BY WriterAlone
  <1>2. /\ \A u \in Thread \ {t} : call'[u] = call[u]
        /\ call' \in [Thread -> CallType]
    <2>1. Idle \in CallType /\ [call[t] EXCEPT !.at = "append"] \in CallType
      BY DEF Idle, TypeOK, CallType
    <2>2. call' = [call EXCEPT ![t] = Idle] \/ call' = [call EXCEPT ![t].at = "append"]
      BY DEF Return, Goto
    <2> QED
      BY <2>1, <2>2 DEF TypeOK
  <1>3. CASE Arg(t) \in DOMAIN map
    <2>1. call'[t] = Idle /\ reading' = {} /\ writing' = {}
      BY <1>1, <1>3 DEF Return, Mutex!Release, TypeOK
    <2>2. UNCHANGED <<map, data, capacity, half, failures, deaths>>
      BY <1>3
    <2>3. answers' = answers \union {<<Arg(t), map[Arg(t)]>>}
      BY <1>3 DEF Answer
    <2>4. TypeOK'
      BY <1>1, <1>2, <1>3, <2>1, <2>2, <2>3 DEF TypeOK
    <2>5. LockInv'
      BY <1>1, <1>2, <2>1 DEF LockInv, Idle
    <2>6. \A a \in answers' : a[1] \in DOMAIN map /\ a[2] = map[a[1]]
      BY <1>3, <2>3 DEF DataInv
    <2>7. \A u \in Thread : call'[u].at # "append" /\ (call'[u].at = "deref" => call'[u] = call[u])
      BY <1>1, <1>2, <2>1 DEF Idle
    <2>8. DataInv'
      BY <2>2, <2>6, <2>7 DEF DataInv
    <2> QED
      BY <2>4, <2>5, <2>8
  <1>4. CASE Arg(t) \notin DOMAIN map
    <2>1. /\ Len(data) \in Nat /\ Len(data) + 1 < Width
          /\ map' = [m \in DOMAIN map \union {Arg(t)} |->
                        IF m = Arg(t) THEN Len(data) + 1 ELSE map[m]]
      BY <1>1, <1>4, RoomForName DEF Entered
    <2>2. /\ half' = half \union {Arg(t)}
          /\ call'[t].at = "append" /\ call'[t].name = Arg(t)
          /\ UNCHANGED <<data, capacity, reading, writing, answers, failures, deaths>>
      BY <1>4 DEF Goto, TypeOK, CallType
    <2>3. TypeOK'
      <3>1. map' \in [DOMAIN map' -> 0 .. Width - 1] /\ DOMAIN map' \subseteq Name
        BY <1>1, <2>1, StringsConstants DEF TypeOK
      <3> QED
        BY <1>1, <1>2, <2>2, <3>1 DEF TypeOK
    <2>4. LockInv'
      BY <1>1, <1>2, <2>2 DEF LockInv
    <2>5. DOMAIN map' \ half' = DOMAIN map \ half
      BY <1>4, <2>1, <2>2
    <2>6. \A n \in DOMAIN map : n \in DOMAIN map' /\ map'[n] = map[n]
      BY <1>4, <2>1
    <2>7. /\ \A n \in DOMAIN map' : map'[n] # NoIndex
          /\ half' \subseteq DOMAIN map'
          /\ \A a \in answers : a[1] # Arg(t)
      BY <1>4, <2>1, <2>2 DEF DataInv, NoIndex
    <2>8. /\ \A n \in DOMAIN map' \ half' : map'[n] \in DOMAIN data' /\ data'[map'[n]] = n
          /\ Len(data') = Cardinality(DOMAIN map' \ half')
          /\ \A a \in answers' : a[1] \in DOMAIN map' /\ a[2] = map'[a[1]]
      BY <2>2, <2>5, <2>6 DEF DataInv
    <2>9. \A u \in Thread :
            /\ call'[u].at = "append" => u = t
            /\ call'[u].at = "deref" => call'[u].name \in DOMAIN map'
      BY <1>1, <1>2, <2>2, <2>6 DEF DataInv
    <2>10. /\ call'[t].name \in half' /\ map'[call'[t].name] = Len(data') + 1
           /\ \A a \in answers' : a[1] # call'[t].name
      BY <2>1, <2>2, <2>7
    <2>11. DataInv'
      BY <2>7, <2>8, <2>9, <2>10 DEF DataInv
    <2> QED
      BY <2>3, <2>4, <2>11
  <1> QED
    BY <1>3, <1>4

\* Appending its string: the index the name got is that of the string.
LEMMA AppendIInv ==
  ASSUME IInv, NEW t \in Thread, AppendString(t)
  PROVE  IInv'
  <1> USE DEF IInv, AppendString
  <1> DEFINE n == Arg(t)
  <1>1. /\ writing = {t} /\ reading = {}
        /\ \A u \in Thread \ {t} : call[u].at \notin {"find", "emplace", "append"}
        /\ n \in Name
    BY WriterAlone
  <1>2. /\ \A u \in Thread \ {t} : call'[u] = call[u]
        /\ call'[t] = Idle /\ call' \in [Thread -> CallType]
    BY DEF Return, Idle, TypeOK, CallType
  <1>3. reading' = {} /\ writing' = {}
    BY <1>1 DEF Mutex!Release
  <1>4. /\ n \in half /\ n \in DOMAIN map /\ map[n] = Len(data) + 1
        /\ answers' = answers \union {<<n, map[n]>>}
        /\ UNCHANGED <<map, failures, deaths>>
    BY DEF DataInv, Answer
  <1>5. TypeOK'
    <2>1. data' \in Seq(Name) /\ capacity' \in Nat /\ half' \subseteq Name
      BY <1>1 DEF TypeOK
    <2> QED
      BY <1>1, <1>2, <1>3, <1>4, <2>1 DEF TypeOK
  <1>6. LockInv'
    BY <1>1, <1>2, <1>3 DEF LockInv, Idle
  <1>7. /\ Len(data') = Len(data) + 1
        /\ \A i \in DOMAIN data : i \in DOMAIN data' /\ data'[i] = data[i]
        /\ Len(data) + 1 \in DOMAIN data' /\ data'[Len(data) + 1] = n
    BY <1>1 DEF TypeOK
  <1>8. \A m \in DOMAIN map \ half' : map[m] \in DOMAIN data' /\ data'[map[m]] = m
    <2> SUFFICES ASSUME NEW m \in DOMAIN map \ half'
                 PROVE  map[m] \in DOMAIN data' /\ data'[map[m]] = m
      OBVIOUS
    <2>1. CASE m = n
      BY <1>4, <1>7, <2>1
    <2>2. CASE m # n
      BY <1>7, <2>2 DEF DataInv
    <2> QED
      BY <2>1, <2>2
  <1>9. Len(data') = Cardinality(DOMAIN map \ half')
    <2>1. DOMAIN map \ half' = Stored \union {n} /\ n \notin Stored
      BY <1>4 DEF Stored
    <2>2. IsFiniteSet(Stored)
      BY StringsConstants, FS_Subset DEF Stored, TypeOK
    <2>3. Cardinality(Stored \union {n}) = Cardinality(Stored) + 1
      BY <2>1, <2>2, FS_AddElement
    <2> QED
      BY <1>7, <2>1, <2>3 DEF Stored, DataInv
  <1>10. \A a \in answers' : a[1] \in DOMAIN map /\ a[2] = map[a[1]]
    BY <1>4 DEF DataInv
  <1>11. \A u \in Thread : call'[u].at # "append" /\ (call'[u].at = "deref" => call'[u] = call[u])
    BY <1>1, <1>2 DEF Idle
  <1>12. DataInv'
    BY <1>4, <1>8, <1>9, <1>10, <1>11 DEF DataInv
  <1> QED
    BY <1>5, <1>6, <1>12

\* A refused allocation: the name that was entered stays half.
LEMMA NoMemoryIInv ==
  ASSUME IInv, NEW t \in Thread, NoMemory(t)
  PROVE  IInv'
  <1> USE DEF IInv, NoMemory
  <1>1. /\ \A u \in Thread \ {t} : call'[u] = call[u]
        /\ call'[t] = Idle /\ call' \in [Thread -> CallType]
    BY DEF Return, Idle, TypeOK, CallType
  <1>2. UNCHANGED <<map, data, capacity, half, answers, deaths>> /\ failures' \in 0 .. MaxFailures
    BY StringsConstants DEF TypeOK
  <1>3. reading' = reading \ {t} /\ writing' = writing \ {t}
    BY DEF LockInv, Mutex!Release
  <1>4. TypeOK'
    BY <1>1, <1>2, <1>3 DEF TypeOK
  <1>5. LockInv'
    BY <1>1, <1>3 DEF LockInv, Idle
  <1>6. \A u \in Thread : call'[u].at \in {"append", "deref"} => call'[u] = call[u]
    BY <1>1 DEF Idle
  <1>7. \A u \in Thread : call'[u].at = "append" =>
          /\ call'[u].name \in half /\ map[call'[u].name] = Len(data) + 1
          /\ \A a \in answers : a[1] # call'[u].name
    <2> HIDE DEF NoMemory
    <2> SUFFICES ASSUME NEW u \in Thread, call'[u].at = "append"
                 PROVE  /\ call'[u].name \in half /\ map[call'[u].name] = Len(data) + 1
                        /\ \A a \in answers : a[1] # call'[u].name
      OBVIOUS
    <2>1. call'[u] = call[u]
      BY <1>6
    <2> QED
      BY <2>1 DEF DataInv, Arg
  <1>8. \A u \in Thread : call'[u].at = "deref" => call'[u].name \in DOMAIN map
    <2> HIDE DEF NoMemory
    <2> QED
      BY <1>6 DEF DataInv, Arg
  <1>9. DataInv'
    BY <1>2, <1>7, <1>8 DEF DataInv
  <1> QED
    BY <1>4, <1>5, <1>9
\* Every step keeps the invariant.
LEMMA NextIInv == IInv /\ [Next]_vars => IInv'
  <1> SUFFICES ASSUME IInv, [Next]_vars PROVE IInv'
    OBVIOUS
  <1>1. CASE UNCHANGED vars
    BY <1>1 DEF vars, IInv, TypeOK, LockInv, DataInv
  <1>2. ASSUME NEW t \in Thread, Call(t) \/ Get(t) \/ Runs(t) \/ NoMemory(t) \/ Die(t)
        PROVE  IInv'
    BY <1>2, QuietIInv, MutexIInv, EmplaceIInv, AppendIInv, NoMemoryIInv DEF Runs
  <1> QED
    BY <1>1, <1>2 DEF Next

\* The inductive invariant holds for any threads and names an index can count.
THEOREM Invariance == Spec => []IInv
  BY InitIInv, NextIInv, PTL DEF Spec

\* get finds the name it was given the index of, if data has not moved.
THEOREM GetCorrect == Spec => []GetFindsName
  <1>1. IInv => GetFindsName
    BY DEF IInv, DataInv, GetFindsName
  <1> QED
    BY Invariance, <1>1, PTL

----------------------------------------------------------------------------
(* Names without a string                                                  *)

\* without a refused allocation, the thread that enters a half name has the
\* mutex, dead or alive
HalfHeld ==
    failures = 0 =>
        \A n \in half : \E t \in writing :
            call[t].name = n /\ call[t].at \in {"append", "dead"}

HalfInv == HalfHeld /\ ExposedOnlyByFailure

\* One step keeps half names secret.
LEMMA NextHalfInv == IInv /\ HalfInv /\ [Next]_vars => HalfInv'
  <1> SUFFICES ASSUME IInv, HalfInv, [Next]_vars PROVE HalfInv'
    OBVIOUS
  <1> USE DEF HalfInv, HalfHeld, ExposedOnlyByFailure
  <1>1. CASE UNCHANGED vars
    BY <1>1 DEF vars
  <1>2. ASSUME NEW t \in Thread, Call(t) \/ Get(t) \/ Timeout(t) \/ Deref(t) \/ Die(t)
        PROVE  HalfInv'
    <2>1. UNCHANGED <<map, half, reading, writing, answers, failures>>
      BY <1>2 DEF Call, Get, Timeout, Deref, Die
    <2>2. \A u \in writing : call[u].at \in {"append", "dead"} =>
            call'[u].name = call[u].name /\ call'[u].at \in {"append", "dead"}
      BY <1>2 DEF Call, Get, Timeout, Deref, Die, Return, Goto, Idle, IInv, TypeOK, CallType
    <2> QED
      BY <2>1, <2>2
  <1>3. ASSUME NEW t \in Thread, LockRead(t) \/ Find(t) \/ LockWrite(t)
        PROVE  HalfInv'
    <2>1. UNCHANGED <<half, failures>>
      BY <1>3 DEF LockRead, Find, LockWrite
    <2>2. failures = 0 => half = {}
      <3>1. writing = {}
        BY <1>3 DEF LockRead, Find, LockWrite, IInv, TypeOK, LockInv, Mutex!GrantRead, Mutex!GrantWrite
      <3> QED
        BY <3>1
    <2> QED
      BY <2>1, <2>2
  <1>4. ASSUME NEW t \in Thread, Emplace(t) \/ AppendString(t)
        PROVE  HalfInv'
    <2>1. writing = {t}
      BY <1>4, WriterAlone DEF Emplace, AppendString
    <2>2. CASE Emplace(t)
      <3>1. failures = 0 => half = {}
        BY <2>1, <2>2 DEF Emplace
      <3>2. CASE Arg(t) \in DOMAIN map
        BY <2>2, <3>1, <3>2 DEF Emplace
      <3>3. CASE Arg(t) \notin DOMAIN map
        <4>1. half' = half \union {Arg(t)} /\ UNCHANGED <<answers, writing, failures>>
          BY <2>2, <3>3 DEF Emplace
        <4>2. call'[t].name = Arg(t) /\ call'[t].at = "append"
          BY <2>2, <3>3 DEF Emplace, Goto, IInv, TypeOK, CallType
        <4>3. \A a \in answers : a[1] # Arg(t)
          BY <3>3 DEF IInv, DataInv
        <4> QED
          BY <2>1, <3>1, <4>1, <4>2, <4>3
      <3> QED
        BY <3>2, <3>3
    <2>3. CASE AppendString(t)
      <3>1. failures = 0 => half' = {}
        BY <2>1, <2>3 DEF AppendString
      <3> QED
        BY <2>3, <3>1 DEF AppendString
    <2> QED
      BY <1>4, <2>2, <2>3
  <1>5. ASSUME NEW t \in Thread, NoMemory(t)
        PROVE  HalfInv'
    BY <1>5 DEF NoMemory, IInv, TypeOK
  <1> QED
    BY <1>1, <1>2, <1>3, <1>4, <1>5 DEF Next, Runs

\* Only a refused allocation exposes a name without a string; the death of the
\* thread that enters it does not.
THEOREM ExposureCorrect == Spec => []ExposedOnlyByFailure
  <1>1. Init => HalfInv
    BY DEF Init, HalfInv, HalfHeld, ExposedOnlyByFailure
  <1> QED
    BY Invariance, <1>1, NextHalfInv, PTL DEF Spec, HalfInv

----------------------------------------------------------------------------
(* Refinement                                                              *)

Index == [n \in Stored |-> map[n]]
Answers == {a \in answers : a[1] \notin half}

\* Steps that enter nothing and tell nothing stutter.
LEMMA QuietRefines ==
  ASSUME UNCHANGED <<map, half, answers>>
  PROVE  UNCHANGED <<Index, Answers>>
  BY DEF Index, Answers, Stored

\* Telling the index of a name that is in map.
LEMMA TellRefines ==
  ASSUME IInv, UNCHANGED <<map, half>>, NEW n \in DOMAIN map,
         answers' = answers \union {<<n, map[n]>>}
  PROVE  Table!Tell(n) \/ UNCHANGED <<Index, Answers>>
  <1>1. Index' = Index
    BY DEF Index, Stored
  <1>2. CASE n \in half
    BY <1>1, <1>2 DEF Answers
  <1>3. CASE n \notin half
    <2>1. n \in DOMAIN Index /\ Index[n] = map[n]
      BY <1>3 DEF Index, Stored
    <2>2. Answers' = Answers \union {<<n, map[n]>>}
      BY <1>3 DEF Answers
    <2> QED
      BY <1>1, <2>1, <2>2 DEF Table!Tell, Index, Answers, Stored
  <1> QED
    BY <1>2, <1>3

\* Each step of the storage is a step of the table or a stutter.
LEMMA NextRefines ==
  IInv /\ [Next]_vars => [Table!Next]_<<Index, Answers>>
  <1> SUFFICES ASSUME IInv, [Next]_vars
               PROVE  Table!Next \/ UNCHANGED <<Index, Answers>>
    OBVIOUS
  <1>1. CASE UNCHANGED vars
    BY <1>1, QuietRefines DEF vars
  <1>2. ASSUME NEW t \in Thread,
               Call(t) \/ Get(t) \/ Timeout(t) \/ Deref(t) \/ Die(t) \/ NoMemory(t)
                 \/ LockRead(t) \/ LockWrite(t)
        PROVE  UNCHANGED <<Index, Answers>>
    <2>1. UNCHANGED <<map, half, answers>>
      BY <1>2 DEF Call, Get, Timeout, Deref, Die, NoMemory, LockRead, LockWrite
    <2> QED
      BY <2>1, QuietRefines
  <1>3. ASSUME NEW t \in Thread, Find(t) \/ (Emplace(t) /\ Arg(t) \in DOMAIN map)
        PROVE  Table!Next \/ UNCHANGED <<Index, Answers>>
    <2>1. UNCHANGED <<map, half>>
      BY <1>3 DEF Find, Emplace
    <2>2. CASE UNCHANGED answers
      BY <2>1, <2>2, QuietRefines
    <2>3. CASE Arg(t) \in DOMAIN map /\ answers' = answers \union {<<Arg(t), map[Arg(t)]>>}
      <3>1. Table!Tell(Arg(t)) \/ UNCHANGED <<Index, Answers>>
        BY <2>1, <2>3, TellRefines DEF Table!Tell
      <3>2. Arg(t) \in Name
        BY <2>3 DEF IInv, TypeOK
      <3> QED
        BY <3>1, <3>2 DEF Table!Next, Table!Tell
    <2> QED
      BY <1>3, <2>2, <2>3 DEF Find, Emplace, Answer
  <1>4. ASSUME NEW t \in Thread, Emplace(t), Arg(t) \notin DOMAIN map
        PROVE  UNCHANGED <<Index, Answers>>
    <2>1. /\ half' = half \union {Arg(t)} /\ answers' = answers
          /\ DOMAIN map' = DOMAIN map \union {Arg(t)}
          /\ \A n \in DOMAIN map : map'[n] = map[n]
      BY <1>4 DEF Emplace, Entered
    <2>2. Stored' = Stored
      BY <1>4, <2>1 DEF Stored, IInv, DataInv
    <2>3. Index' = Index
      BY <2>1, <2>2 DEF Index, Stored
    <2>4. \A a \in answers : a[1] # Arg(t)
      BY <1>4 DEF IInv, DataInv
    <2> QED
      BY <2>1, <2>3, <2>4 DEF Answers
  <1>5. ASSUME NEW t \in Thread, AppendString(t)
        PROVE  Table!Next
    <2> DEFINE n == Arg(t)
    <2>1. /\ n \in half /\ n \in DOMAIN map /\ map[n] = Len(data) + 1 /\ n \in Name
          /\ half' = half \ {n} /\ map' = map
          /\ answers' = answers \union {<<n, map[n]>>}
          /\ \A a \in answers : a[1] # n
      BY <1>5, WriterAlone DEF AppendString, Answer, IInv, DataInv
    <2>2. Stored' = Stored \union {n} /\ n \notin Stored
      BY <2>1 DEF Stored
    <2>3. Index' = [m \in Stored \union {n} |-> IF m = n THEN map[n] ELSE Index[m]]
      BY <2>1, <2>2 DEF Index, Stored
    <2>4. Answers' = Answers \union {<<n, map[n]>>}
      BY <2>1 DEF Answers
    <2>5. /\ map[n] \in 0 .. Width - 1 /\ map[n] # 0
          /\ \A m \in Stored : Index[m] # map[n]
      <3>1. Len(data) \in Nat /\ Len(data) + 1 < Width
        BY <2>1, RoomForName
      <3>2. \A m \in Stored : map[m] \in 1 .. Len(data)
        <4>1. \A m \in Stored : map[m] \in DOMAIN data
          BY DEF Stored, IInv, DataInv
        <4>2. DOMAIN data = 1 .. Len(data)
          BY DEF IInv, TypeOK
        <4> QED
          BY <4>1, <4>2
      <3> QED
        BY <2>1, <3>1, <3>2, StringsConstants DEF Index
    <2>6. DOMAIN Index = Stored
      BY DEF Index
    <2>7. Table!Give(n, map[n])
      BY <2>2, <2>3, <2>4, <2>5, <2>6 DEF Table!Give, Index, Answers, Stored
    <2> QED
      BY <2>1, <2>5, <2>7 DEF Table!Next, Table!Give
  <1> QED
    BY <1>1, <1>2, <1>3, <1>4, <1>5 DEF Next, Runs

\* The storage of names implements the abstract table of names.
THEOREM Refinement == Spec => ImplementsNameTable
  <1>1. Init => Table!Init
    BY DEF Init, Table!Init
  <1>2. IInv /\ [Next]_vars => [Table!Next]_Table!tableVars
    BY NextRefines DEF Table!tableVars, Index, Answers, Stored
  <1> QED
    BY Invariance, <1>1, <1>2, PTL DEF Spec, ImplementsNameTable, Table!Spec
=============================================================================
