------------------------------- MODULE Strings -------------------------------
(***************************************************************************)
(* StringStorage (stst_alloc.cpp), the table of field names in a segment,  *)
(* used by threads of all processes at once.  internalize looks a name up  *)
(* under a read lock, lets go, and enters it under a write lock; get takes *)
(* no lock.  Any allocation may fail, a lock call may time out, and a      *)
(* process may die in the middle, with the lock.                           *)
(*                                                                         *)
(* The mutex is the abstract RWLock that SpinMutex implements.  half is    *)
(* history: the names that are in map without their string being in data.  *)
(***************************************************************************)
EXTENDS Integers, FiniteSets, Sequences

CONSTANTS
    Thread,
    Name,
    Width,          \* shr_string_idx counts modulo Width
    MaxFailures,    \* bound: allocations that fail
    MaxDeaths       \* bound: threads whose process dies in a call

ASSUME StringsConstants ==
    /\ IsFiniteSet(Name) /\ 0 \notin Name
    /\ Width \in Nat /\ MaxFailures \in Nat /\ MaxDeaths \in Nat

\* data.size(), with element 0, does not exceed what an index can say
ASSUME NamesFit == Cardinality(Name) < Width

VARIABLES
    map,        \* index of each name
    data,       \* the strings from index 1 on; element 0 is "none"
    capacity,   \* of data, with element 0; data moves whenever it grows
    reading, writing,   \* who holds the mutex
    call,       \* the call each thread is in
    answers,    \* history: the names and indices internalize and get_idx returned
    half, failures, deaths

vars == <<map, data, capacity, reading, writing, call, answers, half, failures, deaths>>
storage == <<map, data, capacity, half>>
history == <<answers, failures, deaths>>

Mutex == INSTANCE RWLock WITH Handle <- Thread, Owner <- [t \in Thread |-> t]

NoIndex == 0
Idle == [at |-> "idle", name |-> 0, intern |-> FALSE, base |-> 0]

CallType ==
    [at : {"idle", "await_read", "find", "await_write", "emplace", "append", "deref", "dead"},
     name : Name \union {0},    \* argument
     intern : BOOLEAN,          \* internalize or get_idx alone
     base : Nat]                \* the storage that get has read &data[0] of

TypeOK ==
    /\ DOMAIN map \subseteq Name /\ map \in [DOMAIN map -> 0 .. Width - 1]
    /\ data \in Seq(Name)
    /\ capacity \in Nat
    /\ reading \subseteq Thread /\ writing \subseteq Thread
    /\ call \in [Thread -> CallType]
    /\ answers \subseteq Name \X (0 .. Width - 1)
    /\ half \subseteq Name
    /\ failures \in 0 .. MaxFailures /\ deaths \in 0 .. MaxDeaths

Init ==
    /\ map = [n \in {} |-> 0] /\ data = <<>> /\ capacity = 1
    /\ Mutex!Init
    /\ call = [t \in Thread |-> Idle]
    /\ answers = {} /\ half = {} /\ failures = 0 /\ deaths = 0

----------------------------------------------------------------------------

Goto(t, at) == call' = [call EXCEPT ![t].at = at]
Return(t) == call' = [call EXCEPT ![t] = Idle]
Answer(t, i) == answers' = answers \union {<<call[t].name, i>>}
Arg(t) == call[t].name

Call(t) ==
    /\ call[t] = Idle
    /\ \E n \in Name, b \in BOOLEAN :
        call' = [call EXCEPT ![t] = [at |-> "await_read", name |-> n, intern |-> b, base |-> 0]]
    /\ UNCHANGED <<storage, reading, writing, history>>

LockRead(t) ==
    /\ call[t].at = "await_read"
    /\ Mutex!GrantRead(t)
    /\ Goto(t, "find")
    /\ UNCHANGED <<storage, history>>

\* get_idx: map.find, and the end of its lock
Find(t) ==
    /\ call[t].at = "find"
    /\ Mutex!Release(t)
    /\ IF Arg(t) \in DOMAIN map /\ (map[Arg(t)] # NoIndex \/ ~call[t].intern)
         THEN Answer(t, map[Arg(t)]) /\ Return(t)
         ELSE /\ UNCHANGED answers
              /\ IF call[t].intern THEN Goto(t, "await_write") ELSE Return(t)
    /\ UNCHANGED <<storage, failures, deaths>>

\* faulty: a read lock is taken to enter the name
LockWriteAsReader(t) ==
    /\ call[t].at = "await_write"
    /\ Mutex!GrantRead(t)
    /\ Goto(t, "emplace")
    /\ UNCHANGED <<storage, history>>

LockWrite(t) ==
    /\ call[t].at = "await_write"
    /\ Mutex!GrantWrite(t)
    /\ Goto(t, "emplace")
    /\ UNCHANGED <<storage, history>>

\* faulty: the index does not count element 0
EnteredFromZero(n) ==
    map' = [m \in DOMAIN map \union {n} |-> IF m = n THEN Len(data) ELSE map[m]]

Entered(n) ==
    map' = [m \in DOMAIN map \union {n} |-> IF m = n THEN (Len(data) + 1) % Width ELSE map[m]]

\* faulty: the lock ends before the string is appended
EmplaceUnlocks(t) ==
    /\ call[t].at = "emplace"
    /\ IF Arg(t) \in DOMAIN map
         THEN Answer(t, map[Arg(t)]) /\ Return(t) /\ UNCHANGED <<map, half>>
         ELSE /\ Entered(Arg(t)) /\ half' = half \union {Arg(t)}
              /\ Goto(t, "append") /\ UNCHANGED answers
    /\ Mutex!Release(t)
    /\ UNCHANGED <<data, capacity, failures, deaths>>

\* map.emplace; a new entry gets data.size() for its index
Emplace(t) ==
    /\ call[t].at = "emplace"
    /\ IF Arg(t) \in DOMAIN map
         THEN /\ Answer(t, map[Arg(t)])
              /\ Mutex!Release(t) /\ Return(t)
              /\ UNCHANGED <<map, half>>
         ELSE /\ Entered(Arg(t))
              /\ half' = half \union {Arg(t)}
              /\ Goto(t, "append")
              /\ UNCHANGED <<reading, writing, answers>>
    /\ UNCHANGED <<data, capacity, failures, deaths>>

\* data.emplace_back
AppendString(t) ==
    /\ call[t].at = "append"
    /\ data' = Append(data, Arg(t))
    /\ capacity' = IF Len(data) + 1 = capacity THEN 2 * capacity ELSE capacity
    /\ half' = half \ {Arg(t)}
    /\ Answer(t, map[Arg(t)])
    /\ Mutex!Release(t) /\ Return(t)
    /\ UNCHANGED <<map, failures, deaths>>

\* insufficient space, for the copy of the name, for the entry or for the string:
\* the entry of a name whose string was refused stays
NoMemory(t) ==
    /\ failures < MaxFailures
    /\ \/ call[t].at \in {"await_read", "await_write"} /\ UNCHANGED <<reading, writing>>
       \/ /\ call[t].at = "append" \/ (call[t].at = "emplace" /\ Arg(t) \notin DOMAIN map)
          /\ Mutex!Release(t)
    /\ Return(t)
    /\ failures' = failures + 1
    /\ UNCHANGED <<storage, answers, deaths>>

\* faulty: a reader waits for ever
TimeoutWrite(t) ==
    /\ call[t].at = "await_write" /\ reading \union writing # {}
    /\ Return(t)
    /\ UNCHANGED <<storage, reading, writing, history>>

\* the lock call throws after 0.1 s
Timeout(t) ==
    /\ \/ call[t].at = "await_read" /\ writing # {}
       \/ call[t].at = "await_write" /\ reading \union writing # {}
    /\ Return(t)
    /\ UNCHANGED <<storage, reading, writing, history>>

\* get reads where data lies and computes the address of an element ...
Get(t) ==
    /\ call[t] = Idle
    /\ \E a \in answers :
        /\ a[2] # NoIndex
        /\ call' = [call EXCEPT ![t] = [at |-> "deref", name |-> a[1], intern |-> FALSE,
                                        base |-> capacity]]
    /\ UNCHANGED <<storage, reading, writing, history>>

\* ... through which the caller looks at the string
Deref(t) ==
    /\ call[t].at = "deref"
    /\ Return(t)
    /\ UNCHANGED <<storage, reading, writing, history>>

\* the process is killed; what it has locked stays locked
Die(t) ==
    /\ call[t].at \notin {"idle", "dead"} /\ deaths < MaxDeaths
    /\ Goto(t, "dead") /\ deaths' = deaths + 1
    /\ UNCHANGED <<storage, reading, writing, answers, failures>>

Runs(t) ==
    \/ LockRead(t) \/ Find(t) \/ LockWrite(t) \/ Emplace(t) \/ AppendString(t)
    \/ Timeout(t) \/ Deref(t)

Next == \E t \in Thread : Call(t) \/ Get(t) \/ Runs(t) \/ NoMemory(t) \/ Die(t)

Spec == Init /\ [][Next]_vars

\* a thread inside of a call goes on until it dies
FairSpec == Spec /\ \A t \in Thread : WF_vars(Runs(t))

----------------------------------------------------------------------------

Table == INSTANCE NameTable WITH
    Index <- 0 .. Width - 1,
    index <- [n \in DOMAIN map \ half |-> map[n]],
    answers <- {a \in answers : a[1] \notin half}

(* The mutex is held exactly from a lock call to the end of its scope, by  *)
(* readers or by one writer, unless the holder's process has died.         *)
LockInv ==
    /\ reading = {} \/ writing = {}
    /\ \A t, u \in writing : t = u
    /\ \A t \in Thread :
        /\ call[t].at = "find" => t \in reading
        /\ call[t].at \in {"emplace", "append"} => t \in writing
        /\ t \in reading => call[t].at \in {"find", "dead"}
        /\ t \in writing => call[t].at \in {"emplace", "append", "dead"}
        /\ call[t].at \notin {"idle", "dead"} => Arg(t) \in Name

(* Each name whose string is stored leads to it; only the last step of the *)
(* one writer makes a stored name of a half one, and nobody knows it yet.  *)
DataInv ==
    /\ half \subseteq DOMAIN map
    /\ \A n \in DOMAIN map : map[n] # NoIndex
    /\ \A n \in DOMAIN map \ half : map[n] \in DOMAIN data /\ data[map[n]] = n
    /\ Len(data) = Cardinality(DOMAIN map \ half)
    /\ \A a \in answers : a[1] \in DOMAIN map /\ a[2] = map[a[1]]
    /\ \A t \in Thread :
        /\ call[t].at = "append" =>
            /\ Arg(t) \in half /\ map[Arg(t)] = Len(data) + 1
            /\ \A a \in answers : a[1] # Arg(t)
        /\ call[t].at = "deref" => Arg(t) \in DOMAIN map

IInv == TypeOK /\ LockInv /\ DataInv

(* Names keep their indices, no two names with a string share one, and all *)
(* answers agree, whatever is looked up, entered, refused or killed        *)
(* concurrently.                                                           *)
ImplementsNameTable == Table!Spec

(* get leads everybody who was told an index to the name, if it was stored *)
(* and data has not moved between the two steps: get takes no lock, and    *)
(* appending to data must not disturb it otherwise.                        *)
GetFindsName ==
    \A t \in Thread :
        call[t].at = "deref" /\ Arg(t) \notin half /\ call[t].base = capacity =>
            map[Arg(t)] \in DOMAIN data /\ data[map[Arg(t)]] = Arg(t)

(* Nobody is told the index of a name that has no string because its       *)
(* process died on the way: only a refused allocation can expose one.      *)
ExposedOnlyByFailure ==
    failures = 0 => \A a \in answers : a[1] \notin half

(* Every call returns or throws, also when the holder of the mutex is dead.*)
CallsEnd ==
    \A t \in Thread : call[t].at \notin {"idle", "dead"} ~> call[t].at \in {"idle", "dead"}
=============================================================================
