------------------------------ MODULE Bindings ------------------------------
(***************************************************************************)
(* Python processes that work on a list in a shared store: the bindings of *)
(* structstore_py.cpp and stst_py.hpp on top of the locks of FieldLock.    *)
(* A binding is a C++ function that constructs a ScopedFieldLock, works on *)
(* the container and destroys the lock object when it returns or throws.   *)
(* A list iterator keeps two lock objects until Python drops it, read_lock *)
(* and write_lock hand one to Python.  Looking an attribute up, removing   *)
(* one and clear() of a store take no lock at all.                         *)
(*                                                                         *)
(* A thread is the interpreter of one process: the GIL is held throughout  *)
(* a binding.  Of the Python code that a binding may call only the         *)
(* iteration of extend() over the list itself is modelled.                 *)
(*                                                                         *)
(* The store has one attribute.  A list's elements are None (an empty      *)
(* field) or values.  Once freed memory is used nothing is said about what *)
(* follows (undefined).  careless is history, see ProtectedUse.            *)
(***************************************************************************)
EXTENDS FieldLock

CONSTANTS
    Store, List,    \* the two fields
    Value, None,
    Block, NoBlock, \* addresses of the list
    MaxLength       \* bound: elements of the list

VARIABLES
    block,      \* the block of the list that the attribute holds
    items,      \* the elements of that list
    py,         \* the binding each thread runs
    ref,        \* the list reference a thread got from the store
    undefined,  \* freed memory was used
    careless    \* history: somebody did not follow the protocol of ProtectedUse

dvars == <<block, items, py, ref, undefined, careless>>
bvars == <<vars, dvars>>

(* The lock objects of a thread: the one Python got from write_lock() or   *)
(* read_lock() of the store, the one of __setattr__, those of the list     *)
(* functions and of __iter__, and those of the two iterators.              *)
Role == {"with", "set", "body", "iter", "begin", "end"}
With(t) == <<t, "with">>
Begin(t) == <<t, "begin">>
End(t) == <<t, "end">>
Iter(t) == <<t, "iter">>

ASSUME BindingsConstants ==
    /\ Store \in Field /\ List \in Field /\ Store # List
    /\ Parent[Store] = NoField /\ Parent[List] = Store
    /\ Path[Store] = <<Store>> /\ Path[List] = <<Store, List>>
    /\ Handle = Thread \X Role
    /\ \A h \in Handle :
         /\ Owner[h] = h[1]
         /\ Target[h] = IF h[2] \in {"with", "set"} THEN Store ELSE List
    /\ None \notin Value /\ NoBlock \notin Block
    /\ MaxLength \in Nat

Reader == {"getitem", "iter"}
Writer == {"insert", "extend", "setitem", "delitem", "clear"}
Function == Reader \union Writer \union {"setattr"}

\* the lock object of the binding that t runs
LockOf(t, fn) ==
    <<t, IF fn = "setattr" THEN "set" ELSE IF fn = "iter" THEN "iter" ELSE "body">>

\* faulty: __setattr__ only locks for reading; __iter__ locks for writing
KindOfAssignmentReads(fn) == IF fn \in Reader \union {"setattr"} THEN "read" ELSE "write"
KindOfIterationWrites(fn) == IF fn = "getitem" THEN "read" ELSE "write"

KindOf(fn) == IF fn \in Reader THEN "read" ELSE "write"

NotRunning == [fn |-> "none", at |-> "none", i |-> 0]
PyType ==
    [fn : Function \union {"none", "drop"},
     at : {"none", "lock", "body", "convert", "begin", "end", "leave"}, i : Nat]

BTypeOK ==
    /\ TypeOK
    /\ block \in Block \union {NoBlock}
    /\ items \in Seq(Value \union {None})
    /\ py \in [Thread -> PyType]
    /\ ref \in [Thread -> [block : Block \union {NoBlock}, kept : BOOLEAN]]
    /\ undefined \in BOOLEAN /\ careless \in BOOLEAN

BInit ==
    /\ Init
    /\ block \in Block /\ items = <<>>
    /\ py = [t \in Thread |-> NotRunning]
    /\ ref = [t \in Thread |-> [block |-> NoBlock, kept |-> FALSE]]
    /\ undefined = FALSE /\ careless = FALSE

----------------------------------------------------------------------------

Running(t) == py[t].fn # "none"
Ready(t) == ~undefined /\ ~Running(t) /\ call[t] = Idle

\* control is in the binding fn, behind the constructor of its lock object
In(t, fn) ==
    /\ ~undefined
    /\ py[t].fn = fn /\ call[t] = Idle /\ held[LockOf(t, fn)] # "none"

At(t, at) == py' = [py EXCEPT ![t].at = at]

Iterating(t) == held[End(t)] # "none"

\* a lock object for the list exists or is being constructed or destroyed
InUse ==
    \E h \in Handle :
        /\ Target[h] = List
        /\ held[h] # "none" \/ (\E t \in Thread : call[t].h = h)

\* another thread is in the body of __setattr__, at work on the attribute
Racing(t) == \E u \in Thread \ {t} : In(u, "setattr")

\* t destroys the list and leaves the reference it has itself dangling
Free(t) ==
    /\ block' = NoBlock /\ items' = <<>>
    /\ ref' = [ref EXCEPT ![t].kept = FALSE]
    /\ undefined' = (InUse \/ Racing(t))

----------------------------------------------------------------------------
(* Python code outside of a binding.                                       *)

\* read_lock() and write_lock() of the store
EnterWith(t, k) ==
    /\ Ready(t)
    /\ CallLock(t, With(t), k)
    /\ UNCHANGED dvars

\* __exit__ of the lock object
ExitWith(t) ==
    /\ Ready(t)
    /\ CallUnlock(t, With(t))
    /\ ref' = [ref EXCEPT ![t].kept = FALSE]
    /\ UNCHANGED <<block, items, py, undefined, careless>>

\* __getattr__ and __getitem__ of the store
GetAttr(t) ==
    /\ Ready(t)
    /\ ref' = [ref EXCEPT ![t] = [block |-> block, kept |-> held[With(t)] # "none"]]
    /\ undefined' \in {FALSE, Racing(t)}
    /\ careless' = (careless \/ held[With(t)] = "none")
    /\ UNCHANGED <<vars, block, items, py>>

\* __delattr__, __delitem__ and clear() of the store
DelAttr(t) ==
    /\ Ready(t) /\ block # NoBlock
    /\ Free(t)
    /\ careless' = (careless \/ held[With(t)] # "write" \/ Iterating(t))
    /\ UNCHANGED <<vars, py>>

\* faulty: append and insert only lock for reading
CallForReading(t, fn) ==
    /\ Ready(t)
    /\ fn # "setattr" => ref[t].block # NoBlock
    /\ fn = "iter" => ~Iterating(t)
    /\ careless' = (careless \/ (fn # "setattr" /\ ~ref[t].kept))
    /\ IF fn # "setattr" /\ ref[t].block # block
         THEN undefined' = TRUE /\ UNCHANGED <<vars, py>>
         ELSE /\ CallLock(t, LockOf(t, fn), IF fn = "insert" THEN "read" ELSE KindOf(fn))
              /\ py' = [py EXCEPT ![t] = [fn |-> fn, at |-> "lock", i |-> 0]]
              /\ UNCHANGED undefined
    /\ UNCHANGED <<block, items, ref>>

\* a binding is called: a function of the list through the reference, or
\* __setattr__ and __setitem__ of the store
Call(t, fn) ==
    /\ Ready(t)
    /\ fn # "setattr" => ref[t].block # NoBlock
    /\ fn = "iter" => ~Iterating(t)
    /\ careless' = (careless \/ (fn # "setattr" /\ ~ref[t].kept))
    /\ IF fn # "setattr" /\ ref[t].block # block
         THEN undefined' = TRUE /\ UNCHANGED <<vars, py>>
         ELSE /\ CallLock(t, LockOf(t, fn), KindOf(fn))
              /\ py' = [py EXCEPT ![t] = [fn |-> fn, at |-> "lock", i |-> 0]]
              /\ UNCHANGED undefined
    /\ UNCHANGED <<block, items, ref>>

\* the lock's constructor threw, and so does the binding
Raise(t) ==
    /\ py[t].at = "lock" /\ call[t] = Idle /\ held[LockOf(t, py[t].fn)] = "none"
    /\ py' = [py EXCEPT ![t] = NotRunning]
    /\ UNCHANGED <<vars, block, items, ref, undefined, careless>>

\* the binding returns or throws and destroys its lock object
Leave(t) ==
    /\ ~undefined /\ py[t].at = "leave" /\ call[t] = Idle
    /\ CallUnlock(t, LockOf(t, py[t].fn))
    /\ py' = [py EXCEPT ![t] = NotRunning]
    /\ UNCHANGED <<block, items, ref, undefined, careless>>

----------------------------------------------------------------------------
(* The bodies of the list functions.                                       *)

\* nothing is changed: __getitem__, __len__ and __add__, an index that is out
\* of range, a value that cannot be converted into the element at the index
Read(t) ==
    /\ py[t].at = "lock"
    /\ \E fn \in {"getitem", "insert", "setitem", "delitem"} : In(t, fn)
    /\ At(t, "leave")
    /\ UNCHANGED <<vars, block, items, ref, undefined, careless>>

\* insert and append: an empty element comes first
Insert(t) ==
    /\ In(t, "insert") /\ py[t].at = "lock"
    /\ Len(items) < MaxLength
    /\ \E i \in 1 .. Len(items) + 1 :
         /\ items' = InsertAt(items, i, None)
         /\ py' = [py EXCEPT ![t].at = "convert", ![t].i = i]
    /\ UNCHANGED <<vars, block, ref, undefined, careless>>

\* from_python stores the value, None leaves the element empty
Convert(t) ==
    /\ ~undefined /\ py[t].at = "convert"
    /\ \E v \in Value \union {None} : items' = [items EXCEPT ![py[t].i] = v]
    /\ At(t, IF py[t].fn = "insert" THEN "leave" ELSE "body")
    /\ UNCHANGED <<vars, block, ref, undefined, careless>>

\* from_python throws: the empty element stays
ConvertThrows(t) ==
    /\ ~undefined /\ py[t].at = "convert"
    /\ At(t, "leave")
    /\ UNCHANGED <<vars, block, items, ref, undefined, careless>>

\* the loops of extend, __iadd__ and list_from_python: one more value
Push(t) ==
    /\ In(t, "extend") \/ In(t, "setattr")
    /\ py[t].at = "body"
    /\ Len(items) < MaxLength
    /\ items' = Append(items, None)
    /\ py' = [py EXCEPT ![t].at = "convert", ![t].i = Len(items) + 1]
    /\ UNCHANGED <<vars, block, ref, undefined, careless>>

PushedAll(t) ==
    /\ In(t, "extend") \/ In(t, "setattr")
    /\ py[t].at = "body"
    /\ At(t, "leave")
    /\ UNCHANGED <<vars, block, items, ref, undefined, careless>>

Extend(t) ==
    /\ In(t, "extend") /\ py[t].at = "lock"
    /\ At(t, "body")
    /\ UNCHANGED <<vars, block, items, ref, undefined, careless>>

\* extend with the list itself: __iter__ wants a read lock, and throws
ExtendByItself(t) ==
    /\ In(t, "extend") /\ py[t].at = "lock"
    /\ CallLock(t, Iter(t), "read")
    /\ At(t, "leave")
    /\ UNCHANGED <<block, items, ref, undefined, careless>>

SetItem(t) ==
    /\ In(t, "setitem") /\ py[t].at = "lock"
    /\ \E i \in DOMAIN items, v \in Value \union {None} :
         items' = [items EXCEPT ![i] = v]
    /\ At(t, "leave")
    /\ UNCHANGED <<vars, block, ref, undefined, careless>>

\* __delitem__ and pop
DelItem(t) ==
    /\ In(t, "delitem") /\ py[t].at = "lock"
    /\ \E i \in DOMAIN items : items' = RemoveAt(items, i)
    /\ At(t, "leave")
    /\ UNCHANGED <<vars, block, ref, undefined, careless>>

Clear(t) ==
    /\ In(t, "clear") /\ py[t].at = "lock"
    /\ items' = <<>>
    /\ At(t, "leave")
    /\ UNCHANGED <<vars, block, ref, undefined, careless>>

----------------------------------------------------------------------------
(* __iter__ and the iterators.                                             *)

\* begin()
IterBegin(t) ==
    /\ In(t, "iter") /\ py[t].at = "lock"
    /\ CallLock(t, Begin(t), "read")
    /\ At(t, "begin")
    /\ UNCHANGED <<block, items, ref, undefined, careless>>

\* end()
IterEnd(t) ==
    /\ In(t, "iter") /\ py[t].at = "begin" /\ held[Begin(t)] # "none"
    /\ CallLock(t, End(t), "read")
    /\ At(t, "end")
    /\ UNCHANGED <<block, items, ref, undefined, careless>>

IterMade(t) ==
    /\ In(t, "iter") /\ py[t].at = "end" /\ Iterating(t)
    /\ At(t, "leave")
    /\ UNCHANGED <<vars, block, items, ref, undefined, careless>>

\* Python drops the iterator object, which holds end behind begin
DropIter(t) ==
    /\ Ready(t)
    /\ CallUnlock(t, End(t))
    /\ py' = [py EXCEPT ![t] = [fn |-> "drop", at |-> "none", i |-> 0]]
    /\ UNCHANGED <<block, items, ref, undefined, careless>>

DropBegin(t) ==
    /\ ~undefined /\ py[t].fn = "drop" /\ call[t] = Idle
    /\ CallUnlock(t, Begin(t))
    /\ py' = [py EXCEPT ![t] = NotRunning]
    /\ UNCHANGED <<block, items, ref, undefined, careless>>

----------------------------------------------------------------------------
(* __setattr__ of the store.                                               *)

\* a Python list: a new list is constructed if there is none, or it is cleared
SetList(t) ==
    /\ In(t, "setattr") /\ py[t].at = "lock"
    /\ IF block = NoBlock
         THEN block' \in Block \ {ref[u].block : u \in Thread}
         ELSE UNCHANGED block
    /\ items' = <<>>
    /\ At(t, "body")
    /\ UNCHANGED <<vars, ref, undefined, careless>>

\* None
SetNone(t) ==
    /\ In(t, "setattr") /\ py[t].at = "lock" /\ block # NoBlock
    /\ Free(t)
    /\ At(t, "leave")
    /\ careless' = (careless \/ Iterating(t))
    /\ UNCHANGED vars

\* the mutex calls inside of a lock object's constructor or destructor
Locking(t) == ~undefined /\ Runs(t) /\ UNCHANGED dvars

\* the bound is reached, or anything may happen
Stopped ==
    /\ undefined \/ LostTotal >= MaxLost
    /\ UNCHANGED bvars

----------------------------------------------------------------------------

Python(t) ==
    \/ \E k \in Kind : EnterWith(t, k)
    \/ ExitWith(t) \/ GetAttr(t) \/ DelAttr(t) \/ DropIter(t)
    \/ \E fn \in Function : Call(t, fn)

Body(t) ==
    \/ Raise(t) \/ Leave(t) \/ Read(t)
    \/ Insert(t) \/ Convert(t) \/ ConvertThrows(t)
    \/ Extend(t) \/ ExtendByItself(t) \/ Push(t) \/ PushedAll(t)
    \/ SetItem(t) \/ DelItem(t) \/ Clear(t)
    \/ IterBegin(t) \/ IterEnd(t) \/ IterMade(t) \/ DropBegin(t)
    \/ SetList(t) \/ SetNone(t)

BNext ==
    \/ \E t \in Thread : Python(t) \/ Body(t) \/ Locking(t)
    \/ Stopped

BSpec == BInit /\ [][BNext]_bvars

----------------------------------------------------------------------------

\* the lock object whose constructor the thread may be in
LockedAt(t) ==
    CASE py[t].at = "none" -> With(t)
      [] py[t].at = "lock" -> LockOf(t, py[t].fn)
      [] py[t].at = "begin" -> Begin(t)
      [] py[t].at = "end" -> End(t)
      [] py[t].at = "leave" -> Iter(t)
      [] OTHER -> NoHandle

PcInv(t) ==
    /\ py[t].at = "none" <=> py[t].fn \in {"none", "drop"}
    /\ py[t].at \in {"begin", "end"} => py[t].fn = "iter"
    /\ py[t].at = "body" => py[t].fn \in {"extend", "setattr"}
    /\ py[t].at = "convert" => py[t].fn \in {"insert", "extend", "setattr"}

\* which lock objects a thread has, by the binding it runs
HeldInv(t) ==
    /\ \A r \in {"set", "body", "iter"} : held[<<t, r>>] # "none" =>
         /\ py[t].fn \in Function /\ <<t, r>> = LockOf(t, py[t].fn)
         /\ held[<<t, r>>] = KindOf(py[t].fn)
    /\ py[t].at \notin {"none", "lock"} => held[LockOf(t, py[t].fn)] # "none"
    /\ held[Begin(t)] # "write" /\ held[End(t)] # "write"

LockingInv(t) ==
    /\ call[t].op = "lock" =>
         /\ call[t].h = LockedAt(t)
         /\ py[t].at = "lock" => call[t].kind = KindOf(py[t].fn)
         /\ py[t].at \in {"begin", "end", "leave"} => call[t].kind = "read"
         /\ py[t].at = "leave" => py[t].fn = "extend"
    /\ call[t].op = "unlock" => py[t].fn \in {"none", "drop"}

\* the constructors of the iterators have come to their end
IterInv(t) ==
    py[t].fn = "iter" /\ call[t] = Idle =>
        /\ py[t].at = "begin" => held[Begin(t)] # "none"
        /\ py[t].at = "end" => Iterating(t)

\* the element that is converted is there
ConvertInv(t) == py[t].at = "convert" /\ ~undefined => py[t].i \in DOMAIN items

BInv ==
    /\ IInv /\ BTypeOK
    /\ \A t \in Thread :
         PcInv(t) /\ HeldInv(t) /\ LockingInv(t) /\ IterInv(t) /\ ConvertInv(t)

(* While a thread is in the body of a function that changes the list or    *)
(* assigns it, no other thread is in a body that uses the list, and none   *)
(* iterates over it.                                                       *)
BodiesExclude ==
    \A t, u \in Thread : t # u =>
        \A fn \in Writer \union {"setattr"} : In(t, fn) =>
            /\ ~Iterating(u)
            /\ \A f \in Function : ~In(u, f)

(* While a thread iterates over the list the list stays as it is, whatever *)
(* is called, with two exceptions.  __setattr__ by the iterating thread    *)
(* itself gets along with that thread's read locks below a store it has    *)
(* write-locked.  And __delattr__, __delitem__ and clear() of the store,   *)
(* which take no lock (stst_py.hpp:381-400), free the list under the       *)
(* iterator, when the iterating thread calls them itself, or another one   *)
(* that has no write lock of the store; nothing is defined from there on.  *)
IterationStable ==
    [][\A t \in Thread :
         Iterating(t) /\ items' # items =>
             \/ In(t, "setattr")
             \/ \E u \in Thread :
                  DelAttr(u) /\ undefined' /\ (u = t \/ held[With(u)] # "write")]_bvars

(* The iterators of __iter__ always get their locks: the lock that __iter__*)
(* holds itself lets them in, so that no call under way is half done.      *)
IterNeverThrows == \A t \in Thread : IterInv(t)

(* Look-ups and clear() take no lock and references hold none.  A lock     *)
(* object for the store makes up for it: nobody uses freed memory as long  *)
(* as attributes are looked up and references are used under a lock of the *)
(* store, attributes are removed under a write lock, and no thread frees   *)
(* the list it iterates over or refers to.                                 *)
ProtectedUse == undefined => careless
=============================================================================
