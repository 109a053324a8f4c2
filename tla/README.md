# structstore: models, checks and proofs

structstore keeps dynamically typed, nested data in a shared memory segment that several processes map at once.
Everything reachable lies in the segment: the allocator and its free lists, the strings of the field names, the stores, lists and matrices, and the locks.
This directory holds TLA+ models of the parts that carry that promise, TLC configurations that check them on small instances, and TLAPS proofs that every safety property the runs check holds for any instance: of the locks, the string table, the life of the segment, the allocator, the tree of fields, structs and matrices, and the bindings.

Paths below are relative to the repository; a line number is that of the code a statement is about.

## 1. Inventory

| Component | Code | State | Operations | What is hard | What makes it correct |
|---|---|---|---|---|---|
| SpinMutex, ScopedLock | `stst_lock.{hpp,cpp}` | `level` (16-bit atomic), `write_lock_tid` (plain) | lock and unlock for reading, writing, and "read or write" | threads of several processes; recursion of the writer; hand-over of the tid; timeouts | exclusion, no lost level, matching unlocks, every call ends |
| Field locks | `stst_typing.cpp:5-33`, `stst_lock.cpp:123-147` | one SpinMutex per field with `parent_field` | `ScopedFieldLock`: lock all ancestors, then the field | chains of locks, exceptions half-way, upgrades that wait for each other | a write lock excludes the subtree; ancestors stay locked; nothing stays locked |
| StructStoreShared | `stst_shared.{hpp,cpp}` | the path, file mode, `SharedData` (size, `usage_count`, `invalidated`, store) and per process `fd`, `sh_data_ptr` | constructors by path (with `reinit`) and by descriptor, `revalidate`, `close`, `to_buffer`, `from_buffer` | processes race at every system call, crash, replace each other's file, paste old contents | a valid store is live; destroyed once; mapped half built only by who builds or replaces it; unlinked at the end |
| mini_malloc | `mini_malloc.{hpp,cpp}` | nodes in the arena, a free list per size class | `mm_allocate`, `mm_free` | arithmetic of classes, splitting, joining, links in two directions | blocks do not overlap, neighbours are joined, what fits is found |
| SharedAlloc, StringStorage | `stst_alloc.{hpp,cpp}` | the arena, its mutex; `map` and `data` of interned names | `allocate`, `deallocate`, `internalize`, `get_idx`, `get` | any allocation may throw; two containers to keep in step; look-up and entry under two locks; `get` is not locked | a name keeps one index, an index one name |
| FieldMap, Field, StructStore | `stst_fieldmap.*`, `stst_field.*`, `stst_structstore.*` | `fields` by name index, `slots` in order; pointer and type per field | insert, construct, remove, clear, copy, compare, `check` | failures between two updates; recursive copies; ownership by raw pointers | each block has one owner; slots and fields agree; copies are faithful |
| String, List, Matrix | `stst_containers.*` | vector of fields; shape and data pointer | list operations, iterators; `Matrix::from` | as above; sizes that overflow; iterators that outlive the call | as above; a list changes under an iterator only by the iterating process or by an unlocked removal |
| Struct, FieldMap<false> | `stst_struct.hpp`, `stst_fieldmap.*` | references to members of a C++ class | `store_ref`, member-wise copy and assignment | copies that stop half-way; pointers among the members | pointers stay in their object, copies are equal |
| OffsetPtr | `stst_offsetptr.hpp` | an offset relative to itself | assignment, dereferencing | distances that do not fit; targets that went away | the same address in each mapping |
| Python bindings | `stst_py.*`, `structstore_py.cpp` | lock objects that Python holds | translate calls and assignments, take the locks | calls that take no lock; iterators and references that live on | each change alone with its container |
| Typing registry | `stst_typing.*` | two maps of the process | registration at start-up, look-up | order of static initialisation | hashes do not collide |
| Call stack, utilities, build, tests | `stst_callstack.*`, `stst_utils.*` | diagnostics | | | |

How they interact: a binding takes a field lock on a store (field locks call SpinMutex for every ancestor), changes the tree of fields (FieldMap, List), which allocates and frees through SharedAlloc (SpinMutex around mini_malloc) and interns names (SpinMutex around StringStorage).
All of it lies in the segment whose life StructStoreShared manages with atomic counters and file modes, outside of any lock.

## 2. Modules

| Module | Models | Grain of a step |
|---|---|---|
| `RWLock` | what a reader-writer lock promises: who reads, who writes, recursive writers | one acquisition or release |
| `SpinMutex` | `stst_lock.cpp:37-121` | one load, store or compare_exchange, but for `WriteEntry` |
| `FieldLock` | field locks over a tree | one call of one mutex |
| `NameTable` | what a table of names promises: indices are kept and not shared | one answer |
| `Strings` | `StringStorage`, `stst_alloc.cpp:37-63` | up to the next lock call, allocation or unlock |
| `SharedSegment` | `stst_shared.cpp:10-267` | one system call or one write to the segment, with four steps that take several (below) |
| `Heap` | what an allocator promises: live blocks are disjoint and inside the arena | one allocation or release |
| `MiniMalloc` | `mini_malloc.cpp` | one call (it runs under SharedAlloc's write lock) |
| `FieldMap` | managed field maps, lists, fields, interned names | up to the next allocation, which may fail |
| `Structs` | `FieldMap<false>`, `OffsetPtr` members, `Matrix` | one member |
| `Bindings` | the bindings of stores and lists, on top of `FieldLock` | one mutex call, or up to the next conversion of a value |
| `SpinMutexProofs`, `FieldLockProofs`, `StringsProofs`, `SharedSegmentProofs`, `MiniMallocProofs`, `FieldMapProofs`, `StructsProofs`, `BindingsProofs` | theorems, their proofs, and inductive invariants that the model does not state itself | |
| `MC...` | constants for TLC | |

Modules are layered by assumption or by extension, not by one product state space.
`Strings` uses the abstract `RWLock` (INSTANCE), which `SpinMutex` is shown to implement; `FieldLock` uses a mutex with the outcomes that `SpinMutex` shows; `Bindings` extends `FieldLock`, and each of its steps is a step of `FieldLock` or leaves the locks alone; `MiniMalloc`, `FieldMap` and `Structs` are sequential because the locks show exclusion.

### SpinMutex
`level` and `write_lock_tid` are the two members, `Tid[t]` the `thread_local tid`, `v[t]` the local of the loop.
`pc[t]` names the next shared access: `ReadEntry` is the test of lines 39-41, `ReadLoad` and `ReadCas` the loop 42-48, `WriteEntry` the test of line 60 and, for the thread that has the mutex already, the load of line 61 (nobody else changes the level then), `WriteRestore` the store 62-64, `WriteCheck` and `WriteSet` lines 69-72, and so on.
A *handle* is one `ScopedLock` object; a handle in `Adaptive` is locked by `read_or_write_lock` and released by `read_or_write_unlock`, whose choice at unlock time depends on `write_lock_tid` at that time.
The level wraps like an `int16_t` of width `MaxLevel`.
The memory model is sequential consistency: the code releases read locks with `memory_order_acquire`, which weak hardware may reorder; that is not covered.

### FieldLock
`Path[f]` is the chain of `parent_field` from the root to `f`; the call of a thread walks along it.
`taken` records what a handle acquired, `lost` what a constructor that threw left behind, so that the accounting of levels can be stated exactly.
`ThrowOwnWrite` is the exception of a read lock under the own write lock, `Timeout` that of the 0.1 s limit, which may hit any waiting step.

### Strings
`map` and `data` are the two containers, `data` without its element 0; `capacity` tells when an append moves it.
`internalize` is the sequence `Call`, `LockRead`, `Find` (it gives its read lock up), `LockWrite`, `Emplace`, `AppendString`; `get_idx` ends with `Find`; `get` is `Get` (reads `&data[0]`) and `Deref` (its caller looks at the string).
`NoMemory` refuses an allocation at any place that allocates, `Timeout` is the exception of the lock call, and `Die` kills a thread in any step: what it has locked stays locked.
`half` are the names in `map` whose string is not in `data` (yet, or for good): the refinement of `NameTable` hides them.
`failures` and `deaths` are bounded so that TLC ends; the theorems hold for any bounds.

### SharedSegment
`link` is the segment the path names, `seg[s]` its mode (0600 until `fchmod` says it is ready), `truncated`, and the members of `SharedData`; `fd`, `map` and `pc` belong to a process; `made` tells which constructor it called.
The constructor, `revalidate` and `close` are cut at each system call and at each access to the segment, so every interleaving of creators, openers, closers and reinits is explored.
Four steps stand for more than one of these, where what lies between them cannot be told apart by another process:
`MapExisting` reads the size, maps and counts (`:150-174`; the size is written once, and a mapping that is not counted yet keeps the segment alive no more than the descriptor does);
`Truncate` is `ftruncate`, `mmap` and `memset` (`:87-102`; the file is zero from the first of them on, and nobody maps it before its member `size` is written);
`InitStore` initialises `invalidated` and constructs the store (`:11-13`; nobody looks at either before the mode is 0660, and the mark of a reinit that comes in between has the effect it has behind both);
`ReDecrement` decrements and unmaps (`:50-54`).
`ConstructFdInit` and `ConstructFd` are the constructor from a descriptor, of a new file and of the segment another process uses; its cleanup mode is NEVER and `revalidate` has no path to open.
`ToBuffer` copies what `memcpy` copies of the header, `FromBuffer` pastes it into the segment that is mapped at that time, which need not be the same one, nor be valid.
`Limit` bounds how often each event (reinit, crash, descriptor, paste) happens, and `spent` counts them, so that a property can say under which events it holds.
`Fresh` and `FreeUnreferenced` are the kernel: a segment nobody links, maps or holds open is gone.

### MiniMalloc
Sizes are in units of eight bytes; a node's address is the number of its header.
The class arithmetic (`size^4`, `log2`) is the code's, with `Bits` in the place of 64.
The order of the unlink and prepend operations in splitting and joining is the code's, because neighbours in the arena may be neighbours in a free list.

### FieldMap
`heap` maps each live block to its type, `parent_field`, `fields` and `slots`; a field is a pointer and a type.
An operation is a sequence of steps that ends before each allocation; at each of these points `Fail` may throw "insufficient space" and leave what has been done.
`frames` is the recursion of `copy_from_managed`.
Values are abstracted to their type ("leaf" for numbers, strings and matrices).
`CopyConstruct` is `construct_copy_from` with the constructor and the `copy_fn`; `CopyLeafFails` is the case that the copy of a string or a matrix finds no memory for its content, when the field has its block already.
The constructors of all these types allocate nothing and do not throw; the block of a constructor that throws is in `Structs`.
`Same` is `operator==` with its asymmetry: `FieldView::operator==` (`stst_field.hpp:57-61`) asks whether the left side has data, so a field of type void that has data equals an empty one, and an empty one equals no field that has data.

### Structs
An object is the `Frame` of `tests/mystruct0.hpp`, with a matrix added: a number, a pointer to the object's own number, the matrix.
`op` is the copy or the assignment from a dict that is under way, one member a step; it stops where a member throws.
`CopyPointer` leaves the destination's pointer at the source (the code makes it relative to a new place, but to the same target) until `ResetPointer`, the rest of the user-defined `operator=`; from one region to another the distance may not fit into 32 bits, then it points anywhere (`Wild`).
`From` is `Matrix::from`, with the sizes of a machine whose `size_t` has `Word` values, so that products overflow.
`tainted` and `halfway` record the objects on which an assignment or a copy failed, or which never got a matrix: what the code says of them is no more than that, and the properties speak of all others.

### Bindings
A thread is one Python process, which holds the GIL in a binding; its lock objects (`Role`) are the one that `read_lock()` or `write_lock()` of the store gave to Python, that of `__setattr__`, that of the list's functions, that of `__iter__`, and those of the two iterators, which live until Python drops them.
A binding is `Call` (the lock object's constructor begins), the steps of `FieldLock` (`Locking`), the body, cut at each conversion of a Python value (`Convert`, which may throw and leaves an empty element), and `Leave`.
`GetAttr` and `DelAttr` take no lock, as in the code.
`block` is the list that the attribute holds, `ref[t]` the address a process got from a look-up.
Using an address that was freed, or freeing one with live lock objects in it, sets `undefined`, after which nothing is said.
`careless` records that somebody did not follow the protocol that `ProtectedUse` asks for.

## 3. What is checked

| Run | Instance | Shows |
|---|---|---|
| `spinmutex` | 3 threads, 4 handles, one thread with two, one of them adaptive | `Exclusion`, `UnlockMatches`, `LevelAccounts`, `OwnershipThroughZero`; refinement of `RWLock`; every call ends |
| `spinmutex_assert` | same | counterexample to the internal check of `write_lock` |
| `fieldlock` | store, list, element; 2 threads with 2 handles each | `SubtreeExclusion`, `UnlockMatches`, `AncestorsPinned`, every call ends |
| `fieldlock_leak` | same | counterexample: locks that stay behind |
| `strings` | 3 threads, 2 names, 3 indices, 1 refused allocation, 1 death | `GetFindsName`, `ExposedOnlyByFailure`; refinement of `NameTable`; every call ends |
| `shared` | 2 processes (ALWAYS, IF_LAST), 3 segments, 1 reinit, 1 crash, 1 paste by the only user, 1 paste under others | `ValidMeansLive`, `MapsOnlyBuilt`, `DestroyedOnce`, `SharedWithoutReinit`, `CountCoversUsers`, `AllClosedUnlinks` |
| `shared_live` | 2 processes, 1 reinit, 1 descriptor, no crash | a blocking `revalidate` ends; a dead segment does not stay linked |
| `shared_last` | 2 processes, IF_LAST | counterexample: a store destroyed while it is in use |
| `malloc` | arenas of 7 and 14 units, classes 1, 2, 3, 4, 5, 6, 8 | `NodesTile`, `Coalesced`, `FreeListsSound`, `FindsMemory`, `ClassesMatch`; refinement of `Heap` |
| `fieldmap` | 2 names, root and 4 blocks, lists of 2, 5 operations, 1 failure with a block free | `TreeOwned`, `CheckPasses`, `CopyFaithful`, `CopyKeepsOthers`; no operation gets stuck |
| `structs` | 2 objects in 2 regions, matrices of one dimension 0, 1, 4 or 8, 4-bit sizes, 1 failure | `PointersHome`, `BlocksOwned`, `ShapeTells`, `CopyFaithful` |
| `bindings` | 2 processes, 3 addresses, lists of 2 | `BodiesExclude`, `IterNeverThrows`, `ProtectedUse`, `IterationStable` |

What the properties of the last runs say.
`ProtectedUse` is the answer to the bindings that take no lock: a program whose processes look attributes up and use the references under a lock of the store, and remove attributes under a write lock, does not use freed memory; any other may.
`IterationStable` has two exceptions, which the code has. A process that iterates over a list and assigns the attribute anew, below a store it has write-locked, changes the list under its own iterator. And `__delattr__`, `__delitem__` and `clear()` of the store take no lock (`stst_py.hpp:381-400`): they free the list under an iterator, when the iterating process calls them or another one that has no write lock of the store; with that write lock another process cannot meet an iterator.
`MapsOnlyBuilt` says of a constructor without reinit and of `revalidate()` that they map only what is built. A reinit maps any segment with a size, also one under construction (`stst_shared.cpp:43-50`, finding 5); the property says that it does so only to mark it, and that nobody else but the constructor has an unfinished segment mapped.
`CopyFaithful` says `copy == source` for each copy that comes to its end, and `source == copy` if no field in the source is empty: with one they differ (finding 4).
`CheckPasses` leaves out what `check()` asks of empty fields, that they have no data: the code does not keep it (finding 4).
`PointersHome` bounds the damage of a copy that throws half-way: the pointer left at the source is the only one that leads out of its object, and only such an object is ever used to write to freed memory.
`ShapeTells` holds for each matrix whose last assignment succeeded and fits into a `size_t`.
`GetFindsName` holds as long as `data` does not move between the two steps of `get`: see Findings.

Why the bounds are enough.
The lock compares a thread with "another one": two threads suffice for exclusion, the third is there for a hand-over from writer to writer that a reader interferes with, and nested write locks need one thread with two handles.
`MaxLevel` 7 is larger than the number of handles; for the real width see the theorems.
Two threads and three levels give an ancestor, a target and a sibling in the middle; `MaxLost` stops new calls when so many lock levels have been left behind, else the level would grow without end.
In `strings`, three threads are one that enters a name, one that enters the same or the other, and one that looks up or dies; two names fill all indices but "none".
In `shared`, two processes are a user that closes or crashes and another that opens, replaces or pastes over what it leaves; three segments are what they can refer to at once. For more processes see the theorems, which are proved for any number.
`MaxCount` bounds how often `revalidate` may add to `usage_count`.
The arena of 14 units is larger than the largest class and takes three neighbours that are freed in any order; the one of 7 units is smaller than the last class.
In `FieldMap`, four blocks are a source with a nested store, its destination and the copy; five operations build them, copy and change one afterwards; `Fail` may happen once anywhere and again whenever no block is free.
In `structs`, two objects are a source and a destination; the dimension 8 is negative as a signed number, 4 elements overflow the size, 0 and 1 fit.
In `bindings`, two processes are one that works and one that interferes; an address remains when each refers to a freed list; two elements are one before and one behind.
Addresses, names and processes with equal roles are interchangeable (symmetry; not used in runs with liveness).

Deadlock checking is on in every run: a system that stops does so in an explicit step (`Exhausted`, `Stopped`, `Undefined`).

Fairness: weak fairness of the steps inside of a call, for each thread or process (`Runs`).
The operating system schedules each thread eventually, and nothing in the code disables a started step for good; calls themselves are never forced.
`CallsEnd` of the locks is stated for levels that stop changing, because a compare_exchange loop may lose forever against others; the timeout is an action that is enabled at every iteration.
`CallsEnd` of `Strings` needs no such condition: a thread that waits is freed by its timeout, also when the holder of the mutex is dead.
The liveness properties of `SharedSegment` assume that nobody crashes, which is needed: see "Limits".

## 4. What is proved

All theorems hold for any sets of threads, processes, handles, fields, names, segments, objects and blocks, arenas of any size, and any bounds; the assumptions on constants are named and evaluated by TLC in the runs.

`SpinMutexProofs`, under `TidsDistinct` (pseudo thread ids differ and are not zero; the code draws random numbers and hopes) and `NoOverflow` (no more handles than the level can count; nothing in the code enforces it):

- `Invariance`: `IInv` is invariant; from it `TypeCorrect` (the 16-bit level does not wrap), `LevelCorrect`, `ExclusionCorrect`, `UnlockCorrect`, `NoSelfWaitCorrect`;
- `OwnershipCorrect`: `write_lock_tid` changes hands only through zero;
- `Refinement`: the spin lock implements `RWLock`.

Why an inductive invariant is needed: `Exclusion` alone does not survive a step.
A recursive `write_lock` and every `write_unlock` load the level and store it without a compare, so the invariant must say that the loaded value is still the level (`LocalInv`); that holds because only the thread whose tid is in `write_lock_tid` gets there (`OwnerInv`); which holds because a writer between its compare_exchange and its assignment of the tid is alone (`TakeInv`).
`CurInv` ties the running call to its handle.
The proof has one lemma for each action that touches the level or the tid; the others only change locals (`LocalIInv`).
The level is related to the number of holders with the cardinality theorems of the library.

`FieldLockProofs`, under `FieldLockConstants` and `ParentsAreForest` (`parent_field` leads from every field to a root; a `Path` is defined recursively, and this is what is needed of it): `Invariance`, `LevelCorrect`, `UnlockCorrect`, `AncestorsCorrect`, `ExclusionCorrect`.
`IInv` adds to the accounting of the levels which part of its path a handle has locked (`TakenInv`), where a call is on that path (`CallInv`), and what `write_lock_tid` says of each lock taken (`TidInv`).
`TidInv` is the heart: it makes the decision of `read_or_write_unlock` at the time of the unlock the right one, and it survives constructors that throw, because what they leave behind is counted in `lost` and keeps the mutex from others.
`ExclusionCorrect` follows without looking at steps: a lock below a write-locked field has that field on its path, took it there, and `TidInv` would give the mutex two owners.

`StringsProofs`, under `StringsConstants` and `NamesFit` (fewer names than a 16-bit index can say): `Invariance`, `GetCorrect`, `ExposureCorrect`, `Refinement` (of `NameTable`).
The invariant says who holds the mutex at which step (`LockInv`), and that each name whose string is stored leads to it while the number of strings is the number of such names (`DataInv`), so that the next index is new.
That the second look-up, under the write lock, makes up for the gap between the two locks is the case of `Emplace`.
`ExposureCorrect` adds that a half name is known to nobody but the holder of the mutex, dead or alive.

`SharedSegmentProofs`, under `SharedSegmentConstants`: `Invariance`, `LiveCorrect`, `BuiltCorrect`, `DestroyedCorrect`, `LinkedCorrect`, `CountCorrect`, `ClosedCorrect`.
`BuiltCorrect` holds of constructors without reinit and of `revalidate()`, and names the reinit as the one other call that may have an unfinished segment mapped.
The invariant ties the mode of a segment to what has been built of it (`SegInv`, `BuildInv`): a segment under construction is open only in its builder, in processes that look at its mode, and in a reinit that marks it (`Apart`).
`CloseInv` says that who won the compare_exchange is alone with a live store; `LinkInv` that without reinit a segment which is not linked any more is marked as invalid, so that a `close()` which unlinks by path unlinks its own segment; `CountInv` and `CountCoversUsers` that the count is no smaller than the number of users.
`ClosedCorrect` (`AllClosedUnlinks`) needs the converse, that nobody is counted who is not there: `PathInv` says that while the path is linked and nobody is on the way to unlink it, the count is exactly the number of those who use or set up the segment, and at least one of them is left to unlink it; this holds under any number of reinits, each of which is such an unlink on the way.
Crashes and pastes are part of the steps; each property names the events it does without (a reinit, a paste under other users).

`BindingsProofs`, under `BindingsConstants` and those of `FieldLock`: `Composition` (the specification of the bindings implies that of `FieldLock`, hence all of the above holds of them), `BindingsInvariance`, `BodiesCorrect`, `IterCorrect`, `StableCorrect`, `ProtectedCorrect`.
The invariant says which lock objects a process has at which line (`HeldInv`, `LockingInv`); with the exclusion of `FieldLock` this gives `BodiesCorrect`.
`IterCorrect` needs that the two locks of the iterators, taken under the read lock of `__iter__`, meet neither a writer nor their own write lock.
`StableCorrect` is an action property: a step that changes the list is by a thread with a write lock on it or on the store above it, and an iterator's read lock excludes all but the thread's own; or it is a removal, which takes no lock, finds the list in use, and is by the thread itself or by one that has no write lock of the store, since that would exclude the iterator.

`ProtectedCorrect` adds what the protocol of `ProtectedUse` protects (`Kept`): while nobody was careless, a reference that was taken below a lock of the store is the block the attribute holds now, and the list is called through no other; a removal needs the write lock, which that lock excludes.

`MiniMallocProofs`, under `MiniMallocConstants` (a word has a multiple of four bits, at least 12; sizes are positive): `Invariance`, `TileCorrect`, `CoalescedCorrect`, `FreeListsCorrect`, `FindsCorrect`, `ClassesCorrect`, `Refinement` (of `Heap`).
The invariant states tiling without recursion: each node ends where another begins or the arena ends (`Joint`), none begins in between (`Gap`), and each knows the size of the one before it (`Back`).
Free lists are stated by witnesses: a class for each free node and a rank that grows along its list, with `prev` and `next` as the neighbours in rank (`Arranged`, `Listed`).
No two free nodes touch; in the middle of `mm_free` and of a split this fails for the node at hand only, and the lemmas of joining and splitting carry the exception (`Touching`, `Freed`, `SplitSound`).
The properties themselves are recursive definitions: the walk over the arena, the list of a class, the powers and the logarithm.
`ClassesCorrect` is the arithmetic of `get_size_index_upper` and `get_size_index_lower`, for every size: powers of two grow, a class lies between two of them, and the shift by two picks the right quarter.
`FindsCorrect` needs that a node is never in a lower class than its size allows and that every node of a class serves every request of it.

`FieldMapProofs`, under `ObjectAssumption` and `BoundAssumption`: `Invariance`, `TreeCorrect`, `CheckCorrect`, `KeepsCorrect`, `CopyCorrect`.
`HeapInv` says that blocks and fields agree on who owns whom, and that no set of blocks has all its parents in itself (`Rooted`), so that parents lead to the root without a definition by recursion.
From this the tree below a block is closed, contains no ancestor, and shares nothing with the tree below a block that is neither above nor below: freeing it leaves no field that refers to a freed block (the lemmas on `Tree`).
`NameInv` is what failures leave of the names: each index of `data` leads back to its name, while a name may have no string. `Complete` is what holds as long as nothing failed, and at which steps a slot or a field is missing; from it follows that no step is undefined.
`FrameInv` says that the sources of a running copy are in one tree and its destinations in another, that the destinations differ, and how many slots each has got.
`CopyCorrect` needs more than this, since the two stores become equal only when what is below them has: `CopyInv` says that there is a relation on finished copies (`Alike`) under which blocks have equal types, slots and fields, and related contents; a frame that comes to its end adds its two stores to it. Related blocks are the same to whatever depth `Same` looks (`EqualSame`). The fields of a finished copy all have data, so the copy is equal to its source; turned round, the relation serves below a source whose fields all have data (`SameAlike`), which is the second half of `CopyFaithful`.

`StructsProofs`, under `StructsConstants`: `Invariance`, `PointersCorrect`, `BlocksCorrect`, `ShapeCorrect`, `CopyCorrect`.
The properties are nearly inductive themselves; added is that a matrix with data has exactly as many bytes as its shape asks for modulo the width of `size_t` (`Sized`), which is what makes the copy of a matrix with an equal size stay in its block, and what a copy under way has done so far (`OpInv`).

Induction over data: the provers cannot instantiate a theorem that takes an operator as a parameter, so the modules first derive induction over sets of naturals from the library's well-founded minimum (`SetInduction`), and show by it that a recursive function exists and what it satisfies; this is enough for every recursive definition the properties use.

Only model-checked: liveness (`CallsEnd` of three modules, `RevalidateEnds`, `InvalidatedIsUnlinked`) and deadlock freedom, since fairness and `ENABLED` are out of the proof system's reach. The runs that expect a violation are what they are, counterexamples.
Every other property of the runs is a theorem.

## 5. Findings

With a run that shows them:

1. `write_unlock` stores the level before it clears `write_lock_tid` (`stst_lock.cpp:76-77`). A writer that gets in between trips over the internal check of line 69, throws, and leaves the level at -1 for ever. The proofs show that exclusion and the accounting of holders survive it: who throws holds nothing, and who passes the check finds the tid cleared.
2. A `ScopedFieldLock` whose constructor throws (timeout, or a read lock under the own write lock) leaves the ancestors it has locked locked (`stst_typing.cpp:5-18`). `list.extend(list)` is such a call: `__iter__` wants a read lock below the write lock of `extend` (`structstore_py.cpp:214-220`), and the store above stays locked for good.
3. With `IF_LAST`, a process that opens the segment after the last close's decrement and before its compare_exchange gets a valid store that is then destroyed under it (`stst_shared.cpp:234-238`).

Met while modelling, stated as the condition of a property that holds:

4. Copying a store with an empty field (one that was assigned `None`) allocates data of the void type (`stst_field.cpp:24`): the copy fails `check()` ("internal error: empty data ptr is not nullptr", `stst_typing.hpp:217`), `copy == source` is true while `source == copy` is false (`stst_field.hpp:57-61`), and the field takes no value any more; `CopyFaithful` claims `source == copy` only for sources without such a field, and `CheckPasses` leaves this part of `check()` out.
5. A `reinit` that meets a segment under construction marks it as closed, and the creator's constructor overwrites the mark (`stst_shared.cpp:43-54` against `:11`): the creator goes on alone in a segment the path does not name (`SharedWithoutReinit` and `CountCoversUsers` are stated without reinit).
6. `from_buffer` pastes the usage count and the mark of another time (`stst_shared.cpp:266`): under other users the count no longer covers them, and a closed segment may become valid again with its store destroyed (`NotPastedOver`).
7. `internalize` enters a name before its string is stored (`stst_alloc.cpp:47-50`). If the second allocation fails the name keeps an index without a string, and the next new name gets the same one: two names, one field (`ExposedOnlyByFailure`, and `half` in the refinement of `NameTable`).
8. `get` reads the address of `data` and then the element without a lock (`stst_alloc.cpp:63`): an `internalize` of another process that makes `data` grow in between frees what it reads (the condition `base = capacity` of `GetFindsName`).
9. After a failed allocation in `get_or_insert` a field has no slot, and `remove()` erases `slots.end()` (`stst_fieldmap.hpp:178-179`; `CheckPasses` is stated for runs without failures).
10. A matrix that was only constructed has no dimensions, so one element, and null data: printing or comparing it reads through the null pointer (`stst_containers.cpp:58-68`, `:96-97`; `tainted` in `Structs`). Assigning one to another such matrix finds equal pointers and returns; a matrix without elements cannot be copied into one of another shape that has no data (`stst_containers.hpp:212-218`).
11. A member-wise copy between structs that throws at a later member leaves the destination's pointers at the source's members (`halfway` in `Structs`).
12. `get_or_construct` does not free the block of a constructor that throws (`stst_field.hpp:137-143`; `leaked` in `Structs`).
13. `clear()`, `__delattr__`, `__delitem__`, `__getattr__` and `__getitem__` of the bindings take no lock (`stst_py.hpp:342-400`; `careless` in `Bindings`).

`fork()` after the first use of a lock gives parent and child the same tid (`stst_lock.cpp:12`), which `TidsDistinct` excludes; each then takes the other's write lock for its own.

## 6. Limits

- Reads and writes are sequentially consistent, plain accesses atomic.
- A process that dies while it holds a lock leaves it locked; the code has no recovery. `Strings` has such deaths, with what they leave half done; `SpinMutex`, `FieldLock` and `Bindings` have none.
- `revalidate()` of an object that was closed is no step of `SharedSegment`, where a closed object is gone: the call goes past `valid()`, which only asks for a mapping, and once the path names a ready file it dereferences the null `sh_data_ptr` for the size to unmap (`stst_shared.cpp:207`).
- `revalidate(true)` keeps the descriptor it first opened. If that file's creator dies, or a reinit unlinks the file meanwhile, it polls for ever although the path names a new file; the liveness properties exclude crashes, and a blocking call polls as a self-loop.
- `SharedSegment` has no failing `ftruncate` or `mmap`, no move assignment (which forgets a mapped segment without closing it, `stst_shared.hpp:119-128`), no descriptor of a file that is not ready (the constructor does not look at the mode), and of what `from_buffer` pastes only the header, not the locks and the contents.
- `MiniMalloc`: requests fit 32 bits (`mm_allocate` takes a `size_t` and truncates it in `get_size_index_upper`); `mm_assert_all_freed` is left out.
- `FieldMap`: copies stay in one arena and between stores neither of which contains the other. In the code a store copied into itself is emptied, one copied into an ancestor is freed before it is read, and one copied into a descendant recurses until memory is exhausted (`stst_structstore.hpp:38-41`, `stst_fieldmap.cpp:104-111`). One operation at a time; the concurrent use of `StringStorage` is `Strings`. Fields of types whose constructors throw are left out; the block such a constructor leaves behind (`stst_field.hpp:142`, finding 12) would be one that no field owns, against `TreeOwned`.
- `Structs`: one struct type without nested structs; pointers to other objects (`OffsetPtr` to a struct, which the bindings can set, `stst_py.hpp:120-137`) may dangle when their target is removed, as any pointer may.
- `Bindings`: one store with one attribute, a list of values. Of the Python code that a binding may run only the iteration of `extend` over the list itself is modelled. The GIL is held throughout a binding.
- Not modelled: the typing registry (filled before anything is shared), call stack and logging, conversion of values, text and YAML output, build files.

## 7. Plan

The order followed how much rests on a part: the lock, the locks over the tree, the life of the segment, the allocator, the tree of fields, the string table, structs and matrices, the bindings. What is left:

1. `SharedSegment`: with neither reinit nor crash the closer that found zero is the last; move assignment and failing system calls.
2. `FieldMap`: copies between arenas and between overlapping stores.
3. `FieldLock` and `Bindings`: deaths of lock holders.
4. A frame property of `MiniMalloc`: a call changes only the nodes it splits or joins and their neighbours in a list.
