--------------------------- MODULE SharedSegment ----------------------------
(***************************************************************************)
(* The life of the shared memory segments behind one path                  *)
(* (StructStoreShared, stst_shared.cpp): several processes construct,      *)
(* revalidate and close one StructStoreShared each, by path or by a file   *)
(* descriptor, may ask to reinit, copy a segment out and back in, and may  *)
(* crash between any two steps.  The kernel's part (path lookup, file      *)
(* mode, reference counting of segments) is the state link, mode and       *)
(* Fresh.  Each step is one system call or one write to the segment, but   *)
(* for what cannot be told apart: mmap_existing_fd reads the size, maps    *)
(* and counts in one step (the size is written once, and a mapping nobody  *)
(* has counted yet only keeps the segment alive, as the descriptor does);  *)
(* ftruncate, mmap and memset are one step, as nobody maps a segment       *)
(* before its member size is written; so are the construction of           *)
(* invalidated and of the store, which nobody looks at before the mode is  *)
(* 0660, and a reinit's decrement and munmap.                              *)
(*                                                                         *)
(* A constructor that throws at a failing ftruncate or mmap leaves what a  *)
(* crash at that step leaves.  Segments are of one size, and the contents  *)
(* of the StructStore are not modelled.                                    *)
(***************************************************************************)
EXTENDS Integers, FiniteSets

CONSTANTS
    Process,
    Seg, NoSeg,     \* segments, a bound; one that nobody refers to is used again
    Cleanup,        \* the CleanupMode each process passes
    Blocking,       \* the processes that call revalidate(true)
    Limit,          \* bound: how often each event happens
    MaxCount        \* bound: no revalidate of a segment counted that often

\* restore: from_buffer into a segment that nobody else refers to
Event == {"reinit", "crash", "fd", "restore", "restore_shared"}

ASSUME SharedSegmentConstants ==
    /\ IsFiniteSet(Process)
    /\ NoSeg \notin Seg
    /\ Cleanup \in [Process -> {"NEVER", "IF_LAST", "ALWAYS"}]
    /\ Blocking \subseteq Process
    /\ Limit \in [Event -> Nat] /\ MaxCount \in Nat

VARIABLES
    link,       \* the segment the path names, or NoSeg
    seg,        \* each segment
    pc,         \* next step of each process
    fd,         \* the segment behind the descriptor a call works on
    map,        \* the segment sh_data_ptr maps
    made,       \* how the StructStoreShared is constructed
    buffer,     \* what to_buffer has copied, {} before
    spent       \* the events so far

vars == <<link, seg, pc, fd, map, made, buffer, spent>>

NotReady == 384     \* mode 0600
Ready == 432        \* mode 0660

\* a new file: no size, an empty header, not ready
NewSegment ==
    [mode |-> NotReady, truncated |-> FALSE, sized |-> FALSE,
     usage_count |-> 0, invalidated |-> FALSE, store |-> "raw"]

Contents ==
    [usage_count : Int, invalidated : BOOLEAN, store : {"raw", "live", "destroyed"}]

SegType ==
    [mode : {NotReady, Ready}, truncated : BOOLEAN, sized : BOOLEAN,
     usage_count : Int, invalidated : BOOLEAN,
     store : {"raw", "live", "destroyed"}]

\* one member of a segment changes
MarkReady(s) == [s EXCEPT !.mode = Ready]
SetTruncated(s) == [s EXCEPT !.truncated = TRUE]
SetSized(s) == [s EXCEPT !.sized = TRUE]
CountOne(s) == [s EXCEPT !.usage_count = 1]
Increment(s) == [s EXCEPT !.usage_count = @ + 1]
Decrement(s) == [s EXCEPT !.usage_count = @ - 1]
Invalidate(s) == [s EXCEPT !.invalidated = TRUE]
StoreLive(s) == [s EXCEPT !.invalidated = FALSE, !.store = "live"]
StoreDestroyed(s) == [s EXCEPT !.store = "destroyed"]

Constructing ==
    {"open_excl", "open", "fstat_new", "fstat_old", "map_existing",
     "re_map", "re_mark", "re_decrement", "re_unlink", "re_create",
     "truncate", "init_size", "init_count", "init_store", "chmod"}
Revalidating == {"rv_open", "rv_fstat", "rv_map"}
Closing == {"close_cas", "close_destroy", "close_unlink", "close_unmap"}

TypeOK ==
    /\ link \in Seg \union {NoSeg}
    /\ seg \in [Seg -> SegType]
    /\ pc \in [Process -> {"none", "ready"} \union Constructing
                              \union Revalidating \union Closing]
    /\ fd \in [Process -> Seg \union {NoSeg}]
    /\ map \in [Process -> Seg \union {NoSeg}]
    /\ made \in [Process -> {"path", "reinit", "fd"}]
    /\ buffer \subseteq Contents
    /\ spent \in [Event -> Nat]

Init ==
    /\ link = NoSeg
    /\ seg = [s \in Seg |-> NewSegment]
    /\ pc = [p \in Process |-> "none"]
    /\ fd = [p \in Process |-> NoSeg]
    /\ map = [p \in Process |-> NoSeg]
    /\ made = [p \in Process |-> "path"]
    /\ buffer = {}
    /\ spent = [e \in Event |-> 0]

----------------------------------------------------------------------------

Goto(p, l) == pc' = [pc EXCEPT ![p] = l]
SetFd(p, s) == fd' = [fd EXCEPT ![p] = s]
SetMap(p, s) == map' = [map EXCEPT ![p] = s]

\* the process has no StructStoreShared any more (or never got one)
Gone(p) ==
    /\ Goto(p, "none")
    /\ SetFd(p, NoSeg) /\ SetMap(p, NoSeg)
    /\ made' = [made EXCEPT ![p] = "path"]

Spend(e) ==
    /\ spent[e] < Limit[e]
    /\ spent' = [spent EXCEPT ![e] = @ + 1]

noEvent == UNCHANGED <<buffer, spent>>

\* no path, descriptor or mapping refers to the segment
Fresh(s) == s # link /\ \A p \in Process : fd[p] # s /\ map[p] # s

\* the kernel frees what nothing refers to after the step
FreeUnreferenced(segments) ==
    seg' = [s \in Seg |-> IF Fresh(s)' THEN NewSegment ELSE segments[s]]

\* open(path, O_EXCL | O_CREAT, 0600) succeeds
CreateFile(p) ==
    \E s \in Seg :
        /\ Fresh(s)
        /\ link' = s
        /\ SetFd(p, s)
        /\ UNCHANGED seg

----------------------------------------------------------------------------
(* The constructor                                                         *)

Construct(p) ==
    /\ pc[p] = "none"
    /\ \/ UNCHANGED <<made, spent>>
       \/ made' = [made EXCEPT ![p] = "reinit"] /\ Spend("reinit")
    /\ Goto(p, "open_excl")
    /\ UNCHANGED <<link, seg, fd, map, buffer>>

\* StructStoreShared(fd, true): the caller has a new file with a size
ConstructFdInit(p) ==
    /\ pc[p] = "none"
    /\ Spend("fd")
    /\ \E s \in Seg :
        /\ Fresh(s)
        /\ SetFd(p, s) /\ SetMap(p, s)
        /\ seg' = [seg EXCEPT ![s] = SetTruncated(@)]
    /\ made' = [made EXCEPT ![p] = "fd"]
    /\ Goto(p, "init_size")
    /\ UNCHANGED <<link, buffer>>

\* StructStoreShared(fd, false): a process that uses a segment hands it on
ConstructFd(p) ==
    /\ pc[p] = "none"
    /\ Spend("fd")
    /\ \E q \in Process : pc[q] = "ready" /\ SetFd(p, map[q])
    /\ made' = [made EXCEPT ![p] = "fd"]
    /\ Goto(p, "map_existing")
    /\ UNCHANGED <<link, seg, map, buffer>>

OpenExcl(p) ==
    /\ pc[p] = "open_excl"
    /\ IF link = NoSeg
         THEN CreateFile(p) /\ Goto(p, "fstat_new")
         ELSE Goto(p, "open") /\ UNCHANGED <<link, seg, fd>>
    /\ UNCHANGED <<map, made>> /\ noEvent

Open(p) ==
    /\ pc[p] = "open"
    /\ IF link = NoSeg
         THEN Gone(p)   \* throws: opening shared memory failed
         ELSE SetFd(p, link) /\ Goto(p, "fstat_old") /\ UNCHANGED <<map, made>>
    /\ UNCHANGED <<link, seg>> /\ noEvent

\* faulty: opens an existing file whatever its mode
FstatIgnoresMode(p) ==
    /\ pc[p] \in {"fstat_new", "fstat_old"}
    /\ Goto(p, IF made[p] = "reinit" /\ seg[fd[p]].truncated THEN "re_map"
               ELSE IF pc[p] = "fstat_new" THEN "truncate" ELSE "map_existing")
    /\ UNCHANGED <<link, seg, fd, map, made>> /\ noEvent

\* size and mode of the file decide how to go on
Fstat(p) ==
    /\ pc[p] \in {"fstat_new", "fstat_old"}
    /\ UNCHANGED link /\ noEvent
    /\ \/ /\ made[p] = "reinit" /\ seg[fd[p]].truncated
          /\ Goto(p, "re_map") /\ UNCHANGED <<seg, fd, map, made>>
       \/ /\ ~(made[p] = "reinit" /\ seg[fd[p]].truncated)
          /\ pc[p] = "fstat_old" /\ seg[fd[p]].mode = NotReady
          /\ Gone(p) /\ FreeUnreferenced(seg)   \* throws not_ready_error
       \/ /\ ~(made[p] = "reinit" /\ seg[fd[p]].truncated)
          /\ pc[p] = "fstat_new" \/ seg[fd[p]].mode = Ready
          /\ Goto(p, IF pc[p] = "fstat_new" \/ made[p] = "reinit" THEN "truncate" ELSE "map_existing")
          /\ UNCHANGED <<seg, fd, map, made>>

\* faulty: maps without counting
MapExistingUncounted(p, next) ==
    /\ SetMap(p, fd[p]) /\ SetFd(p, NoSeg)
    /\ Goto(p, next)
    /\ UNCHANGED <<link, seg, made>> /\ noEvent

\* mmap_existing_fd: read the size, map, count the user
MapExisting(p, next) ==
    /\ UNCHANGED link /\ noEvent
    /\ IF seg[fd[p]].sized
         THEN /\ seg' = [seg EXCEPT ![fd[p]] = Increment(@)]
              /\ SetMap(p, fd[p]) /\ SetFd(p, NoSeg)
              /\ Goto(p, next)
              /\ UNCHANGED made
         ELSE Gone(p) /\ FreeUnreferenced(seg)     \* throws: original size is invalid

MapOld(p) ==
    /\ pc[p] = "map_existing"
    /\ MapExisting(p, "ready")

ReMap(p) ==
    /\ pc[p] = "re_map"
    /\ MapExisting(p, "re_mark")

ReMark(p) ==
    /\ pc[p] = "re_mark"
    /\ seg' = [seg EXCEPT ![map[p]] = Invalidate(@)]
    /\ Goto(p, "re_decrement")
    /\ UNCHANGED <<link, fd, map, made>> /\ noEvent

\* ... and unmap
ReDecrement(p) ==
    /\ pc[p] = "re_decrement"
    /\ SetMap(p, NoSeg)
    /\ Goto(p, "re_unlink")
    /\ UNCHANGED <<link, fd, made>> /\ noEvent
    /\ FreeUnreferenced([seg EXCEPT ![map[p]] = Decrement(@)])

ReUnlink(p) ==
    /\ pc[p] = "re_unlink"
    /\ link' = NoSeg
    /\ Goto(p, "re_create")
    /\ UNCHANGED <<fd, map, made>> /\ noEvent
    /\ FreeUnreferenced(seg)

ReCreate(p) ==
    /\ pc[p] = "re_create"
    /\ IF link = NoSeg
         THEN CreateFile(p) /\ Goto(p, "truncate") /\ UNCHANGED <<map, made>>
         ELSE Gone(p) /\ UNCHANGED <<link, seg>>    \* throws: somebody was faster
    /\ noEvent

\* ftruncate, mmap and memset
Truncate(p) ==
    /\ pc[p] = "truncate"
    /\ seg' = [seg EXCEPT ![fd[p]] = SetTruncated(@)]
    /\ SetMap(p, fd[p])
    /\ Goto(p, "init_size")
    /\ UNCHANGED <<link, fd, made>> /\ noEvent

\* the constructor of SharedData, member by member
InitSize(p) ==
    /\ pc[p] = "init_size"
    /\ seg' = [seg EXCEPT ![map[p]] = SetSized(@)]
    /\ Goto(p, "init_count")
    /\ UNCHANGED <<link, fd, map, made>> /\ noEvent

InitCount(p) ==
    /\ pc[p] = "init_count"
    /\ seg' = [seg EXCEPT ![map[p]] = CountOne(@)]
    /\ Goto(p, "init_store")
    /\ UNCHANGED <<link, fd, map, made>> /\ noEvent

InitStore(p) ==
    /\ pc[p] = "init_store"
    /\ seg' = [seg EXCEPT ![map[p]] = StoreLive(@)]
    /\ IF made[p] = "fd"
         THEN SetFd(p, NoSeg) /\ Goto(p, "ready")
         ELSE UNCHANGED fd /\ Goto(p, "chmod")
    /\ UNCHANGED <<link, map, made>> /\ noEvent

\* faulty: the mode stays 0600
ChmodForgotten(p) ==
    /\ pc[p] = "chmod"
    /\ SetFd(p, NoSeg)
    /\ made' = [made EXCEPT ![p] = "path"]
    /\ Goto(p, "ready")
    /\ UNCHANGED <<link, seg, map>> /\ noEvent

\* fchmod(fd, 0660) marks the store as ready
Chmod(p) ==
    /\ pc[p] = "chmod"
    /\ seg' = [seg EXCEPT ![fd[p]] = MarkReady(@)]
    /\ SetFd(p, NoSeg)
    /\ made' = [made EXCEPT ![p] = "path"]
    /\ Goto(p, "ready")
    /\ UNCHANGED <<link, map>> /\ noEvent

----------------------------------------------------------------------------
(* revalidate                                                              *)

\* valid(): a closed object is "none" here, and is not revalidated: the call
\* passes valid() and dereferences a null sh_data_ptr (stst_shared.cpp:207)
Valid(p) == map[p] # NoSeg /\ ~seg[map[p]].invalidated

Revalidate(p) ==
    /\ pc[p] = "ready"
    /\ ~Valid(p)
    /\ seg[map[p]].usage_count < MaxCount
    /\ Goto(p, "rv_open")
    /\ UNCHANGED <<link, seg, fd, map, made>> /\ noEvent

\* without a file a blocking call tries again, another one returns false;
\* an object made from a descriptor has no path to open
RvOpen(p) ==
    /\ pc[p] = "rv_open"
    /\ IF link # NoSeg /\ made[p] # "fd"
         THEN SetFd(p, link) /\ Goto(p, "rv_fstat")
         ELSE Goto(p, IF p \in Blocking THEN "rv_open" ELSE "ready") /\ UNCHANGED fd
    /\ UNCHANGED <<link, seg, map, made>> /\ noEvent

\* a blocking call looks at the same descriptor until it is ready
RvFstat(p) ==
    /\ pc[p] = "rv_fstat"
    /\ UNCHANGED <<link, made>> /\ noEvent
    /\ \/ /\ seg[fd[p]].mode = Ready
          /\ SetMap(p, NoSeg) /\ Goto(p, "rv_map") /\ UNCHANGED fd
       \/ /\ seg[fd[p]].mode = NotReady /\ p \in Blocking
          /\ UNCHANGED <<pc, fd, map>>
       \/ /\ seg[fd[p]].mode = NotReady /\ p \notin Blocking
          /\ SetFd(p, NoSeg) /\ Goto(p, "ready") /\ UNCHANGED map
    /\ FreeUnreferenced(seg)

RvMap(p) ==
    /\ pc[p] = "rv_map"
    /\ MapExisting(p, "ready")

----------------------------------------------------------------------------
(* to_buffer and from_buffer; addr() and size() copy as to_buffer does     *)

Copied(s) ==
    [usage_count |-> s.usage_count, invalidated |-> s.invalidated, store |-> s.store]

Pasted(s, b) ==
    [mode |-> s.mode, truncated |-> s.truncated, sized |-> s.sized,
     usage_count |-> b.usage_count, invalidated |-> b.invalidated, store |-> b.store]

\* bound: a copy is made only while it can be used
ToBuffer(p) ==
    /\ pc[p] = "ready"
    /\ \E e \in {"restore", "restore_shared"} : spent[e] < Limit[e]
    /\ buffer' = {Copied(seg[map[p]])}
    /\ UNCHANGED <<link, seg, pc, fd, map, made, spent>>

Alone(p) == \A q \in Process \ {p} : map[q] # map[p] /\ fd[q] # map[p]

\* assert_valid() asks for a mapping only, be it marked as invalid
FromBuffer(p) ==
    /\ pc[p] = "ready"
    /\ Spend(IF Alone(p) THEN "restore" ELSE "restore_shared")
    /\ \E b \in buffer : seg' = [seg EXCEPT ![map[p]] = Pasted(@, b)]
    /\ UNCHANGED <<link, pc, fd, map, made, buffer>>

----------------------------------------------------------------------------
(* close                                                                   *)

CleanupOf(p) == IF made[p] = "fd" THEN "NEVER" ELSE Cleanup[p]

\* the count after the decrement and the mode decide who tears down
TearsDown(p, count) ==
    (count = 0 /\ CleanupOf(p) = "IF_LAST") \/ CleanupOf(p) = "ALWAYS"

\* faulty: compares the count before the decrement
CloseDecrementPostfix(p) ==
    /\ pc[p] = "ready"
    /\ seg' = [seg EXCEPT ![map[p]] = Decrement(@)]
    /\ Goto(p, IF TearsDown(p, seg[map[p]].usage_count) THEN "close_cas" ELSE "close_unmap")
    /\ UNCHANGED <<link, fd, map, made>> /\ noEvent

CloseDecrement(p) ==
    /\ pc[p] = "ready"
    /\ seg' = [seg EXCEPT ![map[p]] = Decrement(@)]
    /\ Goto(p, IF TearsDown(p, seg[map[p]].usage_count - 1) THEN "close_cas" ELSE "close_unmap")
    /\ UNCHANGED <<link, fd, map, made>> /\ noEvent

\* faulty: a load instead of a compare_exchange
CloseCasLoad(p) ==
    /\ pc[p] = "close_cas"
    /\ Goto(p, IF seg[map[p]].invalidated THEN "close_unmap" ELSE "close_destroy")
    /\ UNCHANGED <<link, seg, fd, map, made>> /\ noEvent

\* faulty: a store instead of a compare_exchange
CloseCasStore(p) ==
    /\ pc[p] = "close_cas"
    /\ seg' = [seg EXCEPT ![map[p]] = Invalidate(@)]
    /\ Goto(p, "close_destroy")
    /\ UNCHANGED <<link, fd, map, made>> /\ noEvent

\* compare_exchange on invalidated: one process destroys and unlinks
CloseCas(p) ==
    /\ pc[p] = "close_cas"
    /\ seg' = [seg EXCEPT ![map[p]] = Invalidate(@)]
    /\ Goto(p, IF seg[map[p]].invalidated THEN "close_unmap" ELSE "close_destroy")
    /\ UNCHANGED <<link, fd, map, made>> /\ noEvent

\* faulty: destroys the store and leaves the path
CloseDestroyKeepsPath(p) ==
    /\ pc[p] = "close_destroy"
    /\ seg' = [seg EXCEPT ![map[p]] = StoreDestroyed(@)]
    /\ Goto(p, "close_unmap")
    /\ UNCHANGED <<link, fd, map, made>> /\ noEvent

CloseDestroy(p) ==
    /\ pc[p] = "close_destroy"
    /\ seg' = [seg EXCEPT ![map[p]] = StoreDestroyed(@)]
    /\ Goto(p, "close_unlink")
    /\ UNCHANGED <<link, fd, map, made>> /\ noEvent

\* unlink(path), whatever the path names by now
CloseUnlink(p) ==
    /\ pc[p] = "close_unlink"
    /\ link' = NoSeg
    /\ Goto(p, "close_unmap")
    /\ UNCHANGED <<fd, map, made>> /\ noEvent
    /\ FreeUnreferenced(seg)

CloseUnmap(p) ==
    /\ pc[p] = "close_unmap"
    /\ Gone(p)
    /\ UNCHANGED link /\ noEvent
    /\ FreeUnreferenced(seg)

\* the process dies: the kernel drops its descriptors and mappings
Crash(p) ==
    /\ pc[p] # "none"
    /\ Spend("crash")
    /\ Gone(p)
    /\ UNCHANGED <<link, buffer>>
    /\ FreeUnreferenced(seg)

----------------------------------------------------------------------------

Runs(p) ==
    \/ OpenExcl(p) \/ Open(p) \/ Fstat(p) \/ MapOld(p)
    \/ ReMap(p) \/ ReMark(p) \/ ReDecrement(p) \/ ReUnlink(p) \/ ReCreate(p)
    \/ Truncate(p) \/ InitSize(p) \/ InitCount(p) \/ InitStore(p) \/ Chmod(p)
    \/ RvOpen(p) \/ RvFstat(p) \/ RvMap(p)
    \/ CloseCas(p) \/ CloseDestroy(p) \/ CloseUnlink(p) \/ CloseUnmap(p)

Step(p) ==
    \/ Construct(p) \/ ConstructFdInit(p) \/ ConstructFd(p)
    \/ Revalidate(p) \/ CloseDecrement(p)
    \/ ToBuffer(p) \/ FromBuffer(p)
    \/ Runs(p)
    \/ Crash(p)

Next == \E p \in Process : Step(p)

Spec == Init /\ [][Next]_vars

\* a process inside of a call goes on until it crashes
FairSpec == Spec /\ \A p \in Process : WF_vars(Runs(p))
----------------------------------------------------------------------------

\* nobody pasted a buffer into a segment that others refer to
NotPastedOver == spent["restore_shared"] = 0

(* A process whose StructStoreShared is valid() works on a store that is   *)
(* constructed and not destroyed, whoever closes or reinits meanwhile.     *)
ValidMeansLive ==
    NotPastedOver =>
        \A p \in Process :
            pc[p] = "ready" /\ Valid(p) => seg[map[p]].store = "live"

(* A constructor without reinit and revalidate() map only segments whose   *)
(* construction is complete: the mode is what they go by.  A reinit maps   *)
(* any segment with a size, also one that is still under construction      *)
(* (stst_shared.cpp:43-50), but only to mark it and to leave it: whoever   *)
(* else has an unfinished segment mapped is its constructor.               *)
MapsOnlyBuilt ==
    \A p \in Process :
        /\ pc[p] \in {"map_existing", "rv_map"}
             => seg[fd[p]].sized /\ seg[fd[p]].store # "raw"
        /\ map[p] # NoSeg /\ seg[map[p]].store = "raw"
             => pc[p] \in {"init_size", "init_count", "init_store"} \union {"re_mark", "re_decrement"}

(* The store is destroyed by one process, once, although with ALWAYS every *)
(* closer tries and with IF_LAST the count may reach zero again.           *)
DestroyedOnce ==
    NotPastedOver =>
        \A p \in Process : pc[p] = "close_destroy" =>
            /\ seg[map[p]].store = "live"
            /\ \A q \in Process \ {p} : pc[q] = "close_destroy" => map[q] # map[p]

(* All valid users of a path share the segment the path names.             *)
ValidMeansLinked ==
    \A p \in Process :
        pc[p] = "ready" /\ Valid(p) /\ made[p] # "fd" => map[p] = link

\* ... as long as nobody reinits or pastes a buffer into a closed segment
SharedWithoutReinit ==
    spent["reinit"] = 0 /\ spent["restore"] = 0 /\ NotPastedOver => ValidMeansLinked

(* usage_count never falls below the number of processes that use the      *)
(* segment, so a count of zero means that nobody does (crashes and         *)
(* revalidate only make it too high).  A reinit that meets a segment under *)
(* construction breaks the count, and so does from_buffer, which brings    *)
(* back the count of the time of to_buffer, when others use the segment.   *)
CountedAt == {"chmod", "ready", "rv_open", "rv_fstat"}
Users(s) == {p \in Process : map[p] = s /\ pc[p] \in CountedAt}
CountCoversUsers ==
    spent["reinit"] = 0 /\ NotPastedOver =>
        \A s \in Seg : Cardinality(Users(s)) <= seg[s].usage_count

OnlyReinits == \A e \in Event \ {"reinit"} : spent[e] = 0

(* When all processes closed their store and none of them crashed or asked *)
(* for NEVER, the path is free again: the last close finds the count zero. *)
AllClosedUnlinks ==
    /\ OnlyReinits
    /\ \A p \in Process : Cleanup[p] # "NEVER" /\ pc[p] = "none"
    => link = NoSeg

(* If nobody crashes, a blocking revalidate() returns once the path stays  *)
(* linked: the segment it found becomes ready.                             *)
RevalidateEnds ==
    [](spent["crash"] = 0) /\ <>[](link # NoSeg) =>
        \A p \in Process :
            pc[p] \in Revalidating /\ made[p] # "fd" ~> pc[p] \notin Revalidating

(* With CleanupMode IF_LAST the store is destroyed by the last one to      *)
(* close: nobody's store becomes invalid while he uses it.                 *)
StaysValidUntilClosed ==
    [][\A p \in Process :
         pc[p] = "ready" /\ Valid(p) /\ pc'[p] = "ready" => Valid(p)']_vars

(* If nobody crashes or pastes a buffer, a segment that is marked as       *)
(* invalid does not stay linked: revalidate() cannot find the dead segment *)
(* forever.                                                                *)
InvalidatedIsUnlinked ==
    [](\A e \in Event \ {"reinit", "fd"} : spent[e] = 0) =>
        \A s \in Seg :
            (link = s /\ seg[s].invalidated) ~> ~(link = s /\ seg[s].invalidated)
----------------------------------------------------------------------------
(* The inductive invariant of the proofs (SharedSegmentProofs)             *)

Building == {"fstat_new", "truncate", "init_size", "init_count", "init_store", "chmod"}
WithFd == Building \union {"fstat_old", "map_existing", "re_map", "rv_fstat", "rv_map"}
Using == {"ready", "rv_open", "rv_fstat"} \union Closing
WithMap == Using \union {"re_mark", "re_decrement", "init_size", "init_count", "init_store", "chmod"}

\* which steps hold a descriptor and a mapping
HoldsInv ==
    \A p \in Process :
        /\ fd[p] # NoSeg <=> pc[p] \in WithFd
        /\ map[p] # NoSeg <=> pc[p] \in WithMap
        /\ pc[p] \in Building /\ pc[p] \in WithMap => map[p] = fd[p]
        /\ pc[p] \in {"chmod", "close_cas", "close_destroy", "close_unlink"} => made[p] # "fd"

\* a segment is made in the order: file, size, contents, mode
InOrder(s) ==
    /\ s.mode = Ready => s.store # "raw"
    /\ s.store # "raw" => s.sized
    /\ s.sized => s.truncated

Sound(s) == s.store = "destroyed" => s.invalidated

SegInv ==
    \A s \in Seg :
        /\ Fresh(s) => seg[s] = NewSegment
        /\ InOrder(seg[s])
        /\ NotPastedOver => Sound(seg[s])

\* how far the segment of a builder is
Progress(p) ==
    /\ seg[fd[p]].mode = NotReady
    /\ seg[fd[p]].truncated <=> pc[p] \notin {"fstat_new", "truncate"}
    /\ seg[fd[p]].sized <=> pc[p] \in {"init_count", "init_store", "chmod"}
    /\ seg[fd[p]].store = IF pc[p] = "chmod" THEN "live" ELSE "raw"

\* what q may do with the segment that p builds
Apart(p, q) ==
    /\ fd[q] = fd[p] => pc[q] \in {"fstat_old", "re_map", "rv_fstat"}
    /\ map[q] = fd[p] => pc[q] \in {"re_mark", "re_decrement"}

BuildInv ==
    \A p \in Process : pc[p] \in Building =>
        Progress(p) /\ \A q \in Process \ {p} : Apart(p, q)

UseInv ==
    \A p \in Process :
        /\ pc[p] \in Using => seg[map[p]].store # "raw"
        /\ pc[p] \in {"map_existing", "rv_map"} => seg[fd[p]].store # "raw"

\* who won the compare_exchange is alone to destroy the store
CloseInv ==
    NotPastedOver =>
        \A p \in Process : pc[p] = "close_destroy" =>
            /\ seg[map[p]].store = "live" /\ seg[map[p]].invalidated
            /\ \A q \in Process \ {p} : pc[q] = "close_destroy" => map[q] # map[p]

BufferInv ==
    \A b \in buffer :
        /\ b.store # "raw"
        /\ NotPastedOver => Sound(b)
        /\ NotPastedOver /\ spent["reinit"] = 0 => b.usage_count >= 1

\* one segment in use per path: what is not linked any more is invalid
Unlinking == {"close_destroy", "close_unlink"}
LinkInv ==
    spent["reinit"] = 0 /\ spent["restore"] = 0 /\ NotPastedOver =>
        /\ \A p \in Process : made[p] # "fd" =>
            \A s \in {fd[p], map[p]} \ {NoSeg} :
                s = link \/ (seg[s].invalidated /\ seg[s].store # "raw")
        /\ \A p \in Process : pc[p] \in Unlinking =>
            map[p] = link /\ seg[link].invalidated
        /\ \A p, q \in Process : pc[p] \in Unlinking /\ pc[q] \in Unlinking => p = q

\* without reinit nobody counts in a segment under construction
CountInv ==
    spent["reinit"] = 0 =>
        \A p \in Process :
            /\ made[p] # "reinit" /\ pc[p] \notin {"re_map", "re_mark", "re_decrement", "re_unlink", "re_create"}
            /\ pc[p] \in {"init_store", "chmod"} => seg[map[p]].usage_count = 1

\* after the last close nobody is left who would unlink the path: while it is
\* linked and nobody is about to unlink it, the count is exact and somebody
\* is left who makes, uses or tears down its segment
Removing == {"re_mark", "re_decrement", "re_unlink", "close_destroy", "close_unlink"}
Counted(s) == {p \in Process : map[p] = s /\ pc[p] \in CountedAt \union {"init_store"}}
Keeps(p, s) ==
    \/ map[p] = s /\ pc[p] \in CountedAt \union {"close_cas"}
    \/ fd[p] = s /\ pc[p] \in Building

PathKept ==
    link # NoSeg /\ (\A p \in Process : pc[p] \notin Removing) =>
        /\ ~seg[link].invalidated
        /\ seg[link].usage_count = Cardinality(Counted(link))
        /\ (\A p \in Process : Cleanup[p] # "NEVER") => \E p \in Process : Keeps(p, link)

\* only a segment that is marked is given up by revalidate
PathMarks ==
    \A p \in Process :
        /\ made[p] # "fd"
        /\ pc[p] \in {"rv_open", "rv_fstat"} => seg[map[p]].invalidated

PathInv == OnlyReinits => PathMarks /\ PathKept

IInv ==
    /\ TypeOK /\ HoldsInv /\ SegInv /\ BuildInv /\ UseInv /\ CloseInv
    /\ BufferInv /\ LinkInv /\ CountInv /\ CountCoversUsers /\ PathInv
=============================================================================
