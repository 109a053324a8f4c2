------------------------ MODULE SharedSegmentProofs -------------------------
(***************************************************************************)
(* Proofs about SharedSegment, for any number of processes and segments    *)
(* and any number of reinits, crashes, descriptors and pasted buffers.     *)
(***************************************************************************)
EXTENDS SharedSegment, TLAPS, FiniteSetTheorems

LEMMA MarkReadyCorrect ==
    ASSUME NEW s \in SegType
    PROVE  /\ MarkReady(s) \in SegType
           /\ MarkReady(s).mode = Ready
           /\ MarkReady(s).truncated = s.truncated
           /\ MarkReady(s).sized = s.sized
           /\ MarkReady(s).usage_count = s.usage_count
           /\ MarkReady(s).invalidated = s.invalidated
           /\ MarkReady(s).store = s.store
BY Zenon DEF SegType, MarkReady

LEMMA SetTruncatedCorrect ==
    ASSUME NEW s \in SegType
    PROVE  /\ SetTruncated(s) \in SegType
           /\ SetTruncated(s).mode = s.mode
           /\ SetTruncated(s).truncated = TRUE
           /\ SetTruncated(s).sized = s.sized
           /\ SetTruncated(s).usage_count = s.usage_count
           /\ SetTruncated(s).invalidated = s.invalidated
           /\ SetTruncated(s).store = s.store
BY Zenon DEF SegType, SetTruncated

LEMMA SetSizedCorrect ==
    ASSUME NEW s \in SegType
    PROVE  /\ SetSized(s) \in SegType
           /\ SetSized(s).mode = s.mode
           /\ SetSized(s).truncated = s.truncated
           /\ SetSized(s).sized = TRUE
           /\ SetSized(s).usage_count = s.usage_count
           /\ SetSized(s).invalidated = s.invalidated
           /\ SetSized(s).store = s.store
BY Zenon DEF SegType, SetSized

LEMMA CountOneCorrect ==
    ASSUME NEW s \in SegType
    PROVE  /\ CountOne(s) \in SegType
           /\ CountOne(s).mode = s.mode
           /\ CountOne(s).truncated = s.truncated
           /\ CountOne(s).sized = s.sized
           /\ CountOne(s).usage_count = 1
           /\ CountOne(s).invalidated = s.invalidated
           /\ CountOne(s).store = s.store
<1>1. s.usage_count \in Int /\ 1 \in Int  BY DEF SegType
<1> QED  BY <1>1, Zenon DEF SegType, CountOne

LEMMA IncrementCorrect ==
    ASSUME NEW s \in SegType
    PROVE  /\ Increment(s) \in SegType
           /\ Increment(s).mode = s.mode
           /\ Increment(s).truncated = s.truncated
           /\ Increment(s).sized = s.sized
           /\ Increment(s).usage_count = s.usage_count + 1
           /\ Increment(s).invalidated = s.invalidated
           /\ Increment(s).store = s.store
<1>1. s.usage_count \in Int /\ s.usage_count + 1 \in Int  BY DEF SegType
<1> QED  BY <1>1, Zenon DEF SegType, Increment

LEMMA DecrementCorrect ==
    ASSUME NEW s \in SegType
    PROVE  /\ Decrement(s) \in SegType
           /\ Decrement(s).mode = s.mode
           /\ Decrement(s).truncated = s.truncated
           /\ Decrement(s).sized = s.sized
           /\ Decrement(s).usage_count = s.usage_count - 1
           /\ Decrement(s).invalidated = s.invalidated
           /\ Decrement(s).store = s.store
<1>1. s.usage_count \in Int /\ s.usage_count - 1 \in Int  BY DEF SegType
<1> QED  BY <1>1, Zenon DEF SegType, Decrement

LEMMA InvalidateCorrect ==
    ASSUME NEW s \in SegType
    PROVE  /\ Invalidate(s) \in SegType
           /\ Invalidate(s).mode = s.mode
           /\ Invalidate(s).truncated = s.truncated
           /\ Invalidate(s).sized = s.sized
           /\ Invalidate(s).usage_count = s.usage_count
           /\ Invalidate(s).invalidated = TRUE
           /\ Invalidate(s).store = s.store
BY Zenon DEF SegType, Invalidate

LEMMA StoreLiveCorrect ==
    ASSUME NEW s \in SegType
    PROVE  /\ StoreLive(s) \in SegType
           /\ StoreLive(s).mode = s.mode
           /\ StoreLive(s).truncated = s.truncated
           /\ StoreLive(s).sized = s.sized
           /\ StoreLive(s).usage_count = s.usage_count
           /\ StoreLive(s).invalidated = FALSE
           /\ StoreLive(s).store = "live"
BY Zenon DEF SegType, StoreLive

LEMMA StoreDestroyedCorrect ==
    ASSUME NEW s \in SegType
    PROVE  /\ StoreDestroyed(s) \in SegType
           /\ StoreDestroyed(s).mode = s.mode
           /\ StoreDestroyed(s).truncated = s.truncated
           /\ StoreDestroyed(s).sized = s.sized
           /\ StoreDestroyed(s).usage_count = s.usage_count
           /\ StoreDestroyed(s).invalidated = s.invalidated
           /\ StoreDestroyed(s).store = "destroyed"
BY Zenon DEF SegType, StoreDestroyed

LEMMA PastedCorrect ==
    ASSUME NEW s \in SegType, NEW b \in Contents
    PROVE  /\ Pasted(s, b) \in SegType
           /\ Pasted(s, b).mode = s.mode
           /\ Pasted(s, b).truncated = s.truncated
           /\ Pasted(s, b).sized = s.sized
           /\ Pasted(s, b).usage_count = b.usage_count
           /\ Pasted(s, b).invalidated = b.invalidated
           /\ Pasted(s, b).store = b.store
BY DEF Pasted, Contents, SegType

LEMMA CopiedCorrect ==
    ASSUME NEW s \in SegType
    PROVE  /\ Copied(s) \in Contents
           /\ Copied(s).usage_count = s.usage_count
           /\ Copied(s).invalidated = s.invalidated
           /\ Copied(s).store = s.store
BY DEF Copied, Contents, SegType

LEMMA SegFields ==
    ASSUME NEW s \in SegType
    PROVE  /\ s.mode \in {NotReady, Ready} /\ s.truncated \in BOOLEAN /\ s.sized \in BOOLEAN
           /\ s.usage_count \in Int /\ s.invalidated \in BOOLEAN
           /\ s.store \in {"raw", "live", "destroyed"}
BY DEF SegType

LEMMA NewSegmentCorrect ==
    /\ NewSegment \in SegType
    /\ NewSegment.mode = NotReady /\ NewSegment.truncated = FALSE /\ NewSegment.sized = FALSE
    /\ NewSegment.usage_count = 0 /\ NewSegment.invalidated = FALSE /\ NewSegment.store = "raw"
BY DEF NewSegment, SegType

LEMMA Held ==
    ASSUME TypeOK, HoldsInv, NEW p \in Process
    PROVE  /\ pc[p] \in WithFd => fd[p] \in Seg /\ seg[fd[p]] \in SegType /\ seg[fd[p]].usage_count \in Int
           /\ pc[p] \in WithMap => map[p] \in Seg /\ seg[map[p]] \in SegType /\ seg[map[p]].usage_count \in Int
BY SegFields DEF TypeOK, HoldsInv

LEMMA TypeStep == ASSUME TypeOK, HoldsInv, NEW p \in Process, Step(p) PROVE TypeOK'
<1> USE SharedSegmentConstants DEF TypeOK, Goto, SetFd, SetMap, noEvent, Constructing, Revalidating, Closing, Event
<1>0. NewSegment \in SegType  BY NewSegmentCorrect
<1>h. /\ pc[p] \in WithFd => fd[p] \in Seg /\ seg[fd[p]] \in SegType /\ seg[fd[p]].usage_count \in Int
 /\ pc[p] \in WithMap => map[p] \in Seg /\ seg[map[p]] \in SegType /\ seg[map[p]].usage_count \in Int BY Held
<1>1. CASE Construct(p)
  BY <1>0, <1>h, <1>1 DEF Construct, Spend, WithFd, WithMap, Building, Using
<1>2. CASE ConstructFdInit(p)
  <2>1. PICK s \in Seg : Fresh(s) /\ SetFd(p, s) /\ SetMap(p, s) /\ seg' = [seg EXCEPT ![s] = SetTruncated(@)]
    BY <1>2 DEF ConstructFdInit
  <2>2. SetTruncated(seg[s]) \in SegType  BY SetTruncatedCorrect
  <2> QED  BY <1>2, <2>1, <2>2 DEF ConstructFdInit, Spend
<1>3. CASE ConstructFd(p)
  BY <1>0, <1>h, <1>3 DEF ConstructFd, Spend, WithFd, WithMap, Building, Using
<1>4. CASE Revalidate(p)
  BY <1>0, <1>h, <1>4 DEF Revalidate, WithFd, WithMap, Building, Using
<1>5. CASE CloseDecrement(p)
  BY <1>0, <1>h, <1>5, DecrementCorrect DEF CloseDecrement, WithFd, WithMap, Building, Using
<1>6. CASE ToBuffer(p)
  BY <1>0, <1>h, <1>6, CopiedCorrect DEF ToBuffer, WithFd, WithMap, Building, Using
<1>7. CASE FromBuffer(p)
  BY <1>0, <1>h, <1>7, PastedCorrect DEF FromBuffer, Spend, WithFd, WithMap, Building, Using
<1>8. CASE OpenExcl(p)
  BY <1>0, <1>h, <1>8 DEF OpenExcl, CreateFile, WithFd, WithMap, Building, Using
<1>9. CASE Open(p)
  BY <1>0, <1>h, <1>9 DEF Open, Gone, WithFd, WithMap, Building, Using
<1>10. CASE Fstat(p)
  BY <1>0, <1>h, <1>10 DEF Fstat, Gone, FreeUnreferenced, WithFd, WithMap, Building, Using
<1>11. CASE MapOld(p)
  BY <1>0, <1>h, <1>11, IncrementCorrect DEF MapOld, MapExisting, Gone, FreeUnreferenced, WithFd, WithMap, Building, Using
<1>12. CASE ReMap(p)
  BY <1>0, <1>h, <1>12, IncrementCorrect DEF ReMap, MapExisting, Gone, FreeUnreferenced, WithFd, WithMap, Building, Using
<1>13. CASE ReMark(p)
  BY <1>0, <1>h, <1>13, InvalidateCorrect DEF ReMark, WithFd, WithMap, Building, Using
<1>14. CASE ReDecrement(p)
  BY <1>0, <1>h, <1>14, DecrementCorrect DEF ReDecrement, FreeUnreferenced, WithFd, WithMap, Building, Using
<1>15. CASE ReUnlink(p)
  BY <1>0, <1>h, <1>15 DEF ReUnlink, FreeUnreferenced, WithFd, WithMap, Building, Using
<1>16. CASE ReCreate(p)
  BY <1>0, <1>h, <1>16 DEF ReCreate, CreateFile, Gone, WithFd, WithMap, Building, Using
<1>17. CASE Truncate(p)
  BY <1>0, <1>h, <1>17, SetTruncatedCorrect DEF Truncate, WithFd, WithMap, Building, Using
<1>18. CASE InitSize(p)
  BY <1>0, <1>h, <1>18, SetSizedCorrect DEF InitSize, WithFd, WithMap, Building, Using
<1>19. CASE InitCount(p)
  BY <1>0, <1>h, <1>19, CountOneCorrect DEF InitCount, WithFd, WithMap, Building, Using
<1>20. CASE InitStore(p)
  BY <1>0, <1>h, <1>20, StoreLiveCorrect DEF InitStore, WithFd, WithMap, Building, Using
<1>21. CASE Chmod(p)
  BY <1>0, <1>h, <1>21, MarkReadyCorrect DEF Chmod, WithFd, WithMap, Building, Using
<1>22. CASE RvOpen(p)
  BY <1>0, <1>h, <1>22 DEF RvOpen, WithFd, WithMap, Building, Using
<1>23. CASE RvFstat(p)
  BY <1>0, <1>h, <1>23 DEF RvFstat, FreeUnreferenced, WithFd, WithMap, Building, Using
<1>24. CASE RvMap(p)
  BY <1>0, <1>h, <1>24, IncrementCorrect DEF RvMap, MapExisting, Gone, FreeUnreferenced, WithFd, WithMap, Building, Using
<1>25. CASE CloseCas(p)
  BY <1>0, <1>h, <1>25, InvalidateCorrect DEF CloseCas, WithFd, WithMap, Building, Using
<1>26. CASE CloseDestroy(p)
  BY <1>0, <1>h, <1>26, StoreDestroyedCorrect DEF CloseDestroy, WithFd, WithMap, Building, Using
<1>27. CASE CloseUnlink(p)
  BY <1>0, <1>h, <1>27 DEF CloseUnlink, FreeUnreferenced, WithFd, WithMap, Building, Using
<1>28. CASE CloseUnmap(p)
  BY <1>0, <1>h, <1>28 DEF CloseUnmap, Gone, FreeUnreferenced, WithFd, WithMap, Building, Using
<1>29. CASE Crash(p)
  BY <1>0, <1>h, <1>29 DEF Crash, Spend, Gone, FreeUnreferenced, WithFd, WithMap, Building, Using
<1>q. QED BY <1>1, <1>2, <1>3, <1>4, <1>5, <1>6, <1>7, <1>8, <1>9, <1>10, <1>11, <1>12, <1>13, <1>14, <1>15, <1>16, <1>17, <1>18, <1>19, <1>20, <1>21, <1>22, <1>23, <1>24, <1>25, <1>26, <1>27, <1>28, <1>29 DEF Step, Runs


LEMMA HoldsStep == ASSUME TypeOK, HoldsInv, NEW p \in Process, Step(p) PROVE HoldsInv'
<1> USE SharedSegmentConstants DEF TypeOK, HoldsInv, Goto, SetFd, SetMap, noEvent, Closing, WithFd, WithMap, Building, Using
<1>1. CASE Construct(p)
  BY <1>1 DEF Construct
<1>2. CASE ConstructFdInit(p)
  BY <1>2 DEF ConstructFdInit
<1>3. CASE ConstructFd(p)
  BY <1>3 DEF ConstructFd
<1>4. CASE Revalidate(p)
  BY <1>4 DEF Revalidate
<1>5. CASE CloseDecrement(p)
  BY <1>5 DEF CloseDecrement, TearsDown, CleanupOf
<1>6. CASE ToBuffer(p)
  BY <1>6 DEF ToBuffer
<1>7. CASE FromBuffer(p)
  BY <1>7 DEF FromBuffer
<1>8. CASE OpenExcl(p)
  BY <1>8 DEF OpenExcl, CreateFile
<1>9. CASE Open(p)
  BY <1>9 DEF Open, Gone
<1>10. CASE Fstat(p)
  BY <1>10 DEF Fstat, Gone
<1>11. CASE MapOld(p)
  BY <1>11 DEF MapOld, MapExisting, Gone
<1>12. CASE ReMap(p)
  BY <1>12 DEF ReMap, MapExisting, Gone
<1>13. CASE ReMark(p)
  BY <1>13 DEF ReMark
<1>14. CASE ReDecrement(p)
  BY <1>14 DEF ReDecrement
<1>15. CASE ReUnlink(p)
  BY <1>15 DEF ReUnlink
<1>16. CASE ReCreate(p)
  BY <1>16 DEF ReCreate, CreateFile, Gone
<1>17. CASE Truncate(p)
  BY <1>17 DEF Truncate
<1>18. CASE InitSize(p)
  BY <1>18 DEF InitSize
<1>19. CASE InitCount(p)
  BY <1>19 DEF InitCount
<1>20. CASE InitStore(p)
  BY <1>20 DEF InitStore
<1>21. CASE Chmod(p)
  BY <1>21 DEF Chmod
<1>22. CASE RvOpen(p)
  BY <1>22 DEF RvOpen
<1>23. CASE RvFstat(p)
  BY <1>23 DEF RvFstat
<1>24. CASE RvMap(p)
  BY <1>24 DEF RvMap, MapExisting, Gone
<1>25. CASE CloseCas(p)
  BY <1>25 DEF CloseCas
<1>26. CASE CloseDestroy(p)
  BY <1>26 DEF CloseDestroy
<1>27. CASE CloseUnlink(p)
  BY <1>27 DEF CloseUnlink
<1>28. CASE CloseUnmap(p)
  BY <1>28 DEF CloseUnmap, Gone
<1>29. CASE Crash(p)
  BY <1>29 DEF Crash, Gone
<1>q. QED BY <1>1, <1>2, <1>3, <1>4, <1>5, <1>6, <1>7, <1>8, <1>9, <1>10, <1>11, <1>12, <1>13, <1>14, <1>15, <1>16, <1>17, <1>18, <1>19, <1>20, <1>21, <1>22, <1>23, <1>24, <1>25, <1>26, <1>27, <1>28, <1>29 DEF Step, Runs


LEMMA FreshStep ==
    ASSUME TypeOK, HoldsInv, SegInv, NEW p \in Process, Step(p), NEW s \in Seg, Fresh(s)'
    PROVE  seg'[s] = NewSegment
<1> USE SharedSegmentConstants DEF TypeOK, HoldsInv, Goto, SetFd, SetMap, noEvent, Closing, WithFd, WithMap, Building, Using
<1>0. Fresh(s) => seg[s] = NewSegment  BY DEF SegInv
<1>1. CASE Construct(p)
  BY <1>0, <1>1 DEF Construct, Fresh
<1>2. CASE ConstructFdInit(p)
  BY <1>0, <1>2 DEF ConstructFdInit, Fresh
<1>3. CASE ConstructFd(p)
  BY <1>0, <1>3 DEF ConstructFd, Fresh
<1>4. CASE Revalidate(p)
  BY <1>0, <1>4 DEF Revalidate, Fresh
<1>5. CASE CloseDecrement(p)
  BY <1>0, <1>5 DEF CloseDecrement, Fresh
<1>6. CASE ToBuffer(p)
  BY <1>0, <1>6 DEF ToBuffer, Fresh
<1>7. CASE FromBuffer(p)
  BY <1>0, <1>7 DEF FromBuffer, Fresh
<1>8. CASE OpenExcl(p)
  BY <1>0, <1>8 DEF OpenExcl, CreateFile, Fresh
<1>9. CASE Open(p)
  BY <1>0, <1>9 DEF Open, Gone, Fresh
<1>10. CASE Fstat(p)
  BY <1>0, <1>10 DEF Fstat, Gone, FreeUnreferenced, Fresh
<1>11. CASE MapOld(p)
  BY <1>0, <1>11 DEF MapOld, MapExisting, Gone, FreeUnreferenced, Fresh
<1>12. CASE ReMap(p)
  BY <1>0, <1>12 DEF ReMap, MapExisting, Gone, FreeUnreferenced, Fresh
<1>13. CASE ReMark(p)
  BY <1>0, <1>13 DEF ReMark, Fresh
<1>14. CASE ReDecrement(p)
  BY <1>14 DEF ReDecrement, FreeUnreferenced
<1>15. CASE ReUnlink(p)
  BY <1>15 DEF ReUnlink, FreeUnreferenced
<1>16. CASE ReCreate(p)
  BY <1>0, <1>16 DEF ReCreate, CreateFile, Gone, Fresh
<1>17. CASE Truncate(p)
  BY <1>0, <1>17 DEF Truncate, Fresh
<1>18. CASE InitSize(p)
  BY <1>0, <1>18 DEF InitSize, Fresh
<1>19. CASE InitCount(p)
  BY <1>0, <1>19 DEF InitCount, Fresh
<1>20. CASE InitStore(p)
  BY <1>0, <1>20 DEF InitStore, Fresh
<1>21. CASE Chmod(p)
  BY <1>0, <1>21 DEF Chmod, Fresh
<1>22. CASE RvOpen(p)
  BY <1>0, <1>22 DEF RvOpen, Fresh
<1>23. CASE RvFstat(p)
  BY <1>23 DEF RvFstat, FreeUnreferenced
<1>24. CASE RvMap(p)
  BY <1>0, <1>24 DEF RvMap, MapExisting, Gone, FreeUnreferenced, Fresh
<1>25. CASE CloseCas(p)
  BY <1>0, <1>25 DEF CloseCas, Fresh
<1>26. CASE CloseDestroy(p)
  BY <1>0, <1>26 DEF CloseDestroy, Fresh
<1>27. CASE CloseUnlink(p)
  BY <1>27 DEF CloseUnlink, FreeUnreferenced
<1>28. CASE CloseUnmap(p)
  BY <1>28 DEF CloseUnmap, FreeUnreferenced
<1>29. CASE Crash(p)
  BY <1>29 DEF Crash, FreeUnreferenced
<1>q. QED BY <1>1, <1>2, <1>3, <1>4, <1>5, <1>6, <1>7, <1>8, <1>9, <1>10, <1>11, <1>12, <1>13, <1>14, <1>15, <1>16, <1>17, <1>18, <1>19, <1>20, <1>21, <1>22, <1>23, <1>24, <1>25, <1>26, <1>27, <1>28, <1>29 DEF Step, Runs

LEMMA SpentStep ==
    ASSUME TypeOK, NEW p \in Process, Step(p)
    PROVE  /\ NotPastedOver' => NotPastedOver
           /\ \A e \in Event : spent'[e] = 0 => spent[e] = 0
<1> USE DEF TypeOK, Spend, NotPastedOver, Event
<1>1. UNCHANGED spent \/ \E e \in Event : Spend(e)
  BY DEF Step, Runs, noEvent, Construct, ConstructFdInit, ConstructFd, Revalidate, CloseDecrement, ToBuffer, FromBuffer, OpenExcl, Open, Fstat, MapOld, ReMap, MapExisting, ReMark, ReDecrement, ReUnlink, ReCreate, Truncate, InitSize, InitCount, InitStore, Chmod, RvOpen, RvFstat, RvMap, CloseCas, CloseDestroy, CloseUnlink, CloseUnmap, Crash
<1>2. CASE UNCHANGED spent  BY <1>2
<1>3. ASSUME NEW e \in Event, Spend(e)  PROVE \A f \in Event : spent'[f] = 0 => spent[f] = 0
  BY <1>3
<1>4. QED  BY <1>1, <1>2, <1>3

LEMMA SegStep ==
    ASSUME TypeOK, HoldsInv, SegInv, BuildInv, UseInv, BufferInv, CloseInv, NEW p \in Process, Step(p)
    PROVE  SegInv'
<1> USE SharedSegmentConstants DEF NotPastedOver, Goto, SetFd, SetMap, noEvent, Closing, WithFd, WithMap, Building, Using
<1> SUFFICES ASSUME NEW s \in Seg PROVE InOrder(seg'[s]) /\ (NotPastedOver' => Sound(seg'[s]))
  BY FreshStep DEF SegInv, InOrder, Sound
<1>0. /\ seg[s] \in SegType /\ InOrder(seg[s]) /\ (NotPastedOver => Sound(seg[s]))
      /\ InOrder(NewSegment) /\ Sound(NewSegment)
  BY NewSegmentCorrect DEF TypeOK, SegInv, NotReady, Ready, InOrder, Sound
<1>h. /\ pc[p] \in WithFd => fd[p] \in Seg /\ seg[fd[p]] \in SegType
      /\ pc[p] \in WithMap => map[p] \in Seg /\ seg[map[p]] \in SegType
  BY Held
<1>n. NotPastedOver' => NotPastedOver
  BY SpentStep

<1>1. CASE Construct(p)
  BY <1>0, <1>h, <1>n, <1>1 DEF Construct, Spend
<1>2. CASE ConstructFdInit(p)
  <2>1. PICK r \in Seg : Fresh(r) /\ seg' = [seg EXCEPT ![r] = SetTruncated(@)]
    BY <1>2 DEF ConstructFdInit
  <2>2. SetTruncated(NewSegment).store = "raw" /\ ~SetTruncated(NewSegment).sized
        /\ SetTruncated(NewSegment).mode = NotReady
    BY SetTruncatedCorrect, NewSegmentCorrect
  <2>3. seg[r] = NewSegment /\ (seg'[s] = seg[s] \/ seg'[s] = SetTruncated(seg[r]))
    BY <2>1 DEF SegInv, TypeOK
  <2> QED  BY <1>0, <1>n, <2>2, <2>3 DEF InOrder, Sound, NotReady, Ready
<1>3. CASE ConstructFd(p)
  BY <1>0, <1>h, <1>n, <1>3 DEF ConstructFd, Spend
<1>4. CASE Revalidate(p)
  BY <1>0, <1>h, <1>n, <1>4 DEF Revalidate
<1>5. CASE CloseDecrement(p)
  BY <1>0, <1>h, <1>n, <1>5, DecrementCorrect DEF CloseDecrement, InOrder, Sound, TypeOK
<1>6. CASE ToBuffer(p)
  BY <1>0, <1>h, <1>n, <1>6 DEF ToBuffer
<1>7. CASE FromBuffer(p)
  <2>1. PICK b \in buffer : seg' = [seg EXCEPT ![map[p]] = Pasted(@, b)]
    BY <1>7 DEF FromBuffer
  <2>2. b \in Contents /\ b.store # "raw" /\ (NotPastedOver => Sound(b))
    BY DEF TypeOK, BufferInv
  <2>3. /\ Pasted(seg[s], b).truncated = seg[s].truncated /\ Pasted(seg[s], b).sized = seg[s].sized
        /\ Pasted(seg[s], b).invalidated = b.invalidated /\ Pasted(seg[s], b).store = b.store
    BY <1>0, <2>2, PastedCorrect
  <2>4. s = map[p] => seg[s].store # "raw"
    BY <1>7 DEF FromBuffer, UseInv, Using
  <2>5. seg'[s] = seg[s] \/ (s = map[p] /\ seg'[s] = Pasted(seg[s], b))
    BY <2>1 DEF TypeOK
  <2> QED  BY <1>0, <1>n, <2>2, <2>3, <2>4, <2>5 DEF InOrder, Sound
<1>8. CASE OpenExcl(p)
  BY <1>0, <1>h, <1>n, <1>8 DEF OpenExcl, CreateFile
<1>9. CASE Open(p)
  BY <1>0, <1>h, <1>n, <1>9 DEF Open, Gone
<1>10. CASE Fstat(p)
  BY <1>0, <1>h, <1>n, <1>10 DEF Fstat, Gone, FreeUnreferenced
<1>11. CASE MapOld(p)
  BY <1>0, <1>h, <1>n, <1>11, IncrementCorrect DEF MapOld, MapExisting, Gone, FreeUnreferenced, InOrder, Sound, TypeOK
<1>12. CASE ReMap(p)
  BY <1>0, <1>h, <1>n, <1>12, IncrementCorrect DEF ReMap, MapExisting, Gone, FreeUnreferenced, InOrder, Sound, TypeOK
<1>13. CASE ReMark(p)
  <2>1. seg'[s] = seg[s] \/ (s = map[p] /\ seg'[s] = Invalidate(seg[s]))
    BY <1>13 DEF ReMark, TypeOK
  <2>2. /\ Invalidate(seg[s]).mode = seg[s].mode
        /\ Invalidate(seg[s]).truncated = seg[s].truncated
        /\ Invalidate(seg[s]).sized = seg[s].sized
        /\ Invalidate(seg[s]).store = seg[s].store
        /\ Invalidate(seg[s]).invalidated = TRUE
    BY <1>0, InvalidateCorrect
  <2> QED  BY <1>0, <1>n, <2>1, <2>2 DEF InOrder, Sound
<1>14. CASE ReDecrement(p)
  BY <1>0, <1>h, <1>n, <1>14, DecrementCorrect DEF ReDecrement, FreeUnreferenced, InOrder, Sound, TypeOK
<1>15. CASE ReUnlink(p)
  BY <1>0, <1>h, <1>n, <1>15 DEF ReUnlink, FreeUnreferenced
<1>16. CASE ReCreate(p)
  BY <1>0, <1>h, <1>n, <1>16 DEF ReCreate, CreateFile, Gone
<1>17. CASE Truncate(p)
  <2>1. seg'[s] = seg[s] \/ (s = fd[p] /\ seg'[s] = SetTruncated(seg[s]))
    BY <1>17 DEF Truncate, TypeOK
  <2>2. /\ SetTruncated(seg[s]).mode = seg[s].mode
        /\ SetTruncated(seg[s]).sized = seg[s].sized
        /\ SetTruncated(seg[s]).store = seg[s].store
        /\ SetTruncated(seg[s]).invalidated = seg[s].invalidated
        /\ SetTruncated(seg[s]).truncated = TRUE
    BY <1>0, SetTruncatedCorrect
  <2> QED  BY <1>0, <1>n, <2>1, <2>2 DEF InOrder, Sound
<1>18. CASE InitSize(p)
  <2>1. seg'[s] = seg[s] \/ (s = map[p] /\ seg'[s] = SetSized(seg[s]))
    BY <1>18 DEF InitSize, TypeOK
  <2>2. /\ SetSized(seg[s]).mode = seg[s].mode
        /\ SetSized(seg[s]).truncated = seg[s].truncated
        /\ SetSized(seg[s]).store = seg[s].store
        /\ SetSized(seg[s]).invalidated = seg[s].invalidated
        /\ SetSized(seg[s]).sized = TRUE
    BY <1>0, SetSizedCorrect
  <2>3. s = map[p] => seg[s].truncated
    BY <1>18 DEF InitSize, BuildInv, Progress, HoldsInv, Building, WithMap
  <2> QED  BY <1>0, <1>n, <2>1, <2>2, <2>3 DEF InOrder, Sound
<1>19. CASE InitCount(p)
  BY <1>0, <1>h, <1>n, <1>19, CountOneCorrect DEF InitCount, InOrder, Sound, TypeOK
<1>20. CASE InitStore(p)
  <2>1. seg'[s] = seg[s] \/ (s = map[p] /\ seg'[s] = StoreLive(seg[s]))
    BY <1>20 DEF InitStore, TypeOK
  <2>2. /\ StoreLive(seg[s]).mode = seg[s].mode
        /\ StoreLive(seg[s]).truncated = seg[s].truncated
        /\ StoreLive(seg[s]).sized = seg[s].sized
        /\ StoreLive(seg[s]).store = "live"
    BY <1>0, StoreLiveCorrect
  <2>3. s = map[p] => seg[s].sized /\ seg[s].truncated
    BY <1>20 DEF InitStore, BuildInv, Progress, SegInv, InOrder, HoldsInv, Building, WithMap
  <2> QED  BY <1>0, <1>n, <2>1, <2>2, <2>3 DEF InOrder, Sound
<1>21. CASE Chmod(p)
  BY <1>0, <1>h, <1>n, <1>21, MarkReadyCorrect DEF Chmod, SegInv, BuildInv, Progress, Progress, InOrder, Sound, TypeOK
<1>22. CASE RvOpen(p)
  BY <1>0, <1>h, <1>n, <1>22 DEF RvOpen
<1>23. CASE RvFstat(p)
  BY <1>0, <1>h, <1>n, <1>23 DEF RvFstat, FreeUnreferenced
<1>24. CASE RvMap(p)
  BY <1>0, <1>h, <1>n, <1>24, IncrementCorrect DEF RvMap, MapExisting, Gone, FreeUnreferenced, InOrder, Sound, TypeOK
<1>25. CASE CloseCas(p)
  <2>1. seg'[s] = seg[s] \/ (s = map[p] /\ seg'[s] = Invalidate(seg[s]))
    BY <1>25 DEF CloseCas, TypeOK
  <2>2. /\ Invalidate(seg[s]).mode = seg[s].mode
        /\ Invalidate(seg[s]).truncated = seg[s].truncated
        /\ Invalidate(seg[s]).sized = seg[s].sized
        /\ Invalidate(seg[s]).store = seg[s].store
        /\ Invalidate(seg[s]).invalidated = TRUE
    BY <1>0, InvalidateCorrect
  <2> QED  BY <1>0, <1>n, <2>1, <2>2 DEF InOrder, Sound
<1>26. CASE CloseDestroy(p)
  <2>1. seg'[s] = seg[s] \/ (s = map[p] /\ seg'[s] = StoreDestroyed(seg[s]))
    BY <1>26 DEF CloseDestroy, TypeOK
  <2>2. /\ StoreDestroyed(seg[s]).truncated = seg[s].truncated
        /\ StoreDestroyed(seg[s]).sized = seg[s].sized
        /\ StoreDestroyed(seg[s]).invalidated = seg[s].invalidated
        /\ StoreDestroyed(seg[s]).store = "destroyed"
    BY <1>0, StoreDestroyedCorrect
  <2>3. s = map[p] => seg[s].sized /\ seg[s].truncated /\ (NotPastedOver => seg[s].invalidated)
    <3>1. s = map[p] => seg[s].store # "raw"
      BY <1>26 DEF CloseDestroy, UseInv
    <3> QED  BY <1>0, <1>26, <3>1 DEF CloseDestroy, CloseInv, InOrder
  <2> QED  BY <1>0, <1>n, <2>1, <2>2, <2>3 DEF InOrder, Sound
<1>27. CASE CloseUnlink(p)
  BY <1>0, <1>h, <1>n, <1>27 DEF CloseUnlink, FreeUnreferenced
<1>28. CASE CloseUnmap(p)
  BY <1>0, <1>h, <1>n, <1>28 DEF CloseUnmap, Gone, FreeUnreferenced
<1>29. CASE Crash(p)
  BY <1>0, <1>h, <1>n, <1>29 DEF Crash, Spend, Gone, FreeUnreferenced
<1>q. QED BY <1>1, <1>2, <1>3, <1>4, <1>5, <1>6, <1>7, <1>8, <1>9, <1>10, <1>11, <1>12, <1>13, <1>14, <1>15, <1>16, <1>17, <1>18, <1>19, <1>20, <1>21, <1>22, <1>23, <1>24, <1>25, <1>26, <1>27, <1>28, <1>29 DEF Step, Runs


LEMMA FrameStep ==
    ASSUME TypeOK, NEW p \in Process, Step(p), NEW q \in Process \ {p}
    PROVE  pc'[q] = pc[q] /\ fd'[q] = fd[q] /\ map'[q] = map[q] /\ made'[q] = made[q]
<1> USE DEF TypeOK, Goto, SetFd, SetMap, Gone, CreateFile, MapExisting
<1>1. CASE Construct(p)  BY <1>1 DEF Construct
<1>2. CASE ConstructFdInit(p)  BY <1>2 DEF ConstructFdInit
<1>3. CASE ConstructFd(p)  BY <1>3 DEF ConstructFd
<1>4. CASE Revalidate(p)  BY <1>4 DEF Revalidate
<1>5. CASE CloseDecrement(p)  BY <1>5 DEF CloseDecrement
<1>6. CASE ToBuffer(p)  BY <1>6 DEF ToBuffer
<1>7. CASE FromBuffer(p)  BY <1>7 DEF FromBuffer
<1>8. CASE OpenExcl(p)  BY <1>8 DEF OpenExcl
<1>9. CASE Open(p)  BY <1>9 DEF Open
<1>10. CASE Fstat(p)  BY <1>10 DEF Fstat
<1>11. CASE MapOld(p)  BY <1>11 DEF MapOld
<1>12. CASE ReMap(p)  BY <1>12 DEF ReMap
<1>13. CASE ReMark(p)  BY <1>13 DEF ReMark
<1>14. CASE ReDecrement(p)  BY <1>14 DEF ReDecrement
<1>15. CASE ReUnlink(p)  BY <1>15 DEF ReUnlink
<1>16. CASE ReCreate(p)  BY <1>16 DEF ReCreate
<1>17. CASE Truncate(p)  BY <1>17 DEF Truncate
<1>18. CASE InitSize(p)  BY <1>18 DEF InitSize
<1>19. CASE InitCount(p)  BY <1>19 DEF InitCount
<1>20. CASE InitStore(p)  BY <1>20 DEF InitStore
<1>21. CASE Chmod(p)  BY <1>21 DEF Chmod
<1>22. CASE RvOpen(p)  BY <1>22 DEF RvOpen
<1>23. CASE RvFstat(p)  BY <1>23 DEF RvFstat
<1>24. CASE RvMap(p)  BY <1>24 DEF RvMap
<1>25. CASE CloseCas(p)  BY <1>25 DEF CloseCas
<1>26. CASE CloseDestroy(p)  BY <1>26 DEF CloseDestroy
<1>27. CASE CloseUnlink(p)  BY <1>27 DEF CloseUnlink
<1>28. CASE CloseUnmap(p)  BY <1>28 DEF CloseUnmap
<1>29. CASE Crash(p)  BY <1>29 DEF Crash
<1>q. QED  BY <1>1, <1>2, <1>3, <1>4, <1>5, <1>6, <1>7, <1>8, <1>9, <1>10, <1>11, <1>12, <1>13, <1>14, <1>15, <1>16, <1>17, <1>18, <1>19, <1>20, <1>21, <1>22, <1>23, <1>24, <1>25, <1>26, <1>27, <1>28, <1>29 DEF Step, Runs

LEMMA BuiltByOther ==
    ASSUME TypeOK, HoldsInv, SegInv, BuildInv, NEW p \in Process, Step(p),
           NEW b \in Process \ {p}, pc[b] \in Building
    PROVE  /\ seg'[fd[b]].mode = seg[fd[b]].mode
           /\ seg'[fd[b]].truncated = seg[fd[b]].truncated
           /\ seg'[fd[b]].sized = seg[fd[b]].sized
           /\ seg'[fd[b]].store = seg[fd[b]].store
<1>p. PICK s \in Seg : s = fd[b]
  BY Held DEF WithFd
<1>0. /\ seg[s] \in SegType /\ ~Fresh(s)'
  BY <1>p, Held, FrameStep DEF WithFd, Fresh
<1>1. /\ fd[p] = s => pc[p] \in {"fstat_old", "re_map", "rv_fstat"}
      /\ map[p] = s => pc[p] \in {"re_mark", "re_decrement"}
  BY <1>p DEF BuildInv, Apart
<1> SUFFICES /\ seg'[s].mode = seg[s].mode
             /\ seg'[s].truncated = seg[s].truncated
             /\ seg'[s].sized = seg[s].sized
             /\ seg'[s].store = seg[s].store
  BY <1>p
<1> USE DEF TypeOK, Goto, SetFd, SetMap, noEvent
<1>2. CASE Construct(p)
  BY <1>0, <1>1, <1>2 DEF Construct
<1>3. CASE ConstructFdInit(p)
  <2>1. PICK r \in Seg : Fresh(r) /\ seg' = [seg EXCEPT ![r] = SetTruncated(@)]
    BY <1>3 DEF ConstructFdInit
  <2>2. r # s
    BY <1>p, <2>1 DEF Fresh
  <2> QED  BY <1>0, <2>1, <2>2
<1>4. CASE ConstructFd(p)
  BY <1>0, <1>1, <1>4 DEF ConstructFd
<1>5. CASE Revalidate(p)
  BY <1>0, <1>1, <1>5 DEF Revalidate
<1>6. CASE CloseDecrement(p)
  BY <1>0, <1>1, <1>6, DecrementCorrect DEF CloseDecrement
<1>7. CASE ToBuffer(p)
  BY <1>0, <1>1, <1>7 DEF ToBuffer
<1>8. CASE FromBuffer(p)
  BY <1>0, <1>1, <1>8, PastedCorrect DEF FromBuffer
<1>9. CASE OpenExcl(p)
  BY <1>0, <1>1, <1>9 DEF OpenExcl, CreateFile
<1>10. CASE Open(p)
  BY <1>0, <1>1, <1>10 DEF Open, Gone
<1>11. CASE Fstat(p)
  BY <1>0, <1>1, <1>11 DEF Fstat, Gone, FreeUnreferenced
<1>12. CASE MapOld(p)
  BY <1>0, <1>1, <1>12, IncrementCorrect DEF MapOld, MapExisting, Gone, FreeUnreferenced
<1>13. CASE ReMap(p)
  BY <1>0, <1>1, <1>13, IncrementCorrect DEF ReMap, MapExisting, Gone, FreeUnreferenced
<1>14. CASE ReMark(p)
  BY <1>0, <1>1, <1>14, InvalidateCorrect DEF ReMark
<1>15. CASE ReDecrement(p)
  BY <1>0, <1>1, <1>15, DecrementCorrect DEF ReDecrement, FreeUnreferenced
<1>16. CASE ReUnlink(p)
  BY <1>0, <1>1, <1>16 DEF ReUnlink, FreeUnreferenced
<1>17. CASE ReCreate(p)
  BY <1>0, <1>1, <1>17 DEF ReCreate, CreateFile, Gone
<1>18. CASE Truncate(p)
  BY <1>0, <1>1, <1>18, SetTruncatedCorrect DEF Truncate
<1>19. CASE InitSize(p)
  BY <1>0, <1>1, <1>19, SetSizedCorrect DEF InitSize
<1>20. CASE InitCount(p)
  BY <1>0, <1>1, <1>20, CountOneCorrect DEF InitCount
<1>21. CASE InitStore(p)
  BY <1>0, <1>1, <1>21, StoreLiveCorrect DEF InitStore
<1>22. CASE Chmod(p)
  BY <1>0, <1>1, <1>22, MarkReadyCorrect DEF Chmod
<1>23. CASE RvOpen(p)
  BY <1>0, <1>1, <1>23 DEF RvOpen
<1>24. CASE RvFstat(p)
  BY <1>0, <1>1, <1>24 DEF RvFstat, FreeUnreferenced
<1>25. CASE RvMap(p)
  BY <1>0, <1>1, <1>25, IncrementCorrect DEF RvMap, MapExisting, Gone, FreeUnreferenced
<1>26. CASE CloseCas(p)
  BY <1>0, <1>1, <1>26, InvalidateCorrect DEF CloseCas
<1>27. CASE CloseDestroy(p)
  BY <1>0, <1>1, <1>27, StoreDestroyedCorrect DEF CloseDestroy
<1>28. CASE CloseUnlink(p)
  BY <1>0, <1>1, <1>28 DEF CloseUnlink, FreeUnreferenced
<1>29. CASE CloseUnmap(p)
  BY <1>0, <1>1, <1>29 DEF CloseUnmap, Gone, FreeUnreferenced
<1>30. CASE Crash(p)
  BY <1>0, <1>1, <1>30 DEF Crash, Gone, FreeUnreferenced
<1>31. QED  BY <1>2, <1>3, <1>4, <1>5, <1>6, <1>7, <1>8, <1>9, <1>10, <1>11, <1>12, <1>13, <1>14, <1>15, <1>16, <1>17, <1>18, <1>19, <1>20, <1>21, <1>22, <1>23, <1>24, <1>25, <1>26, <1>27, <1>28, <1>29, <1>30 DEF Step, Runs

LEMMA OtherStaysApart ==
    ASSUME TypeOK, HoldsInv, SegInv, BuildInv, UseInv, NEW p \in Process, Step(p),
           NEW b \in Process \ {p}, pc[b] \in Building
    PROVE  Apart(b, p)'
<1> USE SharedSegmentConstants DEF TypeOK, Goto, SetFd, SetMap, NotReady, Ready
<1>p. PICK s \in Seg : s = fd[b]
  BY Held DEF WithFd
<1>0. /\ fd[p] = s => pc[p] \in {"fstat_old", "re_map", "rv_fstat"}
      /\ map[p] = s => pc[p] \in {"re_mark", "re_decrement"}
      /\ seg[s].mode = NotReady
      /\ \A q \in Process : map[q] = s => pc[q] # "ready"
      /\ ~Fresh(s)
  BY <1>p DEF BuildInv, Apart, Progress, Building, Fresh
<1>1. SUFFICES /\ fd'[p] = s => pc'[p] \in {"fstat_old", "re_map", "rv_fstat"}
               /\ map'[p] = s => pc'[p] \in {"re_mark", "re_decrement"}
  BY <1>p, FrameStep DEF Apart
<1>2. CASE Construct(p)
  BY <1>0, <1>2 DEF Construct
<1>3. CASE ConstructFdInit(p)
  BY <1>0, <1>3 DEF ConstructFdInit
<1>4. CASE ConstructFd(p)
  BY <1>0, <1>4 DEF ConstructFd
<1>5. CASE Revalidate(p)
  BY <1>0, <1>5 DEF Revalidate
<1>6. CASE CloseDecrement(p)
  BY <1>0, <1>6 DEF CloseDecrement
<1>7. CASE ToBuffer(p)
  BY <1>0, <1>7 DEF ToBuffer
<1>8. CASE FromBuffer(p)
  BY <1>0, <1>8 DEF FromBuffer
<1>9. CASE OpenExcl(p)
  BY <1>0, <1>9 DEF OpenExcl, CreateFile
<1>10. CASE Open(p)
  BY <1>0, <1>10 DEF Open, Gone
<1>11. CASE Fstat(p)
  BY <1>0, <1>11 DEF Fstat, Gone
<1>12. CASE MapOld(p)
  BY <1>0, <1>12 DEF MapOld, MapExisting, Gone
<1>13. CASE ReMap(p)
  BY <1>0, <1>13 DEF ReMap, MapExisting, Gone
<1>14. CASE ReMark(p)
  BY <1>0, <1>14 DEF ReMark
<1>15. CASE ReDecrement(p)
  BY <1>0, <1>15 DEF ReDecrement
<1>16. CASE ReUnlink(p)
  BY <1>0, <1>16 DEF ReUnlink
<1>17. CASE ReCreate(p)
  BY <1>0, <1>17 DEF ReCreate, CreateFile, Gone
<1>18. CASE Truncate(p)
  BY <1>0, <1>18 DEF Truncate
<1>19. CASE InitSize(p)
  BY <1>0, <1>19 DEF InitSize
<1>20. CASE InitCount(p)
  BY <1>0, <1>20 DEF InitCount
<1>21. CASE InitStore(p)
  BY <1>0, <1>21 DEF InitStore
<1>22. CASE Chmod(p)
  BY <1>0, <1>22 DEF Chmod
<1>23. CASE RvOpen(p)
  BY <1>0, <1>23 DEF RvOpen
<1>24. CASE RvFstat(p)
  BY <1>0, <1>24 DEF RvFstat
<1>25. CASE RvMap(p)
  BY <1>0, <1>25 DEF RvMap, MapExisting, Gone
<1>26. CASE CloseCas(p)
  BY <1>0, <1>26 DEF CloseCas
<1>27. CASE CloseDestroy(p)
  BY <1>0, <1>27 DEF CloseDestroy
<1>28. CASE CloseUnlink(p)
  BY <1>0, <1>28 DEF CloseUnlink
<1>29. CASE CloseUnmap(p)
  BY <1>0, <1>29 DEF CloseUnmap, Gone
<1>30. CASE Crash(p)
  BY <1>0, <1>30 DEF Crash, Gone
<1>31. QED  BY <1>2, <1>3, <1>4, <1>5, <1>6, <1>7, <1>8, <1>9, <1>10, <1>11, <1>12, <1>13, <1>14, <1>15, <1>16, <1>17, <1>18, <1>19, <1>20, <1>21, <1>22, <1>23, <1>24, <1>25, <1>26, <1>27, <1>28, <1>29, <1>30 DEF Step, Runs

LEMMA SetTruncatedBuilds ==
    ASSUME NEW s \in SegType, s.mode = NotReady, ~s.sized, s.store = "raw"
    PROVE  /\ SetTruncated(s).mode = NotReady /\ SetTruncated(s).truncated
           /\ ~SetTruncated(s).sized /\ SetTruncated(s).store = "raw"
BY SetTruncatedCorrect

LEMMA SetSizedBuilds ==
    ASSUME NEW s \in SegType, s.mode = NotReady, s.truncated, s.store = "raw"
    PROVE  /\ SetSized(s).mode = NotReady /\ SetSized(s).truncated
           /\ SetSized(s).sized /\ SetSized(s).store = "raw"
BY SetSizedCorrect

LEMMA StoreLiveBuilds ==
    ASSUME NEW s \in SegType, s.mode = NotReady, s.truncated, s.sized
    PROVE  /\ StoreLive(s).mode = NotReady /\ StoreLive(s).truncated
           /\ StoreLive(s).sized /\ StoreLive(s).store = "live"
BY StoreLiveCorrect

LEMMA BuildStepOwn ==
    ASSUME TypeOK, HoldsInv, SegInv, BuildInv, NEW p \in Process, Step(p), pc'[p] \in Building
    PROVE  /\ Progress(p)'
           /\ \A q \in Process \ {p} : Apart(p, q)'
<1> USE SharedSegmentConstants DEF TypeOK, Goto, SetFd, SetMap, noEvent, Building, NotReady, Ready
<1>0. /\ NewSegment.mode = NotReady /\ ~NewSegment.truncated /\ ~NewSegment.sized /\ NewSegment.store = "raw"
      /\ NewSegment \in SegType
  BY NewSegmentCorrect
<1>1. pc[p] \in Building =>
        /\ fd[p] \in Seg /\ seg[fd[p]] \in SegType /\ (pc[p] \in WithMap => map[p] = fd[p])
        /\ Progress(p) /\ \A q \in Process \ {p} : Apart(p, q)
  BY Held DEF WithFd, BuildInv, HoldsInv
<1>2. \A q \in Process \ {p} : pc'[q] = pc[q] /\ fd'[q] = fd[q] /\ map'[q] = map[q]
  BY FrameStep
<1>3. pc[p] \in Building /\ fd'[p] = fd[p] => \A q \in Process \ {p} : Apart(p, q)'
  BY <1>1, <1>2 DEF Apart
<1>4. ASSUME NEW s \in Seg, Fresh(s), fd'[p] = s
      PROVE  \A q \in Process \ {p} : Apart(p, q)'
  BY <1>2, <1>4 DEF Apart, Fresh
<1>5. ASSUME CreateFile(p), pc'[p] \in {"fstat_new", "truncate"}
      PROVE  Progress(p)' /\ \A q \in Process \ {p} : Apart(p, q)'
  BY <1>0, <1>4, <1>5 DEF CreateFile, SegInv, Progress
<1>6. CASE Construct(p)
  BY <1>6 DEF Construct, Spend
<1>7. CASE ConstructFdInit(p)
  <2>1. PICK s \in Seg : Fresh(s) /\ SetFd(p, s) /\ seg' = [seg EXCEPT ![s] = SetTruncated(@)]
    BY <1>7 DEF ConstructFdInit
  <2>2. seg'[s] = SetTruncated(NewSegment) /\ fd'[p] = s /\ pc'[p] = "init_size"
    BY <1>7, <2>1 DEF ConstructFdInit, SegInv
  <2>3. /\ SetTruncated(NewSegment).mode = NotReady /\ SetTruncated(NewSegment).truncated
        /\ ~SetTruncated(NewSegment).sized /\ SetTruncated(NewSegment).store = "raw"
    BY <1>0, SetTruncatedCorrect
  <2>4. Progress(p)'
    BY <2>2, <2>3 DEF Progress
  <2> QED  BY <1>4, <2>1, <2>2, <2>4
<1>8. CASE ConstructFd(p)
  BY <1>8 DEF ConstructFd, Spend
<1>9. CASE Revalidate(p)
  BY <1>9 DEF Revalidate
<1>10. CASE CloseDecrement(p)
  BY <1>10 DEF CloseDecrement
<1>11. CASE ToBuffer(p)
  BY <1>11 DEF ToBuffer
<1>12. CASE FromBuffer(p)
  BY <1>12 DEF FromBuffer, Spend
<1>13. CASE OpenExcl(p)
  BY <1>5, <1>13 DEF OpenExcl
<1>14. CASE Open(p)
  BY <1>14 DEF Open, Gone
<1>15. CASE Fstat(p)
  <2>1. pc[p] = "fstat_new" /\ pc'[p] = "truncate" /\ fd'[p] = fd[p] /\ seg' = seg
    <3>1. pc[p] = "fstat_old" => fd[p] \in Seg /\ InOrder(seg[fd[p]])
      BY Held DEF WithFd, SegInv
    <3> QED  BY <1>15, <3>1 DEF Fstat, Gone, InOrder
  <2> QED  BY <1>1, <1>3, <2>1 DEF Progress
<1>16. CASE MapOld(p)
  BY <1>16 DEF MapOld, MapExisting, Gone
<1>17. CASE ReMap(p)
  BY <1>17 DEF ReMap, MapExisting, Gone
<1>18. CASE ReMark(p)
  BY <1>18 DEF ReMark
<1>19. CASE ReDecrement(p)
  BY <1>19 DEF ReDecrement
<1>20. CASE ReUnlink(p)
  BY <1>20 DEF ReUnlink
<1>21. CASE ReCreate(p)
  BY <1>5, <1>21 DEF ReCreate, Gone
<1>22. CASE Truncate(p)
  <2>1. seg[fd[p]] \in SegType /\ seg[fd[p]].mode = NotReady /\ ~seg[fd[p]].sized /\ seg[fd[p]].store = "raw"
    BY <1>1, <1>22 DEF Truncate, Progress
  <2>2. PICK x \in SegType : x = seg[fd[p]]
    BY <2>1
  <2>3. SetTruncated(x).mode = NotReady /\ SetTruncated(x).truncated /\ ~SetTruncated(x).sized /\ SetTruncated(x).store = "raw"
    BY <2>1, <2>2, SetTruncatedBuilds
  <2>4. seg'[fd[p]] = SetTruncated(x) /\ fd'[p] = fd[p] /\ pc'[p] = "init_size"
    BY <1>1, <1>22, <2>2 DEF Truncate, WithMap
  <2> QED  BY <1>1, <1>3, <1>22, <2>3, <2>4 DEF Truncate, Progress
<1>23. CASE InitSize(p)
  <2>1. seg[fd[p]] \in SegType /\ seg[fd[p]].mode = NotReady /\ seg[fd[p]].truncated /\ seg[fd[p]].store = "raw"
    BY <1>1, <1>23 DEF InitSize, Progress
  <2>2. PICK x \in SegType : x = seg[fd[p]]
    BY <2>1
  <2>3. SetSized(x).mode = NotReady /\ SetSized(x).truncated /\ SetSized(x).sized /\ SetSized(x).store = "raw"
    BY <2>1, <2>2, SetSizedBuilds
  <2>4. seg'[fd[p]] = SetSized(x) /\ fd'[p] = fd[p] /\ pc'[p] = "init_count"
    BY <1>1, <1>23, <2>2 DEF InitSize, WithMap
  <2> QED  BY <1>1, <1>3, <1>23, <2>3, <2>4 DEF InitSize, Progress
<1>24. CASE InitCount(p)
  BY <1>1, <1>3, <1>24, CountOneCorrect DEF InitCount, Progress, WithMap
<1>25. CASE InitStore(p)
  <2>1. seg[fd[p]] \in SegType /\ seg[fd[p]].mode = NotReady /\ seg[fd[p]].truncated /\ seg[fd[p]].sized
    BY <1>1, <1>25 DEF InitStore, Progress
  <2>2. PICK x \in SegType : x = seg[fd[p]]
    BY <2>1
  <2>3. StoreLive(x).mode = NotReady /\ StoreLive(x).truncated /\ StoreLive(x).sized /\ StoreLive(x).store = "live"
    BY <2>1, <2>2, StoreLiveBuilds
  <2>4. seg'[fd[p]] = StoreLive(x) /\ fd'[p] = fd[p] /\ pc'[p] = "chmod"
    BY <1>1, <1>25, <2>2 DEF InitStore, WithMap
  <2> QED  BY <1>1, <1>3, <1>25, <2>3, <2>4 DEF InitStore, Progress
<1>26. CASE Chmod(p)
  BY <1>1, <1>3, <1>26, MarkReadyCorrect DEF Chmod, Progress, WithMap
<1>27. CASE RvOpen(p)
  BY <1>27 DEF RvOpen
<1>28. CASE RvFstat(p)
  BY <1>28 DEF RvFstat
<1>29. CASE RvMap(p)
  BY <1>29 DEF RvMap, MapExisting, Gone
<1>30. CASE CloseCas(p)
  BY <1>30 DEF CloseCas
<1>31. CASE CloseDestroy(p)
  BY <1>31 DEF CloseDestroy
<1>32. CASE CloseUnlink(p)
  BY <1>32 DEF CloseUnlink
<1>33. CASE CloseUnmap(p)
  BY <1>33 DEF CloseUnmap, Gone
<1>34. CASE Crash(p)
  BY <1>34 DEF Crash, Spend, Gone
<1>35. QED  BY <1>6, <1>7, <1>8, <1>9, <1>10, <1>11, <1>12, <1>13, <1>14, <1>15, <1>16, <1>17, <1>18, <1>19, <1>20, <1>21, <1>22, <1>23, <1>24, <1>25, <1>26, <1>27, <1>28, <1>29, <1>30, <1>31, <1>32, <1>33, <1>34 DEF Step, Runs

LEMMA BuildStep ==
    ASSUME TypeOK, HoldsInv, SegInv, BuildInv, UseInv, NEW p \in Process, Step(p)
    PROVE  BuildInv'
<1> SUFFICES ASSUME NEW b \in Process, pc'[b] \in Building
             PROVE  Progress(b)' /\ \A q \in Process \ {b} : Apart(b, q)'
  BY DEF BuildInv
<1>1. CASE b = p
  BY <1>1, BuildStepOwn
<1>2. CASE b # p
  <2>1. /\ pc'[b] = pc[b] /\ fd'[b] = fd[b] /\ pc[b] \in Building
    BY <1>2, FrameStep
  <2>2. Progress(b)'
    BY <1>2, <2>1, BuiltByOther DEF BuildInv, Progress
  <2>3. Apart(b, p)'
    BY <1>2, <2>1, OtherStaysApart
  <2>4. \A q \in Process \ {b, p} : Apart(b, q)'
    BY <1>2, <2>1, FrameStep DEF BuildInv, Apart
  <2> QED  BY <2>2, <2>3, <2>4
<1> QED  BY <1>1, <1>2

(* What a step of p does to the contents of a segment in use: Quiet, or    *)
(* one of the disjuncts.                                                   *)
SameStore(s) == seg'[s].store = seg[s].store
SameMark(s) == seg'[s].invalidated = seg[s].invalidated
SameCount(s) == seg'[s].usage_count = seg[s].usage_count

Changes(p, s) ==
    \/ SameStore(s) /\ SameMark(s) /\ SameCount(s)
    \/ /\ map[p] = s /\ InitCount(p)
       /\ SameStore(s) /\ SameMark(s) /\ seg'[s].usage_count = 1
    \/ /\ map[p] = s /\ InitStore(p)
       /\ seg'[s].store = "live" /\ SameCount(s)
    \/ /\ map[p] = s /\ CloseDestroy(p)
       /\ seg'[s].store = "destroyed" /\ SameMark(s) /\ SameCount(s)
    \/ /\ map[p] = s /\ (CloseCas(p) \/ ReMark(p))
       /\ SameStore(s) /\ seg'[s].invalidated /\ SameCount(s)
    \/ /\ map[p] = s /\ (CloseDecrement(p) \/ ReDecrement(p))
       /\ SameStore(s) /\ SameMark(s) /\ seg'[s].usage_count = seg[s].usage_count - 1
    \/ /\ fd[p] = s /\ (MapOld(p) \/ ReMap(p) \/ RvMap(p)) /\ map'[p] = s
       /\ SameStore(s) /\ SameMark(s) /\ seg'[s].usage_count = seg[s].usage_count + 1
    \/ /\ map[p] = s /\ FromBuffer(p)
       /\ \E b \in buffer : /\ seg'[s].store = b.store
                            /\ seg'[s].invalidated = b.invalidated
                            /\ seg'[s].usage_count = b.usage_count

LEMMA SegChanges ==
    ASSUME TypeOK, HoldsInv, NEW p \in Process, Step(p), NEW s \in Seg, ~Fresh(s)'
    PROVE  Changes(p, s)
<1> USE DEF TypeOK, Goto, SetFd, SetMap, noEvent, Changes, SameStore, SameMark, SameCount
<1>1. /\ seg[s] \in SegType
      /\ pc[p] \in WithFd => fd[p] \in Seg
      /\ pc[p] \in WithMap => map[p] \in Seg
  BY Held
<1>2. CASE Construct(p)
  BY <1>1, <1>2 DEF Construct, Spend
<1>3. CASE ConstructFdInit(p)
  <2>1. PICK r \in Seg : seg' = [seg EXCEPT ![r] = SetTruncated(@)]
    BY <1>3 DEF ConstructFdInit
  <2>2. seg[r] \in SegType /\ seg'[r] = SetTruncated(seg[r])
    BY <2>1
  <2> QED  BY <2>1, <2>2, SetTruncatedCorrect
<1>4. CASE ConstructFd(p)
  BY <1>1, <1>4 DEF ConstructFd, Spend
<1>5. CASE Revalidate(p)
  BY <1>1, <1>5 DEF Revalidate
<1>6. CASE CloseDecrement(p)
  BY <1>1, <1>6, DecrementCorrect DEF CloseDecrement, WithMap, Using, Closing
<1>7. CASE ToBuffer(p)
  BY <1>1, <1>7 DEF ToBuffer
<1>8. CASE FromBuffer(p)
  <2>1. PICK b \in buffer : seg' = [seg EXCEPT ![map[p]] = Pasted(@, b)]
    BY <1>8 DEF FromBuffer
  <2>2. map[p] \in Seg /\ seg'[map[p]] = Pasted(seg[map[p]], b) /\ seg[map[p]] \in SegType /\ b \in Contents
    BY <1>1, <1>8, <2>1, Held DEF FromBuffer, WithMap, Using
  <2>3. CASE s = map[p]
    BY <1>8, <2>1, <2>2, <2>3, PastedCorrect
  <2>4. CASE s # map[p]
    BY <2>1, <2>2, <2>4
  <2> QED  BY <2>3, <2>4
<1>9. CASE OpenExcl(p)
  BY <1>1, <1>9 DEF OpenExcl, CreateFile
<1>10. CASE Open(p)
  BY <1>1, <1>10 DEF Open, Gone
<1>11. CASE Fstat(p)
  BY <1>1, <1>11 DEF Fstat, Gone, FreeUnreferenced
<1>12. CASE MapOld(p)
  BY <1>1, <1>12, IncrementCorrect DEF MapOld, MapExisting, Gone, FreeUnreferenced, WithFd
<1>13. CASE ReMap(p)
  BY <1>1, <1>13, IncrementCorrect DEF ReMap, MapExisting, Gone, FreeUnreferenced, WithFd
<1>14. CASE ReMark(p)
  BY <1>1, <1>14, InvalidateCorrect DEF ReMark, WithMap, Using, Closing
<1>15. CASE ReDecrement(p)
  BY <1>1, <1>15, DecrementCorrect DEF ReDecrement, FreeUnreferenced, WithMap, Using, Closing
<1>16. CASE ReUnlink(p)
  BY <1>1, <1>16 DEF ReUnlink, FreeUnreferenced
<1>17. CASE ReCreate(p)
  BY <1>1, <1>17 DEF ReCreate, CreateFile, Gone
<1>18. CASE Truncate(p)
  BY <1>1, <1>18, SetTruncatedCorrect DEF Truncate, WithFd, Building
<1>19. CASE InitSize(p)
  BY <1>1, <1>19, SetSizedCorrect DEF InitSize, WithMap, Using, Closing
<1>20. CASE InitCount(p)
  BY <1>1, <1>20, CountOneCorrect DEF InitCount, WithMap, Using, Closing
<1>21. CASE InitStore(p)
  BY <1>1, <1>21, StoreLiveCorrect DEF InitStore, WithMap, Using, Closing
<1>22. CASE Chmod(p)
  BY <1>1, <1>22, MarkReadyCorrect DEF Chmod, WithFd, Building
<1>23. CASE RvOpen(p)
  BY <1>1, <1>23 DEF RvOpen
<1>24. CASE RvFstat(p)
  BY <1>1, <1>24 DEF RvFstat, FreeUnreferenced
<1>25. CASE RvMap(p)
  BY <1>1, <1>25, IncrementCorrect DEF RvMap, MapExisting, Gone, FreeUnreferenced, WithFd
<1>26. CASE CloseCas(p)
  BY <1>1, <1>26, InvalidateCorrect DEF CloseCas, WithMap, Using, Closing
<1>27. CASE CloseDestroy(p)
  BY <1>1, <1>27, StoreDestroyedCorrect DEF CloseDestroy, WithMap, Using, Closing
<1>28. CASE CloseUnlink(p)
  BY <1>1, <1>28 DEF CloseUnlink, FreeUnreferenced
<1>29. CASE CloseUnmap(p)
  BY <1>1, <1>29 DEF CloseUnmap, Gone, FreeUnreferenced
<1>30. CASE Crash(p)
  BY <1>1, <1>30 DEF Crash, Spend, Gone, FreeUnreferenced
<1>31. QED  BY <1>2, <1>3, <1>4, <1>5, <1>6, <1>7, <1>8, <1>9, <1>10, <1>11, <1>12, <1>13, <1>14, <1>15, <1>16, <1>17, <1>18, <1>19, <1>20, <1>21, <1>22, <1>23, <1>24, <1>25, <1>26, <1>27, <1>28, <1>29, <1>30 DEF Step, Runs

LEMMA NotRawStep ==
    ASSUME TypeOK, HoldsInv, BufferInv, NEW p \in Process, Step(p),
           NEW s \in Seg, ~Fresh(s)', seg[s].store # "raw"
    PROVE  seg'[s].store # "raw"
BY SegChanges DEF Changes, SameStore, BufferInv

LEMMA UseStepOwn ==
    ASSUME TypeOK, HoldsInv, SegInv, BuildInv, UseInv, NEW p \in Process, Step(p)
    PROVE  /\ pc'[p] \in Using => seg[map'[p]].store # "raw" \/ seg'[map'[p]].store # "raw"
           /\ pc'[p] \in {"map_existing", "rv_map"} => seg[fd'[p]].store # "raw"
<1> USE DEF TypeOK, Goto, SetFd, SetMap, Using, Closing, noEvent
<1>1. /\ pc[p] \in Using => seg[map[p]].store # "raw"
      /\ pc[p] \in {"map_existing", "rv_map"} => fd[p] \in Seg /\ seg[fd[p]].store # "raw"
  BY Held DEF UseInv, WithFd
<1>2. pc[p] \in WithFd /\ seg[fd[p]].mode = Ready => seg[fd[p]].store # "raw"
  BY Held DEF SegInv, InOrder
<1>3. CASE Construct(p)
  BY <1>1, <1>3 DEF Construct, Spend
<1>4. CASE ConstructFdInit(p)
  BY <1>1, <1>4 DEF ConstructFdInit, Spend
<1>5. CASE ConstructFd(p)
  <2>1. PICK r \in Process : pc[r] = "ready" /\ fd' = [fd EXCEPT ![p] = map[r]]
    BY <1>5 DEF ConstructFd
  <2> QED  BY <1>5, <2>1 DEF ConstructFd, UseInv
<1>6. CASE Revalidate(p)
  BY <1>1, <1>6 DEF Revalidate
<1>7. CASE CloseDecrement(p)
  BY <1>1, <1>7 DEF CloseDecrement
<1>8. CASE ToBuffer(p)
  BY <1>1, <1>8 DEF ToBuffer
<1>9. CASE FromBuffer(p)
  BY <1>1, <1>9 DEF FromBuffer, Spend
<1>10. CASE OpenExcl(p)
  BY <1>1, <1>10 DEF OpenExcl, CreateFile
<1>11. CASE Open(p)
  BY <1>1, <1>11 DEF Open, Gone
<1>12. CASE Fstat(p)
  <2>1. \/ /\ pc[p] \in {"fstat_new", "fstat_old"} /\ fd'[p] = fd[p]
           /\ pc'[p] \in {"re_map", "truncate", "map_existing"}
        \/ pc'[p] = "none"
    BY <1>12 DEF Fstat, Gone
  <2>2. pc'[p] = "map_existing" => seg[fd[p]].mode = Ready
    BY <1>12 DEF Fstat, Gone
  <2> QED  BY <1>2, <2>1, <2>2 DEF WithFd, Building
<1>13. CASE MapOld(p)
  BY <1>1, <1>13 DEF MapOld, MapExisting, Gone
<1>14. CASE ReMap(p)
  BY <1>1, <1>14 DEF ReMap, MapExisting, Gone
<1>15. CASE ReMark(p)
  BY <1>1, <1>15 DEF ReMark
<1>16. CASE ReDecrement(p)
  BY <1>1, <1>16 DEF ReDecrement
<1>17. CASE ReUnlink(p)
  BY <1>1, <1>17 DEF ReUnlink
<1>18. CASE ReCreate(p)
  BY <1>1, <1>18 DEF ReCreate, CreateFile, Gone
<1>19. CASE Truncate(p)
  BY <1>1, <1>19 DEF Truncate
<1>20. CASE InitSize(p)
  BY <1>1, <1>20 DEF InitSize
<1>21. CASE InitCount(p)
  BY <1>1, <1>21 DEF InitCount
<1>22. CASE InitStore(p)
  <2>1. map[p] \in Seg /\ seg[map[p]] \in SegType /\ map' = map /\ seg'[map[p]] = StoreLive(seg[map[p]])
    BY <1>22, Held DEF InitStore, WithMap
  <2>2. pc'[p] \notin {"map_existing", "rv_map"}
    BY <1>22 DEF InitStore
  <2> QED  BY <2>1, <2>2, StoreLiveCorrect
<1>23. CASE Chmod(p)
  <2>1. map'[p] = fd[p] /\ seg[fd[p]].store = "live"
    BY <1>23 DEF Chmod, HoldsInv, BuildInv, Progress, Building, WithMap
  <2> QED  BY <1>23, <2>1 DEF Chmod
<1>24. CASE RvOpen(p)
  BY <1>1, <1>24 DEF RvOpen
<1>25. CASE RvFstat(p)
  BY <1>1, <1>2, <1>25 DEF RvFstat, WithFd, Building
<1>26. CASE RvMap(p)
  BY <1>1, <1>26 DEF RvMap, MapExisting, Gone
<1>27. CASE CloseCas(p)
  BY <1>1, <1>27 DEF CloseCas
<1>28. CASE CloseDestroy(p)
  BY <1>1, <1>28 DEF CloseDestroy
<1>29. CASE CloseUnlink(p)
  BY <1>1, <1>29 DEF CloseUnlink
<1>30. CASE CloseUnmap(p)
  BY <1>1, <1>30 DEF CloseUnmap, Gone
<1>31. CASE Crash(p)
  BY <1>1, <1>31 DEF Crash, Spend, Gone
<1>32. QED  BY <1>3, <1>4, <1>5, <1>6, <1>7, <1>8, <1>9, <1>10, <1>11, <1>12, <1>13, <1>14, <1>15, <1>16, <1>17, <1>18, <1>19, <1>20, <1>21, <1>22, <1>23, <1>24, <1>25, <1>26, <1>27, <1>28, <1>29, <1>30, <1>31 DEF Step, Runs

LEMMA UseStep ==
    ASSUME TypeOK, HoldsInv, SegInv, BuildInv, UseInv, BufferInv, NEW p \in Process, Step(p)
    PROVE  UseInv'
<1>1. ASSUME NEW q \in Process, NEW s \in Seg, s = map'[q] \/ s = fd'[q],
             seg[s].store # "raw" \/ seg'[s].store # "raw"
      PROVE  seg'[s].store # "raw"
  <2>1. ~Fresh(s)'
    BY <1>1 DEF Fresh
  <2> QED  BY <1>1, <2>1, NotRawStep
<1>2. ASSUME NEW q \in Process
      PROVE  /\ pc'[q] \in Using => map'[q] \in Seg
             /\ pc'[q] \in {"map_existing", "rv_map"} => fd'[q] \in Seg
  BY TypeStep, HoldsStep DEF HoldsInv, TypeOK, WithFd, WithMap
<1>3. SUFFICES ASSUME NEW q \in Process
               PROVE  /\ pc'[q] \in Using => seg[map'[q]].store # "raw" \/ seg'[map'[q]].store # "raw"
                      /\ pc'[q] \in {"map_existing", "rv_map"} => seg[fd'[q]].store # "raw"
  BY <1>1, <1>2 DEF UseInv
<1>4. CASE q # p
  BY <1>4, FrameStep DEF UseInv
<1>5. CASE q = p
  BY <1>5, UseStepOwn
<1> QED  BY <1>4, <1>5

LEMMA Causes ==
    ASSUME TypeOK, NEW p \in Process, Step(p)
    PROVE  /\ pc'[p] = "close_destroy" => CloseCas(p)
           /\ pc'[p] = "close_unlink" => CloseDestroy(p)
           /\ buffer' # buffer => ToBuffer(p)
           /\ link' # link => OpenExcl(p) \/ ReUnlink(p) \/ ReCreate(p) \/ CloseUnlink(p)
<1> USE DEF TypeOK, Goto, noEvent
<1>1. CASE Construct(p)
  BY <1>1 DEF Construct
<1>2. CASE ConstructFdInit(p)
  BY <1>2 DEF ConstructFdInit
<1>3. CASE ConstructFd(p)
  BY <1>3 DEF ConstructFd
<1>4. CASE Revalidate(p)
  BY <1>4 DEF Revalidate
<1>5. CASE CloseDecrement(p)
  BY <1>5 DEF CloseDecrement
<1>6. CASE ToBuffer(p)
  BY <1>6 DEF ToBuffer
<1>7. CASE FromBuffer(p)
  BY <1>7 DEF FromBuffer
<1>8. CASE OpenExcl(p)
  BY <1>8 DEF OpenExcl, CreateFile
<1>9. CASE Open(p)
  BY <1>9 DEF Open, Gone
<1>10. CASE Fstat(p)
  BY <1>10 DEF Fstat, Gone
<1>11. CASE MapOld(p)
  BY <1>11 DEF MapOld, MapExisting, Gone
<1>12. CASE ReMap(p)
  BY <1>12 DEF ReMap, MapExisting, Gone
<1>13. CASE ReMark(p)
  BY <1>13 DEF ReMark
<1>14. CASE ReDecrement(p)
  BY <1>14 DEF ReDecrement
<1>15. CASE ReUnlink(p)
  BY <1>15 DEF ReUnlink
<1>16. CASE ReCreate(p)
  BY <1>16 DEF ReCreate, CreateFile, Gone
<1>17. CASE Truncate(p)
  BY <1>17 DEF Truncate
<1>18. CASE InitSize(p)
  BY <1>18 DEF InitSize
<1>19. CASE InitCount(p)
  BY <1>19 DEF InitCount
<1>20. CASE InitStore(p)
  BY <1>20 DEF InitStore
<1>21. CASE Chmod(p)
  BY <1>21 DEF Chmod
<1>22. CASE RvOpen(p)
  BY <1>22 DEF RvOpen
<1>23. CASE RvFstat(p)
  BY <1>23 DEF RvFstat
<1>24. CASE RvMap(p)
  BY <1>24 DEF RvMap, MapExisting, Gone
<1>25. CASE CloseCas(p)
  BY <1>25 DEF CloseCas
<1>26. CASE CloseDestroy(p)
  BY <1>26 DEF CloseDestroy
<1>27. CASE CloseUnlink(p)
  BY <1>27 DEF CloseUnlink
<1>28. CASE CloseUnmap(p)
  BY <1>28 DEF CloseUnmap, Gone
<1>29. CASE Crash(p)
  BY <1>29 DEF Crash, Gone
<1>30. QED  BY <1>1, <1>2, <1>3, <1>4, <1>5, <1>6, <1>7, <1>8, <1>9, <1>10, <1>11, <1>12, <1>13, <1>14, <1>15, <1>16, <1>17, <1>18, <1>19, <1>20, <1>21, <1>22, <1>23, <1>24, <1>25, <1>26, <1>27, <1>28, <1>29 DEF Step, Runs

LEMMA AlonePaste ==
    ASSUME TypeOK, NEW p \in Process, FromBuffer(p), NEW q \in Process \ {p}, map[q] = map[p]
    PROVE  ~NotPastedOver'
BY DEF FromBuffer, Alone, Spend, NotPastedOver, Event, TypeOK

LEMMA CloseStep ==
    ASSUME TypeOK, HoldsInv, SegInv, BuildInv, UseInv, CloseInv, NEW p \in Process, Step(p)
    PROVE  CloseInv'
<1> SUFFICES ASSUME NotPastedOver', NEW q \in Process, pc'[q] = "close_destroy"
             PROVE  /\ seg'[map'[q]].store = "live" /\ seg'[map'[q]].invalidated
                    /\ \A r \in Process \ {q} : pc'[r] = "close_destroy" => map'[r] # map'[q]
  BY DEF CloseInv, NotPastedOver
<1>0. NotPastedOver
  BY SpentStep
<1>1. CASE q = p
  <2>1. CloseCas(p)
    BY <1>1, Causes
  <2>2. PICK s \in Seg : s = map[p]
    BY <2>1, Held DEF CloseCas, WithMap, Using, Closing
  <2>3. /\ map'[p] = s /\ seg[s] \in SegType /\ seg'[s] = Invalidate(seg[s]) /\ ~seg[s].invalidated
    BY <1>1, <2>1, <2>2 DEF CloseCas, Goto, TypeOK
  <2>4. seg[s].store = "live"
    <3>1. seg[s].store # "raw"
      BY <2>1, <2>2 DEF CloseCas, UseInv, Using, Closing
    <3>2. seg[s].store # "destroyed"
      BY <1>0, <2>3 DEF SegInv, Sound
    <3> QED  BY <2>3, <3>1, <3>2, SegFields
  <2>5. ASSUME NEW r \in Process \ {p}, pc'[r] = "close_destroy"
        PROVE  map'[r] # s
    BY <1>0, <2>3, <2>5, FrameStep DEF CloseInv
  <2> QED  BY <1>1, <2>3, <2>4, <2>5, InvalidateCorrect
<1>2. CASE q # p
  <2>1. pc[q] = "close_destroy" /\ map'[q] = map[q]
    BY <1>2, FrameStep
  <2>2. PICK s \in Seg : s = map[q]
    BY <2>1, Held DEF WithMap, Using, Closing
  <2>3. /\ seg[s].store = "live" /\ seg[s].invalidated
        /\ \A r \in Process \ {q} : pc[r] = "close_destroy" => map[r] # s
    BY <1>0, <2>1, <2>2 DEF CloseInv
  <2>4. Changes(p, s)
    BY <2>1, <2>2, SegChanges DEF Fresh
  <2>5. ~(map[p] = s /\ InitStore(p))
    BY <1>2, <2>1, <2>2 DEF InitStore, BuildInv, HoldsInv, Building, WithMap, Apart
  <2>6. ~(map[p] = s /\ CloseDestroy(p))
    BY <1>2, <2>3 DEF CloseDestroy
  <2>7. ~(map[p] = s /\ FromBuffer(p))
    BY <1>2, <2>2, AlonePaste
  <2>8. seg'[s].store = "live" /\ seg'[s].invalidated
    BY <2>3, <2>4, <2>5, <2>6, <2>7 DEF Changes, SameStore, SameMark
  <2>9. ASSUME NEW r \in Process \ {q}, pc'[r] = "close_destroy"
        PROVE  map'[r] # s
    <3>1. CASE r = p
      <4>1. CloseCas(p)
        BY <2>9, <3>1, Causes
      <4>2. ~seg[map[p]].invalidated /\ map' = map
        BY <2>9, <3>1, <4>1 DEF CloseCas, Goto, TypeOK
      <4> QED  BY <2>3, <3>1, <4>2
    <3>2. CASE r # p
      BY <2>3, <2>9, <3>2, FrameStep
    <3> QED  BY <3>1, <3>2
  <2> QED  BY <2>1, <2>2, <2>8, <2>9
<1> QED  BY <1>1, <1>2

LEMMA CountAtLeast ==
    ASSUME TypeOK, CountCoversUsers, spent["reinit"] = 0, NotPastedOver,
           NEW p \in Process, map[p] \in Seg, pc[p] \in CountedAt
    PROVE  seg[map[p]].usage_count >= 1
<1>1. IsFiniteSet(Users(map[p])) /\ p \in Users(map[p])
  BY SharedSegmentConstants, FS_Subset DEF Users
<1>2. Cardinality(Users(map[p])) \in Nat /\ Cardinality(Users(map[p])) # 0
  BY <1>1, FS_CardinalityType, FS_EmptySet
<1>3. seg[map[p]].usage_count \in Int
  BY DEF TypeOK, SegType
<1>4. Cardinality(Users(map[p])) <= seg[map[p]].usage_count
  BY DEF CountCoversUsers
<1> QED  BY <1>2, <1>3, <1>4

LEMMA BufferStep ==
    ASSUME TypeOK, HoldsInv, SegInv, UseInv, BufferInv, CountCoversUsers, NEW p \in Process, Step(p)
    PROVE  BufferInv'
<1>1. SUFFICES ASSUME NEW b \in buffer'
               PROVE  /\ b.store # "raw"
                      /\ NotPastedOver => Sound(b)
                      /\ NotPastedOver /\ spent["reinit"] = 0 => b.usage_count >= 1
  <2>1. NotPastedOver' => NotPastedOver
    BY SpentStep
  <2>2. spent'["reinit"] = 0 => spent["reinit"] = 0
    BY SpentStep DEF Event
  <2> QED  BY <2>1, <2>2 DEF BufferInv, NotPastedOver, Sound
<1>2. CASE buffer' = buffer
  BY <1>2 DEF BufferInv
<1>3. CASE ToBuffer(p)
  <2>1. /\ map[p] \in Seg /\ seg[map[p]] \in SegType /\ pc[p] = "ready" /\ b = Copied(seg[map[p]])
    BY <1>3, Held DEF ToBuffer, WithMap, Using
  <2>2. /\ seg[map[p]].store # "raw"
        /\ NotPastedOver => Sound(seg[map[p]])
    BY <2>1 DEF UseInv, Using, SegInv
  <2>3. NotPastedOver /\ spent["reinit"] = 0 => seg[map[p]].usage_count >= 1
    BY <2>1, CountAtLeast DEF CountedAt
  <2>4. PICK x \in SegType : x = seg[map[p]]
    BY <2>1
  <2>5. Copied(x).usage_count = x.usage_count /\ Copied(x).invalidated = x.invalidated /\ Copied(x).store = x.store
    BY CopiedCorrect
  <2> QED  BY <2>1, <2>2, <2>3, <2>4, <2>5 DEF Sound
<1> QED  BY <1>2, <1>3, Causes

LEMMA CountInvOwn ==
    ASSUME TypeOK, HoldsInv, CountInv, NEW p \in Process, Step(p), spent'["reinit"] = 0
    PROVE  /\ made'[p] # "reinit" /\ pc'[p] \notin {"re_map", "re_mark", "re_decrement", "re_unlink", "re_create"}
           /\ pc'[p] \in {"init_store", "chmod"} => InitCount(p) \/ InitStore(p)
<1> USE DEF TypeOK, Goto, noEvent
<1>1. spent["reinit"] = 0
  BY SpentStep DEF Event
<1>2. /\ made[p] # "reinit" /\ pc[p] \notin {"re_map", "re_mark", "re_decrement", "re_unlink", "re_create"}
  BY <1>1 DEF CountInv
<1>3. CASE Construct(p)
  <2>1. ~Spend("reinit")
    BY <1>1 DEF Spend, Event
  <2> QED  BY <1>2, <1>3, <2>1 DEF Construct
<1>4. CASE ConstructFdInit(p)
  BY <1>2, <1>4 DEF ConstructFdInit
<1>5. CASE ConstructFd(p)
  BY <1>2, <1>5 DEF ConstructFd
<1>6. CASE Revalidate(p)
  BY <1>2, <1>6 DEF Revalidate
<1>7. CASE CloseDecrement(p)
  BY <1>2, <1>7 DEF CloseDecrement
<1>8. CASE ToBuffer(p)
  BY <1>2, <1>8 DEF ToBuffer
<1>9. CASE FromBuffer(p)
  BY <1>2, <1>9 DEF FromBuffer
<1>10. CASE OpenExcl(p)
  BY <1>2, <1>10 DEF OpenExcl, CreateFile
<1>11. CASE Open(p)
  BY <1>2, <1>11 DEF Open, Gone
<1>12. CASE Fstat(p)
  BY <1>2, <1>12 DEF Fstat, Gone
<1>13. CASE MapOld(p)
  BY <1>2, <1>13 DEF MapOld, MapExisting, Gone
<1>14. CASE ReMap(p)
  BY <1>2, <1>14 DEF ReMap, MapExisting, Gone
<1>15. CASE ReMark(p)
  BY <1>2, <1>15 DEF ReMark
<1>16. CASE ReDecrement(p)
  BY <1>2, <1>16 DEF ReDecrement
<1>17. CASE ReUnlink(p)
  BY <1>2, <1>17 DEF ReUnlink
<1>18. CASE ReCreate(p)
  BY <1>2, <1>18 DEF ReCreate, CreateFile, Gone
<1>19. CASE Truncate(p)
  BY <1>2, <1>19 DEF Truncate
<1>20. CASE InitSize(p)
  BY <1>2, <1>20 DEF InitSize
<1>21. CASE InitCount(p)
  BY <1>2, <1>21 DEF InitCount
<1>22. CASE InitStore(p)
  BY <1>2, <1>22 DEF InitStore
<1>23. CASE Chmod(p)
  BY <1>2, <1>23 DEF Chmod
<1>24. CASE RvOpen(p)
  BY <1>2, <1>24 DEF RvOpen
<1>25. CASE RvFstat(p)
  BY <1>2, <1>25 DEF RvFstat
<1>26. CASE RvMap(p)
  BY <1>2, <1>26 DEF RvMap, MapExisting, Gone
<1>27. CASE CloseCas(p)
  BY <1>2, <1>27 DEF CloseCas
<1>28. CASE CloseDestroy(p)
  BY <1>2, <1>28 DEF CloseDestroy
<1>29. CASE CloseUnlink(p)
  BY <1>2, <1>29 DEF CloseUnlink
<1>30. CASE CloseUnmap(p)
  BY <1>2, <1>30 DEF CloseUnmap, Gone
<1>31. CASE Crash(p)
  BY <1>2, <1>31 DEF Crash, Gone
<1>32. QED  BY <1>3, <1>4, <1>5, <1>6, <1>7, <1>8, <1>9, <1>10, <1>11, <1>12, <1>13, <1>14, <1>15, <1>16, <1>17, <1>18, <1>19, <1>20, <1>21, <1>22, <1>23, <1>24, <1>25, <1>26, <1>27, <1>28, <1>29, <1>30, <1>31 DEF Step, Runs

LEMMA BuiltAlone ==
    ASSUME TypeOK, HoldsInv, BuildInv, CountInv, spent["reinit"] = 0,
           NEW b \in Process, pc[b] \in {"init_size", "init_count", "init_store", "chmod"},
           NEW q \in Process \ {b}
    PROVE  /\ map[b] \in Seg /\ map[q] # map[b]
           /\ fd[q] = map[b] => pc[q] \in {"fstat_old", "rv_fstat"}
<1>1. map[b] = fd[b] /\ fd[b] \in Seg
  BY Held DEF HoldsInv, Building, WithMap, WithFd
<1>2. Apart(b, q)
  BY DEF BuildInv, Building
<1>3. pc[q] \notin {"re_map", "re_mark", "re_decrement"}
  BY DEF CountInv
<1> QED  BY <1>1, <1>2, <1>3 DEF Apart

LEMMA CountInvStep ==
    ASSUME TypeOK, HoldsInv, BuildInv, CountInv, NEW p \in Process, Step(p)
    PROVE  CountInv'
<1> SUFFICES ASSUME spent'["reinit"] = 0, NEW q \in Process
             PROVE  /\ made'[q] # "reinit" /\ pc'[q] \notin {"re_map", "re_mark", "re_decrement", "re_unlink", "re_create"}
                    /\ pc'[q] \in {"init_store", "chmod"} => seg'[map'[q]].usage_count = 1
  BY DEF CountInv
<1>1. spent["reinit"] = 0
  BY SpentStep DEF Event
<1>2. CASE q = p
  <2>1. CASE InitCount(p)
    <3>1. map[p] \in Seg /\ seg[map[p]] \in SegType /\ map' = map /\ seg'[map[p]] = CountOne(seg[map[p]])
      BY <2>1, Held DEF InitCount, WithMap, TypeOK
    <3> QED  BY <1>2, <3>1, CountOneCorrect, CountInvOwn
  <2>2. CASE InitStore(p)
    <3>1. map[p] \in Seg /\ seg[map[p]] \in SegType /\ map' = map /\ seg'[map[p]] = StoreLive(seg[map[p]])
      BY <2>2, Held DEF InitStore, WithMap, TypeOK
    <3>2. seg[map[p]].usage_count = 1
      BY <1>1, <2>2 DEF InitStore, CountInv
    <3> QED  BY <1>2, <3>1, <3>2, StoreLiveCorrect, CountInvOwn
  <2> QED  BY <1>2, <2>1, <2>2, CountInvOwn
<1>3. CASE q # p
  <2>1. pc'[q] = pc[q] /\ map'[q] = map[q] /\ made'[q] = made[q]
    BY <1>3, FrameStep
  <2>2. ASSUME pc[q] \in {"init_store", "chmod"}
        PROVE  seg'[map[q]].usage_count = 1
    <3>1. PICK s \in Seg : s = map[q]
      BY <2>2, Held DEF WithMap
    <3>2. seg[s].usage_count = 1
      BY <1>1, <2>2, <3>1 DEF CountInv
    <3>3. map[p] # s /\ (fd[p] = s => pc[p] \in {"fstat_old", "rv_fstat"})
      BY <1>1, <1>3, <2>2, <3>1, BuiltAlone
    <3>4. Changes(p, s)
      BY <2>1, <3>1, SegChanges DEF Fresh
    <3> QED  BY <3>1, <3>2, <3>3, <3>4 DEF Changes, SameCount, MapOld, ReMap, RvMap
  <2> QED  BY <1>1, <2>1, <2>2 DEF CountInv
<1> QED  BY <1>2, <1>3

(* A segment that is marked as invalid stays so, unless a buffer is pasted *)
(* over it.                                                                *)
Dead(s) == seg[s].invalidated /\ seg[s].store # "raw"

LEMMA StaysDead ==
    ASSUME TypeOK, HoldsInv, BuildInv, NEW p \in Process, Step(p), ~FromBuffer(p),
           NEW s \in Seg, ~Fresh(s)', Dead(s)
    PROVE  Dead(s)'
<1>1. Changes(p, s)
  BY SegChanges
<1>2. ~(map[p] = s /\ InitStore(p))
  BY DEF InitStore, BuildInv, HoldsInv, Building, WithMap, Progress, Dead
<1> QED  BY <1>1, <1>2 DEF Changes, Dead, SameStore, SameMark

LEMMA RefersOwn ==
    ASSUME TypeOK, HoldsInv, NEW p \in Process, Step(p), made'[p] # "fd",
           NEW s \in Seg, s = fd'[p] \/ s = map'[p]
    PROVE  \/ s = link' \/ s = link
           \/ made[p] # "fd" /\ (s = fd[p] \/ s = map[p])
<1> USE SharedSegmentConstants DEF TypeOK, Goto, SetFd, SetMap
<1>1. CASE Construct(p)
  BY <1>1 DEF Construct, HoldsInv, WithFd, Building, WithMap, Using, Closing
<1>2. CASE ConstructFdInit(p)
  BY <1>2 DEF ConstructFdInit
<1>3. CASE ConstructFd(p)
  BY <1>3 DEF ConstructFd
<1>4. CASE Revalidate(p)
  BY <1>4 DEF Revalidate
<1>5. CASE CloseDecrement(p)
  BY <1>5 DEF CloseDecrement
<1>6. CASE ToBuffer(p)
  BY <1>6 DEF ToBuffer
<1>7. CASE FromBuffer(p)
  BY <1>7 DEF FromBuffer
<1>8. CASE OpenExcl(p)
  BY <1>8 DEF OpenExcl, CreateFile
<1>9. CASE Open(p)
  BY <1>9 DEF Open, Gone
<1>10. CASE Fstat(p)
  BY <1>10 DEF Fstat, Gone
<1>11. CASE MapOld(p)
  BY <1>11 DEF MapOld, MapExisting, Gone
<1>12. CASE ReMap(p)
  BY <1>12 DEF ReMap, MapExisting, Gone
<1>13. CASE ReMark(p)
  BY <1>13 DEF ReMark
<1>14. CASE ReDecrement(p)
  BY <1>14 DEF ReDecrement
<1>15. CASE ReUnlink(p)
  BY <1>15 DEF ReUnlink
<1>16. CASE ReCreate(p)
  BY <1>16 DEF ReCreate, CreateFile, Gone
<1>17. CASE Truncate(p)
  BY <1>17 DEF Truncate
<1>18. CASE InitSize(p)
  BY <1>18 DEF InitSize
<1>19. CASE InitCount(p)
  BY <1>19 DEF InitCount
<1>20. CASE InitStore(p)
  BY <1>20 DEF InitStore
<1>21. CASE Chmod(p)
  BY <1>21 DEF Chmod, HoldsInv
<1>22. CASE RvOpen(p)
  BY <1>22 DEF RvOpen
<1>23. CASE RvFstat(p)
  BY <1>23 DEF RvFstat
<1>24. CASE RvMap(p)
  BY <1>24 DEF RvMap, MapExisting, Gone
<1>25. CASE CloseCas(p)
  BY <1>25 DEF CloseCas
<1>26. CASE CloseDestroy(p)
  BY <1>26 DEF CloseDestroy
<1>27. CASE CloseUnlink(p)
  BY <1>27 DEF CloseUnlink
<1>28. CASE CloseUnmap(p)
  BY <1>28 DEF CloseUnmap, Gone
<1>29. CASE Crash(p)
  BY <1>29 DEF Crash, Gone
<1>30. QED  BY <1>1, <1>2, <1>3, <1>4, <1>5, <1>6, <1>7, <1>8, <1>9, <1>10, <1>11, <1>12, <1>13, <1>14, <1>15, <1>16, <1>17, <1>18, <1>19, <1>20, <1>21, <1>22, <1>23, <1>24, <1>25, <1>26, <1>27, <1>28, <1>29 DEF Step, Runs

LEMMA LinkStep ==
    ASSUME TypeOK, HoldsInv, SegInv, BuildInv, UseInv, LinkInv, CountInv, NEW p \in Process, Step(p)
    PROVE  LinkInv'
<1> SUFFICES ASSUME spent'["reinit"] = 0, spent'["restore"] = 0, NotPastedOver'
             PROVE  /\ \A q \in Process : made'[q] # "fd" =>
                        \A s \in {fd'[q], map'[q]} \ {NoSeg} : s = link' \/ Dead(s)'
                    /\ \A q \in Process : pc'[q] \in Unlinking =>
                        map'[q] = link' /\ seg'[link'].invalidated
                    /\ \A q, r \in Process : pc'[q] \in Unlinking /\ pc'[r] \in Unlinking => q = r
  BY DEF LinkInv, NotPastedOver, Dead
<1>1. spent["reinit"] = 0 /\ spent["restore"] = 0 /\ NotPastedOver
  BY SpentStep DEF Event
<1>2. /\ \A q \in Process : made[q] # "fd" =>
           \A s \in {fd[q], map[q]} \ {NoSeg} : s = link \/ Dead(s)
      /\ \A q \in Process : pc[q] \in Unlinking => map[q] = link /\ seg[link].invalidated
      /\ \A q, r \in Process : pc[q] \in Unlinking /\ pc[r] \in Unlinking => q = r
  BY <1>1 DEF LinkInv, Dead
<1>3. ~FromBuffer(p)
  BY <1>1 DEF FromBuffer, Spend, Event, TypeOK, NotPastedOver
<1>4. \A q \in Process : pc[q] \in Unlinking =>
         map[q] \in Seg /\ seg[map[q]].store # "raw" /\ made[q] # "fd"
  BY Held DEF Unlinking, WithMap, Using, Closing, UseInv, HoldsInv
<1>5. ASSUME link # NoSeg, link' # link
      PROVE  CloseUnlink(p) /\ pc[p] \in Unlinking
  <2>1. CASE OpenExcl(p)
    BY <1>5, <2>1 DEF OpenExcl
  <2>2. CASE ReUnlink(p)
    BY <1>1, <2>2 DEF ReUnlink, CountInv
  <2>3. CASE ReCreate(p)
    BY <1>1, <2>3 DEF ReCreate, CountInv
  <2>4. CASE CloseUnlink(p)
    BY <2>4 DEF CloseUnlink, Unlinking
  <2> QED  BY <1>5, <2>1, <2>2, <2>3, <2>4, Causes
<1>6. ASSUME NEW s \in Seg, ~Fresh(s)', s = link \/ Dead(s)
      PROVE  s = link' \/ Dead(s)'
  <2>1. CASE Dead(s)
    BY <1>3, <1>6, <2>1, StaysDead
  <2>2. CASE s = link /\ link' # link
    <3>1. pc[p] \in Unlinking
      BY <1>5, <2>2, SharedSegmentConstants
    <3>2. Dead(s)
      BY <1>2, <1>4, <2>2, <3>1 DEF Dead
    <3> QED  BY <1>3, <1>6, <3>2, StaysDead
  <2> QED  BY <1>6, <2>1, <2>2
<1>7. ASSUME NEW q \in Process, made'[q] # "fd", NEW s \in {fd'[q], map'[q]} \ {NoSeg}
      PROVE  s = link' \/ Dead(s)'
  <2>1. s \in Seg /\ ~Fresh(s)'
    BY <1>7, TypeStep DEF TypeOK, Fresh
  <2>2. s = link' \/ s = link \/ Dead(s)
    <3>1. CASE q = p
      BY <1>2, <1>7, <2>1, <3>1, RefersOwn
    <3>2. CASE q # p
      BY <1>2, <1>7, <3>2, FrameStep
    <3> QED  BY <3>1, <3>2
  <2> QED  BY <1>6, <2>1, <2>2
<1>8. ASSUME NEW q \in Process, pc'[q] \in Unlinking
      PROVE  /\ map'[q] = link' /\ seg'[link'].invalidated
             /\ \A r \in Process \ {q} : pc[r] \notin Unlinking
             /\ map'[q] = map[q] /\ map[q] \in Seg
  <2>1. CASE pc[q] \in Unlinking
    <3>1. map'[q] = map[q]
      <4>1. CASE q = p
        <5>1. CASE pc'[p] = "close_destroy"
          BY <5>1, Causes DEF CloseCas
        <5>2. CASE pc'[p] = "close_unlink"
          BY <5>2, Causes DEF CloseDestroy
        <5> QED  BY <1>8, <4>1, <5>1, <5>2 DEF Unlinking
      <4> QED  BY <4>1, FrameStep
    <3>2. map[q] = link /\ seg[link].invalidated /\ map[q] \in Seg /\ seg[map[q]].store # "raw"
      BY <1>2, <1>4, <2>1
    <3>3. link' = link
      <4>1. CASE q = p
        <5>1. CASE pc'[p] = "close_destroy"
          BY <5>1, Causes DEF CloseCas
        <5>2. CASE pc'[p] = "close_unlink"
          BY <5>2, Causes DEF CloseDestroy
        <5> QED  BY <1>8, <4>1, <5>1, <5>2 DEF Unlinking
      <4>2. CASE q # p
        BY <1>2, <1>5, <2>1, <3>2, <4>2, SharedSegmentConstants
      <4> QED  BY <4>1, <4>2
    <3>4. PICK s \in Seg : s = map[q]
      BY <3>2
    <3>5. ~Fresh(s)'
      BY <3>1, <3>4 DEF Fresh
    <3>6. Dead(s)
      BY <3>2, <3>4 DEF Dead
    <3>7. Dead(s)'
      BY <1>3, <3>5, <3>6, StaysDead
    <3> QED  BY <1>2, <2>1, <3>1, <3>2, <3>3, <3>4, <3>7 DEF Dead
  <2>2. CASE pc[q] \notin Unlinking
    <3>1. q = p
      BY <1>8, <2>2, FrameStep
    <3>2. CloseCas(p)
      BY <1>8, <2>2, <3>1, Causes DEF CloseDestroy, Unlinking
    <3>3. PICK s \in Seg : s = map[p]
      BY <3>2, Held DEF CloseCas, WithMap, Using, Closing
    <3>4. ~seg[s].invalidated /\ map' = map /\ link' = link /\ made[p] # "fd"
      BY <1>8, <3>1, <3>2, <3>3 DEF CloseCas, Goto, TypeOK, Unlinking, HoldsInv
    <3>5. s = link
      BY <1>2, <3>3, <3>4, SharedSegmentConstants DEF Dead
    <3>6. seg[s] \in SegType /\ seg'[s] = Invalidate(seg[s])
      BY <3>2, <3>3 DEF CloseCas, TypeOK
    <3>7. seg'[s].invalidated
      BY <3>6, InvalidateCorrect
    <3> QED  BY <1>2, <3>1, <3>3, <3>4, <3>5, <3>7
  <2> QED  BY <2>1, <2>2
<1>9. ASSUME NEW q \in Process, NEW r \in Process, pc'[q] \in Unlinking, pc'[r] \in Unlinking, q # r
      PROVE  FALSE
  BY <1>8, <1>9, FrameStep
<1> QED  BY <1>7, <1>8, <1>9

LEMMA CountedOwn ==
    ASSUME TypeOK, HoldsInv, CountInv, spent["reinit"] = 0, NEW p \in Process, Step(p),
           pc'[p] \in CountedAt, NEW s \in Seg, map'[p] = s
    PROVE  \/ pc[p] \in CountedAt /\ map[p] = s
           \/ InitStore(p) /\ map[p] = s
           \/ (MapOld(p) \/ RvMap(p)) /\ fd[p] = s /\ seg[s].sized
<1> USE SharedSegmentConstants DEF TypeOK, Goto, SetFd, SetMap, CountedAt
<1>1. CASE Construct(p)
  BY <1>1 DEF Construct
<1>2. CASE ConstructFdInit(p)
  BY <1>2 DEF ConstructFdInit
<1>3. CASE ConstructFd(p)
  BY <1>3 DEF ConstructFd
<1>4. CASE Revalidate(p)
  BY <1>4 DEF Revalidate
<1>5. CASE CloseDecrement(p)
  BY <1>5 DEF CloseDecrement
<1>6. CASE ToBuffer(p)
  BY <1>6 DEF ToBuffer
<1>7. CASE FromBuffer(p)
  BY <1>7 DEF FromBuffer
<1>8. CASE OpenExcl(p)
  BY <1>8 DEF OpenExcl, CreateFile
<1>9. CASE Open(p)
  BY <1>9 DEF Open, Gone
<1>10. CASE Fstat(p)
  BY <1>10 DEF Fstat, Gone
<1>11. CASE MapOld(p)
  BY <1>11 DEF MapOld, MapExisting, Gone
<1>12. CASE ReMap(p)
  BY <1>12 DEF ReMap, MapExisting, Gone
<1>13. CASE ReMark(p)
  BY <1>13 DEF ReMark
<1>14. CASE ReDecrement(p)
  BY <1>14 DEF ReDecrement
<1>15. CASE ReUnlink(p)
  BY <1>15 DEF ReUnlink
<1>16. CASE ReCreate(p)
  BY <1>16 DEF ReCreate, CreateFile, Gone
<1>17. CASE Truncate(p)
  BY <1>17 DEF Truncate
<1>18. CASE InitSize(p)
  BY <1>18 DEF InitSize
<1>19. CASE InitCount(p)
  BY <1>19 DEF InitCount
<1>20. CASE InitStore(p)
  BY <1>20 DEF InitStore
<1>21. CASE Chmod(p)
  BY <1>21 DEF Chmod
<1>22. CASE RvOpen(p)
  BY <1>22 DEF RvOpen
<1>23. CASE RvFstat(p)
  BY <1>23 DEF RvFstat
<1>24. CASE RvMap(p)
  BY <1>24 DEF RvMap, MapExisting, Gone
<1>25. CASE CloseCas(p)
  BY <1>25 DEF CloseCas
<1>26. CASE CloseDestroy(p)
  BY <1>26 DEF CloseDestroy
<1>27. CASE CloseUnlink(p)
  BY <1>27 DEF CloseUnlink
<1>28. CASE CloseUnmap(p)
  BY <1>28 DEF CloseUnmap, Gone
<1>29. CASE Crash(p)
  BY <1>29 DEF Crash, Gone
<1>30. QED  BY <1>1, <1>2, <1>3, <1>4, <1>5, <1>6, <1>7, <1>8, <1>9, <1>10, <1>11, <1>12, <1>13, <1>14, <1>15, <1>16, <1>17, <1>18, <1>19, <1>20, <1>21, <1>22, <1>23, <1>24, <1>25, <1>26, <1>27, <1>28, <1>29 DEF Step, Runs

LEMMA CountStep ==
    ASSUME TypeOK, HoldsInv, SegInv, BuildInv, BufferInv, CountInv, CountCoversUsers,
           NEW p \in Process, Step(p)
    PROVE  CountCoversUsers'
<1> SUFFICES ASSUME spent'["reinit"] = 0, NotPastedOver', NEW s \in Seg,
                    NEW W, W = Users(s)'
             PROVE  Cardinality(W) <= seg'[s].usage_count
  BY DEF CountCoversUsers, NotPastedOver
<1>1. spent["reinit"] = 0 /\ NotPastedOver
  BY SpentStep DEF Event
<1>2. PICK U : U = Users(s)
  OBVIOUS
<1>3. /\ IsFiniteSet(U) /\ Cardinality(U) \in Nat /\ Cardinality(U) <= seg[s].usage_count
      /\ seg[s].usage_count \in Int /\ seg'[s].usage_count \in Int /\ seg[s] \in SegType
  BY <1>1, <1>2, SharedSegmentConstants, FS_Subset, FS_CardinalityType, TypeStep
     DEF Users, CountCoversUsers, TypeOK, SegType
<1>4. \A q \in Process \ {p} : q \in W <=> q \in U
  BY <1>2, FrameStep DEF Users
<1>5. W \subseteq Process /\ U \subseteq Process
  BY <1>2 DEF Users
<1>6. CASE Fresh(s)'
  <2>1. W = {}
    BY <1>6 DEF Fresh, Users
  <2>2. seg'[s].usage_count = 0
    BY <1>6, FreshStep, NewSegmentCorrect
  <2> QED  BY <2>1, <2>2, FS_EmptySet
<1>7. CASE ~Fresh(s)' /\ p \in W
  <2>1. pc'[p] \in CountedAt /\ map'[p] = s
    BY <1>7 DEF Users
  <2>2. CASE pc[p] \in CountedAt /\ map[p] = s
    <3>1. W = U
      BY <1>2, <1>4, <1>5, <1>7, <2>2 DEF Users
    <3>2. CASE FromBuffer(p)
      <4>1. \A q \in Process \ {p} : map[q] # s
        BY <2>2, <3>2, AlonePaste
      <4>2. U = {p}
        BY <1>2, <2>2, <4>1 DEF Users
      <4>3. PICK b \in buffer : seg' = [seg EXCEPT ![map[p]] = Pasted(@, b)]
        BY <3>2 DEF FromBuffer
      <4>4. b.usage_count >= 1 /\ b \in Contents
        BY <1>1 DEF BufferInv, TypeOK
      <4>5. seg'[s].usage_count = b.usage_count
        BY <1>3, <2>2, <4>3, <4>4, PastedCorrect DEF TypeOK
      <4> QED  BY <1>3, <3>1, <4>2, <4>4, <4>5, FS_Singleton
    <3>3. CASE ~FromBuffer(p)
      <4>1. ~InitCount(p) /\ ~CloseDecrement(p) /\ ~ReDecrement(p)
        BY <2>1, <2>2 DEF InitCount, CloseDecrement, ReDecrement, CountedAt, Goto, TypeOK
      <4>2. Changes(p, s)
        BY <1>7, SegChanges
      <4>3. seg'[s].usage_count >= seg[s].usage_count
        BY <1>3, <3>3, <4>1, <4>2 DEF Changes, SameCount
      <4> QED  BY <1>3, <3>1, <4>3
    <3> QED  BY <3>2, <3>3
  <2>3. CASE InitStore(p) /\ map[p] = s
    <3>1. \A q \in Process \ {p} : map[q] # s
      BY <1>1, <2>3, BuiltAlone DEF InitStore
    <3>2. W = {p}
      BY <1>4, <1>5, <1>7, <1>2, <3>1 DEF Users
    <3>3. seg[s].usage_count = 1
      BY <1>1, <2>3 DEF InitStore, CountInv
    <3>4. seg'[s] = StoreLive(seg[s])
      BY <2>3 DEF InitStore, TypeOK
    <3>5. seg'[s].usage_count = 1
      BY <1>3, <3>3, <3>4, StoreLiveCorrect
    <3> QED  BY <3>2, <3>5, FS_Singleton
  <2>4. CASE (MapOld(p) \/ RvMap(p)) /\ fd[p] = s /\ seg[s].sized
    <3>1. seg'[s] = Increment(seg[s])
      BY <2>4 DEF MapOld, RvMap, MapExisting, TypeOK
    <3>2. seg'[s].usage_count = seg[s].usage_count + 1
      BY <1>3, <3>1, IncrementCorrect
    <3>3. W = U \union {p}
      BY <1>4, <1>5, <1>7
    <3>4. Cardinality(W) = IF p \in U THEN Cardinality(U) ELSE Cardinality(U) + 1
      BY <1>3, <3>3, FS_AddElement
    <3> QED  BY <1>3, <3>2, <3>4
  <2> QED  BY <1>1, <2>1, <2>2, <2>3, <2>4, CountedOwn
<1>8. CASE ~Fresh(s)' /\ p \notin W
  <2>1. W = U \ {p}
    BY <1>4, <1>5, <1>8
  <2>2. Cardinality(W) = IF p \in U THEN Cardinality(U) - 1 ELSE Cardinality(U)
    BY <1>3, <2>1, FS_RemoveElement
  <2>3. CASE InitCount(p) /\ map[p] = s
    <3>1. \A q \in Process \ {p} : map[q] # s
      BY <1>1, <2>3, BuiltAlone DEF InitCount
    <3>2. W = {}
      BY <1>2, <2>1, <3>1 DEF Users
    <3>3. seg'[s] = CountOne(seg[s])
      BY <2>3 DEF InitCount, TypeOK
    <3>4. seg'[s].usage_count = 1
      BY <1>3, <3>3, CountOneCorrect
    <3> QED  BY <3>2, <3>4, FS_EmptySet
  <2>4. CASE CloseDecrement(p) /\ map[p] = s
    <3>1. p \in U
      BY <1>2, <2>4 DEF CloseDecrement, Users, CountedAt
    <3>2. seg'[s] = Decrement(seg[s])
      BY <2>4 DEF CloseDecrement, TypeOK
    <3>3. seg'[s].usage_count = seg[s].usage_count - 1
      BY <1>3, <3>2, DecrementCorrect
    <3> QED  BY <1>3, <2>2, <3>1, <3>3
  <2>5. CASE ~(InitCount(p) /\ map[p] = s) /\ ~(CloseDecrement(p) /\ map[p] = s)
    <3>1. ~ReDecrement(p)
      BY <1>1 DEF ReDecrement, CountInv
    <3>2. ~(map[p] = s /\ FromBuffer(p))
      BY <1>8 DEF FromBuffer, Users, CountedAt
    <3>3. Changes(p, s)
      BY <1>8, SegChanges
    <3>4. seg'[s].usage_count >= seg[s].usage_count
      BY <1>3, <2>5, <3>1, <3>2, <3>3 DEF Changes, SameCount
    <3> QED  BY <1>3, <2>2, <3>4
  <2> QED  BY <2>3, <2>4, <2>5
<1> QED  BY <1>6, <1>7, <1>8

(***************************************************************************)
(* The path after the last close                                           *)
(***************************************************************************)
LEMMA OnlyReinitsStep ==
    ASSUME TypeOK, NEW p \in Process, Step(p), OnlyReinits'
    PROVE  /\ OnlyReinits
           /\ ~ConstructFdInit(p) /\ ~ConstructFd(p) /\ ~FromBuffer(p) /\ ~Crash(p)
<1>1. OnlyReinits
  BY SpentStep DEF OnlyReinits
<1> QED  BY <1>1 DEF OnlyReinits, ConstructFdInit, ConstructFd, FromBuffer, Crash, Spend, Event, TypeOK

\* who is about to unlink the path does so
LEMMA RemovingEnds ==
    ASSUME TypeOK, NEW p \in Process, Step(p), OnlyReinits',
           pc[p] \in Removing, pc'[p] \notin Removing
    PROVE  link' = NoSeg
<1> USE DEF TypeOK, Goto, Removing
<1>0. ~ConstructFdInit(p) /\ ~ConstructFd(p) /\ ~FromBuffer(p) /\ ~Crash(p)
  BY OnlyReinitsStep
<1>1. CASE Construct(p)
  BY <1>1 DEF Construct
<1>2. CASE ConstructFdInit(p)
  BY <1>0, <1>2
<1>3. CASE ConstructFd(p)
  BY <1>0, <1>3
<1>4. CASE Revalidate(p)
  BY <1>4 DEF Revalidate
<1>5. CASE CloseDecrement(p)
  BY <1>5 DEF CloseDecrement
<1>6. CASE ToBuffer(p)
  BY <1>6 DEF ToBuffer
<1>7. CASE FromBuffer(p)
  BY <1>0, <1>7
<1>8. CASE OpenExcl(p)
  BY <1>8 DEF OpenExcl, CreateFile
<1>9. CASE Open(p)
  BY <1>9 DEF Open, Gone
<1>10. CASE Fstat(p)
  BY <1>10 DEF Fstat, Gone
<1>11. CASE MapOld(p)
  BY <1>11 DEF MapOld, MapExisting, Gone
<1>12. CASE ReMap(p)
  BY <1>12 DEF ReMap, MapExisting, Gone
<1>13. CASE ReMark(p)
  BY <1>13 DEF ReMark
<1>14. CASE ReDecrement(p)
  BY <1>14 DEF ReDecrement
<1>15. CASE ReUnlink(p)
  BY <1>15 DEF ReUnlink
<1>16. CASE ReCreate(p)
  BY <1>16 DEF ReCreate, CreateFile, Gone
<1>17. CASE Truncate(p)
  BY <1>17 DEF Truncate
<1>18. CASE InitSize(p)
  BY <1>18 DEF InitSize
<1>19. CASE InitCount(p)
  BY <1>19 DEF InitCount
<1>20. CASE InitStore(p)
  BY <1>20 DEF InitStore
<1>21. CASE Chmod(p)
  BY <1>21 DEF Chmod
<1>22. CASE RvOpen(p)
  BY <1>22 DEF RvOpen
<1>23. CASE RvFstat(p)
  BY <1>23 DEF RvFstat
<1>24. CASE RvMap(p)
  BY <1>24 DEF RvMap, MapExisting, Gone
<1>25. CASE CloseCas(p)
  BY <1>25 DEF CloseCas
<1>26. CASE CloseDestroy(p)
  BY <1>26 DEF CloseDestroy
<1>27. CASE CloseUnlink(p)
  BY <1>27 DEF CloseUnlink
<1>28. CASE CloseUnmap(p)
  BY <1>28 DEF CloseUnmap, Gone
<1>29. CASE Crash(p)
  BY <1>0, <1>29
<1>q. QED  BY <1>1, <1>2, <1>3, <1>4, <1>5, <1>6, <1>7, <1>8, <1>9, <1>10, <1>11, <1>12, <1>13, <1>14, <1>15, <1>16, <1>17, <1>18, <1>19, <1>20, <1>21, <1>22, <1>23, <1>24, <1>25, <1>26, <1>27, <1>28, <1>29 DEF Step, Runs

LEMMA PathMarksOwn ==
    ASSUME TypeOK, HoldsInv, PathMarks, NEW p \in Process, Step(p), OnlyReinits'
    PROVE  /\ made'[p] # "fd"
           /\ pc'[p] \in {"rv_open", "rv_fstat"} =>
                pc[p] \in Using /\ map'[p] = map[p] /\ seg[map[p]].invalidated
<1> USE DEF TypeOK, Goto, SetFd, SetMap, Using
<1>0. ~ConstructFdInit(p) /\ ~ConstructFd(p) /\ ~FromBuffer(p) /\ ~Crash(p)
  BY OnlyReinitsStep
<1>m. /\ made[p] # "fd"
      /\ pc[p] \in {"rv_open", "rv_fstat"} => seg[map[p]].invalidated
  BY DEF PathMarks
<1>1. CASE Construct(p)
  BY <1>m, <1>1 DEF Construct
<1>2. CASE ConstructFdInit(p)
  BY <1>0, <1>2
<1>3. CASE ConstructFd(p)
  BY <1>0, <1>3
<1>4. CASE Revalidate(p)
  <2>1. map[p] # NoSeg
    BY <1>4 DEF Revalidate, HoldsInv, WithMap
  <2> QED  BY <1>m, <1>4, <2>1 DEF Revalidate, Valid
<1>5. CASE CloseDecrement(p)
  BY <1>m, <1>5 DEF CloseDecrement
<1>6. CASE ToBuffer(p)
  BY <1>m, <1>6 DEF ToBuffer
<1>7. CASE FromBuffer(p)
  BY <1>0, <1>7
<1>8. CASE OpenExcl(p)
  BY <1>m, <1>8 DEF OpenExcl, CreateFile
<1>9. CASE Open(p)
  BY <1>m, <1>9 DEF Open, Gone
<1>10. CASE Fstat(p)
  BY <1>m, <1>10 DEF Fstat, Gone
<1>11. CASE MapOld(p)
  BY <1>m, <1>11 DEF MapOld, MapExisting, Gone
<1>12. CASE ReMap(p)
  BY <1>m, <1>12 DEF ReMap, MapExisting, Gone
<1>13. CASE ReMark(p)
  BY <1>m, <1>13 DEF ReMark
<1>14. CASE ReDecrement(p)
  BY <1>m, <1>14 DEF ReDecrement
<1>15. CASE ReUnlink(p)
  BY <1>m, <1>15 DEF ReUnlink
<1>16. CASE ReCreate(p)
  BY <1>m, <1>16 DEF ReCreate, CreateFile, Gone
<1>17. CASE Truncate(p)
  BY <1>m, <1>17 DEF Truncate
<1>18. CASE InitSize(p)
  BY <1>m, <1>18 DEF InitSize
<1>19. CASE InitCount(p)
  BY <1>m, <1>19 DEF InitCount
<1>20. CASE InitStore(p)
  BY <1>m, <1>20 DEF InitStore
<1>21. CASE Chmod(p)
  BY <1>m, <1>21 DEF Chmod
<1>22. CASE RvOpen(p)
  BY <1>m, <1>22 DEF RvOpen
<1>23. CASE RvFstat(p)
  BY <1>m, <1>23 DEF RvFstat
<1>24. CASE RvMap(p)
  BY <1>m, <1>24 DEF RvMap, MapExisting, Gone
<1>25. CASE CloseCas(p)
  BY <1>m, <1>25 DEF CloseCas
<1>26. CASE CloseDestroy(p)
  BY <1>m, <1>26 DEF CloseDestroy
<1>27. CASE CloseUnlink(p)
  BY <1>m, <1>27 DEF CloseUnlink
<1>28. CASE CloseUnmap(p)
  BY <1>m, <1>28 DEF CloseUnmap, Gone
<1>29. CASE Crash(p)
  BY <1>0, <1>29
<1>q. QED  BY <1>1, <1>2, <1>3, <1>4, <1>5, <1>6, <1>7, <1>8, <1>9, <1>10, <1>11, <1>12, <1>13, <1>14, <1>15, <1>16, <1>17, <1>18, <1>19, <1>20, <1>21, <1>22, <1>23, <1>24, <1>25, <1>26, <1>27, <1>28, <1>29 DEF Step, Runs

LEMMA PathMarksStep ==
    ASSUME TypeOK, HoldsInv, BuildInv, UseInv, PathMarks, NEW p \in Process, Step(p), OnlyReinits'
    PROVE  PathMarks'
<1>1. ~FromBuffer(p)
  BY OnlyReinitsStep
<1>2. SUFFICES ASSUME NEW q \in Process
               PROVE  /\ made'[q] # "fd"
                      /\ pc'[q] \in {"rv_open", "rv_fstat"} => seg'[map'[q]].invalidated
  BY DEF PathMarks
<1>3. /\ made'[q] # "fd"
      /\ pc'[q] \in {"rv_open", "rv_fstat"} =>
           pc[q] \in Using /\ map'[q] = map[q] /\ seg[map[q]].invalidated
  <2>1. CASE q = p
    BY <2>1, PathMarksOwn
  <2>2. CASE q # p
    BY <2>2, FrameStep DEF PathMarks, Using
  <2> QED  BY <2>1, <2>2
<1>4. ASSUME pc'[q] \in {"rv_open", "rv_fstat"}
      PROVE  seg'[map'[q]].invalidated
  <2>1. PICK s \in Seg : s = map[q]
    BY <1>3, <1>4, Held DEF WithMap
  <2>2. Dead(s)
    BY <1>3, <1>4, <2>1 DEF Dead, UseInv
  <2>3. ~Fresh(s)'
    BY <1>3, <1>4, <2>1 DEF Fresh
  <2>4. Dead(s)'
    BY <1>1, <2>2, <2>3, StaysDead
  <2> QED  BY <1>3, <1>4, <2>1, <2>4 DEF Dead
<1> QED  BY <1>3, <1>4

\* how a process comes to be counted in a segment that stays linked, and leaves
LEMMA CountedOwnOnce ==
    ASSUME TypeOK, HoldsInv, NEW p \in Process, Step(p), OnlyReinits',
           pc[p] \notin Removing, pc'[p] \notin Removing, NEW s \in Seg
    PROVE  /\ p \in Counted(s)' /\ p \notin Counted(s)
                => \/ InitCount(p) /\ map[p] = s
                   \/ (MapOld(p) \/ RvMap(p)) /\ fd[p] = s /\ seg[s].sized
           /\ p \in Counted(s) /\ p \notin Counted(s)'
                => (CloseDecrement(p) \/ RvFstat(p)) /\ map[p] = s
<1> USE SharedSegmentConstants DEF TypeOK, Goto, SetFd, SetMap, Counted, CountedAt, Removing
<1>0. ~ConstructFdInit(p) /\ ~ConstructFd(p) /\ ~FromBuffer(p) /\ ~Crash(p)
  BY OnlyReinitsStep
<1>1. CASE Construct(p)
  BY <1>1 DEF Construct
<1>2. CASE ConstructFdInit(p)
  BY <1>0, <1>2
<1>3. CASE ConstructFd(p)
  BY <1>0, <1>3
<1>4. CASE Revalidate(p)
  BY <1>4 DEF Revalidate
<1>5. CASE CloseDecrement(p)
  BY <1>5 DEF CloseDecrement
<1>6. CASE ToBuffer(p)
  BY <1>6 DEF ToBuffer
<1>7. CASE FromBuffer(p)
  BY <1>0, <1>7
<1>8. CASE OpenExcl(p)
  BY <1>8 DEF OpenExcl, CreateFile
<1>9. CASE Open(p)
  BY <1>9 DEF Open, Gone
<1>10. CASE Fstat(p)
  BY <1>10 DEF Fstat, Gone
<1>11. CASE MapOld(p)
  BY <1>11 DEF MapOld, MapExisting, Gone
<1>12. CASE ReMap(p)
  BY <1>12 DEF ReMap, MapExisting, Gone
<1>13. CASE ReMark(p)
  BY <1>13 DEF ReMark
<1>14. CASE ReDecrement(p)
  BY <1>14 DEF ReDecrement
<1>15. CASE ReUnlink(p)
  BY <1>15 DEF ReUnlink
<1>16. CASE ReCreate(p)
  BY <1>16 DEF ReCreate, CreateFile, Gone
<1>17. CASE Truncate(p)
  BY <1>17 DEF Truncate
<1>18. CASE InitSize(p)
  BY <1>18 DEF InitSize
<1>19. CASE InitCount(p)
  BY <1>19 DEF InitCount
<1>20. CASE InitStore(p)
  BY <1>20 DEF InitStore
<1>21. CASE Chmod(p)
  BY <1>21 DEF Chmod
<1>22. CASE RvOpen(p)
  BY <1>22 DEF RvOpen
<1>23. CASE RvFstat(p)
  BY <1>23 DEF RvFstat
<1>24. CASE RvMap(p)
  BY <1>24 DEF RvMap, MapExisting, Gone
<1>25. CASE CloseCas(p)
  BY <1>25 DEF CloseCas
<1>26. CASE CloseDestroy(p)
  BY <1>26 DEF CloseDestroy
<1>27. CASE CloseUnlink(p)
  BY <1>27 DEF CloseUnlink
<1>28. CASE CloseUnmap(p)
  BY <1>28 DEF CloseUnmap, Gone
<1>29. CASE Crash(p)
  BY <1>0, <1>29
<1>q. QED  BY <1>1, <1>2, <1>3, <1>4, <1>5, <1>6, <1>7, <1>8, <1>9, <1>10, <1>11, <1>12, <1>13, <1>14, <1>15, <1>16, <1>17, <1>18, <1>19, <1>20, <1>21, <1>22, <1>23, <1>24, <1>25, <1>26, <1>27, <1>28, <1>29 DEF Step, Runs

\* who keeps a linked segment goes on to do so, or lets go of it
LEMMA KeepsOwn ==
    ASSUME TypeOK, HoldsInv, BuildInv, NEW p \in Process, Step(p), OnlyReinits', made[p] # "fd",
           pc[p] \notin Removing, pc'[p] \notin Removing, NEW s \in Seg,
           ~seg[s].invalidated, Keeps(p, s), ~Keeps(p, s)'
    PROVE  (CloseDecrement(p) \/ RvFstat(p)) /\ pc[p] \in CountedAt /\ map[p] = s
<1> USE SharedSegmentConstants DEF TypeOK, Goto, SetFd, SetMap, Keeps, CountedAt, Removing, Building
<1>0. ~ConstructFdInit(p) /\ ~ConstructFd(p) /\ ~FromBuffer(p) /\ ~Crash(p)
  BY OnlyReinitsStep
<1>f. /\ pc[p] \in Building => ~seg[fd[p]].truncated \/ pc[p] # "fstat_new"
      /\ pc[p] = "chmod" => map[p] = fd[p]
  BY DEF BuildInv, Progress, HoldsInv, WithMap
<1>1. CASE Construct(p)
  BY <1>f, <1>1 DEF Construct
<1>2. CASE ConstructFdInit(p)
  BY <1>0, <1>2
<1>3. CASE ConstructFd(p)
  BY <1>0, <1>3
<1>4. CASE Revalidate(p)
  BY <1>f, <1>4 DEF Revalidate
<1>5. CASE CloseDecrement(p)
  BY <1>f, <1>5 DEF CloseDecrement
<1>6. CASE ToBuffer(p)
  BY <1>f, <1>6 DEF ToBuffer
<1>7. CASE FromBuffer(p)
  BY <1>0, <1>7
<1>8. CASE OpenExcl(p)
  BY <1>f, <1>8 DEF OpenExcl, CreateFile
<1>9. CASE Open(p)
  BY <1>f, <1>9 DEF Open, Gone
<1>10. CASE Fstat(p)
  BY <1>f, <1>10 DEF Fstat, Gone
<1>11. CASE MapOld(p)
  BY <1>f, <1>11 DEF MapOld, MapExisting, Gone
<1>12. CASE ReMap(p)
  BY <1>f, <1>12 DEF ReMap, MapExisting, Gone
<1>13. CASE ReMark(p)
  BY <1>f, <1>13 DEF ReMark
<1>14. CASE ReDecrement(p)
  BY <1>f, <1>14 DEF ReDecrement
<1>15. CASE ReUnlink(p)
  BY <1>f, <1>15 DEF ReUnlink
<1>16. CASE ReCreate(p)
  BY <1>f, <1>16 DEF ReCreate, CreateFile, Gone
<1>17. CASE Truncate(p)
  BY <1>f, <1>17 DEF Truncate
<1>18. CASE InitSize(p)
  BY <1>f, <1>18 DEF InitSize
<1>19. CASE InitCount(p)
  BY <1>f, <1>19 DEF InitCount
<1>20. CASE InitStore(p)
  BY <1>f, <1>20 DEF InitStore
<1>21. CASE Chmod(p)
  BY <1>f, <1>21 DEF Chmod
<1>22. CASE RvOpen(p)
  BY <1>f, <1>22 DEF RvOpen
<1>23. CASE RvFstat(p)
  BY <1>f, <1>23 DEF RvFstat
<1>24. CASE RvMap(p)
  BY <1>f, <1>24 DEF RvMap, MapExisting, Gone
<1>25. CASE CloseCas(p)
  BY <1>f, <1>25 DEF CloseCas
<1>26. CASE CloseDestroy(p)
  BY <1>f, <1>26 DEF CloseDestroy
<1>27. CASE CloseUnlink(p)
  BY <1>f, <1>27 DEF CloseUnlink
<1>28. CASE CloseUnmap(p)
  BY <1>f, <1>28 DEF CloseUnmap, Gone
<1>29. CASE Crash(p)
  BY <1>0, <1>29
<1>q. QED  BY <1>1, <1>2, <1>3, <1>4, <1>5, <1>6, <1>7, <1>8, <1>9, <1>10, <1>11, <1>12, <1>13, <1>14, <1>15, <1>16, <1>17, <1>18, <1>19, <1>20, <1>21, <1>22, <1>23, <1>24, <1>25, <1>26, <1>27, <1>28, <1>29 DEF Step, Runs

\* the path names another segment than before: a new one, that its maker keeps
LEMMA PathCreated ==
    ASSUME TypeOK, HoldsInv, SegInv, NEW p \in Process, Step(p), link' # link, link' # NoSeg
    PROVE  /\ seg'[link'] = NewSegment /\ Keeps(p, link)'
           /\ \A q \in Process : map'[q] # link'
<1> USE SharedSegmentConstants DEF TypeOK, Goto, SetFd
<1>1. OpenExcl(p) \/ ReCreate(p)
  BY Causes DEF ReUnlink, CloseUnlink
<1>2. CreateFile(p) /\ pc'[p] \in Building /\ map' = map
  BY <1>1 DEF OpenExcl, ReCreate, Building
<1>3. PICK s \in Seg : Fresh(s) /\ link' = s /\ fd' = [fd EXCEPT ![p] = s] /\ seg' = seg
  BY <1>2 DEF CreateFile
<1>4. seg[s] = NewSegment
  BY <1>3 DEF SegInv
<1>5. \A q \in Process : map[q] # s
  BY <1>3 DEF Fresh
<1> QED  BY <1>2, <1>3, <1>4, <1>5 DEF Keeps

\* the count of a linked segment follows the processes counted in it
LEMMA PathCounted ==
    ASSUME TypeOK, HoldsInv, BuildInv, PathMarks, NEW p \in Process, Step(p), OnlyReinits',
           \A q \in Process : pc[q] \notin Removing, pc'[p] \notin Removing,
           NEW s \in Seg, ~Fresh(s)', ~seg[s].invalidated,
           seg[s].usage_count = Cardinality(Counted(s))
    PROVE  seg'[s].usage_count = Cardinality(Counted(s)')
<1>0. ~ConstructFdInit(p) /\ ~ConstructFd(p) /\ ~FromBuffer(p) /\ ~Crash(p)
  BY OnlyReinitsStep
<1>1. PICK C : C = Counted(s)
  OBVIOUS
<1>2. PICK D : D = Counted(s)'
  OBVIOUS
<1>3. C \subseteq Process /\ D \subseteq Process
  BY <1>1, <1>2 DEF Counted
<1>4. \A q \in Process \ {p} : q \in D <=> q \in C
  BY <1>1, <1>2, FrameStep DEF Counted
<1>5. IsFiniteSet(C) /\ Cardinality(C) \in Nat /\ seg[s].usage_count = Cardinality(C)
  BY <1>1, <1>3, SharedSegmentConstants, FS_Subset, FS_CardinalityType
<1>6. Changes(p, s)
  BY SegChanges
<1>7. /\ p \in D /\ p \notin C => \/ InitCount(p) /\ map[p] = s
                                  \/ (MapOld(p) \/ RvMap(p)) /\ fd[p] = s /\ seg[s].sized
      /\ p \in C /\ p \notin D => (CloseDecrement(p) \/ RvFstat(p)) /\ map[p] = s
  BY <1>1, <1>2, CountedOwnOnce
<1>8. ~ReMark(p) /\ ~ReDecrement(p) /\ ~(ReMap(p) /\ seg[fd[p]].sized)
  BY DEF ReMark, ReDecrement, ReMap, MapExisting, Goto, TypeOK, Removing
<1>9. p \in C <=> map[p] = s /\ pc[p] \in CountedAt \union {"init_store"}
  BY <1>1 DEF Counted
<1>10. p \in D <=> map'[p] = s /\ pc'[p] \in CountedAt \union {"init_store"}
  BY <1>2 DEF Counted
<1>11. CASE p \in D /\ p \notin C /\ InitCount(p) /\ map[p] = s
  <2>1. map[p] = fd[p] /\ pc[p] \in Building
    BY <1>11 DEF InitCount, HoldsInv, Building, WithMap
  <2>2. \A q \in Process \ {p} : map[q] # s
    BY <1>11, <2>1 DEF BuildInv, Apart, Removing
  <2>3. C = {}
    BY <1>1, <1>11, <2>2 DEF Counted
  <2>4. D = {p}
    BY <1>3, <1>4, <1>11, <2>3
  <2>5. seg[s] \in SegType /\ seg'[s] = CountOne(seg[s])
    BY <1>11 DEF InitCount, TypeOK
  <2> QED  BY <1>2, <2>4, <2>5, CountOneCorrect, FS_Singleton
<1>12. CASE p \in D /\ p \notin C /\ (MapOld(p) \/ RvMap(p)) /\ fd[p] = s /\ seg[s].sized
  <2>1. seg[s] \in SegType /\ seg'[s] = Increment(seg[s])
    BY <1>12 DEF MapOld, RvMap, MapExisting, TypeOK
  <2>2. D = C \union {p}
    BY <1>3, <1>4, <1>12
  <2>3. Cardinality(D) = Cardinality(C) + 1
    BY <1>5, <1>12, <2>2, FS_AddElement
  <2> QED  BY <1>2, <1>5, <2>1, <2>3, IncrementCorrect
<1>13. CASE p \in C /\ p \notin D
  <2>1. CASE RvFstat(p)
    BY <1>7, <1>13, <2>1 DEF RvFstat, PathMarks
  <2>2. CASE CloseDecrement(p)
    <3>1. seg[s] \in SegType /\ seg'[s] = Decrement(seg[s])
      BY <1>7, <1>13, <2>2 DEF CloseDecrement, TypeOK
    <3>2. D = C \ {p}
      BY <1>3, <1>4, <1>13
    <3>3. Cardinality(D) = Cardinality(C) - 1
      BY <1>5, <1>13, <3>2, FS_RemoveElement
    <3> QED  BY <1>2, <1>5, <3>1, <3>3, DecrementCorrect
  <2> QED  BY <1>7, <1>13, <2>1, <2>2
<1>14. CASE p \in C <=> p \in D
  <2>1. C = D
    BY <1>3, <1>4, <1>14
  <2>2. ~(map[p] = s /\ InitCount(p))
    BY <1>9, <1>10, <1>14 DEF InitCount, CountedAt, Goto, TypeOK
  <2>3. ~(map[p] = s /\ CloseDecrement(p))
    BY <1>9, <1>10, <1>14 DEF CloseDecrement, CountedAt, Goto, TypeOK
  <2>4. ~((MapOld(p) \/ RvMap(p)) /\ fd[p] = s /\ map'[p] = s)
    <3>1. ASSUME MapOld(p) \/ RvMap(p), fd[p] = s, map'[p] = s
          PROVE  FALSE
      <4>1. pc'[p] = "ready" /\ pc[p] \in {"map_existing", "rv_map"}
        BY <3>1, SharedSegmentConstants DEF MapOld, RvMap, MapExisting, Gone, Goto, SetMap, TypeOK
      <4> QED  BY <1>9, <1>10, <1>14, <3>1, <4>1 DEF CountedAt
    <3> QED  BY <3>1
  <2>5. ~(ReMap(p) /\ fd[p] = s /\ map'[p] = s)
    BY <1>8, SharedSegmentConstants DEF ReMap, MapExisting, Gone, SetMap, TypeOK
  <2>6. SameCount(s)
    BY <1>0, <1>6, <1>8, <2>2, <2>3, <2>4, <2>5 DEF Changes
  <2> QED  BY <1>1, <1>2, <1>5, <2>1, <2>6 DEF SameCount
<1> QED  BY <1>7, <1>11, <1>12, <1>13, <1>14

\* a segment that stays linked is not marked: who marks it is about to unlink it
LEMMA PathUnmarked ==
    ASSUME TypeOK, HoldsInv, NEW p \in Process, Step(p), OnlyReinits',
           pc[p] \notin Removing, pc'[p] \notin Removing,
           NEW s \in Seg, ~Fresh(s)', ~seg[s].invalidated
    PROVE  ~seg'[s].invalidated
<1>1. ~FromBuffer(p)
  BY OnlyReinitsStep
<1>2. Changes(p, s)
  BY SegChanges
<1>3. ~ReMark(p) /\ ~(map[p] = s /\ CloseCas(p))
  BY DEF ReMark, CloseCas, Goto, TypeOK, Removing
<1>4. CASE InitStore(p) /\ map[p] = s
  <2>1. seg[s] \in SegType /\ seg'[s] = StoreLive(seg[s])
    BY <1>4 DEF InitStore, TypeOK
  <2> QED  BY <2>1, StoreLiveCorrect
<1>5. CASE ~(InitStore(p) /\ map[p] = s)
  BY <1>1, <1>2, <1>3, <1>5 DEF Changes, SameMark
<1> QED  BY <1>4, <1>5

\* the last one who closes finds the count zero
LEMMA LastTearsDown ==
    ASSUME TypeOK, HoldsInv, TypeOK', HoldsInv', NEW p \in Process, CloseDecrement(p), made[p] # "fd",
           NEW s \in Seg, map[p] = s, ~Keeps(p, s)', Cleanup[p] # "NEVER",
           seg'[s].usage_count = Cardinality(Counted(s)')
    PROVE  \E q \in Process : Keeps(q, s)'
<1>1. seg[s] \in SegType /\ seg'[s] = Decrement(seg[s]) /\ map'[p] = s
  BY DEF CloseDecrement, TypeOK
<1>2. seg'[s].usage_count = seg[s].usage_count - 1
  BY <1>1, DecrementCorrect
<1>3. pc'[p] # "close_cas"
  BY <1>1 DEF Keeps
<1>4. ~TearsDown(p, seg[s].usage_count - 1)
  BY <1>3 DEF CloseDecrement, Goto, TypeOK
<1>5. CleanupOf(p) = "IF_LAST"
  BY <1>4, SharedSegmentConstants DEF TearsDown, CleanupOf
<1>6. seg[s].usage_count - 1 # 0
  BY <1>4, <1>5 DEF TearsDown
<1>7. Counted(s)' # {}
  BY <1>2, <1>6, FS_EmptySet
<1>8. PICK q \in Process : map'[q] = s /\ pc'[q] \in CountedAt \union {"init_store"}
  BY <1>7 DEF Counted
<1>9. CASE pc'[q] = "init_store"
  BY <1>8, <1>9 DEF HoldsInv, Building, WithMap, Keeps
<1> QED  BY <1>8, <1>9 DEF Keeps

LEMMA PathStep ==
    ASSUME TypeOK, HoldsInv, SegInv, BuildInv, UseInv, PathInv, NEW p \in Process, Step(p)
    PROVE  PathInv'
<1> SUFFICES ASSUME OnlyReinits'
             PROVE  PathMarks' /\ PathKept'
  BY DEF PathInv
<1>1. PathMarks /\ PathKept /\ TypeOK' /\ HoldsInv'
  BY OnlyReinitsStep, TypeStep, HoldsStep DEF PathInv
<1>2. PathMarks'
  BY <1>1, PathMarksStep
<1>3. SUFFICES ASSUME link' # NoSeg, \A q \in Process : pc'[q] \notin Removing
               PROVE  /\ ~seg'[link'].invalidated
                      /\ seg'[link'].usage_count = Cardinality(Counted(link)')
                      /\ (\A q \in Process : Cleanup[q] # "NEVER") => \E q \in Process : Keeps(q, link)'
  BY <1>2 DEF PathKept
<1>4. \A q \in Process : pc[q] \notin Removing
  BY <1>3, FrameStep, RemovingEnds
<1>5. PICK s \in Seg : s = link'
  BY <1>1, <1>3 DEF TypeOK
<1>6. ~Fresh(s)'
  BY <1>5 DEF Fresh
<1>7. CASE link' # link
  <2>1. seg'[s] = NewSegment /\ Keeps(p, s)' /\ \A q \in Process : map'[q] # s
    BY <1>3, <1>5, <1>7, PathCreated
  <2>2. Counted(s)' = {}
    BY <2>1 DEF Counted
  <2> QED  BY <1>5, <2>1, <2>2, NewSegmentCorrect, FS_EmptySet
<1>8. CASE link' = link
  <2>1. /\ ~seg[s].invalidated
        /\ seg[s].usage_count = Cardinality(Counted(s))
        /\ (\A q \in Process : Cleanup[q] # "NEVER") => \E q \in Process : Keeps(q, s)
    BY <1>1, <1>3, <1>4, <1>5, <1>8 DEF PathKept
  <2>2. ~seg'[s].invalidated
    BY <1>3, <1>4, <1>6, <2>1, PathUnmarked
  <2>3. seg'[s].usage_count = Cardinality(Counted(s)')
    BY <1>1, <1>3, <1>4, <1>6, <2>1, PathCounted
  <2>4. ASSUME \A q \in Process : Cleanup[q] # "NEVER"
        PROVE  \E q \in Process : Keeps(q, s)'
    <3>1. PICK q \in Process : Keeps(q, s)
      BY <2>1, <2>4
    <3>2. CASE q # p
      BY <3>1, <3>2, FrameStep DEF Keeps
    <3>3. CASE q = p /\ ~Keeps(p, s)'
      <4>1. (CloseDecrement(p) \/ RvFstat(p)) /\ pc[p] \in CountedAt /\ map[p] = s
        BY <1>1, <1>3, <1>4, <2>1, <3>1, <3>3, KeepsOwn DEF PathMarks
      <4>2. ~RvFstat(p)
        BY <1>1, <2>1, <4>1 DEF PathMarks, RvFstat
      <4> QED  BY <1>1, <2>3, <2>4, <3>3, <4>1, <4>2, LastTearsDown DEF PathMarks
    <3> QED  BY <3>1, <3>2, <3>3
  <2> QED  BY <1>5, <2>2, <2>3, <2>4
<1> QED  BY <1>7, <1>8

LEMMA InitIInv == Init => IInv
<1> SUFFICES ASSUME Init PROVE IInv
  OBVIOUS
<1> USE SharedSegmentConstants DEF Init
<1>1. /\ NewSegment \in SegType
      /\ NewSegment.mode # Ready /\ ~NewSegment.truncated /\ ~NewSegment.sized /\ NewSegment.store = "raw"
      /\ NewSegment.usage_count = 0
  BY NewSegmentCorrect DEF Ready, NotReady
<1>2. TypeOK
  BY <1>1 DEF TypeOK
<1>3. HoldsInv
  BY DEF HoldsInv, WithFd, WithMap, Building, Using, Closing
<1>4. SegInv
  BY <1>1 DEF SegInv, InOrder, Sound
<1>5. BuildInv /\ UseInv /\ CloseInv
  BY DEF BuildInv, Building, UseInv, Using, Closing, CloseInv
<1>6. BufferInv
  BY DEF BufferInv
<1>7. LinkInv /\ CountInv
  BY DEF LinkInv, CountInv, Unlinking
<1>8. CountCoversUsers
  <2>1. ASSUME NEW s \in Seg PROVE Users(s) = {} /\ seg[s].usage_count = 0
    BY <1>1 DEF Users, CountedAt
  <2> QED  BY <2>1, FS_EmptySet DEF CountCoversUsers
<1>9. PathInv
  BY DEF PathInv, PathMarks, PathKept
<1> QED  BY <1>2, <1>3, <1>4, <1>5, <1>6, <1>7, <1>8, <1>9 DEF IInv

LEMMA NextIInv == IInv /\ [Next]_vars => IInv'
<1>1. ASSUME IInv, UNCHANGED vars
      PROVE  IInv'
  <2> USE <1>1 DEF vars, IInv
  <2>1. TypeOK' /\ HoldsInv'
    BY DEF TypeOK, HoldsInv
  <2>2. SegInv'
    BY DEF SegInv, Fresh, InOrder, Sound, NotPastedOver
  <2>3. BuildInv' /\ UseInv'
    BY DEF BuildInv, Progress, Apart, UseInv
  <2>4. CloseInv' /\ BufferInv'
    BY DEF CloseInv, BufferInv, Sound, NotPastedOver
  <2>5. LinkInv'
    BY DEF LinkInv, NotPastedOver
  <2>6. CountInv' /\ CountCoversUsers'
    BY DEF CountInv, CountCoversUsers, Users, NotPastedOver
  <2>7. PathInv'
    BY DEF PathInv, OnlyReinits, PathMarks, PathKept, Counted, Keeps
  <2> QED  BY <2>1, <2>2, <2>3, <2>4, <2>5, <2>6, <2>7
<1>2. ASSUME IInv, NEW p \in Process, Step(p)
      PROVE  IInv'
  <2>1. TypeOK' /\ HoldsInv'
    BY <1>2, TypeStep, HoldsStep DEF IInv
  <2>2. SegInv' /\ BuildInv'
    BY <1>2, SegStep, BuildStep DEF IInv
  <2>3. UseInv' /\ CloseInv'
    BY <1>2, UseStep, CloseStep DEF IInv
  <2>4. BufferInv' /\ LinkInv'
    BY <1>2, BufferStep, LinkStep DEF IInv
  <2>5. CountInv' /\ CountCoversUsers'
    BY <1>2, CountInvStep, CountStep DEF IInv
  <2>6. PathInv'
    BY <1>2, PathStep DEF IInv
  <2> QED  BY <2>1, <2>2, <2>3, <2>4, <2>5, <2>6 DEF IInv
<1> QED  BY <1>1, <1>2 DEF Next

(* The inductive invariant holds in every reachable state: of the calls    *)
(* that construct, revalidate, copy and close a store in any interleaving, *)
(* with crashes between any two of their steps (stst_shared.cpp:16-267).   *)
THEOREM Invariance == Spec => []IInv
BY InitIInv, NextIInv, PTL DEF Spec

(* valid() is never true of a store that is not yet constructed or already *)
(* destroyed (stst_shared.hpp:136-138, stst_shared.cpp:10-14, 229-251).    *)
THEOREM LiveCorrect == Spec => []ValidMeansLive
<1>1. ASSUME IInv, NotPastedOver, NEW p \in Process, pc[p] = "ready", Valid(p)
      PROVE  seg[map[p]].store = "live"
  <2>1. /\ map[p] \in Seg /\ seg[map[p]] \in SegType /\ seg[map[p]].store # "raw"
    BY <1>1, Held DEF IInv, WithMap, Using, UseInv
  <2>2. seg[map[p]].store # "destroyed"
    BY <1>1, <2>1 DEF IInv, SegInv, Sound, Valid
  <2> QED  BY <2>1, <2>2, SegFields
<1>2. IInv => ValidMeansLive
  BY <1>1 DEF ValidMeansLive
<1> QED  BY <1>2, Invariance, PTL

(* No constructor without reinit and no revalidate() maps a segment before *)
(* its constructor is done: mode 0660 is set last (stst_shared.cpp:40-79,  *)
(* 103-107, 198-215).  Besides its constructor only a reinit has an        *)
(* unfinished segment mapped, while it marks it (43-50).                   *)
THEOREM BuiltCorrect == Spec => []MapsOnlyBuilt
<1>1. ASSUME IInv, NEW p \in Process, pc[p] \in {"map_existing", "rv_map"}
      PROVE  seg[fd[p]].sized /\ seg[fd[p]].store # "raw"
  <2>1. fd[p] \in Seg /\ seg[fd[p]].store # "raw"
    BY <1>1, Held DEF IInv, WithFd, UseInv
  <2> QED  BY <1>1, <2>1 DEF IInv, SegInv, InOrder
<1>2. ASSUME IInv, NEW p \in Process, map[p] # NoSeg, seg[map[p]].store = "raw"
      PROVE  pc[p] \in {"init_size", "init_count", "init_store"} \union {"re_mark", "re_decrement"}
  <2>1. pc[p] \in WithMap
    BY <1>2 DEF IInv, HoldsInv
  <2>2. pc[p] \notin Using
    BY <1>2 DEF IInv, UseInv
  <2>3. pc[p] # "chmod"
    <3> SUFFICES ASSUME pc[p] = "chmod" PROVE FALSE
      OBVIOUS
    <3>1. pc[p] \in Building /\ map[p] = fd[p]
      BY <1>2, <2>1 DEF IInv, HoldsInv, Building
    <3>2. seg[fd[p]].store = "live"
      BY <1>2, <3>1 DEF IInv, BuildInv, Progress
    <3> QED  BY <1>2, <3>1, <3>2
  <2> QED  BY <2>1, <2>2, <2>3 DEF WithMap
<1>3. IInv => MapsOnlyBuilt
  BY <1>1, <1>2 DEF MapsOnlyBuilt
<1> QED  BY <1>3, Invariance, PTL

(* The compare_exchange in close() lets one process destroy the store of a *)
(* segment, and it destroys it once (stst_shared.cpp:235-240).             *)
THEOREM DestroyedCorrect == Spec => []DestroyedOnce
<1>1. IInv => DestroyedOnce
  BY DEF IInv, CloseInv, DestroyedOnce
<1> QED  BY <1>1, Invariance, PTL

(* Without reinit and restore, valid users of one path share one segment   *)
(* (stst_shared.cpp:20-113, 176-226, 241-245).                             *)
THEOREM LinkedCorrect == Spec => []SharedWithoutReinit
<1>1. ASSUME IInv, spent["reinit"] = 0, spent["restore"] = 0, NotPastedOver,
             NEW p \in Process, Valid(p), made[p] # "fd"
      PROVE  map[p] = link
  BY <1>1 DEF IInv, LinkInv, Valid
<1>2. IInv => SharedWithoutReinit
  BY <1>1 DEF SharedWithoutReinit, ValidMeansLinked
<1> QED  BY <1>2, Invariance, PTL

(* usage_count covers the users of a segment, so that IF_LAST never tears  *)
(* down what a counted user works on (stst_shared.cpp:169, 234-237).       *)
THEOREM CountCorrect == Spec => []CountCoversUsers
BY Invariance, PTL DEF IInv

(* When all processes closed their stores, the path is free: as long as    *)
(* nobody crashes, the last user of a linked segment counts down to zero   *)
(* and unlinks it, however reinits interleave (stst_shared.cpp:43-60,      *)
(* 169, 229-251).                                                          *)
THEOREM ClosedCorrect == Spec => []AllClosedUnlinks
<1>1. ASSUME IInv, OnlyReinits, \A p \in Process : Cleanup[p] # "NEVER" /\ pc[p] = "none"
      PROVE  link = NoSeg
  <2>1. PathKept
    BY <1>1 DEF IInv, PathInv
  <2>2. \A p \in Process : pc[p] \notin Removing
    BY <1>1 DEF Removing
  <2>3. \A p \in Process : ~Keeps(p, link)
    BY <1>1 DEF Keeps, CountedAt, Building
  <2> QED  BY <1>1, <2>1, <2>2, <2>3 DEF PathKept
<1>2. IInv => AllClosedUnlinks
  BY <1>1 DEF AllClosedUnlinks, OnlyReinits
<1> QED  BY <1>2, Invariance, PTL
=============================================================================
