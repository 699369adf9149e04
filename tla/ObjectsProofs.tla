---------------------------- MODULE ObjectsProofs ----------------------------
(***************************************************************************)
(* For any threads, dispatch objects and objects of each class: the types  *)
(* of all components, the balance of the dispatcher's locks, and the list  *)
(* of threads.                                                             *)
(***************************************************************************)
EXTENDS Objects, FiniteSetTheorems, SequenceTheorems, TLAPS

(* A mutex has an owner as long as it is locked. *)
OwnerCounts == owner = NoThread <=> count = 0

(* A wait that is not over waits for the flags of some object. *)
PendingHasObject == \A t \in Threads : answer[t].status = "pending" => request[t].object \in Objects

(* A smart pointer without a block has no deleter. *)
PointersAreWhole == \A p \in Pointers : pointer[p].block = NoBlock => pointer[p] = Empty

TypeInv == TypeOK /\ OwnerCounts /\ PendingHasObject /\ PointersAreWhole

(* What the steps of one component need and keep. *)
Shared == busy \subseteq Threads /\ program \in {"running", "enumerate", "deleter"}

LEMMA ThreadsAreCounted ==
  ASSUME alive \subseteq Threads
  PROVE  Cardinality(alive) \in Nat
BY KernelAssumption, FS_Subset, FS_CardinalityType

(* The dispatch objects that are locked, with one more and with one less. *)
LEMMA HeldType ==
  ASSUME held \in Seq(Locks)
  PROVE  /\ \A d \in Locks : Append(held, d) \in Seq(Locks)
         /\ held # <<>> => SubSeq(held, 1, Len(held) - 1) \in Seq(Locks)
<1>1. ASSUME NEW d \in Locks PROVE Append(held, d) \in Seq(Locks)
  BY AppendProperties
<1>2. ASSUME held # <<>> PROVE SubSeq(held, 1, Len(held) - 1) \in Seq(Locks)
  <2>1. Len(held) \in Nat /\ Len(held) > 0
    BY <1>2, EmptySeq, LenProperties
  <2>2. \A i \in 1 .. Len(held) - 1 : i \in 1 .. Len(held)
    BY <2>1
  <2> QED BY <2>1, <2>2, SubSeqProperties
<1> QED BY <1>1, <1>2

LEMMA LockType ==
  ASSUME KernelTypeOK, NEW t \in Threads, NEW d \in Locks, PreviousLock >= 0, Lock(t, d)
  PROVE  /\ saved' \in [Locks -> {osError, 0, 1}]
         /\ kernel' = "locked" /\ runner' = t /\ held' \in Seq(Locks)
BY HeldType DEF KernelTypeOK, Lock, PreviousLock, osError

LEMMA UnlockType ==
  ASSUME KernelTypeOK, NEW d \in Locks, Unlock(d)
  PROVE  /\ saved' \in [Locks -> {osError, 0, 1}]
         /\ kernel' \in {"running", "locked"}
         /\ runner' \in Threads \cup {NoThread} /\ held' \in Seq(Locks)
BY HeldType DEF KernelTypeOK, Unlock, RestoreLock

LEMMA KernelTypes ==
  ASSUME KernelTypeOK, NEW dispatches \in SUBSET Dispatches, NEW suspends,
         KernelNext(dispatches, suspends)
  PROVE  KernelTypeOK'
<1>1. CASE Initialize \/ Start
  BY <1>1 DEF KernelTypeOK, Initialize, Start
<1>2. ASSUME NEW t \in Threads, Suspend(t) \/ Resume(t) PROVE KernelTypeOK'
  BY <1>2 DEF KernelTypeOK, Suspend, Resume
<1>3. ASSUME NEW t \in Threads, NEW d \in dispatches, DispatchLock(t, d) PROVE KernelTypeOK'
  <2> d \in Locks
    BY DEF Locks
  <2>1. CASE PreviousLock >= 0 /\ Lock(t, d)
    BY <1>3, <2>1, LockType DEF KernelTypeOK, DispatchLock
  <2>2. CASE PreviousLock = osError /\ saved' = [saved EXCEPT ![d] = osError]
                /\ UNCHANGED <<kernel, runner, held>>
    BY <1>3, <2>2 DEF KernelTypeOK, DispatchLock
  <2> QED BY <1>3, <2>1, <2>2 DEF DispatchLock
<1>4. ASSUME NEW t \in Threads, NEW d \in dispatches, DispatchUnlock(t, d) PROVE KernelTypeOK'
  <2> d \in Locks
    BY DEF Locks
  <2> QED BY <1>4, UnlockType DEF KernelTypeOK, DispatchUnlock
<1> QED BY <1>1, <1>2, <1>3, <1>4 DEF KernelNext

LEMMA ThreadListTypes ==
  ASSUME KernelTypeOK, ThreadListNext
  PROVE  KernelTypeOK'
<1>1. ASSUME NEW t \in Threads, Enumerate(t) PROVE KernelTypeOK'
  <2>0. t \in Locks /\ Cardinality(alive) \in Nat
    BY ThreadsAreCounted DEF KernelTypeOK, Locks
  <2>1. CASE PreviousLock >= 0 /\ Lock(t, t)
    <3>1. [NoListing EXCEPT !.size = Cardinality(alive)]
            \in [size : Nat, threads : SUBSET Threads, read : BOOLEAN]
      BY <2>0 DEF NoListing
    <3>2. listing' = [listing EXCEPT ![t] = [NoListing EXCEPT !.size = Cardinality(alive)]]
            /\ busy' = busy \cup {t} /\ UNCHANGED <<alive, program>>
      BY <1>1, <2>1 DEF Enumerate, PreviousLock, osError
    <3> QED BY <2>0, <2>1, <3>1, <3>2, LockType DEF KernelTypeOK
  <2>2. CASE program' = "enumerate" /\ UNCHANGED <<kernelVars, busy>>
    BY <2>2 DEF KernelTypeOK, kernelVars
  <2> QED BY <1>1, <2>1, <2>2 DEF Enumerate
<1>2. ASSUME NEW t \in Threads, ReadThreads(t) PROVE KernelTypeOK'
  BY <1>2 DEF KernelTypeOK, ReadThreads
<1>3. ASSUME NEW t \in Threads, EnumerateReturns(t) PROVE KernelTypeOK'
  <2> t \in Locks
    BY DEF Locks
  <2> QED BY <1>3, UnlockType DEF KernelTypeOK, EnumerateReturns, NoListing
<1>4. ASSUME NEW t \in Threads, ThreadExit(t) PROVE KernelTypeOK'
  BY <1>4 DEF KernelTypeOK, ThreadExit
<1>5. ASSUME NEW t \in Threads, NEW new \in Threads, ThreadNew(t, new) PROVE KernelTypeOK'
  BY <1>5 DEF KernelTypeOK, ThreadNew
<1> QED BY <1>1, <1>2, <1>3, <1>4, <1>5 DEF ThreadListNext

-----------------------------------------------------------------------------
(* A call of an object leaves the kernel as it is. *)
LEMMA KernelKept ==
  ASSUME KernelTypeOK, UNCHANGED kernelVars, Shared'
  PROVE  KernelTypeOK'
BY DEF KernelTypeOK, kernelVars, Shared

LEMMA MutexTypes ==
  ASSUME Shared, MutexTypeOK, OwnerCounts, MutexNext
  PROVE  Shared' /\ MutexTypeOK' /\ OwnerCounts'
<1> USE DEF Shared, MutexTypeOK, OwnerCounts
<1>0. MaxCount \in Nat \ {0} /\ NoThread \notin Threads
  BY MutexAssumption, KernelAssumption
<1>1. ASSUME NEW t \in Threads, MutexLock(t) \/ TryLock(t) \/ TryLockFor(t)
      PROVE  Shared' /\ MutexTypeOK' /\ OwnerCounts'
  <2>1. PICK op \in {"lock", "try_lock", "try_lock_for"}, ticks \in Ticks : AskMutex(t, op, ticks)
    BY <1>1 DEF MutexLock, TryLock, TryLockFor, Ticks, Negative
  <2>2. /\ owner' \in Threads \cup {NoThread} /\ count' \in 0 .. MaxCount /\ OwnerCounts'
        /\ status' \in [Threads -> {"none", "pending", "osOK", "osErrorTimeout", "osErrorResource",
                               "osErrorParameter"}]
    BY <1>0, <2>1 DEF AskMutex, MutexAcquire
  <2> QED BY <2>1, <2>2 DEF AskMutex
<1>2. ASSUME NEW t \in Threads, MutexTimeout(t)
      PROVE  Shared' /\ MutexTypeOK' /\ OwnerCounts'
  BY <1>2 DEF MutexTimeout
<1>3. ASSUME NEW t \in Threads, MutexReturns(t)
      PROVE  Shared' /\ MutexTypeOK' /\ OwnerCounts'
  BY <1>3 DEF MutexReturns, NotAsked, Ticks, Negative
<1>4. ASSUME NEW t \in Threads, MutexUnlock(t)
      PROVE  Shared' /\ MutexTypeOK' /\ OwnerCounts'
  BY <1>0, <1>4 DEF MutexUnlock, MutexRelease, Waiting
<1>5. ASSUME NEW t \in Threads, MutexNew(t) \/ MutexDestroy(t)
      PROVE  Shared' /\ MutexTypeOK' /\ OwnerCounts'
  BY <1>5 DEF MutexNew, MutexDestroy
<1> QED BY <1>1, <1>2, <1>3, <1>4, <1>5 DEF MutexNext

LEMMA SemaphoreTypes ==
  ASSUME Shared, SemaphoreTypeOK, SemaphoreNext
  PROVE  Shared' /\ SemaphoreTypeOK'
<1> USE DEF Shared, SemaphoreTypeOK
<1>0. MaxTokens \in Nat \ {0} /\ Counts \subseteq Int
  BY SemaphoreAssumption
<1>1. ASSUME NEW t \in Threads, SemaphoreNew(t) \/ SemaphoreDestroy(t)
      PROVE  Shared' /\ SemaphoreTypeOK'
  <2>1. CASE SemaphoreNew(t)
    BY <1>0, <2>1 DEF SemaphoreNew
  <2>2. CASE SemaphoreDestroy(t)
    <3>1. /\ semaphore' = FALSE /\ tokens' = 0 /\ balance' = 0
          /\ UNCHANGED <<update, taking, taken, overbooked, failed, busy, program>>
      BY <2>2 DEF SemaphoreDestroy
    <3>2. tokens' \in 0 .. MaxTokens /\ balance' \in Int
      BY <1>0, <3>1
    <3>3. semaphore' \in BOOLEAN
      BY <3>1
    <3> QED BY <3>1, <3>2, <3>3
  <2> QED BY <1>1, <2>1, <2>2
<1>2. ASSUME NEW t \in Threads, NEW n \in Counts, Release(t, n)
      PROVE  Shared' /\ SemaphoreTypeOK'
  BY <1>0, <1>2 DEF Release
<1>3. ASSUME NEW t \in Threads, ReleaseOne(t)
      PROVE  Shared' /\ SemaphoreTypeOK'
  <2>1. update' \in [Threads -> Int] /\ busy' \subseteq Threads
    BY <1>3 DEF ReleaseOne, NextTurn, CountDown
  <2>2. tokens' \in 0 .. MaxTokens /\ balance' \in Int
    BY <1>0, <1>3 DEF ReleaseOne
  <2>3. taken' \in [Threads -> {"none", "pending", "osOK", "osErrorTimeout", "osErrorResource",
                               "osErrorParameter"}]
    BY <1>3 DEF ReleaseOne, TokenWaiters
  <2>4. failed' \in BOOLEAN
    BY <1>3 DEF ReleaseOne
  <2> QED BY <1>3, <2>1, <2>2, <2>3, <2>4 DEF ReleaseOne
<1>4. ASSUME NEW t \in Threads, Acquire(t) \/ TryAcquire(t) \/ TryAcquireFor(t)
      PROVE  Shared' /\ SemaphoreTypeOK'
  <2>1. PICK op \in {"acquire", "try_acquire", "try_acquire_for"}, ticks \in Ticks :
          TakeToken(t, op, ticks)
    BY <1>4 DEF Acquire, TryAcquire, TryAcquireFor, Ticks, Negative
  <2> QED BY <1>0, <2>1 DEF TakeToken, SemaphoreAcquire
<1>5. ASSUME NEW t \in Threads, SemaphoreTimeout(t) \/ AcquireReturns(t)
      PROVE  Shared' /\ SemaphoreTypeOK'
  BY <1>5 DEF SemaphoreTimeout, AcquireReturns, NotTaking, Ticks, Negative
<1> QED BY <1>1, <1>2, <1>3, <1>4, <1>5 DEF SemaphoreNext

-----------------------------------------------------------------------------
LEMMA WaitFlagsTypes ==
  ASSUME Shared, FlagsTypeOK, PendingHasObject, NEW t \in Threads, NEW o \in Ids \cup Threads,
         NEW w \in Requests, NEW ticks \in Ticks, WaitFlags(t, o, w, ticks)
  PROVE  Shared' /\ FlagsTypeOK' /\ PendingHasObject'
<1> DEFINE r == [object |-> o, mask |-> w.mask, flg |-> w.flg, ticks |-> ticks]
<1>1. r \in [object : Objects \cup {NoId}, mask : SUBSET Bits, flg : WaitFlag, ticks : Ticks]
  BY FlagsAssumption DEF Objects
<1>2. request' \in [Threads -> [object : Objects \cup {NoId}, mask : SUBSET Bits,
                                flg : WaitFlag, ticks : Ticks]]
  BY <1>1 DEF FlagsTypeOK, WaitFlags
<1>3. /\ answer' \in [Threads -> [status : {"none", "pending", "flags", "osFlagsErrorResource",
                                           "osFlagsErrorTimeout", "osErrorParameter"}, flags : SUBSET Bits]]
      /\ flags' \in [Objects -> SUBSET Bits]
  <2>1. CASE Deliver(t, o, r)
    BY <2>1 DEF FlagsTypeOK, Deliver, Objects, Left
  <2>2. CASE UNCHANGED flags /\ answer' = [answer EXCEPT ![t].status =
                          IF ticks = Negative THEN "osErrorParameter"
                          ELSE IF ticks = 0 THEN "osFlagsErrorResource"
                          ELSE IF CanBlock THEN "pending" ELSE "osFlagsErrorTimeout"]
    BY <2>2 DEF FlagsTypeOK
  <2> QED BY <2>1, <2>2 DEF WaitFlags
<1>4. request' = [request EXCEPT ![t] = r] /\ UNCHANGED <<id, made, leaked, program>>
        /\ busy' = busy \cup {t}
  BY DEF WaitFlags
<1>5. PendingHasObject'
  <2>1. \A u \in Threads : u # t => request'[u] = request[u] /\ answer'[u] = answer[u]
    BY <1>4 DEF FlagsTypeOK, WaitFlags, Deliver
  <2>2. request'[t].object \in Objects
    BY <1>4 DEF FlagsTypeOK, Objects
  <2> QED BY <2>1, <2>2 DEF PendingHasObject
<1> QED BY <1>2, <1>3, <1>4, <1>5 DEF Shared, FlagsTypeOK

LEMMA FlagsGoOnTypes ==
  ASSUME Shared, FlagsTypeOK, PendingHasObject, NEW t \in Threads, FlagsGoOn(t)
  PROVE  Shared' /\ FlagsTypeOK' /\ PendingHasObject'
<1>1. CASE Wake(t)
  <2>1. request[t].object \in Objects
    BY <1>1 DEF Wake, Pending, PendingHasObject
  <2>0. /\ Deliver(t, request[t].object, request[t])
        /\ UNCHANGED <<id, made, request, leaked, busy, program>>
    BY <1>1 DEF Wake
  <2> DEFINE o == request[t].object
  <2>2. /\ answer' = [answer EXCEPT ![t] = [status |-> "flags", flags |-> flags[o]]]
        /\ flags' = [flags EXCEPT ![o] = Left(@, request[t].mask, Option(request[t].flg))]
        /\ UNCHANGED <<id, made, request, leaked, busy, program>>
    BY <2>0 DEF Deliver
  <2>3. answer' \in [Threads -> [status : {"none", "pending", "flags", "osFlagsErrorResource",
                                          "osFlagsErrorTimeout", "osErrorParameter"}, flags : SUBSET Bits]]
    BY <2>1, <2>2 DEF FlagsTypeOK
  <2>4. flags' \in [Objects -> SUBSET Bits]
    BY <2>1, <2>2 DEF FlagsTypeOK, Left
  <2>5. PendingHasObject'
    BY <2>2 DEF PendingHasObject, FlagsTypeOK
  <2> QED BY <2>2, <2>3, <2>4, <2>5 DEF Shared, FlagsTypeOK
<1>2. CASE WaitTimeout(t)
  BY <1>2 DEF Shared, FlagsTypeOK, PendingHasObject, WaitTimeout
<1>3. CASE WaitReturns(t)
  BY <1>3 DEF Shared, FlagsTypeOK, PendingHasObject, WaitReturns, NoRequest, NoAnswer, WaitFlag, Ticks,
            Negative
<1> QED BY <1>1, <1>2, <1>3 DEF FlagsGoOn

LEMMA SetAndClearTypes ==
  ASSUME Shared, FlagsTypeOK, PendingHasObject, NEW t \in Threads, NEW o \in Ids \cup Threads,
         NEW mask \in SUBSET Bits, SetFlags(t, o, mask) \/ ClearFlags(t, o, mask)
  PROVE  Shared' /\ FlagsTypeOK' /\ PendingHasObject'
BY DEF Shared, FlagsTypeOK, PendingHasObject, SetFlags, ClearFlags, Objects

LEMMA EventTypes ==
  ASSUME Shared, FlagsTypeOK, PendingHasObject, NEW t \in Threads, NEW e \in Events, NEW from \in Events,
         NEW mask \in SUBSET Bits,
         \/ EventNew(t, e, mask) \/ EventNewThrows(t, e) \/ EventMove(t, e, from)
         \/ EventSwap(t, e, from) \/ EventDestroy(t, e)
  PROVE  Shared' /\ FlagsTypeOK' /\ PendingHasObject'
<1>1. CASE EventNew(t, e, mask)
  BY <1>1 DEF Shared, FlagsTypeOK, PendingHasObject, EventNew, Objects
<1>2. CASE EventNewThrows(t, e)
  BY <1>2 DEF Shared, FlagsTypeOK, PendingHasObject, EventNewThrows
<1>3. CASE EventMove(t, e, from) \/ EventSwap(t, e, from)
  BY <1>3 DEF Shared, FlagsTypeOK, PendingHasObject, EventMove, EventSwap
<1>4. CASE EventDestroy(t, e)
  BY <1>4 DEF Shared, FlagsTypeOK, PendingHasObject, EventDestroy
<1> QED BY <1>1, <1>2, <1>3, <1>4

LEMMA FlagsTypes ==
  ASSUME Shared, FlagsTypeOK, PendingHasObject, EventsNext \/ ThreadFlagsNext
  PROVE  Shared' /\ FlagsTypeOK' /\ PendingHasObject'
<1>1. ASSUME NEW t \in Threads, FlagsGoOn(t)
      PROVE  Shared' /\ FlagsTypeOK' /\ PendingHasObject'
  BY <1>1, FlagsGoOnTypes
<1>2. ASSUME NEW t \in Threads, NEW e \in Events, NEW from \in Events, NEW mask \in SUBSET Bits,
             \/ EventNew(t, e, mask) \/ EventNewThrows(t, e) \/ EventMove(t, e, from)
             \/ EventSwap(t, e, from) \/ EventDestroy(t, e)
      PROVE  Shared' /\ FlagsTypeOK' /\ PendingHasObject'
  BY <1>2, EventTypes
<1>3. ASSUME NEW t \in Threads, NEW o \in Ids \cup Threads, NEW mask \in SUBSET Bits,
             SetFlags(t, o, mask) \/ ClearFlags(t, o, mask)
      PROVE  Shared' /\ FlagsTypeOK' /\ PendingHasObject'
  BY <1>3, SetAndClearTypes
<1>4. ASSUME NEW t \in Threads, NEW o \in Ids \cup Threads, NEW w \in Requests,
             NEW ticks \in Ticks, WaitFlags(t, o, w, ticks)
      PROVE  Shared' /\ FlagsTypeOK' /\ PendingHasObject'
  BY <1>4, WaitFlagsTypes
<1>5. CASE EventsNext
  <2>1. PICK t \in Threads :
          \/ FlagsGoOn(t)
          \/ \E e \in Events :
               \/ \E mask \in SUBSET Bits : EventNew(t, e, mask)
               \/ EventNewThrows(t, e)
               \/ \E from \in Events : EventMove(t, e, from) \/ EventSwap(t, e, from)
               \/ EventDestroy(t, e)
               \/ \E mask \in Masks : EventSet(t, e, mask) \/ EventClear(t, e, mask)
               \/ \E w \in Requests : EventWait(t, e, w) \/ EventWaitFor(t, e, w)
    BY <1>5 DEF EventsNext
  <2>2. ASSUME NEW e \in Events, NEW mask \in Masks, EventSet(t, e, mask) \/ EventClear(t, e, mask)
        PROVE  Shared' /\ FlagsTypeOK' /\ PendingHasObject'
    BY <1>3, <2>2 DEF EventSet, EventClear, Masks
  <2>3. ASSUME NEW e \in Events, NEW w \in Requests, EventWait(t, e, w) \/ EventWaitFor(t, e, w)
        PROVE  Shared' /\ FlagsTypeOK' /\ PendingHasObject'
    BY <1>4, <2>3 DEF EventWait, EventWaitFor, Ticks, Negative
  <2> QED BY <1>1, <1>2, <2>1, <2>2, <2>3
<1>6. CASE ThreadFlagsNext
  BY <1>1, <1>3, <1>4, <1>6
     DEF ThreadFlagsNext, ThreadFlagsSet, ThreadFlagsClear, ThreadFlagsWait, ThreadFlagsWaitFor, Masks,
         Ticks, Negative
<1> QED BY <1>5, <1>6

-----------------------------------------------------------------------------
(* What the pools' functions have for values. *)
MakingType == making \in [Threads -> [pool : Pools \cup {NoPool}, block : Blocks \cup {NoBlock},
                                     waits : BOOLEAN]]

LEMMA DeleteTypes ==
  ASSUME used \subseteq Blocks, NEW o, NEW b \in Blocks,
         NEW m \in [Threads -> [pool : Pools \cup {NoPool}, block : Blocks \cup {NoBlock},
                               waits : BOOLEAN]],
         MakingType, program \in {"running", "enumerate", "deleter"},
         Delete(o, b, m)
  PROVE  /\ used' \subseteq Blocks /\ MakingType'
         /\ program' \in {"running", "enumerate", "deleter"}
<1>1. CASE Free(b, m) /\ UNCHANGED program
  <2>1. \/ \E t \in Threads : making' = [m EXCEPT ![t].block = b, ![t].waits = FALSE] /\ UNCHANGED used
        \/ used' = used \ {b} /\ making' = m
    BY <1>1 DEF Free
  <2>2. ASSUME NEW t \in Threads, making' = [m EXCEPT ![t].block = b, ![t].waits = FALSE]
        PROVE  MakingType'
    BY <2>2 DEF MakingType
  <2> QED BY <1>1, <2>1, <2>2 DEF MakingType
<1>2. CASE program' = "deleter" /\ UNCHANGED making /\ UNCHANGED used
  BY <1>2 DEF MakingType
<1> QED BY <1>1, <1>2 DEF Delete

LEMMA PoolTypes ==
  ASSUME Shared, PoolTypeOK, PointersAreWhole, PoolNext
  PROVE  Shared' /\ PoolTypeOK' /\ PointersAreWhole'
<1>1. ASSUME NEW t \in Threads, NEW o \in Pools, NEW from \in Pools,
             \/ PoolNew(t, o) \/ PoolDestroy(t, o) \/ PoolMove(t, o, from) \/ PoolAssign(t, o, from)
      PROVE  Shared' /\ PoolTypeOK' /\ PointersAreWhole'
  <2>1. poolId' \in [Pools -> PoolIds \cup {Moved, NoPool}] /\ existing' \subseteq PoolIds
    BY <1>1 DEF PoolTypeOK, PoolNew, PoolDestroy, PoolMove, PoolAssign
  <2>2. disturbed' \in BOOLEAN /\ UNCHANGED <<used, making, pointer, busy, program>>
    BY <1>1 DEF PoolTypeOK, PoolNew, PoolDestroy, PoolMove, PoolAssign
  <2> QED BY <2>1, <2>2 DEF Shared, PoolTypeOK, PointersAreWhole
<1>2. ASSUME NEW t \in Threads, NEW o \in Pools, Make(t, o) PROVE Shared' /\ PoolTypeOK' /\ PointersAreWhole'
  <2>1. FreeBlocks(poolId[o]) \subseteq {poolId[o]} \X Slots
    BY DEF FreeBlocks
  <2>2. poolId[o] \in PoolIds => {poolId[o]} \X Slots \subseteq Blocks
    BY DEF Blocks
  <2>3. used' \subseteq Blocks /\ MakingType'
    <3>1. CASE \E b \in FreeBlocks(poolId[o]) :
                 /\ poolId[o] \in PoolIds
                 /\ used' = used \cup {b}
                 /\ making' = [making EXCEPT ![t] = [pool |-> o, block |-> b, waits |-> FALSE]]
      BY <2>1, <2>2, <3>1 DEF MakingType, PoolTypeOK
    <3>2. CASE /\ making' = [making EXCEPT ![t] = [pool |-> o, block |-> NoBlock, waits |-> TRUE]]
               /\ UNCHANGED used
      BY <3>2 DEF MakingType, PoolTypeOK
    <3> QED BY <1>2, <3>1, <3>2 DEF Make
  <2> QED BY <1>2, <2>3 DEF Make, Shared, PoolTypeOK, MakingType, PointersAreWhole
<1>3. ASSUME NEW t \in Threads, NEW p \in Pointers, Made(t, p) PROVE Shared' /\ PoolTypeOK' /\ PointersAreWhole'
  BY <1>3 DEF Shared, PoolTypeOK, PointersAreWhole, Made, Builds, NotMaking, Empty
<1>4. ASSUME NEW t \in Threads, MakeThrows(t) PROVE Shared' /\ PoolTypeOK' /\ PointersAreWhole'
  <2>1. [making EXCEPT ![t] = NotMaking]
          \in [Threads -> [pool : Pools \cup {NoPool}, block : Blocks \cup {NoBlock},
                          waits : BOOLEAN]]
    BY DEF PoolTypeOK, NotMaking
  <2>2. making[t].block \in Blocks
    BY <1>4 DEF MakeThrows, Builds, PoolTypeOK
  <2>3. /\ used' \subseteq Blocks /\ MakingType'
        /\ program' \in {"running", "enumerate", "deleter"}
    BY <1>4, <2>1, <2>2, DeleteTypes DEF MakeThrows, PoolTypeOK, MakingType, Shared
  <2> QED BY <1>4, <2>3 DEF MakeThrows, Shared, PoolTypeOK, MakingType, PointersAreWhole
<1>5. ASSUME NEW t \in Threads, NEW p \in Pointers, Reset(t, p)
      PROVE Shared' /\ PoolTypeOK' /\ PointersAreWhole'
  <2>0. pointer[p].block \in Blocks
    BY <1>5 DEF Reset, PoolTypeOK, PointersAreWhole
  <2>1. /\ used' \subseteq Blocks /\ MakingType'
        /\ program' \in {"running", "enumerate", "deleter"}
    BY <1>5, <2>0, DeleteTypes DEF Reset, PoolTypeOK, MakingType, Shared
  <2>2. pointer' \in [Pointers -> [block : Blocks \cup {NoBlock}, pool : Pools \cup {NoPool}]]
    BY <1>5 DEF Reset, PoolTypeOK, Empty
  <2>3. PointersAreWhole'
    BY <1>5 DEF Reset, PointersAreWhole, PoolTypeOK, Empty
  <2> QED BY <1>5, <2>1, <2>2, <2>3 DEF Reset, Shared, PoolTypeOK, MakingType
<1> QED BY <1>1, <1>2, <1>3, <1>4, <1>5 DEF PoolNext

-----------------------------------------------------------------------------
LEMMA TypeInit == Init => TypeInv
<1> SUFFICES ASSUME Init PROVE TypeInv
  OBVIOUS
<1>1. PICK threads \in SUBSET Threads : KernelInit(threads)
  BY PlansAssumption DEF Init
<1>2. KernelTypeOK
  <2>1. held \in Seq(Locks)
    BY <1>1, EmptySeq DEF KernelInit
  <2> QED BY <1>1, <2>1 DEF KernelInit, KernelTypeOK, NoListing
<1>3. MutexTypeOK /\ OwnerCounts
  BY MutexAssumption, KernelAssumption
     DEF Init, MutexInit, MutexTypeOK, OwnerCounts, NotAsked, Classes, Ticks, Negative
<1>4. SemaphoreTypeOK
  <2>1. tokens \in 0 .. MaxTokens
    BY SemaphoreAssumption DEF Init, SemaphoreInit
  <2>2. semaphore \in BOOLEAN /\ overbooked \in BOOLEAN /\ failed \in BOOLEAN
    BY DEF Init, SemaphoreInit
  <2>3. update \in [Threads -> Int] /\ balance \in Int
    BY DEF Init, SemaphoreInit
  <2>4. /\ taken \in [Threads -> {"none", "pending", "osOK", "osErrorTimeout", "osErrorResource",
                               "osErrorParameter"}]
        /\ taking \in [Threads -> [op : {"none", "acquire", "try_acquire", "try_acquire_for"},
                                   ticks : Ticks]]
    BY DEF Init, SemaphoreInit, NotTaking, Ticks, Negative
  <2> QED BY <2>1, <2>2, <2>3, <2>4 DEF SemaphoreTypeOK
<1>5. FlagsTypeOK /\ PendingHasObject
  <2>1. /\ NoRequest \in [object : Objects \cup {NoId}, mask : SUBSET Bits,
                         flg : WaitFlag, ticks : Ticks]
        /\ NoAnswer \in [status : {"none", "pending", "flags", "osFlagsErrorResource",
                                   "osFlagsErrorTimeout", "osErrorParameter"}, flags : SUBSET Bits]
    BY DEF NoRequest, NoAnswer, WaitFlag, Ticks, Negative
  <2>2. FlagsTypeOK
    BY <2>1 DEF Init, FlagsInit, FlagsTypeOK
  <2> QED BY <2>2 DEF Init, FlagsInit, PendingHasObject, NoAnswer
<1>6. PoolTypeOK /\ PointersAreWhole
  BY DEF Init, PoolInit, PoolTypeOK, PointersAreWhole, NotMaking, Empty
<1> QED BY <1>2, <1>3, <1>4, <1>5, <1>6 DEF Init, TypeInv, TypeOK

(* What each component keeps of TypeInv when a step leaves it alone. *)
LEMMA TypeKept ==
  /\ MutexTypeOK /\ OwnerCounts /\ UNCHANGED mutexVars => MutexTypeOK' /\ OwnerCounts'
  /\ SemaphoreTypeOK /\ UNCHANGED semaphoreVars => SemaphoreTypeOK'
  /\ FlagsTypeOK /\ PendingHasObject /\ UNCHANGED flagsVars => FlagsTypeOK' /\ PendingHasObject'
  /\ PoolTypeOK /\ PointersAreWhole /\ UNCHANGED poolVars => PoolTypeOK' /\ PointersAreWhole'
<1>1. MutexTypeOK /\ OwnerCounts /\ UNCHANGED mutexVars => MutexTypeOK' /\ OwnerCounts'
  BY DEF MutexTypeOK, OwnerCounts, mutexVars
<1>2. SemaphoreTypeOK /\ UNCHANGED semaphoreVars => SemaphoreTypeOK'
  BY DEF SemaphoreTypeOK, semaphoreVars
<1>3. FlagsTypeOK /\ PendingHasObject /\ UNCHANGED flagsVars => FlagsTypeOK' /\ PendingHasObject'
  BY DEF FlagsTypeOK, PendingHasObject, flagsVars
<1>4. PoolTypeOK /\ PointersAreWhole /\ UNCHANGED poolVars => PoolTypeOK' /\ PointersAreWhole'
  BY DEF PoolTypeOK, PointersAreWhole, poolVars
<1> QED BY <1>1, <1>2, <1>3, <1>4

LEMMA TypeNext == TypeInv /\ [Next]_vars => TypeInv'
<1> SUFFICES ASSUME TypeInv, [Next]_vars PROVE TypeInv'
  OBVIOUS
<1>0. /\ plan \in Plans /\ KernelTypeOK /\ MutexTypeOK /\ OwnerCounts /\ SemaphoreTypeOK
      /\ FlagsTypeOK /\ PendingHasObject /\ PoolTypeOK /\ PointersAreWhole
  BY DEF TypeInv, TypeOK
<1>s. Shared
  BY <1>0 DEF KernelTypeOK, Shared
<1>p. UNCHANGED plan
  BY DEF Next, KernelStep, ListStep, MutexStep, SemaphoreStep, FlagsStep, PoolStep, vars
<1>1. CASE KernelStep
  <2>1. plan.locks \in SUBSET Dispatches
    BY <1>0, PlansAssumption
  <2>2. KernelTypeOK'
    BY <1>0, <1>1, <2>1, KernelTypes DEF KernelStep
  <2> QED BY <1>0, <1>p, <1>1, <2>2, TypeKept DEF KernelStep, TypeInv, TypeOK
<1>2. CASE ListStep
  BY <1>0, <1>p, <1>2, ThreadListTypes, TypeKept DEF ListStep, TypeInv, TypeOK
<1>3. CASE MutexStep
  BY <1>0, <1>s, <1>p, <1>3, MutexTypes, KernelKept, TypeKept DEF MutexStep, TypeInv, TypeOK
<1>4. CASE SemaphoreStep
  BY <1>0, <1>s, <1>p, <1>4, SemaphoreTypes, KernelKept, TypeKept DEF SemaphoreStep, TypeInv, TypeOK
<1>5. CASE FlagsStep
  BY <1>0, <1>s, <1>p, <1>5, FlagsTypes, KernelKept, TypeKept DEF FlagsStep, TypeInv, TypeOK
<1>6. CASE PoolStep
  BY <1>0, <1>s, <1>p, <1>6, PoolTypes, KernelKept, TypeKept DEF PoolStep, TypeInv, TypeOK
<1>7. CASE UNCHANGED vars
  BY <1>0, <1>s, <1>p, <1>7, KernelKept, TypeKept DEF vars, Shared, TypeInv, TypeOK
<1> QED BY <1>1, <1>2, <1>3, <1>4, <1>5, <1>6, <1>7 DEF Next

(* Every component of every program keeps its types; a mutex has an owner  *)
(* as long as it is locked, and a smart pointer is whole or empty.         *)
THEOREM SpecTypeInv == Spec => []TypeInv
BY TypeInit, TypeNext, PTL DEF Spec

THEOREM SpecTypeOK == Spec => []TypeOK
BY SpecTypeInv, PTL DEF TypeInv

-----------------------------------------------------------------------------
(* The locks nest: the outermost has saved that the kernel ran, the others *)
(* that it was locked, and none is locked twice.                           *)
LocksNest ==
  /\ LockIsBalanced
  /\ \A i, j \in 1 .. Len(held) : held[i] = held[j] => i = j
  /\ \A i \in 1 .. Len(held) : saved[held[i]] = IF i = 1 THEN 0 ELSE 1

(* The locks on stacks are those of the threads that are in enumerate; the *)
(* kernel is theirs, and their vectors have room for all threads.          *)
ListingsAreLocked ==
  /\ \A t \in Threads : t \in Held <=> plan.part = "list" /\ t \in busy
  /\ \A t \in Threads : t \in Held => runner = t
  /\ \A t \in Threads :
       listing[t] # NoListing => t \in Held /\ listing[t].size = Cardinality(alive)
  /\ ListIsASnapshot

KernelInv == LocksNest /\ ListingsAreLocked

LEMMA LockKeeps ==
  ASSUME KernelTypeOK, LocksNest, NEW t \in Threads, NEW d \in Locks, d \notin Held,
         PreviousLock >= 0, Lock(t, d)
  PROVE  LocksNest' /\ Held' = Held \cup {d}
<1> DEFINE n == Len(held)
<1>1. n \in Nat /\ held \in Seq(Locks)
  BY LenProperties DEF KernelTypeOK
<1>2. /\ Len(held') = n + 1
      /\ \A i \in 1 .. n : held'[i] = held[i] /\ held[i] # d
      /\ held'[n + 1] = d
  BY <1>1, AppendProperties DEF Lock, Held
<1>3. held' # <<>> /\ kernel' = "locked"
  BY <1>1, <1>2 DEF Lock
<1>4. saved'[d] = IF n = 0 THEN 0 ELSE 1
  <2>1. n = 0 <=> held = <<>>
    BY <1>1, EmptySeq
  <2>2. saved'[d] = PreviousLock
    BY DEF Lock, KernelTypeOK
  <2>3. kernel \in {"running", "locked"}
    BY DEF PreviousLock, osError
  <2> QED BY <2>1, <2>2, <2>3 DEF LocksNest, LockIsBalanced, PreviousLock
<1>5. \A e \in Locks : e # d => saved'[e] = saved[e]
  BY DEF Lock, KernelTypeOK
<1>6. \A i \in 1 .. n : held[i] \in Locks
  BY <1>1, ElementOfSeq
<1> HIDE DEF n
<1>7. \A i, j \in 1 .. n + 1 : held'[i] = held'[j] => i = j
  BY <1>1, <1>2 DEF LocksNest, n
<1>8. \A i \in 1 .. n + 1 : saved'[held'[i]] = IF i = 1 THEN 0 ELSE 1
  <2> TAKE i \in 1 .. n + 1
  <2>1. CASE i = n + 1
    BY <1>1, <1>2, <1>4, <2>1
  <2>2. CASE i \in 1 .. n
    BY <1>1, <1>2, <1>5, <1>6, <2>2 DEF LocksNest, n
  <2> QED BY <1>1, <2>1, <2>2
<1>9. Held' = Held \cup {d}
  <2>1. \A i \in 1 .. n + 1 : i = n + 1 \/ i \in 1 .. n
    BY <1>1
  <2>2. n + 1 \in 1 .. n + 1 /\ \A i \in 1 .. n : i \in 1 .. n + 1
    BY <1>1
  <2> QED BY <1>2, <2>1, <2>2 DEF Held, n
<1> QED BY <1>2, <1>3, <1>7, <1>8, <1>9 DEF LocksNest, LockIsBalanced, n

LEMMA UnlockKeeps ==
  ASSUME KernelTypeOK, LocksNest, NEW d \in Locks, Unlock(d)
  PROVE  /\ LocksNest' /\ Held' = Held \ {d} /\ d \in Held
         /\ runner' = IF held' = <<>> THEN NoThread ELSE runner
<1> DEFINE n == Len(held)
<1>1. n \in Nat /\ n > 0 /\ held \in Seq(Locks) /\ held[n] = d
  BY LenProperties, EmptySeq DEF KernelTypeOK, Unlock
<1>2. held' \in Seq(Locks) /\ Len(held') = n - 1 /\ \A i \in 1 .. n - 1 : held'[i] = held[i]
  <2>1. \A i \in 1 .. n - 1 : i \in 1 .. n
    BY <1>1
  <2>2. held' = SubSeq(held, 1, n - 1)
    BY DEF Unlock
  <2>3. /\ Len(SubSeq(held, 1, n - 1)) = n - 1
        /\ \A i \in 1 .. n - 1 : SubSeq(held, 1, n - 1)[i] = held[i]
    <3>1. \A i \in 1 .. n - 1 : held[i] \in Locks
      BY <1>1, <2>1, ElementOfSeq
    <3>2. /\ Len(SubSeq(held, 1, n - 1)) = IF 1 <= n - 1 THEN n - 1 - 1 + 1 ELSE 0
          /\ \A i \in 1 .. n - 1 - 1 + 1 : SubSeq(held, 1, n - 1)[i] = held[1 + i - 1]
      BY <1>1, <3>1, SubSeqProperties
    <3>3. n - 1 - 1 + 1 = n - 1 /\ \A i \in 1 .. n - 1 : 1 + i - 1 = i
      BY <1>1
    <3> QED BY <1>1, <3>2, <3>3
  <2>4. SubSeq(held, 1, n - 1) \in Seq(Locks)
    BY <1>1, HeldType, EmptySeq
  <2> QED BY <2>2, <2>3, <2>4
<1>n. n \in 1 .. n /\ \A i \in 1 .. n - 1 : i \in 1 .. n /\ i # n
  BY <1>1
<1>3. saved' = saved /\ saved[d] = IF n = 1 THEN 0 ELSE 1
  <2>1. saved[held[n]] = IF n = 1 THEN 0 ELSE 1
    BY <1>n DEF LocksNest
  <2> QED BY <1>1, <2>1 DEF Unlock
<1>4. held' = <<>> <=> n = 1
  BY <1>1, <1>2, EmptySeq
<1>5. kernel' = (IF n = 1 THEN "running" ELSE "locked")
      /\ runner' = (IF n = 1 THEN NoThread ELSE runner)
  BY <1>1, <1>3 DEF Unlock, RestoreLock
<1>6. \A i \in 1 .. n - 1 : i \in 1 .. n /\ held[i] # d
  BY <1>1, <1>n DEF LocksNest
<1> Held = {held[i] : i \in 1 .. n} /\ Held' = {held'[i] : i \in 1 .. n - 1}
  BY <1>2 DEF Held
<1> HIDE DEF n
<1>7. Held' = Held \ {d} /\ d \in Held
  <2>1. \A i \in 1 .. n : i = n \/ i \in 1 .. n - 1
    BY <1>1
  <2> QED BY <1>1, <1>2, <1>6, <1>n, <2>1
<1>8. /\ \A i, j \in 1 .. n - 1 : held'[i] = held'[j] => i = j
      /\ \A i \in 1 .. n - 1 : saved'[held'[i]] = IF i = 1 THEN 0 ELSE 1
  BY <1>2, <1>3, <1>6 DEF LocksNest, n
<1> QED BY <1>2, <1>4, <1>5, <1>7, <1>8 DEF LocksNest, LockIsBalanced

LEMMA NothingIn == held' = <<>> => Held' = {}
<1> SUFFICES ASSUME held' = <<>> PROVE Held' = {}
  OBVIOUS
<1>1. Len(held') = 0
  OBVIOUS
<1>2. 1 .. 0 = {}
  OBVIOUS
<1> QED BY <1>1, <1>2 DEF Held

LEMMA NothingHeld ==
  ASSUME KernelTypeOK
  PROVE  held = <<>> <=> Held = {}
<1>1. Len(held) \in Nat /\ (held = <<>> <=> Len(held) = 0)
  BY LenProperties, EmptySeq DEF KernelTypeOK
<1>2. Len(held) = 0 <=> 1 .. Len(held) = {}
  BY <1>1
<1> QED BY <1>1, <1>2 DEF Held

LEMMA KernelStepKeeps ==
  ASSUME KernelTypeOK, KernelInv, UNCHANGED plan, NEW dispatches \in SUBSET Dispatches, NEW suspends,
         KernelNext(dispatches, suspends)
  PROVE  KernelInv'
<1> USE DEF KernelInv
<1>1. CASE Initialize \/ Start \/ \E t \in Threads : Suspend(t) \/ Resume(t)
  <2>1. held = <<>> /\ kernel' # "locked" /\ UNCHANGED <<saved, held, alive, listing, busy>>
    BY <1>1 DEF LocksNest, LockIsBalanced, Initialize, Start, Suspend, Resume
  <2>2. LocksNest'
    BY <2>1, NothingHeld DEF LocksNest, LockIsBalanced
  <2>3. Held = {} /\ Held' = {}
    BY <2>1, NothingHeld DEF Held
  <2> QED BY <2>1, <2>2, <2>3 DEF ListingsAreLocked, ListIsASnapshot
<1>2. ASSUME NEW t \in Threads, NEW d \in dispatches, DispatchLock(t, d) PROVE KernelInv'
  <2>0. d \in Locks /\ d \notin Threads
    BY KernelAssumption DEF Locks
  <2>1. CASE PreviousLock >= 0 /\ Lock(t, d)
    <3>1. LocksNest' /\ Held' = Held \cup {d}
      BY <1>2, <2>0, <2>1, LockKeeps DEF DispatchLock
    <3>2. kernel \in {"running", "locked"} /\ runner' = t /\ UNCHANGED <<alive, listing, busy>>
      BY <1>2, <2>1 DEF DispatchLock, Lock, PreviousLock, osError
    <3>3. \A u \in Threads : u \in Held => runner' = runner
      BY <1>2, <3>2, NothingHeld DEF DispatchLock, Ready, Runs, LocksNest, LockIsBalanced
    <3> QED BY <2>0, <3>1, <3>2, <3>3 DEF ListingsAreLocked, ListIsASnapshot
  <2>2. CASE PreviousLock = osError /\ saved' = [saved EXCEPT ![d] = osError]
             /\ UNCHANGED <<kernel, runner, held>>
    <3>1. held = <<>>
      BY <2>2 DEF PreviousLock, osError, LocksNest, LockIsBalanced
    <3>2. LocksNest'
      BY <2>2, <3>1, NothingHeld DEF LocksNest, LockIsBalanced
    <3> QED BY <1>2, <2>2, <3>2 DEF DispatchLock, ListingsAreLocked, ListIsASnapshot, Held
  <2> QED BY <1>2, <2>1, <2>2 DEF DispatchLock
<1>3. ASSUME NEW t \in Threads, NEW d \in dispatches, DispatchUnlock(t, d) PROVE KernelInv'
  <2>0. d \in Locks /\ d \notin Threads
    BY KernelAssumption DEF Locks
  <2>1. /\ LocksNest' /\ Held' = Held \ {d} /\ d \in Held
        /\ runner' = IF held' = <<>> THEN NoThread ELSE runner
    BY <1>3, <2>0, UnlockKeeps DEF DispatchUnlock
  <2>2. \A u \in Threads : u \in Held' => runner' = runner
    <3> TAKE u \in Threads
    <3> HAVE u \in Held'
    <3>1. held' # <<>>
      BY NothingIn
    <3> QED BY <2>1, <3>1
  <2> QED BY <1>3, <2>0, <2>1, <2>2 DEF DispatchUnlock, ListingsAreLocked, ListIsASnapshot
<1> QED BY <1>1, <1>2, <1>3 DEF KernelNext

LEMMA ListStepKeeps ==
  ASSUME KernelTypeOK, KernelInv, UNCHANGED plan, plan.part = "list", ThreadListNext
  PROVE  KernelInv'
<1> USE DEF KernelInv
<1>1. ASSUME NEW t \in Threads, Enumerate(t) PROVE KernelInv'
  <2>0. t \in Locks /\ t \notin Held
    BY <1>1 DEF Locks, Enumerate, Ready, ListingsAreLocked
  <2>1. CASE PreviousLock >= 0 /\ Lock(t, t)
    <3>1. LocksNest' /\ Held' = Held \cup {t}
      BY <2>0, <2>1, LockKeeps
    <3>2. /\ kernel \in {"running", "locked"} /\ runner' = t /\ alive' = alive
          /\ busy' = busy \cup {t}
          /\ listing' = [listing EXCEPT ![t] = [NoListing EXCEPT !.size = Cardinality(alive)]]
      BY <1>1, <2>1 DEF Enumerate, Lock, PreviousLock, osError
    <3>3. \A u \in Threads : u \in Held => runner' = runner
      BY <1>1, <3>2, NothingHeld DEF Enumerate, Ready, Runs, LocksNest, LockIsBalanced
    <3>4. /\ listing'[t].size = Cardinality(alive) /\ ~listing'[t].read
          /\ \A u \in Threads : u # t => listing'[u] = listing[u]
      BY <3>2 DEF KernelTypeOK, NoListing
    <3> QED BY <3>1, <3>2, <3>3, <3>4 DEF ListingsAreLocked, ListIsASnapshot
  <2>2. CASE UNCHANGED <<kernelVars, busy>>
    BY <2>2 DEF kernelVars, LocksNest, LockIsBalanced, ListingsAreLocked, ListIsASnapshot, Held
  <2> QED BY <1>1, <2>1, <2>2 DEF Enumerate
<1>2. ASSUME NEW t \in Threads, ReadThreads(t) PROVE KernelInv'
  <2>1. listing[t].size = Cardinality(alive) /\ t \in Held
    BY <1>2 DEF ReadThreads, ListingsAreLocked, NoListing
  <2>2. PICK s \in SUBSET alive :
          /\ Cardinality(s) = listing[t].size \/ (s = alive /\ Cardinality(s) < listing[t].size)
          /\ listing' = [listing EXCEPT ![t].threads = s, ![t].read = TRUE]
    BY <1>2 DEF ReadThreads
  <2>3. IsFiniteSet(alive)
    BY KernelAssumption, FS_Subset DEF KernelTypeOK
  <2>4. s = alive
    BY <2>1, <2>2, <2>3, FS_Subset
  <2>5. /\ listing'[t].size = Cardinality(alive) /\ listing'[t].threads = alive
        /\ \A u \in Threads : u # t => listing'[u] = listing[u]
    BY <2>1, <2>2, <2>4 DEF KernelTypeOK
  <2>6. UNCHANGED <<kernel, runner, saved, held, alive, busy>> /\ Held' = Held
    BY <1>2 DEF ReadThreads, Held
  <2>7. LocksNest'
    BY <2>6 DEF LocksNest, LockIsBalanced
  <2> QED BY <2>1, <2>5, <2>6, <2>7 DEF ListingsAreLocked, ListIsASnapshot
<1>3. ASSUME NEW t \in Threads, EnumerateReturns(t) PROVE KernelInv'
  <2>1. /\ LocksNest' /\ Held' = Held \ {t} /\ t \in Held
        /\ runner' = IF held' = <<>> THEN NoThread ELSE runner
    BY <1>3, UnlockKeeps DEF EnumerateReturns, Locks
  <2>2. \A u \in Threads : u \in Held' => runner' = runner
    <3> TAKE u \in Threads
    <3> HAVE u \in Held'
    <3>1. held' # <<>>
      BY NothingIn
    <3> QED BY <2>1, <3>1
  <2>3. /\ listing'[t] = NoListing /\ ~listing'[t].read
        /\ \A u \in Threads : u # t => listing'[u] = listing[u]
    BY <1>3 DEF EnumerateReturns, KernelTypeOK, NoListing
  <2> QED BY <1>3, <2>1, <2>2, <2>3 DEF EnumerateReturns, ListingsAreLocked, ListIsASnapshot
<1>4. ASSUME NEW t \in Threads, NEW new \in Threads, ThreadExit(t) \/ ThreadNew(t, new)
      PROVE  KernelInv'
  <2>1. \A u \in Threads : u \notin Held
    BY <1>4, NothingHeld DEF ThreadExit, ThreadNew, Ready, Runs, LocksNest, LockIsBalanced, ListingsAreLocked
  <2>2. \A u \in Threads : listing[u] = NoListing
    BY <2>1 DEF ListingsAreLocked
  <2> QED BY <1>4, <2>1, <2>2
          DEF ThreadExit, ThreadNew, LocksNest, LockIsBalanced, ListingsAreLocked, ListIsASnapshot,
              Held, NoListing
<1> QED BY <1>1, <1>2, <1>3, <1>4 DEF ThreadListNext

(* A step of another component keeps it: it leaves the kernel as it is,    *)
(* and there is no list.                                                   *)
LEMMA OtherStepKeeps ==
  ASSUME KernelInv, UNCHANGED <<plan, kernelVars>>, plan.part # "list" \/ UNCHANGED busy
  PROVE  KernelInv'
BY DEF KernelInv, LocksNest, LockIsBalanced, ListingsAreLocked, ListIsASnapshot, Held, kernelVars

LEMMA KernelInvInit == Init => KernelInv
<1> SUFFICES ASSUME Init PROVE KernelInv
  OBVIOUS
<1>1. PICK threads \in SUBSET Threads : KernelInit(threads)
  BY PlansAssumption DEF Init
<1>2. held = <<>> /\ Held = {} /\ Len(held) = 0 /\ kernel = "inactive" /\ busy = {}
  BY <1>1 DEF KernelInit, Held
<1>3. \A t \in Threads : listing[t] = NoListing
  BY <1>1 DEF KernelInit
<1>4. 1 .. Len(held) = {}
  BY <1>2
<1> QED BY <1>2, <1>3, <1>4
        DEF KernelInv, LocksNest, LockIsBalanced, ListingsAreLocked, ListIsASnapshot, NoListing

THEOREM SpecKernelInv == Spec => []KernelInv
<1>1. TypeInv /\ KernelInv /\ [Next]_vars => KernelInv'
  <2> SUFFICES ASSUME TypeInv, KernelInv, [Next]_vars PROVE KernelInv'
    OBVIOUS
  <2>0. KernelTypeOK /\ plan \in Plans
    BY DEF TypeInv, TypeOK
  <2>p. UNCHANGED plan
    BY DEF Next, KernelStep, ListStep, MutexStep, SemaphoreStep, FlagsStep, PoolStep, vars
  <2>1. CASE KernelStep
    <3>1. plan.locks \in SUBSET Dispatches
      BY <2>0, PlansAssumption
    <3> QED BY <2>0, <2>p, <2>1, <3>1, KernelStepKeeps DEF KernelStep
  <2>2. CASE ListStep
    BY <2>0, <2>p, <2>2, ListStepKeeps DEF ListStep
  <2>3. CASE MutexStep \/ SemaphoreStep \/ FlagsStep \/ PoolStep
    BY <2>p, <2>3, OtherStepKeeps DEF MutexStep, SemaphoreStep, FlagsStep, PoolStep
  <2>4. CASE UNCHANGED vars
    BY <2>4, OtherStepKeeps DEF vars
  <2> QED BY <2>1, <2>2, <2>3, <2>4 DEF Next
<1> QED BY KernelInvInit, SpecTypeInv, <1>1, PTL DEF Spec

(* The kernel is locked as long as somebody holds a dispatch object, and   *)
(* not longer.                                                             *)
THEOREM SpecLockIsBalanced == Spec => []LockIsBalanced
BY SpecKernelInv, PTL DEF KernelInv, LocksNest

(* No thread starts or ends between the steps of enumerate.                *)
THEOREM SpecListIsASnapshot == Spec => []ListIsASnapshot
BY SpecKernelInv, PTL DEF KernelInv, ListingsAreLocked
=============================================================================
