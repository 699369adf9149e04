------------------------- MODULE MessageQueueProofs -------------------------
(***************************************************************************)
(* For any number of threads and objects and any capacity, no object of    *)
(* the queue has two owners, and none is lost but where the caller could   *)
(* know.                                                                   *)
(***************************************************************************)
EXTENDS MessageQueue, SequenceTheorems, FiniteSetTheorems, TLAPS

USE ConstantsAssumption

(* The queue by its elements. *)
LEMMA QueueElements ==
  ASSUME TypeOK
  PROVE  /\ queue \in Seq(Objects) /\ Len(queue) \in Nat
         /\ DOMAIN queue = 1 .. Len(queue)
         /\ \A k \in DOMAIN queue : queue[k] \in Objects
         /\ queue # << >> <=> Len(queue) > 0
<1>1. queue \in Seq(Objects)
  BY DEF TypeOK
<1>2. Len(queue) \in Nat /\ DOMAIN queue = 1 .. Len(queue)
  BY <1>1, LenProperties
<1>3. \A k \in DOMAIN queue : queue[k] \in Objects
  BY <1>1, ElementOfSeq, <1>2
<1>4. queue # << >> <=> Len(queue) > 0
  BY <1>1, <1>2, EmptySeq
<1> QED BY <1>1, <1>2, <1>3, <1>4

(* The types without the queue. *)
Types ==
  /\ held \in [Threads -> Objects \cup {Null}]
  /\ ptr \in [Threads -> Objects \cup {Null}]
  /\ pc \in [Threads -> {"idle", "put", "timedPut", "get", "timedGet",
                         "clear", "clearPop", "clearGet", "reset"}]
  /\ heap \in [Objects -> {"unborn", "live", "deleted"}]
  /\ excused \subseteq Objects

PutsWait == \A t \in Threads : ptr[t] # Null <=> pc[t] \in {"put", "timedPut"}
HeldLive == \A t \in Threads : held[t] # Null => heap[held[t]] = "live"
QueueType == queue \in Seq(Objects) /\ Len(queue) <= Capacity

LEMMA TypeParts == /\ TypeOK <=> Types /\ PutsWait /\ HeldLive /\ QueueType
                   /\ TypeOK' <=> Types' /\ PutsWait' /\ HeldLive' /\ QueueType'
  BY DEF TypeOK, Types, PutsWait, HeldLive, QueueType, Putters

(* The parts of Separate and of PointersLive. *)
HeldDiffer == \A t, u \in Threads : held[t] = held[u] => t = u \/ held[t] = Null
PutsDiffer == \A t, u \in Threads : ptr[t] = ptr[u] => t = u \/ ptr[t] = Null
HeldNotPut == \A t, u \in Threads : held[t] = ptr[u] => held[t] = Null
QueueDiffers == \A j, k \in DOMAIN queue : queue[j] = queue[k] => j = k
QueueNotHeld == \A t \in Threads, k \in DOMAIN queue : queue[k] # held[t]
QueueNotPut == \A t \in Threads, k \in DOMAIN queue : queue[k] # ptr[t]

LEMMA SeparateParts ==
  /\ Separate <=> HeldDiffer /\ PutsDiffer /\ HeldNotPut /\ QueueDiffers
                                          /\ QueueNotHeld /\ QueueNotPut
  /\ Separate' <=> HeldDiffer' /\ PutsDiffer' /\ HeldNotPut' /\ QueueDiffers'
                                             /\ QueueNotHeld' /\ QueueNotPut'
  BY DEF Separate, HeldDiffer, PutsDiffer, HeldNotPut, QueueDiffers, QueueNotHeld,
         QueueNotPut

PutsLive == \A t \in Threads : ptr[t] # Null => heap[ptr[t]] = "live"
QueueLive == \A k \in DOMAIN queue : heap[queue[k]] = "live"

LEMMA PointersParts == /\ PointersLive <=> PutsLive /\ QueueLive
                       /\ PointersLive' <=> PutsLive' /\ QueueLive'
  BY DEF PointersLive, PutsLive, QueueLive

(* All of them, for citing. *)
LEMMA Parts ==
  ASSUME IndInv
  PROVE  /\ Types /\ PutsWait /\ HeldLive /\ QueueType
         /\ HeldDiffer /\ PutsDiffer /\ HeldNotPut
         /\ QueueDiffers /\ QueueNotHeld /\ QueueNotPut
         /\ PutsLive /\ QueueLive /\ ResetInv /\ Accounted
         /\ \A k \in DOMAIN queue : queue[k] \in Objects
  BY TypeParts, SeparateParts, PointersParts, QueueElements DEF IndInv

LEMMA Whole ==
  ASSUME Types', PutsWait', HeldLive', QueueType', HeldDiffer', PutsDiffer', HeldNotPut',
         QueueDiffers', QueueNotHeld', QueueNotPut', PutsLive', QueueLive', ResetInv',
         Accounted'
  PROVE  IndInv'
  BY TypeParts, SeparateParts, PointersParts DEF IndInv

LEMMA InitInv == Init => IndInv
<1> SUFFICES ASSUME Init PROVE IndInv
  OBVIOUS
<1>1. queue \in Seq(Objects) /\ Len(queue) = 0 /\ DOMAIN queue = {} /\ Len(queue) <= Capacity
  BY DEF Init
<1>2. TypeOK
  BY <1>1 DEF Init, TypeOK, Putters
<1>3. Separate /\ PointersLive /\ Accounted
  BY <1>1 DEF Init, Separate, PointersLive, Accounted
<1>4. ResetInv
  BY <1>1 DEF Init, ResetInv, Putters
<1> QED BY <1>2, <1>3, <1>4 DEF IndInv

(* Steps that neither touch the queue nor make a thread wait for a place.  *)
LEMMA CallerInv ==
  ASSUME IndInv, NEW t \in Threads, Create(t) \/ Destroy(t)
  PROVE  IndInv'
<1>1. CASE Create(t)
  <2> USE QueueElements DEF IndInv, TypeOK
  <2>0. PICK o \in Objects :
          /\ heap[o] = "unborn" /\ held[t] = Null
          /\ held' = [held EXCEPT ![t] = o]
          /\ heap' = [heap EXCEPT ![o] = "live"]
          /\ UNCHANGED <<ptr, pc, queue, excused>>
    BY <1>1 DEF Create
  <2>1. TypeOK'
    BY <2>0 DEF Putters
  <2>2. Separate'
    BY <2>0 DEF Separate, PointersLive
  <2>3. PointersLive'
    BY <2>0 DEF PointersLive
  <2>4. ResetInv'
    BY <2>0 DEF ResetInv, Putters, Full
  <2>5. Accounted'
    <3> SUFFICES ASSUME NEW x \in Objects, heap'[x] = "live"
                 PROVE  \/ \E u \in Threads : held'[u] = x \/ ptr'[u] = x
                        \/ \E k \in DOMAIN queue' : queue'[k] = x
                        \/ x \in excused'
      BY DEF Accounted
    <3>1. CASE x = o
      BY <2>0, <3>1
    <3>2. CASE x # o
      <4>1. \A u \in Threads : held[u] = x => held'[u] = x
        BY <2>0
      <4> QED BY <2>0, <3>2, <4>1 DEF Accounted
    <3> QED BY <3>1, <3>2
  <2> QED BY <2>1, <2>2, <2>3, <2>4, <2>5
<1>2. CASE Destroy(t)
  <2>1. TypeOK'
    BY <1>2, QueueElements DEF Destroy, Delete, IndInv, TypeOK, Putters, Separate
  <2>2. Separate'
    BY <1>2, QueueElements DEF Destroy, Delete, IndInv, TypeOK, Separate, PointersLive
  <2>3. PointersLive'
    BY <1>2, QueueElements DEF Destroy, Delete, IndInv, TypeOK, PointersLive, Separate
  <2>4. ResetInv'
    BY <1>2, QueueElements DEF Destroy, Delete, IndInv, TypeOK, ResetInv, Putters, Full
  <2>5. Accounted'
    BY <1>2, QueueElements DEF Destroy, Delete, IndInv, TypeOK, Accounted
  <2> QED BY <2>1, <2>2, <2>3, <2>4, <2>5 DEF IndInv
<1> QED BY <1>1, <1>2

LEMMA ForgetInv ==
  ASSUME IndInv, NEW t \in Threads, pc[t] \in {"idle", "timedGet"}, Forget(t)
  PROVE  IndInv'
<1>1. TypeOK'
  <2>1. Types'
    BY Parts DEF Types, Forget, Delete
  <2>2. \A u \in Threads : held'[u] = IF u = t THEN Null ELSE held[u]
    BY Parts DEF Types, Forget
  <2>3. \A x \in Objects : x # held[t] => heap'[x] = heap[x]
    BY DEF Forget, Delete
  <2>4. HeldLive'
    <3>1. ASSUME NEW u \in Threads, u # t, held[u] # Null
          PROVE  held[u] # held[t] /\ held[u] \in Objects /\ heap[held[u]] = "live"
      BY <3>1, Parts DEF HeldDiffer, HeldLive, Types
    <3> QED BY <2>2, <2>3, <3>1 DEF HeldLive
  <2>5. PutsWait'
    BY Parts DEF Types, PutsWait, Forget
  <2>6. QueueType'
    BY Parts DEF QueueType, Forget
  <2> QED BY <2>1, <2>4, <2>5, <2>6, TypeParts
<1>2. Separate'
  BY QueueElements DEF Forget, Delete, IndInv, TypeOK, Separate, PointersLive
<1>3. PointersLive'
  BY QueueElements DEF Forget, Delete, IndInv, TypeOK, PointersLive, Separate
<1>4. ResetInv'
  BY QueueElements DEF Forget, Delete, IndInv, TypeOK, ResetInv, Putters, Full
<1>5. Accounted'
  BY QueueElements DEF Forget, Delete, IndInv, TypeOK, Accounted
<1> QED BY <1>1, <1>2, <1>3, <1>4, <1>5 DEF IndInv

LEMMA PutFailsInv ==
  ASSUME IndInv, NEW t \in Threads, NEW wait \in Waits, PutFails(t, wait) \/ PutTimesOut(t)
  PROVE  IndInv'
<1>1. CASE PutFails(t, wait)
  <2>1. TypeOK'
    BY <1>1, QueueElements DEF PutFails, IndInv, TypeOK, Putters, Separate
  <2>2. Separate'
    BY <1>1, QueueElements DEF PutFails, IndInv, TypeOK, Separate, PointersLive
  <2>3. PointersLive'
    BY <1>1, QueueElements DEF PutFails, IndInv, TypeOK, PointersLive, Separate
  <2>4. ResetInv'
    BY <1>1, QueueElements DEF PutFails, IndInv, TypeOK, ResetInv, Putters, Full
  <2>5. Accounted'
    BY <1>1, QueueElements DEF PutFails, IndInv, TypeOK, Accounted
  <2> QED BY <2>1, <2>2, <2>3, <2>4, <2>5 DEF IndInv
<1>2. CASE PutTimesOut(t)
  <2>1. TypeOK'
    BY <1>2, QueueElements DEF PutTimesOut, IndInv, TypeOK, Putters, Separate
  <2>2. Separate'
    BY <1>2, QueueElements DEF PutTimesOut, IndInv, TypeOK, Separate, PointersLive
  <2>3. PointersLive'
    BY <1>2, QueueElements DEF PutTimesOut, IndInv, TypeOK, PointersLive, Separate
  <2>4. ResetInv'
    BY <1>2, QueueElements DEF PutTimesOut, IndInv, TypeOK, ResetInv, Putters, Full
  <2>5. Accounted'
    BY <1>2, QueueElements DEF PutTimesOut, IndInv, TypeOK, Accounted
  <2> QED BY <2>1, <2>2, <2>3, <2>4, <2>5 DEF IndInv
<1> QED BY <1>1, <1>2

LEMMA ClearInv ==
  ASSUME IndInv, NEW t \in Threads, Clear(t) \/ TestEmpty(t)
  PROVE  IndInv'
<1>1. CASE Clear(t)
  <2>1. TypeOK'
    BY <1>1, QueueElements DEF Clear, IndInv, TypeOK, Putters, Separate
  <2>2. Separate'
    BY <1>1, QueueElements DEF Clear, IndInv, TypeOK, Separate, PointersLive
  <2>3. PointersLive'
    BY <1>1, QueueElements DEF Clear, IndInv, TypeOK, PointersLive, Separate
  <2>4. ResetInv'
    BY <1>1, QueueElements DEF Clear, IndInv, TypeOK, ResetInv, Putters, Full
  <2>5. Accounted'
    BY <1>1, QueueElements DEF Clear, IndInv, TypeOK, Accounted
  <2> QED BY <2>1, <2>2, <2>3, <2>4, <2>5 DEF IndInv
<1>2. CASE TestEmpty(t)
  <2>1. TypeOK'
    BY <1>2, QueueElements DEF TestEmpty, IndInv, TypeOK, Putters, Separate
  <2>2. Separate'
    BY <1>2, QueueElements DEF TestEmpty, IndInv, TypeOK, Separate, PointersLive
  <2>3. PointersLive'
    BY <1>2, QueueElements DEF TestEmpty, IndInv, TypeOK, PointersLive, Separate
  <2>4. ResetInv'
    <3>1. CASE queue = << >>
      <4>1. Putters = {}
        BY <3>1, QueueElements DEF IndInv, TypeOK, ResetInv, Full
      <4>2. Putters' = {} /\ DOMAIN queue' = {}
        <5>1. pc \in [Threads -> {"idle", "put", "timedPut", "get", "timedGet",
                                  "clear", "clearPop", "clearGet", "reset"}]
          BY DEF IndInv, TypeOK
        <5>2. Putters' = {}
          BY <1>2, <4>1, <5>1 DEF TestEmpty, Putters
        <5>3. queue' = << >>
          BY <1>2, <3>1 DEF TestEmpty
        <5> QED BY <5>2, <5>3
      <4> QED BY <4>2 DEF ResetInv
    <3>2. CASE queue # << >>
      BY <1>2, <3>2, QueueElements DEF TestEmpty, IndInv, TypeOK, ResetInv, Putters, Full
    <3> QED BY <3>1, <3>2
  <2>5. Accounted'
    BY <1>2, QueueElements DEF TestEmpty, IndInv, TypeOK, Accounted
  <2> QED BY <2>1, <2>2, <2>3, <2>4, <2>5 DEF IndInv
<1> QED BY <1>1, <1>2

(* A get that finds nothing and waits. *)
LEMMA WaitForMessageInv ==
  ASSUME IndInv, NEW t \in Threads, pc[t] \in {"idle", "clearPop"},
         NEW where \in {"get", "timedGet", "clearGet"},
         pc' = [pc EXCEPT ![t] = where],
         UNCHANGED <<held, ptr, queue, heap, excused>>
  PROVE  IndInv'
<1>1. TypeOK'
  BY QueueElements DEF IndInv, TypeOK, Putters
<1>2. Separate' /\ PointersLive' /\ Accounted'
  BY DEF IndInv, Separate, PointersLive, Accounted
<1>3. ResetInv'
  BY QueueElements DEF IndInv, TypeOK, ResetInv, Putters, Full
<1> QED BY <1>1, <1>2, <1>3 DEF IndInv

(* The object of a put that no clear() excuses is excused as before. *)
LEMMA PutInv ==
  ASSUME IndInv, NEW t \in Threads, NEW wait \in Waits, Put(t, wait)
  PROVE  IndInv'
<1> DEFINE o == held[t]
<1>0. /\ o \in Objects /\ o # Null /\ heap[o] = "live" /\ pc[t] = "idle"
      /\ excused \subseteq excused' /\ excused' \subseteq Objects
      /\ (\E c \in Threads : pc[c] = "reset") => o \in excused'
  BY DEF Put, Clearing, IndInv, TypeOK
<1>1. CASE Store(t)
  <2>1. /\ held' = [held EXCEPT ![t] = Null]
        /\ UNCHANGED <<ptr, pc, heap>>
    BY <1>1 DEF Store
  <2>2. /\ queue' \in Seq(Objects) /\ Len(queue') = Len(queue) + 1 /\ Len(queue) \in Nat
        /\ \A k \in 1 .. Len(queue) : queue'[k] = queue[k]
        /\ queue'[Len(queue) + 1] = o
    <3>1. queue' = Append(queue, o)
      BY <1>1 DEF Store
    <3>2. queue \in Seq(Objects) /\ o \in Objects
      BY <1>0 DEF IndInv, TypeOK
    <3> HIDE DEF o
    <3> QED BY <3>1, <3>2, AppendProperties, LenProperties
  <2>3. QueueType'
    BY <1>1, <2>2, Parts DEF QueueType, Store, Full
  <2> DEFINE n == Len(queue)
  <2>4. /\ DOMAIN queue = 1 .. n /\ n \in Nat
        /\ \A k \in DOMAIN queue : queue[k] \in Objects
    BY QueueElements DEF IndInv
  <2>5. DOMAIN queue' = 1 .. (n + 1)
    BY <2>2, LenProperties
  <2> HIDE DEF o, n
  <2>6. /\ \A k \in DOMAIN queue : k \in DOMAIN queue' /\ queue'[k] = queue[k]
        /\ n + 1 \in DOMAIN queue' /\ queue'[n + 1] = o
        /\ \A k \in DOMAIN queue' : k \in DOMAIN queue \/ k = n + 1
    BY <2>2, <2>4, <2>5 DEF n
  <2>7. /\ \A u \in Threads : held'[u] = IF u = t THEN Null ELSE held[u]
        /\ held[t] = o
    BY <2>1, Parts DEF Types, o
  <2>8. /\ \A u \in Threads : held'[u] # o /\ ptr'[u] # o
        /\ \A k \in DOMAIN queue : queue[k] # o
    BY <1>0, <2>1, <2>7, Parts DEF HeldDiffer, HeldNotPut, QueueNotHeld
  <2>9. Types' /\ PutsWait' /\ HeldLive'
    BY <1>0, <2>1, <2>7, Parts DEF Types, PutsWait, HeldLive
  <2>10. HeldDiffer' /\ PutsDiffer' /\ HeldNotPut'
    BY <2>1, <2>7, Parts DEF HeldDiffer, PutsDiffer, HeldNotPut
  <2>11. QueueDiffers'
    BY <2>6, <2>8, Parts DEF QueueDiffers
  <2>12. QueueNotHeld' /\ QueueNotPut'
    BY <1>0, <2>1, <2>4, <2>6, <2>7, <2>8, Parts DEF QueueNotHeld, QueueNotPut
  <2>13. PutsLive' /\ QueueLive'
    BY <1>0, <2>1, <2>6, Parts DEF PutsLive, QueueLive
  <2>14. ResetInv'
    <3>1. Putters = {} /\ Putters' = {}
      BY <1>1, <2>1, Parts DEF Store, ResetInv, Putters, Getters, Full
    <3>2. \A k \in DOMAIN queue' :
            (\E c \in Threads : pc[c] = "reset") => queue'[k] \in excused'
      BY <1>0, <2>6, Parts DEF ResetInv
    <3> QED BY <2>1, <3>1, <3>2 DEF ResetInv
  <2>15. Accounted'
    <3>1. \A u \in Threads : held[u] = held'[u] \/ held[u] = o
      BY <2>7
    <3> QED BY <1>0, <2>1, <2>6, <3>1, Parts DEF Accounted
  <2> QED BY <2>3, <2>9, <2>10, <2>11, <2>12, <2>13, <2>14, <2>15, Whole
<1>2. CASE Block(t, wait)
  <2>0. /\ held' = [held EXCEPT ![t] = Null] /\ ptr' = [ptr EXCEPT ![t] = o]
        /\ pc' = [pc EXCEPT ![t] = IF wait = "timed" THEN "timedPut" ELSE "put"]
        /\ UNCHANGED <<queue, heap>> /\ Full
    BY <1>2 DEF Block
  <2> USE <1>0, <2>0, QueueElements DEF IndInv, TypeOK
  <2>1. TypeOK'
    BY DEF Putters
  <2>2. Separate'
    BY DEF Separate
  <2>3. PointersLive'
    BY DEF PointersLive
  <2>4. ResetInv'
    BY DEF ResetInv, Putters, Full
  <2>5. Accounted'
    <3>1. \A u \in Threads, x \in Objects : ptr[u] = x => ptr'[u] = x
      BY DEF Putters
    <3>2. \A u \in Threads, x \in Objects : held[u] = x => held'[u] = x \/ ptr'[u] = x
      OBVIOUS
    <3> QED BY <3>1, <3>2 DEF Accounted
  <2> QED BY <2>1, <2>2, <2>3, <2>4, <2>5
<1>3. CASE Handover(t)
  <2>0. PICK g \in Getters :
          /\ held' = [held EXCEPT ![t] = Null, ![g] = Kept(g, o)]
          /\ pc' = [pc EXCEPT ![g] = After(g)]
          /\ Delete(Dropped(g, o))
          /\ UNCHANGED <<ptr, queue>>
    BY <1>3 DEF Handover
  <2>1. /\ g \in Threads /\ g # t /\ pc[g] \in {"get", "timedGet", "clearGet"}
        /\ UNCHANGED <<ptr, queue>>
    BY <1>0, <2>0 DEF Getters
  <2> HIDE DEF o
  <2>2. o = held[t]
    BY DEF o
  <2>3. /\ \A u \in Threads : pc'[u] = IF u = g THEN After(g) ELSE pc[u]
        /\ \A u \in Threads :
             held'[u] = IF u = g THEN Kept(g, o) ELSE IF u = t THEN Null ELSE held[u]
        /\ \A x \in Objects :
             heap'[x] = IF x \in Dropped(g, o) THEN "deleted" ELSE heap[x]
    BY <2>0, <2>1, Parts DEF Types, Delete
  <2>4. Types'
    BY <1>0, <2>0, <2>1, Parts DEF Types, Delete, Kept, After
  <2>5. PutsWait' /\ PutsDiffer' /\ QueueType' /\ QueueDiffers' /\ QueueNotPut'
    <3>1. PutsWait'
      BY <2>1, <2>3, Parts DEF PutsWait, After
    <3>2. PutsDiffer'
      BY <2>1, Parts DEF PutsDiffer
    <3>3. QueueType' /\ QueueDiffers' /\ QueueNotPut'
      BY <2>1, Parts DEF QueueType, QueueDiffers, QueueNotPut
    <3> QED BY <3>1, <3>2, <3>3
  <2>6. ResetInv'
    <3>1. Putters' = Putters
      BY <2>1, <2>3 DEF Putters, After
    <3>2. \A c \in Threads : pc'[c] = "reset" => pc[c] = "reset"
      BY <2>3 DEF After
    <3> QED BY <1>0, <2>1, <3>1, <3>2, Parts DEF ResetInv, Full
  <2>7. /\ \A u \in Threads : (held[u] = o => u = t) /\ ptr[u] # o
        /\ \A k \in DOMAIN queue : queue[k] # o
    BY <1>0, <2>2, Parts DEF HeldDiffer, HeldNotPut, QueueNotHeld
  <2>8. CASE pc[g] = "clearGet"
    <3>1. Kept(g, o) = held[g] /\ Dropped(g, o) = {o}
      BY <1>0, <2>8 DEF Clearing, Kept, Dropped
    <3>2. /\ \A u \in Threads : held'[u] = IF u = t THEN Null ELSE held[u]
          /\ \A x \in Objects : x # o => heap'[x] = heap[x]
          /\ heap'[o] = "deleted"
      BY <1>0, <2>1, <2>3, <3>1
    <3>3. HeldLive'
      <4>1. ASSUME NEW u \in Threads, u # t, held[u] # Null
            PROVE  held[u] # o /\ held[u] \in Objects /\ heap[held[u]] = "live"
        BY <2>7, <4>1, Parts DEF HeldLive, Types
      <4> QED BY <3>2, <4>1 DEF HeldLive
    <3>4. HeldDiffer' /\ HeldNotPut'
      BY <2>1, <3>2, Parts DEF HeldDiffer, HeldNotPut
    <3>5. QueueNotHeld'
      BY <2>1, <3>2, Parts DEF QueueNotHeld
    <3>6. PutsLive'
      <4>1. ASSUME NEW u \in Threads, ptr[u] # Null
            PROVE  ptr[u] # o /\ ptr[u] \in Objects /\ heap[ptr[u]] = "live"
        BY <2>7, <4>1, Parts DEF PutsLive, Types
      <4> QED BY <2>1, <3>2, <4>1 DEF PutsLive
    <3>7. QueueLive'
      BY <2>1, <2>7, <3>2, Parts DEF QueueLive
    <3>8. Accounted'
      <4>1. \A u \in Threads : held[u] = held'[u] \/ held[u] = o
        BY <2>2, <3>2
      <4> QED BY <1>0, <2>1, <3>2, <4>1, Parts DEF Accounted
    <3> QED BY <2>4, <2>5, <2>6, <3>3, <3>4, <3>5, <3>6, <3>7, <3>8, Whole
  <2>9. CASE pc[g] # "clearGet"
    <3>1. Kept(g, o) = o /\ Dropped(g, o) = {held[g]} \ {Null}
      BY <2>1, <2>9 DEF Clearing, Kept, Dropped
    <3>2. /\ \A u \in Threads : held'[u] = IF u = g THEN o ELSE IF u = t THEN Null ELSE held[u]
          /\ \A x \in Objects : x # held[g] => heap'[x] = heap[x]
          /\ \A x \in Objects : x = held[g] => heap'[x] = "deleted"
      BY <2>1, <2>3, <3>1
    <3>3. held[g] # o
      BY <2>1, <2>7
    <3>4. HeldLive'
      <4>1. heap'[o] = "live"
        BY <1>0, <3>2, <3>3
      <4>2. ASSUME NEW u \in Threads, u # g, u # t, held[u] # Null
            PROVE  heap'[held[u]] = "live"
        <5>1. held[u] # held[g] /\ held[u] \in Objects /\ heap[held[u]] = "live"
          BY <2>1, <4>2, Parts DEF HeldDiffer, HeldLive, Types
        <5> QED BY <3>2, <5>1
      <4> QED BY <3>2, <4>1, <4>2 DEF HeldLive
    <3>5. HeldDiffer'
      BY <2>7, <3>2, Parts DEF HeldDiffer
    <3>6. HeldNotPut'
      BY <2>1, <2>7, <3>2, Parts DEF HeldNotPut
    <3>7. QueueNotHeld'
      <4>1. ASSUME NEW k \in DOMAIN queue, NEW u \in Threads
            PROVE  queue[k] # held'[u]
        <5>1. queue[k] # held[u] /\ queue[k] # o /\ queue[k] # Null
          BY <2>7, Parts DEF QueueNotHeld
        <5> QED BY <3>2, <5>1
      <4> QED BY <2>1, <4>1 DEF QueueNotHeld
    <3>8. PutsLive'
      <4>1. ASSUME NEW u \in Threads, ptr[u] # Null
            PROVE  heap'[ptr[u]] = "live"
        <5>1. held[g] # ptr[u] /\ ptr[u] \in Objects /\ heap[ptr[u]] = "live"
          BY <2>1, <4>1, Parts DEF HeldNotPut, PutsLive, Types
        <5> QED BY <3>2, <5>1
      <4> QED BY <2>1, <4>1 DEF PutsLive
    <3>9. QueueLive'
      <4>1. \A k \in DOMAIN queue : queue[k] # held[g]
        BY <2>1, Parts DEF QueueNotHeld
      <4> QED BY <2>1, <3>2, <4>1, Parts DEF QueueLive
    <3>10. Accounted'
      <4>1. \A u \in Threads : held[u] = held'[u] \/ u = g \/ held[u] = held'[g]
        BY <2>1, <2>2, <3>2
      <4> QED BY <1>0, <2>1, <3>2, <4>1, Parts DEF Accounted
    <3> QED BY <2>4, <2>5, <2>6, <3>4, <3>5, <3>6, <3>7, <3>8, <3>9, <3>10, Whole
  <2> QED BY <2>8, <2>9
<1> QED BY <1>1, <1>2, <1>3 DEF Put

(* What a get that finds a message does to the queue and to the waiting    *)
(* puts, apart from the message that it takes.                             *)
Taken(t) ==
  /\ QueueType' /\ (Putters' # {} => Full')
  /\ ptr' \in [Threads -> Objects \cup {Null}] /\ ptr'[t] = Null
  /\ pc'[t] = After(t)
  /\ pc' \in [Threads -> {"idle", "put", "timedPut", "get", "timedGet",
                          "clear", "clearPop", "clearGet", "reset"}]
  /\ \A u \in Threads \ {t} : \/ pc'[u] = pc[u] /\ ptr'[u] = ptr[u]
                              \/ pc'[u] = "idle" /\ ptr'[u] = Null
  /\ \A u \in Threads : \/ ptr'[u] = ptr[u]
                        \/ /\ ptr'[u] = Null
                           /\ \E k \in DOMAIN queue' : queue'[k] = ptr[u]
  /\ Head(queue) \in Objects
  /\ \E j \in DOMAIN queue : queue[j] = Head(queue)
  /\ \A j \in DOMAIN queue : \/ queue[j] = Head(queue)
                             \/ \E k \in DOMAIN queue' : queue'[k] = queue[j]
  /\ \A j, k \in DOMAIN queue' : queue'[j] = queue'[k] => j = k
  /\ \A k \in DOMAIN queue' :
       /\ queue'[k] \in Objects \ {Head(queue)}
       /\ \/ \E j \in DOMAIN queue : queue'[k] = queue[j]
          \/ \E p \in Putters : queue'[k] = ptr[p] /\ ptr'[p] = Null

LEMMA TakeQueue ==
  ASSUME IndInv, NEW t \in Threads, pc[t] \in {"idle", "clearPop"}, Take(t)
  PROVE  Taken(t)
<1> DEFINE n == Len(queue)
           rest == Tail(queue)
           h == Head(queue)
<1>1. Types /\ PutsWait /\ HeldLive /\ QueueType /\ Separate
  BY TypeParts DEF IndInv
<1>2. /\ queue \in Seq(Objects) /\ queue # << >> /\ n \in Nat /\ n > 0
      /\ n <= Capacity /\ Capacity \in Nat
      /\ DOMAIN queue = 1 .. n /\ \A k \in DOMAIN queue : queue[k] \in Objects
  BY <1>1, QueueElements DEF Take, QueueType, IndInv
<1>3. /\ rest \in Seq(Objects) /\ Len(rest) = n - 1 /\ DOMAIN rest = 1 .. (n - 1)
      /\ \A k \in 1 .. (n - 1) : rest[k] = queue[k + 1]
      /\ h = queue[1]
  BY <1>2, HeadTailProperties, LenProperties
<1>4. /\ h \in Objects /\ 1 \in DOMAIN queue /\ \A k \in 1 .. (n - 1) : rest[k] # h
      /\ \A j, k \in 1 .. (n - 1) : rest[j] = rest[k] => j = k
  <2> HIDE DEF n, rest, h
  <2>1. \A k \in 1 .. (n - 1) : k + 1 \in DOMAIN queue /\ k + 1 # 1
    BY <1>2
  <2>2. 1 \in DOMAIN queue
    BY <1>2
  <2>3. \A j, k \in DOMAIN queue : queue[j] = queue[k] => j = k
    BY <1>1 DEF Separate
  <2>4. \A k \in 1 .. (n - 1) : rest[k] # h
    BY <1>3, <2>1, <2>2, <2>3
  <2>5. \A j, k \in 1 .. (n - 1) : rest[j] = rest[k] => j + 1 = k + 1
    BY <1>3, <2>1, <2>3
  <2> QED BY <1>2, <1>3, <2>2, <2>4, <2>5
<1>5. \A j \in DOMAIN queue : j = 1 \/ (j - 1 \in 1 .. (n - 1) /\ rest[j - 1] = queue[j])
  <2> HIDE DEF n, rest
  <2>1. \A j \in 1 .. n : j = 1 \/ (j - 1 \in 1 .. (n - 1) /\ (j - 1) + 1 = j)
    BY <1>2
  <2> QED BY <1>2, <1>3, <2>1
<1>6. ptr[t] = Null /\ After(t) \in {"idle", "clear"}
  BY <1>1 DEF PutsWait, HeldLive, After, Types
<1>7. CASE Putters = {} /\ queue' = Tail(queue) /\ pc' = [pc EXCEPT ![t] = After(t)] /\ UNCHANGED ptr
  <2>1. queue' = rest
    BY <1>7
  <2> HIDE DEF n, rest, h
  <2>2. QueueType'
    BY <1>2, <1>3, <2>1 DEF QueueType
  <2>3. Putters' = {}
    BY <1>1, <1>6, <1>7 DEF Putters, Types
  <2>4. /\ \A k \in DOMAIN queue' : /\ queue'[k] \in Objects /\ queue'[k] # h
                                   /\ \E j \in DOMAIN queue : queue'[k] = queue[j]
        /\ \A j, k \in DOMAIN queue' : queue'[j] = queue'[k] => j = k
    <3>1. \A k \in 1 .. (n - 1) : k + 1 \in DOMAIN queue
      BY <1>2
    <3> QED BY <1>2, <1>3, <1>4, <2>1, <3>1
  <2>5. \A j \in DOMAIN queue : queue[j] = h \/ \E k \in DOMAIN queue' : queue'[k] = queue[j]
    BY <1>3, <1>5, <2>1
  <2>6. h = Head(queue)
    BY DEF h
  <2>7. /\ ptr' \in [Threads -> Objects \cup {Null}] /\ ptr'[t] = Null
        /\ pc'[t] = After(t)
        /\ pc' \in [Threads -> {"idle", "put", "timedPut", "get", "timedGet",
                                "clear", "clearPop", "clearGet", "reset"}]
        /\ \A u \in Threads \ {t} : pc'[u] = pc[u] /\ ptr'[u] = ptr[u]
    BY <1>1, <1>6, <1>7 DEF Types
  <2> QED BY <1>3, <1>4, <1>7, <2>2, <2>3, <2>4, <2>5, <2>6, <2>7 DEF Taken
<1>8. ASSUME NEW p \in Putters, queue' = Append(Tail(queue), ptr[p]),
             pc' = [pc EXCEPT ![t] = After(t), ![p] = "idle"],
             ptr' = [ptr EXCEPT ![p] = Null]
      PROVE  Taken(t)
  <2>1. queue' = Append(rest, ptr[p])
    BY <1>8
  <2>2. /\ p \in Threads /\ p # t /\ pc[p] \in {"put", "timedPut"}
        /\ ptr[p] \in Objects /\ ptr[p] # Null
    BY <1>1 DEF Putters, PutsWait, HeldLive, Types
  <2>3. n = Capacity
    BY DEF IndInv, ResetInv, Full
  <2>4. /\ queue' \in Seq(Objects) /\ Len(queue') = n
        /\ DOMAIN queue' = 1 .. n
        /\ \A k \in 1 .. (n - 1) : queue'[k] = rest[k]
        /\ queue'[n] = ptr[p]
    <3>1. /\ queue' \in Seq(Objects) /\ Len(queue') = Len(rest) + 1
          /\ \A k \in 1 .. Len(rest) : queue'[k] = rest[k]
          /\ queue'[Len(rest) + 1] = ptr[p]
      BY <1>3, <2>1, <2>2, AppendProperties
    <3>2. Len(rest) + 1 = n
      BY <1>2, <1>3
    <3>3. Len(queue') = n /\ \A k \in 1 .. (n - 1) : queue'[k] = rest[k]
      BY <1>3, <3>1, <3>2
    <3>4. DOMAIN queue' = 1 .. n
      BY <3>1, <3>3, LenProperties
    <3> QED BY <3>1, <3>2, <3>3, <3>4
  <2>5. /\ \A j \in DOMAIN queue : queue[j] # ptr[p]
        /\ ptr[p] # h
    BY <1>3, <1>4, <2>2, <1>1 DEF Separate
  <2> HIDE DEF n, rest, h
  <2>6. h = Head(queue)
    BY DEF h
  <2>7. QueueType' /\ Full'
    BY <1>2, <2>3, <2>4 DEF QueueType, Full
  <2>8. /\ \A k \in 1 .. n : k = n \/ (k \in 1 .. (n - 1) /\ k + 1 \in 1 .. n)
        /\ \A k \in 1 .. (n - 1) : k \in 1 .. n
        /\ n \in 1 .. n
    BY <1>2
  <2>9. /\ ptr' \in [Threads -> Objects \cup {Null}] /\ ptr'[t] = Null
        /\ pc'[t] = After(t)
        /\ pc' \in [Threads -> {"idle", "put", "timedPut", "get", "timedGet",
                                "clear", "clearPop", "clearGet", "reset"}]
        /\ \A u \in Threads \ {t} : \/ pc'[u] = pc[u] /\ ptr'[u] = ptr[u]
                                    \/ pc'[u] = "idle" /\ ptr'[u] = Null
        /\ \A u \in Threads : ptr'[u] = ptr[u] \/ (ptr'[u] = Null /\ u = p)
        /\ ptr'[p] = Null
    BY <1>1, <1>6, <1>8, <2>2 DEF Types
  <2>10. \A k \in DOMAIN queue' :
           /\ queue'[k] \in Objects /\ queue'[k] # h
           /\ \/ k # n /\ \E j \in DOMAIN queue : queue'[k] = queue[j]
              \/ k = n /\ queue'[k] = ptr[p]
    BY <1>2, <1>3, <1>4, <2>2, <2>4, <2>5, <2>8
  <2>11. \A j, k \in DOMAIN queue' : queue'[j] = queue'[k] => j = k
    BY <1>4, <2>4, <2>5, <2>8, <2>10
  <2>12. \A j \in DOMAIN queue : queue[j] = h \/ \E k \in DOMAIN queue' : queue'[k] = queue[j]
    BY <1>3, <1>5, <2>4, <2>8
  <2>13. \A u \in Threads :
           \/ ptr'[u] = ptr[u]
           \/ ptr'[u] = Null /\ \E k \in DOMAIN queue' : queue'[k] = ptr[u]
    <3>1. n \in DOMAIN queue' /\ queue'[n] = ptr[p]
      BY <2>4, <2>8
    <3> QED BY <2>9, <3>1
  <2>14. \A k \in DOMAIN queue' :
              /\ queue'[k] \in Objects \ {h}
              /\ \/ \E j \in DOMAIN queue : queue'[k] = queue[j]
                 \/ \E q \in Putters : queue'[k] = ptr[q] /\ ptr'[q] = Null
    BY <2>9, <2>10
  <2>15. h \in Objects /\ \E j \in DOMAIN queue : queue[j] = h
    BY <1>3, <1>4
  <2> QED BY <2>6, <2>7, <2>9, <2>11, <2>12, <2>13, <2>14, <2>15 DEF Taken
<1> QED BY <1>7, <1>8 DEF Take

LEMMA TakeInv ==
  ASSUME IndInv, NEW t \in Threads, pc[t] \in {"idle", "clearPop"}, Take(t)
  PROVE  IndInv'
<1> DEFINE h == Head(queue)
<1>1. Types /\ PutsWait /\ HeldLive /\ QueueType /\ Separate /\ PointersLive
  BY TypeParts DEF IndInv
<1>2. /\ held' = [held EXCEPT ![t] = Kept(t, h)]
      /\ Delete(Dropped(t, h))
      /\ excused' = excused
  BY DEF Take
<1>3. /\ Taken(t) /\ h \in Objects /\ h # Null
  BY TakeQueue DEF Taken
<1>4. \A u \in Threads : held[u] # h /\ ptr[u] # h
  BY <1>3 DEF Taken, Separate, IndInv
<1>5. heap[h] = "live"
  BY <1>3 DEF Taken, PointersLive, IndInv
<1>6. h = Head(queue)
  OBVIOUS
<1> HIDE DEF h
(* What is left in the queue is neither in a unique_ptr nor in a put. *)
<1>7. \A k \in DOMAIN queue' : \A u \in Threads :
        /\ queue'[k] # held[u] /\ queue'[k] # ptr'[u]
        /\ queue'[k] # h /\ queue'[k] # Null
  <2> SUFFICES ASSUME NEW k \in DOMAIN queue', NEW u \in Threads
               PROVE  /\ queue'[k] # held[u] /\ queue'[k] # ptr'[u]
                      /\ queue'[k] # h /\ queue'[k] # Null
    OBVIOUS
  <2>1. queue'[k] \in Objects /\ queue'[k] # h /\ queue'[k] # Null
    BY <1>3, <1>6 DEF Taken
  <2>2. CASE \E j \in DOMAIN queue : queue'[k] = queue[j]
    BY <1>1, <1>3, <2>1, <2>2 DEF Taken, Separate
  <2>3. CASE \E p \in Putters : queue'[k] = ptr[p] /\ ptr'[p] = Null
    <3>1. PICK p \in Putters : queue'[k] = ptr[p] /\ ptr'[p] = Null
      BY <2>3
    <3>2. p \in Threads
      BY DEF Putters
    <3>3. queue'[k] # held[u] /\ (ptr[u] = queue'[k] => u = p)
      BY <1>1, <2>1, <3>1, <3>2 DEF Separate
    <3>4. ptr'[u] = ptr[u] \/ ptr'[u] = Null
      BY <1>3 DEF Taken
    <3> QED BY <2>1, <3>1, <3>3, <3>4
  <2> QED BY <1>3, <2>2, <2>3 DEF Taken
<1>8. \A u \in Threads : ptr'[u] = ptr[u] \/ ptr'[u] = Null
  BY <1>3 DEF Taken
<1>9. QueueType' /\ (\A u \in Threads : ptr'[u] # Null <=> pc'[u] \in {"put", "timedPut"})
  BY <1>1, <1>3 DEF Taken, PutsWait, HeldLive, After
<1>10. ResetInv'
  <2>1. \A c \in Threads : pc'[c] = "reset" => pc[c] = "reset"
    BY <1>3 DEF Taken, After
  <2>2. \A u \in Putters' : u \in Putters /\ ptr'[u] = ptr[u]
    BY <1>1, <1>3 DEF Taken, After, Putters, Types
  <2>3. ASSUME NEW c \in Threads, pc'[c] = "reset", NEW k \in DOMAIN queue'
        PROVE  queue'[k] \in excused
    BY <1>3, <2>1, <2>3 DEF Taken, IndInv, ResetInv
  <2>4. Putters' # {} => Full'
    BY <1>3 DEF Taken
  <2> QED BY <1>2, <2>1, <2>2, <2>3, <2>4 DEF IndInv, ResetInv
(* The queue and the puts lose no object but h. *)
<1>11. \A x \in Objects :
         /\ \A u \in Threads :
              ptr[u] = x => ptr'[u] = x \/ \E k \in DOMAIN queue' : queue'[k] = x
         /\ \A j \in DOMAIN queue :
              queue[j] = x => x = h \/ \E k \in DOMAIN queue' : queue'[k] = x
  BY <1>3, <1>6 DEF Taken
<1>12. CASE pc[t] = "clearPop"
  <2>1. held' = held /\ heap' = [heap EXCEPT ![h] = "deleted"]
    BY <1>1, <1>2, <1>3, <1>12 DEF Clearing, Kept, Dropped, Delete, Types
  <2>2. TypeOK'
    <3>1. Types'
      BY <1>1, <1>2, <1>3, <2>1 DEF Types, Taken
    <3>2. PutsWait' /\ HeldLive'
      BY <1>1, <1>4, <1>9, <2>1 DEF Types, PutsWait, HeldLive
    <3> QED BY <1>9, <3>1, <3>2, TypeParts
  <2>3. Separate'
    <3>1. \A u, v \in Threads :
            /\ held'[u] = held'[v] => u = v \/ held'[u] = Null
            /\ ptr'[u] = ptr'[v] => u = v \/ ptr'[u] = Null
            /\ held'[u] = ptr'[v] => held'[u] = Null
      BY <1>1, <1>8, <2>1 DEF Separate
    <3>2. \A j, k \in DOMAIN queue' : queue'[j] = queue'[k] => j = k
      BY <1>3 DEF Taken
    <3> QED BY <1>7, <2>1, <3>1, <3>2 DEF Separate
  <2>4. PointersLive'
    <3>1. \A k \in DOMAIN queue' : queue'[k] \in Objects /\ heap[queue'[k]] = "live"
      BY <1>1, <1>3, <1>7 DEF Taken, PointersLive, Putters
    <3>2. \A u \in Threads : ptr'[u] # Null => heap'[ptr'[u]] = "live"
      BY <1>1, <1>4, <1>8, <2>1 DEF Types, PointersLive
    <3>3. \A k \in DOMAIN queue' : heap'[queue'[k]] = "live"
      BY <1>1, <1>7, <2>1, <3>1 DEF Types
    <3> QED BY <3>2, <3>3 DEF PointersLive
  <2>5. Accounted'
    <3> SUFFICES ASSUME NEW x \in Objects, heap'[x] = "live", x \notin excused
                 PROVE  \/ \E u \in Threads : held'[u] = x \/ ptr'[u] = x
                        \/ \E k \in DOMAIN queue' : queue'[k] = x
      BY <1>2 DEF Accounted
    <3>1. x # h /\ heap[x] = "live"
      BY <1>1, <1>3, <2>1 DEF Types
    <3> QED BY <1>11, <2>1, <3>1 DEF Accounted, IndInv
  <2> QED BY <1>10, <2>2, <2>3, <2>4, <2>5 DEF IndInv
<1>13. CASE pc[t] = "idle"
  <2>1. /\ held' = [held EXCEPT ![t] = h]
        /\ heap' = [x \in Objects |-> IF x = held[t] THEN "deleted" ELSE heap[x]]
    BY <1>1, <1>2, <1>3, <1>13 DEF Clearing, Kept, Dropped, Delete, Types
  <2>2. /\ \A u \in Threads : held'[u] = IF u = t THEN h ELSE held[u]
        /\ \A x \in Objects : heap'[x] = IF x = held[t] THEN "deleted" ELSE heap[x]
    BY <1>1, <2>1 DEF Types
  <2>3. TypeOK'
    <3>1. Types'
      <4>1. held' \in [Threads -> Objects \cup {Null}]
        BY <1>1, <1>3, <2>1 DEF Types
      <4>2. heap' \in [Objects -> {"unborn", "live", "deleted"}]
        BY <1>1, <2>1 DEF Types
      <4>3. excused' \subseteq Objects
        BY <1>1, <1>2 DEF Types
      <4> QED BY <1>3, <4>1, <4>2, <4>3 DEF Types, Taken
    <3>2. PutsWait' /\ HeldLive'
      BY <1>1, <1>3, <1>4, <1>5, <1>9, <2>2 DEF Types, PutsWait, HeldLive, Separate
    <3> QED BY <1>9, <3>1, <3>2, TypeParts
  <2>4. Separate'
    <3>1. \A u, v \in Threads :
            /\ held'[u] = held'[v] => u = v \/ held'[u] = Null
            /\ ptr'[u] = ptr'[v] => u = v \/ ptr'[u] = Null
            /\ held'[u] = ptr'[v] => held'[u] = Null
      BY <1>1, <1>3, <1>4, <1>8, <2>2 DEF Separate
    <3>2. \A j, k \in DOMAIN queue' : queue'[j] = queue'[k] => j = k
      BY <1>3 DEF Taken
    <3>3. \A u \in Threads, k \in DOMAIN queue' :
            queue'[k] # held'[u] /\ queue'[k] # ptr'[u]
      BY <1>7, <2>2
    <3> QED BY <3>1, <3>2, <3>3 DEF Separate
  <2>5. PointersLive'
    <3>1. \A k \in DOMAIN queue' : queue'[k] \in Objects /\ heap[queue'[k]] = "live"
      BY <1>1, <1>3, <1>7 DEF Taken, PointersLive, Putters
    <3>2. \A u \in Threads : ptr'[u] # Null => heap'[ptr'[u]] = "live"
      BY <1>1, <1>8, <2>2 DEF Types, PointersLive, Separate
    <3>3. \A k \in DOMAIN queue' : heap'[queue'[k]] = "live"
      BY <1>7, <2>2, <3>1
    <3> QED BY <3>2, <3>3 DEF PointersLive
  <2>6. Accounted'
    <3> SUFFICES ASSUME NEW x \in Objects, heap'[x] = "live", x \notin excused
                 PROVE  \/ \E u \in Threads : held'[u] = x \/ ptr'[u] = x
                        \/ \E k \in DOMAIN queue' : queue'[k] = x
      BY <1>2 DEF Accounted
    <3>1. x # held[t] /\ heap[x] = "live"
      BY <2>2
    <3>2. \A u \in Threads : held[u] = x => held'[u] = x
      BY <2>2, <3>1
    <3>3. held'[t] = h
      BY <2>2
    <3> QED BY <1>11, <3>1, <3>2, <3>3 DEF Accounted, IndInv
  <2> QED BY <1>10, <2>3, <2>4, <2>5, <2>6 DEF IndInv
<1> QED BY <1>12, <1>13

(* The sequences of a finite set name each of its elements, once. *)
LEMMA SetToSeqsOnto ==
  ASSUME NEW S, IsFiniteSet(S), NEW order \in SetToSeqs(S)
  PROVE  /\ Cardinality(S) \in Nat
         /\ order \in [1 .. Cardinality(S) -> S]
         /\ \A j, k \in 1 .. Cardinality(S) : order[j] = order[k] => j = k
         /\ \A s \in S : \E k \in 1 .. Cardinality(S) : order[k] = s
<1> DEFINE n == Cardinality(S)
<1>1. n \in Nat
  BY FS_CardinalityType
<1>2. /\ order \in [1 .. n -> S]
      /\ \A j, k \in 1 .. n : order[j] = order[k] => j = k
  BY DEF SetToSeqs
<1>3. Cardinality(1 .. n) = n
  BY <1>1, FS_Interval
<1> HIDE DEF n
<1>4. order \in Injection(1 .. n, S)
  BY <1>2 DEF Injection, IsInjective
<1>5. order \in Surjection(1 .. n, S)
  BY <1>3, <1>4, FS_Injection DEF n
<1>6. \A s \in S : \E k \in 1 .. n : order[k] = s
  BY <1>2, <1>5 DEF Surjection
<1> QED BY <1>1, <1>2, <1>6 DEF n

LEMMA ResetStepInv ==
  ASSUME IndInv, NEW t \in Threads, Reset(t)
  PROVE  IndInv'
<1>1. PICK served \in SUBSET Putters :
        /\ Cardinality(served) = Capacity \/ served = Putters
        /\ Cardinality(served) <= Capacity
        /\ \E order \in SetToSeqs(served) : queue' = [k \in DOMAIN order |-> ptr[order[k]]]
        /\ ptr' = [p \in Threads |-> IF p \in served THEN Null ELSE ptr[p]]
        /\ pc' = [p \in Threads |-> IF p \in served \cup {t} THEN "idle" ELSE pc[p]]
  BY DEF Reset
<1>2. PICK order \in SetToSeqs(served) : queue' = [k \in DOMAIN order |-> ptr[order[k]]]
  BY <1>1
<1>3. pc[t] = "reset" /\ UNCHANGED <<held, heap, excused>>
  BY DEF Reset
<1>4. Types /\ PutsWait /\ HeldLive /\ Separate /\ PointersLive
  BY TypeParts DEF IndInv
<1> DEFINE n == Cardinality(served)
<1>5. /\ n \in Nat /\ order \in [1 .. n -> served]
      /\ \A j, k \in 1 .. n : order[j] = order[k] => j = k
      /\ \A p \in served : \E k \in 1 .. n : order[k] = p
  <2>1. IsFiniteSet(served)
    BY FS_Subset DEF Putters
  <2> QED BY <2>1, SetToSeqsOnto
<1>6. /\ n <= Capacity /\ (n = Capacity \/ served = Putters)
  BY <1>1
<1> HIDE DEF n
<1>7. \A p \in served : /\ p \in Threads /\ p \in Putters /\ p # t
                        /\ ptr[p] \in Objects /\ ptr[p] # Null /\ ptr'[p] = Null
  BY <1>1, <1>3, <1>4 DEF Putters, Types, PutsWait, HeldLive
<1>8. /\ DOMAIN queue' = 1 .. n
      /\ \A k \in 1 .. n : queue'[k] = ptr[order[k]] /\ order[k] \in served
  BY <1>2, <1>5
<1>9. /\ queue' \in Seq(Objects) /\ Len(queue') = n
  <2>1. queue' = [k \in 1 .. n |-> ptr[order[k]]]
    BY <1>2, <1>5
  <2>2. \A k \in 1 .. n : ptr[order[k]] \in Objects
    BY <1>5, <1>7
  <2>3. queue' \in [1 .. n -> Objects]
    BY <2>1, <2>2
  <2>4. queue' \in Seq(Objects)
    BY <1>5, <2>3, SeqDef
  <2>5. Len(queue') = n
    BY <1>5, <1>8, <2>4, LenProperties
  <2> QED BY <2>4, <2>5
<1>10. TypeOK'
  <2>1. Types'
    BY <1>1, <1>3, <1>4 DEF Types
  <2>2. PutsWait' /\ HeldLive'
    BY <1>1, <1>3, <1>4 DEF Types, PutsWait, HeldLive
  <2>3. QueueType'
    BY <1>6, <1>9 DEF QueueType
  <2> QED BY <2>1, <2>2, <2>3, TypeParts
<1>11. \A u \in Threads : ptr'[u] = ptr[u] \/ ptr'[u] = Null
  BY <1>1
<1>12. Separate'
  <2>1. \A u, v \in Threads :
          /\ held'[u] = held'[v] => u = v \/ held'[u] = Null
          /\ ptr'[u] = ptr'[v] => u = v \/ ptr'[u] = Null
          /\ held'[u] = ptr'[v] => held'[u] = Null
    BY <1>3, <1>4, <1>11 DEF Separate
  <2>2. \A j, k \in DOMAIN queue' : queue'[j] = queue'[k] => j = k
    <3>1. \A p, q \in served : ptr[p] = ptr[q] => p = q
      BY <1>4, <1>7 DEF Separate
    <3> QED BY <1>5, <1>8, <3>1
  <2>3. \A p \in served, u \in Threads : ptr[p] # held'[u] /\ ptr[p] # ptr'[u]
    BY <1>3, <1>4, <1>7, <1>11 DEF Separate
  <2>4. \A u \in Threads, k \in DOMAIN queue' : queue'[k] # held'[u] /\ queue'[k] # ptr'[u]
    BY <1>8, <2>3
  <2> QED BY <2>1, <2>2, <2>4 DEF Separate
<1>13. PointersLive'
  BY <1>3, <1>4, <1>7, <1>8, <1>11 DEF PointersLive
<1>14. /\ \A k \in DOMAIN queue : queue[k] \in excused
       /\ \A p \in Putters : ptr[p] \in excused
  BY <1>3 DEF IndInv, ResetInv
<1>15. ResetInv'
  <2>1. \A u \in Putters' : u \in Putters /\ u \notin served /\ ptr'[u] = ptr[u]
    BY <1>1 DEF Putters
  <2>2. Putters' # {} => Full'
    BY <1>6, <1>9, <2>1 DEF Full
  <2>3. \A k \in DOMAIN queue' : queue'[k] \in excused
    BY <1>7, <1>8, <1>14
  <2> QED BY <1>3, <1>14, <2>1, <2>2, <2>3 DEF ResetInv
<1>16. Accounted'
  <2>1. \A p \in served : \E k \in DOMAIN queue' : queue'[k] = ptr[p]
    BY <1>5, <1>8
  <2>2. \A u \in Threads : u \notin served => ptr'[u] = ptr[u]
    BY <1>1
  <2> QED BY <1>3, <1>14, <2>1, <2>2 DEF Accounted, IndInv
<1> QED BY <1>10, <1>12, <1>13, <1>15, <1>16 DEF IndInv

LEMMA ReplaceInv == IndInv /\ Replace => IndInv'
<1> SUFFICES ASSUME IndInv, Replace PROVE IndInv'
  OBVIOUS
<1>1. /\ \A t \in Threads : pc[t] = "idle"
      /\ queue' = << >>
      /\ excused' = excused \cup {queue[k] : k \in DOMAIN queue}
      /\ UNCHANGED <<held, ptr, pc, heap>>
  BY DEF Replace
<1>2. queue' \in Seq(Objects) /\ Len(queue') = 0 /\ DOMAIN queue' = {}
  BY <1>1, EmptySeq
<1>3. Types /\ PutsWait /\ HeldLive /\ \A k \in DOMAIN queue : queue[k] \in Objects
  BY TypeParts, QueueElements DEF IndInv
<1>4. TypeOK'
  <2>1. Types' /\ PutsWait' /\ HeldLive'
    BY <1>1, <1>3 DEF Types, PutsWait, HeldLive
  <2> QED BY <1>2, <2>1, TypeParts DEF QueueType
<1>5. Separate' /\ PointersLive'
  BY <1>1, <1>2 DEF IndInv, Separate, PointersLive
<1>6. ResetInv'
  BY <1>1, <1>2 DEF ResetInv, Putters
<1>7. Accounted'
  BY <1>1 DEF IndInv, Accounted
<1> QED BY <1>4, <1>5, <1>6, <1>7 DEF IndInv

LEMMA NextInv == IndInv /\ [Next]_vars => IndInv'
<1> SUFFICES ASSUME IndInv, [Next]_vars PROVE IndInv'
  OBVIOUS
<1>1. ASSUME NEW t \in Threads, Create(t) \/ Destroy(t) PROVE IndInv'
  BY <1>1, CallerInv
<1>2. ASSUME NEW t \in Threads, NEW wait \in Waits, Put(t, wait) PROVE IndInv'
  BY <1>2, PutInv
<1>3. ASSUME NEW t \in Threads, NEW wait \in Waits, PutFails(t, wait) PROVE IndInv'
  BY <1>3, PutFailsInv
<1>4. ASSUME NEW t \in Threads, NEW wait \in Waits, Get(t, wait) PROVE IndInv'
  <2>1. pc[t] = "idle"
    BY <1>4 DEF Get
  <2>2. CASE Take(t)
    BY <2>1, <2>2, TakeInv
  <2>3. CASE Forget(t)
    BY <2>1, <2>3, ForgetInv
  <2>4. CASE /\ pc' = [pc EXCEPT ![t] = IF wait = "timed" THEN "timedGet" ELSE "get"]
             /\ UNCHANGED <<held, ptr, queue, heap, excused>>
    <3>1. CASE wait = "timed"
      BY <2>1, <2>4, <3>1, WaitForMessageInv
    <3>2. CASE wait # "timed"
      BY <2>1, <2>4, <3>2, WaitForMessageInv
    <3> QED BY <3>1, <3>2
  <2> QED BY <1>4, <2>2, <2>3, <2>4 DEF Get
<1>5. ASSUME NEW t \in Threads, PutTimesOut(t) PROVE IndInv'
  <2>1. "poll" \in Waits
    BY DEF Waits
  <2> QED BY <1>5, <2>1, PutFailsInv
<1>6. ASSUME NEW t \in Threads, GetTimesOut(t) PROVE IndInv'
  BY <1>6, ForgetInv DEF GetTimesOut
<1>7. ASSUME NEW t \in Threads, Clear(t) \/ TestEmpty(t) PROVE IndInv'
  BY <1>7, ClearInv
<1>8. ASSUME NEW t \in Threads, Pop(t) PROVE IndInv'
  <2>1. pc[t] = "clearPop"
    BY <1>8 DEF Pop
  <2>2. CASE Take(t)
    BY <2>1, <2>2, TakeInv
  <2>3. CASE /\ pc' = [pc EXCEPT ![t] = "clearGet"]
             /\ UNCHANGED <<held, ptr, queue, heap, excused>>
    BY <2>1, <2>3, WaitForMessageInv
  <2> QED BY <1>8, <2>2, <2>3 DEF Pop
<1>9. ASSUME NEW t \in Threads, Reset(t) PROVE IndInv'
  BY <1>9, ResetStepInv
<1>10. ASSUME UNCHANGED vars PROVE IndInv'
  <2>1. UNCHANGED <<held, ptr, pc, queue, heap, excused>>
    BY <1>10 DEF vars
  <2>2. Types' /\ PutsWait' /\ HeldLive' /\ QueueType'
    BY <2>1, TypeParts DEF IndInv, Types, PutsWait, HeldLive, QueueType
  <2>3. Separate' /\ PointersLive' /\ Accounted'
    BY <2>1 DEF IndInv, Separate, PointersLive, Accounted
  <2>4. ResetInv'
    BY <2>1 DEF IndInv, ResetInv, Putters, Full
  <2> QED BY <2>2, <2>3, <2>4, TypeParts DEF IndInv
<1> QED
  BY <1>1, <1>2, <1>3, <1>4, <1>5, <1>6, <1>7, <1>8, <1>9, <1>10, ReplaceInv DEF Next

(* Every reachable state satisfies the inductive invariant: objects in     *)
(* different places are different and alive, a put waits only for a place, *)
(* and what a reset finds was put during the clear() that makes it.        *)
THEOREM Inductive == Spec => []IndInv
  BY InitInv, NextInv, PTL DEF Spec

(* The variables of the queue and of its threads keep their types.         *)
THEOREM TypeCorrect == Spec => []TypeOK
<1>1. IndInv => TypeOK
  BY DEF IndInv
<1> QED BY <1>1, Inductive, PTL

(* However puts, gets, timeouts and clears meet, an object of the heap has *)
(* at most one owner, and a deleted one none.                              *)
THEOREM EveryObjectHasOneOwner == Spec => []OneOwner
<1>1. IndInv => OneOwner
  <2> SUFFICES ASSUME IndInv, NEW o \in Objects
               PROVE  /\ \A p, q \in Places(o) : p = q
                      /\ heap[o] # "live" => Places(o) = {}
    BY DEF OneOwner
  <2>1. o # Null
    OBVIOUS
  <2>2. ASSUME NEW p \in Places(o)
        PROVE  \/ \E t \in Threads : p = <<"held", t>> /\ held[t] = o
               \/ \E t \in Threads : p = <<"put", t>> /\ ptr[t] = o
               \/ \E k \in DOMAIN queue : p = <<"queue", k>> /\ queue[k] = o
    BY <2>2 DEF Places
  <2>3. \A p, q \in Places(o) : p = q
    BY <2>1, <2>2 DEF IndInv, Separate
  <2>4. Places(o) # {} => heap[o] = "live"
    BY <2>1, <2>2 DEF IndInv, TypeOK, PointersLive
  <2> QED BY <2>3, <2>4
<1> QED BY <1>1, Inductive, PTL

(* An object is lost only where its put told the caller, or was made while *)
(* a clear() ran, or where a queue was destroyed that still held it.       *)
THEOREM OnlyExcusedObjectsAreLost == Spec => []NothingElseIsLost
<1>1. IndInv => NothingElseIsLost
  <2> SUFFICES ASSUME IndInv, NEW o \in Objects, heap[o] = "live", Places(o) = {}
               PROVE  o \in excused
    BY DEF NothingElseIsLost
  <2>1. ASSUME NEW t \in Threads PROVE held[t] # o /\ ptr[t] # o
    <3>1. held[t] = o => <<"held", t>> \in Places(o)
      BY DEF Places
    <3>2. ptr[t] = o => <<"put", t>> \in Places(o)
      BY DEF Places
    <3> QED BY <3>1, <3>2
  <2>2. ASSUME NEW k \in DOMAIN queue PROVE queue[k] # o
    <3>1. queue[k] = o => <<"queue", k>> \in Places(o)
      BY DEF Places
    <3> QED BY <3>1
  <2> QED BY <2>1, <2>2 DEF IndInv, Accounted
<1> QED BY <1>1, Inductive, PTL

(* A thread that is about to reset the queue would lose only messages put, *)
(* and serve only puts made, during a clear(): its own, or one of another  *)
(* thread before it.                                                       *)
OnlyLatePutsAtReset ==
  \A t \in Threads : pc[t] = "reset" =>
    /\ \A k \in DOMAIN queue : queue[k] \in excused
    /\ \A u \in Putters : ptr[u] \in excused

(* When clear() resets the queue after it has looked empty, there may be   *)
(* messages in it again, but none whose put began while no thread was in a *)
(* clear(), and none of such a put that waits for a place.                 *)
THEOREM ResetFindsLatePutsOnly == Spec => []OnlyLatePutsAtReset
<1>1. IndInv => OnlyLatePutsAtReset
  BY DEF IndInv, ResetInv, OnlyLatePutsAtReset
<1> QED BY <1>1, Inductive, PTL
=============================================================================
