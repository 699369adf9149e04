------------------------------ MODULE MemoryPool ------------------------------
(***************************************************************************)
(* memory_pool and memory_pool_delete (include/Memory.h, src/Memory.cpp):  *)
(* pools that are moved, allocations that wait for a block, make_unique    *)
(* and make_shared with a constructor that may throw, and deleters that    *)
(* give a block back to whatever pool their pool object has by then.       *)
(*                                                                         *)
(* A shared_ptr is modelled by its last owner.  No pool is deleted with    *)
(* living associated smart pointers, as the README asks.                   *)
(***************************************************************************)
EXTENDS Kernel

CONSTANTS
  Pools,      (* the objects of class memory_pool                          *)
  PoolIds,    (* the pools of the RTOS: what m_id refers to                *)
  Moved,      (* the id 0, of a pool that was moved from                   *)
  NoPool,     (* no pool object, and the id of one that is not constructed *)
  Slots,      (* the places for blocks in each pool                        *)
  Pointers,   (* the smart pointers                                        *)
  NoBlock     (* the null pointer                                          *)

ASSUME PoolAssumption ==
  /\ Moved \notin PoolIds /\ NoPool \notin PoolIds \cup Pools \cup {Moved}
  /\ NoBlock \notin PoolIds \X Slots

VARIABLES
  poolId,    (* m_id of each pool object                                   *)
  existing,  (* the pools that the RTOS has                                *)
  used,      (* the blocks that are allocated                              *)
  making,    (* the pool object each thread makes an object from, and the  *)
             (* block that it got                                          *)
  pointer,   (* the block of each smart pointer, and its deleter's pool    *)
  disturbed  (* a pool was moved with living smart pointers                *)

poolVars == <<poolId, existing, used, making, pointer, disturbed>>

Blocks == PoolIds \X Slots

NotMaking == [pool |-> NoPool, block |-> NoBlock, waits |-> FALSE]
Empty == [block |-> NoBlock, pool |-> NoPool]

PoolInit ==
  /\ poolId = [o \in Pools |-> NoPool]
  /\ existing = {}
  /\ used = {}
  /\ making = [t \in Threads |-> NotMaking]
  /\ pointer = [p \in Pointers |-> Empty]
  /\ disturbed = FALSE

(* The README's rule, for the pool i; and nobody is in a call of object o. *)
NoLivingPointers(i) == \A p \in Pointers : pointer[p].block \notin {i} \X Slots
Unused(o) == \A t \in Threads : making[t].pool # o

(* Some smart pointer has a deleter that refers to o. *)
Referred(o) == \E p \in Pointers : pointer[p].pool = o

-----------------------------------------------------------------------------
(* memory_pool(count) *)
PoolNew(t, o) ==
  /\ Ready(t) /\ poolId[o] = NoPool
  /\ \E i \in PoolIds \ existing :
       /\ poolId' = [poolId EXCEPT ![o] = i]
       /\ existing' = existing \cup {i}
  /\ UNCHANGED <<used, making, pointer, disturbed, busy, program>>

(* memory_pool(memory_pool&&) *)
PoolMove(t, o, from) ==
  /\ Ready(t) /\ poolId[o] = NoPool /\ poolId[from] # NoPool /\ Unused(from)
  /\ poolId' = [poolId EXCEPT ![o] = poolId[from], ![from] = Moved]
  /\ disturbed' = (disturbed \/ Referred(from))
  /\ UNCHANGED <<existing, used, making, pointer, busy, program>>

(* operator=(memory_pool&&) deletes the pool that o had. *)
PoolAssign(t, o, from) ==
  /\ Ready(t) /\ o # from /\ NoPool \notin {poolId[o], poolId[from]}
  /\ Unused(o) /\ Unused(from) /\ NoLivingPointers(poolId[o])
  /\ existing' = existing \ {poolId[o]}
  /\ poolId' = [poolId EXCEPT ![o] = poolId[from], ![from] = Moved]
  /\ disturbed' = (disturbed \/ Referred(from) \/ Referred(o))
  /\ UNCHANGED <<used, making, pointer, busy, program>>

(* ~memory_pool deletes the pool, if there is one. *)
PoolDestroy(t, o) ==
  /\ Ready(t) /\ poolId[o] # NoPool
  /\ Unused(o) /\ NoLivingPointers(poolId[o])
  /\ existing' = existing \ {poolId[o]}
  /\ poolId' = [poolId EXCEPT ![o] = NoPool]
  /\ UNCHANGED <<used, making, pointer, disturbed, busy, program>>

-----------------------------------------------------------------------------
FreeBlocks(i) == ({i} \X Slots) \ used

(* make_unique and make_shared begin with allocate: a block of the pool,   *)
(* or a wait for one, or bad_alloc where there is no pool or no waiting.   *)
Make(t, o) ==
  /\ Ready(t) /\ poolId[o] # NoPool
  /\ \/ \E b \in FreeBlocks(poolId[o]) :
          /\ poolId[o] \in PoolIds
          /\ used' = used \cup {b}
          /\ making' = [making EXCEPT ![t] = [pool |-> o, block |-> b, waits |-> FALSE]]
          /\ busy' = busy \cup {t}
     \/ /\ poolId[o] \in PoolIds /\ FreeBlocks(poolId[o]) = {} /\ CanBlock
        /\ making' = [making EXCEPT ![t] = [pool |-> o, block |-> NoBlock, waits |-> TRUE]]
        /\ busy' = busy \cup {t}
        /\ UNCHANGED used
  /\ UNCHANGED <<poolId, existing, pointer, disturbed, program>>

(* osMemoryPoolFree gives block b to a thread that waits for one, if any   *)
(* does; m is what threads are making besides.                             *)
Free(b, m) ==
  LET waiting == {t \in Threads : m[t].waits /\ poolId[m[t].pool] = b[1]} IN
  \/ /\ \E t \in waiting : making' = [m EXCEPT ![t].block = b, ![t].waits = FALSE]
     /\ UNCHANGED used
  \/ /\ waiting = {}
     /\ used' = used \ {b}
     /\ making' = m

(* memory_pool_delete::operator() with a reference to the pool object o.   *)
(* The exception of a pool that is not the block's leaves a destructor.    *)
Delete(o, b, m) ==
  \/ poolId[o] = b[1] /\ Free(b, m) /\ UNCHANGED program
  \/ poolId[o] # b[1] /\ program' = "deleter" /\ UNCHANGED making /\ UNCHANGED used

Builds(t) == Runs(t) /\ making[t].block # NoBlock

(* Mutated: the deleter refers to a pool that was moved from. *)
MadeElsewhere(t, p) ==
  /\ Builds(t) /\ pointer[p] = Empty
  /\ pointer' = [pointer EXCEPT ![p] = [block |-> making[t].block,
                                       pool |-> CHOOSE o \in Pools : o # making[t].pool]]
  /\ making' = [making EXCEPT ![t] = NotMaking]
  /\ busy' = busy \ {t}
  /\ UNCHANGED <<poolId, existing, used, disturbed, program>>

(* The constructor returns, and the caller has a smart pointer. *)
Made(t, p) ==
  /\ Builds(t) /\ pointer[p] = Empty
  /\ pointer' = [pointer EXCEPT ![p] = [block |-> making[t].block, pool |-> making[t].pool]]
  /\ making' = [making EXCEPT ![t] = NotMaking]
  /\ busy' = busy \ {t}
  /\ UNCHANGED <<poolId, existing, used, disturbed, program>>

(* Mutated: the object is constructed before a smart pointer owns it. *)
MakeThrowsUnowned(t) ==
  /\ Builds(t)
  /\ making' = [making EXCEPT ![t] = NotMaking]
  /\ busy' = busy \ {t}
  /\ UNCHANGED <<poolId, existing, used, pointer, disturbed, program>>

(* The constructor throws, or make_shared has no memory for its counters,  *)
(* and the deleter gives the block back.                                   *)
MakeThrows(t) ==
  /\ Builds(t)
  /\ Delete(making[t].pool, making[t].block, [making EXCEPT ![t] = NotMaking])
  /\ busy' = busy \ {t}
  /\ UNCHANGED <<poolId, existing, pointer, disturbed>>

(* A smart pointer lets go of its object. *)
Reset(t, p) ==
  /\ Ready(t) /\ pointer[p] # Empty
  /\ Delete(pointer[p].pool, pointer[p].block, making)
  /\ pointer' = IF program' = "running" THEN [pointer EXCEPT ![p] = Empty] ELSE pointer
  /\ UNCHANGED <<poolId, existing, disturbed, busy>>

PoolNext ==
  \E t \in Threads :
    \/ \E o \in Pools :
         \/ PoolNew(t, o) \/ PoolDestroy(t, o) \/ Make(t, o)
         \/ \E from \in Pools : PoolMove(t, o, from) \/ PoolAssign(t, o, from)
    \/ \E p \in Pointers : Made(t, p) \/ Reset(t, p)
    \/ MakeThrows(t)

-----------------------------------------------------------------------------
PoolTypeOK ==
  /\ poolId \in [Pools -> PoolIds \cup {Moved, NoPool}]
  /\ existing \subseteq PoolIds
  /\ used \subseteq Blocks
  /\ making \in [Threads -> [pool : Pools \cup {NoPool}, block : Blocks \cup {NoBlock},
                              waits : BOOLEAN]]
  /\ pointer \in [Pointers -> [block : Blocks \cup {NoBlock}, pool : Pools \cup {NoPool}]]
  /\ disturbed \in BOOLEAN

(* Every allocated block belongs to a pool that exists and to one smart    *)
(* pointer, or one call that is making an object in it; what they have is  *)
(* allocated, and no two have the same.  No constructor that throws and no *)
(* wait for a block loses one.                                             *)
UsedIsOwned ==
  /\ \A b \in used :
       /\ b[1] \in existing
       /\ (\E p \in Pointers : pointer[p].block = b) \/ (\E t \in Threads : making[t].block = b)
  /\ \A p \in Pointers : pointer[p].block \in used \cup {NoBlock}
  /\ \A t \in Threads : making[t].block \in used \cup {NoBlock}
  /\ \A p, q \in Pointers :
       pointer[p].block = pointer[q].block /\ pointer[p].block # NoBlock => p = q
  /\ \A t, u \in Threads :
       making[t].block = making[u].block /\ making[t].block # NoBlock => t = u
  /\ \A p \in Pointers, t \in Threads :
       pointer[p].block = making[t].block => pointer[p].block = NoBlock

(* A deleter fails only after a pool was moved with living smart pointers: *)
(* otherwise the pool object it refers to still has the pool of its block. *)
DeleterFailsAfterAMove == program = "deleter" => disturbed
=============================================================================
