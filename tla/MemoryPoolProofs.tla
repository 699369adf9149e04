--------------------------- MODULE MemoryPoolProofs ---------------------------
(***************************************************************************)
(* For any threads, pools, blocks and smart pointers: no block is lost or  *)
(* owned twice, and a deleter fails only after a move.                     *)
(***************************************************************************)
EXTENDS ObjectsProofs

(* The smart pointers P and the calls m own the blocks u, each one.        *)
Owners(u, P, m) ==
  /\ \A b \in u : (\E p \in Pointers : P[p].block = b) \/ (\E t \in Threads : m[t].block = b)
  /\ \A p \in Pointers : P[p].block \in u \cup {NoBlock}
  /\ \A t \in Threads : m[t].block \in u \cup {NoBlock}
  /\ \A p, q \in Pointers : P[p].block = P[q].block /\ P[p].block # NoBlock => p = q
  /\ \A t, v \in Threads : m[t].block = m[v].block /\ m[t].block # NoBlock => t = v
  /\ \A p \in Pointers, t \in Threads : P[p].block = m[t].block => P[p].block = NoBlock

(* A call, and a smart pointer, get a block that nobody has.               *)
LEMMA CallGets ==
  ASSUME NEW u, NEW P, NEW m, NEW n, NEW b, NEW w \in Threads, Owners(u, P, m),
         b \notin u, b # NoBlock, NoBlock \notin u, m[w].block = NoBlock, n[w].block = b,
         \A t \in Threads : t # w => n[t].block = m[t].block
  PROVE  Owners(u \cup {b}, P, n)
<1>1. \A c \in u : (\E p \in Pointers : P[p].block = c) \/ (\E t \in Threads : t # w /\ m[t].block = c)
  BY DEF Owners
<1> QED BY <1>1 DEF Owners

LEMMA PointerGets ==
  ASSUME NEW u, NEW P, NEW Q, NEW m, NEW b, NEW q \in Pointers, Owners(u, P, m),
         b \notin u, b # NoBlock, NoBlock \notin u, P[q].block = NoBlock, Q[q].block = b,
         \A p \in Pointers : p # q => Q[p].block = P[p].block
  PROVE  Owners(u \cup {b}, Q, m)
<1>1. \A c \in u : (\E p \in Pointers : p # q /\ P[p].block = c) \/ (\E t \in Threads : m[t].block = c)
  BY DEF Owners
<1> QED BY <1>1 DEF Owners

(* They give it away.                                                      *)
LEMMA CallLoses ==
  ASSUME NEW u, NEW P, NEW m, NEW n, NEW w \in Threads, Owners(u, P, m),
         NoBlock \notin u, m[w].block # NoBlock, n[w].block = NoBlock,
         \A t \in Threads : t # w => n[t].block = m[t].block
  PROVE  Owners(u \ {m[w].block}, P, n)
<1>1. \A c \in u \ {m[w].block} :
        (\E p \in Pointers : P[p].block = c) \/ (\E t \in Threads : t # w /\ m[t].block = c)
  BY DEF Owners
<1> QED BY <1>1 DEF Owners

LEMMA PointerLoses ==
  ASSUME NEW u, NEW P, NEW Q, NEW m, NEW q \in Pointers, Owners(u, P, m),
         NoBlock \notin u, P[q].block # NoBlock, Q[q].block = NoBlock,
         \A p \in Pointers : p # q => Q[p].block = P[p].block
  PROVE  Owners(u \ {P[q].block}, Q, m)
<1>1. \A c \in u \ {P[q].block} :
        (\E p \in Pointers : p # q /\ P[p].block = c) \/ (\E t \in Threads : m[t].block = c)
  BY DEF Owners
<1> QED BY <1>1 DEF Owners

-----------------------------------------------------------------------------
(* Every pool of the RTOS has one pool object at most.                     *)
PoolsFit ==
  /\ \A o \in Pools : poolId[o] \in PoolIds => poolId[o] \in existing
  /\ \A o, q \in Pools : poolId[o] = poolId[q] /\ poolId[o] \in PoolIds => o = q

(* A call waits for a block or has one, of the pool that it was made for.  *)
MakingFits ==
  \A t \in Threads :
    /\ making[t] # NotMaking => making[t].pool \in Pools /\ plan.part = "pool" /\ t \in busy
    /\ making[t].waits => making[t].block = NoBlock
    /\ making[t].block # NoBlock => poolId[making[t].pool] = making[t].block[1]

(* Until a pool is moved away from them, smart pointers refer to a pool    *)
(* object that has the pool of their block.                                *)
PointersFit ==
  ~disturbed => \A p \in Pointers : pointer[p].block # NoBlock =>
                  pointer[p].pool \in Pools /\ poolId[pointer[p].pool] = pointer[p].block[1]

PoolInv == UsedIsOwned /\ PoolsFit /\ MakingFits /\ PointersFit /\ DeleterFailsAfterAMove

LEMMA OwnersOfUsed ==
  UsedIsOwned <=> (\A b \in used : b[1] \in existing) /\ Owners(used, pointer, making)
BY DEF UsedIsOwned, Owners

LEMMA BlockIsOfPool ==
  /\ \A b \in Blocks : b[1] \in PoolIds /\ b # NoBlock
  /\ \A b \in Blocks, i \in PoolIds : b \in {i} \X Slots <=> b[1] = i
BY PoolAssumption DEF Blocks

(* The steps of pool objects.                                              *)
LEMMA PoolObjectsKeep ==
  ASSUME PoolTypeOK, PoolInv, UNCHANGED plan, NEW t \in Threads, NEW o \in Pools, NEW from \in Pools,
         \/ PoolNew(t, o) \/ PoolMove(t, o, from) \/ PoolAssign(t, o, from) \/ PoolDestroy(t, o)
  PROVE  PoolInv'
<1>0. UNCHANGED <<used, making, pointer, busy, program>> /\ program # "deleter"
  BY DEF PoolNew, PoolMove, PoolAssign, PoolDestroy, Ready, Runs
<1>a. \A b \in used : b \in Blocks /\ b[1] \in PoolIds /\ b # NoBlock
  BY BlockIsOfPool DEF PoolTypeOK
<1>1. NoPool \notin PoolIds /\ Moved \notin PoolIds
  BY PoolAssumption
<1>d. DeleterFailsAfterAMove'
  BY <1>0 DEF DeleterFailsAfterAMove
<1>2. ASSUME PoolsFit', \A b \in used : b[1] \in existing',
             \A v \in Threads : making[v].block # NoBlock =>
               poolId'[making[v].pool] = poolId[making[v].pool],
             \A p \in Pointers : ~disturbed' /\ pointer[p].block # NoBlock =>
               ~disturbed /\ poolId'[pointer[p].pool] = poolId[pointer[p].pool]
      PROVE  PoolInv'
  <2>1. UsedIsOwned'
    BY <1>0, <1>2 DEF PoolInv, UsedIsOwned
  <2>2. MakingFits'
    BY <1>0, <1>2 DEF PoolInv, MakingFits
  <2>3. PointersFit'
    BY <1>0, <1>2 DEF PoolInv, PointersFit
  <2> QED BY <1>2, <1>d, <2>1, <2>2, <2>3 DEF PoolInv
<1>3. \A v \in Threads : making[v].block # NoBlock =>
        making[v].pool \in Pools /\ poolId[making[v].pool] = making[v].block[1]
        /\ making[v].block \in used
  BY DEF PoolInv, MakingFits, UsedIsOwned, NotMaking
<1>4. \A p \in Pointers : pointer[p].block # NoBlock => pointer[p].block \in used
  BY DEF PoolInv, UsedIsOwned
<1>5. CASE PoolNew(t, o)
  <2>1. PICK i \in PoolIds \ existing :
          poolId' = [poolId EXCEPT ![o] = i] /\ existing' = existing \cup {i}
    BY <1>5 DEF PoolNew
  <2>2. /\ poolId[o] = NoPool /\ UNCHANGED disturbed /\ poolId'[o] = i
        /\ \A q \in Pools : q # o => poolId'[q] = poolId[q]
    BY <1>5, <2>1 DEF PoolNew, PoolTypeOK
  <2>3. PoolsFit'
    BY <2>1, <2>2 DEF PoolInv, PoolsFit
  <2>4. \A b \in used : b[1] \in existing'
    BY <2>1 DEF PoolInv, UsedIsOwned
  <2> QED BY <1>a, <1>1, <1>2, <1>3, <1>4, <2>2, <2>3, <2>4 DEF PoolInv, PointersFit
<1>6. CASE PoolMove(t, o, from)
  <2>1. /\ poolId[o] = NoPool /\ o # from /\ poolId'[o] = poolId[from] /\ poolId'[from] = Moved
        /\ \A q \in Pools : q # o /\ q # from => poolId'[q] = poolId[q]
        /\ UNCHANGED existing /\ Unused(from)
        /\ ~disturbed' => ~disturbed /\ ~Referred(from)
    BY <1>6 DEF PoolMove, PoolTypeOK
  <2>2. PoolsFit'
    BY <1>1, <2>1 DEF PoolInv, PoolsFit
  <2>3. \A v \in Threads : making[v].block # NoBlock => making[v].pool # o /\ making[v].pool # from
    BY <1>a, <1>1, <1>3, <2>1 DEF Unused
  <2>4. \A p \in Pointers : ~disturbed' /\ pointer[p].block # NoBlock =>
          pointer[p].pool \in Pools /\ pointer[p].pool # o /\ pointer[p].pool # from
    BY <1>a, <1>1, <1>4, <2>1 DEF PoolInv, PointersFit, Referred
  <2> QED BY <1>2, <1>3, <2>1, <2>2, <2>3, <2>4 DEF PoolInv, UsedIsOwned
<1>7. ASSUME existing' = existing \ {poolId[o]}, Unused(o), NoLivingPointers(poolId[o])
      PROVE  \A b \in used : b[1] \in existing'
  <2> TAKE b \in used
  <2>1. b[1] \in existing /\ b \in Blocks /\ b[1] \in PoolIds
    BY <1>a DEF PoolInv, UsedIsOwned
  <2>2. SUFFICES b[1] # poolId[o]
    BY <1>7, <2>1
  <2>3. SUFFICES ASSUME b[1] = poolId[o] PROVE FALSE
    OBVIOUS
  <2>4. \A p \in Pointers : pointer[p].block # b
    BY <1>7, <2>1, <2>3, BlockIsOfPool DEF NoLivingPointers
  <2>5. PICK v \in Threads : making[v].block = b
    BY <2>4 DEF PoolInv, UsedIsOwned
  <2>6. making[v].pool \in Pools /\ poolId[making[v].pool] = poolId[o]
    BY <1>a, <1>3, <2>3, <2>5
  <2>7. making[v].pool = o
    BY <2>1, <2>3, <2>6 DEF PoolInv, PoolsFit
  <2> QED BY <1>7, <2>7 DEF Unused
<1>8. CASE PoolAssign(t, o, from)
  <2>1. /\ o # from /\ poolId'[o] = poolId[from] /\ poolId'[from] = Moved
        /\ \A q \in Pools : q # o /\ q # from => poolId'[q] = poolId[q]
        /\ existing' = existing \ {poolId[o]} /\ Unused(o) /\ Unused(from)
        /\ NoLivingPointers(poolId[o])
        /\ ~disturbed' => ~disturbed /\ ~Referred(from) /\ ~Referred(o)
    BY <1>8 DEF PoolAssign, PoolTypeOK
  <2>2. PoolsFit'
    BY <1>1, <2>1 DEF PoolInv, PoolsFit
  <2>3. \A v \in Threads : making[v].pool # o /\ making[v].pool # from
    BY <2>1 DEF Unused
  <2>4. \A p \in Pointers : ~disturbed' /\ pointer[p].block # NoBlock =>
          pointer[p].pool \in Pools /\ pointer[p].pool # o /\ pointer[p].pool # from
    BY <2>1 DEF PoolInv, PointersFit, Referred
  <2> QED BY <1>2, <1>3, <1>7, <2>1, <2>2, <2>3, <2>4
<1>9. CASE PoolDestroy(t, o)
  <2>1. /\ poolId'[o] = NoPool /\ \A q \in Pools : q # o => poolId'[q] = poolId[q]
        /\ existing' = existing \ {poolId[o]} /\ Unused(o) /\ NoLivingPointers(poolId[o])
        /\ UNCHANGED disturbed
    BY <1>9 DEF PoolDestroy, PoolTypeOK
  <2>2. PoolsFit'
    BY <1>1, <2>1 DEF PoolInv, PoolsFit
  <2>3. \A v \in Threads : making[v].pool # o
    BY <2>1 DEF Unused
  <2>4. \A p \in Pointers : ~disturbed' /\ pointer[p].block # NoBlock =>
          pointer[p].pool \in Pools /\ pointer[p].pool # o
    BY <1>a, <1>4, <2>1, BlockIsOfPool DEF PoolInv, PointersFit, NoLivingPointers
  <2> QED BY <1>2, <1>3, <1>7, <2>1, <2>2, <2>3, <2>4
<1> QED BY <1>5, <1>6, <1>8, <1>9

-----------------------------------------------------------------------------
LEMMA NotMakingIsEmpty == NotMaking.block = NoBlock /\ ~NotMaking.waits
BY DEF NotMaking

(* The steps of calls.                                                     *)
LEMMA MakeKeeps ==
  ASSUME PoolTypeOK, PoolInv, plan.part = "pool", UNCHANGED plan, NEW t \in Threads, NEW o \in Pools,
         Make(t, o)
  PROVE  PoolInv'
<1>0. /\ UNCHANGED <<poolId, existing, pointer, disturbed, program>> /\ busy' = busy \cup {t}
      /\ t \notin busy /\ program # "deleter" /\ making[t] = NotMaking /\ making[t].block = NoBlock
  BY NotMakingIsEmpty DEF Make, Ready, Runs, PoolInv, MakingFits
<1>a. NoBlock \notin used
  BY PoolAssumption DEF PoolTypeOK, Blocks
<1>1. PoolsFit' /\ PointersFit' /\ DeleterFailsAfterAMove'
  BY <1>0 DEF PoolInv, PoolsFit, PointersFit, DeleterFailsAfterAMove
<1>2. ASSUME NEW b \in FreeBlocks(poolId[o]), poolId[o] \in PoolIds, used' = used \cup {b},
             making' = [making EXCEPT ![t] = [pool |-> o, block |-> b, waits |-> FALSE]]
      PROVE  PoolInv'
  <2>1. b \notin used /\ b \in Blocks /\ b[1] = poolId[o] /\ b # NoBlock
    BY <1>2, BlockIsOfPool DEF FreeBlocks, Blocks
  <2>2. /\ making'[t] = [pool |-> o, block |-> b, waits |-> FALSE]
        /\ \A v \in Threads : v # t => making'[v] = making[v]
    BY <1>2 DEF PoolTypeOK
  <2>3. Owners(used \cup {b}, pointer, making')
    <3>1. \A v \in Threads : v # t => making'[v].block = making[v].block
      BY <2>2
    <3>2. making'[t].block = b /\ Owners(used, pointer, making)
      BY <2>2, OwnersOfUsed DEF PoolInv
    <3> QED BY <1>0, <1>a, <2>1, <3>1, <3>2, CallGets
  <2>4. b[1] \in existing
    BY <1>2, <2>1 DEF PoolInv, PoolsFit
  <2>5. UsedIsOwned'
    BY <1>0, <1>2, <2>3, <2>4, OwnersOfUsed DEF PoolInv, UsedIsOwned, Owners
  <2>6. MakingFits'
    BY <1>0, <2>1, <2>2 DEF PoolInv, MakingFits
  <2> QED BY <1>1, <2>5, <2>6 DEF PoolInv
<1>3. CASE /\ making' = [making EXCEPT ![t] = [pool |-> o, block |-> NoBlock, waits |-> TRUE]]
           /\ UNCHANGED used
  <2>1. /\ making'[t] = [pool |-> o, block |-> NoBlock, waits |-> TRUE]
        /\ \A v \in Threads : v # t => making'[v] = making[v]
    BY <1>3 DEF PoolTypeOK
  <2>2. \A v \in Threads : making'[v].block = making[v].block
    BY <1>0, <2>1
  <2>3. UsedIsOwned'
    BY <1>0, <1>3, <2>2 DEF PoolInv, UsedIsOwned
  <2>4. MakingFits'
    BY <1>0, <2>1 DEF PoolInv, MakingFits
  <2> QED BY <1>1, <2>3, <2>4 DEF PoolInv
<1> QED BY <1>2, <1>3 DEF Make

LEMMA MadeKeeps ==
  ASSUME PoolTypeOK, PoolInv, UNCHANGED plan, NEW t \in Threads, NEW p \in Pointers, Made(t, p)
  PROVE  PoolInv'
<1> DEFINE b == making[t].block
<1>0. /\ UNCHANGED <<poolId, existing, used, disturbed, program>> /\ busy' = busy \ {t}
      /\ program # "deleter" /\ b # NoBlock /\ pointer[p].block = NoBlock
  BY DEF Made, Builds, Runs, Empty
<1>a. NoBlock \notin used /\ b \in used
  BY <1>0, PoolAssumption DEF PoolTypeOK, Blocks, PoolInv, UsedIsOwned
<1>1. /\ making'[t] = NotMaking /\ \A v \in Threads : v # t => making'[v] = making[v]
      /\ pointer'[p] = [block |-> b, pool |-> making[t].pool]
      /\ \A q \in Pointers : q # p => pointer'[q] = pointer[q]
  BY DEF Made, PoolTypeOK
<1>2. Owners(used \ {b}, pointer, making')
  <2>1. /\ making'[t].block = NoBlock /\ Owners(used, pointer, making)
        /\ \A v \in Threads : v # t => making'[v].block = making[v].block
    BY <1>1, OwnersOfUsed DEF NotMaking, PoolInv
  <2> QED BY <1>0, <1>a, <2>1, CallLoses
<1>3. Owners(used, pointer', making')
  <2>1. /\ pointer'[p].block = b /\ (used \ {b}) \cup {b} = used
        /\ \A q \in Pointers : q # p => pointer'[q].block = pointer[q].block
    BY <1>a, <1>1
  <2> HIDE DEF b
  <2>2. Owners((used \ {b}) \cup {b}, pointer', making')
    BY <1>0, <1>a, <1>2, <2>1, PointerGets
  <2> QED BY <2>1, <2>2
<1>4. UsedIsOwned'
  BY <1>0, <1>3, OwnersOfUsed DEF PoolInv, UsedIsOwned, Owners
<1>5. MakingFits'
  BY <1>0, <1>1, NotMakingIsEmpty DEF PoolInv, MakingFits
<1>6. making[t].pool \in Pools /\ poolId[making[t].pool] = b[1]
  BY <1>0 DEF PoolInv, MakingFits, NotMaking
<1>7. PointersFit'
  BY <1>0, <1>1, <1>6 DEF PoolInv, PointersFit
<1> QED BY <1>0, <1>4, <1>5, <1>7 DEF PoolInv, PoolsFit, DeleterFailsAfterAMove

(* A block that nobody owns any more goes to a call that waits, or is free. *)
LEMMA FreeKeeps ==
  ASSUME PoolTypeOK, NEW P, NEW b \in used,
         NEW m \in [Threads -> [pool : Pools \cup {NoPool}, block : Blocks \cup {NoBlock},
                               waits : BOOLEAN]],
         Owners(used \ {b}, P, m), \A v \in Threads : m[v].waits => m[v].block = NoBlock,
         Free(b, m)
  PROVE  /\ Owners(used', P, making') /\ used' \subseteq used
         /\ \A v \in Threads :
              \/ making'[v] = m[v]
              \/ /\ m[v].waits /\ making'[v].pool = m[v].pool /\ making'[v].block = b /\ ~making'[v].waits
                 /\ poolId[m[v].pool] = b[1]
<1>a. NoBlock \notin used /\ b # NoBlock
  BY PoolAssumption DEF PoolTypeOK, Blocks
<1>1. ASSUME NEW w \in Threads, m[w].waits, poolId[m[w].pool] = b[1], UNCHANGED used,
             making' = [m EXCEPT ![w].block = b, ![w].waits = FALSE]
      PROVE  /\ Owners(used', P, making') /\ used' \subseteq used
             /\ \A v \in Threads :
                  \/ making'[v] = m[v]
                  \/ /\ m[v].waits /\ making'[v].pool = m[v].pool /\ making'[v].block = b /\ ~making'[v].waits
                     /\ poolId[m[v].pool] = b[1]
  <2>1. /\ making'[w].pool = m[w].pool /\ making'[w].block = b /\ ~making'[w].waits
        /\ \A v \in Threads : v # w => making'[v] = m[v]
    BY <1>1
  <2>2. making'[w].block = b /\ m[w].block = NoBlock
    BY <1>1, <2>1
  <2>3. \A v \in Threads : v # w => making'[v].block = m[v].block
    BY <2>1
  <2> b \notin used \ {b} /\ NoBlock \notin used \ {b}
    BY <1>a
  <2>4. Owners((used \ {b}) \cup {b}, P, making')
    BY <1>a, <2>2, <2>3, CallGets
  <2>5. (used \ {b}) \cup {b} = used'
    BY <1>1
  <2> QED BY <1>1, <2>1, <2>4, <2>5
<1>2. CASE used' = used \ {b} /\ making' = m
  BY <1>2
<1> QED BY <1>1, <1>2 DEF Free

LEMMA MakeThrowsKeeps ==
  ASSUME PoolTypeOK, PoolInv, UNCHANGED plan, NEW t \in Threads, MakeThrows(t)
  PROVE  PoolInv'
<1> DEFINE b == making[t].block
           m == [making EXCEPT ![t] = NotMaking]
<1>0. /\ UNCHANGED <<poolId, existing, pointer, disturbed>> /\ busy' = busy \ {t}
      /\ program # "deleter" /\ b # NoBlock /\ Delete(making[t].pool, b, m)
  BY DEF MakeThrows, Builds, Runs
<1>a. NoBlock \notin used /\ b \in used
  BY <1>0, PoolAssumption DEF PoolTypeOK, Blocks, PoolInv, UsedIsOwned
<1>1. poolId[making[t].pool] = b[1]
  BY <1>0 DEF PoolInv, MakingFits
<1>2. Free(b, m) /\ UNCHANGED program
  BY <1>0, <1>1 DEF Delete
<1>3. /\ m \in [Threads -> [pool : Pools \cup {NoPool}, block : Blocks \cup {NoBlock}, waits : BOOLEAN]]
      /\ m[t] = NotMaking /\ \A v \in Threads : v # t => m[v] = making[v]
  BY DEF PoolTypeOK, NotMaking
<1> HIDE DEF m
<1>4. Owners(used \ {b}, pointer, m)
  <2>1. /\ m[t].block = NoBlock /\ Owners(used, pointer, making)
        /\ \A v \in Threads : v # t => m[v].block = making[v].block
    BY <1>3, OwnersOfUsed DEF NotMaking, PoolInv
  <2> QED BY <1>0, <1>a, <2>1, CallLoses
<1>5. \A v \in Threads : m[v].waits => m[v].block = NoBlock
  BY <1>3 DEF PoolInv, MakingFits, NotMaking
<1>6. /\ Owners(used', pointer, making') /\ used' \subseteq used
      /\ \A v \in Threads :
           \/ making'[v] = m[v]
           \/ /\ m[v].waits /\ making'[v].pool = m[v].pool /\ making'[v].block = b /\ ~making'[v].waits
              /\ poolId[m[v].pool] = b[1]
  <2> HIDE DEF b
  <2> QED BY <1>2, <1>3, <1>4, <1>5, <1>a, FreeKeeps
<1>7. UsedIsOwned'
  BY <1>0, <1>6, OwnersOfUsed DEF PoolInv, UsedIsOwned, Owners
<1>8. MakingFits'
  <2> SUFFICES ASSUME NEW v \in Threads
               PROVE  /\ making'[v] # NotMaking =>
                           making'[v].pool \in Pools /\ plan'.part = "pool" /\ v \in busy'
                      /\ making'[v].waits => making'[v].block = NoBlock
                      /\ making'[v].block # NoBlock => poolId'[making'[v].pool] = making'[v].block[1]
    BY DEF MakingFits
  <2>1. CASE v = t
    <3>1. making'[t] = NotMaking
      BY <1>3, <1>6, NotMakingIsEmpty
    <3> QED BY <2>1, <3>1, NotMakingIsEmpty
  <2>2. CASE v # t /\ making'[v] = making[v]
    BY <1>0, <2>2 DEF PoolInv, MakingFits
  <2>3. CASE v # t /\ making[v].waits /\ making'[v].pool = making[v].pool /\ making'[v].block = b /\ ~making'[v].waits
             /\ poolId[making[v].pool] = b[1]
    <3>1. making[v] # NotMaking
      BY <2>3 DEF NotMaking
    <3> QED BY <1>0, <2>3, <3>1 DEF PoolInv, MakingFits
  <2> QED BY <1>3, <1>6, <2>1, <2>2, <2>3
<1> QED BY <1>0, <1>2, <1>7, <1>8 DEF PoolInv, PoolsFit, PointersFit, DeleterFailsAfterAMove

LEMMA ResetKeeps ==
  ASSUME PoolTypeOK, PointersAreWhole, PoolInv, UNCHANGED plan, NEW t \in Threads, NEW p \in Pointers,
         Reset(t, p)
  PROVE  PoolInv'
<1> DEFINE b == pointer[p].block
<1>0. /\ UNCHANGED <<poolId, existing, disturbed, busy>> /\ program = "running"
      /\ pointer[p] # Empty /\ b # NoBlock /\ Delete(pointer[p].pool, b, making)
      /\ pointer' = IF program' = "running" THEN [pointer EXCEPT ![p] = Empty] ELSE pointer
  BY DEF Reset, Ready, Runs, PointersAreWhole
<1>a. NoBlock \notin used /\ b \in used
  BY <1>0, PoolAssumption DEF PoolTypeOK, Blocks, PoolInv, UsedIsOwned
<1>1. CASE program' = "deleter" /\ UNCHANGED <<making, used>> /\ poolId[pointer[p].pool] # b[1]
  <2>1. UNCHANGED pointer
    BY <1>0, <1>1
  <2>2. disturbed
    BY <1>0, <1>1 DEF PoolInv, PointersFit
  <2>3. UsedIsOwned' /\ PoolsFit' /\ PointersFit'
    BY <1>0, <1>1, <2>1 DEF PoolInv, UsedIsOwned, PoolsFit, PointersFit
  <2>4. MakingFits' /\ DeleterFailsAfterAMove'
    BY <1>0, <1>1, <2>2 DEF PoolInv, MakingFits, DeleterFailsAfterAMove
  <2> QED BY <2>3, <2>4 DEF PoolInv
<1>2. CASE Free(b, making) /\ UNCHANGED program
  <2>1. /\ pointer'[p] = Empty /\ \A q \in Pointers : q # p => pointer'[q] = pointer[q]
    BY <1>0, <1>2 DEF PoolTypeOK
  <2>2. Owners(used \ {b}, pointer', making)
    <3>1. /\ pointer'[p].block = NoBlock /\ Owners(used, pointer, making)
          /\ \A q \in Pointers : q # p => pointer'[q].block = pointer[q].block
      BY <2>1, OwnersOfUsed DEF Empty, PoolInv
    <3> QED BY <1>0, <1>a, <3>1, PointerLoses
  <2>3. \A v \in Threads : making[v].waits => making[v].block = NoBlock
    BY DEF PoolInv, MakingFits
  <2>4. /\ Owners(used', pointer', making') /\ used' \subseteq used
        /\ \A v \in Threads :
             \/ making'[v] = making[v]
             \/ /\ making[v].waits /\ making'[v].pool = making[v].pool /\ making'[v].block = b
                /\ ~making'[v].waits /\ poolId[making[v].pool] = b[1]
    <3>1. making \in [Threads -> [pool : Pools \cup {NoPool}, block : Blocks \cup {NoBlock},
                                  waits : BOOLEAN]]
      BY DEF PoolTypeOK
    <3> HIDE DEF b
    <3> QED BY <1>2, <1>a, <2>2, <2>3, <3>1, FreeKeeps
  <2>5. UsedIsOwned'
    BY <1>0, <2>4, OwnersOfUsed DEF PoolInv, UsedIsOwned, Owners
  <2>6. MakingFits'
    <3> SUFFICES ASSUME NEW v \in Threads
                 PROVE  /\ making'[v] # NotMaking =>
                             making'[v].pool \in Pools /\ plan'.part = "pool" /\ v \in busy'
                        /\ making'[v].waits => making'[v].block = NoBlock
                        /\ making'[v].block # NoBlock =>
                             poolId'[making'[v].pool] = making'[v].block[1]
      BY DEF MakingFits
    <3>1. CASE making'[v] = making[v]
      BY <1>0, <3>1 DEF PoolInv, MakingFits
    <3>2. CASE /\ making[v].waits /\ making'[v].pool = making[v].pool /\ making'[v].block = b
               /\ ~making'[v].waits /\ poolId[making[v].pool] = b[1]
      <4>1. making[v] # NotMaking
        BY <3>2, NotMakingIsEmpty
      <4> QED BY <1>0, <3>2, <4>1 DEF PoolInv, MakingFits
    <3> QED BY <2>4, <3>1, <3>2
  <2>7. PointersFit'
    <3>1. pointer'[p].block = NoBlock
      BY <2>1 DEF Empty
    <3> QED BY <1>0, <2>1, <3>1 DEF PoolInv, PointersFit
  <2> QED BY <1>0, <1>2, <2>5, <2>6, <2>7 DEF PoolInv, PoolsFit, DeleterFailsAfterAMove
<1> QED BY <1>0, <1>1, <1>2 DEF Delete

-----------------------------------------------------------------------------
LEMMA PoolStepKeeps ==
  ASSUME PoolTypeOK, PointersAreWhole, PoolInv, UNCHANGED plan, PoolStep
  PROVE  PoolInv'
<1>1. ASSUME NEW t \in Threads, NEW o \in Pools, NEW from \in Pools,
             \/ PoolNew(t, o) \/ PoolMove(t, o, from) \/ PoolAssign(t, o, from) \/ PoolDestroy(t, o)
      PROVE  PoolInv'
  BY <1>1, PoolObjectsKeep
<1>2. ASSUME NEW t \in Threads, NEW o \in Pools, Make(t, o) PROVE PoolInv'
  BY <1>2, MakeKeeps DEF PoolStep
<1>3. ASSUME NEW t \in Threads, NEW p \in Pointers, Made(t, p) \/ Reset(t, p) PROVE PoolInv'
  BY <1>3, MadeKeeps, ResetKeeps
<1>4. ASSUME NEW t \in Threads, MakeThrows(t) PROVE PoolInv'
  BY <1>4, MakeThrowsKeeps
<1> QED BY <1>1, <1>2, <1>3, <1>4 DEF PoolStep, PoolNext

(* The other steps leave the pools alone, and end the program otherwise.   *)
LEMMA OtherStepIsNoPoolStep ==
  ASSUME [Next]_vars, ~PoolStep
  PROVE  /\ UNCHANGED <<plan, poolVars>> /\ (program' = "deleter" => program = "deleter")
         /\ plan.part # "pool" \/ UNCHANGED busy
<1>1. KernelStep => UNCHANGED <<busy, program>>
  BY DEF KernelStep, KernelNext, Initialize, Start, Suspend, Resume, DispatchLock, DispatchUnlock
<1>2. ListStep => program' = program \/ program' = "enumerate"
  BY DEF ListStep, ThreadListNext, Enumerate, ReadThreads, EnumerateReturns, ThreadExit, ThreadNew
<1>3. MutexStep => UNCHANGED program
  BY DEF MutexStep, MutexNext, MutexLock, TryLock, TryLockFor, AskMutex, MutexTimeout, MutexReturns,
         MutexUnlock, MutexNew, MutexDestroy
<1>4. SemaphoreStep => UNCHANGED program
  BY DEF SemaphoreStep, SemaphoreNext, SemaphoreNew, SemaphoreDestroy, Release, ReleaseOne, Acquire,
         TryAcquire, TryAcquireFor, TakeToken, SemaphoreTimeout, AcquireReturns
<1>5. FlagsStep => UNCHANGED program
  <2>1. ASSUME NEW t, NEW o, NEW w, NEW ticks, WaitFlags(t, o, w, ticks) PROVE UNCHANGED program
    BY <2>1 DEF WaitFlags
  <2>2. ASSUME NEW t, FlagsGoOn(t) PROVE UNCHANGED program
    BY <2>2 DEF FlagsGoOn, Wake, WaitTimeout, WaitReturns
  <2>3. ASSUME NEW t, NEW o, NEW mask, SetFlags(t, o, mask) \/ ClearFlags(t, o, mask)
        PROVE  UNCHANGED program
    BY <2>3 DEF SetFlags, ClearFlags
  <2>4. ASSUME NEW t, NEW e, NEW from, NEW mask,
               \/ EventNew(t, e, mask) \/ EventNewThrows(t, e) \/ EventMove(t, e, from)
               \/ EventSwap(t, e, from) \/ EventDestroy(t, e)
        PROVE  UNCHANGED program
    BY <2>4 DEF EventNew, EventNewThrows, EventMove, EventSwap, EventDestroy
  <2>5. ASSUME NEW t, NEW e, NEW mask, NEW w,
               \/ EventSet(t, e, mask) \/ EventClear(t, e, mask)
               \/ EventWait(t, e, w) \/ EventWaitFor(t, e, w)
        PROVE  UNCHANGED program
    BY <2>1, <2>3, <2>5 DEF EventSet, EventClear, EventWait, EventWaitFor
  <2>6. EventsNext => UNCHANGED program
    BY <2>2, <2>4, <2>5 DEF EventsNext
  <2>7. ThreadFlagsNext => UNCHANGED program
    BY <2>1, <2>2, <2>3
       DEF ThreadFlagsNext, ThreadFlagsSet, ThreadFlagsClear, ThreadFlagsWait, ThreadFlagsWaitFor
  <2> QED BY <2>6, <2>7 DEF FlagsStep
<1> QED BY <1>1, <1>2, <1>3, <1>4, <1>5
        DEF Next, KernelStep, ListStep, MutexStep, SemaphoreStep, FlagsStep, vars

THEOREM SpecPoolInv == Spec => []PoolInv
<1>1. Init => PoolInv
  <2> SUFFICES ASSUME Init PROVE PoolInv
    OBVIOUS
  <2>1. /\ used = {} /\ existing = {} /\ program # "deleter"
        /\ \A t \in Threads : making[t] = NotMaking
        /\ \A p \in Pointers : pointer[p].block = NoBlock
        /\ \A o \in Pools : poolId[o] = NoPool
    BY DEF Init, PoolInit, KernelInit, Empty
  <2>2. UsedIsOwned /\ MakingFits
    BY <2>1, NotMakingIsEmpty DEF UsedIsOwned, MakingFits
  <2> QED BY <2>1, <2>2, PoolAssumption DEF PoolInv, PoolsFit, PointersFit, DeleterFailsAfterAMove
<1>2. TypeInv /\ PoolInv /\ [Next]_vars => PoolInv'
  <2> SUFFICES ASSUME TypeInv, PoolInv, [Next]_vars PROVE PoolInv'
    OBVIOUS
  <2>p. UNCHANGED plan
    BY DEF Next, KernelStep, ListStep, MutexStep, SemaphoreStep, FlagsStep, PoolStep, vars
  <2>1. CASE PoolStep
    BY <2>p, <2>1, PoolStepKeeps DEF TypeInv, TypeOK
  <2>2. CASE ~PoolStep
    <3>1. /\ UNCHANGED <<plan, poolVars>> /\ (program' = "deleter" => program = "deleter")
          /\ plan.part # "pool" \/ UNCHANGED busy
      BY <2>2, OtherStepIsNoPoolStep
    <3>2. UsedIsOwned' /\ PoolsFit' /\ PointersFit' /\ DeleterFailsAfterAMove'
      BY <3>1 DEF poolVars, PoolInv, UsedIsOwned, PoolsFit, PointersFit, DeleterFailsAfterAMove
    <3>3. MakingFits'
      <4>1. making' = making /\ poolId' = poolId /\ plan' = plan
        BY <3>1 DEF poolVars
      <4>2. \A v \in Threads : making[v] # NotMaking => UNCHANGED busy
        BY <3>1 DEF PoolInv, MakingFits
      <4> QED BY <4>1, <4>2 DEF PoolInv, MakingFits
    <3> QED BY <3>2, <3>3 DEF PoolInv
  <2> QED BY <2>1, <2>2
<1> QED BY <1>1, <1>2, SpecTypeInv, PTL DEF Spec

(* Every allocated block has one owner, and a pool to go back to.          *)
THEOREM SpecUsedIsOwned == Spec => []UsedIsOwned
BY SpecPoolInv, PTL DEF PoolInv

(* A deleter fails only after a pool was moved with living smart pointers. *)
THEOREM SpecDeleterFailsAfterAMove == Spec => []DeleterFailsAfterAMove
BY SpecPoolInv, PTL DEF PoolInv
=============================================================================
