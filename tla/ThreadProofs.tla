---------------------------- MODULE ThreadProofs ----------------------------
(***************************************************************************)
(* For any clients, handles, control blocks and number of routines: a      *)
(* joinable handle keeps its own thread, no block is lost, a join returns  *)
(* when its own routine has ended, and no thread joins itself.             *)
(*                                                                         *)
(* The argument: no two handles have the same thread_impl, and a routine   *)
(* that runs is the one its control block names.  A block that somebody    *)
(* may still join keeps naming its routine, because only three steps give  *)
(* a block back, the join, the detach and the end of a thread, and each    *)
(* finds the handle that could still look at it in the hands of the one    *)
(* thread that joins or detaches it; the store that ends the call takes it *)
(* out of the joinable ones.                                               *)
(***************************************************************************)
EXTENDS Thread, TLAPS

(* No two handles have the same thread_impl. *)
HandlesDiffer == \A g, h \in Handles : handle[g] = handle[h] /\ handle[g] # Null => g = h

(* What a handle has was started, and what was detached. *)
BornFirst ==
  /\ \A h \in Handles : handle[h] # Null => run[handle[h]] # "unborn"
  /\ \A r \in Runs : run[r] = "unborn" => ~impl[r].detached

(* A routine whose handle is in a detach that is through the RTOS. *)
Detaching(r) == \E c \in Threads : pc[c] = "detached" /\ handle[joining[c]] = r

(* A control block and its routine know each other. *)
BlocksFit ==
  \A b \in Blocks :
    /\ tcb[b].state = "free" => tcb[b].run = Null
    /\ tcb[b].state # "free" => tcb[b].run \in Runs /\ impl[tcb[b].run].id = b
    /\ tcb[b].state = "active" =>
         run[tcb[b].run] = "running" /\ (tcb[b].joinable \/ impl[tcb[b].run].detached \/ Detaching(tcb[b].run))
    /\ tcb[b].state = "terminated" =>
         run[tcb[b].run] \in {"finished", "killed"} /\ tcb[b].joinable

RunsFit == \A r \in Runs : run[r] = "running" => impl[r].id \in Blocks /\ RunsOn(r, impl[r].id)

(* A block that can be joined has a handle it can be joined by. *)
HasHandle(b) == \E h \in Handles : Joinable(h) /\ handle[h] = tcb[b].run

JoinablesHaveHandles ==
  \A b \in Blocks : tcb[b].state # "free" /\ tcb[b].joinable => HasHandle(b)

(* A thread that joins or detaches uses a joinable handle, and alone. *)
JoinsFit ==
  \A c \in Threads :
    /\ pc[c] = "idle" => joining[c] = NoHandle
    /\ pc[c] # "idle" => joining[c] \in Handles /\ Joinable(joining[c])
    /\ \A d \in Threads : joining[c] = joining[d] /\ joining[c] \in Handles => c = d

(* Once osThreadJoin has returned, no block names the routine any more. *)
JoinedIsGone ==
  \A c \in Threads : pc[c] = "woken" => \A b \in Blocks : tcb[b].run # handle[joining[c]]

(* Once osThreadDetach has returned, a block that names the routine cannot *)
(* be joined.                                                              *)
DetachedIsLoose ==
  \A c \in Threads : pc[c] = "detached" =>
    \A b \in Blocks : tcb[b].run = handle[joining[c]] => ~tcb[b].joinable

IndInv ==
  /\ TypeOK
  /\ HandlesDiffer /\ BornFirst
  /\ BlocksFit /\ RunsFit /\ JoinablesHaveHandles
  /\ JoinsFit /\ JoinedIsGone /\ DetachedIsLoose
  /\ JoinableIdIsOwn /\ JoinedHasEnded /\ NobodyJoinsItself

-----------------------------------------------------------------------------
LEMMA NullIsNoRun == Null \notin Runs
BY ConstantsAssumption DEF Null, Runs

LEMMA InitInv == Init => IndInv
BY ConstantsAssumption, NullIsNoRun
   DEF Init, IndInv, TypeOK, HandlesDiffer, BornFirst, BlocksFit, RunsFit, JoinablesHaveHandles,
       JoinsFit, JoinedIsGone, DetachedIsLoose, Detaching, JoinableIdIsOwn, JoinedHasEnded,
       NobodyJoinsItself, FreeBlock, Joinable, GivenUp, RunsOn

(* A handle that is joinable and not being joined: its block is not free,  *)
(* and names its routine.                                                  *)
LEMMA OwnBlock ==
  ASSUME IndInv, NEW h \in Handles, Joinable(h), ~GivenUp(h)
  PROVE  /\ handle[h] \in Runs /\ impl[handle[h]].id \in Blocks
         /\ tcb[impl[handle[h]].id].run = handle[h]
         /\ tcb[impl[handle[h]].id].state # "free"
<1>1. handle[h] \in Runs /\ impl[handle[h]].id \in Blocks
  BY NullIsNoRun DEF IndInv, TypeOK, Joinable
<1>2. tcb[impl[handle[h]].id].run = handle[h]
  BY DEF IndInv, JoinableIdIsOwn
<1>3. tcb[impl[handle[h]].id].state # "free"
  BY <1>1, <1>2, NullIsNoRun DEF IndInv, BlocksFit
<1> QED BY <1>1, <1>2, <1>3

(* A thread that is blocked waits for the block that names its routine. *)
LEMMA BlockedWaitsForItsOwn ==
  ASSUME IndInv, NEW c \in Threads, pc[c] = "blocked"
  PROVE  /\ joining[c] \in Handles /\ Joinable(joining[c]) /\ ~GivenUp(joining[c])
         /\ handle[joining[c]] \in Runs
         /\ tcb[impl[handle[joining[c]]].id].run = handle[joining[c]]
<1>1. joining[c] \in Handles /\ Joinable(joining[c])
  BY DEF IndInv, JoinsFit
<1>2. ~GivenUp(joining[c])
  BY <1>1 DEF IndInv, JoinsFit, GivenUp
<1> QED BY <1>1, <1>2, OwnBlock

-----------------------------------------------------------------------------
(* The start of a thread. *)
LEMMA NewInv ==
  ASSUME IndInv, NEW c \in Threads, NEW h \in Handles, New(c, h)
  PROVE  IndInv'
<1>1. PICK r \in Runs, b \in Blocks :
        /\ run[r] = "unborn" /\ tcb[b].state = "free"
        /\ handle' = [handle EXCEPT ![h] = r]
        /\ impl' = [impl EXCEPT ![r].id = b]
        /\ run' = [run EXCEPT ![r] = "running"]
        /\ tcb' = [tcb EXCEPT ![b] = [state |-> "active", run |-> r, joinable |-> TRUE]]
  BY DEF New
<1>2. handle[h] = Null /\ Unused(h) /\ UNCHANGED <<pc, joining, program>>
  BY DEF New
<1>3. TypeOK
  BY DEF IndInv
<1>4. \A g \in Handles : handle[g] # r
  BY <1>1, NullIsNoRun DEF IndInv, BornFirst
<1>5. \A a \in Blocks : tcb[a].run # r
  BY <1>1, NullIsNoRun DEF IndInv, TypeOK, BlocksFit
<1>6. impl[r].id \in Blocks \cup {NoBlock} /\ impl'[r].id = b
  BY <1>1, <1>3 DEF TypeOK
<1>7. \A g \in Handles : g # h => (Joinable(g)' <=> Joinable(g)) /\ (GivenUp(g)' <=> GivenUp(g))
  BY <1>1, <1>2, <1>3, <1>4 DEF TypeOK, Joinable, GivenUp
<1>8. TypeOK'
  BY <1>1, <1>2, <1>3, <1>4, NullIsNoRun, ConstantsAssumption DEF TypeOK
<1>9. HandlesDiffer' /\ BornFirst'
  BY <1>1, <1>3, <1>4, NullIsNoRun DEF IndInv, TypeOK, HandlesDiffer, BornFirst
<1>d. \A s \in Runs : Detaching(s) => Detaching(s)'
  BY <1>1, <1>2, <1>3 DEF IndInv, TypeOK, JoinsFit, Detaching, Unused
<1>10. BlocksFit'
  BY <1>1, <1>3, <1>5, <1>d DEF IndInv, TypeOK, BlocksFit
<1>11. RunsFit'
  BY <1>1, <1>3 DEF IndInv, TypeOK, RunsFit, RunsOn
<1>12. JoinsFit'
  BY <1>1, <1>2, <1>7 DEF IndInv, JoinsFit, Unused
<1>13. JoinedIsGone' /\ DetachedIsLoose' /\ JoinedHasEnded'
  <2>1. \A x \in Threads : pc[x] # "idle" => joining[x] \in Handles /\ joining[x] # h
    BY <1>2 DEF IndInv, JoinsFit, Unused
  <2>2. \A x \in Threads :
          pc[x] # "idle" => handle'[joining[x]] = handle[joining[x]] /\ handle[joining[x]] # r
    BY <1>1, <1>3, <1>4, <2>1 DEF TypeOK
  <2>3. \A a \in Blocks : a # b => tcb'[a] = tcb[a]
    BY <1>1, <1>3 DEF TypeOK
  <2>4. tcb'[b].run = r
    BY <1>1, <1>3 DEF TypeOK
  <2>5. \A s \in Runs : s # r => run'[s] = run[s]
    BY <1>1, <1>3 DEF TypeOK
  <2>6. \A x \in Threads : pc[x] # "idle" => handle[joining[x]] \in Runs
    BY <1>3, <2>1 DEF IndInv, TypeOK, JoinsFit, Joinable
  <2>7. pc' = pc /\ joining' = joining
    BY <1>2
  <2>8. JoinedIsGone' /\ DetachedIsLoose'
    BY <2>2, <2>3, <2>4, <2>7 DEF IndInv, JoinedIsGone, DetachedIsLoose
  <2>9. JoinedHasEnded'
    BY <2>2, <2>5, <2>6, <2>7 DEF IndInv, JoinedHasEnded
  <2> QED BY <2>8, <2>9
<1>14. JoinableIdIsOwn'
  BY <1>1, <1>3, <1>4, <1>7, OwnBlock DEF TypeOK, JoinableIdIsOwn, BlocksFit
<1>15. NobodyJoinsItself'
  BY <1>1, <1>2, <1>3 DEF IndInv, TypeOK, NobodyJoinsItself, Unused, Threads
<1>16. JoinablesHaveHandles'
  <2> SUFFICES ASSUME NEW a \in Blocks, tcb'[a].state # "free", tcb'[a].joinable
               PROVE  HasHandle(a)'
    BY DEF JoinablesHaveHandles
  <2>1. CASE a = b
    <3>1. impl[r].detached = FALSE
      BY <1>1 DEF IndInv, BornFirst
    <3> QED BY <2>1, <3>1, <1>1, <1>3, NullIsNoRun DEF TypeOK, HasHandle, Joinable
  <2>2. CASE a # b
    <3>1. PICK g \in Handles : Joinable(g) /\ handle[g] = tcb[a].run
      BY <1>1, <1>3, <2>2 DEF IndInv, TypeOK, JoinablesHaveHandles, HasHandle
    <3> QED BY <1>1, <1>2, <1>3, <1>7, <2>2, <3>1 DEF TypeOK, HasHandle, Joinable
  <2> QED BY <2>1, <2>2
<1> QED BY <1>8, <1>9, <1>10, <1>11, <1>12, <1>13, <1>14, <1>15, <1>16 DEF IndInv

(* A step that stops the program leaves everything but program. *)
LEMMA StopInv ==
  ASSUME IndInv, NEW why \in {"terminated", "severed"}, Stop(why)
  PROVE  IndInv'
BY DEF Stop, IndInv, TypeOK, HandlesDiffer, BornFirst, BlocksFit, RunsFit, JoinablesHaveHandles,
       HasHandle, JoinsFit, JoinedIsGone, DetachedIsLoose, Detaching, JoinableIdIsOwn, JoinedHasEnded, NobodyJoinsItself,
       Joinable, GivenUp, RunsOn

(* Moves swap what two handles have. *)
LEMMA MoveInv ==
  ASSUME IndInv, NEW c \in Threads, NEW h \in Handles, NEW from \in Handles, MoveAssign(c, h, from)
  PROVE  IndInv'
<1>1. CASE Stop("terminated")
  BY <1>1, StopInv
<1>2. CASE /\ handle' = [handle EXCEPT ![h] = handle[from], ![from] = handle[h]]
           /\ UNCHANGED <<impl, run, tcb, pc, joining, program>>
  <2>0. UNCHANGED <<impl, run, tcb, pc, joining, program>>
    BY <1>2
  <2>1. h # from /\ Unused(h) /\ Unused(from)
    BY DEF MoveAssign
  <2>2. TypeOK
    BY DEF IndInv
  <2> DEFINE Was(g) == IF g = h THEN from ELSE IF g = from THEN h ELSE g
  <2>3. \A g \in Handles : Was(g) \in Handles /\ Was(Was(g)) = g /\ handle'[g] = handle[Was(g)]
    BY <1>2, <2>1, <2>2 DEF TypeOK
  <2> HIDE DEF Was
  <2>4. \A x \in Threads : joining[x] \in Handles => handle'[joining[x]] = handle[joining[x]]
    BY <1>2, <2>1, <2>2 DEF TypeOK, Unused
  <2>5. \A g \in Handles : Joinable(g)' <=> Joinable(Was(g))
    BY <1>2, <2>3 DEF Joinable
  <2>6. \A g \in Handles : GivenUp(g)' <=> GivenUp(Was(g))
    <3>1. \A g \in Handles : GivenUp(g) => g # h /\ g # from
      BY <2>1 DEF GivenUp, Unused
    <3> QED BY <1>2, <2>1, <3>1 DEF GivenUp, Was, Unused
  <2>7. TypeOK'
    BY <1>2, <2>2 DEF TypeOK
  <2>8. HandlesDiffer' /\ BornFirst'
    <3>1. \A f, g \in Handles : Was(f) = Was(g) => f = g
      BY <2>3
    <3> QED BY <2>0, <2>3, <3>1 DEF IndInv, HandlesDiffer, BornFirst
  <2>9. BlocksFit' /\ RunsFit'
    <3>1. \A r \in Runs : Detaching(r) => Detaching(r)'
      BY <2>0, <2>4 DEF IndInv, JoinsFit, Detaching
    <3> QED BY <1>2, <3>1 DEF IndInv, BlocksFit, RunsFit, RunsOn
  <2>10. JoinablesHaveHandles'
    <3> SUFFICES ASSUME NEW b \in Blocks, tcb[b].state # "free", tcb[b].joinable
                 PROVE  HasHandle(b)'
      BY <2>0 DEF JoinablesHaveHandles
    <3>1. PICK g \in Handles : Joinable(g) /\ handle[g] = tcb[b].run
      BY DEF IndInv, JoinablesHaveHandles, HasHandle
    <3>2. Joinable(Was(g))' /\ handle'[Was(g)] = tcb'[b].run /\ Was(g) \in Handles
      BY <2>0, <2>3, <2>5, <3>1
    <3> QED BY <3>2 DEF HasHandle
  <2>11. JoinsFit'
    <3>1. \A x \in Threads : joining[x] \in Handles /\ Joinable(joining[x]) => Joinable(joining[x])'
      BY <2>0, <2>4 DEF Joinable
    <3> QED BY <2>0, <3>1 DEF IndInv, JoinsFit
  <2>12. JoinedIsGone' /\ DetachedIsLoose' /\ JoinedHasEnded'
    <3>1. \A x \in Threads : pc[x] # "idle" => handle'[joining[x]] = handle[joining[x]]
      BY <2>4 DEF IndInv, JoinsFit
    <3> QED BY <2>0, <3>1 DEF IndInv, JoinedIsGone, DetachedIsLoose, JoinedHasEnded
  <2>13. JoinableIdIsOwn'
    BY <1>2, <2>3, <2>5, <2>6 DEF IndInv, JoinableIdIsOwn
  <2>14. NobodyJoinsItself'
    <3>1. \A r \in Runs, g \in Handles : joining[r] = g => handle'[g] = handle[g]
      BY <2>4 DEF Threads
    <3> QED BY <2>0, <3>1 DEF IndInv, NobodyJoinsItself
  <2> QED BY <2>7, <2>8, <2>9, <2>10, <2>11, <2>12, <2>13, <2>14 DEF IndInv
<1> QED BY <1>1, <1>2 DEF MoveAssign

(* A join that finds its thread ended, or that waits for it. *)
LEMMA JoinInv ==
  ASSUME IndInv, NEW c \in Threads, NEW h \in Handles, Join(c, h)
  PROVE  IndInv'
<1> DEFINE b == impl[handle[h]].id
<1>1. /\ program = "running" /\ pc[c] = "idle" /\ (c \in Runs => run[c] = "running")
      /\ Unused(h) /\ Joinable(h) /\ ~RunsOn(c, b)
      /\ joining' = [joining EXCEPT ![c] = h]
      /\ UNCHANGED <<handle, impl, run, program>>
  BY DEF Join, Idle
<1>2. \/ tcb[b].state = "active" /\ pc' = [pc EXCEPT ![c] = "blocked"] /\ UNCHANGED tcb
      \/ /\ tcb[b].state = "terminated"
         /\ pc' = [pc EXCEPT ![c] = "woken"] /\ tcb' = [tcb EXCEPT ![b] = FreeBlock]
  BY DEF Join
<1>3. TypeOK /\ joining[c] = NoHandle
  BY <1>1 DEF IndInv, JoinsFit
<1>4. ~GivenUp(h)
  BY <1>1 DEF GivenUp, Unused
<1>5. handle[h] \in Runs /\ b \in Blocks /\ tcb[b].run = handle[h]
  BY <1>1, <1>4, OwnBlock
<1> HIDE DEF b
<1>6. \A g \in Handles : Joinable(g)' <=> Joinable(g)
  BY <1>1 DEF Joinable
<1>7. \A x \in Threads : x # c => joining'[x] = joining[x] /\ pc'[x] = pc[x]
  BY <1>1, <1>2, <1>3 DEF TypeOK
<1>8. joining'[c] = h /\ pc'[c] \in {"blocked", "woken"}
  BY <1>1, <1>2, <1>3 DEF TypeOK
<1>9. \A a \in Blocks : a # b => tcb'[a] = tcb[a]
  BY <1>2, <1>3 DEF TypeOK
<1>10. tcb'[b] = tcb[b] \/ (tcb[b].state = "terminated" /\ tcb'[b] = FreeBlock)
  BY <1>2, <1>3, <1>5 DEF TypeOK
<1>11. TypeOK'
  <2>1. FreeBlock \in [state : {"free", "active", "terminated"}, run : Runs \cup {Null}, joinable : BOOLEAN]
    BY DEF FreeBlock
  <2>2. tcb' \in [Blocks -> [state : {"free", "active", "terminated"}, run : Runs \cup {Null},
                            joinable : BOOLEAN]]
    BY <1>2, <1>3, <1>5, <2>1 DEF TypeOK
  <2>3. pc' \in [Threads -> {"idle", "blocked", "woken", "detached"}]
    BY <1>2, <1>3 DEF TypeOK
  <2> QED BY <1>1, <1>3, <2>2, <2>3 DEF TypeOK
<1>12. HandlesDiffer' /\ BornFirst'
  BY <1>1 DEF IndInv, HandlesDiffer, BornFirst
<1>d. \A x \in Threads : pc'[x] = "detached" <=> pc[x] = "detached"
  BY <1>1, <1>7, <1>8
<1>13. BlocksFit'
  <2>1. \A s \in Runs : Detaching(s) => Detaching(s)'
    BY <1>1, <1>7, <1>d DEF Detaching
  <2> QED BY <1>1, <1>9, <1>10, <2>1 DEF IndInv, BlocksFit, FreeBlock
<1>14. RunsFit'
  BY <1>1, <1>9, <1>10 DEF IndInv, RunsFit, RunsOn, FreeBlock
<1>15. JoinablesHaveHandles'
  BY <1>1, <1>6, <1>9, <1>10 DEF IndInv, JoinablesHaveHandles, HasHandle, FreeBlock
<1>16. JoinsFit'
  BY <1>1, <1>3, <1>6, <1>7, <1>8 DEF IndInv, JoinsFit, Unused
<1>17. \A a \in Blocks : pc'[c] = "woken" => tcb'[a].run # handle[h]
  BY <1>2, <1>3, <1>5, <1>9, NullIsNoRun DEF IndInv, TypeOK, BlocksFit, FreeBlock
<1>18. JoinedIsGone'
  <2>1. \A a \in Blocks : tcb'[a].run \in {tcb[a].run, Null}
    BY <1>9, <1>10 DEF FreeBlock
  <2> QED BY <1>1, <1>7, <1>8, <1>17, <2>1, NullIsNoRun DEF IndInv, JoinedIsGone, JoinsFit, Joinable
<1>l. DetachedIsLoose'
  BY <1>1, <1>7, <1>9, <1>10, <1>d DEF IndInv, DetachedIsLoose, FreeBlock
<1>19. JoinedHasEnded'
  BY <1>1, <1>2, <1>3, <1>5, <1>7, <1>8 DEF IndInv, TypeOK, BlocksFit, JoinedHasEnded
<1>20. JoinableIdIsOwn'
  <2> SUFFICES ASSUME NEW g \in Handles, Joinable(g)', ~GivenUp(g)'
               PROVE  tcb'[impl[handle[g]].id].run = handle[g]
    BY <1>1 DEF JoinableIdIsOwn
  <2>1. ~GivenUp(g)
    BY <1>1, <1>3, <1>7, <1>8 DEF GivenUp, Unused
  <2>2. tcb[impl[handle[g]].id].run = handle[g] /\ impl[handle[g]].id \in Blocks
    BY <1>6, <2>1, OwnBlock
  <2>3. CASE impl[handle[g]].id # b
    BY <1>9, <2>2, <2>3
  <2>4. CASE impl[handle[g]].id = b
    <3>1. g = h
      BY <1>5, <2>2, <2>4, NullIsNoRun DEF IndInv, HandlesDiffer
    <3>2. pc'[c] # "woken"
      BY <1>8, <3>1 DEF GivenUp
    <3> QED BY <1>2, <1>3, <2>2, <3>2 DEF TypeOK
  <2> QED BY <2>3, <2>4
<1>21. NobodyJoinsItself'
  <2>1. \A r \in Runs : r = c => handle[h] # r
    BY <1>1, <1>5 DEF IndInv, RunsFit, b
  <2> QED BY <1>1, <1>7, <1>8, <2>1 DEF IndInv, NobodyJoinsItself, Threads
<1> QED BY <1>11, <1>12, <1>13, <1>14, <1>15, <1>16, <1>18, <1>l, <1>19, <1>20, <1>21 DEF IndInv

-----------------------------------------------------------------------------
(* The store that ends a join or a detach takes the handle out of the      *)
(* joinable ones; nothing that waits to be joined is the routine it had.   *)
LEMMA StoreDetachedInv ==
  ASSUME IndInv, NEW c \in Threads, pc[c] \in {"woken", "detached"}, StoreDetached(c)
  PROVE  IndInv'
<1>2. TypeOK
  BY DEF IndInv
<1>3. PICK j \in Handles : j = joining[c] /\ Joinable(j)
  BY <1>2 DEF IndInv, JoinsFit
<1>r. PICK r \in Runs : r = handle[j]
  BY <1>2, <1>3 DEF TypeOK, Joinable
<1>1. /\ impl' = [impl EXCEPT ![r].detached = TRUE]
      /\ pc' = [pc EXCEPT ![c] = "idle"] /\ joining' = [joining EXCEPT ![c] = NoHandle]
      /\ UNCHANGED <<handle, run, tcb, program>>
  BY <1>3, <1>r DEF StoreDetached
<1>4. run[r] # "unborn" /\ \A b \in Blocks : tcb[b].run = r => ~tcb[b].joinable
  BY <1>3, <1>r, NullIsNoRun DEF IndInv, BornFirst, JoinedIsGone, DetachedIsLoose
<1>5. \A g \in Handles : g # j => handle[g] # r
  BY <1>3, <1>r, NullIsNoRun DEF IndInv, HandlesDiffer
<1>6. \A s \in Runs : impl'[s].id = impl[s].id /\ (s # r => impl'[s] = impl[s])
  BY <1>1, <1>2 DEF TypeOK
<1>7. \A g \in Handles : g # j => (Joinable(g)' <=> Joinable(g))
  BY <1>1, <1>2, <1>5, <1>6, NullIsNoRun DEF TypeOK, Joinable
<1>8. ~Joinable(j)'
  BY <1>1, <1>2, <1>r DEF TypeOK, Joinable
<1>9. \A x \in Threads : x # c => joining'[x] = joining[x] /\ pc'[x] = pc[x]
  BY <1>1, <1>2 DEF TypeOK
<1>10. joining'[c] = NoHandle /\ pc'[c] = "idle"
  BY <1>1, <1>2 DEF TypeOK
<1>11. \A x \in Threads : x # c => joining[x] # j
  BY <1>3 DEF IndInv, JoinsFit
<1>12. TypeOK'
  <2>1. impl' \in [Runs -> [id : Blocks \cup {NoBlock}, detached : BOOLEAN]]
    BY <1>1, <1>2, <1>4 DEF TypeOK
  <2>2. \A h \in Handles : handle[h] # Null => impl'[handle[h]].id # NoBlock
    BY <1>2, <1>6 DEF TypeOK
  <2> QED BY <1>1, <1>2, <2>1, <2>2 DEF TypeOK
<1>13. HandlesDiffer'
  BY <1>1 DEF IndInv, HandlesDiffer
<1>14. BornFirst'
  BY <1>1, <1>4, <1>6 DEF IndInv, BornFirst
<1>15. BlocksFit' /\ RunsFit'
  <2>1. \A s \in Runs : impl[s].detached \/ Detaching(s) => impl'[s].detached \/ Detaching(s)'
    BY <1>1, <1>2, <1>3, <1>r, <1>6, <1>9 DEF TypeOK, Detaching
  <2> QED BY <1>1, <1>6, <2>1 DEF IndInv, BlocksFit, RunsFit, RunsOn
<1>16. JoinablesHaveHandles'
  <2> SUFFICES ASSUME NEW b \in Blocks, tcb[b].state # "free", tcb[b].joinable
               PROVE  HasHandle(b)'
    BY <1>1 DEF JoinablesHaveHandles
  <2>1. PICK g \in Handles : Joinable(g) /\ handle[g] = tcb[b].run
    BY DEF IndInv, JoinablesHaveHandles, HasHandle
  <2>2. g # j
    BY <1>4, <1>r, <2>1
  <2> QED BY <1>1, <1>7, <2>1, <2>2 DEF HasHandle
<1>17. JoinsFit'
  BY <1>7, <1>9, <1>10, <1>11, ConstantsAssumption DEF IndInv, JoinsFit
<1>18. JoinedIsGone' /\ DetachedIsLoose' /\ JoinedHasEnded'
  BY <1>1, <1>9, <1>10 DEF IndInv, JoinedIsGone, DetachedIsLoose, JoinedHasEnded
<1>19. JoinableIdIsOwn'
  <2> SUFFICES ASSUME NEW g \in Handles, Joinable(g)', ~GivenUp(g)'
               PROVE  tcb[impl'[handle[g]].id].run = handle[g]
    BY <1>1 DEF JoinableIdIsOwn
  <2>1. g # j /\ Joinable(g)
    BY <1>7, <1>8
  <2>2. ~GivenUp(g)
    BY <1>3, <1>9, <2>1 DEF GivenUp
  <2> QED BY <1>6, <2>1, <2>2, OwnBlock
<1>20. NobodyJoinsItself'
  BY <1>1, <1>9, <1>10, ConstantsAssumption DEF IndInv, NobodyJoinsItself, Threads
<1> QED BY <1>12, <1>13, <1>14, <1>15, <1>16, <1>17, <1>18, <1>19, <1>20 DEF IndInv

LEMMA JoinReturnsInv ==
  ASSUME IndInv, NEW c \in Threads, JoinReturns(c)
  PROVE  IndInv'
BY StoreDetachedInv DEF JoinReturns

LEMMA DetachReturnsInv ==
  ASSUME IndInv, NEW c \in Threads, DetachReturns(c)
  PROVE  IndInv'
BY StoreDetachedInv DEF DetachReturns

(* A detach gives the block back, or leaves that to the end of the thread. *)
LEMMA DetachInv ==
  ASSUME IndInv, NEW c \in Threads, NEW h \in Handles, Detach(c, h)
  PROVE  IndInv'
<1>u. Unused(h) /\ Joinable(h)
  BY DEF Detach
<1>2. TypeOK
  BY DEF IndInv
<1>3. ~GivenUp(h)
  BY <1>u DEF GivenUp, Unused
<1>4. PICK r \in Runs, b \in Blocks :
        /\ r = handle[h] /\ b = impl[r].id
        /\ tcb[b].run = r /\ tcb[b].state # "free"
  BY <1>u, <1>3, OwnBlock
<1>1. /\ tcb' = [tcb EXCEPT ![b] = IF @.state = "active" THEN [@ EXCEPT !.joinable = FALSE]
                                                        ELSE FreeBlock]
      /\ joining' = [joining EXCEPT ![c] = h] /\ pc' = [pc EXCEPT ![c] = "detached"]
      /\ UNCHANGED <<handle, impl, run, program>>
  BY <1>4 DEF Detach
<1>5. pc[c] = "idle" /\ joining[c] = NoHandle
  BY DEF Detach, Idle, IndInv, JoinsFit
<1>6. \A g \in Handles : g # h => handle[g] # r
  BY <1>4, NullIsNoRun DEF IndInv, HandlesDiffer
<1>7. \A x \in Threads : x # c => joining'[x] = joining[x] /\ pc'[x] = pc[x]
  BY <1>1, <1>2 DEF TypeOK
<1>8. joining'[c] = h /\ pc'[c] = "detached"
  BY <1>1, <1>2 DEF TypeOK
<1>9. \A g \in Handles : Joinable(g)' <=> Joinable(g)
  BY <1>1 DEF Joinable
<1>10. \A a \in Blocks : a # b => tcb'[a] = tcb[a]
  BY <1>1, <1>2 DEF TypeOK
<1>11. \/ tcb[b].state = "active" /\ tcb'[b] = [tcb[b] EXCEPT !.joinable = FALSE]
       \/ tcb[b].state # "active" /\ tcb'[b] = FreeBlock
  BY <1>1, <1>2, <1>4 DEF TypeOK
<1>12. tcb[b] \in [state : {"free", "active", "terminated"}, run : Runs \cup {Null}, joinable : BOOLEAN]
  BY <1>2 DEF TypeOK
<1>13. \/ /\ tcb'[b].state = "active" /\ tcb'[b].run = r /\ tcb[b].state = "active"
       \/ /\ tcb'[b].state = "free" /\ tcb'[b].run = Null /\ tcb[b].state # "active"
  <2>1. CASE tcb[b].state = "active"
    BY <1>4, <1>11, <1>12, <2>1
  <2>2. CASE tcb[b].state # "active"
    BY <1>11, <2>2 DEF FreeBlock
  <2> QED BY <2>1, <2>2
<1>x. tcb'[b].joinable = FALSE
  BY <1>11, <1>12 DEF FreeBlock
<1>y. tcb'[b] \in [state : {"free", "active", "terminated"}, run : Runs \cup {Null}, joinable : BOOLEAN]
  <2>1. CASE tcb[b].state = "active"
    BY <1>11, <1>12, <2>1
  <2>2. CASE tcb[b].state # "active"
    <3>1. tcb'[b] = FreeBlock
      BY <1>11, <2>2
    <3> QED BY <3>1 DEF FreeBlock
  <2> QED BY <2>1, <2>2
<1>14. TypeOK'
  <2>1. tcb' \in [Blocks -> [state : {"free", "active", "terminated"}, run : Runs \cup {Null},
                            joinable : BOOLEAN]]
    BY <1>1, <1>2, <1>10, <1>y DEF TypeOK
  <2>2. pc' \in [Threads -> {"idle", "blocked", "woken", "detached"}]
    BY <1>1, <1>2 DEF TypeOK
  <2>3. joining' \in [Threads -> Handles \cup {NoHandle}]
    BY <1>1, <1>2 DEF TypeOK
  <2> QED BY <1>1, <1>2, <2>1, <2>2, <2>3 DEF TypeOK
<1>15. HandlesDiffer' /\ BornFirst'
  BY <1>1 DEF IndInv, HandlesDiffer, BornFirst
<1>16. BlocksFit'
  <2>1. \A s \in Runs : Detaching(s) => Detaching(s)'
    BY <1>1, <1>5, <1>7 DEF Detaching
  <2>2. Detaching(r)'
    BY <1>1, <1>4, <1>8 DEF Detaching
  <2>3. tcb'[b].state = "active" => run[r] = "running" /\ impl[r].id = b
    BY <1>4, <1>13 DEF IndInv, BlocksFit
  <2> QED BY <1>1, <1>10, <1>13, <2>1, <2>2, <2>3 DEF IndInv, BlocksFit
<1>17. RunsFit'
  BY <1>1, <1>10, <1>13 DEF IndInv, RunsFit, RunsOn
<1>18. JoinablesHaveHandles'
  BY <1>1, <1>9, <1>10, <1>x DEF IndInv, JoinablesHaveHandles, HasHandle
<1>19. JoinsFit'
  BY <1>1, <1>u, <1>5, <1>7, <1>8, <1>9 DEF IndInv, JoinsFit, Unused
<1>20. \A a \in Blocks : tcb'[a].run \in {tcb[a].run, Null}
  BY <1>4, <1>10, <1>13
<1>21. JoinedIsGone' /\ JoinedHasEnded'
  BY <1>1, <1>7, <1>8, <1>20, NullIsNoRun DEF IndInv, JoinedIsGone, JoinedHasEnded, JoinsFit, Joinable
<1>l. DetachedIsLoose'
  <2>1. \A a \in Blocks : tcb'[a].run = r => ~tcb'[a].joinable
    <3>1. \A a \in Blocks : a # b => tcb[a].run # r
      BY <1>4, NullIsNoRun DEF IndInv, BlocksFit
    <3> QED BY <1>10, <1>x, <3>1
  <2>2. \A a \in Blocks : tcb'[a].joinable => tcb'[a] = tcb[a]
    BY <1>10, <1>x
  <2> QED BY <1>1, <1>4, <1>7, <1>8, <2>1, <2>2 DEF IndInv, DetachedIsLoose
<1>22. JoinableIdIsOwn'
  <2> SUFFICES ASSUME NEW g \in Handles, Joinable(g)', ~GivenUp(g)'
               PROVE  tcb'[impl[handle[g]].id].run = handle[g]
    BY <1>1 DEF JoinableIdIsOwn
  <2>1. g # h /\ Joinable(g) /\ ~GivenUp(g)
    BY <1>5, <1>7, <1>8, <1>9 DEF GivenUp
  <2>2. handle[g] \in Runs /\ impl[handle[g]].id \in Blocks /\ tcb[impl[handle[g]].id].run = handle[g]
    BY <2>1, OwnBlock
  <2>3. impl[handle[g]].id # b
    BY <1>4, <1>6, <2>1, <2>2
  <2> QED BY <1>10, <2>2, <2>3
<1>23. NobodyJoinsItself'
  BY <1>1, <1>7, <1>8 DEF IndInv, NobodyJoinsItself, Threads
<1> QED BY <1>14, <1>15, <1>16, <1>17, <1>18, <1>19, <1>21, <1>l, <1>22, <1>23 DEF IndInv

-----------------------------------------------------------------------------
(* The end of a thread, together with the loss of a handle that is not     *)
(* joinable: what its own return, and a destructor, come to.               *)
LEMMA EndsInv ==
  ASSUME IndInv, NEW b \in Blocks, NEW how \in {"finished", "killed"},
         tcb[b].state = "active", pc[tcb[b].run] \notin {"woken", "detached"}, ThreadEnds(b, how),
         handle' \in [Handles -> Runs \cup {Null}],
         \A g \in Handles : \/ handle'[g] = handle[g]
                            \/ ~Joinable(g) /\ handle'[g] = Null,
         UNCHANGED <<impl, program>>
  PROVE  IndInv'
<1>2. TypeOK
  BY DEF IndInv
<1>1. PICK r \in Runs : r = tcb[b].run /\ impl[r].id = b /\ run[r] = "running"
  BY DEF IndInv, BlocksFit
<1>3. /\ run' = [run EXCEPT ![r] = how] /\ joining' = [joining EXCEPT ![r] = NoHandle]
      /\ tcb' = [tcb EXCEPT ![b] = IF tcb[b].joinable /\ Joiners(b) = {}
                                     THEN [tcb[b] EXCEPT !.state = "terminated"] ELSE FreeBlock]
      /\ pc' = [x \in Threads |-> IF x \in Joiners(b) THEN "woken"
                                  ELSE IF x = r THEN "idle" ELSE pc[x]]
  BY <1>1 DEF ThreadEnds
<1>4. Joiners(b) \subseteq Threads /\ r \in Threads
  BY DEF Joiners, Threads
(* Who waits for the block has a handle of the routine on it. *)
<1>5. \A x \in Joiners(b) :
        /\ pc[x] = "blocked" /\ joining[x] \in Handles /\ Joinable(joining[x])
        /\ handle[joining[x]] = r
  BY <1>1, BlockedWaitsForItsOwn DEF Joiners
<1>6. r \notin Joiners(b)
  BY <1>5 DEF IndInv, NobodyJoinsItself
<1>7. \A x \in Threads : x # r => joining'[x] = joining[x]
  BY <1>2, <1>3 DEF TypeOK
<1>8. joining'[r] = NoHandle /\ pc'[r] = "idle"
  BY <1>2, <1>3, <1>4, <1>6 DEF TypeOK
<1>9. \A x \in Threads : x # r => pc'[x] = IF x \in Joiners(b) THEN "woken" ELSE pc[x]
  BY <1>3
<1>10. \A a \in Blocks : a # b => tcb'[a] = tcb[a]
  BY <1>2, <1>3 DEF TypeOK
<1>11. tcb[b] \in [state : {"free", "active", "terminated"}, run : Runs \cup {Null}, joinable : BOOLEAN]
  BY <1>2 DEF TypeOK
<1>12. /\ \/ tcb[b].joinable /\ Joiners(b) = {} /\ tcb'[b].state = "terminated"
             /\ tcb'[b].run = r /\ tcb'[b].joinable
          \/ tcb'[b].state = "free" /\ tcb'[b].run = Null /\ ~(tcb[b].joinable /\ Joiners(b) = {})
       /\ tcb'[b] \in [state : {"free", "active", "terminated"}, run : Runs \cup {Null},
                       joinable : BOOLEAN]
  <2>1. CASE tcb[b].joinable /\ Joiners(b) = {}
    <3>1. tcb'[b] = [tcb[b] EXCEPT !.state = "terminated"]
      BY <1>2, <1>3, <2>1 DEF TypeOK
    <3>2. tcb'[b].state = "terminated" /\ tcb'[b].run = r /\ tcb'[b].joinable = tcb[b].joinable
      BY <1>1, <1>11, <3>1
    <3>3. tcb'[b] \in [state : {"free", "active", "terminated"}, run : Runs \cup {Null},
                      joinable : BOOLEAN]
      BY <1>11, <3>1
    <3> QED BY <2>1, <3>2, <3>3
  <2>2. CASE ~(tcb[b].joinable /\ Joiners(b) = {})
    <3>1. tcb'[b] = FreeBlock
      BY <1>2, <1>3, <2>2 DEF TypeOK
    <3> QED BY <2>2, <3>1 DEF FreeBlock
  <2> QED BY <2>1, <2>2
<1>13. \A s \in Runs : run'[s] = IF s = r THEN how ELSE run[s]
  BY <1>2, <1>3 DEF TypeOK
<1>14. \A g \in Handles : Joinable(g)' => Joinable(g) /\ handle'[g] = handle[g]
  BY DEF Joinable
<1>15. \A g \in Handles : Joinable(g) => Joinable(g)' /\ handle'[g] = handle[g]
  BY DEF Joinable
<1>16. \A x \in Threads : pc[x] # "idle" => handle'[joining[x]] = handle[joining[x]] /\ Joinable(joining[x])
  BY <1>15 DEF IndInv, JoinsFit
<1>17. \A g \in Handles : GivenUp(g) => GivenUp(g)'
  <2>1. \A x \in Threads : pc[x] \in {"woken", "detached"} => x # r /\ x \notin Joiners(b)
    BY <1>1, <1>5
  <2> QED BY <1>7, <1>9, <2>1 DEF GivenUp
<1>d. \A x \in Threads :
        /\ pc'[x] = "detached" => pc[x] = "detached" /\ joining'[x] = joining[x]
        /\ pc[x] = "detached" => pc'[x] = "detached" /\ joining'[x] = joining[x]
  BY <1>1, <1>5, <1>7, <1>8, <1>9
<1>18. TypeOK'
  <2>1. run' \in [Runs -> {"unborn", "running", "finished", "killed"}]
    BY <1>2, <1>3 DEF TypeOK
  <2>2. tcb' \in [Blocks -> [state : {"free", "active", "terminated"}, run : Runs \cup {Null},
                            joinable : BOOLEAN]]
    BY <1>2, <1>3, <1>10, <1>12 DEF TypeOK
  <2>3. pc' \in [Threads -> {"idle", "blocked", "woken", "detached"}]
    BY <1>2, <1>3 DEF TypeOK
  <2>4. joining' \in [Threads -> Handles \cup {NoHandle}]
    BY <1>2, <1>3 DEF TypeOK
  <2>5. \A g \in Handles : handle'[g] # Null => impl'[handle'[g]].id # NoBlock
    BY <1>2 DEF TypeOK
  <2> QED BY <1>2, <2>1, <2>2, <2>3, <2>4, <2>5 DEF TypeOK
<1>19. HandlesDiffer'
  BY DEF IndInv, HandlesDiffer
<1>20. BornFirst'
  BY <1>2, <1>13, NullIsNoRun DEF IndInv, TypeOK, BornFirst
<1>21. BlocksFit'
  <2>1. \A a \in Blocks : a # b => tcb[a].run # r \/ tcb[a].state = "free"
    BY <1>1 DEF IndInv, BlocksFit
  <2>2. \A s \in Runs : Detaching(s) => Detaching(s)'
    BY <1>16, <1>d DEF Detaching
  <2> QED BY <1>1, <1>10, <1>12, <1>13, <2>1, <2>2, NullIsNoRun DEF IndInv, BlocksFit
<1>22. RunsFit'
  <2>1. \A s \in Runs : run'[s] = "running" => s # r /\ run[s] = "running" /\ impl[s].id # b
    BY <1>1, <1>13 DEF IndInv, RunsFit, RunsOn
  <2> QED BY <1>10, <2>1 DEF IndInv, RunsFit, RunsOn
<1>23. JoinablesHaveHandles'
  <2> SUFFICES ASSUME NEW a \in Blocks, tcb'[a].state # "free", tcb'[a].joinable
               PROVE  HasHandle(a)'
    BY DEF JoinablesHaveHandles
  <2>1. tcb'[a].run = tcb[a].run /\ tcb[a].state # "free" /\ tcb[a].joinable
    BY <1>1, <1>10, <1>12
  <2>2. PICK g \in Handles : Joinable(g) /\ handle[g] = tcb[a].run
    BY <2>1 DEF IndInv, JoinablesHaveHandles, HasHandle
  <2> QED BY <1>15, <2>1, <2>2 DEF HasHandle
<1>24. JoinsFit'
  <2>1. \A x \in Threads : x # r => (pc'[x] = "idle" <=> pc[x] = "idle")
    BY <1>5, <1>9
  <2> QED BY <1>7, <1>8, <1>15, <2>1, ConstantsAssumption DEF IndInv, JoinsFit
<1>25. \A a \in Blocks : tcb'[a].run \in {tcb[a].run, Null}
  BY <1>1, <1>10, <1>12
<1>26. ASSUME NEW x \in Threads, pc'[x] = "woken"
       PROVE  /\ run'[handle'[joining'[x]]] \in {"finished", "killed"}
              /\ \A a \in Blocks : tcb'[a].run # handle'[joining'[x]]
  <2>1. x # r /\ joining'[x] = joining[x]
    BY <1>7, <1>8, <1>26
  <2>2. CASE x \in Joiners(b)
    <3>1. handle'[joining'[x]] = r
      BY <1>5, <1>15, <2>1, <2>2
    <3>2. \A a \in Blocks : tcb'[a].run # r
      BY <1>1, <1>10, <1>12, <2>2, NullIsNoRun DEF IndInv, TypeOK, BlocksFit
    <3> QED BY <1>13, <3>1, <3>2
  <2>3. CASE x \notin Joiners(b)
    <3>1. pc[x] = "woken"
      BY <1>9, <1>26, <2>1, <2>3
    <3>2. handle'[joining'[x]] = handle[joining[x]] /\ handle[joining[x]] \in Runs
      BY <1>2, <1>16, <2>1, <3>1 DEF IndInv, JoinsFit, TypeOK, Joinable
    <3>3. /\ run[handle[joining[x]]] \in {"finished", "killed"}
          /\ \A a \in Blocks : tcb[a].run # handle[joining[x]]
      BY <3>1 DEF IndInv, JoinedIsGone, JoinedHasEnded
    <3> QED BY <1>13, <1>25, <3>2, <3>3, NullIsNoRun
  <2> QED BY <2>2, <2>3
<1>27. JoinedIsGone' /\ JoinedHasEnded'
  BY <1>26 DEF JoinedIsGone, JoinedHasEnded
<1>l. DetachedIsLoose'
  <2>1. \A a \in Blocks : tcb'[a].run \in Runs => tcb'[a].run = tcb[a].run /\ tcb'[a].joinable = tcb[a].joinable
    BY <1>1, <1>10, <1>12, NullIsNoRun
  <2>2. \A x \in Threads : pc[x] = "detached" => handle[joining[x]] \in Runs
    BY <1>2 DEF IndInv, JoinsFit, TypeOK, Joinable
  <2> QED BY <1>16, <1>d, <2>1, <2>2 DEF IndInv, DetachedIsLoose
<1>28. JoinableIdIsOwn'
  <2> SUFFICES ASSUME NEW g \in Handles, Joinable(g)', ~GivenUp(g)'
               PROVE  tcb'[impl[handle[g]].id].run = handle[g]
    BY <1>14 DEF JoinableIdIsOwn
  <2>1. Joinable(g) /\ ~GivenUp(g)
    BY <1>14, <1>17
  <2>2. impl[handle[g]].id \in Blocks /\ tcb[impl[handle[g]].id].run = handle[g] /\ handle[g] \in Runs
    BY <2>1, OwnBlock
  <2>3. CASE impl[handle[g]].id # b
    BY <1>10, <2>2, <2>3
  <2>4. CASE impl[handle[g]].id = b
    <3>1. handle[g] = r
      BY <1>1, <2>2, <2>4
    <3>2. Joiners(b) = {}
      <4>1. ASSUME NEW x \in Joiners(b)
            PROVE  FALSE
        <5>1. joining[x] = g /\ x \in Threads /\ x # r
          BY <1>4, <1>5, <1>6, <3>1, NullIsNoRun DEF IndInv, HandlesDiffer
        <5>2. joining'[x] = g /\ pc'[x] = "woken"
          BY <1>7, <1>9, <5>1
        <5> QED BY <2>1, <5>1, <5>2 DEF GivenUp
      <4> QED BY <4>1
    <3>3. tcb[b].joinable
      BY <1>1, <2>1, <3>1, NullIsNoRun DEF IndInv, BlocksFit, Joinable, Detaching, GivenUp, JoinsFit, HandlesDiffer
    <3> QED BY <1>12, <2>4, <3>1, <3>2, <3>3
  <2> QED BY <2>3, <2>4
<1>29. NobodyJoinsItself'
  <2>1. \A s \in Runs, g \in Handles : joining'[s] = g => s # r /\ joining[s] = g
    BY <1>7, <1>8, ConstantsAssumption DEF Threads
  <2>2. \A s \in Runs : pc'[s] # "detached" => pc[s] # "detached"
    BY <1>d DEF Threads
  <2> QED BY <2>1, <2>2, NullIsNoRun DEF IndInv, NobodyJoinsItself
<1> QED BY <1>18, <1>19, <1>20, <1>21, <1>22, <1>23, <1>24, <1>27, <1>l, <1>28, <1>29 DEF IndInv

(* A routine that returns. *)
LEMMA ExitInv ==
  ASSUME IndInv, NEW b \in Blocks, Exit(b)
  PROVE  IndInv'
<1>1. /\ tcb[b].state = "active" /\ pc[tcb[b].run] = "idle"
      /\ ThreadEnds(b, "finished") /\ UNCHANGED <<handle, impl, program>>
  BY DEF Exit, Idle
<1>2. handle' \in [Handles -> Runs \cup {Null}]
  BY <1>1 DEF IndInv, TypeOK
<1> QED BY <1>1, <1>2, EndsInv

(* A destructor: the loss of a handle that is not joinable, with or without *)
(* the end of the thread that its id refers to by now.                      *)
LEMMA DestroyInv ==
  ASSUME IndInv, NEW c \in Threads, NEW h \in Handles, Destroy(c, h)
  PROVE  IndInv'
<1>1. CASE Stop("terminated") \/ Stop("severed")
  BY <1>1, StopInv
<1>2. CASE /\ ~Joinable(h) /\ handle[h] # Null
           /\ ~InTheGap(impl[handle[h]].id) /\ TerminateThread(impl[handle[h]].id)
           /\ handle' = [handle EXCEPT ![h] = Null] /\ UNCHANGED <<impl, program>>
  <2>1. TypeOK
    BY DEF IndInv
  <2>2. PICK b \in Blocks : b = impl[handle[h]].id
    BY <1>2, <2>1 DEF TypeOK
  <2>3. handle' \in [Handles -> Runs \cup {Null}]
    BY <1>2, <2>1 DEF TypeOK
  <2>4. \A g \in Handles : \/ handle'[g] = handle[g]
                           \/ ~Joinable(g) /\ handle'[g] = Null
    BY <1>2, <2>1 DEF TypeOK
  <2>5. CASE tcb[b].state = "active" /\ ThreadEnds(b, "killed")
    <3>1. pc[tcb[b].run] \notin {"woken", "detached"}
      BY <1>2, <2>2, <2>5 DEF InTheGap
    <3> QED BY <1>2, <2>3, <2>4, <2>5, <3>1, EndsInv
  <2>6. CASE UNCHANGED <<run, tcb, pc, joining>>
    <3>1. \A g \in Handles : /\ Joinable(g)' <=> Joinable(g)
                             /\ Joinable(g) => handle'[g] = handle[g]
      BY <1>2, <2>4 DEF Joinable
    <3>2. \A g \in Handles : GivenUp(g)' <=> GivenUp(g)
      BY <2>6 DEF GivenUp
    <3>3. \A x \in Threads : pc[x] # "idle" => handle'[joining[x]] = handle[joining[x]]
      BY <3>1 DEF IndInv, JoinsFit
    <3>4. TypeOK'
      BY <1>2, <2>1, <2>3, <2>6 DEF TypeOK
    <3>5. HandlesDiffer' /\ BornFirst'
      BY <1>2, <2>4, <2>6 DEF IndInv, HandlesDiffer, BornFirst
    <3>6. BlocksFit' /\ RunsFit'
      <4>1. \A r \in Runs : Detaching(r) => Detaching(r)'
        BY <2>6, <3>3 DEF Detaching
      <4> QED BY <1>2, <2>6, <4>1 DEF IndInv, BlocksFit, RunsFit, RunsOn
    <3>7. JoinablesHaveHandles'
      BY <2>6, <3>1 DEF IndInv, JoinablesHaveHandles, HasHandle
    <3>8. JoinsFit'
      BY <2>6, <3>1 DEF IndInv, JoinsFit
    <3>9. JoinedIsGone' /\ DetachedIsLoose' /\ JoinedHasEnded'
      BY <2>6, <3>3 DEF IndInv, JoinedIsGone, DetachedIsLoose, JoinedHasEnded
    <3>10. JoinableIdIsOwn'
      BY <1>2, <2>6, <3>1, <3>2 DEF IndInv, JoinableIdIsOwn
    <3>11. NobodyJoinsItself'
      BY <2>4, <2>6, NullIsNoRun DEF IndInv, NobodyJoinsItself
    <3> QED BY <3>4, <3>5, <3>6, <3>7, <3>8, <3>9, <3>10, <3>11 DEF IndInv
  <2> QED BY <1>2, <2>2, <2>5, <2>6 DEF TerminateThread
<1> QED BY <1>1, <1>2 DEF Destroy

LEMMA NextInv == IndInv /\ [Next]_vars => IndInv'
<1> SUFFICES ASSUME IndInv, [Next]_vars PROVE IndInv'
  OBVIOUS
<1>1. CASE UNCHANGED vars
  BY <1>1 DEF vars, IndInv, TypeOK, HandlesDiffer, BornFirst, BlocksFit, RunsFit, JoinablesHaveHandles,
              HasHandle, JoinsFit, JoinedIsGone, DetachedIsLoose, Detaching, JoinableIdIsOwn, JoinedHasEnded, NobodyJoinsItself,
              Joinable, GivenUp, RunsOn
<1>2. ASSUME NEW c \in Threads, NEW h \in Handles,
             New(c, h) \/ Join(c, h) \/ Detach(c, h) \/ Destroy(c, h)
               \/ (\E from \in Handles : MoveAssign(c, h, from))
      PROVE  IndInv'
  BY <1>2, NewInv, JoinInv, DetachInv, DestroyInv, MoveInv
<1>3. ASSUME NEW c \in Threads, JoinReturns(c) \/ DetachReturns(c)
      PROVE  IndInv'
  BY <1>3, JoinReturnsInv, DetachReturnsInv
<1>4. ASSUME NEW b \in Blocks, Exit(b) \/ Throw(b)
      PROVE  IndInv'
  BY <1>4, ExitInv, StopInv DEF Throw
<1> QED BY <1>1, <1>2, <1>3, <1>4 DEF Next

-----------------------------------------------------------------------------
(* The inductive invariant holds in every reachable state. *)
THEOREM Inductive == Spec => []IndInv
BY InitInv, NextInv, PTL DEF Spec

(* Handles, thread_impls, control blocks and threads keep their types. *)
THEOREM TypeCorrect == Spec => []TypeOK
<1>1. IndInv => TypeOK
  BY DEF IndInv
<1> QED BY <1>1, Inductive, PTL

(* The control block of a joinable handle runs its own routine, or holds   *)
(* what is left of it, until a join or a detach of that handle has been    *)
(* through the RTOS (Thread.cpp:74 and 89); the store of m_detached comes  *)
(* after that (lines 84 and 99), and the theorem does not reach into the   *)
(* time between the two.                                                   *)
THEOREM AJoinableHandleKeepsItsThread == Spec => []JoinableIdIsOwn
<1>1. IndInv => JoinableIdIsOwn
  BY DEF IndInv
<1> QED BY <1>1, Inductive, PTL

(* Joins and detaches that race with the end of a thread do not lose its   *)
(* control block (Thread.cpp:72 and 87).                                   *)
THEOREM NoBlockIsLost == Spec => []NoOrphanBlock
<1>1. IndInv => NoOrphanBlock
  BY DEF IndInv, BlocksFit, JoinablesHaveHandles, HasHandle, NoOrphanBlock
<1> QED BY <1>1, Inductive, PTL

(* A join returns only after its own routine has ended (Thread.cpp:74). *)
THEOREM AJoinWaitsForItsOwn == Spec => []JoinedHasEnded
<1>1. IndInv => JoinedHasEnded
  BY DEF IndInv
<1> QED BY <1>1, Inductive, PTL

(* The comparison of control blocks in join (Thread.cpp:178) is enough. *)
THEOREM NoThreadWaitsForItself == Spec => []NobodyJoinsItself
<1>1. IndInv => NobodyJoinsItself
  BY DEF IndInv
<1> QED BY <1>1, Inductive, PTL

(* The step kills the thread of handle h, which somebody could still join. *)
KillsJoinable(h) ==
  /\ Joinable(h)
  /\ run[handle[h]] # "killed" /\ run'[handle[h]] = "killed"

(* The step destroys a handle that was joined or detached, whose own       *)
(* thread is over, and whose control block is the one of handle h now.     *)
DestroysStale(h) ==
  \E g \in Handles :
    /\ handle[g] # Null /\ ~Joinable(g) /\ handle'[g] = Null
    /\ run[handle[g]] \in {"finished", "killed"}
    /\ impl[handle[g]].id = impl[handle[h]].id

StaleHandlesKill == \A h \in Handles : KillsJoinable(h) => DestroysStale(h)

(* The thread of a joinable handle is killed in one way only: another      *)
(* handle, joined or detached before, is destroyed or assigned to after    *)
(* its control block has gone to the new thread (Thread.cpp:70).           *)
THEOREM OnlyStaleHandlesKill ==
  Spec => [][StaleHandlesKill]_vars
<1>1. ASSUME IndInv, Next, NEW h \in Handles, KillsJoinable(h)
      PROVE  DestroysStale(h)
  <2> DEFINE r == handle[h]
  <2>0. TypeOK /\ r \in Runs /\ run \in [Runs -> {"unborn", "running", "finished", "killed"}]
    BY <1>1 DEF IndInv, TypeOK, KillsJoinable, Joinable
  <2>1. PICK c \in Threads, g \in Handles : Destroy(c, g)
    BY <1>1, <2>0 DEF Next, New, Join, Detach, MoveAssign, JoinReturns, DetachReturns, StoreDetached,
                      Exit, Throw, Stop, ThreadEnds, KillsJoinable
  <2>2. PICK b : b = impl[handle[g]].id
    OBVIOUS
  <2>3. /\ ~Joinable(g) /\ handle[g] # Null /\ handle' = [handle EXCEPT ![g] = Null]
        /\ tcb[b].state = "active" /\ ThreadEnds(b, "killed")
    BY <1>1, <2>1, <2>2 DEF Destroy, Stop, TerminateThread, KillsJoinable
  <2>4. b \in Blocks /\ handle[g] \in Runs /\ handle'[g] = Null
    BY <2>0, <2>2, <2>3 DEF TypeOK
  <2>5. r = tcb[b].run /\ impl[r].id = b
    BY <1>1, <2>0, <2>3, <2>4 DEF ThreadEnds, KillsJoinable, IndInv, BlocksFit
  <2>6. handle[g] # r
    BY <1>1, <2>3, <2>4 DEF KillsJoinable, IndInv, HandlesDiffer
  <2>7. run[handle[g]] # "running"
    BY <1>1, <2>2, <2>4, <2>5, <2>6 DEF IndInv, RunsFit, RunsOn
  <2>8. run[handle[g]] # "unborn"
    BY <1>1, <2>3 DEF IndInv, BornFirst
  <2>9. run[handle[g]] \in {"finished", "killed"}
    BY <2>0, <2>4, <2>7, <2>8
  <2> QED BY <2>2, <2>3, <2>4, <2>5, <2>9 DEF DestroysStale
<1>2. IndInv /\ [Next]_vars => [StaleHandlesKill]_vars
  BY <1>1 DEF StaleHandlesKill
<1> QED BY <1>2, Inductive, PTL DEF Spec
=============================================================================
