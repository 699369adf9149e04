------------------------------ MODULE SyncProofs ------------------------------
(***************************************************************************)
(* For any threads, limits, events and flags: what the operations of a     *)
(* mutex tell their callers is what the RTOS has done, and which of them   *)
(* throw when the mutex is taken; a semaphore neither makes nor loses a    *)
(* token and is a counting semaphore with all its releases in turns, what  *)
(* a wait for flags says is true, and the handles of events and the event  *)
(* flags of the RTOS belong together.                                      *)
(***************************************************************************)
EXTENDS ObjectsProofs

(* A thread is in a call of the mutex as long as it has a status, and the  *)
(* call is one of the three.                                               *)
MutexCalls ==
  \A t \in Threads : status[t] # "none" =>
    /\ plan.part = "mutex" /\ t \in busy
    /\ asked[t].op \in {"lock", "try_lock", "try_lock_for"}

MutexInv == MutexCalls /\ BeliefIsOwnership

(* Only osOK is told as a lock. *)
LEMMA ResultIsTrue ==
  ASSUME NEW a, NEW s, a.op \in {"lock", "try_lock", "try_lock_for"}
  PROVE  MutexResult(a, s) = "true" <=> s = "osOK"
BY DEF MutexResult, LockResult, TryLockResult, TryLockForResult

LEMMA AskKeeps ==
  ASSUME MutexTypeOK, OwnerCounts, MutexInv, plan.part = "mutex", UNCHANGED plan,
         NEW t \in Threads, NEW op \in {"lock", "try_lock", "try_lock_for"}, NEW ticks \in Ticks,
         AskMutex(t, op, ticks)
  PROVE  MutexInv'
<1>1. t \notin busy /\ status[t] = "none" /\ busy' = busy \cup {t} /\ UNCHANGED belief
      /\ asked' = [asked EXCEPT ![t] = [op |-> op, ticks |-> ticks]]
  BY DEF AskMutex, Ready, MutexInv, MutexCalls
<1>2. \A u \in Threads : u # t => status'[u] = status[u] /\ asked'[u] = asked[u]
  BY <1>1 DEF AskMutex, MutexAcquire, MutexTypeOK
<1>3. MutexCalls'
  BY <1>1, <1>2 DEF MutexTypeOK, MutexInv, MutexCalls
<1>4. BeliefIsOwnership'
  <2>1. CASE /\ owner = NoThread \/ (owner = t /\ Recursive /\ count < MaxCount)
             /\ owner' = t /\ count' = count + 1
             /\ status' = [status EXCEPT ![t] = "osOK"]
    <3>1. status'[t] = "osOK" /\ t # NoThread
      BY <2>1, KernelAssumption DEF MutexTypeOK
    <3>2. belief[t] = IF owner = t THEN count ELSE 0
      BY <1>1 DEF MutexInv, BeliefIsOwnership, MutexTypeOK
    <3>3. belief'[t] + 1 = count'
      BY <1>1, <2>1, <3>1, <3>2 DEF OwnerCounts, MutexTypeOK
    <3>4. \A u \in Threads : u # t => owner # u /\ owner' # u
      BY <2>1, KernelAssumption
    <3> QED BY <1>1, <1>2, <2>1, <3>1, <3>3, <3>4 DEF MutexInv, BeliefIsOwnership, MutexTypeOK
  <2>2. CASE UNCHANGED <<owner, count>> /\ status'[t] # "osOK"
    BY <1>1, <1>2, <2>2 DEF MutexInv, BeliefIsOwnership
  <2>3. \/ /\ owner = NoThread \/ (owner = t /\ Recursive /\ count < MaxCount)
           /\ owner' = t /\ count' = count + 1
           /\ status' = [status EXCEPT ![t] = "osOK"]
        \/ UNCHANGED <<owner, count>> /\ status'[t] # "osOK"
    BY DEF AskMutex, MutexAcquire, MutexTypeOK
  <2> QED BY <2>1, <2>2, <2>3
<1> QED BY <1>3, <1>4 DEF MutexInv

LEMMA ReleaseKeeps ==
  ASSUME MutexTypeOK, OwnerCounts, MutexInv, plan.part = "mutex", UNCHANGED plan,
         NEW t \in Threads, MutexUnlock(t)
  PROVE  MutexInv'
<1>1. /\ t \notin busy /\ status[t] = "none" /\ owner = t /\ belief[t] = count
      /\ belief' = [belief EXCEPT ![t] = @ - 1] /\ UNCHANGED <<asked, busy>>
  BY DEF MutexUnlock, Ready, MutexInv, MutexCalls, BeliefIsOwnership, MutexTypeOK
<1>2. /\ belief'[t] = count - 1
      /\ \A u \in Threads : u # t => belief'[u] = belief[u]
  BY <1>1 DEF MutexTypeOK
<1>c. UNCHANGED status => MutexCalls'
  BY <1>1 DEF MutexInv, MutexCalls
<1>3. CASE count > 1 /\ count' = count - 1 /\ UNCHANGED <<owner, status>>
  <2>1. BeliefIsOwnership'
    BY <1>1, <1>2, <1>3 DEF MutexInv, BeliefIsOwnership
  <2> QED BY <1>3, <1>c, <2>1 DEF MutexInv
<1>4. CASE count = 1 /\ count' = 0 /\ owner' = NoThread /\ UNCHANGED status
  <2>1. BeliefIsOwnership'
    BY <1>1, <1>2, <1>4, KernelAssumption DEF MutexInv, BeliefIsOwnership
  <2> QED BY <1>4, <1>c, <2>1 DEF MutexInv
<1>5. ASSUME NEW w \in Waiting, count = 1, owner' = w, status' = [status EXCEPT ![w] = "osOK"],
             UNCHANGED count
      PROVE  MutexInv'
  <2>1. w \in Threads /\ w # t /\ status[w] = "pending" /\ belief[w] = 0
    BY <1>1 DEF Waiting, MutexInv, BeliefIsOwnership, MutexTypeOK
  <2>2. status'[w] = "osOK" /\ \A u \in Threads : u # w => status'[u] = status[u]
    BY <1>5, <2>1 DEF MutexTypeOK
  <2>3. MutexCalls'
    BY <1>1, <2>1, <2>2 DEF MutexInv, MutexCalls
  <2>4. \A u \in Threads : u # t /\ u # w => owner # u /\ owner' # u
    BY <1>1, <1>5
  <2>5. BeliefIsOwnership'
    BY <1>1, <1>2, <1>5, <2>1, <2>2, <2>4 DEF MutexInv, BeliefIsOwnership
  <2> QED BY <2>3, <2>5 DEF MutexInv
<1> QED BY <1>3, <1>4, <1>5 DEF MutexUnlock, MutexRelease

LEMMA MutexNextKeeps ==
  ASSUME MutexTypeOK, OwnerCounts, MutexInv, plan.part = "mutex", UNCHANGED plan, MutexNext
  PROVE  MutexInv'
<1>1. ASSUME NEW t \in Threads, MutexLock(t) \/ TryLock(t) \/ TryLockFor(t) PROVE MutexInv'
  BY <1>1, AskKeeps DEF MutexLock, TryLock, TryLockFor, Ticks, Negative
<1>2. ASSUME NEW t \in Threads, MutexTimeout(t) PROVE MutexInv'
  BY <1>2 DEF MutexTimeout, MutexInv, MutexCalls, BeliefIsOwnership, MutexTypeOK
<1>3. ASSUME NEW t \in Threads, MutexReturns(t) PROVE MutexInv'
  <2>1. asked[t].op \in {"lock", "try_lock", "try_lock_for"} /\ status[t] # "none"
    BY <1>3 DEF MutexReturns, MutexInv, MutexCalls
  <2>2. belief'[t] = IF status[t] = "osOK" THEN belief[t] + 1 ELSE belief[t]
    BY <1>3, <2>1, ResultIsTrue DEF MutexReturns, MutexTypeOK
  <2>3. /\ status'[t] = "none" /\ UNCHANGED <<owner, count>> /\ busy' = busy \ {t}
        /\ \A u \in Threads : u # t =>
             belief'[u] = belief[u] /\ status'[u] = status[u] /\ asked'[u] = asked[u]
    BY <1>3 DEF MutexReturns, MutexTypeOK
  <2>4. MutexCalls'
    BY <2>3 DEF MutexInv, MutexCalls
  <2>5. BeliefIsOwnership'
    BY <2>2, <2>3 DEF MutexInv, BeliefIsOwnership, MutexTypeOK
  <2> QED BY <2>4, <2>5 DEF MutexInv
<1>4. ASSUME NEW t \in Threads, MutexUnlock(t) PROVE MutexInv'
  BY <1>4, ReleaseKeeps
<1>5. ASSUME NEW t \in Threads, MutexNew(t) \/ MutexDestroy(t) PROVE MutexInv'
  BY <1>5 DEF MutexNew, MutexDestroy, MutexInv, MutexCalls, BeliefIsOwnership
<1> QED BY <1>1, <1>2, <1>3, <1>4, <1>5 DEF MutexNext

LEMMA SpecMutexInv == Spec => []MutexInv
<1>1. Init => MutexInv
  BY MutexAssumption, KernelAssumption
     DEF Init, MutexInit, MutexInv, MutexCalls, BeliefIsOwnership
<1>2. TypeInv /\ MutexInv /\ [Next]_vars => MutexInv'
  <2> SUFFICES ASSUME TypeInv, MutexInv, [Next]_vars PROVE MutexInv'
    OBVIOUS
  <2>p. UNCHANGED plan
    BY DEF Next, KernelStep, ListStep, MutexStep, SemaphoreStep, FlagsStep, PoolStep, vars
  <2>1. CASE MutexStep
    BY <2>p, <2>1, MutexNextKeeps DEF MutexStep, TypeInv, TypeOK
  <2>2. CASE UNCHANGED mutexVars /\ (plan.part # "mutex" \/ UNCHANGED busy)
    BY <2>p, <2>2 DEF mutexVars, MutexInv, MutexCalls, BeliefIsOwnership
  <2>3. KernelStep => UNCHANGED busy
    BY DEF KernelStep, KernelNext, Initialize, Start, Suspend, Resume, DispatchLock, DispatchUnlock
  <2> QED BY <2>1, <2>2, <2>3
          DEF Next, KernelStep, ListStep, SemaphoreStep, FlagsStep, PoolStep, vars
<1> QED BY <1>1, <1>2, SpecTypeInv, PTL DEF Spec

(* What a thread was told of its mutex is what the RTOS has counted.       *)
THEOREM SpecBeliefIsOwnership == Spec => []BeliefIsOwnership
<1>1. MutexInv => BeliefIsOwnership
  BY DEF MutexInv
<1> QED BY <1>1, SpecMutexInv, PTL

-----------------------------------------------------------------------------
(* A poll is answered at once; and a call that may wait is refused only if *)
(* its thread has locked the mutex as often as the RTOS lets it.           *)
Refused(t) ==
  status[t] # "none" =>
    /\ asked[t].op = "try_lock" => asked[t].ticks = 0
    /\ asked[t].ticks = 0 => status[t] \in {"osOK", "osErrorResource"}
    /\ status[t] = "osErrorResource" /\ asked[t].ticks # 0 => owner = t /\ count = MaxCount
    /\ status[t] = "osErrorParameter" => asked[t].ticks = Negative

RefusalsInv == \A t \in Threads : Refused(t)

LEMMA RefusalsKept ==
  ASSUME MutexTypeOK, MutexInv, RefusalsInv, MutexNext
  PROVE  RefusalsInv'
<1>1. ASSUME NEW t \in Threads, NEW op, NEW ticks \in Ticks, op = "try_lock" => ticks = 0,
             AskMutex(t, op, ticks)
      PROVE  RefusalsInv'
  <2>1. /\ t \notin busy /\ status[t] = "none"
        /\ asked' = [asked EXCEPT ![t] = [op |-> op, ticks |-> ticks]]
    BY <1>1 DEF AskMutex, Ready, MutexInv, MutexCalls
  <2>2. asked'[t].op = op /\ asked'[t].ticks = ticks
    BY <2>1 DEF MutexTypeOK
  <2>3. \A u \in Threads : u # t => status'[u] = status[u] /\ asked'[u] = asked[u]
    BY <1>1, <2>1 DEF AskMutex, MutexAcquire, MutexTypeOK
  <2>4. \/ /\ owner = NoThread \/ owner = t
           /\ status'[t] = "osOK"
        \/ /\ UNCHANGED <<owner, count>>
           /\ ticks = 0 => status'[t] = "osErrorResource"
           /\ status'[t] = "osErrorResource" => ticks = 0 \/ (owner = t /\ count = MaxCount)
           /\ status'[t] = "osErrorParameter" => ticks = Negative
    BY <1>1 DEF AskMutex, MutexAcquire, MutexTypeOK, Negative
  <2>5. ASSUME NEW u \in Threads, u # t PROVE Refused(u)'
    <3>1. UNCHANGED <<owner, count>> \/ owner # u
      BY <2>4, <2>5, KernelAssumption
    <3> QED BY <2>3, <2>5, <3>1 DEF RefusalsInv, Refused
  <2>6. Refused(t)'
    BY <1>1, <2>2, <2>4 DEF Refused
  <2> QED BY <2>5, <2>6 DEF RefusalsInv, Refused
<1>2. ASSUME NEW t \in Threads, MutexLock(t) PROVE RefusalsInv'
  BY <1>1, <1>2 DEF MutexLock, Ticks, Negative
<1>3. ASSUME NEW t \in Threads, TryLock(t) PROVE RefusalsInv'
  BY <1>1, <1>3 DEF TryLock, Ticks, Negative
<1>4. ASSUME NEW t \in Threads, TryLockFor(t) PROVE RefusalsInv'
  BY <1>1, <1>4 DEF TryLockFor, Ticks, Negative
<1>5. ASSUME NEW t \in Threads, MutexTimeout(t) PROVE RefusalsInv'
  BY <1>5 DEF MutexTimeout, RefusalsInv, Refused, MutexTypeOK
<1>6. ASSUME NEW t \in Threads, MutexReturns(t) PROVE RefusalsInv'
  BY <1>6 DEF MutexReturns, RefusalsInv, Refused, MutexTypeOK
<1>7. ASSUME NEW t \in Threads, MutexUnlock(t) PROVE RefusalsInv'
  <2>1. owner = t /\ status[t] = "none" /\ UNCHANGED asked
    BY <1>7 DEF MutexUnlock, Ready, MutexInv, MutexCalls
  <2>2. \A u \in Threads : status'[u] = status[u] \/ (status[u] = "pending" /\ status'[u] = "osOK")
    BY <1>7 DEF MutexUnlock, MutexRelease, Waiting, MutexTypeOK
  <2>3. ASSUME NEW u \in Threads PROVE Refused(u)'
    BY <2>1, <2>2 DEF RefusalsInv, Refused
  <2> QED BY <2>3 DEF RefusalsInv, Refused
<1>8. ASSUME NEW t \in Threads, MutexNew(t) \/ MutexDestroy(t) PROVE RefusalsInv'
  BY <1>8 DEF MutexNew, MutexDestroy, RefusalsInv, Refused
<1> QED BY <1>2, <1>3, <1>4, <1>5, <1>6, <1>7, <1>8 DEF MutexNext

LEMMA SpecRefusalsInv == Spec => []RefusalsInv
<1>1. Init => RefusalsInv
  BY DEF Init, MutexInit, RefusalsInv, Refused
<1>2. TypeInv /\ MutexInv /\ RefusalsInv /\ [Next]_vars => RefusalsInv'
  <2> SUFFICES ASSUME TypeInv, MutexInv, RefusalsInv, [Next]_vars PROVE RefusalsInv'
    OBVIOUS
  <2>1. CASE MutexStep
    BY <2>1, RefusalsKept DEF MutexStep, TypeInv, TypeOK
  <2>2. CASE UNCHANGED mutexVars
    BY <2>2 DEF mutexVars, RefusalsInv, Refused
  <2> QED BY <2>1, <2>2 DEF Next, KernelStep, ListStep, SemaphoreStep, FlagsStep, PoolStep, vars
<1> QED BY <1>1, <1>2, SpecTypeInv, SpecMutexInv, PTL DEF Spec

(* try_lock never answers false: the answer that the mutex is taken is     *)
(* always the exception (Mutex.cpp:88).                                    *)
TryLockNeverSaysFalse ==
  \A t \in Threads :
    asked[t].op = "try_lock" /\ status[t] # "none" => MutexResult(asked[t], status[t]) # "false"

THEOREM SpecTryLockNeverSaysFalse == Spec => []TryLockNeverSaysFalse
<1>1. RefusalsInv => TryLockNeverSaysFalse
  BY DEF RefusalsInv, Refused, TryLockNeverSaysFalse, MutexResult, TryLockResult
<1> QED BY <1>1, SpecRefusalsInv, PTL

(* try_lock_for, which asks the RTOS the same question, is no such error   *)
(* when the mutex is in other hands (Mutex.cpp:114): with a duration that  *)
(* is not negative, it throws only for a thread that has locked the mutex  *)
(* as often as it can be locked.                                           *)
TryLockForThrowsAtTheLimit ==
  \A t \in Threads :
    /\ asked[t].op = "try_lock_for" /\ asked[t].ticks # Negative
    /\ status[t] \notin {"none", "pending"}
    /\ MutexResult(asked[t], status[t]) = "exception"
    => owner = t /\ count = MaxCount

THEOREM SpecTryLockForThrowsAtTheLimit == Spec => []TryLockForThrowsAtTheLimit
<1>1. MutexTypeOK /\ RefusalsInv => TryLockForThrowsAtTheLimit
  <2> SUFFICES ASSUME MutexTypeOK, RefusalsInv, NEW t \in Threads,
                      asked[t].op = "try_lock_for", asked[t].ticks # Negative, status[t] \notin {"none", "pending"},
                      MutexResult(asked[t], status[t]) = "exception"
               PROVE  owner = t /\ count = MaxCount
    BY DEF TryLockForThrowsAtTheLimit
  <2>1. TryLockForResult(asked[t].ticks, status[t]) = "exception"
    BY DEF MutexResult
  <2>2. status[t] = "osErrorResource" /\ asked[t].ticks # 0
    BY <2>1 DEF TryLockForResult, TryLockResult, MutexTypeOK, RefusalsInv, Refused
  <2> QED BY <2>2 DEF RefusalsInv, Refused
<1>2. TypeInv => MutexTypeOK
  BY DEF TypeInv, TypeOK
<1> QED BY <1>1, <1>2, SpecTypeInv, SpecRefusalsInv, PTL

-----------------------------------------------------------------------------
(* A thread that acquires or releases is in that call, and in one of the   *)
(* two only; the semaphore lives as long.                                  *)
SemaphoreCalls ==
  /\ \A t \in Threads : taken[t] # "none" =>
       /\ plan.part = "semaphore" /\ t \in busy /\ semaphore
       /\ taking[t].op \in {"acquire", "try_acquire", "try_acquire_for"}
       /\ update[t] = 0
  /\ \A t \in Threads : update[t] # 0 => plan.part = "semaphore" /\ t \in busy

SemaphoreInv == SemaphoreCalls /\ TokensAreConserved

(* The threads that have got a token and were not told yet. *)
Given == {t \in Threads : taken[t] = "osOK"}

LEMMA GivenCounts ==
  ASSUME NEW t \in Threads
  PROVE  /\ Cardinality(Given) \in Nat
         /\ t \notin Given => Cardinality(Given \cup {t}) = Cardinality(Given) + 1
         /\ t \in Given => Cardinality(Given \ {t}) = Cardinality(Given) - 1
<1>1. IsFiniteSet(Given)
  BY KernelAssumption, FS_Subset DEF Given
<1> QED BY <1>1, FS_CardinalityType, FS_AddElement, FS_RemoveElement

LEMMA TakeKeeps ==
  ASSUME SemaphoreTypeOK, SemaphoreInv, plan.part = "semaphore", UNCHANGED plan,
         NEW t \in Threads, NEW op \in {"acquire", "try_acquire", "try_acquire_for"},
         NEW ticks \in Ticks, TakeToken(t, op, ticks)
  PROVE  SemaphoreInv'
<1>1. /\ t \notin busy /\ taken[t] = "none" /\ update[t] = 0 /\ semaphore
      /\ busy' = busy \cup {t} /\ UNCHANGED <<semaphore, update, balance>>
      /\ taking' = [taking EXCEPT ![t] = [op |-> op, ticks |-> ticks]]
  BY DEF TakeToken, Ready, SemaphoreInv, SemaphoreCalls
<1>2. \A u \in Threads : u # t => taken'[u] = taken[u] /\ taking'[u] = taking[u]
  BY <1>1 DEF TakeToken, SemaphoreAcquire, SemaphoreTypeOK
<1>3. SemaphoreCalls'
  BY <1>1, <1>2 DEF SemaphoreTypeOK, SemaphoreInv, SemaphoreCalls
<1>4. \/ tokens' = tokens - 1 /\ taken'[t] = "osOK"
      \/ UNCHANGED tokens /\ taken'[t] # "osOK"
  BY DEF TakeToken, SemaphoreAcquire, SemaphoreTypeOK
<1>5. t \notin Given /\ Given' = IF taken'[t] = "osOK" THEN Given \cup {t} ELSE Given
  BY <1>1, <1>2 DEF Given
<1>6. balance = tokens + Cardinality(Given)
  BY DEF SemaphoreInv, TokensAreConserved, Given
<1>7. balance' = tokens' + Cardinality(Given')
  <2>1. tokens \in Int /\ balance' = balance
    BY <1>1, SemaphoreAssumption DEF SemaphoreTypeOK
  <2>2. Cardinality(Given) \in Nat /\ Cardinality(Given \cup {t}) = Cardinality(Given) + 1
    BY <1>5, GivenCounts
  <2>3. CASE tokens' = tokens - 1 /\ taken'[t] = "osOK"
    <3>1. Given' = Given \cup {t}
      BY <1>5, <2>3
    <3> QED BY <1>6, <2>1, <2>2, <2>3, <3>1
  <2>4. CASE tokens' = tokens /\ taken'[t] # "osOK"
    <3>1. Given' = Given
      BY <1>5, <2>4
    <3> QED BY <1>6, <2>1, <2>4, <3>1
  <2> QED BY <1>4, <2>3, <2>4
<1>8. TokensAreConserved'
  BY <1>7 DEF TokensAreConserved, Given
<1> QED BY <1>3, <1>8 DEF SemaphoreInv

LEMMA ReleaseOneKeeps ==
  ASSUME SemaphoreTypeOK, SemaphoreInv, plan.part = "semaphore", UNCHANGED plan,
         NEW t \in Threads, ReleaseOne(t)
  PROVE  SemaphoreInv'
<1>1. taken[t] = "none" /\ t \in busy /\ UNCHANGED <<semaphore, taking>>
  BY DEF ReleaseOne, SemaphoreInv, SemaphoreCalls
<1>2. /\ \A u \in Threads : u # t => update'[u] = update[u] /\ (u \in busy <=> u \in busy')
      /\ update'[t] # 0 => t \in busy'
  BY <1>1 DEF ReleaseOne, NextTurn, CountDown, SemaphoreTypeOK
<1>3. \/ \E w \in TokenWaiters :
           taken' = [taken EXCEPT ![w] = "osOK"] /\ balance' = balance + 1 /\ UNCHANGED tokens
      \/ tokens' = tokens + 1 /\ balance' = balance + 1 /\ UNCHANGED taken
      \/ UNCHANGED <<tokens, taken, balance>>
  BY DEF ReleaseOne
<1>4. \A u \in Threads : (taken[u] = "none" <=> taken'[u] = "none")
  BY <1>3 DEF TokenWaiters, SemaphoreTypeOK
<1>5. SemaphoreCalls'
  BY <1>1, <1>2, <1>4 DEF SemaphoreInv, SemaphoreCalls
<1>6. balance = tokens + Cardinality(Given)
  BY DEF SemaphoreInv, TokensAreConserved, Given
<1>7. balance' = tokens' + Cardinality(Given')
  <2>1. ASSUME NEW w \in TokenWaiters, taken' = [taken EXCEPT ![w] = "osOK"],
               balance' = balance + 1, UNCHANGED tokens
        PROVE  balance' = tokens' + Cardinality(Given')
    <3>1. w \in Threads /\ w \notin Given /\ Given' = Given \cup {w}
      BY <2>1 DEF TokenWaiters, Given, SemaphoreTypeOK
    <3> QED BY <1>6, <2>1, <3>1, GivenCounts DEF SemaphoreTypeOK
  <2>2. UNCHANGED taken => Given' = Given
    BY DEF Given
  <2>3. CASE tokens' = tokens + 1 /\ balance' = balance + 1 /\ UNCHANGED taken
    <3>1. Given' = Given /\ Cardinality(Given) \in Nat
      BY <2>2, <2>3, GivenCounts
    <3>2. tokens \in Int
      BY DEF SemaphoreTypeOK
    <3> QED BY <1>6, <2>3, <3>1, <3>2
  <2>4. CASE UNCHANGED <<tokens, taken, balance>>
    BY <1>6, <2>2, <2>4
  <2> QED BY <1>3, <2>1, <2>3, <2>4
<1>8. TokensAreConserved'
  BY <1>7 DEF TokensAreConserved, Given
<1> QED BY <1>5, <1>8 DEF SemaphoreInv

LEMMA SemaphoreNextKeeps ==
  ASSUME SemaphoreTypeOK, SemaphoreInv, plan.part = "semaphore", UNCHANGED plan, SemaphoreNext
  PROVE  SemaphoreInv'
<1>0. balance = tokens + Cardinality(Given)
  BY DEF SemaphoreInv, TokensAreConserved, Given
<1>1. ASSUME NEW t \in Threads, SemaphoreNew(t) \/ SemaphoreDestroy(t) PROVE SemaphoreInv'
  <2>1. SemaphoreCalls'
    BY <1>1 DEF SemaphoreNew, SemaphoreDestroy, SemaphoreInv, SemaphoreCalls
  <2>2. Given' = {} /\ balance' = tokens' /\ tokens' \in Int
    BY <1>1 DEF SemaphoreNew, SemaphoreDestroy, SemaphoreInv, SemaphoreCalls, Given
  <2> QED BY <2>1, <2>2, FS_EmptySet DEF SemaphoreInv, TokensAreConserved, Given
<1>2. ASSUME NEW t \in Threads, NEW n \in Counts, Release(t, n) PROVE SemaphoreInv'
  <2>1. t \notin busy /\ taken[t] = "none"
    BY <1>2 DEF Release, Ready, SemaphoreInv, SemaphoreCalls
  <2>2. \A u \in Threads : u # t => update'[u] = update[u]
    BY <1>2 DEF Release, SemaphoreTypeOK
  <2> QED BY <1>2, <2>1, <2>2 DEF Release, SemaphoreInv, SemaphoreCalls, TokensAreConserved
<1>3. ASSUME NEW t \in Threads, ReleaseOne(t) PROVE SemaphoreInv'
  BY <1>3, ReleaseOneKeeps
<1>4. ASSUME NEW t \in Threads, Acquire(t) \/ TryAcquire(t) \/ TryAcquireFor(t) PROVE SemaphoreInv'
  BY <1>4, TakeKeeps DEF Acquire, TryAcquire, TryAcquireFor, Ticks, Negative
<1>5. ASSUME NEW t \in Threads, SemaphoreTimeout(t) PROVE SemaphoreInv'
  <2>1. Given' = Given
    BY <1>5 DEF SemaphoreTimeout, Given, SemaphoreTypeOK
  <2>2. SemaphoreCalls'
    BY <1>5 DEF SemaphoreTimeout, SemaphoreInv, SemaphoreCalls, SemaphoreTypeOK
  <2> QED BY <1>0, <1>5, <2>1, <2>2 DEF SemaphoreTimeout, SemaphoreInv, TokensAreConserved, Given
<1>6. ASSUME NEW t \in Threads, AcquireReturns(t) PROVE SemaphoreInv'
  <2>1. taken[t] # "none" /\ update[t] = 0 /\ taking[t].op \in {"acquire", "try_acquire", "try_acquire_for"}
    BY <1>6 DEF AcquireReturns, SemaphoreInv, SemaphoreCalls
  <2>2. Acquired(taking[t], taken[t]) <=> t \in Given
    BY <2>1 DEF Acquired, TryAcquireForResult, Given
  <2>3. /\ taken'[t] = "none" /\ UNCHANGED <<tokens, semaphore, update>> /\ busy' = busy \ {t}
        /\ \A u \in Threads : u # t => taken'[u] = taken[u] /\ taking'[u] = taking[u]
    BY <1>6 DEF AcquireReturns, SemaphoreTypeOK
  <2>4. Given' = Given \ {t}
    BY <2>3 DEF Given
  <2>5. balance' = IF t \in Given THEN balance - 1 ELSE balance
    BY <1>6, <2>2 DEF AcquireReturns
  <2>6. balance' = tokens' + Cardinality(Given')
    <3>1. CASE t \in Given
      BY <1>0, <2>3, <2>4, <2>5, <3>1, GivenCounts DEF SemaphoreTypeOK
    <3>2. CASE t \notin Given
      <4>1. Given' = Given
        BY <2>4, <3>2
      <4> QED BY <1>0, <2>3, <2>5, <3>2, <4>1
    <3> QED BY <3>1, <3>2
  <2>7. SemaphoreCalls'
    BY <2>1, <2>3 DEF SemaphoreInv, SemaphoreCalls
  <2> QED BY <2>6, <2>7 DEF SemaphoreInv, TokensAreConserved, Given
<1> QED BY <1>1, <1>2, <1>3, <1>4, <1>5, <1>6 DEF SemaphoreNext

LEMMA SpecSemaphoreInv == Spec => []SemaphoreInv
<1>1. Init => SemaphoreInv
  <2> SUFFICES ASSUME Init PROVE SemaphoreInv
    OBVIOUS
  <2>1. Given = {} /\ balance = 0 /\ tokens = 0
    BY DEF Init, SemaphoreInit, Given
  <2>2. SemaphoreCalls
    BY DEF Init, SemaphoreInit, SemaphoreCalls
  <2> QED BY <2>1, <2>2, FS_EmptySet DEF SemaphoreInv, TokensAreConserved, Given
<1>2. TypeInv /\ SemaphoreInv /\ [Next]_vars => SemaphoreInv'
  <2> SUFFICES ASSUME TypeInv, SemaphoreInv, [Next]_vars PROVE SemaphoreInv'
    OBVIOUS
  <2>p. UNCHANGED plan
    BY DEF Next, KernelStep, ListStep, MutexStep, SemaphoreStep, FlagsStep, PoolStep, vars
  <2>1. CASE SemaphoreStep
    BY <2>p, <2>1, SemaphoreNextKeeps DEF SemaphoreStep, TypeInv, TypeOK
  <2>2. CASE UNCHANGED semaphoreVars /\ (plan.part # "semaphore" \/ UNCHANGED busy)
    BY <2>p, <2>2 DEF semaphoreVars, SemaphoreInv, SemaphoreCalls, TokensAreConserved
  <2>3. KernelStep => UNCHANGED busy
    BY DEF KernelStep, KernelNext, Initialize, Start, Suspend, Resume, DispatchLock, DispatchUnlock
  <2> QED BY <2>1, <2>2, <2>3
          DEF Next, KernelStep, ListStep, MutexStep, FlagsStep, PoolStep, vars
<1> QED BY <1>1, <1>2, SpecTypeInv, PTL DEF Spec

(* No token is made or lost between release and acquire.                   *)
THEOREM SpecTokensAreConserved == Spec => []TokensAreConserved
BY SpecSemaphoreInv, PTL DEF SemaphoreInv

-----------------------------------------------------------------------------
(* Sums.  The values of a function on a finite set are added up by a fold, *)
(* which picks one element after the other.                                *)

(* Induction over the natural numbers, for a set of them. *)
LEMMA NatSets ==
  ASSUME NEW T \in SUBSET Nat, 0 \in T, \A n \in T : n + 1 \in T
  PROVE  T = Nat
<1> SUFFICES ASSUME Nat \ T # {} PROVE FALSE
  OBVIOUS
<1>1. PICK m \in Nat \ T : \A n \in Nat \ T : ~(<<n, m>> \in OpToRel(<, Nat))
  <2>1. Nat \ T \subseteq Nat
    OBVIOUS
  <2> QED BY <2>1, WFMin, NatLessThanWellFounded
<1>2. \A n \in Nat \ T : ~(n < m)
  BY <1>1, Zenon DEF OpToRel
<1>3. m # 0 /\ m - 1 \in Nat /\ m - 1 < m
  OBVIOUS
<1>4. m - 1 \in T
  BY <1>2, <1>3
<1> QED BY <1>3, <1>4

(* The element of a set that a fold takes next. *)
Pick(s) == CHOOSE x \in s : TRUE

LEMMA PickOne ==
  ASSUME NEW S, IsFiniteSet(S), NEW s \in SUBSET S, s # {}
  PROVE  /\ Pick(s) \in s /\ s \ {Pick(s)} \in SUBSET S
         /\ Cardinality(s) \in Nat \ {0}
         /\ Cardinality(s \ {Pick(s)}) = Cardinality(s) - 1
<1>1. Pick(s) \in s
  BY Zenon DEF Pick
<1> HIDE DEF Pick
<1>2. IsFiniteSet(s)
  BY FS_Subset
<1> QED BY <1>1, <1>2, FS_CardinalityType, FS_RemoveElement, FS_EmptySet

(* Induction over the subsets of a finite set, in the order of a fold. *)
LEMMA SubsetInduction ==
  ASSUME NEW S, IsFiniteSet(S), NEW T \in SUBSET SUBSET S, {} \in T,
         \A s \in SUBSET S : s # {} /\ s \ {Pick(s)} \in T => s \in T
  PROVE  T = SUBSET S
<1> DEFINE Below(n) == {s \in SUBSET S : Cardinality(s) = n}
           N == {n \in Nat : Below(n) \subseteq T}
<1>1. \A s \in SUBSET S : IsFiniteSet(s) /\ Cardinality(s) \in Nat
  BY FS_Subset, FS_CardinalityType
<1>2. 0 \in N
  BY <1>1, FS_EmptySet
<1>3. ASSUME NEW n \in N PROVE n + 1 \in N
  <2>1. ASSUME NEW s \in Below(n + 1) PROVE s \in T
    <3>1. s # {}
      <4>1. Cardinality(s) = n + 1 /\ n + 1 # 0
        OBVIOUS
      <4>2. Cardinality({}) = 0
        BY FS_EmptySet
      <4> QED BY <4>1, <4>2, Zenon
    <3>2. s \ {Pick(s)} \in Below(n)
      BY <3>1, PickOne
    <3> QED BY <3>1, <3>2
  <2> QED BY <2>1
<1>4. N = Nat
  <2> HIDE DEF N
  <2>1. N \in SUBSET Nat
    BY DEF N
  <2> QED BY <1>2, <1>3, <2>1, NatSets
<1> QED BY <1>1, <1>4

-----------------------------------------------------------------------------
(* g has the sums of f over the subsets of S. *)
IsSum(g, f, S) ==
  g = [s \in SUBSET S |-> IF s = {} THEN 0 ELSE f[Pick(s)] + g[s \ {Pick(s)}]]

LEMMA SumExists ==
  ASSUME NEW f, NEW S, IsFiniteSet(S)
  PROVE  \E g : IsSum(g, f, S)
<1> DEFINE Turn(g, s) == IF s = {} THEN 0 ELSE f[Pick(s)] + g[s \ {Pick(s)}]
           Step(g) == [s \in SUBSET S |-> Turn(g, s)]
           Upto(n) == {s \in SUBSET S : Cardinality(s) <= n}
           N == {n \in Nat : \E g : \A s \in Upto(n) : g[s] = Turn(g, s)}
<1>1. \A s \in SUBSET S : IsFiniteSet(s) /\ Cardinality(s) \in Nat
  BY FS_Subset, FS_CardinalityType
<1>2. 0 \in N
  <2>1. \A s \in Upto(0) : s = {}
    BY <1>1, FS_EmptySet
  <2>2. \A s \in Upto(0) : [u \in SUBSET S |-> 0][s] = 0
    BY <2>1
  <2> QED BY <2>1, <2>2
<1>3. ASSUME NEW n \in N PROVE n + 1 \in N
  <2>1. PICK g : \A s \in Upto(n) : g[s] = Turn(g, s)
    OBVIOUS
  <2>2. ASSUME NEW s \in Upto(n + 1) PROVE Step(g)[s] = Turn(Step(g), s)
    <3>1. Step(g)[s] = Turn(g, s)
      OBVIOUS
    <3>2. CASE s # {}
      <4>1. s \ {Pick(s)} \in Upto(n)
        BY <1>1, <3>2, PickOne
      <4>2. Step(g)[s \ {Pick(s)}] = Turn(g, s \ {Pick(s)})
        BY <4>1
      <4>3. Step(g)[s \ {Pick(s)}] = g[s \ {Pick(s)}]
        BY <2>1, <4>1, <4>2
      <4> HIDE DEF Step
      <4> QED BY <3>1, <3>2, <4>3
    <3> QED BY <3>1, <3>2
  <2> HIDE DEF Step, Turn, Upto
  <2> QED BY <2>2
<1>4. N = Nat
  <2> HIDE DEF N
  <2>1. N \in SUBSET Nat
    BY DEF N
  <2> QED BY <1>2, <1>3, <2>1, NatSets
<1>5. PICK g : \A s \in SUBSET S : g[s] = Turn(g, s)
  <2>1. Cardinality(S) \in N
    BY <1>1, <1>4
  <2>2. \A s \in SUBSET S : s \in Upto(Cardinality(S))
    BY FS_Subset
  <2> QED BY <2>1, <2>2
<1>6. \A s \in SUBSET S : Step(g)[s] = Turn(Step(g), s)
  <2>1. \A s \in SUBSET S : Step(g)[s] = g[s] /\ s \ {Pick(s)} \in SUBSET S
    BY <1>5
  <2> HIDE DEF Step
  <2> QED BY <1>5, <2>1
<1>7. Step(g) = [s \in SUBSET S |-> Turn(Step(g), s)]
  <2> DEFINE h == Step(g)
  <2>1. h = [s \in SUBSET S |-> h[s]]
    OBVIOUS
  <2> HIDE DEF h
  <2> QED BY <1>6, <2>1 DEF h
<1> QED BY <1>7 DEF IsSum

LEMMA SumIsSum ==
  ASSUME NEW f, NEW S, IsFiniteSet(S)
  PROVE  \E g : IsSum(g, f, S) /\ SumFunctionOnSet(f, S) = g[S]
<1> DEFINE iter == CHOOSE g : IsSum(g, f, S)
<1>1. SumFunctionOnSet(f, S) = iter[S]
  BY DEF SumFunctionOnSet, FoldFunctionOnSet, MapThenFoldSet, Pick, IsSum
<1>2. IsSum(iter, f, S)
  BY SumExists, Zenon
<1> QED BY <1>1, <1>2

(* One value changes, and the sum by as much. *)
LEMMA SumUpdated ==
  ASSUME NEW S, IsFiniteSet(S), NEW f \in [S -> Int], NEW e \in [S -> Int],
         NEW t \in S, \A u \in S : u # t => e[u] = f[u],
         NEW g, IsSum(g, f, S), NEW h, IsSum(h, e, S)
  PROVE  g[S] \in Int /\ h[S] = g[S] + e[t] - f[t]
<1> DEFINE T == {s \in SUBSET S :
                   g[s] \in Int /\ h[s] = g[s] + (IF t \in s THEN e[t] - f[t] ELSE 0)}
<1>1. {} \in T
  BY DEF IsSum
<1>2. ASSUME NEW s \in SUBSET S, s # {}, s \ {Pick(s)} \in T PROVE s \in T
  <2>1. Pick(s) \in s
    BY <1>2, PickOne
  <2>2. PICK p : p = Pick(s) /\ p \in S
    BY <2>1
  <2>3. PICK r : r = s \ {Pick(s)} /\ r \in T
    BY <1>2
  <2>4. g[s] = f[p] + g[r] /\ h[s] = e[p] + h[r]
    BY <1>2, <2>2, <2>3 DEF IsSum
  <2>5. g[r] \in Int /\ h[r] = g[r] + (IF t \in r THEN e[t] - f[t] ELSE 0)
    BY <2>3
  <2>6. (t \in s <=> t \in r \/ p = t) /\ (p = t => t \notin r)
    BY <2>1, <2>2, <2>3
  <2>7. f[p] \in Int /\ f[t] \in Int /\ e[p] \in Int /\ e[t] \in Int /\ (p # t => e[p] = f[p])
    BY <2>2
  <2> QED BY <2>4, <2>5, <2>6, <2>7
<1>3. T = SUBSET S
  <2> HIDE DEF T
  <2>1. T \in SUBSET SUBSET S
    BY DEF T
  <2> QED BY <1>1, <1>2, <2>1, SubsetInduction
<1>4. S \in T /\ f[t] \in Int /\ e[t] \in Int
  BY <1>3
<1> QED BY <1>4

(* A sum of what is not negative is none of its terms below. *)
LEMMA SumBounded ==
  ASSUME NEW S, IsFiniteSet(S), NEW f \in [S -> Int], \A t \in S : f[t] >= 0,
         NEW g, IsSum(g, f, S)
  PROVE  /\ g[S] \in Nat /\ \A t \in S : f[t] <= g[S]
         /\ (\A t \in S : f[t] = 0) => g[S] = 0
<1> DEFINE T == {s \in SUBSET S : /\ g[s] \in Nat /\ \A t \in s : f[t] <= g[s]
                                  /\ (\A t \in S : f[t] = 0) => g[s] = 0}
<1>1. {} \in T
  BY DEF IsSum
<1>2. ASSUME NEW s \in SUBSET S, s # {}, s \ {Pick(s)} \in T PROVE s \in T
  <2>1. Pick(s) \in s
    BY <1>2, PickOne
  <2>2. PICK p : p = Pick(s) /\ p \in S
    BY <2>1
  <2>3. PICK r : r = s \ {Pick(s)} /\ r \in T
    BY <1>2
  <2>4. g[s] = f[p] + g[r]
    BY <1>2, <2>2, <2>3 DEF IsSum
  <2>5. /\ g[r] \in Nat /\ \A t \in r : f[t] <= g[r]
        /\ (\A t \in S : f[t] = 0) => g[r] = 0
    BY <2>3
  <2>6. f[p] \in Nat /\ \A t \in s : t \in r \/ t = p
    BY <2>2, <2>3
  <2>7. \A t \in s : f[t] \in Int
    OBVIOUS
  <2>8. g[s] \in Nat /\ ((\A t \in S : f[t] = 0) => g[s] = 0)
    BY <2>2, <2>4, <2>5, <2>6
  <2>9. \A t \in s : f[t] <= g[s]
    BY <2>2, <2>4, <2>5, <2>6, <2>7
  <2> QED BY <2>8, <2>9
<1>3. T = SUBSET S
  <2> HIDE DEF T
  <2>1. T \in SUBSET SUBSET S
    BY DEF T
  <2> QED BY <1>1, <1>2, <2>1, SubsetInduction
<1>4. S \in T
  BY <1>3
<1> QED BY <1>4

(* The same of SumFunction. *)
LEMMA SumFunctionUpdated ==
  ASSUME NEW S, IsFiniteSet(S), NEW f \in [S -> Int], NEW e \in [S -> Int],
         NEW t \in S, \A u \in S : u # t => e[u] = f[u]
  PROVE  SumFunction(f) \in Int /\ SumFunction(e) = SumFunction(f) + e[t] - f[t]
<1>1. PICK g : IsSum(g, f, S) /\ SumFunctionOnSet(f, S) = g[S]
  BY SumIsSum
<1>2. PICK h : IsSum(h, e, S) /\ SumFunctionOnSet(e, S) = h[S]
  BY SumIsSum
<1>3. SumFunction(f) = g[S] /\ SumFunction(e) = h[S]
  BY <1>1, <1>2 DEF SumFunction
<1> QED BY <1>1, <1>2, <1>3, SumUpdated

LEMMA SumFunctionBounded ==
  ASSUME NEW S, IsFiniteSet(S), NEW f \in [S -> Int], \A t \in S : f[t] >= 0
  PROVE  /\ SumFunction(f) \in Nat /\ \A t \in S : f[t] <= SumFunction(f)
         /\ (\A t \in S : f[t] = 0) => SumFunction(f) = 0
<1>1. PICK g : IsSum(g, f, S) /\ SumFunctionOnSet(f, S) = g[S]
  BY SumIsSum
<1>2. SumFunction(f) = g[S]
  BY <1>1 DEF SumFunction
<1> QED BY <1>1, <1>2, SumBounded

-----------------------------------------------------------------------------
(* As long as callers have kept to the rules, what is left to release fits *)
(* beside the tokens; and there is a semaphore to release it to.           *)
CountsFit ==
  /\ \A t \in Threads : update[t] # 0 => semaphore
  /\ ~overbooked => Counter <= MaxTokens /\ \A t \in Threads : update[t] >= 0
  /\ ReleaseThrowsOnlyOverbooked

StdSimulated == Std!Next \/ UNCHANGED Std!vars

LEMMA CounterMoves ==
  ASSUME SemaphoreTypeOK, NEW t \in Threads, NEW n \in Int, update' = [update EXCEPT ![t] = n]
  PROVE  /\ Counter \in Int /\ update[t] \in Int /\ update' \in [Threads -> Int]
         /\ update'[t] = n /\ \A u \in Threads : u # t => update'[u] = update[u]
         /\ tokens' \in Int => Counter' = Counter + (tokens' - tokens) + (n - update[t])
<1>1. /\ update \in [Threads -> Int] /\ update' \in [Threads -> Int] /\ IsFiniteSet(Threads)
      /\ update'[t] = n /\ \A u \in Threads : u # t => update'[u] = update[u]
  BY KernelAssumption DEF SemaphoreTypeOK
<1>2. SumFunction(update) \in Int /\ SumFunction(update') = SumFunction(update) + update'[t] - update[t]
  <2> DEFINE f == update
             e == update'
  <2>1. f \in [Threads -> Int] /\ e \in [Threads -> Int] /\ \A u \in Threads : u # t => e[u] = f[u]
    BY <1>1
  <2> HIDE DEF f, e
  <2>2. SumFunction(f) \in Int /\ SumFunction(e) = SumFunction(f) + e[t] - f[t]
    BY ONLY <1>1, <2>1, t \in Threads, SumFunctionUpdated
  <2> QED BY <2>2 DEF f, e
<1>3. tokens \in Int /\ update[t] \in Int
  BY <1>1 DEF SemaphoreTypeOK
<1> HIDE DEF SemaphoreTypeOK
<1> QED BY <1>1, <1>2, <1>3 DEF Counter

(* No update is more than the counter, and without any it has the tokens.  *)
LEMMA CounterBounds ==
  ASSUME SemaphoreTypeOK, \A t \in Threads : update[t] >= 0
  PROVE  /\ Counter \in Nat /\ tokens <= Counter
         /\ \A t \in Threads : tokens + update[t] <= Counter
         /\ (\A t \in Threads : update[t] = 0) => Counter = tokens
<1>1. update \in [Threads -> Int] /\ IsFiniteSet(Threads) /\ tokens \in Nat
  BY KernelAssumption, SemaphoreAssumption DEF SemaphoreTypeOK
<1>2. /\ SumFunction(update) \in Nat /\ \A t \in Threads : update[t] <= SumFunction(update)
      /\ (\A t \in Threads : update[t] = 0) => SumFunction(update) = 0
  BY <1>1, SumFunctionBounded
<1>3. \A t \in Threads : update[t] \in Int
  BY <1>1
<1> QED BY <1>1, <1>2, <1>3 DEF Counter

LEMMA CounterStays == UNCHANGED <<tokens, update>> => UNCHANGED Counter
BY DEF Counter

(* The abstract steps, for callers who have kept to the rules or not.      *)
LEMMA StdStutters ==
  ASSUME UNCHANGED <<semaphore, Counter, overbooked>>
  PROVE  StdSimulated
BY DEF StdSimulated, Std!vars

LEMMA StdAcquires ==
  ASSUME overbooked \in BOOLEAN, semaphore, UNCHANGED <<semaphore, overbooked>>,
         ~overbooked => Counter > 0 /\ Counter' = Counter - 1
  PROVE  StdSimulated
BY DEF StdSimulated, Std!Next, Std!Acquire

LEMMA CreationSimulates ==
  ASSUME SemaphoreTypeOK, SemaphoreTypeOK', CountsFit, NEW t \in Threads,
         SemaphoreNew(t) \/ SemaphoreDestroy(t)
  PROVE  CountsFit' /\ StdSimulated
<1>1. /\ \A u \in Threads : update[u] = 0
      /\ UNCHANGED <<update, overbooked, failed>> /\ semaphore' = ~semaphore
  BY DEF SemaphoreNew, SemaphoreDestroy, CountsFit, SemaphoreTypeOK
<1>2. \A u \in Threads : update'[u] = 0
  BY <1>1
<1>3. SumFunction(update) = 0 /\ SumFunction(update') = 0
  BY <1>1, KernelAssumption, SumFunctionBounded DEF SemaphoreTypeOK
<1>4. tokens' \in 0 .. MaxTokens /\ (semaphore => tokens' = 0) /\ MaxTokens \in Nat
  BY SemaphoreAssumption DEF SemaphoreNew, SemaphoreDestroy
<1>5. Counter' = tokens'
  <2>1. Counter' = tokens' + SumFunction(update')
    BY DEF Counter
  <2>2. tokens' \in Int
    BY <1>4
  <2>3. tokens' + 0 = tokens'
    <3>1. \A k \in Int : k + 0 = k
      OBVIOUS
    <3> QED BY <2>2, <3>1, Zenon
  <2> QED BY <1>3, <2>1, <2>3, Zenon
<1>6. CountsFit'
  BY <1>1, <1>2, <1>4, <1>5 DEF CountsFit, ReleaseThrowsOnlyOverbooked
<1>7. StdSimulated
  BY <1>1, <1>4, <1>5 DEF StdSimulated, Std!Next, Std!Construct, Std!Destroy, SemaphoreTypeOK
<1> QED BY <1>6, <1>7

LEMMA ReleaseSimulates ==
  ASSUME SemaphoreTypeOK, SemaphoreCalls, CountsFit, NEW t \in Threads, NEW n \in Counts, Release(t, n)
  PROVE  CountsFit' /\ StdSimulated
<1> DEFINE allowed == n >= 0 /\ Counter + n <= MaxTokens
<1>1. /\ semaphore /\ update[t] = 0 /\ UNCHANGED <<semaphore, tokens, failed>> /\ n \in Int
      /\ update' = [update EXCEPT ![t] = n]
      /\ overbooked' = (overbooked \/ n < 0 \/ Counter + n > MaxTokens)
  BY SemaphoreAssumption DEF Release, Ready, SemaphoreCalls
<1>2. tokens \in Int /\ tokens' \in Int /\ overbooked \in BOOLEAN /\ MaxTokens \in Int
  BY <1>1, SemaphoreAssumption DEF SemaphoreTypeOK
<1>3. /\ Counter \in Int
      /\ Counter' = Counter + (tokens' - tokens) + (n - update[t])
      /\ update'[t] = n /\ \A u \in Threads : u # t => update'[u] = update[u]
  BY <1>1, <1>2, CounterMoves
<1>4. Counter' = Counter + n
  BY <1>1, <1>2, <1>3
<1>5. allowed <=> ~(n < 0 \/ Counter + n > MaxTokens)
  BY <1>1, <1>2, <1>3
<1>6. overbooked' \in BOOLEAN /\ (overbooked' <=> overbooked \/ ~allowed)
  BY <1>1, <1>5, Zenon
<1>7. CountsFit'
  <2>1. \A u \in Threads : update'[u] # 0 => semaphore'
    BY <1>1, <1>3 DEF CountsFit
  <2>2. ~overbooked' => Counter' <= MaxTokens /\ \A u \in Threads : update'[u] >= 0
    <3>1. ~overbooked => \A u \in Threads : update[u] >= 0
      BY DEF CountsFit
    <3> QED BY ONLY <1>3, <1>4, <1>6, <3>1
  <2>3. failed' => overbooked'
    BY <1>1, <1>6 DEF CountsFit, ReleaseThrowsOnlyOverbooked
  <2> QED BY <2>1, <2>2, <2>3 DEF CountsFit, ReleaseThrowsOnlyOverbooked
<1>8. StdSimulated
  <2>1. CASE overbooked
    BY <1>6, <2>1 DEF StdSimulated, Std!Next
  <2>2. CASE ~overbooked
    <3> HIDE DEF allowed
    <3>1. (~overbooked)' = IF allowed THEN ~overbooked ELSE FALSE
      BY <1>6, <2>2, Zenon
    <3>2. Std!Release
      BY <1>1, <1>4, <2>2, <3>1 DEF Std!Release, allowed
    <3> QED BY <2>2, <3>2 DEF StdSimulated, Std!Next
  <2> QED BY <2>1, <2>2
<1> QED BY <1>7, <1>8

(* A token that goes to a waiter is taken when it is given; one that the   *)
(* RTOS keeps was counted before.                                          *)
LEMMA ReleaseOneSimulates ==
  ASSUME SemaphoreTypeOK, CountsFit, NEW t \in Threads, ReleaseOne(t)
  PROVE  CountsFit' /\ StdSimulated
<1>1. semaphore /\ update[t] # 0 /\ UNCHANGED <<semaphore, overbooked>>
  BY DEF ReleaseOne, CountsFit
<1>2. tokens \in 0 .. MaxTokens /\ MaxTokens \in Nat /\ overbooked \in BOOLEAN /\ update[t] \in Int
  BY SemaphoreAssumption DEF SemaphoreTypeOK
<1>3. PICK n \in {0, CountDown(update[t])} :
        /\ update' = [update EXCEPT ![t] = n]
        /\ \/ n = CountDown(update[t]) /\ UNCHANGED <<tokens, failed>>
           \/ n = CountDown(update[t]) /\ tokens' = tokens + 1 /\ UNCHANGED failed
           \/ tokens = MaxTokens /\ UNCHANGED tokens
  BY DEF ReleaseOne, NextTurn
<1>4. n \in Int /\ tokens' \in Int
  BY <1>2, <1>3 DEF CountDown
<1>5. /\ Counter \in Int /\ Counter' = Counter + (tokens' - tokens) + (n - update[t])
      /\ update'[t] = n /\ \A u \in Threads : u # t => update'[u] = update[u]
  BY <1>3, <1>4, CounterMoves
<1>6. \A u \in Threads : update'[u] # 0 => semaphore'
  BY <1>1, <1>5 DEF CountsFit
<1>7. CASE overbooked
  <2>1. CountsFit'
    BY <1>1, <1>6, <1>7 DEF CountsFit, ReleaseThrowsOnlyOverbooked
  <2>2. StdSimulated
    BY <1>1, <1>7, StdAcquires
  <2> QED BY <2>1, <2>2
<1>8. CASE ~overbooked
  <2>1. /\ Counter <= MaxTokens /\ Counter \in Nat /\ tokens + update[t] <= Counter /\ update[t] > 0
        /\ \A u \in Threads : update[u] >= 0
    BY <1>1, <1>2, <1>8, CounterBounds DEF CountsFit
  <2>2. n = update[t] - 1 /\ UNCHANGED failed /\ (tokens' = tokens \/ tokens' = tokens + 1)
    BY <1>2, <1>3, <2>1 DEF CountDown
  <2>3. CountsFit'
    BY <1>1, <1>2, <1>5, <1>6, <1>8, <2>1, <2>2 DEF CountsFit, ReleaseThrowsOnlyOverbooked
  <2>4. CASE tokens' = tokens
    BY <1>1, <1>2, <1>5, <2>1, <2>2, <2>3, <2>4, StdAcquires
  <2>5. CASE tokens' = tokens + 1
    BY <1>1, <1>2, <1>5, <2>1, <2>2, <2>3, <2>5, StdStutters
  <2> QED BY <2>2, <2>3, <2>4, <2>5
<1> QED BY <1>2, <1>7, <1>8

LEMMA TakeSimulates ==
  ASSUME SemaphoreTypeOK, CountsFit, NEW t \in Threads, NEW op, NEW ticks, TakeToken(t, op, ticks)
  PROVE  CountsFit' /\ StdSimulated
<1>1. semaphore /\ UNCHANGED <<semaphore, update, overbooked, failed>>
  BY DEF TakeToken
<1>2. tokens \in 0 .. MaxTokens /\ MaxTokens \in Nat /\ overbooked \in BOOLEAN
  BY SemaphoreAssumption DEF SemaphoreTypeOK
<1>3. CASE UNCHANGED tokens
  <2>1. UNCHANGED Counter
    BY <1>1, <1>3, CounterStays
  <2> QED BY <1>1, <2>1, StdStutters DEF CountsFit, ReleaseThrowsOnlyOverbooked
<1>4. CASE tokens > 0 /\ tokens' = tokens - 1
  <2>1. ASSUME ~overbooked
        PROVE  Counter > 0 /\ Counter' = Counter - 1 /\ Counter <= MaxTokens /\ Counter \in Nat
    <3>1. /\ Counter <= MaxTokens /\ Counter \in Nat /\ tokens <= Counter
      BY <1>2, <2>1, CounterBounds DEF CountsFit
    <3>2. SumFunction(update) \in Int
      BY <2>1, KernelAssumption, SumFunctionBounded DEF SemaphoreTypeOK, CountsFit
    <3>3. Counter' = Counter - 1
      BY <1>1, <1>2, <1>4, <3>2 DEF Counter
    <3> QED BY <1>2, <1>4, <3>1, <3>3
  <2>2. CountsFit'
    BY <1>1, <1>2, <2>1 DEF CountsFit, ReleaseThrowsOnlyOverbooked
  <2> QED BY <1>1, <1>2, <2>1, <2>2, StdAcquires
<1> QED BY <1>3, <1>4 DEF TakeToken, SemaphoreAcquire

LEMMA SemaphoreNextSimulates ==
  ASSUME SemaphoreTypeOK, SemaphoreTypeOK', SemaphoreCalls, CountsFit, SemaphoreNext
  PROVE  CountsFit' /\ StdSimulated
<1>1. ASSUME NEW t \in Threads, SemaphoreTimeout(t) \/ AcquireReturns(t)
      PROVE  CountsFit' /\ StdSimulated
  <2>1. UNCHANGED <<semaphore, tokens, update, overbooked, failed>>
    BY <1>1 DEF SemaphoreTimeout, AcquireReturns
  <2>2. UNCHANGED Counter
    BY <2>1, CounterStays
  <2> QED BY <2>1, <2>2, StdStutters DEF CountsFit, ReleaseThrowsOnlyOverbooked
<1>2. ASSUME NEW t \in Threads, Acquire(t) \/ TryAcquire(t) \/ TryAcquireFor(t)
      PROVE  CountsFit' /\ StdSimulated
  BY <1>2, TakeSimulates DEF Acquire, TryAcquire, TryAcquireFor
<1> QED BY <1>1, <1>2, CreationSimulates, ReleaseSimulates, ReleaseOneSimulates DEF SemaphoreNext

LEMMA SemaphoreStepSimulates ==
  ASSUME TypeInv, TypeInv', SemaphoreInv, CountsFit, [Next]_vars
  PROVE  CountsFit' /\ StdSimulated
<1>1. CASE SemaphoreStep
  BY <1>1, SemaphoreNextSimulates DEF SemaphoreStep, TypeInv, TypeOK, SemaphoreInv
<1>2. CASE UNCHANGED semaphoreVars
  <2>1. UNCHANGED <<semaphore, tokens, update, overbooked, failed>>
    BY <1>2 DEF semaphoreVars
  <2>2. UNCHANGED Counter
    BY <2>1, CounterStays
  <2> QED BY <2>1, <2>2, StdStutters DEF CountsFit, ReleaseThrowsOnlyOverbooked
<1> QED BY <1>1, <1>2 DEF Next, KernelStep, ListStep, MutexStep, FlagsStep, PoolStep, vars

LEMMA SpecCountsFit == Spec => []CountsFit
<1>1. Init => CountsFit
  <2> SUFFICES ASSUME Init PROVE CountsFit
    OBVIOUS
  <2>1. update \in [Threads -> Int] /\ \A t \in Threads : update[t] = 0
    BY DEF Init, SemaphoreInit
  <2>2. SumFunction(update) = 0
    BY <2>1, KernelAssumption, SumFunctionBounded
  <2> QED BY <2>1, <2>2, SemaphoreAssumption
          DEF Init, SemaphoreInit, CountsFit, Counter, ReleaseThrowsOnlyOverbooked
<1>2. TypeInv /\ TypeInv' /\ SemaphoreInv /\ CountsFit /\ [Next]_vars => CountsFit'
  BY SemaphoreStepSimulates
<1> QED BY <1>1, <1>2, SpecTypeInv, SpecSemaphoreInv, PTL DEF Spec

(* However the turns of several releases are mixed with acquires, none     *)
(* throws half way as long as callers keep to the maximum.                 *)
THEOREM SpecReleaseThrowsOnlyOverbooked == Spec => []ReleaseThrowsOnlyOverbooked
BY SpecCountsFit, PTL DEF CountsFit

(* With its releases in turns, and its tokens in the RTOS or on their way, *)
(* it is a counting semaphore as the standard has it.                      *)
THEOREM SpecImplementsStdSemaphore == Spec => ImplementsStdSemaphore
<1>1. Init => Std!Init
  <2> SUFFICES ASSUME Init PROVE Std!Init
    OBVIOUS
  <2>1. update \in [Threads -> Int] /\ \A t \in Threads : update[t] = 0
    BY DEF Init, SemaphoreInit
  <2>2. SumFunction(update) = 0
    BY <2>1, KernelAssumption, SumFunctionBounded
  <2> QED BY <2>2 DEF Init, SemaphoreInit, Std!Init, Counter
<1>2. TypeInv /\ TypeInv' /\ SemaphoreInv /\ CountsFit /\ [Next]_vars => [Std!Next]_(Std!vars)
  BY SemaphoreStepSimulates DEF StdSimulated
<1> QED BY <1>1, <1>2, SpecTypeInv, SpecSemaphoreInv, SpecCountsFit, PTL
        DEF Spec, ImplementsStdSemaphore, Std!Spec

-----------------------------------------------------------------------------

(* A thread is in a call as long as it has a status, and it has flags as   *)
(* its wait has found them; a poll alone ends for want of the resource,    *)
(* and a negative time alone for a wrong parameter.                        *)
AnswersFit ==
  \A t \in Threads :
    /\ answer[t].status # "none" => plan.part \in {"event", "flags"} /\ t \in busy
    /\ answer[t].status = "flags" =>
         Satisfies(answer[t].flags, request[t].mask, Option(request[t].flg))
    /\ answer[t].status # "flags" => answer[t].flags = {}
    /\ answer[t].status = "osFlagsErrorResource" => request[t].ticks = 0
    /\ answer[t].status # "none" =>
         (answer[t].status = "osErrorParameter" <=> request[t].ticks = Negative)

(* The event flags of constructors that threw are there, without a handle. *)
LeaksHaveNoHandle == leaked \subseteq made /\ \A e \in Events : id[e] \notin leaked

HandlesInv == OneHandleEach /\ LeaksHaveNoHandle

LEMMA AnswersAreTrue ==
  ASSUME FlagsTypeOK, AnswersFit
  PROVE  WaitsTellTheTruth
<1> SUFFICES ASSUME NEW t \in Threads, Answered(t)
             PROVE  /\ Result(t) = "no_timeout" =>
                         Satisfies(answer[t].flags, request[t].mask, Asked(request[t].flg))
                    /\ Result(t) # "no_timeout" => answer[t].flags = {}
                    /\ request[t].ticks # 2 =>
                         (Result(t) = "exception" <=> request[t].ticks = Negative)
  BY DEF WaitsTellTheTruth
<1>1. /\ request[t].ticks \in -1 .. 2 /\ Negative = -1
      /\ answer[t].status \in {"flags", "osFlagsErrorResource", "osFlagsErrorTimeout",
                               "osErrorParameter"}
  BY DEF FlagsTypeOK, Answered, Ticks, Negative
<1>2. Result(t) = "no_timeout" <=> answer[t].status = "flags"
  BY <1>1 DEF Result, WaitForResult, WaitResult
<1>3. request[t].ticks # 2 => (Result(t) = "exception" <=> request[t].ticks = Negative)
  BY <1>1 DEF Result, WaitForResult, WaitResult, AnswersFit, Answered
<1>4. Asked(request[t].flg) = Option(request[t].flg)
  BY DEF Asked, Option
<1> QED BY <1>2, <1>3, <1>4 DEF AnswersFit

LEMMA WaitKeepsAnswers ==
  ASSUME FlagsTypeOK, AnswersFit, plan.part \in {"event", "flags"}, UNCHANGED plan,
         NEW t \in Threads, NEW o \in Objects, NEW w \in Requests, NEW ticks \in Ticks,
         WaitFlags(t, o, w, ticks)
  PROVE  AnswersFit'
<1> DEFINE r == [object |-> o, mask |-> w.mask, flg |-> w.flg, ticks |-> ticks]
<1>1. t \notin busy /\ answer[t].status = "none" /\ answer[t].flags = {}
  BY DEF WaitFlags, FlagsReady, Ready, AnswersFit
<1>2. request' = [request EXCEPT ![t] = r] /\ busy' = busy \cup {t}
  BY DEF WaitFlags
<1>3. request'[t] = r /\ \A u \in Threads : u # t => request'[u] = request[u]
  BY <1>2 DEF FlagsTypeOK
<1>4. CASE ticks # Negative /\ Satisfies(flags[o], w.mask, Option(w.flg)) /\ Deliver(t, o, r)
  <2>1. /\ answer'[t] = [status |-> "flags", flags |-> flags[o]]
        /\ \A u \in Threads : u # t => answer'[u] = answer[u]
    BY <1>4 DEF FlagsTypeOK, Deliver
  <2>2. /\ Satisfies(answer'[t].flags, request'[t].mask, Option(request'[t].flg))
        /\ request'[t].ticks # Negative
    BY <1>3, <1>4, <2>1
  <2> HIDE DEF r
  <2> QED BY <1>2, <1>3, <2>1, <2>2 DEF AnswersFit
<1>5. CASE answer' = [answer EXCEPT ![t].status =
                        IF ticks = Negative THEN "osErrorParameter"
                        ELSE IF ticks = 0 THEN "osFlagsErrorResource"
                        ELSE IF CanBlock THEN "pending" ELSE "osFlagsErrorTimeout"]
  <2>1. /\ answer'[t].flags = {} /\ answer'[t].status # "flags"
        /\ answer'[t].status = "osFlagsErrorResource" => request'[t].ticks = 0
        /\ answer'[t].status = "osErrorParameter" <=> request'[t].ticks = Negative
        /\ \A u \in Threads : u # t => answer'[u] = answer[u]
    BY <1>1, <1>3, <1>5 DEF FlagsTypeOK
  <2> HIDE DEF r
  <2> QED BY <1>2, <1>3, <2>1 DEF AnswersFit
<1> QED BY <1>4, <1>5 DEF WaitFlags

LEMMA GoOnKeepsAnswers ==
  ASSUME FlagsTypeOK, AnswersFit, plan.part \in {"event", "flags"}, UNCHANGED plan,
         NEW t \in Threads, FlagsGoOn(t)
  PROVE  AnswersFit'
<1>1. CASE Wake(t)
  <2>1. /\ Satisfies(flags[request[t].object], request[t].mask, Option(request[t].flg))
        /\ Deliver(t, request[t].object, request[t])
        /\ answer[t].status = "pending" /\ UNCHANGED <<request, busy>>
    BY <1>1 DEF Wake, Pending
  <2>2. /\ answer'[t] = [status |-> "flags", flags |-> flags[request[t].object]]
        /\ \A u \in Threads : u # t => answer'[u] = answer[u]
    BY <2>1 DEF FlagsTypeOK, Deliver
  <2> QED BY <2>1, <2>2 DEF AnswersFit
<1>2. CASE WaitTimeout(t)
  BY <1>2 DEF WaitTimeout, Pending, AnswersFit, FlagsTypeOK
<1>3. CASE WaitReturns(t)
  <2>1. /\ answer'[t] = NoAnswer /\ busy' = busy \ {t}
        /\ \A u \in Threads : u # t => answer'[u] = answer[u] /\ request'[u] = request[u]
    BY <1>3 DEF WaitReturns, FlagsTypeOK
  <2> QED BY <2>1 DEF AnswersFit, NoAnswer
<1> QED BY <1>1, <1>2, <1>3 DEF FlagsGoOn

(* Every step but a wait's leaves the answers alone.                       *)
LEMMA FlagsStepKeepsAnswers ==
  ASSUME FlagsTypeOK, AnswersFit, UNCHANGED plan, FlagsStep
  PROVE  AnswersFit'
<1>0. plan.part \in {"event", "flags"}
  BY DEF FlagsStep
<1>1. ASSUME NEW t \in Threads, FlagsGoOn(t) PROVE AnswersFit'
  BY <1>0, <1>1, GoOnKeepsAnswers
<1>2. ASSUME NEW t \in Threads, NEW o \in Objects, NEW w \in Requests, NEW ticks \in Ticks,
             WaitFlags(t, o, w, ticks)
      PROVE  AnswersFit'
  BY <1>0, <1>2, WaitKeepsAnswers
<1>3. UNCHANGED <<request, answer, busy>> => AnswersFit'
  BY DEF AnswersFit
<1>4. ASSUME NEW t \in Threads, NEW o, NEW mask, SetFlags(t, o, mask) \/ ClearFlags(t, o, mask)
      PROVE  AnswersFit'
  BY <1>3, <1>4 DEF SetFlags, ClearFlags
<1>5. CASE EventsNext
  <2>1. ASSUME NEW t \in Threads, NEW e \in Events, NEW from \in Events, NEW mask,
               \/ EventNew(t, e, mask) \/ EventNewThrows(t, e) \/ EventMove(t, e, from)
               \/ EventSwap(t, e, from) \/ EventDestroy(t, e)
        PROVE  AnswersFit'
    BY <1>3, <2>1 DEF EventNew, EventNewThrows, EventMove, EventSwap, EventDestroy
  <2>2. ASSUME NEW t \in Threads, NEW e \in Events, NEW mask, EventSet(t, e, mask) \/ EventClear(t, e, mask)
        PROVE  AnswersFit'
    BY <1>4, <2>2 DEF EventSet, EventClear
  <2>3. ASSUME NEW t \in Threads, NEW e \in Events, NEW w \in Requests,
               EventWait(t, e, w) \/ EventWaitFor(t, e, w)
        PROVE  AnswersFit'
    BY <1>2, <2>3 DEF EventWait, EventWaitFor, Objects, Ticks, Negative
  <2> QED BY <1>1, <1>5, <2>1, <2>2, <2>3 DEF EventsNext
<1>6. CASE ThreadFlagsNext
  BY <1>1, <1>2, <1>4, <1>6
     DEF ThreadFlagsNext, ThreadFlagsSet, ThreadFlagsClear, ThreadFlagsWait, ThreadFlagsWaitFor, Objects,
         Ticks, Negative
<1> QED BY <1>5, <1>6 DEF FlagsStep

LEMMA OtherStepIsNoFlagsStep ==
  ASSUME [Next]_vars, ~FlagsStep
  PROVE  /\ UNCHANGED <<plan, flagsVars>>
         /\ plan.part \notin {"event", "flags"} \/ UNCHANGED busy
<1>1. KernelStep => UNCHANGED busy
  BY DEF KernelStep, KernelNext, Initialize, Start, Suspend, Resume, DispatchLock, DispatchUnlock
<1> QED BY <1>1 DEF Next, KernelStep, ListStep, MutexStep, SemaphoreStep, PoolStep, vars

(* A wait says that it has its flags only if it has, whatever it waited    *)
(* for; it takes none otherwise; and of the waits with a time those throw  *)
(* whose time is negative, and no others (EventFlag.cpp:170 and 191).      *)
THEOREM SpecWaitsTellTheTruth == Spec => []WaitsTellTheTruth
<1>1. Init => AnswersFit
  BY DEF Init, FlagsInit, NoAnswer, AnswersFit
<1>2. TypeInv /\ AnswersFit /\ [Next]_vars => AnswersFit'
  <2> SUFFICES ASSUME TypeInv, AnswersFit, [Next]_vars PROVE AnswersFit'
    OBVIOUS
  <2>1. CASE FlagsStep
    BY <2>1, FlagsStepKeepsAnswers DEF TypeInv, TypeOK, FlagsStep
  <2>2. CASE ~FlagsStep
    BY <2>2, OtherStepIsNoFlagsStep DEF AnswersFit, flagsVars
  <2> QED BY <2>1, <2>2
<1>3. TypeInv /\ AnswersFit => WaitsTellTheTruth
  BY AnswersAreTrue DEF TypeInv, TypeOK
<1> QED BY <1>1, <1>2, <1>3, SpecTypeInv, PTL DEF Spec

-----------------------------------------------------------------------------
LEMMA NewKeepsHandles ==
  ASSUME FlagsTypeOK, HandlesInv, NEW t \in Threads, NEW e \in Events, NEW mask,
         EventNew(t, e, mask) \/ EventNewThrows(t, e)
  PROVE  HandlesInv'
<1>1. PICK i \in Ids \ made :
        \/ id' = [id EXCEPT ![e] = i] /\ made' = made \cup {i} /\ UNCHANGED leaked
        \/ UNCHANGED id /\ made' = made \cup {i} /\ leaked' = leaked \cup {i}
  BY DEF EventNew, EventNewThrows
<1>2. \A f \in Events : id[f] # i
  BY DEF HandlesInv, OneHandleEach
<1>3. id[e] = NoEvent
  BY DEF EventNew, EventNewThrows
<1>4. CASE id' = [id EXCEPT ![e] = i] /\ made' = made \cup {i} /\ UNCHANGED leaked
  <2>1. id'[e] = i /\ \A f \in Events : f # e => id'[f] = id[f]
    BY <1>4 DEF FlagsTypeOK
  <2>2. id[e] \notin Ids
    BY <1>3, FlagsAssumption
  <2>3. \A j \in made \ leaked : \E f \in Events : f # e /\ id[f] = j
    BY <2>2 DEF HandlesInv, OneHandleEach, FlagsTypeOK
  <2>4. OneHandleEach'
    BY <1>1, <1>2, <1>4, <2>1, <2>3 DEF HandlesInv, OneHandleEach
  <2>5. LeaksHaveNoHandle'
    BY <1>1, <1>4, <2>1 DEF HandlesInv, LeaksHaveNoHandle
  <2> QED BY <2>4, <2>5 DEF HandlesInv
<1>5. CASE UNCHANGED id /\ made' = made \cup {i} /\ leaked' = leaked \cup {i}
  BY <1>1, <1>2, <1>5 DEF HandlesInv, OneHandleEach, LeaksHaveNoHandle
<1> QED BY <1>1, <1>4, <1>5

(* A move, and a swap, pass the ids on among the events.                   *)
LEMMA SwapKeepsHandles ==
  ASSUME FlagsTypeOK, HandlesInv, NEW t \in Threads, NEW e \in Events, NEW from \in Events,
         EventMove(t, e, from) \/ EventSwap(t, e, from)
  PROVE  HandlesInv'
<1>1. UNCHANGED <<made, leaked>>
  BY DEF EventMove, EventSwap
<1>2. /\ id'[e] = id[from] /\ \A f \in Events : f # e /\ f # from => id'[f] = id[f]
      /\ \/ id'[from] = id[e]
         \/ id[e] = NoEvent /\ id'[from] = NoId
  BY FlagsAssumption DEF EventMove, EventSwap, FlagsTypeOK
<1>3. NoId \notin Ids /\ NoEvent \notin Ids
  BY FlagsAssumption
<1>4. \A f \in Events : id'[f] \in Ids =>
        \E g \in Events : id[g] = id'[f] /\ (f = e => g = from) /\ (f = from => g = e)
                          /\ (f # e /\ f # from => g = f)
  BY <1>2, <1>3
<1>5. \A f \in Events : id[f] \in Ids => \E g \in Events : id'[g] = id[f]
  BY <1>2, <1>3
<1>6. OneHandleEach'
  <2>1. \A i \in made \ leaked : \E f \in Events : id'[f] = i
    BY <1>5 DEF HandlesInv, OneHandleEach, FlagsTypeOK
  <2>2. \A f \in Events : id'[f] \in Ids => id'[f] \in made
    BY <1>4 DEF HandlesInv, OneHandleEach
  <2>3. \A f, g \in Events : id'[f] = id'[g] /\ id'[f] \in Ids => f = g
    BY <1>4 DEF HandlesInv, OneHandleEach
  <2> QED BY <1>1, <2>1, <2>2, <2>3 DEF OneHandleEach
<1>7. LeaksHaveNoHandle'
  <2>1. \A f \in Events : id'[f] \notin leaked
    BY <1>4 DEF HandlesInv, LeaksHaveNoHandle, FlagsTypeOK
  <2> QED BY <1>1, <2>1 DEF HandlesInv, LeaksHaveNoHandle
<1> QED BY <1>6, <1>7 DEF HandlesInv

LEMMA DestroyKeepsHandles ==
  ASSUME FlagsTypeOK, HandlesInv, NEW t \in Threads, NEW e \in Events, EventDestroy(t, e)
  PROVE  HandlesInv'
<1>1. made' = made \ {id[e]} /\ UNCHANGED leaked
  BY DEF EventDestroy
<1>2. id'[e] = NoEvent /\ NoEvent \notin Ids /\ \A f \in Events : f # e => id'[f] = id[f]
  BY FlagsAssumption DEF EventDestroy, FlagsTypeOK
<1>3. OneHandleEach'
  <2>1. \A i \in made' \ leaked : \E f \in Events : f # e /\ id[f] = i
    BY <1>1 DEF HandlesInv, OneHandleEach
  <2>2. \A f \in Events : f # e /\ id[f] \in Ids => id[f] # id[e]
    BY DEF HandlesInv, OneHandleEach
  <2> QED BY <1>1, <1>2, <2>1, <2>2 DEF HandlesInv, OneHandleEach
<1>4. LeaksHaveNoHandle'
  BY <1>1, <1>2 DEF HandlesInv, LeaksHaveNoHandle, FlagsTypeOK
<1> QED BY <1>3, <1>4 DEF HandlesInv

LEMMA FlagsStepKeepsHandles ==
  ASSUME FlagsTypeOK, HandlesInv, FlagsStep
  PROVE  HandlesInv'
<1>1. UNCHANGED <<id, made, leaked>> => HandlesInv'
  BY DEF HandlesInv, OneHandleEach, LeaksHaveNoHandle
<1>2. ASSUME NEW t, NEW o, NEW w, NEW ticks, WaitFlags(t, o, w, ticks)
      PROVE  UNCHANGED <<id, made, leaked>>
  BY <1>2 DEF WaitFlags
<1>3. ASSUME NEW t, FlagsGoOn(t) PROVE UNCHANGED <<id, made, leaked>>
  BY <1>3 DEF FlagsGoOn, Wake, WaitTimeout, WaitReturns
<1>4. ASSUME NEW t, NEW o, NEW mask, SetFlags(t, o, mask) \/ ClearFlags(t, o, mask)
      PROVE  UNCHANGED <<id, made, leaked>>
  BY <1>4 DEF SetFlags, ClearFlags
<1>5. CASE EventsNext
  <2>1. ASSUME NEW t \in Threads, NEW e \in Events, NEW from \in Events, NEW mask,
               \/ EventNew(t, e, mask) \/ EventNewThrows(t, e) \/ EventMove(t, e, from)
               \/ EventSwap(t, e, from) \/ EventDestroy(t, e)
        PROVE  HandlesInv'
    BY <2>1, NewKeepsHandles, SwapKeepsHandles, DestroyKeepsHandles
  <2>2. ASSUME NEW t \in Threads, NEW e \in Events, NEW mask, EventSet(t, e, mask) \/ EventClear(t, e, mask)
        PROVE  HandlesInv'
    BY <1>1, <1>4, <2>2 DEF EventSet, EventClear
  <2>3. ASSUME NEW t \in Threads, NEW e \in Events, NEW w, EventWait(t, e, w) \/ EventWaitFor(t, e, w)
        PROVE  HandlesInv'
    BY <1>1, <1>2, <2>3 DEF EventWait, EventWaitFor
  <2> QED BY <1>1, <1>3, <1>5, <2>1, <2>2, <2>3 DEF EventsNext
<1>6. CASE ThreadFlagsNext
  BY <1>1, <1>2, <1>3, <1>4, <1>6
     DEF ThreadFlagsNext, ThreadFlagsSet, ThreadFlagsClear, ThreadFlagsWait, ThreadFlagsWaitFor
<1> QED BY <1>5, <1>6 DEF FlagsStep

(* Moves and swaps lose no event flags and share none.                     *)
THEOREM SpecOneHandleEach == Spec => []OneHandleEach
<1>1. Init => HandlesInv
  <2> SUFFICES ASSUME Init PROVE HandlesInv
    OBVIOUS
  <2>1. made = {} /\ leaked = {} /\ \A e \in Events : id[e] = NoEvent /\ NoEvent \notin Ids
    BY FlagsAssumption DEF Init, FlagsInit
  <2> QED BY <2>1 DEF HandlesInv, OneHandleEach, LeaksHaveNoHandle
<1>2. TypeInv /\ HandlesInv /\ [Next]_vars => HandlesInv'
  <2> SUFFICES ASSUME TypeInv, HandlesInv, [Next]_vars PROVE HandlesInv'
    OBVIOUS
  <2>1. CASE FlagsStep
    BY <2>1, FlagsStepKeepsHandles DEF TypeInv, TypeOK
  <2>2. CASE ~FlagsStep
    BY <2>2, OtherStepIsNoFlagsStep DEF HandlesInv, OneHandleEach, LeaksHaveNoHandle, flagsVars
  <2> QED BY <2>1, <2>2
<1> QED BY <1>1, <1>2, SpecTypeInv, PTL DEF Spec, HandlesInv
=============================================================================
