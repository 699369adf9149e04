----------------------- MODULE ConditionVariableProofs -----------------------
(***************************************************************************)
(* For any number of waiters and notifiers, any timeouts and any heap, the *)
(* condition variable strands no waiter and never releases a semaphore     *)
(* twice; without negative durations it implements StdConditionVariable.   *)
(***************************************************************************)
EXTENDS ConditionVariable, SequenceTheorems, TLAPS

(* Erasing one entry keeps the others, in their order. *)
LEMMA RemoveAtProperties ==
  ASSUME NEW S, NEW s \in Seq(S), NEW i \in 1 .. Len(s)
  PROVE  /\ RemoveAt(s, i) \in Seq(S)
         /\ Len(RemoveAt(s, i)) = Len(s) - 1
         /\ \A j \in 1 .. Len(s) - 1 :
              RemoveAt(s, i)[j] = IF j < i THEN s[j] ELSE s[j + 1]
<1> DEFINE a == SubSeq(s, 1, i - 1)
           b == SubSeq(s, i + 1, Len(s))
<1>0. Len(s) \in Nat /\ \A j \in 1 .. Len(s) : s[j] \in S
  BY ElementOfSeq, LenProperties
<1>1. /\ a \in Seq(S) /\ Len(a) = i - 1
      /\ \A j \in 1 .. i - 1 : a[j] = s[j]
  <2>1. \A j \in 1 .. i - 1 : s[j] \in S
    BY <1>0
  <2> QED BY <1>0, <2>1, SubSeqProperties, Z3
<1>2. /\ b \in Seq(S) /\ Len(b) = Len(s) - i
      /\ \A j \in 1 .. Len(s) - i : b[j] = s[i + j]
  <2>1. \A j \in i + 1 .. Len(s) : s[j] \in S
    BY <1>0
  <2>2. /\ b \in Seq(S)
        /\ Len(b) = IF i + 1 <= Len(s) THEN Len(s) - (i + 1) + 1 ELSE 0
        /\ \A j \in 1 .. Len(s) - (i + 1) + 1 : b[j] = s[(i + 1) + j - 1]
    BY <1>0, <2>1, SubSeqProperties, Z3
  <2>3. \A j \in 1 .. Len(s) - i : (i + 1) + j - 1 = i + j
    BY <1>0
  <2> QED BY <1>0, <2>2, <2>3
<1>a. RemoveAt(s, i) = a \o b
  BY DEF RemoveAt
<1> HIDE DEF a, b
<1>3. /\ a \o b \in Seq(S) /\ Len(a \o b) = Len(a) + Len(b)
      /\ \A j \in 1 .. Len(a) + Len(b) :
           (a \o b)[j] = IF j <= Len(a) THEN a[j] ELSE b[j - Len(a)]
  BY <1>1, <1>2, ConcatProperties
<1>4. ASSUME NEW j \in 1 .. Len(s) - 1
      PROVE  (a \o b)[j] = IF j < i THEN s[j] ELSE s[j + 1]
  <2>1. CASE j < i
    BY <1>0, <1>1, <1>2, <1>3, <2>1
  <2>2. CASE ~(j < i)
    <3>1. (a \o b)[j] = b[j - (i - 1)] /\ j - (i - 1) \in 1 .. Len(s) - i
      BY <1>0, <1>1, <1>2, <1>3, <2>2
    <3>2. b[j - (i - 1)] = s[i + (j - (i - 1))] /\ i + (j - (i - 1)) = j + 1
      BY <1>0, <1>2, <3>1
    <3> QED BY <2>2, <3>1, <3>2
  <2> QED BY <2>1, <2>2
<1> QED BY <1>0, <1>1, <1>2, <1>3, <1>4, <1>a

(* A list in which some entries dangle is still a list of the same length. *)
LEMMA UnwindType ==
  ASSUME NEW t, NEW S, NEW s \in Seq(S), NEW d \in S
  PROVE  LET u == [i \in DOMAIN s |-> IF s[i] = t THEN d ELSE s[i]]
         IN  u \in Seq(S) /\ Len(u) = Len(s)
<1> DEFINE u == [i \in DOMAIN s |-> IF s[i] = t THEN d ELSE s[i]]
<1>1. /\ Len(s) \in Nat
      /\ DOMAIN s = 1 .. Len(s)
      /\ \A i \in 1 .. Len(s) : s[i] \in S
  BY ElementOfSeq, LenProperties
<1>2. u \in [1 .. Len(s) -> S]
  BY <1>1
<1>3. u \in Seq(S)
  BY <1>1, <1>2, SeqDef
<1>4. DOMAIN u = 1 .. Len(u) /\ Len(u) \in Nat
  BY <1>3, LenProperties
<1>5. Len(u) = Len(s)
  BY <1>1, <1>2, <1>4
<1> QED BY <1>3, <1>5

LEMMA ThreadTypes ==
  /\ Waiters \subseteq Threads
  /\ Notifiers \subseteq Threads
  /\ Dangling \notin Waiters
  /\ NoThread \notin Threads
BY ThreadsAssumption DEF Threads

(* Every variable keeps its type: the semaphore of an entry has one token  *)
(* at most, and only a notifier ever owns m_mutex across steps.            *)
LEMMA TypeStep == TypeOK /\ ListMutexInv /\ [Next]_vars => TypeOK'
<1> SUFFICES ASSUME TypeOK, ListMutexInv, [Next]_vars
             PROVE  TypeOK'
  OBVIOUS
<1> USE ThreadTypes, TimeoutAssumption DEF TypeOK
<1>1. ASSUME NEW t \in Threads, Lock(t)
      PROVE  TypeOK'
  BY <1>1 DEF Lock, Goto, Pcs
<1>2. ASSUME NEW t \in Threads, Unlock(t)
      PROVE  TypeOK'
  BY <1>2 DEF Unlock, Goto, Pcs
<1>3. ASSUME NEW t \in Waiters, NEW k \in TimeoutKinds, BeginWait(t, k)
      PROVE  TypeOK'
  BY <1>3 DEF BeginWait, Goto, Pcs
<1>4. ASSUME NEW t \in Waiters, Wait(t) \/ WaitFor(t)
      PROVE  TypeOK'
  BY <1>3, <1>4 DEF Wait, WaitFor
<1>5. ASSUME NEW t \in Waiters, WaitUntil(t)
      PROVE  TypeOK'
  <2>1. CASE \E k \in Timeouts \ {"negative"} : BeginWait(t, k)
    BY <1>3, <2>1
  <2>2. CASE Goto(t, "locked", "locked") /\ Return(t, "timeout")
    BY <1>5, <2>1, <2>2 DEF WaitUntil, Goto, Return, Pcs
  <2> QED BY <1>5, <2>1, <2>2 DEF WaitUntil
<1>6. ASSUME NEW t \in Waiters, WaitUnowned(t) \/ NoSemaphore(t)
      PROVE  TypeOK'
  <2>1. CASE WaitUnowned(t)
    BY <2>1 DEF WaitUnowned, Stop, Stops
  <2>2. CASE NoSemaphore(t)
    BY <2>2 DEF NoSemaphore, Goto, Return, Pcs
  <2> QED BY <1>6, <2>1, <2>2
<1>7. ASSUME NEW t \in Waiters, Insert(t)
      PROVE  TypeOK'
  <2>1. Append(m_wait, t) \in Seq(Waiters \cup {Dangling})
    BY <1>7, AppendProperties
  <2> QED BY <1>7, <2>1 DEF Insert, Goto, Return, Pcs
<1>8. ASSUME NEW t \in Waiters, UnlockToWait(t)
      PROVE  TypeOK'
  BY <1>8 DEF UnlockToWait, Goto, Pcs
<1>9. ASSUME NEW t \in Waiters, AcquireToken(t) \/ AcquireTimeout(t)
      PROVE  TypeOK'
  BY <1>9 DEF AcquireToken, AcquireTimeout, Goto, Pcs
<1>10. ASSUME NEW t \in Waiters, AcquireThrows(t)
       PROVE  TypeOK'
  <2>1. m_wait' \in Seq(Waiters \cup {Dangling})
    BY <1>10, UnwindType DEF AcquireThrows
  <2> QED BY <1>10, <2>1 DEF AcquireThrows, Goto, Return, Pcs
<1>11. ASSUME NEW t \in Waiters, Relock(t)
       PROVE  TypeOK'
  BY <1>11 DEF Relock, Goto, Return, Pcs
<1>12. ASSUME NEW t \in Waiters, Erase(t)
       PROVE  TypeOK'
  <2>1. ASSUME NEW i \in DOMAIN m_wait, m_wait' = RemoveAt(m_wait, i)
        PROVE  m_wait' \in Seq(Waiters \cup {Dangling})
    BY <2>1, RemoveAtProperties, LenProperties
  <2>2. m_wait' \in Seq(Waiters \cup {Dangling})
    BY <1>12, <2>1 DEF Erase, Stop
  <2> QED BY <1>12, <2>2 DEF Erase, Goto, Return, Stop, Stops, Pcs
<1>13. ASSUME NEW t \in Notifiers, NEW i \in Nat, NEW from \in Pcs, NEW to \in Pcs,
              i \in DOMAIN m_wait, ReleaseEntry(t, i, from, to)
       PROVE  TypeOK'
  <2>1. m_wait[i] \in Waiters \cup {Dangling}
    BY <1>13, ElementOfSeq, LenProperties
  <2> QED BY <1>13, <2>1 DEF ReleaseEntry, Goto, Stop, Stops
<1>14. ASSUME NEW t \in Notifiers, NotifyOne(t) \/ NotifyAll(t)
       PROVE  TypeOK'
  <2>1. m_wait # <<>> => 1 \in DOMAIN m_wait
    BY EmptySeq, LenProperties
  <2> QED BY <1>13, <1>14, <2>1 DEF NotifyOne, NotifyAll, Caller, Pcs
<1>15. ASSUME NEW t \in Notifiers, ReleaseNext(t)
       PROVE  TypeOK'
  <2>1. cursor + 1 \in DOMAIN m_wait
    BY <1>15, LenProperties DEF ReleaseNext
  <2> QED BY <1>13, <1>15, <2>1 DEF ReleaseNext, Pcs
<1>16. ASSUME NEW t \in Notifiers, PopFront(t) \/ Clear(t)
       PROVE  TypeOK'
  <2>1. CASE PopFront(t)
    <3>1. m_wait # <<>>
      BY <2>1, EmptySeq DEF PopFront, Goto, ListMutexInv
    <3>2. m_wait' \in Seq(Waiters \cup {Dangling})
      BY <2>1, <3>1, HeadTailProperties DEF PopFront
    <3> QED BY <2>1, <3>2 DEF PopFront, Goto, Caller, Pcs
  <2>2. CASE Clear(t)
    BY <2>2, EmptySeq DEF Clear, Goto, Caller, Pcs
  <2> QED BY <1>16, <2>1, <2>2
<1>17. CASE UNCHANGED vars
  BY <1>17 DEF vars
<1> QED
  BY <1>1, <1>2, <1>4, <1>5, <1>6, <1>7, <1>8, <1>9, <1>10, <1>11, <1>12,
     <1>14, <1>15, <1>16, <1>17
  DEF Next, WaitStep, NotifyStep, Stopped

(* Only the notifier that owns m_mutex moves the cursor. *)
LEMMA ListMutexStep == TypeOK /\ ListMutexInv /\ [Next]_vars => ListMutexInv'
<1> SUFFICES ASSUME TypeOK, ListMutexInv, [Next]_vars
             PROVE  ListMutexInv'
  OBVIOUS
<1> USE ThreadTypes DEF TypeOK, ListMutexInv
<1>0. Len(m_wait) \in Nat /\ DOMAIN m_wait = 1 .. Len(m_wait)
  BY LenProperties
<1>1. ASSUME m_wait' = m_wait, cursor' = cursor, listOwner' = listOwner,
             \A u \in Threads : pc'[u] \in {"popFront", "releaseAll"} => pc'[u] = pc[u]
      PROVE  ListMutexInv'
  BY <1>1
<1>2. ASSUME NEW t \in Threads, Lock(t) \/ Unlock(t)
      PROVE  ListMutexInv'
  BY <1>1, <1>2 DEF Lock, Unlock, Goto
<1>3. ASSUME NEW t \in Waiters, NEW k \in TimeoutKinds, BeginWait(t, k)
      PROVE  ListMutexInv'
  BY <1>1, <1>3 DEF BeginWait, Goto
<1>4. ASSUME NEW t \in Waiters,
             Wait(t) \/ WaitFor(t) \/ WaitUntil(t) \/ WaitUnowned(t) \/ NoSemaphore(t)
      PROVE  ListMutexInv'
  BY <1>1, <1>3, <1>4, TimeoutAssumption
  DEF Wait, WaitFor, WaitUntil, WaitUnowned, NoSemaphore, Goto, Stop
<1>5. ASSUME NEW t \in Waiters, Insert(t)
      PROVE  ListMutexInv'
  <2>1. Len(Append(m_wait, t)) = Len(m_wait) + 1
    BY AppendProperties
  <2> QED BY <1>0, <1>5, <2>1 DEF Insert, Goto
<1>6. ASSUME NEW t \in Waiters,
             \/ UnlockToWait(t) \/ AcquireToken(t) \/ AcquireTimeout(t) \/ Relock(t)
      PROVE  ListMutexInv'
  BY <1>1, <1>6 DEF UnlockToWait, AcquireToken, AcquireTimeout, Relock, Goto
<1>7. ASSUME NEW t \in Waiters, AcquireThrows(t)
      PROVE  ListMutexInv'
  <2>1. Len(m_wait') = Len(m_wait)
    BY <1>7, UnwindType DEF AcquireThrows
  <2> QED BY <1>7, <2>1 DEF AcquireThrows, Goto
<1>8. ASSUME NEW t \in Waiters, Erase(t)
      PROVE  ListMutexInv'
  <2>1. CASE Stop("staleIterator")
    BY <1>1, <2>1 DEF Stop
  <2>2. ASSUME NEW i \in DOMAIN m_wait, m_wait' = RemoveAt(m_wait, i),
               Goto(t, "erase", "locked"), listOwner = NoThread,
               UNCHANGED <<listOwner, cursor>>
        PROVE  ListMutexInv'
    <3>0. m_wait \in Seq(Waiters \cup {Dangling}) /\ i \in 1 .. Len(m_wait)
      BY <1>0, <2>2
    <3>1. Len(RemoveAt(m_wait, i)) = Len(m_wait) - 1
      BY <3>0, RemoveAtProperties
    <3> QED BY <1>0, <2>2, <3>0, <3>1 DEF Goto
  <2> QED BY <1>8, <2>1, <2>2 DEF Erase
<1>9. ASSUME NEW t \in Notifiers, NotifyOne(t) \/ NotifyAll(t)
      PROVE  ListMutexInv'
  <2>1. 1 <= Len(m_wait)
    BY <1>0, <1>9, EmptySeq DEF NotifyOne, NotifyAll
  <2> QED BY <1>0, <1>1, <1>9, <2>1 DEF NotifyOne, NotifyAll, ReleaseEntry, Goto, Stop
<1>10. ASSUME NEW t \in Notifiers, ReleaseNext(t)
       PROVE  ListMutexInv'
  BY <1>0, <1>1, <1>10 DEF ReleaseNext, ReleaseEntry, Goto, Stop
<1>11. ASSUME NEW t \in Notifiers, PopFront(t)
       PROVE  ListMutexInv'
  <2>1. m_wait # <<>>
    BY <1>11, EmptySeq DEF PopFront, Goto
  <2>2. Len(m_wait') \in Nat
    BY <1>11, <2>1, HeadTailProperties, LenProperties DEF PopFront
  <2> QED BY <1>11, <2>2 DEF PopFront, Goto, Caller
<1>12. ASSUME NEW t \in Notifiers, Clear(t)
       PROVE  ListMutexInv'
  BY <1>12, EmptySeq DEF Clear, Goto, Caller
<1>13. CASE UNCHANGED vars
  BY <1>13 DEF vars
<1> QED
  BY <1>2, <1>4, <1>5, <1>6, <1>7, <1>8, <1>9, <1>10, <1>11, <1>12, <1>13
  DEF Next, WaitStep, NotifyStep, Stopped

(* Who is past the test of its lock, or back with it, has its lock.        *)
LEMMA LockStep == TypeOK /\ LockInv /\ [Next]_vars => LockInv'
<1> SUFFICES ASSUME TypeOK, LockInv, [Next]_vars
             PROVE  LockInv'
  OBVIOUS
<1> USE ThreadTypes DEF LockInv
<1>0. pc \in [Threads -> Pcs]
  BY DEF TypeOK
<1>1. ASSUME NEW t \in Threads, Lock(t) \/ Unlock(t)
      PROVE  LockInv'
  BY <1>0, <1>1 DEF Lock, Unlock, Goto
<1>2. ASSUME NEW t \in Waiters,
             Wait(t) \/ WaitFor(t) \/ WaitUntil(t) \/ WaitUnowned(t) \/ NoSemaphore(t)
      PROVE  LockInv'
  BY <1>0, <1>2 DEF Wait, WaitFor, WaitUntil, WaitUnowned, NoSemaphore, BeginWait, Goto, Stop
<1>3. ASSUME NEW t \in Waiters, Insert(t) \/ UnlockToWait(t) \/ AcquireToken(t)
                                \/ AcquireTimeout(t) \/ AcquireThrows(t)
      PROVE  LockInv'
  BY <1>0, <1>3 DEF Insert, UnlockToWait, AcquireToken, AcquireTimeout, AcquireThrows, Goto
<1>4. ASSUME NEW t \in Waiters, Relock(t) \/ Erase(t)
      PROVE  LockInv'
  BY <1>0, <1>4 DEF Relock, Erase, Goto, Stop
<1>5. ASSUME NEW t \in Notifiers, NEW i, NEW from,
             NEW to \in {"popFront", "releaseAll"}, ReleaseEntry(t, i, from, to)
      PROVE  LockInv'
  BY <1>0, <1>5 DEF ReleaseEntry, Goto, Stop
<1>6. ASSUME NEW t \in Notifiers, NotifyOne(t) \/ NotifyAll(t) \/ ReleaseNext(t)
      PROVE  LockInv'
  BY <1>5, <1>6 DEF NotifyOne, NotifyAll, ReleaseNext
<1>7. ASSUME NEW t \in Notifiers, PopFront(t) \/ Clear(t)
      PROVE  LockInv'
  BY <1>0, <1>7 DEF PopFront, Clear, Goto, Caller
<1>8. CASE UNCHANGED vars
  BY <1>8 DEF vars
<1> QED BY <1>1, <1>2, <1>3, <1>4, <1>6, <1>7, <1>8 DEF Next, WaitStep, NotifyStep, Stopped

-----------------------------------------------------------------------------
(* What the list holds: EntriesInv and NoStrandedWaiter are proved together. *)

ListInv == EntriesInv /\ NoStrandedWaiter

(* A step that touches neither the list nor who awaits a notification. *)
LEMMA ListFrame ==
  ASSUME TypeOK, ListInv, m_wait' = m_wait, cursor' = cursor,
         \A u \in Waiters : /\ Awaiting(u)' <=> Awaiting(u)
                            /\ pc'[u] = "insert" => sema'[u] = 0
  PROVE  ListInv'
<1>1. (Pending = {i \in DOMAIN m_wait : i > cursor})'
  BY DEF Pending
<1>2. Pending' = Pending
  BY <1>1 DEF Pending
<1>3. EntriesInv'
  BY <1>2 DEF ListInv, EntriesInv, Releasable
<1>4. NoStrandedWaiter'
  BY <1>2 DEF ListInv, NoStrandedWaiter
<1> QED BY <1>3, <1>4 DEF ListInv

(* The new entry of a waiter is the only one it has. *)
LEMMA InsertKeepsList ==
  ASSUME TypeOK, ListMutexInv, ListInv, NEW t \in Waiters, Insert(t)
  PROVE  ListInv'
<1> USE ThreadTypes DEF TypeOK
<1>0. Len(m_wait) \in Nat /\ DOMAIN m_wait = 1 .. Len(m_wait)
  BY LenProperties
<1>a. Len(Append(m_wait, t)) = Len(m_wait) + 1 /\ Append(m_wait, t) # m_wait
  <2> DEFINE longer == Append(m_wait, t)
  <2>1. Len(longer) = Len(m_wait) + 1
    BY AppendProperties
  <2> HIDE DEF longer
  <2>2. longer # m_wait
    BY <1>0, <2>1
  <2> QED BY <2>1, <2>2 DEF longer
<1>1. CASE UNCHANGED m_wait
  <2>0. Goto(t, "insert", "locked") /\ UNCHANGED <<cursor, sema>>
    BY <1>1, <1>a DEF Insert
  <2>1. \A u \in Waiters : /\ Awaiting(u)' <=> Awaiting(u)
                           /\ pc'[u] = "insert" => sema'[u] = 0
    BY <2>0 DEF Goto, Awaiting, Registered, ListInv, EntriesInv
  <2> QED BY <1>1, <2>1, ListFrame DEF Insert
<1>2. CASE m_wait' = Append(m_wait, t)
  <2>1. /\ Len(m_wait') = Len(m_wait) + 1
        /\ DOMAIN m_wait' = 1 .. Len(m_wait) + 1
        /\ m_wait'[Len(m_wait) + 1] = t
        /\ \A i \in 1 .. Len(m_wait) : m_wait'[i] = m_wait[i]
    BY <1>0, <1>2, AppendProperties, LenProperties
  <2>0. Goto(t, "insert", "unlock") /\ UNCHANGED <<cursor, sema>> /\ listOwner = NoThread
    BY <1>2, <1>a DEF Insert
  <2>2. /\ cursor = 0 /\ cursor' = 0 /\ sema' = sema
        /\ pc[t] = "insert" /\ pc' = [pc EXCEPT ![t] = "unlock"]
    BY <2>0 DEF Goto, ListMutexInv
  <2>3. \A i \in 1 .. Len(m_wait) : m_wait[i] = Dangling \/ Releasable(i)
    BY <1>0, <2>2 DEF ListInv, EntriesInv, Pending
  <2>4. \A i \in 1 .. Len(m_wait) : m_wait[i] # t
    BY <2>2, <2>3 DEF Releasable, Awaiting, Registered
  <2>5. Awaiting(t)'
    BY <2>2 DEF Awaiting, Registered, ListInv, EntriesInv
  <2>6. \A u \in Waiters : u # t => (Awaiting(u)' <=> Awaiting(u))
    BY <2>2 DEF Awaiting
  <2>7. EntriesInv'
    <3>1. \A i, j \in DOMAIN m_wait' :
            m_wait'[i] = m_wait'[j] => i = j \/ m_wait'[i] = Dangling
      BY <1>0, <2>1, <2>4 DEF ListInv, EntriesInv
    <3>2. \A i \in Pending' : m_wait'[i] = Dangling \/ Releasable(i)'
      BY <1>0, <2>1, <2>3, <2>5, <2>6 DEF Releasable, Pending
    <3>3. \A u \in Waiters : pc'[u] = "insert" => sema'[u] = 0
      BY <2>2 DEF ListInv, EntriesInv
    <3> QED BY <3>1, <3>2, <3>3 DEF EntriesInv
  <2>8. NoStrandedWaiter'
    <3> SUFFICES ASSUME NEW u \in Waiters, Awaiting(u)'
                 PROVE  \E i \in Pending' : m_wait'[i] = u
      BY DEF NoStrandedWaiter
    <3>1. CASE u = t
      BY <1>0, <2>1, <2>2, <3>1 DEF Pending
    <3>2. CASE u # t
      BY <1>0, <2>1, <2>2, <2>6, <3>2 DEF Pending, ListInv, NoStrandedWaiter
    <3> QED BY <3>1, <3>2
  <2> QED BY <2>7, <2>8 DEF ListInv
<1> QED BY <1>1, <1>2 DEF Insert

(* The unwound call leaves an entry behind, which nobody awaits. *)
LEMMA ThrowKeepsList ==
  ASSUME TypeOK, ListInv, NEW t \in Waiters, AcquireThrows(t)
  PROVE  ListInv'
<1> USE ThreadTypes DEF TypeOK
<1>1. /\ DOMAIN m_wait' = DOMAIN m_wait
      /\ \A i \in DOMAIN m_wait :
           m_wait'[i] = IF m_wait[i] = t THEN Dangling ELSE m_wait[i]
      /\ cursor' = cursor
  BY DEF AcquireThrows
<1>2. Pending' = Pending
  BY <1>1 DEF Pending
<1>3. ~Awaiting(t)' /\ \A u \in Waiters : u # t => (Awaiting(u)' <=> Awaiting(u))
  BY DEF AcquireThrows, Goto, Awaiting, Registered
<1>4. EntriesInv'
  <2>1. \A i, j \in DOMAIN m_wait' :
          m_wait'[i] = m_wait'[j] => i = j \/ m_wait'[i] = Dangling
    BY <1>1 DEF ListInv, EntriesInv
  <2>2. \A i \in Pending' : m_wait'[i] = Dangling \/ Releasable(i)'
    BY <1>1, <1>2, <1>3 DEF Releasable, Pending, ListInv, EntriesInv
  <2>3. \A u \in Waiters : pc'[u] = "insert" => sema'[u] = 0
    BY DEF AcquireThrows, Goto, ListInv, EntriesInv
  <2> QED BY <2>1, <2>2, <2>3 DEF EntriesInv
<1>5. NoStrandedWaiter'
  <2> SUFFICES ASSUME NEW u \in Waiters, Awaiting(u)'
               PROVE  \E i \in Pending' : m_wait'[i] = u
    BY DEF NoStrandedWaiter
  <2>1. u # t /\ Awaiting(u)
    BY <1>3
  <2>2. PICK i \in Pending : m_wait[i] = u
    BY <2>1 DEF ListInv, NoStrandedWaiter
  <2> QED BY <1>1, <1>2, <2>1, <2>2 DEF Pending
<1> QED BY <1>4, <1>5 DEF ListInv

(* Dropping entry i leaves the others pending, and nobody awaits entry i. *)
LEMMA DropKeepsList ==
  ASSUME TypeOK, ListInv, NEW i \in 1 .. Len(m_wait),
         cursor' = 0, cursor = 0 \/ (cursor = 1 /\ i = 1),
         Len(m_wait') = Len(m_wait) - 1, m_wait' \in Seq(Waiters \cup {Dangling}),
         \A j \in 1 .. Len(m_wait) - 1 :
           m_wait'[j] = IF j < i THEN m_wait[j] ELSE m_wait[j + 1],
         \A u \in Waiters :
           /\ Awaiting(u)' => Awaiting(u)
           /\ Awaiting(u) /\ ~Awaiting(u)' => m_wait[i] = u
           /\ Awaiting(u)' => m_wait[i] # u \/ i <= cursor
           /\ pc'[u] = "insert" => sema'[u] = 0
  PROVE  ListInv'
<1> USE ThreadTypes DEF TypeOK
<1>0. /\ Len(m_wait) \in Nat /\ DOMAIN m_wait = 1 .. Len(m_wait)
      /\ DOMAIN m_wait' = 1 .. Len(m_wait) - 1
  BY LenProperties
<1> DEFINE Old(j) == IF j < i THEN j ELSE j + 1
<1>1. \A j \in DOMAIN m_wait' :
        Old(j) \in DOMAIN m_wait /\ Old(j) # i /\ m_wait'[j] = m_wait[Old(j)]
  BY <1>0
<1>2. \A j, k \in DOMAIN m_wait' : Old(j) = Old(k) => j = k
  BY <1>0
<1>3. \A j \in Pending' : j \in DOMAIN m_wait' /\ Old(j) \in Pending
  BY <1>0, <1>1 DEF Pending
<1>4. \A k \in DOMAIN m_wait : k # i => \E j \in DOMAIN m_wait' : Old(j) = k
  <2> SUFFICES ASSUME NEW k \in DOMAIN m_wait, k # i
               PROVE  \E j \in DOMAIN m_wait' : Old(j) = k
    OBVIOUS
  <2>1. CASE k < i
    BY <1>0, <2>1
  <2>2. CASE k > i
    <3>1. k - 1 \in DOMAIN m_wait' /\ Old(k - 1) = k
      BY <1>0, <2>2
    <3> QED BY <3>1
  <2> QED BY <1>0, <2>1, <2>2
<1> HIDE DEF Old
<1>5. EntriesInv'
  <2>1. \A j, k \in DOMAIN m_wait' :
          m_wait'[j] = m_wait'[k] => j = k \/ m_wait'[j] = Dangling
    BY <1>1, <1>2 DEF ListInv, EntriesInv
  <2>2. ASSUME NEW j \in Pending', m_wait'[j] # Dangling
        PROVE  Releasable(j)'
    <3>1. /\ j \in DOMAIN m_wait' /\ Old(j) \in Pending
          /\ m_wait'[j] = m_wait[Old(j)] /\ Old(j) \in DOMAIN m_wait
          /\ Old(j) # i /\ i \in DOMAIN m_wait
      BY <1>0, <1>1, <1>3
    <3>2. m_wait'[j] \in Waiters /\ Awaiting(m_wait'[j])
      BY <2>2, <3>1 DEF ListInv, EntriesInv, Releasable
    <3>3. m_wait'[j] # m_wait[i]
      BY <2>2, <3>1 DEF ListInv, EntriesInv
    <3>4. ASSUME NEW u \in Waiters, u = m_wait'[j]
          PROVE  Awaiting(u)'
      BY <3>2, <3>3, <3>4
    <3> QED BY <3>2, <3>4 DEF Releasable
  <2> QED BY <2>1, <2>2 DEF EntriesInv
<1>6. NoStrandedWaiter'
  <2> SUFFICES ASSUME NEW u \in Waiters, Awaiting(u)'
               PROVE  \E j \in Pending' : m_wait'[j] = u
    BY DEF NoStrandedWaiter
  <2>1. PICK k \in Pending : m_wait[k] = u
    BY DEF ListInv, NoStrandedWaiter
  <2>2. k \in DOMAIN m_wait /\ k # i
    BY <2>1 DEF Pending
  <2>3. PICK j \in DOMAIN m_wait' : Old(j) = k
    BY <1>4, <2>2
  <2>4. j \in Pending'
    BY <1>0, <2>3 DEF Pending
  <2> QED BY <1>1, <2>1, <2>3, <2>4
<1> QED BY <1>5, <1>6 DEF ListInv

LEMMA EraseKeepsList ==
  ASSUME TypeOK, ListMutexInv, ListInv, NEW t \in Waiters, Erase(t)
  PROVE  ListInv'
<1> USE ThreadTypes
<1>0. /\ m_wait \in Seq(Waiters \cup {Dangling})
      /\ Len(m_wait) \in Nat /\ DOMAIN m_wait = 1 .. Len(m_wait)
      /\ listOwner = NoThread /\ cursor = 0
      /\ pc \in [Threads -> Pcs] /\ sema \in [Threads -> {0, 1}]
  BY LenProperties DEF TypeOK, Erase, ListMutexInv
<1>1. CASE Stop("staleIterator")
  BY <1>1, ListFrame DEF Stop, Awaiting, ListInv, EntriesInv
<1>2. ASSUME NEW i \in 1 .. Len(m_wait), m_wait[i] = t,
             m_wait' = RemoveAt(m_wait, i), Goto(t, "erase", "locked"),
             UNCHANGED <<cursor, sema>>
      PROVE  ListInv'
  <2>1. /\ Len(m_wait') = Len(m_wait) - 1
        /\ m_wait' \in Seq(Waiters \cup {Dangling})
        /\ \A j \in 1 .. Len(m_wait) - 1 :
             m_wait'[j] = IF j < i THEN m_wait[j] ELSE m_wait[j + 1]
    BY <1>0, <1>2, RemoveAtProperties, Zenon
  <2>2. /\ ~Awaiting(t)'
        /\ \A u \in Waiters : u # t => (Awaiting(u)' <=> Awaiting(u))
        /\ \A u \in Waiters : pc'[u] = "insert" => sema'[u] = 0
    BY <1>0, <1>2 DEF Goto, Awaiting, Registered, ListInv, EntriesInv
  <2>3. \A u \in Waiters :
          /\ Awaiting(u)' => Awaiting(u)
          /\ Awaiting(u) /\ ~Awaiting(u)' => m_wait[i] = u
          /\ Awaiting(u)' => m_wait[i] # u \/ i <= cursor
          /\ pc'[u] = "insert" => sema'[u] = 0
    BY <1>2, <2>2
  <2>4. cursor' = 0
    BY <1>0, <1>2
  <2> QED BY <1>0, <1>2, <2>1, <2>3, <2>4, DropKeepsList
<1> QED BY <1>0, <1>1, <1>2 DEF Erase

LEMMA PopFrontKeepsList ==
  ASSUME TypeOK, ListMutexInv, ListInv, NEW t \in Notifiers, PopFront(t)
  PROVE  ListInv'
<1> USE ThreadTypes
<1>0. /\ m_wait \in Seq(Waiters \cup {Dangling})
      /\ Len(m_wait) \in Nat /\ DOMAIN m_wait = 1 .. Len(m_wait)
      /\ cursor = 1 /\ cursor <= Len(m_wait)
      /\ pc \in [Threads -> Pcs] /\ sema' = sema
  BY LenProperties DEF TypeOK, PopFront, Goto, ListMutexInv
<1>1. /\ Len(m_wait') = Len(m_wait) - 1
      /\ m_wait' \in Seq(Waiters \cup {Dangling})
      /\ \A j \in 1 .. Len(m_wait) - 1 : m_wait'[j] = m_wait[j + 1]
  <2>1. m_wait # <<>>
    BY <1>0, EmptySeq
  <2> QED BY <1>0, <2>1, HeadTailProperties DEF PopFront
<1>2. \A u \in Waiters : /\ Awaiting(u)' <=> Awaiting(u)
                         /\ pc'[u] = "insert" => sema'[u] = 0
  BY <1>0 DEF PopFront, Goto, Caller, Awaiting, Registered, ListInv, EntriesInv
<1>3. /\ 1 \in 1 .. Len(m_wait) /\ cursor' = 0
      /\ \A j \in 1 .. Len(m_wait) - 1 :
           m_wait'[j] = IF j < 1 THEN m_wait[j] ELSE m_wait[j + 1]
  BY <1>0, <1>1 DEF PopFront
<1> QED BY <1>0, <1>1, <1>2, <1>3, DropKeepsList

(* With every entry released, no waiter is left to await one. *)
LEMMA ClearKeepsList ==
  ASSUME TypeOK, ListMutexInv, ListInv, NEW t \in Notifiers, Clear(t)
  PROVE  ListInv'
<1> USE ThreadTypes DEF TypeOK
<1>1. DOMAIN m_wait = 1 .. Len(m_wait) /\ Len(m_wait) \in Nat
  BY LenProperties
<1>2. Pending = {}
  BY <1>1 DEF Clear, Pending
<1>3. \A u \in Waiters : ~Awaiting(u)
  BY <1>2 DEF ListInv, NoStrandedWaiter
<1>4. \A u \in Waiters : ~Awaiting(u)' /\ (pc'[u] = "insert" => sema'[u] = 0)
  BY <1>3 DEF Clear, Goto, Caller, Awaiting, Registered, ListInv, EntriesInv
<1>5. DOMAIN m_wait' = {}
  BY DEF Clear
<1>6. Pending' = {}
  BY <1>5 DEF Pending
<1> QED BY <1>4, <1>5, <1>6 DEF ListInv, EntriesInv, NoStrandedWaiter

(* The entry released is the oldest pending one, it has no token yet, and  *)
(* nobody awaits it afterwards.                                            *)
LEMMA ReleaseKeepsList ==
  ASSUME TypeOK, ListInv, NEW t \in Notifiers, cursor + 1 \in DOMAIN m_wait,
         NEW from \in Pcs \ Registered, NEW to \in {"popFront", "releaseAll"},
         ReleaseEntry(t, cursor + 1, from, to)
  PROVE  ListInv' /\ (program' = "terminated" => program = "terminated")
<1> USE ThreadTypes DEF TypeOK
<1>0. Len(m_wait) \in Nat /\ DOMAIN m_wait = 1 .. Len(m_wait)
  BY LenProperties
<1>w. PICK w : w = m_wait[cursor + 1]
  OBVIOUS
<1>1. cursor + 1 \in Pending
  BY DEF Pending
<1>2. w = Dangling \/ (w \in Waiters /\ Awaiting(w))
  BY <1>1, <1>w DEF ListInv, EntriesInv, Releasable
<1>3. CASE Stop("danglingSemaphore")
  <2>1. ListInv'
    BY <1>3, ListFrame DEF Stop, Awaiting, ListInv, EntriesInv
  <2> QED BY <1>3, <2>1 DEF Stop
<1>4. CASE /\ w # Dangling /\ sema[w] = 0
           /\ Goto(t, from, to)
           /\ sema' = [sema EXCEPT ![w] = 1]
           /\ cursor' = cursor + 1
           /\ UNCHANGED <<m_wait, program>>
  <2>1. w \in Waiters /\ Awaiting(w)
    BY <1>2, <1>4
  <2>2. \A u \in Waiters : pc'[u] = pc[u] \/ (u = t /\ pc[u] = from /\ pc'[u] = to)
    BY <1>4 DEF Goto
  <2>3. /\ ~Awaiting(w)'
        /\ \A u \in Waiters : u # w => (Awaiting(u)' <=> Awaiting(u))
    BY <1>4, <2>1, <2>2 DEF Awaiting, Registered
  <2>4. Pending' = Pending \ {cursor + 1}
    BY <1>0, <1>4 DEF Pending
  <2>5. \A i \in Pending' : m_wait[i] = w => i = cursor + 1
    BY <1>1, <1>w, <1>4, <2>4 DEF ListInv, EntriesInv, Pending
  <2>6. EntriesInv'
    <3>1. \A i \in Pending' : m_wait'[i] = Dangling \/ Releasable(i)'
      BY <1>4, <2>3, <2>4, <2>5 DEF ListInv, EntriesInv, Releasable
    <3>2. \A u \in Waiters : pc'[u] = "insert" => sema'[u] = 0
      BY <1>4, <2>1, <2>2 DEF ListInv, EntriesInv, Awaiting, Registered
    <3>3. \A i, j \in DOMAIN m_wait' :
            m_wait'[i] = m_wait'[j] => i = j \/ m_wait'[i] = Dangling
      BY <1>4 DEF ListInv, EntriesInv
    <3> QED BY <3>1, <3>2, <3>3 DEF EntriesInv
  <2>7. NoStrandedWaiter'
    <3> SUFFICES ASSUME NEW u \in Waiters, Awaiting(u)'
                 PROVE  \E i \in Pending' : m_wait'[i] = u
      BY DEF NoStrandedWaiter
    <3>1. u # w /\ Awaiting(u)
      BY <2>3
    <3>2. PICK i \in Pending : m_wait[i] = u
      BY <3>1 DEF ListInv, NoStrandedWaiter
    <3> QED BY <1>4, <1>w, <2>4, <3>1, <3>2
  <2>8. program' = program
    BY <1>4
  <2> QED BY <2>6, <2>7, <2>8 DEF ListInv
<1>5. sema[w] = 1 => w = Dangling
  BY <1>2 DEF Awaiting
<1> QED BY <1>w, <1>3, <1>4, <1>5 DEF ReleaseEntry

(* Every step keeps the list, and none releases a semaphore twice. *)
LEMMA ListStep ==
  TypeOK /\ ListMutexInv /\ ListInv /\ NotifyNeverTerminates /\ [Next]_vars
    => ListInv' /\ NotifyNeverTerminates'
<1> SUFFICES ASSUME TypeOK, ListMutexInv, ListInv, NotifyNeverTerminates, [Next]_vars
             PROVE  ListInv' /\ NotifyNeverTerminates'
  OBVIOUS
<1> DEFINE Kept == ListInv' /\ NotifyNeverTerminates'
<1> USE ThreadTypes DEF NotifyNeverTerminates
<1>0. /\ pc \in [Threads -> Pcs] /\ sema \in [Threads -> {0, 1}]
      /\ Len(m_wait) \in Nat /\ DOMAIN m_wait = 1 .. Len(m_wait) /\ cursor \in Nat
      /\ \A u \in Waiters : pc[u] = "insert" => sema[u] = 0
  BY LenProperties DEF TypeOK, ListInv, EntriesInv
<1>1. ASSUME NEW t \in Threads, Lock(t) \/ Unlock(t)
      PROVE  Kept
  BY <1>0, <1>1, ListFrame DEF Lock, Unlock, Goto, Awaiting, Registered
<1>2. ASSUME NEW t \in Waiters, NEW k, BeginWait(t, k)
      PROVE  Kept
  BY <1>0, <1>2, ListFrame DEF BeginWait, Goto, Awaiting, Registered
<1>3. ASSUME NEW t \in Waiters,
             Wait(t) \/ WaitFor(t) \/ WaitUntil(t) \/ WaitUnowned(t) \/ NoSemaphore(t)
      PROVE  Kept
  <2>1. CASE Goto(t, "locked", "locked") /\ UNCHANGED <<m_wait, cursor, sema, program>>
    BY <1>0, <2>1, ListFrame DEF Goto, Awaiting
  <2>2. CASE WaitUnowned(t)
    BY <1>0, <2>2, ListFrame DEF WaitUnowned, Stop, Awaiting
  <2> QED BY <1>2, <1>3, <2>1, <2>2 DEF Wait, WaitFor, WaitUntil, NoSemaphore
<1>4. ASSUME NEW t \in Waiters, Insert(t)
      PROVE  Kept
  BY <1>4, InsertKeepsList DEF Insert
<1>5. ASSUME NEW t \in Waiters,
             UnlockToWait(t) \/ AcquireToken(t) \/ AcquireTimeout(t) \/ Relock(t)
      PROVE  Kept
  BY <1>0, <1>5, ListFrame
  DEF UnlockToWait, AcquireToken, AcquireTimeout, Relock, Goto, Awaiting, Registered
<1>6. ASSUME NEW t \in Waiters, AcquireThrows(t)
      PROVE  Kept
  BY <1>6, ThrowKeepsList DEF AcquireThrows
<1>7. ASSUME NEW t \in Waiters, Erase(t)
      PROVE  Kept
  BY <1>7, EraseKeepsList DEF Erase, Stop
<1>8. ASSUME NEW t \in Notifiers, NotifyOne(t) \/ NotifyAll(t)
      PROVE  Kept
  <2>1. cursor = 0 /\ cursor + 1 \in DOMAIN m_wait
    BY <1>0, <1>8, EmptySeq DEF NotifyOne, NotifyAll, ListMutexInv, TypeOK
  <2>2. Caller(t) \in Pcs \ Registered
    BY DEF Caller, Pcs, Registered
  <2>3. \E to \in {"popFront", "releaseAll"} : ReleaseEntry(t, cursor + 1, Caller(t), to)
    BY <1>8, <2>1 DEF NotifyOne, NotifyAll
  <2> QED BY <2>1, <2>2, <2>3, ReleaseKeepsList
<1>9. ASSUME NEW t \in Notifiers, ReleaseNext(t)
      PROVE  Kept
  <2>1. cursor + 1 \in DOMAIN m_wait
    BY <1>0, <1>9 DEF ReleaseNext
  <2>2. "releaseAll" \in Pcs \ Registered
    BY DEF Pcs, Registered
  <2> QED BY <1>9, <2>1, <2>2, ReleaseKeepsList DEF ReleaseNext
<1>10. ASSUME NEW t \in Notifiers, PopFront(t) \/ Clear(t)
       PROVE  Kept
  BY <1>10, PopFrontKeepsList, ClearKeepsList DEF PopFront, Clear
<1>11. CASE UNCHANGED vars
  BY <1>0, <1>11, ListFrame DEF vars, Awaiting
<1> QED
  BY <1>1, <1>3, <1>4, <1>5, <1>6, <1>7, <1>8, <1>9, <1>10, <1>11
  DEF Next, WaitStep, NotifyStep, Stopped

LEMMA InitEstablishes ==
  Init => TypeOK /\ LockInv /\ ListMutexInv /\ ListInv /\ NotifyNeverTerminates
<1> SUFFICES ASSUME Init
             PROVE  TypeOK /\ LockInv /\ ListMutexInv /\ ListInv /\ NotifyNeverTerminates
  OBVIOUS
<1>1. m_wait \in Seq(Waiters \cup {Dangling}) /\ Len(m_wait) = 0 /\ DOMAIN m_wait = {}
  BY EmptySeq DEF Init
<1>2. TypeOK
  BY <1>1 DEF Init, TypeOK, TimeoutKinds, Pcs
<1>3. LockInv /\ ListMutexInv
  BY <1>1 DEF Init, LockInv, ListMutexInv
<1>4. ListInv /\ NotifyNeverTerminates
  BY <1>1, ThreadTypes
  DEF Init, ListInv, EntriesInv, NoStrandedWaiter, Pending, Awaiting, Registered,
      NotifyNeverTerminates
<1> QED BY <1>2, <1>3, <1>4

(* The inductive invariant holds in every reachable state. *)
THEOREM Inductive == Spec => [](IndInv /\ NotifyNeverTerminates)
<1> DEFINE Inv == TypeOK /\ LockInv /\ ListMutexInv /\ ListInv /\ NotifyNeverTerminates
<1>1. Init => Inv
  BY InitEstablishes
<1>2. Inv /\ [Next]_vars => Inv'
  BY TypeStep, LockStep, ListMutexStep, ListStep
<1>3. Inv => IndInv /\ NotifyNeverTerminates
  BY DEF IndInv, ListInv
<1> QED BY <1>1, <1>2, <1>3, PTL DEF Spec

(* Every object of the condition variable keeps its type. *)
THEOREM TypeCorrect == Spec => []TypeOK
<1>1. IndInv => TypeOK
  BY DEF IndInv
<1> QED BY <1>1, Inductive, PTL

(* wait_for_usec and the notifications lose no wakeup: a registered waiter *)
(* without a token can be reached by the next notification, whatever times *)
(* out, throws or runs out of memory.                                      *)
THEOREM NoWakeupIsLost == Spec => []NoStrandedWaiter
<1>1. IndInv => NoStrandedWaiter
  BY DEF IndInv
<1> QED BY <1>1, Inductive, PTL

(* notify_one and notify_all keep their promise of noexcept: they never    *)
(* release a semaphore that already has its token.                         *)
THEOREM NotifyIsNoexcept == Spec => []NotifyNeverTerminates
BY Inductive, PTL

-----------------------------------------------------------------------------
(* Without negative durations no call is unwound past its entry. *)

NothingDangles ==
  /\ \A t \in Threads : timeout[t] # "negative"
  /\ \A i \in DOMAIN m_wait : m_wait[i] # Dangling
  /\ NoDanglingSemaphore

LEMMA NothingDanglesStep ==
  ASSUME "negative" \notin Timeouts
  PROVE  TypeOK /\ ListMutexInv /\ NothingDangles /\ [Next]_vars => NothingDangles'
<1> SUFFICES ASSUME TypeOK, ListMutexInv, NothingDangles, [Next]_vars
             PROVE  NothingDangles'
  OBVIOUS
<1> USE ThreadTypes, TimeoutAssumption DEF NothingDangles, NoDanglingSemaphore
<1>0. /\ m_wait \in Seq(Waiters \cup {Dangling}) /\ timeout \in [Threads -> TimeoutKinds]
      /\ Len(m_wait) \in Nat /\ DOMAIN m_wait = 1 .. Len(m_wait) /\ cursor \in Nat
  BY LenProperties DEF TypeOK
<1>1. ASSUME NEW t \in Threads, Lock(t) \/ Unlock(t)
      PROVE  NothingDangles'
  BY <1>1 DEF Lock, Unlock
<1>2. ASSUME NEW t \in Waiters, NEW k \in TimeoutKinds, k # "negative", BeginWait(t, k)
      PROVE  NothingDangles'
  BY <1>0, <1>2 DEF BeginWait
<1>3. ASSUME NEW t \in Waiters,
             Wait(t) \/ WaitFor(t) \/ WaitUntil(t) \/ WaitUnowned(t) \/ NoSemaphore(t)
      PROVE  NothingDangles'
  <2>1. CASE UNCHANGED <<m_wait, timeout>> /\ program' \in {program, "misused"}
    BY <2>1
  <2>2. CASE \E k \in TimeoutKinds \ {"negative"} : BeginWait(t, k)
    BY <1>2, <2>2
  <2> QED BY <1>3, <2>1, <2>2 DEF Wait, WaitFor, WaitUntil, WaitUnowned, NoSemaphore, Stop
<1>4. ASSUME NEW t \in Waiters, Insert(t)
      PROVE  NothingDangles'
  <2>1. CASE UNCHANGED m_wait
    BY <1>4, <2>1 DEF Insert
  <2>2. CASE m_wait' = Append(m_wait, t)
    <3>1. /\ DOMAIN m_wait' = 1 .. Len(m_wait) + 1
          /\ m_wait'[Len(m_wait) + 1] = t
          /\ \A i \in 1 .. Len(m_wait) : m_wait'[i] = m_wait[i]
      BY <1>0, <2>2, AppendProperties, LenProperties
    <3>2. \A i \in DOMAIN m_wait' : m_wait'[i] # Dangling
      BY <1>0, <3>1
    <3> QED BY <1>4, <3>2 DEF Insert
  <2> QED BY <1>4, <2>1, <2>2 DEF Insert
<1>5. ASSUME NEW t \in Waiters,
             \/ UnlockToWait(t) \/ AcquireToken(t) \/ AcquireTimeout(t)
             \/ AcquireThrows(t) \/ Relock(t)
      PROVE  NothingDangles'
  BY <1>5 DEF UnlockToWait, AcquireToken, AcquireTimeout, AcquireThrows, Relock
<1>6. ASSUME NEW t \in Waiters, Erase(t)
      PROVE  NothingDangles'
  <2>1. ASSUME NEW i \in DOMAIN m_wait, m_wait' = RemoveAt(m_wait, i)
        PROVE  \A j \in DOMAIN m_wait' : m_wait'[j] # Dangling
    <3>1. /\ DOMAIN m_wait' = 1 .. Len(m_wait) - 1
          /\ \A j \in 1 .. Len(m_wait) - 1 :
               m_wait'[j] = IF j < i THEN m_wait[j] ELSE m_wait[j + 1]
      <4>1. /\ RemoveAt(m_wait, i) \in Seq(Waiters \cup {Dangling})
            /\ Len(RemoveAt(m_wait, i)) = Len(m_wait) - 1
            /\ \A j \in 1 .. Len(m_wait) - 1 :
                 RemoveAt(m_wait, i)[j] = IF j < i THEN m_wait[j] ELSE m_wait[j + 1]
        <5>1. i \in 1 .. Len(m_wait)
          BY <1>0
        <5> QED BY <1>0, <5>1, RemoveAtProperties, Zenon
      <4> QED BY <2>1, <4>1, LenProperties
    <3> QED BY <1>0, <3>1
  <2> QED BY <1>6, <2>1 DEF Erase, Stop
<1>7. ASSUME NEW t \in Notifiers, NEW i \in DOMAIN m_wait, NEW from, NEW to,
             ReleaseEntry(t, i, from, to)
      PROVE  NothingDangles'
  BY <1>7 DEF ReleaseEntry, Goto, Stop
<1>8. ASSUME NEW t \in Notifiers, NotifyOne(t) \/ NotifyAll(t) \/ ReleaseNext(t)
      PROVE  NothingDangles'
  <2>1. m_wait # <<>> => 1 \in DOMAIN m_wait
    BY <1>0, EmptySeq
  <2>2. cursor < Len(m_wait) => cursor + 1 \in DOMAIN m_wait
    BY <1>0
  <2> QED BY <1>7, <1>8, <2>1, <2>2 DEF NotifyOne, NotifyAll, ReleaseNext
<1>9. ASSUME NEW t \in Notifiers, PopFront(t) \/ Clear(t)
      PROVE  NothingDangles'
  <2>1. CASE PopFront(t)
    <3>1. m_wait # <<>>
      BY <2>1, EmptySeq DEF PopFront, Goto, ListMutexInv
    <3>2. DOMAIN m_wait' = 1 .. Len(m_wait) - 1
      BY <1>0, <2>1, <3>1, HeadTailProperties, LenProperties DEF PopFront
    <3>3. \A j \in 1 .. Len(m_wait) - 1 : m_wait'[j] = m_wait[j + 1]
      BY <1>0, <2>1, <3>1, HeadTailProperties DEF PopFront
    <3> QED BY <1>0, <2>1, <3>2, <3>3 DEF PopFront
  <2>2. CASE Clear(t)
    BY <2>2 DEF Clear
  <2> QED BY <1>9, <2>1, <2>2
<1>10. CASE UNCHANGED vars
  BY <1>10 DEF vars
<1> QED
  BY <1>1, <1>3, <1>4, <1>5, <1>6, <1>8, <1>9, <1>10
  DEF Next, WaitStep, NotifyStep, Stopped

(* When no caller passes a negative duration, every entry a notification   *)
(* may release belongs to a call that has not returned, and no semaphore   *)
(* is used after its call returned.                                        *)
THEOREM EntriesLive ==
  ASSUME "negative" \notin Timeouts
  PROVE  Spec => [](PendingEntriesAreLive /\ NoDanglingSemaphore)
<1>1. Init => NothingDangles
  BY DEF Init, NothingDangles, NoDanglingSemaphore
<1>2. IndInv /\ NothingDangles /\ [Next]_vars => NothingDangles'
  BY NothingDanglesStep DEF IndInv
<1>3. IndInv /\ NothingDangles => PendingEntriesAreLive /\ NoDanglingSemaphore
  BY DEF IndInv, EntriesInv, NothingDangles, PendingEntriesAreLive, Pending
<1> QED BY <1>1, <1>2, <1>3, Inductive, PTL DEF Spec

-----------------------------------------------------------------------------
(* The code implements StdConditionVariable: the steps of the code, seen   *)
(* through what the refinement mapping substitutes for the abstract        *)
(* variables.                                                              *)
Queue == SubSeq(m_wait, cursor + 1, Len(m_wait))

Woken == {t \in Waiters : \/ pc[t] \in Registered /\ sema[t] = 1
                          \/ pc[t] = "relock"}

Status == [t \in Threads |-> AbstractStatus(t)]

StatusAt(p) ==
  CASE p \in {"unlock"} -> "enqueued"
    [] p \in {"acquire", "relock", "relockTimedOut"} -> "asleep"
    [] p = "erase" -> "leaving"
    [] OTHER -> "out"

RefinementInv == IndInv /\ NothingDangles

-----------------------------------------------------------------------------
(* What a step must do to what is substituted for the abstract variables.  *)

LEMMA Stutters ==
  ASSUME UNCHANGED <<lockOwner, Queue, Woken, Status, result>>
  PROVE  UNCHANGED Std!vars
BY DEF Std!vars, Queue, Woken, Status

LEMMA Notifies ==
  ASSUME Queue # <<>>, Woken' = Woken \cup {Head(Queue)}, Queue' = Tail(Queue),
         UNCHANGED <<lockOwner, Status, result>>
  PROVE  Std!Notify
BY DEF Std!Notify, Queue, Woken, Status

LEMMA ReturnsTimeout ==
  ASSUME NEW t, Status[t] = "leaving", NEW i \in DOMAIN Queue, Queue[i] = t,
         Queue' = SubSeq(Queue, 1, i - 1) \o SubSeq(Queue, i + 1, Len(Queue)),
         Status' = [Status EXCEPT ![t] = "out"],
         result' = [result EXCEPT ![t] = "timeout"],
         UNCHANGED <<lockOwner, Woken>>
  PROVE  Std!ReturnTimeout(t)
BY DEF Std!ReturnTimeout, Queue, Woken, Status

(* A thread moves, and so does its status.                                 *)
LEMMA StatusMoves ==
  ASSUME TypeOK, NEW t \in Threads, NEW from \in Pcs, NEW to \in Pcs, Goto(t, from, to)
  PROVE  /\ Status[t] = StatusAt(from)
         /\ Status' = [Status EXCEPT ![t] = StatusAt(to)]
         /\ StatusAt(from) = StatusAt(to) => Status' = Status
<1>1. pc \in [Threads -> Pcs] /\ pc[t] = from /\ pc' = [pc EXCEPT ![t] = to]
  BY DEF TypeOK, Goto
<1>2. Status = [u \in Threads |-> StatusAt(pc[u])]
  BY DEF Status, AbstractStatus, StatusAt
<1>3. Status' = [u \in Threads |-> StatusAt(pc'[u])]
  BY DEF Status, AbstractStatus, StatusAt
<1> HIDE DEF Status, StatusAt
<1>4. \A u \in Threads : StatusAt(pc'[u]) = IF u = t THEN StatusAt(to) ELSE StatusAt(pc[u])
  BY <1>1
<1> QED BY <1>1, <1>2, <1>3, <1>4

LEMMA StatusStays == UNCHANGED pc => UNCHANGED Status
BY DEF Status, AbstractStatus

LEMMA WokenStays ==
  ASSUME \A u \in Waiters :
           ((pc'[u] \in Registered /\ sema'[u] = 1) \/ pc'[u] = "relock")
             <=> ((pc[u] \in Registered /\ sema[u] = 1) \/ pc[u] = "relock")
  PROVE  UNCHANGED Woken
BY DEF Woken

LEMMA QueueStays == UNCHANGED <<m_wait, cursor>> => UNCHANGED Queue
BY DEF Queue

(* A thread moves between two steps that StdConditionVariable knows as one. *)
LEMMA QuietMove ==
  ASSUME TypeOK, NEW t \in Threads, NEW from \in Pcs, NEW to \in Pcs, Goto(t, from, to),
         StatusAt(from) = StatusAt(to),
         from \notin Registered \cup {"relock"}, to \notin Registered \cup {"relock"},
         \A u \in Waiters : u # t => sema'[u] = sema[u]
  PROVE  UNCHANGED <<Woken, Status>>
<1>1. UNCHANGED Status
  BY StatusMoves
<1>2. pc \in [Threads -> Pcs]
  BY DEF TypeOK
<1>3. UNCHANGED Woken
  BY <1>2, WokenStays DEF Goto
<1> QED BY <1>1, <1>3

-----------------------------------------------------------------------------
(* Each step of the code is a step of StdConditionVariable, or none.       *)

Simulated == Std!Next \/ UNCHANGED Std!vars

LEMMA Types ==
  ASSUME RefinementInv
  PROVE  /\ TypeOK /\ pc \in [Threads -> Pcs]
         /\ m_wait \in Seq(Waiters \cup {Dangling}) /\ cursor \in 0 .. Len(m_wait)
         /\ Len(m_wait) \in Nat /\ DOMAIN m_wait = 1 .. Len(m_wait)
BY LenProperties DEF RefinementInv, IndInv, TypeOK, ListMutexInv

(* Lock and unlock.                                                        *)
LEMMA LockSimulates ==
  ASSUME RefinementInv, NEW t \in Threads, Lock(t) \/ Unlock(t)
  PROVE  Simulated
<1> USE Types
<1>1. UNCHANGED <<Queue, Woken, Status>> /\ Status[t] = "out"
  <2>1. UNCHANGED Queue
    BY QueueStays DEF Lock, Unlock
  <2>2. PICK from \in {"idle", "locked"}, to \in {"idle", "locked"} : Goto(t, from, to) /\ UNCHANGED sema
    BY DEF Lock, Unlock
  <2>3. from \in Pcs /\ to \in Pcs /\ StatusAt(from) = "out" /\ StatusAt(to) = "out"
        /\ from \notin Registered \cup {"relock"} /\ to \notin Registered \cup {"relock"}
    BY <2>2 DEF Pcs, StatusAt, Registered
  <2> QED BY <2>1, <2>2, <2>3, QuietMove, StatusMoves
<1>2. CASE Lock(t)
  <2>1. Std!Lock(t)
    BY <1>1, <1>2 DEF Lock, Std!Lock, Queue, Woken, Status
  <2> QED BY <2>1 DEF Simulated, Std!Next
<1>3. CASE Unlock(t)
  <2>1. lockOwner = t
    BY <1>3 DEF Unlock, Goto, RefinementInv, IndInv, LockInv
  <2>2. Std!Unlock(t)
    BY <1>1, <1>3, <2>1 DEF Unlock, Std!Unlock, Queue, Woken, Status
  <2> QED BY <2>2 DEF Simulated, Std!Next
<1> QED BY <1>2, <1>3

(* A call that starts, and one that ends before it is registered.          *)
LEMMA BeginSimulates ==
  ASSUME RefinementInv, NEW t \in Waiters,
         Wait(t) \/ WaitFor(t) \/ WaitUntil(t) \/ WaitUnowned(t) \/ NoSemaphore(t)
  PROVE  Simulated
<1> USE Types, ThreadTypes
<1>1. ASSUME NEW k, BeginWait(t, k) PROVE Simulated
  <2>1. Goto(t, "locked", "insert") /\ UNCHANGED <<m_wait, cursor, lockOwner, result>>
        /\ \A u \in Waiters : u # t => sema'[u] = sema[u]
    BY <1>1 DEF BeginWait, TypeOK
  <2>2. UNCHANGED <<Queue, Woken, Status>>
    BY <2>1, QueueStays, QuietMove DEF Pcs, StatusAt, Registered
  <2> QED BY <2>1, <2>2, Stutters DEF Simulated
<1>2. ASSUME NEW r \in {"timeout", "exception"}, Goto(t, "locked", "locked"), Return(t, r),
             UNCHANGED <<m_wait, cursor, lockOwner, sema>>
      PROVE  Simulated
  <2>1. UNCHANGED <<Queue, Woken, Status>> /\ Status[t] = "out"
    BY <1>2, QueueStays, QuietMove, StatusMoves DEF Pcs, StatusAt, Registered
  <2>2. lockOwner = t
    BY <1>2 DEF Goto, RefinementInv, IndInv, LockInv
  <2>3. Std!Decline(t)
    BY <1>2, <2>1, <2>2 DEF Return, Std!Decline, Queue, Woken, Status
  <2> QED BY <2>3 DEF Simulated, Std!Next
<1>3. CASE WaitUnowned(t)
  BY <1>3, QueueStays, WokenStays, StatusStays, Stutters DEF WaitUnowned, Stop, Simulated
<1> QED BY <1>1, <1>2, <1>3 DEF Wait, WaitFor, WaitUntil, NoSemaphore

(* The entry is in the list before the lock is free.                       *)
LEMMA InsertSimulates ==
  ASSUME RefinementInv, NEW t \in Waiters, Insert(t)
  PROVE  Simulated
<1> USE Types, ThreadTypes
<1>1. t \in Threads /\ lockOwner = t /\ cursor = 0 /\ sema[t] = 0 /\ UNCHANGED <<lockOwner, sema, cursor>>
  BY DEF Insert, Goto, RefinementInv, LockInv, IndInv, ListMutexInv, EntriesInv
<1>2. CASE Goto(t, "insert", "unlock") /\ m_wait' = Append(m_wait, t) /\ UNCHANGED result
  <2>1. Queue = m_wait
    BY <1>1, SubSeqFull DEF Queue
  <2>2. Queue' = m_wait'
    <3>1. m_wait' \in Seq(Waiters \cup {Dangling})
      BY <1>2, AppendProperties
    <3> QED BY <1>1, <3>1, SubSeqFull DEF Queue
  <2>3. Status[t] = "out" /\ Status' = [Status EXCEPT ![t] = "enqueued"]
    BY <1>1, <1>2, StatusMoves DEF Pcs, StatusAt
  <2>4. UNCHANGED Woken
    BY <1>1, <1>2, WokenStays DEF Goto, Registered
  <2>5. Std!Enqueue(t)
    BY <1>1, <1>2, <2>1, <2>2, <2>3, <2>4 DEF Std!Enqueue, Queue, Woken, Status
  <2> QED BY <1>1, <2>5 DEF Simulated, Std!Next
<1>3. CASE Goto(t, "insert", "locked") /\ Return(t, "exception") /\ UNCHANGED m_wait
  <2>1. UNCHANGED <<Queue, Woken, Status>> /\ Status[t] = "out"
    BY <1>1, <1>3, QueueStays, QuietMove, StatusMoves DEF Pcs, StatusAt, Registered
  <2>2. Std!Decline(t)
    BY <1>1, <1>3, <2>1 DEF Return, Std!Decline, Queue, Woken, Status
  <2> QED BY <1>1, <2>2 DEF Simulated, Std!Next
<1> QED BY <1>2, <1>3 DEF Insert

LEMMA UnlockToWaitSimulates ==
  ASSUME RefinementInv, NEW t \in Waiters, UnlockToWait(t)
  PROVE  Simulated
<1> USE Types, ThreadTypes
<1>1. Goto(t, "unlock", "acquire") /\ UNCHANGED <<m_wait, cursor, sema, result>>
  BY DEF UnlockToWait
<1>2. Status[t] = "enqueued" /\ Status' = [Status EXCEPT ![t] = "asleep"]
  BY <1>1, StatusMoves DEF Pcs, StatusAt
<1>3. UNCHANGED <<Queue, Woken>>
  BY <1>1, QueueStays, WokenStays DEF Goto, Registered
<1>4. Std!FallAsleep(t)
  BY <1>2, <1>3 DEF UnlockToWait, Std!FallAsleep, Queue, Woken, Status
<1> QED BY <1>4 DEF Simulated, Std!Next

(* Taking the token and giving up are visible once the lock is taken.      *)
LEMMA AcquireSimulates ==
  ASSUME RefinementInv, NEW t \in Waiters,
         AcquireToken(t) \/ AcquireTimeout(t) \/ AcquireThrows(t)
  PROVE  Simulated
<1> USE Types, ThreadTypes
<1>1. ~AcquireThrows(t)
  BY DEF AcquireThrows, RefinementInv, NothingDangles
<1>2. UNCHANGED <<lockOwner, m_wait, cursor, result>>
  BY <1>1 DEF AcquireToken, AcquireTimeout
<1>3. UNCHANGED Status
  BY <1>1, StatusMoves DEF AcquireToken, AcquireTimeout, Pcs, StatusAt
<1>4. UNCHANGED Woken
  BY <1>1, WokenStays DEF AcquireToken, AcquireTimeout, Goto, Registered, TypeOK
<1> QED BY <1>2, <1>3, <1>4, QueueStays, Stutters DEF Simulated

LEMMA RelockSimulates ==
  ASSUME RefinementInv, NEW t \in Waiters, Relock(t)
  PROVE  Simulated
<1> USE Types, ThreadTypes
<1>1. UNCHANGED Queue
  BY QueueStays DEF Relock
<1>2. CASE Goto(t, "relock", "locked") /\ Return(t, "no_timeout")
  <2>1. Status[t] = "asleep" /\ Status' = [Status EXCEPT ![t] = "out"]
    BY <1>2, StatusMoves DEF Pcs, StatusAt
  <2>2. t \in Woken /\ Woken' = Woken \ {t}
    BY <1>2 DEF Relock, Goto, Woken, Registered
  <2>3. Std!ReturnNotified(t)
    BY <1>1, <1>2, <2>1, <2>2 DEF Relock, Return, Std!ReturnNotified, Queue, Woken, Status
  <2> QED BY <2>3 DEF Simulated, Std!Next
<1>3. CASE Goto(t, "relockTimedOut", "erase") /\ UNCHANGED result
  <2>1. Status[t] = "asleep" /\ Status' = [Status EXCEPT ![t] = "leaving"]
    BY <1>3, StatusMoves DEF Pcs, StatusAt
  <2>2. UNCHANGED Woken
    BY <1>3, WokenStays DEF Relock, Goto, Registered
  <2>3. Std!GiveUp(t)
    BY <1>1, <1>3, <2>1, <2>2 DEF Relock, Std!GiveUp, Queue, Woken, Status
  <2> QED BY <2>3 DEF Simulated, Std!Next
<1> QED BY <1>2, <1>3 DEF Relock

(* A waiter that erases its entry had not been notified.                   *)
LEMMA EraseSimulates ==
  ASSUME RefinementInv, NEW t \in Waiters, Erase(t)
  PROVE  Simulated
<1> USE Types, ThreadTypes
<1>1. CASE Stop("staleIterator")
  BY <1>1, QueueStays, WokenStays, StatusStays, Stutters DEF Stop, Simulated
<1>2. ASSUME NEW i \in DOMAIN m_wait, m_wait[i] = t, Goto(t, "erase", "locked"),
             m_wait' = RemoveAt(m_wait, i), Return(t, "timeout"), listOwner = NoThread,
             UNCHANGED <<lockOwner, listOwner, cursor, sema, timeout, program>>
      PROVE  Simulated
  <2>1. cursor = 0 /\ cursor' = 0
    BY <1>2 DEF RefinementInv, IndInv, ListMutexInv
  <2>2. Queue = m_wait
    BY <2>1, SubSeqFull DEF Queue
  <2>3. Queue' = m_wait'
    <3>1. m_wait' \in Seq(Waiters \cup {Dangling})
      BY <1>2, RemoveAtProperties
    <3> QED BY <2>1, <3>1, SubSeqFull DEF Queue
  <2>4. sema[t] = 0
    <3>1. i \in Pending /\ m_wait[i] # Dangling
      BY <1>2, <2>1 DEF Pending
    <3> QED BY <1>2, <3>1 DEF RefinementInv, IndInv, EntriesInv, Releasable, Awaiting
  <2>5. UNCHANGED Woken
    BY <1>2, <2>4, WokenStays DEF Goto, Registered
  <2>6. Status[t] = "leaving" /\ Status' = [Status EXCEPT ![t] = "out"]
    BY <1>2, StatusMoves DEF Pcs, StatusAt
  <2>7. Queue' = SubSeq(Queue, 1, i - 1) \o SubSeq(Queue, i + 1, Len(Queue))
    BY <1>2, <2>2, <2>3 DEF RemoveAt
  <2>8. Std!ReturnTimeout(t)
    BY <1>2, <2>2, <2>5, <2>6, <2>7, ReturnsTimeout DEF Return
  <2> QED BY <2>8 DEF Simulated, Std!Next
<1> QED BY <1>1, <1>2 DEF Erase

(* A notification takes effect when it releases the semaphore.             *)
LEMMA ReleaseSimulates ==
  ASSUME RefinementInv, NEW t \in Notifiers, cursor < Len(m_wait),
         NEW from \in {"idle", "locked", "releaseAll"}, NEW to \in {"popFront", "releaseAll"},
         ReleaseEntry(t, cursor + 1, from, to)
  PROVE  Simulated
<1> USE Types, ThreadTypes
<1>w. PICK w : w = m_wait[cursor + 1]
  OBVIOUS
<1>1. CASE UNCHANGED <<lockOwner, m_wait, cursor, sema, result, pc>>
  BY <1>1, QueueStays, WokenStays, StatusStays, Stutters DEF Simulated
<1>2. CASE /\ w # Dangling /\ Goto(t, from, to) /\ sema' = [sema EXCEPT ![w] = 1]
           /\ cursor' = cursor + 1 /\ UNCHANGED <<lockOwner, m_wait, timeout, result, program>>
  <2>1. w \in Waiters /\ pc[w] \in Registered
    BY <1>2, <1>w DEF RefinementInv, IndInv, EntriesInv, Pending, Releasable, Awaiting
  <2>2. from \in Pcs /\ to \in Pcs /\ StatusAt(from) = "out" /\ StatusAt(to) = "out"
        /\ from \notin Registered \cup {"relock"} /\ to \notin Registered \cup {"relock"}
    BY DEF Pcs, StatusAt, Registered
  <2>3. UNCHANGED Status
    BY <1>2, <2>2, StatusMoves
  <2>4. Woken' = Woken \cup {w}
    <3>1. \A u \in Waiters : /\ pc'[u] \in Registered <=> pc[u] \in Registered
                             /\ pc'[u] = "relock" <=> pc[u] = "relock"
      BY <1>2, <2>2 DEF Goto
    <3>2. sema'[w] = 1 /\ \A u \in Waiters : u # w => sema'[u] = sema[u]
      BY <1>2, <2>1 DEF RefinementInv, IndInv, TypeOK
    <3> QED BY <2>1, <3>1, <3>2 DEF Woken
  <2>5. Head(Queue) = w /\ Queue' = Tail(Queue)
    <3> DEFINE S == Waiters \cup {Dangling}
    <3>1. m_wait \in Seq(S) /\ cursor + 1 \in 1 .. Len(m_wait) /\ Len(m_wait) \in cursor + 1 .. Len(m_wait)
      OBVIOUS
    <3>2. /\ Head(SubSeq(m_wait, cursor + 1, Len(m_wait))) = m_wait[cursor + 1]
          /\ Tail(SubSeq(m_wait, cursor + 1, Len(m_wait))) = SubSeq(m_wait, cursor + 1 + 1, Len(m_wait))
      <4> HIDE DEF S
      <4> QED BY <3>1, HeadTailOfSubSeq, Zenon
    <3>3. Queue' = SubSeq(m_wait, cursor + 1 + 1, Len(m_wait))
      BY <1>2 DEF Queue
    <3> QED BY <1>w, <3>2, <3>3 DEF Queue
  <2>6. Queue # <<>>
    <3>1. Len(Queue) = Len(m_wait) - cursor
      <4>1. \A i \in cursor + 1 .. Len(m_wait) : m_wait[i] \in Waiters \cup {Dangling}
        BY ElementOfSeq
      <4>2. m_wait \in Seq(Waiters \cup {Dangling})
        BY DEF RefinementInv, IndInv, TypeOK
      <4> QED BY <4>1, <4>2, SubSeqProperties DEF Queue
    <3> QED BY <3>1, EmptySeq
  <2>7. Std!Notify
    BY <1>2, <2>3, <2>4, <2>5, <2>6, Notifies
  <2> QED BY <2>7 DEF Simulated, Std!Next
<1> QED BY <1>w, <1>1, <1>2 DEF ReleaseEntry, Stop

(* What drops entries drops those that were notified.                      *)
LEMMA DropSimulates ==
  ASSUME RefinementInv, NEW t \in Notifiers, PopFront(t) \/ Clear(t)
  PROVE  Simulated
<1> USE Types, ThreadTypes
<1>1. PICK from \in {"popFront", "releaseAll"}, to \in {"idle", "locked"} : Goto(t, from, to)
  BY DEF PopFront, Clear, Caller
<1>2. from \in Pcs /\ to \in Pcs /\ StatusAt(from) = "out" /\ StatusAt(to) = "out"
      /\ from \notin Registered \cup {"relock"} /\ to \notin Registered \cup {"relock"}
  BY DEF Pcs, StatusAt, Registered
<1>3. UNCHANGED <<lockOwner, sema, result>>
  BY DEF PopFront, Clear
<1>4. UNCHANGED <<Woken, Status>>
  BY <1>1, <1>2, <1>3, QuietMove
<1>5. UNCHANGED Queue
  <2>1. CASE PopFront(t)
    <3>1. cursor = 1 /\ cursor' = 0 /\ m_wait' = Tail(m_wait)
      BY <2>1 DEF PopFront, Goto, RefinementInv, IndInv, ListMutexInv
    <3>2. m_wait # <<>>
      BY <3>1, EmptySeq
    <3>3. Tail(m_wait) = SubSeq(m_wait, 2, Len(m_wait)) /\ Tail(m_wait) \in Seq(Waiters \cup {Dangling})
      BY <3>2, TailIsSubSeq, HeadTailProperties
    <3>4. Queue' = m_wait'
      BY <3>1, <3>3, SubSeqFull DEF Queue
    <3> QED BY <3>1, <3>3, <3>4 DEF Queue
  <2>2. CASE Clear(t)
    <3>1. cursor = Len(m_wait) /\ cursor' = 0 /\ m_wait' = <<>> /\ Len(<<>>) = 0
      BY <2>2, EmptySeq DEF Clear
    <3>2. Queue = <<>>
      BY <3>1, SubSeqEmpty DEF Queue
    <3>3. Queue' = <<>>
      BY <3>1, SubSeqEmpty DEF Queue
    <3> QED BY <3>2, <3>3
  <2> QED BY <2>1, <2>2
<1> QED BY <1>3, <1>4, <1>5, Stutters DEF Simulated

LEMMA StepSimulates == RefinementInv /\ [Next]_vars => Simulated
<1> SUFFICES ASSUME RefinementInv, [Next]_vars
             PROVE  Simulated
  OBVIOUS
<1> USE ThreadTypes
<1>1. ASSUME NEW t \in Notifiers, NotifyOne(t) \/ NotifyAll(t) PROVE Simulated
  <2>1. cursor = 0 /\ cursor < Len(m_wait)
    BY <1>1, Types, EmptySeq DEF NotifyOne, NotifyAll, RefinementInv, IndInv, ListMutexInv
  <2>2. PICK to \in {"popFront", "releaseAll"} : ReleaseEntry(t, cursor + 1, Caller(t), to)
    BY <1>1, <2>1 DEF NotifyOne, NotifyAll
  <2>3. Caller(t) \in {"idle", "locked", "releaseAll"}
    BY DEF Caller
  <2> QED BY <2>1, <2>2, <2>3, ReleaseSimulates
<1>2. ASSUME NEW t \in Notifiers, ReleaseNext(t) PROVE Simulated
  BY <1>2, ReleaseSimulates DEF ReleaseNext
<1>3. CASE UNCHANGED vars
  BY <1>3, QueueStays, WokenStays, StatusStays, Stutters DEF vars, Simulated
<1> QED BY <1>1, <1>2, <1>3, LockSimulates, BeginSimulates, InsertSimulates, UnlockToWaitSimulates,
           AcquireSimulates, RelockSimulates, EraseSimulates, DropSimulates
        DEF Next, WaitStep, NotifyStep, Stopped

(* Without negative durations the code implements the condition variable   *)
(* that the standard promises: wait registers before it unlocks, a         *)
(* notification reaches the oldest waiter, which returns with the lock and *)
(* no_timeout, and timeout is the answer of a waiter nobody notified.      *)
THEOREM ImplementsTheStandard ==
  ASSUME "negative" \notin Timeouts
  PROVE  Spec => ImplementsStd
<1>1. Init => NothingDangles
  BY DEF Init, NothingDangles, NoDanglingSemaphore
<1>2. IndInv /\ NothingDangles /\ [Next]_vars => NothingDangles'
  BY NothingDanglesStep DEF IndInv
<1>3. Init => Std!Init
  <2> SUFFICES ASSUME Init PROVE Std!Init
    OBVIOUS
  <2>1. SubSeq(m_wait, cursor + 1, Len(m_wait)) = <<>>
    BY SubSeqEmpty, EmptySeq DEF Init
  <2> QED BY <2>1, ThreadTypes DEF Init, Std!Init, AbstractStatus, Registered
<1>4. IndInv /\ NothingDangles /\ [Next]_vars => [Std!Next]_(Std!vars)
  BY StepSimulates DEF Simulated, RefinementInv
<1> QED BY <1>1, <1>2, <1>3, <1>4, Inductive, PTL DEF Spec, ImplementsStd, Std!Spec

-----------------------------------------------------------------------------
(* What a waiter whose entry is gone has been through. *)
StaleWasNotified ==
  program = "staleIterator" => \E t \in Waiters : pc[t] = "erase" /\ sema[t] = 1

(* A waiter that timed out erases through a dead iterator in one case      *)
(* only: a notification reached it after its semaphore had timed out, and  *)
(* dropped its entry before it had the lock back.                          *)
THEOREM StaleIteratorMeansNotified == Spec => []StaleWasNotified
<1>1. Init => StaleWasNotified
  BY DEF Init, StaleWasNotified
<1>2. IndInv /\ StaleWasNotified /\ [Next]_vars => StaleWasNotified'
  <2> SUFFICES ASSUME IndInv, StaleWasNotified, [Next]_vars, program' = "staleIterator"
               PROVE  \E t \in Waiters : pc'[t] = "erase" /\ sema'[t] = 1
    BY DEF StaleWasNotified
  <2>1. CASE program = "staleIterator"
    <3>1. UNCHANGED <<pc, sema>>
      BY <2>1 DEF Next, Lock, Unlock, Wait, WaitFor, WaitUntil, WaitUnowned, NoSemaphore,
                  BeginWait, WaitStep, Insert, UnlockToWait, AcquireToken, AcquireTimeout,
                  AcquireThrows, Relock, Erase, Goto, NotifyOne, NotifyAll, NotifyStep,
                  PopFront, ReleaseNext, Clear, ReleaseEntry, Stopped, vars
    <3> QED BY <2>1, <3>1 DEF StaleWasNotified
  <2>2. CASE program # "staleIterator"
    <3>1. PICK t \in Waiters : Erase(t)
      BY <2>2 DEF Next, Lock, Unlock, Wait, WaitFor, WaitUntil, WaitUnowned, NoSemaphore,
                  BeginWait, WaitStep, Insert, UnlockToWait, AcquireToken, AcquireTimeout,
                  AcquireThrows, Relock, Goto, NotifyOne, NotifyAll, NotifyStep, Stop,
                  PopFront, ReleaseNext, Clear, ReleaseEntry, Stopped, vars
    <3>2. /\ pc[t] = "erase" /\ UNCHANGED <<pc, sema>>
          /\ \A i \in DOMAIN m_wait : m_wait[i] # t
      BY <2>2, <3>1 DEF Erase, Stop
    <3>3. sema[t] # 0
      BY <3>2 DEF IndInv, NoStrandedWaiter, Pending, Awaiting, Registered
    <3>4. sema[t] = 1
      BY <3>3 DEF IndInv, TypeOK, Threads
    <3> QED BY <3>2, <3>4
  <2> QED BY <2>1, <2>2
<1> QED BY <1>1, <1>2, Inductive, PTL DEF Spec
=============================================================================
