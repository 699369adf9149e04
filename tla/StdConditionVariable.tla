------------------------ MODULE StdConditionVariable ------------------------
(***************************************************************************)
(* What a condition variable promises to the threads that share it and the *)
(* mutex it is used with: the abstract specification that                  *)
(* ConditionVariable.tla is shown to implement.                            *)
(*                                                                         *)
(* A waiter joins a FIFO queue before it gives the mutex up, so that no    *)
(* notification sent after it released the mutex can miss it.  A           *)
(* notification moves the oldest waiter from the queue to "woken"; a woken *)
(* waiter takes the mutex and returns no_timeout; a waiter that returns    *)
(* timeout takes itself out of the queue, with the mutex held, and has     *)
(* used up no notification.                                                *)
(***************************************************************************)
EXTENDS Sequences, Naturals

CONSTANTS
  Threads,    (* the threads that use the condition variable *)
  NoThread    (* the owner of a free mutex                   *)

VARIABLES
  owner,      (* the owner of the mutex                                *)
  queue,      (* the waiters that nobody has notified yet, oldest first *)
  woken,      (* the waiters that were notified and have not returned  *)
  status,     (* where each thread is with respect to its call of wait *)
  result      (* what the last call of wait of each thread returned    *)

vars == <<owner, queue, woken, status, result>>

Init ==
  /\ owner = NoThread
  /\ queue = <<>>
  /\ woken = {}
  /\ status = [t \in Threads |-> "out"]
  /\ result = [t \in Threads |-> "none"]

Lock(t) ==
  /\ status[t] = "out"
  /\ owner = NoThread
  /\ owner' = t
  /\ UNCHANGED <<queue, woken, status, result>>

Unlock(t) ==
  /\ status[t] = "out"
  /\ owner = t
  /\ owner' = NoThread
  /\ UNCHANGED <<queue, woken, status, result>>

(* The waiter is in the queue before the mutex is free. *)
Enqueue(t) ==
  /\ status[t] = "out"
  /\ owner = t
  /\ queue' = Append(queue, t)
  /\ status' = [status EXCEPT ![t] = "enqueued"]
  /\ UNCHANGED <<owner, woken, result>>

FallAsleep(t) ==
  /\ status[t] = "enqueued"
  /\ owner' = NoThread
  /\ status' = [status EXCEPT ![t] = "asleep"]
  /\ UNCHANGED <<queue, woken, result>>

(* A call that fails, or whose deadline is past, keeps the mutex. *)
Decline(t) ==
  /\ status[t] = "out"
  /\ owner = t
  /\ \E r \in {"timeout", "exception"} : result' = [result EXCEPT ![t] = r]
  /\ UNCHANGED <<owner, queue, woken, status>>

Notify ==
  /\ queue # <<>>
  /\ woken' = woken \cup {Head(queue)}
  /\ queue' = Tail(queue)
  /\ UNCHANGED <<owner, status, result>>

ReturnNotified(t) ==
  /\ status[t] = "asleep"
  /\ t \in woken
  /\ owner = NoThread
  /\ owner' = t
  /\ woken' = woken \ {t}
  /\ status' = [status EXCEPT ![t] = "out"]
  /\ result' = [result EXCEPT ![t] = "no_timeout"]
  /\ UNCHANGED queue

(* A waiter that gives up takes the mutex first ... *)
GiveUp(t) ==
  /\ status[t] = "asleep"
  /\ owner = NoThread
  /\ owner' = t
  /\ status' = [status EXCEPT ![t] = "leaving"]
  /\ UNCHANGED <<queue, woken, result>>

(* ... and then leaves the queue: it was not notified. *)
ReturnTimeout(t) ==
  /\ status[t] = "leaving"
  /\ \E i \in DOMAIN queue :
       /\ queue[i] = t
       /\ queue' = SubSeq(queue, 1, i - 1) \o SubSeq(queue, i + 1, Len(queue))
  /\ status' = [status EXCEPT ![t] = "out"]
  /\ result' = [result EXCEPT ![t] = "timeout"]
  /\ UNCHANGED <<owner, woken>>

Next ==
  \/ Notify
  \/ \E t \in Threads :
       \/ Lock(t) \/ Unlock(t)
       \/ Enqueue(t) \/ FallAsleep(t) \/ Decline(t)
       \/ ReturnNotified(t) \/ GiveUp(t) \/ ReturnTimeout(t)

Spec == Init /\ [][Next]_vars
=============================================================================
