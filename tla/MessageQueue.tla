---------------------------- MODULE MessageQueue ----------------------------
(***************************************************************************)
(* cmsis::message_queue<std::unique_ptr<T>> (include/MessageQueue.h) over  *)
(* message_queue_impl (src/MessageQueue.cpp): threads that pass objects of *)
(* the heap through a bounded queue of bare pointers.  put() takes the     *)
(* pointer out of its unique_ptr before it asks the RTOS; get() makes a    *)
(* unique_ptr of what comes out; clear() gets until the queue looks empty  *)
(* and then resets it.                                                     *)
(*                                                                         *)
(* Messages have one priority.  Moving and swapping queues is not modelled. *)
(***************************************************************************)
EXTENDS Naturals, Sequences, FiniteSets, SequencesExt

CONSTANTS
  Threads,   (* the threads that use the queue                          *)
  Objects,   (* the objects of type T that the program ever creates     *)
  Null,      (* the null pointer                                        *)
  Capacity   (* max_len                                                 *)

ASSUME ConstantsAssumption ==
  /\ IsFiniteSet(Threads)
  /\ Null \notin Objects
  /\ Capacity \in Nat \ {0}

VARIABLES
  held,      (* the unique_ptr with which each thread puts and gets       *)
  ptr,       (* the bare pointer of a put that waits                      *)
  pc,        (* where each thread is                                      *)
  queue,     (* the pointers in the queue of the RTOS                     *)
  heap,      (* "unborn", "live" or "deleted", for each object            *)
  excused    (* the objects whose loss the caller could have known of     *)

vars == <<held, ptr, pc, queue, heap, excused>>

Init ==
  /\ held = [t \in Threads |-> Null]
  /\ ptr = [t \in Threads |-> Null]
  /\ pc = [t \in Threads |-> "idle"]
  /\ queue = << >>
  /\ heap = [o \in Objects |-> "unborn"]
  /\ excused = {}

(* How long a call waits: put(data) and get() wait for ever; 0 ticks poll. *)
Waits == {"forever", "timed", "poll", "negative"}

Putters == {t \in Threads : pc[t] \in {"put", "timedPut"}}
Getters == {t \in Threads : pc[t] \in {"get", "timedGet", "clearGet"}}
Clearing(t) == pc[t] \in {"clear", "clearPop", "clearGet", "reset"}

Full == Len(queue) = Capacity

Delete(objects) == heap' = [o \in Objects |-> IF o \in objects THEN "deleted" ELSE heap[o]]

(* What becomes of an object that thread t gets: it replaces, and deletes, *)
(* the one of t's unique_ptr, or is deleted at once if t runs clear().     *)
Kept(t, o) == IF Clearing(t) THEN held[t] ELSE o
Dropped(t, o) == (IF Clearing(t) THEN {o} ELSE {held[t]}) \ {Null}
After(t) == IF Clearing(t) THEN "clear" ELSE "idle"

(* std::make_unique, and the end of a unique_ptr's life in the program. *)
Create(t) ==
  /\ pc[t] = "idle" /\ held[t] = Null
  /\ \E o \in Objects :
       /\ heap[o] = "unborn"
       /\ held' = [held EXCEPT ![t] = o]
       /\ heap' = [heap EXCEPT ![o] = "live"]
  /\ UNCHANGED <<ptr, pc, queue, excused>>

Destroy(t) ==
  /\ pc[t] = "idle" /\ held[t] # Null
  /\ held' = [held EXCEPT ![t] = Null]
  /\ Delete({held[t]})
  /\ UNCHANGED <<ptr, pc, queue, excused>>

-----------------------------------------------------------------------------
(* Mutated forms of the actions below, for testing the properties: no      *)
(* definition uses them.                                                   *)

(* put leaves the pointer in the caller's unique_ptr. *)
StoreNoRelease(t) ==
  /\ Getters = {} /\ ~Full
  /\ queue' = Append(queue, held[t])
  /\ UNCHANGED <<held, ptr, pc, heap>>

(* A get without a result deletes the object and keeps the pointer. *)
ForgetNoReset(t) ==
  /\ pc' = [pc EXCEPT ![t] = "idle"]
  /\ Delete({held[t]} \ {Null})
  /\ UNCHANGED <<held, ptr, queue, excused>>

(* clear resets the queue at once, as it does for plain messages. *)
ClearAtOnce(t) ==
  /\ pc[t] = "idle"
  /\ pc' = [pc EXCEPT ![t] = "reset"]
  /\ UNCHANGED <<held, ptr, queue, heap, excused>>

-----------------------------------------------------------------------------
(* The three outcomes of osMessageQueuePut that are not errors: the        *)
(* message goes to a thread that waits for one, into the queue, or waits.  *)
Handover(t) ==
  \E g \in Getters :
    /\ held' = [held EXCEPT ![t] = Null, ![g] = Kept(g, held[t])]
    /\ pc' = [pc EXCEPT ![g] = After(g)]
    /\ Delete(Dropped(g, held[t]))
    /\ UNCHANGED <<ptr, queue>>

Store(t) ==
  /\ Getters = {} /\ ~Full
  /\ queue' = Append(queue, held[t])
  /\ held' = [held EXCEPT ![t] = Null]
  /\ UNCHANGED <<ptr, pc, heap>>

Block(t, wait) ==
  /\ Full /\ wait \in {"forever", "timed"}
  /\ ptr' = [ptr EXCEPT ![t] = held[t]]
  /\ held' = [held EXCEPT ![t] = Null]
  /\ pc' = [pc EXCEPT ![t] = IF wait = "timed" THEN "timedPut" ELSE "put"]
  /\ UNCHANGED <<queue, heap>>

(* put(data), put(data, priority, wait): the unique_ptr is released first. *)
(* A put during a clear() may lose its object.                             *)
Put(t, wait) ==
  /\ pc[t] = "idle" /\ held[t] # Null
  /\ wait # "negative"
  /\ Handover(t) \/ Store(t) \/ Block(t, wait)
  /\ excused' = excused \cup {o \in {held[t]} : \E c \in Threads : Clearing(c)}

(* A put that returns full, or throws for a negative duration: nobody      *)
(* holds the pointer any more, and the caller is told.                     *)
PutFails(t, wait) ==
  /\ pc[t] = "idle" /\ held[t] # Null
  /\ wait = "negative" \/ (wait = "poll" /\ Full)
  /\ held' = [held EXCEPT ![t] = Null]
  /\ excused' = excused \cup {held[t]}
  /\ UNCHANGED <<ptr, pc, queue, heap>>

(* A put that returns timeout. *)
PutTimesOut(t) ==
  /\ pc[t] = "timedPut"
  /\ ptr' = [ptr EXCEPT ![t] = Null]
  /\ pc' = [pc EXCEPT ![t] = "idle"]
  /\ excused' = excused \cup {ptr[t]}
  /\ UNCHANGED <<held, queue, heap>>

-----------------------------------------------------------------------------
(* osMessageQueueGet with a message in the queue: a put that waits for the *)
(* place gets it.                                                          *)
Take(t) ==
  /\ queue # << >>
  /\ \/ /\ Putters = {}
        /\ queue' = Tail(queue)
        /\ pc' = [pc EXCEPT ![t] = After(t)]
        /\ UNCHANGED ptr
     \/ \E p \in Putters :
          /\ queue' = Append(Tail(queue), ptr[p])
          /\ pc' = [pc EXCEPT ![t] = After(t), ![p] = "idle"]
          /\ ptr' = [ptr EXCEPT ![p] = Null]
  /\ held' = [held EXCEPT ![t] = Kept(t, Head(queue))]
  /\ Delete(Dropped(t, Head(queue)))
  /\ UNCHANGED excused

(* get(data, wait) without a message: data is reset with a null pointer. *)
Forget(t) ==
  /\ pc' = [pc EXCEPT ![t] = "idle"]
  /\ held' = [held EXCEPT ![t] = Null]
  /\ Delete({held[t]} \ {Null})
  /\ UNCHANGED <<ptr, queue, excused>>

(* get(), get(data, wait).  A negative duration throws before anything     *)
(* changes.                                                                *)
Get(t, wait) ==
  /\ pc[t] = "idle" /\ wait # "negative"
  /\ \/ Take(t)
     \/ queue = << >> /\ wait = "poll" /\ Forget(t)
     \/ /\ queue = << >> /\ wait # "poll"
        /\ pc' = [pc EXCEPT ![t] = IF wait = "timed" THEN "timedGet" ELSE "get"]
        /\ UNCHANGED <<held, ptr, queue, heap, excused>>

GetTimesOut(t) == pc[t] = "timedGet" /\ Forget(t)

-----------------------------------------------------------------------------
(* clear() is called; then while (!empty()) get(). *)
Clear(t) ==
  /\ pc[t] = "idle"
  /\ pc' = [pc EXCEPT ![t] = "clear"]
  /\ UNCHANGED <<held, ptr, queue, heap, excused>>

TestEmpty(t) ==
  /\ pc[t] = "clear"
  /\ pc' = [pc EXCEPT ![t] = IF queue = << >> THEN "reset" ELSE "clearPop"]
  /\ UNCHANGED <<held, ptr, queue, heap, excused>>

(* The get() of the loop waits for ever if the message has gone meanwhile. *)
Pop(t) ==
  /\ pc[t] = "clearPop"
  /\ \/ Take(t)
     \/ /\ queue = << >>
        /\ pc' = [pc EXCEPT ![t] = "clearGet"]
        /\ UNCHANGED <<held, ptr, queue, heap, excused>>

(* osMessageQueueReset forgets the pointers in the queue, and gives their  *)
(* places to the puts that wait.                                           *)
Reset(t) ==
  /\ pc[t] = "reset"
  /\ \E served \in SUBSET Putters :
       /\ Cardinality(served) = Capacity \/ served = Putters
       /\ Cardinality(served) <= Capacity
       /\ \E order \in SetToSeqs(served) : queue' = [k \in DOMAIN order |-> ptr[order[k]]]
       /\ ptr' = [p \in Threads |-> IF p \in served THEN Null ELSE ptr[p]]
       /\ pc' = [p \in Threads |-> IF p \in served \cup {t} THEN "idle" ELSE pc[p]]
  /\ UNCHANGED <<held, heap, excused>>

(* The queue is destroyed, which no thread may be using, and another one   *)
(* takes its place.  The destructor deletes no object.                     *)
Replace ==
  /\ \A t \in Threads : pc[t] = "idle"
  /\ queue' = << >>
  /\ excused' = excused \cup {queue[k] : k \in DOMAIN queue}
  /\ UNCHANGED <<held, ptr, pc, heap>>

Next ==
  \/ \E t \in Threads :
       \/ Create(t) \/ Destroy(t)
       \/ \E wait \in Waits : Put(t, wait) \/ PutFails(t, wait) \/ Get(t, wait)
       \/ PutTimesOut(t) \/ GetTimesOut(t)
       \/ Clear(t) \/ TestEmpty(t) \/ Pop(t) \/ Reset(t)
  \/ Replace

Spec == Init /\ [][Next]_vars

-----------------------------------------------------------------------------
(* The variables keep their types, the queue its capacity, a thread that   *)
(* does not wait in put() has no bare pointer, and a unique_ptr points to  *)
(* an object that is alive.                                                *)
TypeOK ==
  /\ held \in [Threads -> Objects \cup {Null}]
  /\ ptr \in [Threads -> Objects \cup {Null}]
  /\ pc \in [Threads -> {"idle", "put", "timedPut", "get", "timedGet",
                         "clear", "clearPop", "clearGet", "reset"}]
  /\ queue \in Seq(Objects) /\ Len(queue) <= Capacity
  /\ heap \in [Objects -> {"unborn", "live", "deleted"}]
  /\ excused \subseteq Objects
  /\ \A t \in Threads : ptr[t] # Null <=> t \in Putters
  /\ \A t \in Threads : held[t] # Null => heap[held[t]] = "live"

(* The places that hold a pointer to an object. *)
Places(o) ==
  {<<"held", t>> : t \in {u \in Threads : held[u] = o}}
    \cup {<<"put", t>> : t \in {u \in Threads : ptr[u] = o}}
    \cup {<<"queue", k>> : k \in {j \in DOMAIN queue : queue[j] = o}}

(* However puts, gets, timeouts and clears of several threads meet, a live *)
(* object has at most one owner, and a deleted one none: it will never be  *)
(* deleted twice, nor got after its deletion.                              *)
OneOwner ==
  \A o \in Objects :
    /\ \A p, q \in Places(o) : p = q
    /\ heap[o] # "live" => Places(o) = {}

(* An object is lost only if its put told the caller so, if it was put     *)
(* while a clear() ran, or if it was still in a queue that was destroyed.  *)
(* In particular clear() loses nothing that was put before it began, not   *)
(* even the objects of puts that waited for a place.                       *)
NothingElseIsLost ==
  \A o \in Objects : heap[o] = "live" /\ Places(o) = {} => o \in excused

(* MessageQueue.h:213 "Avoid memory leak": when clear() resets the queue,  *)
(* it has deleted everything in it.  It does not hold.                     *)
ResetFindsNothing == \A t \in Threads : pc[t] = "reset" => queue = << >>

-----------------------------------------------------------------------------
(* The inductive invariant of the proofs. *)

(* No object is in two places: the places of each kind hold different      *)
(* objects, and so do those of different kinds.                            *)
Separate ==
  /\ \A t, u \in Threads :
       /\ held[t] = held[u] => t = u \/ held[t] = Null
       /\ ptr[t] = ptr[u] => t = u \/ ptr[t] = Null
       /\ held[t] = ptr[u] => held[t] = Null
  /\ \A j, k \in DOMAIN queue : queue[j] = queue[k] => j = k
  /\ \A t \in Threads, k \in DOMAIN queue : queue[k] # held[t] /\ queue[k] # ptr[t]

(* What a bare pointer refers to is alive. *)
PointersLive ==
  /\ \A t \in Threads : ptr[t] # Null => heap[ptr[t]] = "live"
  /\ \A k \in DOMAIN queue : heap[queue[k]] = "live"

(* A put waits only for a place, and what is in the way of a reset was put *)
(* during the clear() that is about to make it.                            *)
ResetInv ==
  /\ Putters # {} => Full
  /\ (\E t \in Threads : pc[t] = "reset") =>
       /\ \A k \in DOMAIN queue : queue[k] \in excused
       /\ \A t \in Putters : ptr[t] \in excused

(* Every live object is somewhere, or its loss is excused. *)
Accounted ==
  \A o \in Objects :
    heap[o] = "live" =>
      \/ \E t \in Threads : held[t] = o \/ ptr[t] = o
      \/ \E k \in DOMAIN queue : queue[k] = o
      \/ o \in excused

IndInv == TypeOK /\ Separate /\ PointersLive /\ ResetInv /\ Accounted
=============================================================================
