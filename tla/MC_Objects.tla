------------------------------ MODULE MC_Objects ------------------------------
(* A small instance of Objects. *)
EXTENDS Objects

CONSTANTS t1, t2, t3, d1, d2, b1, b2

MCCounts == {-1, 1, 2}

(* The waits: one flag of two, all of them, with and without clearing. *)
MCRequests == {[mask |-> {b1}, flg |-> {}], [mask |-> {b1, b2}, flg |-> {"no_clear"}],
               [mask |-> {b1, b2}, flg |-> {"all"}]}

(* Two dispatch objects nest with the list of threads; one is enough to    *)
(* lock the kernel around the calls of the other classes.  Two threads use   *)
(* flags with all the kernel does; three use events without, so that two   *)
(* may wait for the flags that a third sets.                               *)
Plan(parts, threads, locks, suspends) ==
  [part : parts, threads : {threads}, locks : {locks}, suspends : {suspends}]

MCPlans ==
  Plan({"list"}, {t1, t2, t3}, {d1, d2}, TRUE)
    \cup Plan({"mutex", "semaphore", "pool"}, {t1, t2, t3}, {d1}, TRUE)
    \cup Plan({"event", "flags"}, {t1, t2}, {d1}, TRUE)
    \cup Plan({"event"}, {t1, t2, t3}, {}, FALSE)
=============================================================================
