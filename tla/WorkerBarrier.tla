--------------------------- MODULE WorkerBarrier ---------------------------
(* What worker_barrier_wait() promises its callers (src/src/worker.c): a
   cyclic barrier for a fixed set of threads.  On most platforms the promise is
   kept by pthread_barrier_wait(); on the ones that lack it the program uses
   the barrier that CustomBarrier models.

   A call of worker_barrier_wait() is an Arrive step followed by a Return step.
   talk.c lets the one caller that gets a true result update shared state (the
   packet count), so "exactly one true result per round" is part of the
   promise.                                                                  *)
EXTENDS Naturals

CONSTANTS Threads,     \* the threads the barrier was initialised for
          MaxRounds    \* bound on the calls of each thread

VARIABLES arrived,     \* arrived[t]: calls that t has made
          left,        \* left[t]: calls of t that have returned
          serials      \* true results handed out so far

vars == <<arrived, left, serials>>

Init == /\ arrived = [t \in Threads |-> 0]
        /\ left = [t \in Threads |-> 0]
        /\ serials = 0

(* Thread t calls worker_barrier_wait(). *)
Arrive(t) == /\ arrived[t] = left[t]
             /\ arrived[t] < MaxRounds
             /\ arrived' = [arrived EXCEPT ![t] = @ + 1]
             /\ UNCHANGED <<left, serials>>

(* The call of t returns, once every thread has made as many calls as t.  The
   result is true for one caller of each round: the round's true result is
   handed out now, or it has been, or a caller that can still get it is left. *)
Return(t) == /\ left[t] < arrived[t]
             /\ \A u \in Threads : arrived[u] >= arrived[t]
             /\ left' = [left EXCEPT ![t] = @ + 1]
             /\ UNCHANGED arrived
             /\ \/ serials = left[t] /\ serials' = serials + 1
                \/ /\ \/ serials > left[t]
                      \/ \E u \in Threads \ {t} : left[u] <= left[t]
                   /\ UNCHANGED serials

Next == \E t \in Threads : Arrive(t) \/ Return(t)

Safe == Init /\ [][Next]_vars

(* Once everybody has called, everybody gets back. *)
Fair == Safe /\ \A t \in Threads : WF_vars(Return(t))
=============================================================================
