--------------------------- MODULE CustomBarrier ---------------------------
(* The barrier of the platforms without pthread_barrier_t
   (UBWT_CONFIG_PTHREAD_CUSTOM_BARRIER): worker_barrier_init() and
   worker_barrier_wait() of src/src/worker.c.

   Two mutexes, two condition variables and three counters.  mutex[0] guards
   block_r, the gate that keeps callers of the next round out while the callers
   of this round are leaving; mutex[1] guards count and waiting.  A thread
   holds one mutex while it asks for the other in both orders (lines 135-141
   and 149-155), and block_r is written under mutex[0] but count and waiting
   under mutex[1], so the correctness argument is about which threads can be
   where, not about a lock order.

   A thread waiting on a condition variable has released the mutex; when it is
   woken it asks for the mutex again.  Waking is a broadcast or, if Spurious, a
   spurious wakeup, which POSIX allows at any time.                           *)
EXTENDS Naturals, FiniteSets

CONSTANTS Threads,     \* the threads that share the barrier
          None,        \* "no thread": the value of a free mutex
          MaxRounds,   \* bound on the calls of each thread
          Spurious     \* whether a wait may end without a broadcast

ASSUME BarrierAssumption ==
  /\ IsFiniteSet(Threads) /\ Threads # {}
  /\ None \notin Threads
  /\ MaxRounds \in Nat
  /\ Spurious \in BOOLEAN

VARIABLES
  mutex0, mutex1,      \* owner of mutex[0] and of mutex[1]
  count, waiting,      \* barrier->count, barrier->waiting
  blockR,              \* barrier->block_r
  pc,                  \* where each thread is in worker_barrier_wait()
  arrived, left,       \* history: calls made, calls returned
  serials              \* history: true results handed out

barrierVars == <<mutex0, mutex1, count, waiting, blockR>>
history == <<arrived, left, serials>>
vars == <<barrierVars, pc, history>>

(* barrier->total: the number of threads given to worker_barrier_init(). *)
total == Cardinality(Threads)

Labels == {"out", "lock0", "check0", "wait0", "lock1", "check1", "wait1",
           "relock1", "first", "leave", "last"}

(* worker_barrier_init(): a cleared barrier with count = total. *)
Init == /\ mutex0 = None /\ mutex1 = None
        /\ count = total
        /\ waiting = 0
        /\ blockR = 0
        /\ pc = [t \in Threads |-> "out"]
        /\ arrived = [t \in Threads |-> 0]
        /\ left = [t \in Threads |-> 0]
        /\ serials = 0

Goto(t, label) == pc' = [pc EXCEPT ![t] = label]

(* Thread t calls worker_barrier_wait(). *)
Enter(t) == /\ pc[t] = "out"
            /\ arrived[t] < MaxRounds
            /\ arrived' = [arrived EXCEPT ![t] = @ + 1]
            /\ Goto(t, "lock0")
            /\ UNCHANGED <<barrierVars, left, serials>>

(* Take mutex[0], on entry or when the wait on cond[0] is over. *)
Lock0(t) == /\ pc[t] = "lock0"
            /\ mutex0 = None
            /\ mutex0' = t
            /\ Goto(t, "check0")
            /\ UNCHANGED <<mutex1, count, waiting, blockR, history>>

(* Mutation: the gate is not looked at. *)
Check0NoGate(t) == /\ pc[t] = "check0"
                   /\ Goto(t, "lock1")
                   /\ UNCHANGED <<barrierVars, history>>

(* while (block_r) wait on cond[0]: the wait releases mutex[0]. *)
Check0(t) == /\ pc[t] = "check0"
             /\ IF blockR = 1
                THEN mutex0' = None /\ Goto(t, "wait0")
                ELSE UNCHANGED mutex0 /\ Goto(t, "lock1")
             /\ UNCHANGED <<mutex1, count, waiting, blockR, history>>

(* Take mutex[1] while holding mutex[0], count oneself in, release mutex[0]. *)
Lock1(t) == /\ pc[t] = "lock1"
            /\ mutex1 = None
            /\ mutex1' = t
            /\ waiting' = waiting + 1
            /\ mutex0' = None
            /\ Goto(t, "check1")
            /\ UNCHANGED <<count, blockR, history>>

(* while (waiting < count) wait on cond[1], releasing mutex[1]; a thread that
   is let through finds out whether it is the first of its round.             *)
Check1(t) == /\ pc[t] = "check1"
             /\ \/ /\ waiting < count
                   /\ mutex1' = None
                   /\ Goto(t, "wait1")
                \/ /\ waiting >= count
                   /\ UNCHANGED mutex1
                   /\ Goto(t, IF count = total THEN "first" ELSE "leave")
             /\ UNCHANGED <<mutex0, count, waiting, blockR, history>>

(* Take mutex[1] again when the wait on cond[1] is over. *)
Relock1(t) == /\ pc[t] = "relock1"
              /\ mutex1 = None
              /\ mutex1' = t
              /\ Goto(t, "check1")
              /\ UNCHANGED <<mutex0, count, waiting, blockR, history>>

(* Mutation: the broadcast is forgotten. *)
FirstNoBroadcast(t) == /\ pc[t] = "first" /\ mutex0 = None
                       /\ blockR' = 1
                       /\ Goto(t, "leave")
                       /\ UNCHANGED <<mutex0, mutex1, count, waiting, history>>

(* The first thread let through, holding mutex[1], closes the gate under
   mutex[0] and wakes everybody who waits on cond[1].                         *)
First(t) == /\ pc[t] = "first"
            /\ mutex0 = None
            /\ blockR' = 1
            /\ pc' = [u \in Threads |-> CASE u = t -> "leave"
                                          [] u # t /\ pc[u] = "wait1" -> "relock1"
                                          [] OTHER -> pc[u]]
            /\ UNCHANGED <<mutex0, mutex1, count, waiting, history>>

(* Count oneself out.  All but the last release mutex[1] and return 0. *)
Leave(t) == /\ pc[t] = "leave"
            /\ count' = count - 1
            /\ waiting' = waiting - 1
            /\ IF count' = 0
               THEN Goto(t, "last") /\ UNCHANGED <<mutex1, left>>
               ELSE /\ mutex1' = None
                    /\ left' = [left EXCEPT ![t] = @ + 1]
                    /\ Goto(t, "out")
            /\ UNCHANGED <<mutex0, blockR, arrived, serials>>

(* Mutation: the reset does not restore count. *)
LastNoReset(t) == /\ pc[t] = "last" /\ mutex0 = None
                  /\ blockR' = 0 /\ mutex1' = None
                  /\ left' = [left EXCEPT ![t] = @ + 1]
                  /\ serials' = serials + 1
                  /\ pc' = [u \in Threads |-> IF u = t THEN "out"
                                              ELSE IF pc[u] = "wait0" THEN "lock0" ELSE pc[u]]
                  /\ UNCHANGED <<mutex0, count, waiting, arrived>>

(* Mutation: the last thread returns 0 like the others. *)
LastNoSerial(t) == /\ pc[t] = "last" /\ mutex0 = None
                   /\ blockR' = 0 /\ count' = total /\ mutex1' = None
                   /\ left' = [left EXCEPT ![t] = @ + 1]
                   /\ pc' = [u \in Threads |-> IF u = t THEN "out"
                                               ELSE IF pc[u] = "wait0" THEN "lock0" ELSE pc[u]]
                   /\ UNCHANGED <<mutex0, waiting, arrived, serials>>

(* The last thread, holding mutex[1], opens the gate and resets count under
   mutex[0], wakes the callers of the next round and returns 1.               *)
Last(t) == /\ pc[t] = "last"
           /\ mutex0 = None
           /\ blockR' = 0
           /\ count' = total
           /\ mutex1' = None
           /\ left' = [left EXCEPT ![t] = @ + 1]
           /\ serials' = serials + 1
           /\ pc' = [u \in Threads |-> CASE u = t -> "out"
                                         [] u # t /\ pc[u] = "wait0" -> "lock0"
                                         [] OTHER -> pc[u]]
           /\ UNCHANGED <<mutex0, waiting, arrived>>

(* A wait on a condition variable ends although nobody signalled it. *)
SpuriousWakeup(t) ==
  /\ Spurious
  /\ \/ pc[t] = "wait0" /\ Goto(t, "lock0")
     \/ pc[t] = "wait1" /\ Goto(t, "relock1")
  /\ UNCHANGED <<barrierVars, history>>

(* What thread t does inside worker_barrier_wait(). *)
Step(t) == \/ Lock0(t) \/ Check0(t) \/ Lock1(t) \/ Check1(t) \/ Relock1(t)
           \/ First(t) \/ Leave(t) \/ Last(t)

(* Every thread has made all the calls of the bounded behaviour. *)
Finished == /\ \A t \in Threads : pc[t] = "out" /\ arrived[t] = MaxRounds
            /\ UNCHANGED vars

Next == \/ \E t \in Threads : Enter(t) \/ Step(t) \/ SpuriousWakeup(t)
        \/ Finished

Spec == Init /\ [][Next]_vars

(* The operating system runs every thread that can run, and spurious wakeups,
   which it may produce at any time, do not go on for ever.                   *)
FairSpec == /\ Spec
            /\ \A t \in Threads : WF_vars(Step(t))
            /\ <>[][\A t \in Threads : ~ SpuriousWakeup(t)]_vars

-----------------------------------------------------------------------------
(* Properties. *)

TypeOK == /\ mutex0 \in Threads \cup {None}
          /\ mutex1 \in Threads \cup {None}
          /\ count \in Nat /\ waiting \in Nat
          /\ blockR \in {0, 1}
          /\ pc \in [Threads -> Labels]
          /\ arrived \in [Threads -> Nat]
          /\ left \in [Threads -> Nat]
          /\ serials \in Nat

(* No thread gets out of its k-th call before every thread has made its k-th
   call: the reason talk.c calls worker_barrier_wait() at all.                *)
BarrierSafety == \A t, u \in Threads : left[t] <= arrived[u]

(* The assertion of line 151: a thread that passes the wait loop finds
   count == waiting.                                                          *)
CountsMatch == \A t \in Threads :
                 pc[t] = "check1" /\ waiting >= count => count = waiting

(* The two mutexes are asked for in both orders, yet no thread holds mutex[0]
   while it asks for mutex[1] when the owner of mutex[1] asks for mutex[0]
   (lines 141, 155 and 169).                                                  *)
NoEmbrace == \A t, u \in Threads :
               ~ (pc[t] = "lock1" /\ pc[u] \in {"first", "leave", "last"})

(* Nobody is asleep on the gate when it is open, nor on cond[1] when the round
   is being released: neither broadcast (lines 161 and 175) comes before the
   wait it must end.                                                          *)
NoLostWakeup == \A t \in Threads : /\ pc[t] = "wait0" => blockR = 1
                                   /\ pc[t] = "wait1" => blockR = 0

-----------------------------------------------------------------------------
(* The inductive invariant behind these properties. *)

(* The threads that count themselves among the waiting. *)
Counted == {t \in Threads :
              pc[t] \in {"check1", "wait1", "relock1", "first", "leave"}}

(* Who owns the mutexes. *)
InvMutex == \A t \in Threads :
              /\ pc[t] \in {"check0", "lock1"} <=> mutex0 = t
              /\ pc[t] \in {"check1", "first", "leave", "last"} <=> mutex1 = t

(* The gate is open: a round is gathering; nobody has left it. *)
InvOpen == blockR = 0 =>
             /\ count = total
             /\ \A t \in Threads : /\ pc[t] \notin {"leave", "last", "wait0"}
                                   /\ left[t] = serials

(* The gate is closed: the round is being released; those who are not counted
   any more have left it, except the last while it resets the barrier.        *)
InvClosed == blockR = 1 =>
               /\ count = waiting
               /\ \A t \in Threads :
                    /\ pc[t] \notin {"lock1", "first", "wait1"}
                    /\ left[t] = IF t \in Counted \/ pc[t] = "last"
                                 THEN serials ELSE serials + 1

(* The first to be released sees everybody in, the last nobody. *)
InvEnds == /\ \A t \in Threads : /\ pc[t] = "first" => waiting = total
                                 /\ pc[t] = "last" => waiting = 0
           /\ blockR = 1 /\ waiting = total => \E t \in Threads : pc[t] = "leave"

InvArrived == \A t \in Threads :
                arrived[t] = IF pc[t] = "out" THEN left[t] ELSE left[t] + 1

(* What every step of worker_barrier_wait() keeps: each phase of a round, and
   what the counters are in it.                                               *)
Inv == /\ TypeOK
       /\ InvMutex /\ InvOpen /\ InvClosed /\ InvEnds /\ InvArrived
       /\ waiting = Cardinality(Counted)

-----------------------------------------------------------------------------
(* The promise of worker_barrier_wait() holds, with one true result per round. *)
Promise == INSTANCE WorkerBarrier WITH
             Threads <- Threads, MaxRounds <- MaxRounds,
             arrived <- arrived, left <- left, serials <- serials
RefinesBarrier == Promise!Safe

(* ... and every caller gets back once all have called. *)
RefinesFairBarrier == Promise!Fair
=============================================================================
