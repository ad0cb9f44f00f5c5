------------------------ MODULE CustomBarrierProofs ------------------------
(* The barrier of src/src/worker.c is correct for every finite set of threads
   and any number of calls, with or without spurious wakeups.                 *)
EXTENDS CustomBarrier, FiniteSetTheorems, TLAPS

(* The number of counted threads is at most the total, and is the total only if
   every thread is counted.                                                   *)
LEMMA CountedBound ==
  /\ IsFiniteSet(Counted)
  /\ Cardinality(Counted) \in Nat
  /\ total \in Nat /\ total > 0
  /\ Cardinality(Counted) <= total
  /\ Cardinality(Counted) = total => Counted = Threads
  /\ Cardinality(Counted) = 0 => Counted = {}
<1>1. Counted \subseteq Threads
  BY DEF Counted
<1>2. IsFiniteSet(Threads) /\ Threads # {}
  BY BarrierAssumption
<1>3. IsFiniteSet(Counted) /\ Cardinality(Counted) <= Cardinality(Threads)
      /\ (Cardinality(Counted) = Cardinality(Threads) => Counted = Threads)
  BY <1>1, <1>2, FS_Subset
<1>4. Cardinality(Counted) \in Nat /\ (Cardinality(Counted) = 0 => Counted = {})
  BY <1>3, FS_CardinalityType, FS_EmptySet
<1>5. total \in Nat /\ total > 0
  <2>1. total \in Nat
    BY <1>2, FS_CardinalityType DEF total
  <2>2. total # 0
    BY <1>2, FS_EmptySet DEF total
  <2> QED BY <2>1, <2>2
<1> QED BY <1>3, <1>4, <1>5 DEF total

(* The same after a step. *)
LEMMA CountedBoundPrime ==
  /\ IsFiniteSet(Counted')
  /\ Cardinality(Counted') \in Nat
  /\ Cardinality(Counted') <= total
  /\ Cardinality(Counted') = total => Counted' = Threads
  /\ Cardinality(Counted') = 0 => Counted' = {}
<1>1. Counted' \subseteq Threads
  BY DEF Counted
<1>2. IsFiniteSet(Threads)
  BY BarrierAssumption
<1>3. IsFiniteSet(Counted') /\ Cardinality(Counted') <= Cardinality(Threads)
      /\ (Cardinality(Counted') = Cardinality(Threads) => Counted' = Threads)
  BY <1>1, <1>2, FS_Subset
<1>4. Cardinality(Counted') \in Nat /\ (Cardinality(Counted') = 0 => Counted' = {})
  BY <1>3, FS_CardinalityType, FS_EmptySet
<1> QED BY <1>3, <1>4 DEF total

(* The invariant holds of the barrier that worker_barrier_init() leaves. *)
LEMMA InitInv == Init => Inv
<1> SUFFICES ASSUME Init PROVE Inv
  OBVIOUS
<1>1. Counted = {}
  BY DEF Counted, Init
<1>2. Cardinality(Counted) = 0
  BY <1>1, FS_EmptySet
<1>3. total \in Nat
  BY CountedBound
<1>4. TypeOK
  BY <1>3 DEF TypeOK, Init, Labels
<1>5. InvMutex /\ InvOpen /\ InvClosed /\ InvArrived
  BY BarrierAssumption DEF Init, InvMutex, InvOpen, InvClosed, InvArrived
<1>6. InvEnds
  BY DEF Init, InvEnds
<1> QED BY <1>2, <1>4, <1>5, <1>6 DEF Inv, Init

-----------------------------------------------------------------------------
(* One lemma per step of worker_barrier_wait().  In each, the first step says
   what the step does to the set of counted threads.                          *)

LEMMA EnterInv == ASSUME Inv, NEW t \in Threads, Enter(t) PROVE Inv'
<1> USE DEF Inv
<1>1. Counted' = Counted
  BY DEF Counted, Enter, Goto, barrierVars, TypeOK, Labels
<1>2. TypeOK'
  BY DEF Enter, Goto, barrierVars, TypeOK, Labels
<1>3. InvMutex'
  BY DEF InvMutex, Enter, Goto, barrierVars, TypeOK, Labels
<1>4. InvOpen'
  BY DEF InvOpen, Enter, Goto, barrierVars, TypeOK, Labels, total
<1>5. InvClosed'
  BY <1>1 DEF InvClosed, Enter, Goto, barrierVars, TypeOK, Labels
<1>6. InvEnds'
  BY DEF InvEnds, Enter, Goto, barrierVars, TypeOK, Labels, total
<1>7. InvArrived'
  BY DEF InvArrived, Enter, Goto, barrierVars, TypeOK, Labels
<1> QED BY <1>1, <1>2, <1>3, <1>4, <1>5, <1>6, <1>7 DEF Enter, barrierVars

LEMMA Lock0Inv == ASSUME Inv, NEW t \in Threads, Lock0(t) PROVE Inv'
<1> USE DEF Inv
<1>1. Counted' = Counted
  BY DEF Counted, Lock0, Goto, TypeOK, Labels
<1>2. TypeOK'
  BY DEF Lock0, Goto, history, TypeOK, Labels
<1>3. InvMutex'
  BY BarrierAssumption DEF InvMutex, Lock0, Goto, TypeOK, Labels
<1>4. InvOpen'
  BY DEF InvOpen, Lock0, Goto, history, TypeOK, Labels, total
<1>5. InvClosed'
  BY <1>1 DEF InvClosed, Lock0, Goto, history, TypeOK, Labels
<1>6. InvEnds'
  BY DEF InvEnds, Lock0, Goto, TypeOK, Labels, total
<1>7. InvArrived'
  BY DEF InvArrived, Lock0, Goto, history, TypeOK, Labels
<1> QED BY <1>1, <1>2, <1>3, <1>4, <1>5, <1>6, <1>7 DEF Lock0

LEMMA Check0Inv == ASSUME Inv, NEW t \in Threads, Check0(t) PROVE Inv'
<1> USE DEF Inv
<1>1. Counted' = Counted
  BY DEF Counted, Check0, Goto, TypeOK, Labels
<1>2. TypeOK'
  BY DEF Check0, Goto, history, TypeOK, Labels
<1>3. InvMutex'
  BY BarrierAssumption DEF InvMutex, Check0, Goto, TypeOK, Labels
<1>4. InvOpen'
  BY DEF InvOpen, Check0, Goto, history, TypeOK, Labels, total
<1>5. InvClosed'
  BY <1>1 DEF InvClosed, Check0, Goto, history, TypeOK, Labels
<1>6. InvEnds'
  BY DEF InvEnds, Check0, Goto, TypeOK, Labels, total
<1>7. InvArrived'
  BY DEF InvArrived, Check0, Goto, history, TypeOK, Labels
<1> QED BY <1>1, <1>2, <1>3, <1>4, <1>5, <1>6, <1>7 DEF Check0

(* Here the gate is open, or nobody would ask for mutex[1] while holding
   mutex[0], and nobody is first, or mutex[1] would not be free.              *)
LEMMA Lock1Inv == ASSUME Inv, NEW t \in Threads, Lock1(t) PROVE Inv'
<1> USE DEF Inv
<1>1. Counted' = Counted \cup {t} /\ t \notin Counted
  BY DEF Counted, Lock1, Goto, TypeOK, Labels
<1>2. waiting' = Cardinality(Counted')
  BY <1>1, CountedBound, FS_AddElement DEF Lock1
<1>3. TypeOK'
  BY DEF Lock1, Goto, history, TypeOK, Labels
<1>4. InvMutex'
  BY BarrierAssumption DEF InvMutex, Lock1, Goto, TypeOK, Labels
<1>5. blockR = 0 /\ blockR' = 0
  BY DEF InvClosed, Lock1, TypeOK
<1>6. InvOpen'
  BY DEF InvOpen, Lock1, Goto, history, TypeOK, Labels, total
<1>7. InvClosed'
  BY <1>5 DEF InvClosed
<1>8. InvEnds'
  <2>1. \A u \in Threads : pc[u] \notin {"first", "last"}
    BY BarrierAssumption DEF InvMutex, Lock1
  <2> QED BY <1>5, <2>1 DEF InvEnds, Lock1, Goto, TypeOK, Labels
<1>9. InvArrived'
  BY DEF InvArrived, Lock1, Goto, history, TypeOK, Labels
<1> QED BY <1>2, <1>3, <1>4, <1>6, <1>7, <1>8, <1>9

LEMMA Check1Inv == ASSUME Inv, NEW t \in Threads, Check1(t) PROVE Inv'
<1> USE DEF Inv
<1>1. Counted' = Counted
  BY DEF Counted, Check1, Goto, TypeOK, Labels
<1>2. TypeOK'
  BY DEF Check1, Goto, history, TypeOK, Labels
<1>3. waiting \in Nat /\ count \in Nat /\ total \in Nat /\ waiting <= total
  BY CountedBound DEF TypeOK
<1>4. mutex1 = t
  BY DEF InvMutex, Check1
(* When the gate is closed the round is not full any more: the first to leave
   has counted itself out before it let go of mutex[1].                       *)
<1>5. blockR = 1 => waiting = count /\ count # total /\ pc'[t] = "leave"
  <2> SUFFICES ASSUME blockR = 1
               PROVE  waiting = count /\ count # total /\ pc'[t] = "leave"
    OBVIOUS
  <2>1. waiting = count
    BY DEF InvClosed
  <2>2. ASSUME waiting = total PROVE FALSE
    <3>1. PICK u \in Threads : pc[u] = "leave"
      BY <2>2 DEF InvEnds
    <3>2. mutex1 = u
      BY <3>1 DEF InvMutex
    <3> QED BY <1>4, <3>1, <3>2 DEF Check1
  <2> QED BY <1>3, <2>1, <2>2 DEF Check1, Goto, TypeOK
<1>6. blockR = 0 => /\ count = total
                    /\ \/ pc'[t] = "wait1"
                       \/ pc'[t] = "first" /\ waiting = total
  BY <1>3 DEF InvOpen, Check1, Goto, TypeOK
<1>7. blockR' = blockR /\ waiting' = waiting /\ count' = count
      /\ blockR \in {0, 1} /\ \A u \in Threads : u # t => pc'[u] = pc[u]
  BY DEF Check1, Goto, TypeOK
<1>8. InvMutex'
  BY <1>4, BarrierAssumption DEF InvMutex, Check1, Goto, TypeOK, Labels
<1>9. InvOpen'
  BY <1>6, <1>7 DEF InvOpen, Check1, history, total
<1>10. InvClosed'
  BY <1>1, <1>5, <1>7 DEF InvClosed, Check1, history
<1>11. InvEnds'
  BY <1>5, <1>6, <1>7 DEF InvEnds, total, Check1
<1>12. InvArrived'
  BY <1>5, <1>6, <1>7 DEF InvArrived, Check1, history
<1> QED BY <1>1, <1>2, <1>7, <1>8, <1>9, <1>10, <1>11, <1>12

LEMMA Relock1Inv == ASSUME Inv, NEW t \in Threads, Relock1(t) PROVE Inv'
<1> USE DEF Inv
<1>1. Counted' = Counted
  BY DEF Counted, Relock1, Goto, TypeOK, Labels
<1>2. TypeOK'
  BY DEF Relock1, Goto, history, TypeOK, Labels
<1>3. InvMutex'
  BY BarrierAssumption DEF InvMutex, Relock1, Goto, TypeOK, Labels
<1>4. InvOpen'
  BY DEF InvOpen, Relock1, Goto, history, TypeOK, Labels, total
<1>5. InvClosed'
  BY <1>1 DEF InvClosed, Relock1, Goto, history, TypeOK, Labels
<1>6. InvEnds'
  BY DEF InvEnds, Relock1, Goto, TypeOK, Labels, total
<1>7. InvArrived'
  BY DEF InvArrived, Relock1, Goto, history, TypeOK, Labels
<1> QED BY <1>1, <1>2, <1>3, <1>4, <1>5, <1>6, <1>7 DEF Relock1

(* The first to be released finds everybody counted, so that closing the gate
   turns every thread into one that is still to leave.                        *)
LEMMA FirstInv == ASSUME Inv, NEW t \in Threads, First(t) PROVE Inv'
<1> USE DEF Inv
<1>1. blockR = 0 /\ count = total /\ waiting = total
  BY DEF InvClosed, InvOpen, InvEnds, First, TypeOK
<1>2. Counted = Threads
  BY <1>1, CountedBound
<1>3. /\ pc'[t] = "leave" /\ pc' \in [Threads -> Labels]
      /\ \A u \in Threads : u # t => pc'[u] = IF pc[u] = "wait1" THEN "relock1" ELSE pc[u]
  BY DEF First, TypeOK, Labels
<1>4. \A u \in Threads : pc[u] \in {"check1", "wait1", "relock1", "first", "leave"}
  BY <1>2 DEF Counted
<1>5. mutex1 = t /\ \A u \in Threads : u # t => pc[u] \in {"wait1", "relock1"}
  BY <1>4 DEF InvMutex, First
<1>6. \A u \in Threads : u # t => pc'[u] = "relock1"
  BY <1>3, <1>5
<1>7. Counted' = Counted
  BY <1>2, <1>3, <1>6 DEF Counted
<1>8. TypeOK'
  BY <1>3 DEF First, history, TypeOK
<1>9. InvMutex'
  BY <1>3, <1>4, <1>5, <1>6 DEF InvMutex, First
<1>10. InvOpen'
  BY DEF InvOpen, First
<1>11. InvClosed'
  BY <1>1, <1>2, <1>3, <1>6, <1>7 DEF InvClosed, InvOpen, First, history
<1>12. InvEnds'
  BY <1>3, <1>6 DEF InvEnds
<1>13. InvArrived'
  BY <1>3, <1>4, <1>6 DEF InvArrived, First, history
<1> QED BY <1>7, <1>8, <1>9, <1>10, <1>11, <1>12, <1>13 DEF First

LEMMA LeaveInv == ASSUME Inv, NEW t \in Threads, Leave(t) PROVE Inv'
<1> USE DEF Inv
<1>1. blockR = 1 /\ blockR' = 1 /\ count = waiting
  BY DEF InvOpen, InvClosed, Leave, TypeOK
<1>2. mutex1 = t
  BY DEF InvMutex, Leave
<1>3. /\ pc' \in [Threads -> Labels] /\ pc'[t] = IF count' = 0 THEN "last" ELSE "out"
      /\ \A u \in Threads : u # t => pc'[u] = pc[u]
  BY DEF Leave, Goto, TypeOK, Labels
<1>4. Counted' = Counted \ {t} /\ t \in Counted
  BY <1>3 DEF Counted, Leave
<1>5. Cardinality(Counted') = waiting - 1 /\ waiting > 0 /\ waiting <= total
  <2>1. Cardinality(Counted') = waiting - 1
    BY <1>4, CountedBound, FS_RemoveElement
  <2>2. Cardinality(Counted') \in Nat
    BY CountedBoundPrime
  <2> QED BY <2>1, <2>2, CountedBound DEF TypeOK
<1>6. waiting' = waiting - 1 /\ count' = waiting' /\ waiting' \in Nat
  BY <1>1, <1>5 DEF Leave, TypeOK
<1>7. TypeOK'
  BY <1>3, <1>6 DEF Leave, TypeOK
<1>8. InvMutex'
  BY <1>2, <1>3, BarrierAssumption DEF InvMutex, Leave, TypeOK
<1>9. InvOpen'
  BY <1>1 DEF InvOpen
<1>10. InvClosed'
  <2>1. /\ left'[t] = IF count' = 0 THEN serials ELSE serials + 1
        /\ \A u \in Threads : u # t => left'[u] = left[u]
    BY <1>1, <1>4 DEF InvClosed, Leave, TypeOK
  <2> QED BY <1>1, <1>3, <1>4, <1>6, <2>1 DEF InvClosed, Leave
<1>11. InvEnds'
  <2>1. \A u \in Threads : u # t => pc[u] \notin {"first", "last"}
    BY <1>2 DEF InvMutex
  <2>2. waiting' # total /\ total' = total
    BY <1>5, <1>6, CountedBound DEF TypeOK, total
  <2> QED BY <1>3, <1>6, <2>1, <2>2 DEF InvEnds
<1>12. InvArrived'
  BY <1>3 DEF InvArrived, Leave, TypeOK
<1> QED BY <1>5, <1>6, <1>7, <1>8, <1>9, <1>10, <1>11, <1>12

(* The last finds nobody counted, so that everybody else has left the round. *)
LEMMA LastInv == ASSUME Inv, NEW t \in Threads, Last(t) PROVE Inv'
<1> USE DEF Inv
<1>1. blockR = 1 /\ waiting = 0 /\ Counted = {}
  BY CountedBound DEF InvOpen, InvEnds, Last, TypeOK
<1>2. mutex1 = t
  BY DEF InvMutex, Last
<1>3. \A u \in Threads : u # t => pc[u] \in {"out", "lock0", "check0", "wait0"}
  BY <1>1, <1>2 DEF InvMutex, InvClosed, Counted, TypeOK, Labels
<1>4. /\ pc' \in [Threads -> Labels] /\ pc'[t] = "out"
      /\ \A u \in Threads : u # t => pc'[u] = IF pc[u] = "wait0" THEN "lock0" ELSE pc[u]
  BY DEF Last, TypeOK, Labels
<1>5. Counted' = {}
  BY <1>3, <1>4 DEF Counted
<1>6. waiting' = Cardinality(Counted')
  BY <1>1, <1>5, FS_EmptySet DEF Last
<1>7. TypeOK'
  BY <1>4, CountedBound DEF Last, TypeOK
<1>8. InvMutex'
  BY <1>2, <1>3, <1>4, BarrierAssumption DEF InvMutex, Last
<1>9. InvOpen'
  <2>1. \A u \in Threads : left'[u] = serials + 1
    BY <1>1, <1>3 DEF InvClosed, Last, TypeOK
  <2> QED BY <1>3, <1>4, <2>1 DEF InvOpen, Last, total
<1>10. InvClosed'
  BY DEF InvClosed, Last
<1>11. InvEnds'
  BY <1>3, <1>4 DEF InvEnds, Last
<1>12. InvArrived'
  BY <1>3, <1>4 DEF InvArrived, Last, TypeOK
<1> QED BY <1>6, <1>7, <1>8, <1>9, <1>10, <1>11, <1>12

LEMMA SpuriousInv == ASSUME Inv, NEW t \in Threads, SpuriousWakeup(t) PROVE Inv'
<1> USE DEF Inv
<1>1. Counted' = Counted
  BY DEF Counted, SpuriousWakeup, Goto, TypeOK, Labels
<1>2. TypeOK'
  BY DEF SpuriousWakeup, Goto, barrierVars, history, TypeOK, Labels
<1>3. InvMutex'
  BY DEF InvMutex, SpuriousWakeup, Goto, barrierVars, TypeOK, Labels
<1>4. InvOpen'
  BY DEF InvOpen, SpuriousWakeup, Goto, barrierVars, history, TypeOK, Labels, total
<1>5. InvClosed'
  BY <1>1 DEF InvClosed, SpuriousWakeup, Goto, barrierVars, history, TypeOK, Labels
<1>6. InvEnds'
  BY DEF InvEnds, SpuriousWakeup, Goto, barrierVars, TypeOK, Labels, total
<1>7. InvArrived'
  BY DEF InvArrived, SpuriousWakeup, Goto, history, TypeOK, Labels
<1> QED BY <1>1, <1>2, <1>3, <1>4, <1>5, <1>6, <1>7 DEF SpuriousWakeup, barrierVars

(* Every step keeps the invariant. *)
LEMMA NextInv == Inv /\ [Next]_vars => Inv'
<1> SUFFICES ASSUME Inv, [Next]_vars PROVE Inv'
  OBVIOUS
<1>1. CASE UNCHANGED vars
  BY <1>1 DEF vars, barrierVars, history, Inv, TypeOK, InvMutex, InvOpen, InvClosed,
              InvEnds, InvArrived, Counted, total
<1>2. ASSUME NEW t \in Threads, Step(t) PROVE Inv'
  BY <1>2, Lock0Inv, Check0Inv, Lock1Inv, Check1Inv, Relock1Inv, FirstInv, LeaveInv,
     LastInv DEF Step
<1> QED BY <1>1, <1>2, EnterInv, SpuriousInv DEF Next, Finished

(* The inductive invariant holds in every reachable state of the barrier. *)
THEOREM BarrierInvariant == Spec => []Inv
<1> QED BY InitInv, NextInv, PTL DEF Spec

-----------------------------------------------------------------------------
(* The invariant says all there is to say about the properties. *)
LEMMA InvImplies == Inv => BarrierSafety /\ CountsMatch /\ NoEmbrace /\ NoLostWakeup
<1> SUFFICES ASSUME Inv
             PROVE  BarrierSafety /\ CountsMatch /\ NoEmbrace /\ NoLostWakeup
  OBVIOUS
<1> USE DEF Inv
<1>1. BarrierSafety
  <2> SUFFICES ASSUME NEW t \in Threads, NEW u \in Threads
               PROVE  left[t] <= arrived[u]
    BY DEF BarrierSafety
  <2>1. CASE blockR = 0
    BY <2>1 DEF InvOpen, InvArrived, TypeOK
  <2>2. CASE blockR = 1
    BY <2>2 DEF InvClosed, InvArrived, Counted, TypeOK
  <2> QED BY <2>1, <2>2 DEF TypeOK
<1>2. CountsMatch
  BY CountedBound DEF CountsMatch, InvOpen, InvClosed, TypeOK
<1>3. NoEmbrace
  BY CountedBound DEF NoEmbrace, InvOpen, InvClosed, InvEnds, InvMutex, TypeOK, Counted
<1>4. NoLostWakeup
  BY DEF NoLostWakeup, InvOpen, InvClosed, TypeOK
<1> QED BY <1>1, <1>2, <1>3, <1>4

(* The variables of the barrier keep their types. *)
THEOREM TypeCorrect == Spec => []TypeOK
<1>1. Inv => TypeOK
  BY DEF Inv
<1> QED BY <1>1, BarrierInvariant, PTL

(* No thread leaves a call of worker_barrier_wait() before all have made it. *)
THEOREM Safety == Spec => []BarrierSafety
<1> QED BY InvImplies, BarrierInvariant, PTL

(* The assertion count == waiting of worker_barrier_wait() never fails. *)
THEOREM AssertionHolds == Spec => []CountsMatch
<1> QED BY InvImplies, BarrierInvariant, PTL

(* The two mutexes, taken in both orders, never lock two threads into each
   other.                                                                     *)
THEOREM NoLockCycle == Spec => []NoEmbrace
<1> QED BY InvImplies, BarrierInvariant, PTL

(* Neither broadcast is lost: no thread sleeps through the event it waits for. *)
THEOREM WakeupsArrive == Spec => []NoLostWakeup
<1> QED BY InvImplies, BarrierInvariant, PTL

-----------------------------------------------------------------------------
(* A thread leaves only when everybody has called as often as it has; and when
   it is not the last, somebody who can still get the true result is left.    *)
LEMMA ReturnStep ==
  ASSUME Inv, NEW t \in Threads, Leave(t) \/ Last(t)
  PROVE  [Promise!Return(t)]_(Promise!vars)
<1> USE DEF Inv
<1>1. blockR = 1 /\ count = waiting
  BY DEF InvOpen, InvClosed, Leave, Last, TypeOK
<1>2. left[t] = serials /\ arrived[t] = serials + 1
  BY <1>1 DEF InvClosed, InvArrived, Counted, Leave, Last, TypeOK
<1>3. \A u \in Threads : arrived[u] >= arrived[t]
  BY <1>1, <1>2 DEF InvClosed, InvArrived, Counted, TypeOK
<1>4. CASE Leave(t) /\ count' = 0
  BY <1>4 DEF Leave, Promise!vars
<1>5. CASE Leave(t) /\ count' # 0
  <2>1. Counted # {t}
    <3>1. waiting # 1
      BY <1>1, <1>5 DEF Leave, TypeOK
    <3> QED BY <3>1, FS_Singleton
  <2>2. t \in Counted
    BY <1>5 DEF Leave, Counted
  <2>3. PICK u \in Counted : u # t
    BY <2>1, <2>2
  <2>4. u \in Threads \ {t} /\ left[u] <= left[t]
    BY <1>1, <1>2, <2>3 DEF InvClosed, Counted, TypeOK
  <2> QED BY <1>2, <1>3, <1>5, <2>4 DEF Promise!Return, Leave, TypeOK
<1>6. CASE Last(t)
  BY <1>2, <1>3, <1>6 DEF Promise!Return, Last, TypeOK
<1> QED BY <1>4, <1>5, <1>6

(* Every step of the barrier is an arrival, a return or no step of the promise. *)
LEMMA StepRefines == Inv /\ [Next]_vars => [Promise!Next]_(Promise!vars)
<1> SUFFICES ASSUME Inv, [Next]_vars PROVE [Promise!Next]_(Promise!vars)
  OBVIOUS
<1>1. ASSUME NEW t \in Threads, Enter(t) PROVE Promise!Arrive(t)
  BY <1>1 DEF Inv, InvArrived, Enter, Promise!Arrive
<1>2. ASSUME NEW t \in Threads,
             Lock0(t) \/ Check0(t) \/ Lock1(t) \/ Check1(t) \/ Relock1(t) \/ First(t)
             \/ SpuriousWakeup(t)
      PROVE  UNCHANGED Promise!vars
  BY <1>2 DEF Promise!vars, Lock0, Check0, Lock1, Check1, Relock1, First,
              SpuriousWakeup, history
<1>3. ASSUME NEW t \in Threads, Leave(t) \/ Last(t)
      PROVE  [Promise!Return(t)]_(Promise!vars)
  BY <1>3, ReturnStep
<1>4. CASE UNCHANGED vars
  BY <1>4 DEF vars, history, Promise!vars
<1> QED BY <1>1, <1>2, <1>3, <1>4 DEF Next, Step, Finished, Promise!Next

(* The barrier of src/src/worker.c keeps the promise of worker_barrier_wait():
   nobody gets through early, and each round has exactly one true result.     *)
THEOREM Refinement == Spec => RefinesBarrier
<1>1. Init => Promise!Init
  BY DEF Init, Promise!Init
<1> QED BY <1>1, StepRefines, BarrierInvariant, PTL DEF Spec, RefinesBarrier, Promise!Safe
=============================================================================
