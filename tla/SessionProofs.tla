--------------------------- MODULE SessionProofs ---------------------------
(* For every number of workers, synchronous or not, and whether or not the timing
   assumption Prompt holds: the workers are reported and joined safely, and a
   connection joins two workers of the same kind.                             *)
EXTENDS Session, FiniteSetTheorems, TLAPS

-----------------------------------------------------------------------------
(* The inductive invariant: first the life of the threads, ... *)

(* The workers of a side exist in the order of their numbers. *)
InvCreated == \A w \in Workers : wpc[w] = "none" <=> w[2] > created[w[1]]

(* How far main has come in its two creation loops. *)
InvGroup ==
  \A s \in Sides :
    /\ group[s] = 1 => /\ created[s] <= StraightCount
                       /\ mpc[s] \in {"create", "check", "park", "asleep",
                                      "ready", "running"}
                       /\ mpc[s] \in {"ready", "running"} => created[s] = StraightCount
    /\ group[s] = 2 => /\ StraightCount <= created[s]
                       /\ mpc[s] \notin {"create", "check", "park", "asleep"} =>
                            created[s] = W

(* The flags of a context follow the worker, as does the mutex in it. *)
InvFlags ==
  \A w \in Workers :
    /\ "RUNNING" \in flags[w] <=> wpc[w] \in {"barrier", "talk"}
    /\ "JOINABLE" \in flags[w] <=> wpc[w] \in {"exiting", "gone"}
    /\ busy[w] <=> wpc[w] = "exiting"

(* Main has unlinked the context of w; pthread_join() may be still to come. *)
TakenDown(w) == \/ w[2] <= joined[w[1]]
                \/ mpc[w[1]] = "pjoin" /\ w[2] = joined[w[1]] + 1

(* The list holds the contexts of the workers that have forked and have not been
   taken down, and only a worker that has ended is taken down.                *)
InvLinked ==
  \A w \in Workers :
    /\ w \in linked <=> wpc[w] \notin {"none", "fork"} /\ ~TakenDown(w)
    /\ TakenDown(w) => wpc[w] = "gone"

(* How many workers main has joined. *)
InvJoined ==
  \A s \in Sides :
    /\ mpc[s] # "aborted"
    /\ mpc[s] \notin {"join", "pjoin", "done"} => joined[s] = 0
    /\ mpc[s] \in {"join", "pjoin"} => joined[s] < W

LifeInv == /\ TypeOK /\ InvCreated /\ InvGroup /\ InvFlags
           /\ InvLinked /\ InvJoined /\ ReportsComplete

(* ... then the connections. *)

(* A worker has a mate from the accept on, the relation is symmetric, and joins
   a worker of either side.                                                   *)
InvMates ==
  \A w \in Workers :
    /\ mate[w] # NoMate => /\ mate[w] \in Workers /\ mate[w][1] # w[1]
                           /\ mate[mate[w]] = w
    /\ wpc[w] \in {"connected", "barrier", "talk", "exit", "exiting", "gone"} =>
         mate[w] # NoMate
    /\ wpc[w] \in {"none", "fork", "forked", "sigfork", "connect", "accept"} =>
         mate[w] = NoMate
    /\ wpc[w] \in {"connect", "reply"} => w[1] = "connector"
    /\ wpc[w] = "accept" => w[1] = "listener"

(* The accept queue holds each waiting connector once. *)
InvBacklog ==
  /\ \A i \in 1 .. Len(backlog) : /\ backlog[i] \in Workers
                                  /\ wpc[backlog[i]] = "reply"
                                  /\ mate[backlog[i]] = NoMate
  /\ \A i, j \in 1 .. Len(backlog) : backlog[i] = backlog[j] => i = j

(* The reverse workers of a side are started when its straight workers are all
   connected.                                                                 *)
InvOrder ==
  \A w \in Workers : group[w[1]] = 2 /\ Straight(w) => mate[w] # NoMate

ConnInv == InvMates /\ InvBacklog /\ InvOrder /\ SameKind

Inv == LifeInv /\ ConnInv
-----------------------------------------------------------------------------
(* Facts about workers and sets of them. *)

LEMMA WorkerParts ==
  /\ \A w \in Workers : w[1] \in Sides /\ w[2] \in 1 .. W /\ w = <<w[1], w[2]>>
  /\ \A s \in Sides, j \in 1 .. W : <<s, j>> \in Workers
  /\ NoMate \notin Workers
BY DEF Workers, Sides, NoMate

(* What main waits for after the first group is the number of its workers. *)
LEMMA ExpectedFirst ==
  ASSUME NEW s \in Sides, group[s] = 1, StraightCount # 0
  PROVE  Expected(s) = StraightCount
BY SessionAssumption DEF Expected

(* A set of workers of a side that have numbers up to n and are at least n in
   number is all of those workers.                                            *)
LEMMA AllOfThem ==
  ASSUME NEW s, NEW n \in Nat, NEW S \in SUBSET ({s} \X (1 .. n)),
         Cardinality(S) >= n
  PROVE  \A j \in 1 .. n : <<s, j>> \in S
<1>1. IsFiniteSet({s}) /\ Cardinality({s}) = 1
  BY FS_Singleton
<1>2. IsFiniteSet(1 .. n) /\ Cardinality(1 .. n) = n
  BY FS_Interval
<1>3. IsFiniteSet({s} \X (1 .. n)) /\ Cardinality({s} \X (1 .. n)) = n
  <2>1. IsFiniteSet({s} \X (1 .. n))
        /\ Cardinality({s} \X (1 .. n)) = Cardinality({s}) * Cardinality(1 .. n)
    BY <1>1, <1>2, FS_Product, Zenon
  <2> QED BY <1>1, <1>2, <2>1
<1>4. IsFiniteSet(S) /\ Cardinality(S) <= n
      /\ (Cardinality(S) = n => S = {s} \X (1 .. n))
  BY <1>3, FS_Subset
<1>5. Cardinality(S) \in Nat
  BY <1>4, FS_CardinalityType
<1>6. S = {s} \X (1 .. n)
  BY <1>4, <1>5
<1> QED BY <1>6

(* An injection of the first n numbers into themselves reaches all of them. *)
LEMMA AllReached ==
  ASSUME NEW n \in Nat, NEW g \in [1 .. n -> 1 .. n],
         \A i, j \in 1 .. n : g[i] = g[j] => i = j
  PROVE  \A i \in 1 .. n : \E j \in 1 .. n : g[j] = i
<1>1. g \in Injection(1 .. n, 1 .. n)
  BY DEF Injection, IsInjective
<1>2. IsFiniteSet(1 .. n)
  BY FS_Interval
<1>3. g \in Surjection(1 .. n, 1 .. n)
  BY <1>1, <1>2, FS_Injection
<1> QED BY <1>3 DEF Surjection

-----------------------------------------------------------------------------
(* The invariant holds when the processes start. *)

LEMMA InitInv == Init => Inv
<1> SUFFICES ASSUME Init PROVE Inv
  OBVIOUS
<1>1. TypeOK
  BY SessionAssumption DEF Init, TypeOK, Workers
<1>2. InvCreated /\ InvGroup /\ InvFlags /\ InvLinked /\ InvJoined /\ ReportsComplete
  BY SessionAssumption, WorkerParts DEF Init, InvCreated, InvGroup, InvFlags, InvLinked,
     InvJoined, ReportsComplete, TakenDown
<1>3. InvMates /\ InvBacklog /\ InvOrder /\ SameKind
  BY SessionAssumption, WorkerParts DEF Init, InvMates, InvBacklog, InvOrder, SameKind
<1> QED BY <1>1, <1>2, <1>3 DEF Inv, LifeInv, ConnInv

-----------------------------------------------------------------------------
(* What net_listener_accept() takes from the queue, and what it leaves. *)
LEMMA HeadTail ==
  ASSUME NEW S, NEW q \in Seq(S), q # <<>>
  PROVE  /\ Head(q) \in S /\ Head(q) = q[1] /\ Tail(q) \in Seq(S)
         /\ Len(q) \in Nat \ {0} /\ Len(Tail(q)) = Len(q) - 1
         /\ \A i \in 1 .. Len(q) - 1 : Tail(q)[i] = q[i + 1]
OBVIOUS

(* The life of the threads: one lemma per step, and in it one step per part of the
   invariant.                                                                 *)

LEMMA TaskCreateLife == ASSUME LifeInv, NEW s \in Sides, TaskCreate(s) PROVE LifeInv'
<1> USE SessionAssumption, WorkerParts DEF LifeInv, TypeOK, TaskCreate, MainGoto, Goto, GroupEnd
<1> DEFINE w == <<s, created[s] + 1>>
<1>0. w \in Workers /\ w[1] = s /\ w[2] = created[s] + 1 /\ wpc[w] = "none"
  <2>1. created[s] + 1 \in 1 .. W
    OBVIOUS
  <2>2. w \in Workers
    BY <2>1
  <2> QED BY <2>1, <2>2 DEF InvCreated
<1>1. TypeOK'
  BY <1>0
<1>2. InvCreated'
  BY <1>0 DEF InvCreated, InvGroup
<1>3. InvGroup'
  BY <1>0 DEF InvGroup
<1>4. InvFlags'
  BY <1>0 DEF InvFlags
<1>5. InvLinked'
  BY <1>0 DEF InvLinked, TakenDown, InvJoined
<1>6. InvJoined'
  BY DEF InvJoined
<1>7. ReportsComplete'
  BY <1>0 DEF ReportsComplete
<1> QED BY <1>1, <1>2, <1>3, <1>4, <1>5, <1>6, <1>7

LEMMA CheckForkingLife == ASSUME LifeInv, NEW s \in Sides, CheckForking(s) PROVE LifeInv'
<1> USE SessionAssumption, WorkerParts DEF LifeInv, TypeOK, CheckForking, MainGoto
<1>1. TypeOK'
  OBVIOUS
<1>2. InvCreated'
  BY DEF InvCreated
<1>3. InvGroup'
  BY DEF InvGroup
<1>4. InvFlags'
  BY DEF InvFlags
<1>5. InvLinked'
  BY DEF InvLinked, TakenDown, InvJoined
<1>6. InvJoined'
  BY DEF InvJoined
<1>7. ReportsComplete'
  BY DEF ReportsComplete
<1> QED BY <1>1, <1>2, <1>3, <1>4, <1>5, <1>6, <1>7

LEMMA CondWaitLife == ASSUME LifeInv, NEW s \in Sides, CondWait(s) PROVE LifeInv'
<1> USE SessionAssumption, WorkerParts DEF LifeInv, TypeOK, CondWait, MainGoto
<1>1. TypeOK'
  OBVIOUS
<1>2. InvCreated'
  BY DEF InvCreated
<1>3. InvGroup'
  BY DEF InvGroup
<1>4. InvFlags'
  BY DEF InvFlags
<1>5. InvLinked'
  BY DEF InvLinked, TakenDown, InvJoined
<1>6. InvJoined'
  BY DEF InvJoined
<1>7. ReportsComplete'
  BY DEF ReportsComplete
<1> QED BY <1>1, <1>2, <1>3, <1>4, <1>5, <1>6, <1>7

LEMMA GroupCreatedLife == ASSUME LifeInv, NEW s \in Sides, GroupCreated(s) PROVE LifeInv'
<1> USE SessionAssumption, WorkerParts DEF LifeInv, TypeOK, GroupCreated, MainGoto, GroupEnd
<1>1. TypeOK'
  OBVIOUS
<1>2. InvCreated'
  BY DEF InvCreated
<1>3. InvGroup'
  BY DEF InvGroup
<1>4. InvFlags'
  BY DEF InvFlags
<1>5. InvLinked'
  BY DEF InvLinked, TakenDown, InvJoined, InvGroup
<1>6. InvJoined'
  BY DEF InvJoined
<1>7. ReportsComplete'
  BY DEF ReportsComplete
<1> QED BY <1>1, <1>2, <1>3, <1>4, <1>5, <1>6, <1>7

LEMMA WaitReadyLife == ASSUME LifeInv, NEW s \in Sides, WaitReady(s) PROVE LifeInv'
<1> USE SessionAssumption, WorkerParts DEF LifeInv, TypeOK, WaitReady, MainGoto
<1>1. TypeOK'
  OBVIOUS
<1>2. InvCreated'
  BY DEF InvCreated
<1>3. InvGroup'
  BY DEF InvGroup
<1>4. InvFlags'
  BY DEF InvFlags
<1>5. InvLinked'
  BY DEF InvLinked, TakenDown, InvJoined
<1>6. InvJoined'
  BY DEF InvJoined
<1>7. ReportsComplete'
  BY DEF ReportsComplete
<1> QED BY <1>1, <1>2, <1>3, <1>4, <1>5, <1>6, <1>7

LEMMA WaitRunningLife == ASSUME LifeInv, NEW s \in Sides, WaitRunning(s) PROVE LifeInv'
<1> USE SessionAssumption, WorkerParts DEF LifeInv, TypeOK, WaitRunning, MainGoto
<1>1. TypeOK'
  OBVIOUS
<1>2. InvCreated'
  BY DEF InvCreated
<1>3. InvGroup'
  BY DEF InvGroup
<1>4. InvFlags'
  BY DEF InvFlags
<1>5. InvLinked'
  BY DEF InvLinked, TakenDown, InvJoined
<1>6. InvJoined'
  BY DEF InvJoined
<1>7. ReportsComplete'
  BY DEF ReportsComplete
<1> QED BY <1>1, <1>2, <1>3, <1>4, <1>5, <1>6, <1>7

LEMMA WaitJoinableLife == ASSUME LifeInv, NEW s \in Sides, WaitJoinable(s) PROVE LifeInv'
<1> USE SessionAssumption, WorkerParts DEF LifeInv, TypeOK, WaitJoinable, MainGoto
<1>0. \A j \in 1 .. W : wpc[<<s, j>>] \in {"exiting", "gone"}
  <2> DEFINE S == {w \in linked : w[1] = s /\ "JOINABLE" \in flags[w]}
  <2>1. S \in SUBSET ({s} \X (1 .. W)) /\ Cardinality(S) >= W /\ W \in Nat
    BY DEF HasFlag, Workers
  <2>2. \A j \in 1 .. W : <<s, j>> \in S
    BY <2>1, AllOfThem
  <2> QED BY <2>2 DEF InvFlags
<1>1. TypeOK'
  OBVIOUS
<1>2. InvCreated'
  BY DEF InvCreated
<1>3. InvGroup'
  BY DEF InvGroup
<1>4. InvFlags'
  BY DEF InvFlags
<1>5. InvLinked'
  BY DEF InvLinked, TakenDown, InvJoined
<1>6. InvJoined'
  BY DEF InvJoined
<1>7. ReportsComplete'
  BY <1>0 DEF ReportsComplete
<1> QED BY <1>1, <1>2, <1>3, <1>4, <1>5, <1>6, <1>7

LEMMA ProcessReportLife == ASSUME LifeInv, NEW s \in Sides, ProcessReport(s) PROVE LifeInv'
<1> USE SessionAssumption, WorkerParts DEF LifeInv, TypeOK, ProcessReport, MainGoto
<1>1. TypeOK'
  OBVIOUS
<1>2. InvCreated'
  BY DEF InvCreated
<1>3. InvGroup'
  BY DEF InvGroup
<1>4. InvFlags'
  BY DEF InvFlags
<1>5. InvLinked'
  BY DEF InvLinked, TakenDown, InvJoined
<1>6. InvJoined'
  BY DEF InvJoined
<1>7. ReportsComplete'
  BY DEF ReportsComplete
<1> QED BY <1>1, <1>2, <1>3, <1>4, <1>5, <1>6, <1>7

LEMMA JoinLife == ASSUME LifeInv, NEW s \in Sides, Join(s) PROVE LifeInv'
<1> USE SessionAssumption, WorkerParts DEF LifeInv, TypeOK, Join, MainGoto
<1> DEFINE w == <<s, joined[s] + 1>>
<1>0. /\ w \in Workers /\ wpc[w] = "gone"
      /\ mpc' = [mpc EXCEPT ![s] = "pjoin"] /\ linked' = linked \ {w}
  <2>1. w \in Workers /\ joined[s] + 1 \in 1 .. W
    OBVIOUS
  <2>2. wpc[w] = "gone"
    BY <2>1 DEF ReportsComplete, InvFlags
  <2>3. "RUNNING" \notin flags[w] /\ "JOINABLE" \in flags[w]
    BY <2>1, <2>2 DEF InvFlags
  <2> QED BY <2>1, <2>2, <2>3
<1>1. TypeOK'
  BY <1>0
<1>2. InvCreated'
  BY <1>0 DEF InvCreated
<1>3. InvGroup'
  BY <1>0 DEF InvGroup
<1>4. InvFlags'
  BY <1>0 DEF InvFlags
<1>5. InvLinked'
  <2> SUFFICES ASSUME NEW u \in Workers
               PROVE  /\ u \in linked' <=> wpc'[u] \notin {"none", "fork"} /\ ~TakenDown(u)'
                      /\ TakenDown(u)' => wpc'[u] = "gone"
    BY DEF InvLinked
  <2>1. CASE u = w
    BY <1>0, <2>1 DEF TakenDown
  <2>2. CASE u # w
    <3>1. TakenDown(u)' <=> TakenDown(u)
      BY <1>0, <2>2 DEF TakenDown
    <3> QED BY <1>0, <2>2, <3>1 DEF InvLinked
  <2> QED BY <2>1, <2>2
<1>6. InvJoined'
  BY <1>0 DEF InvJoined
<1>7. ReportsComplete'
  BY <1>0 DEF ReportsComplete
<1> QED BY <1>1, <1>2, <1>3, <1>4, <1>5, <1>6, <1>7

LEMMA ThreadJoinLife == ASSUME LifeInv, NEW s \in Sides, ThreadJoin(s) PROVE LifeInv'
<1> USE SessionAssumption, WorkerParts DEF LifeInv, TypeOK, ThreadJoin, MainGoto
<1>1. TypeOK'
  BY DEF InvJoined
<1>2. InvCreated'
  BY DEF InvCreated
<1>3. InvGroup'
  BY DEF InvGroup
<1>4. InvFlags'
  BY DEF InvFlags
<1>5. InvLinked'
  BY DEF InvLinked, TakenDown, InvJoined
<1>6. InvJoined'
  BY DEF InvJoined, InvLinked, TakenDown
<1>7. ReportsComplete'
  BY DEF ReportsComplete
<1> QED BY <1>1, <1>2, <1>3, <1>4, <1>5, <1>6, <1>7

LEMMA ForkLife == ASSUME LifeInv, NEW w \in Workers, Fork(w) PROVE LifeInv'
<1> USE SessionAssumption, WorkerParts DEF LifeInv, TypeOK, Fork, Goto, mainVars
<1>1. TypeOK'
  OBVIOUS
<1>2. InvCreated'
  BY DEF InvCreated
<1>3. InvGroup'
  BY DEF InvGroup
<1>4. InvFlags'
  BY DEF InvFlags
<1>5. InvLinked'
  BY DEF InvLinked, TakenDown, InvJoined
<1>6. InvJoined'
  BY DEF InvJoined
<1>7. ReportsComplete'
  BY DEF ReportsComplete
<1> QED BY <1>1, <1>2, <1>3, <1>4, <1>5, <1>6, <1>7

LEMMA ClearForkingLife == ASSUME LifeInv, NEW w \in Workers, ClearForking(w) PROVE LifeInv'
<1> USE SessionAssumption, WorkerParts DEF LifeInv, TypeOK, ClearForking, Goto
<1>1. TypeOK'
  OBVIOUS
<1>2. InvCreated'
  BY DEF InvCreated
<1>3. InvGroup'
  BY DEF InvGroup
<1>4. InvFlags'
  BY DEF InvFlags
<1>5. InvLinked'
  BY DEF InvLinked, TakenDown, InvJoined
<1>6. InvJoined'
  BY DEF InvJoined
<1>7. ReportsComplete'
  BY DEF ReportsComplete
<1> QED BY <1>1, <1>2, <1>3, <1>4, <1>5, <1>6, <1>7

LEMMA SignalForkLife == ASSUME LifeInv, NEW w \in Workers, SignalFork(w) PROVE LifeInv'
<1> USE SessionAssumption, WorkerParts DEF LifeInv, TypeOK, SignalFork, Goto, Signal
<1>1. TypeOK'
  OBVIOUS
<1>2. InvCreated'
  BY DEF InvCreated
<1>3. InvGroup'
  BY DEF InvGroup
<1>4. InvFlags'
  BY DEF InvFlags
<1>5. InvLinked'
  BY DEF InvLinked, TakenDown, InvJoined
<1>6. InvJoined'
  BY DEF InvJoined
<1>7. ReportsComplete'
  BY DEF ReportsComplete
<1> QED BY <1>1, <1>2, <1>3, <1>4, <1>5, <1>6, <1>7

LEMMA ConnectLife == ASSUME LifeInv, NEW w \in Workers, Connect(w) PROVE LifeInv'
<1> USE SessionAssumption, WorkerParts DEF LifeInv, TypeOK, Connect, Goto, mainVars
<1>1. TypeOK'
  OBVIOUS
<1>2. InvCreated'
  BY DEF InvCreated
<1>3. InvGroup'
  BY DEF InvGroup
<1>4. InvFlags'
  BY DEF InvFlags
<1>5. InvLinked'
  BY DEF InvLinked, TakenDown, InvJoined
<1>6. InvJoined'
  BY DEF InvJoined
<1>7. ReportsComplete'
  BY DEF ReportsComplete
<1> QED BY <1>1, <1>2, <1>3, <1>4, <1>5, <1>6, <1>7

LEMMA RecvAcceptLife == ASSUME LifeInv, NEW w \in Workers, RecvAccept(w) PROVE LifeInv'
<1> USE SessionAssumption, WorkerParts DEF LifeInv, TypeOK, RecvAccept, Goto, mainVars
<1>1. TypeOK'
  OBVIOUS
<1>2. InvCreated'
  BY DEF InvCreated
<1>3. InvGroup'
  BY DEF InvGroup
<1>4. InvFlags'
  BY DEF InvFlags
<1>5. InvLinked'
  BY DEF InvLinked, TakenDown, InvJoined
<1>6. InvJoined'
  BY DEF InvJoined
<1>7. ReportsComplete'
  BY DEF ReportsComplete
<1> QED BY <1>1, <1>2, <1>3, <1>4, <1>5, <1>6, <1>7

LEMMA AcceptLife == ASSUME LifeInv, NEW w \in Workers, Accept(w) PROVE LifeInv'
<1> USE SessionAssumption, WorkerParts DEF LifeInv, TypeOK, Accept, Goto, mainVars
<1>1. TypeOK'
  <2>1. Head(backlog) \in Workers /\ Tail(backlog) \in Seq(Workers)
    BY HeadTail
  <2>2. mate' \in [Workers -> Workers \cup {NoMate}]
    BY <2>1
  <2> QED BY <2>1, <2>2
<1>2. InvCreated'
  BY DEF InvCreated
<1>3. InvGroup'
  BY DEF InvGroup
<1>4. InvFlags'
  BY DEF InvFlags
<1>5. InvLinked'
  BY DEF InvLinked, TakenDown, InvJoined
<1>6. InvJoined'
  BY DEF InvJoined
<1>7. ReportsComplete'
  BY DEF ReportsComplete
<1> QED BY <1>1, <1>2, <1>3, <1>4, <1>5, <1>6, <1>7

LEMMA RunningSetLife == ASSUME LifeInv, NEW w \in Workers, RunningSet(w) PROVE LifeInv'
<1> USE SessionAssumption, WorkerParts DEF LifeInv, TypeOK, RunningSet, Goto, Signal
<1>1. TypeOK'
  OBVIOUS
<1>2. InvCreated'
  BY DEF InvCreated
<1>3. InvGroup'
  BY DEF InvGroup
<1>4. InvFlags'
  BY DEF InvFlags
<1>5. InvLinked'
  BY DEF InvLinked, TakenDown, InvJoined
<1>6. InvJoined'
  BY DEF InvJoined
<1>7. ReportsComplete'
  BY DEF ReportsComplete
<1> QED BY <1>1, <1>2, <1>3, <1>4, <1>5, <1>6, <1>7

LEMMA EndTalkLife == ASSUME LifeInv, NEW w \in Workers, EndTalk(w) PROVE LifeInv'
<1> USE SessionAssumption, WorkerParts DEF LifeInv, TypeOK, EndTalk, Goto, Signal
<1>1. TypeOK'
  OBVIOUS
<1>2. InvCreated'
  BY DEF InvCreated
<1>3. InvGroup'
  BY DEF InvGroup
<1>4. InvFlags'
  BY DEF InvFlags
<1>5. InvLinked'
  BY DEF InvLinked, TakenDown, InvJoined
<1>6. InvJoined'
  BY DEF InvJoined
<1>7. ReportsComplete'
  BY DEF ReportsComplete
<1> QED BY <1>1, <1>2, <1>3, <1>4, <1>5, <1>6, <1>7

LEMMA TaskExitLife == ASSUME LifeInv, NEW w \in Workers, TaskExit(w) PROVE LifeInv'
<1> USE SessionAssumption, WorkerParts DEF LifeInv, TypeOK, TaskExit, Goto, Signal
<1>1. TypeOK'
  OBVIOUS
<1>2. InvCreated'
  BY DEF InvCreated
<1>3. InvGroup'
  BY DEF InvGroup
<1>4. InvFlags'
  BY DEF InvFlags
<1>5. InvLinked'
  BY DEF InvLinked, TakenDown, InvJoined
<1>6. InvJoined'
  BY DEF InvJoined
<1>7. ReportsComplete'
  BY DEF ReportsComplete
<1> QED BY <1>1, <1>2, <1>3, <1>4, <1>5, <1>6, <1>7

LEMMA ThreadExitLife == ASSUME LifeInv, NEW w \in Workers, ThreadExit(w) PROVE LifeInv'
<1> USE SessionAssumption, WorkerParts DEF LifeInv, TypeOK, ThreadExit, Goto, mainVars
<1>1. TypeOK'
  OBVIOUS
<1>2. InvCreated'
  BY DEF InvCreated
<1>3. InvGroup'
  BY DEF InvGroup
<1>4. InvFlags'
  BY DEF InvFlags
<1>5. InvLinked'
  BY DEF InvLinked, TakenDown, InvJoined
<1>6. InvJoined'
  BY DEF InvJoined
<1>7. ReportsComplete'
  BY DEF ReportsComplete
<1> QED BY <1>1, <1>2, <1>3, <1>4, <1>5, <1>6, <1>7

LEMMA StartTalkLife == ASSUME LifeInv, NEW s \in Sides, StartTalk(s) PROVE LifeInv'
<1> USE SessionAssumption, WorkerParts DEF LifeInv, TypeOK, StartTalk, mainVars
<1>1. TypeOK'
  OBVIOUS
<1>2. InvCreated'
  BY DEF InvCreated
<1>3. InvGroup'
  BY DEF InvGroup
<1>4. InvFlags'
  BY DEF InvFlags
<1>5. InvLinked'
  BY DEF InvLinked, TakenDown, InvJoined
<1>6. InvJoined'
  BY DEF InvJoined
<1>7. ReportsComplete'
  BY DEF ReportsComplete
<1> QED BY <1>1, <1>2, <1>3, <1>4, <1>5, <1>6, <1>7

-----------------------------------------------------------------------------
(* The connections: a step of main that starts no group leaves them alone, ... *)

LEMMA QuietConn ==
  ASSUME Inv, UNCHANGED <<group, wpc, backlog, mate>>
  PROVE  ConnInv'
<1> USE DEF Inv, ConnInv
<1>1. InvMates' /\ InvBacklog' /\ InvOrder' /\ SameKind'
  BY DEF InvMates, InvBacklog, InvOrder, SameKind, Straight
<1> QED BY <1>1

(* ... and so does a worker that goes on while it keeps its mate, or has none. *)
LEMMA MoveConn ==
  ASSUME Inv, NEW w \in Workers, NEW label, Goto(w, label),
         UNCHANGED <<group, backlog, mate>>, wpc[w] # "reply" \/ mate[w] # NoMate,
         \/ /\ label \in {"connected", "barrier", "exit", "exiting", "gone"}
            /\ mate[w] # NoMate
         \/ /\ label \in {"fork", "forked", "sigfork"} /\ mate[w] = NoMate
         \/ /\ label = IF w[1] = "connector" THEN "connect" ELSE "accept"
            /\ mate[w] = NoMate
  PROVE  ConnInv'
<1> USE WorkerParts DEF Inv, ConnInv, LifeInv, TypeOK, Goto
<1>1. InvMates'
  BY DEF InvMates, Sides
<1>2. InvBacklog'
  <2>1. \A i \in 1 .. Len(backlog) : backlog[i] # w
    BY DEF InvBacklog
  <2> QED BY <2>1 DEF InvBacklog
<1>3. InvOrder' /\ SameKind'
  BY DEF InvOrder, SameKind, Straight
<1> QED BY <1>1, <1>2, <1>3

LEMMA TaskCreateConn == ASSUME Inv, NEW s \in Sides, TaskCreate(s) PROVE ConnInv'
<1> DEFINE w == <<s, created[s] + 1>>
<1>1. w \in Workers /\ wpc[w] = "none"
  <2>1. created[s] + 1 \in 1 .. W
    BY SessionAssumption DEF Inv, LifeInv, TypeOK, TaskCreate, GroupEnd
  <2>2. w \in Workers
    BY <2>1, WorkerParts
  <2> QED BY <2>1, <2>2 DEF Inv, LifeInv, TypeOK, InvCreated
<1>2. mate[w] = NoMate
  BY <1>1 DEF Inv, ConnInv, InvMates
<1>3. Goto(w, "fork") /\ UNCHANGED <<group, backlog, mate>>
  BY DEF TaskCreate
<1> QED BY <1>1, <1>2, <1>3, MoveConn

(* The second group is begun at once only if the first has no workers. *)
LEMMA GroupCreatedConn == ASSUME Inv, NEW s \in Sides, GroupCreated(s) PROVE ConnInv'
<1> USE WorkerParts DEF Inv, ConnInv, LifeInv, TypeOK, GroupCreated
<1>1. InvMates' /\ InvBacklog' /\ SameKind'
  BY DEF InvMates, InvBacklog, SameKind, Straight
<1>2. InvOrder'
  BY SessionAssumption DEF InvOrder, Straight
<1> QED BY <1>1, <1>2

(* The second group is begun when all the workers of the first are running,
   hence connected.                                                           *)
LEMMA WaitRunningConn == ASSUME Inv, NEW s \in Sides, WaitRunning(s) PROVE ConnInv'
<1> USE WorkerParts DEF Inv, ConnInv, LifeInv, TypeOK, WaitRunning
<1>1. InvMates' /\ InvBacklog' /\ SameKind'
  BY DEF InvMates, InvBacklog, SameKind, Straight
<1>2. InvOrder'
  <2>1. CASE group[s] = 2
    BY <2>1 DEF InvOrder, Straight
  <2>2. CASE group[s] = 1 /\ StraightCount = 0
    BY <2>2 DEF InvOrder, Straight
  <2>3. CASE group[s] = 1 /\ StraightCount # 0
    <3> DEFINE S == {w \in linked : w[1] = s /\ "RUNNING" \in flags[w]}
    <3>1. StraightCount \in Nat /\ Expected(s) = StraightCount
      BY <2>3, ExpectedFirst, SessionAssumption
    <3>2. ASSUME NEW w \in S
          PROVE  w \in {s} \X (1 .. StraightCount)
      <4>1. w \in Workers /\ w[1] = s /\ wpc[w] # "none"
        BY DEF InvFlags
      <4>2. created[s] <= StraightCount
        BY <2>3 DEF InvGroup
      <4>3. w[2] <= created[s]
        BY <4>1 DEF InvCreated
      <4> QED BY <3>1, <4>1, <4>2, <4>3
    <3>3. Cardinality(S) >= StraightCount
      BY <3>1 DEF HasFlag
    <3>4. \A j \in 1 .. StraightCount : <<s, j>> \in S
      <4>1. S \in SUBSET ({s} \X (1 .. StraightCount))
        BY <3>2
      <4> QED BY <3>1, <3>3, <4>1, AllOfThem
    <3>5. ASSUME NEW w \in Workers, w[1] = s, Straight(w)
          PROVE  mate[w] # NoMate
      <4>1. w \in S
        BY <3>4, <3>5 DEF Straight
      <4> QED BY <4>1 DEF InvFlags, InvMates
    <3> QED BY <2>3, <3>5 DEF InvOrder, Straight
  <2> QED BY <2>1, <2>2, <2>3
<1> QED BY <1>1, <1>2

LEMMA ConnectConn == ASSUME Inv, NEW w \in Workers, Connect(w) PROVE ConnInv'
<1> USE WorkerParts DEF Inv, ConnInv, LifeInv, TypeOK, Connect, Goto, mainVars
<1>0. mate[w] = NoMate /\ w[1] = "connector"
  BY DEF InvMates
<1>1. InvMates'
  BY <1>0 DEF InvMates
<1>2. InvBacklog'
  <2>1. \A i \in 1 .. Len(backlog) : backlog[i] # w
    BY DEF InvBacklog
  <2>2. /\ Len(backlog') = Len(backlog) + 1 /\ Len(backlog) \in Nat
        /\ \A i \in 1 .. Len(backlog) : backlog'[i] = backlog[i]
        /\ backlog'[Len(backlog) + 1] = w
    OBVIOUS
  <2>3. \A i \in 1 .. Len(backlog') : i \in 1 .. Len(backlog) \/ i = Len(backlog) + 1
    BY <2>2
  <2>4. wpc'[w] = "reply" /\ mate' = mate /\ \A u \in Workers \ {w} : wpc'[u] = wpc[u]
    OBVIOUS
  <2>5. \A i \in 1 .. Len(backlog') : /\ backlog'[i] \in Workers
                                      /\ wpc'[backlog'[i]] = "reply"
                                      /\ mate'[backlog'[i]] = NoMate
    BY <1>0, <2>1, <2>2, <2>3, <2>4 DEF InvBacklog
  <2>6. \A i, j \in 1 .. Len(backlog') : backlog'[i] = backlog'[j] => i = j
    <3> HIDE DEF Connect, TypeOK, Goto
    <3> QED BY <2>1, <2>2, <2>3 DEF InvBacklog
  <2> QED BY <2>5, <2>6 DEF InvBacklog
<1>3. InvOrder' /\ SameKind'
  BY DEF InvOrder, SameKind, Straight
<1> QED BY <1>1, <1>2, <1>3

(* Once all the straight workers of side s are matched, so are those of the other
   side, and with them.                                                       *)
LEMMA StraightMatched ==
  ASSUME Inv, NEW s \in Sides, NEW t \in Sides, s # t, group[s] = 2,
         NEW v \in Workers, v[1] = t, Straight(v)
  PROVE  mate[v] # NoMate
<1>1. ASSUME NEW j \in 1 .. StraightCount
      PROVE  /\ <<s, j>> \in Workers /\ mate[<<s, j>>] # NoMate
             /\ mate[<<s, j>>] \in {t} \X (1 .. StraightCount)
             /\ mate[mate[<<s, j>>]] = <<s, j>>
  <2>1. <<s, j>> \in Workers /\ Straight(<<s, j>>)
    BY SessionAssumption, WorkerParts DEF Straight
  <2>2. mate[<<s, j>>] # NoMate
    BY <2>1 DEF Inv, ConnInv, InvOrder, Workers
  <2>3. /\ mate[<<s, j>>] \in Workers /\ mate[<<s, j>>][1] # s
        /\ mate[mate[<<s, j>>]] = <<s, j>>
    BY <2>1, <2>2 DEF Inv, ConnInv, InvMates
  <2>4. Straight(mate[<<s, j>>])
    BY <2>1, <2>2 DEF Inv, ConnInv, SameKind
  <2>5. mate[<<s, j>>][1] = t
    BY <2>3, WorkerParts DEF Sides
  <2> QED BY <2>1, <2>2, <2>3, <2>4, <2>5, SessionAssumption, WorkerParts DEF Straight
<1>2. ASSUME NEW i \in 1 .. StraightCount, NEW j \in 1 .. StraightCount,
             mate[<<s, i>>] = mate[<<s, j>>]
      PROVE  i = j
  <2>1. <<s, i>> = <<s, j>>
    BY <1>1, <1>2
  <2> QED BY <2>1
<1>3. StraightCount \in Nat /\ v = <<t, v[2]>> /\ v[2] \in 1 .. StraightCount
  BY SessionAssumption, WorkerParts DEF Straight
<1>4. PICK j \in 1 .. StraightCount : mate[<<s, j>>] = v
  <2> DEFINE g == [j \in 1 .. StraightCount |-> mate[<<s, j>>][2]]
  <2>1. \A j \in 1 .. StraightCount : /\ g[j] \in 1 .. StraightCount
                                      /\ mate[<<s, j>>] = <<t, g[j]>>
    BY <1>1
  <2>2. g \in [1 .. StraightCount -> 1 .. StraightCount]
    BY <2>1
  <2>3. \A i, j \in 1 .. StraightCount : g[i] = g[j] => i = j
    BY <1>2, <2>1
  <2> HIDE DEF g
  <2>4. \A i \in 1 .. StraightCount : \E j \in 1 .. StraightCount : g[j] = i
    BY <1>3, <2>2, <2>3, AllReached
  <2>5. PICK j \in 1 .. StraightCount : g[j] = v[2]
    BY <1>3, <2>4
  <2>6. mate[<<s, j>>] = v
    BY <1>3, <2>1, <2>5
  <2> QED BY <2>6
<1>5. mate[v] = <<s, j>>
  BY <1>1, <1>4
<1> QED BY <1>1, <1>5, WorkerParts

(* The accept that joins two workers: neither has a mate yet, so by StraightMatched
   they cannot be of different kinds.                                         *)
LEMMA AcceptConn == ASSUME Inv, NEW w \in Workers, Accept(w) PROVE ConnInv'
<1> DEFINE v == Head(backlog)
<1>1. /\ v \in Workers /\ v = backlog[1] /\ Len(backlog) \in Nat \ {0}
      /\ Len(Tail(backlog)) = Len(backlog) - 1
      /\ \A i \in 1 .. Len(backlog) - 1 : Tail(backlog)[i] = backlog[i + 1]
  BY HeadTail DEF Inv, LifeInv, TypeOK, Accept
<1>2. wpc[v] = "reply" /\ mate[v] = NoMate /\ v[1] = "connector"
  <2>1. wpc[v] = "reply" /\ mate[v] = NoMate
    BY <1>1 DEF Inv, ConnInv, InvBacklog
  <2> QED BY <1>1, <2>1 DEF Inv, ConnInv, InvMates
<1>3. wpc[w] = "accept" /\ mate[w] = NoMate /\ w[1] = "listener" /\ w # v
  BY <1>2 DEF Inv, ConnInv, InvMates, Accept
<1>4. /\ mate' = [mate EXCEPT ![w] = v, ![v] = w] /\ backlog' = Tail(backlog)
      /\ wpc' = [wpc EXCEPT ![w] = "connected"] /\ group' = group
  BY DEF Accept, Goto, mainVars
<1>5. mate'[w] = v /\ mate'[v] = w /\ \A u \in Workers \ {w, v} : mate'[u] = mate[u]
  BY <1>1, <1>3, <1>4 DEF Inv, LifeInv, TypeOK
<1>6. InvMates'
  <2> SUFFICES ASSUME NEW u \in Workers
               PROVE  InvMates!(u)'
    BY DEF InvMates
  <2>1. mate[u] \notin {w, v}
    BY <1>1, <1>2, <1>3, WorkerParts DEF Inv, ConnInv, InvMates
  <2>2. CASE u = w
    BY <1>1, <1>2, <1>3, <1>4, <1>5, <2>2, WorkerParts DEF Inv, LifeInv, TypeOK
  <2>3. CASE u = v
    BY <1>1, <1>2, <1>3, <1>4, <1>5, <2>3, WorkerParts DEF Inv, LifeInv, TypeOK
  <2>4. CASE u \notin {w, v}
    <3>1. mate'[u] = mate[u] /\ wpc'[u] = wpc[u]
      BY <1>4, <1>5, <2>4 DEF Inv, LifeInv, TypeOK
    <3>2. mate[u] # NoMate => mate'[mate[u]] = mate[mate[u]]
      BY <1>5, <2>1, <2>4 DEF Inv, ConnInv, InvMates
    <3> QED BY <3>1, <3>2 DEF Inv, ConnInv, InvMates
  <2> QED BY <2>2, <2>3, <2>4
<1>7. InvBacklog'
  <2>1. ASSUME NEW i \in 1 .. Len(backlog')
        PROVE  /\ i + 1 \in 1 .. Len(backlog) /\ backlog'[i] = backlog[i + 1]
               /\ backlog[i + 1] # v /\ backlog[i + 1] # w
               /\ backlog[i + 1] \in Workers
    <3>1. i + 1 \in 1 .. Len(backlog) /\ backlog'[i] = backlog[i + 1] /\ 1 \in 1 .. Len(backlog)
      BY <1>1, <1>4
    <3>2. backlog[i + 1] # v
      BY <1>1, <3>1 DEF Inv, ConnInv, InvBacklog
    <3> QED BY <1>3, <3>1, <3>2 DEF Inv, ConnInv, InvBacklog
  <2>2. \A i \in 1 .. Len(backlog') : /\ backlog'[i] \in Workers
                                      /\ wpc'[backlog'[i]] = "reply"
                                      /\ mate'[backlog'[i]] = NoMate
    BY <1>4, <1>5, <2>1 DEF Inv, ConnInv, InvBacklog, LifeInv, TypeOK
  <2>3. ASSUME NEW i \in 1 .. Len(backlog'), NEW j \in 1 .. Len(backlog'),
               backlog'[i] = backlog'[j]
        PROVE  i = j
    <3>1. backlog[i + 1] = backlog[j + 1]
      BY <2>1, <2>3
    <3>2. i + 1 = j + 1
      BY <2>1, <3>1 DEF Inv, ConnInv, InvBacklog
    <3> QED BY <1>1, <1>4, <3>2
  <2> QED BY <2>2, <2>3 DEF InvBacklog
<1>8. InvOrder'
  BY <1>1, <1>4, <1>5, WorkerParts DEF Inv, ConnInv, InvOrder, Straight
<1>9. SameKind'
  <2>1. Straight(w) = Straight(v)
    <3>0. wpc[w] # "none" /\ wpc[v] # "none"
      BY <1>2, <1>3
    <3>1. ASSUME Straight(w), ~Straight(v)
          PROVE  FALSE
      <4>1. group["connector"] = 2
        BY <1>1, <1>2, <3>0, <3>1, SessionAssumption, WorkerParts
           DEF Inv, LifeInv, TypeOK, InvCreated, InvGroup, Straight, Sides
      <4> QED BY <1>3, <3>1, <4>1, StraightMatched DEF Sides
    <3>2. ASSUME Straight(v), ~Straight(w)
          PROVE  FALSE
      <4>1. group["listener"] = 2
        BY <1>3, <3>0, <3>2, SessionAssumption, WorkerParts
           DEF Inv, LifeInv, TypeOK, InvCreated, InvGroup, Straight, Sides
      <4> QED BY <1>1, <1>2, <3>2, <4>1, StraightMatched DEF Sides
    <3>3. Straight(w) \in BOOLEAN /\ Straight(v) \in BOOLEAN
      BY DEF Straight
    <3> QED BY <3>1, <3>2, <3>3
  <2>2. ASSUME NEW u \in Workers, mate'[u] # NoMate
        PROVE  Straight(u) = Straight(mate'[u])
    BY <1>5, <2>1, <2>2 DEF Inv, ConnInv, SameKind
  <2> QED BY <2>2 DEF SameKind, Straight
<1> QED BY <1>6, <1>7, <1>8, <1>9 DEF ConnInv

LEMMA StartTalkConn == ASSUME Inv, NEW s \in Sides, StartTalk(s) PROVE ConnInv'
<1> USE WorkerParts DEF Inv, ConnInv, LifeInv, TypeOK, mainVars
<1>1. /\ UNCHANGED <<group, backlog, mate>>
      /\ \A w \in Workers : \/ wpc'[w] = wpc[w]
                            \/ wpc[w] = "barrier" /\ wpc'[w] = "talk"
  BY DEF StartTalk
<1>2. InvMates' /\ InvBacklog'
  BY <1>1 DEF InvMates, InvBacklog
<1>3. InvOrder' /\ SameKind'
  BY <1>1 DEF InvOrder, SameKind, Straight
<1> QED BY <1>2, <1>3

-----------------------------------------------------------------------------
(* Every step of the two processes preserves the invariant. *)

LEMMA LifeStep == ASSUME Inv, [Next]_vars PROVE LifeInv'
<1>1. ASSUME NEW s \in Sides, MainStep(s) PROVE LifeInv'
  BY <1>1, TaskCreateLife, CheckForkingLife, CondWaitLife, GroupCreatedLife,
     WaitReadyLife, WaitRunningLife, WaitJoinableLife, ProcessReportLife, JoinLife,
     ThreadJoinLife DEF Inv, MainStep
<1>2. ASSUME NEW w \in Workers, WorkerStep(w) PROVE LifeInv'
  BY <1>2, ForkLife, ClearForkingLife, SignalForkLife, ConnectLife, RecvAcceptLife,
     AcceptLife, RunningSetLife, EndTalkLife, TaskExitLife, ThreadExitLife
     DEF Inv, WorkerStep
<1>3. ASSUME NEW s \in Sides, StartTalk(s) PROVE LifeInv'
  BY <1>3, StartTalkLife DEF Inv
<1>4. ASSUME UNCHANGED vars PROVE LifeInv'
  BY <1>4 DEF Inv, LifeInv, vars, TypeOK, InvCreated, InvGroup, InvFlags, InvLinked,
     TakenDown, InvJoined, ReportsComplete
<1> QED BY <1>1, <1>2, <1>3, <1>4 DEF Next, Progress, Ended

LEMMA ConnStep == ASSUME Inv, [Next]_vars PROVE ConnInv'
<1>1. ASSUME NEW s \in Sides, MainStep(s) PROVE ConnInv'
  <2>1. CASE TaskCreate(s) \/ GroupCreated(s) \/ WaitRunning(s)
    BY <2>1, TaskCreateConn, GroupCreatedConn, WaitRunningConn
  <2>2. CASE \/ CheckForking(s) \/ CondWait(s) \/ WaitReady(s) \/ WaitJoinable(s)
             \/ ProcessReport(s) \/ Join(s) \/ ThreadJoin(s)
    <3>1. UNCHANGED <<group, wpc, backlog, mate>>
      BY <2>2 DEF CheckForking, CondWait, WaitReady, WaitJoinable, ProcessReport, Join,
         ThreadJoin
    <3> QED BY <3>1, QuietConn
  <2> QED BY <1>1, <2>1, <2>2 DEF MainStep
<1>2. ASSUME NEW w \in Workers, WorkerStep(w) PROVE ConnInv'
  <2> USE DEF mainVars
  <2>0. /\ wpc[w] \in {"fork", "forked", "sigfork"} => mate[w] = NoMate
        /\ wpc[w] \in {"connected", "talk", "exit", "exiting"} => mate[w] # NoMate
    BY DEF Inv, ConnInv, InvMates
  <2>1. CASE Connect(w) \/ Accept(w)
    BY <2>1, ConnectConn, AcceptConn
  <2>2. CASE Fork(w)
    BY <2>0, <2>2, MoveConn DEF Fork
  <2>3. CASE ClearForking(w)
    BY <2>0, <2>3, MoveConn DEF ClearForking
  <2>4. CASE SignalFork(w)
    BY <2>0, <2>4, MoveConn DEF SignalFork
  <2>5. CASE RecvAccept(w)
    BY <2>5, MoveConn DEF RecvAccept
  <2>6. CASE RunningSet(w)
    BY <2>0, <2>6, MoveConn DEF RunningSet
  <2>7. CASE EndTalk(w)
    BY <2>0, <2>7, MoveConn DEF EndTalk
  <2>8. CASE TaskExit(w)
    BY <2>0, <2>8, MoveConn DEF TaskExit
  <2>9. CASE ThreadExit(w)
    BY <2>0, <2>9, MoveConn DEF ThreadExit
  <2> QED BY <1>2, <2>1, <2>2, <2>3, <2>4, <2>5, <2>6, <2>7, <2>8, <2>9 DEF WorkerStep
<1>3. ASSUME NEW s \in Sides, StartTalk(s) PROVE ConnInv'
  BY <1>3, StartTalkConn
<1>4. ASSUME UNCHANGED vars PROVE ConnInv'
  BY <1>4, QuietConn DEF vars
<1> QED BY <1>1, <1>2, <1>3, <1>4 DEF Next, Progress, Ended

(* Inv is an inductive invariant of the two processes. *)
THEOREM Invariance == Spec => []Inv
<1>1. Inv /\ [Next]_vars => Inv'
  BY LifeStep, ConnStep DEF Inv
<1> QED BY <1>1, InitInv, PTL DEF Spec

-----------------------------------------------------------------------------
(* The results. *)

(* The variables of the two processes keep their types, whatever the number of
   workers: main never creates more than config->worker_count of them.        *)
THEOREM TypeCorrect == Spec => []TypeOK
<1>1. Inv => TypeOK
  BY DEF Inv, LifeInv
<1> QED BY <1>1, Invariance, PTL

(* A straight worker is connected to a straight worker and a reverse worker to a
   reverse one, although net_listener_accept() takes whoever is next in the queue
   and the handshake does not say which kind the peer is.  It holds without the
   timing assumption Prompt.                                                  *)
THEOREM KindsAgree == Spec => []SameKind
<1>1. Inv => SameKind
  BY DEF Inv, ConnInv
<1> QED BY <1>1, Invariance, PTL

(* The assertions of current_join() hold and no context is freed under a worker
   that still uses it.                                                        *)
THEOREM JoinsSafely == Spec => []JoinSafe
<1>1. Inv => JoinSafe
  BY DEF Inv, LifeInv, InvJoined, InvLinked, JoinSafe
<1> QED BY <1>1, Invariance, PTL

(* process_report() runs when all the workers of its side have left the test. *)
THEOREM ReportsAfterTest == Spec => []ReportsComplete
<1>1. Inv => ReportsComplete
  BY DEF Inv, LifeInv
<1> QED BY <1>1, Invariance, PTL

=============================================================================
