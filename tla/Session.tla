------------------------------ MODULE Session ------------------------------
(* The life of the worker threads of the two processes, from runtime_do() of
   src/src/runtime.c to the last join: worker_task_create() and
   _worker_task_init() of src/src/worker.c, the contexts of src/src/current.c,
   connecting and accepting in src/src/net.c.  The test itself, once all the
   workers of a side have passed the first barrier, is Talk's subject and a
   single step here.

   Each process has a main thread and workers <<side, 1>> .. <<side, W>>, created
   in this order; the first StraightCount run process_run(0) and the others
   process_run(1).  Only main ever waits on worker_cond_global.               *)
EXTENDS Naturals, Sequences, FiniteSets

CONSTANTS
  W,               \* config->worker_count
  StraightCount,   \* config->worker_straight_first_count
  Async,           \* config->asynchronous
  Prompt           \* timing assumption: main gets to sleep before the worker it
                   \* waits for is connected, and sees the workers running
                   \* (it looks every 125 ms) before their test is over

ASSUME SessionAssumption ==
  /\ W \in Nat \ {0} /\ StraightCount \in 0 .. W
  /\ Async \in BOOLEAN /\ Prompt \in BOOLEAN
  /\ IF Async THEN W = 2 * StraightCount ELSE StraightCount \in {0, W}

VARIABLES
  mpc,        \* mpc[s]: where the main thread of side s is
  group,      \* group[s]: 1 while main starts straight workers, 2 afterwards
  created,    \* created[s]: workers created so far
  forking,    \* forking[s]: __worker_forking
  joined,     \* joined[s]: workers whose context main has taken down
  wpc,        \* wpc[w]: where worker w is
  flags,      \* flags[w]: worker_flags of its context
  busy,       \* busy[w]: w holds worker_mutex_local of its context
  linked,     \* the workers whose context is in the list of contexts
  backlog,    \* connectors waiting in the listener's accept queue
  mate        \* mate[w]: the remote worker w is connected to

vars == <<mpc, group, created, forking, joined, wpc, flags, busy, linked, backlog, mate>>
mainVars == <<mpc, group, created, forking, joined>>

Sides == {"listener", "connector"}
Workers == Sides \X (1 .. W)
NoMate == <<"nobody", 0>>

(* The kind of worker: it starts with the straight or with the reverse test. *)
Straight(w) == w[2] <= StraightCount

Goto(w, label) == wpc' = [wpc EXCEPT ![w] = label]
MainGoto(s, label) == mpc' = [mpc EXCEPT ![s] = label]

(* worker_cond_signal(worker_cond_global): wakes main out of the untimed wait of
   worker_task_create(); otherwise it has no effect, for nobody waits or main
   looks again after 125 ms anyway.                                           *)
Signal(s) == mpc' = [mpc EXCEPT ![s] = IF @ = "asleep" THEN "check" ELSE @]

Init == /\ mpc = [s \in Sides |-> "create"]
        /\ group = [s \in Sides |-> 1]
        /\ created = [s \in Sides |-> 0]
        /\ forking = [s \in Sides |-> 0]
        /\ joined = [s \in Sides |-> 0]
        /\ wpc = [w \in Workers |-> "none"]
        /\ flags = [w \in Workers |-> {}]
        /\ busy = [w \in Workers |-> FALSE]
        /\ linked = {}
        /\ backlog = <<>>
        /\ mate = [w \in Workers |-> NoMate]

-----------------------------------------------------------------------------
(* The main thread. *)

(* Workers that exist when the loop of the current group is over. *)
GroupEnd(s) == IF group[s] = 1 THEN StraightCount ELSE W

(* Mutation: one worker too many. *)
TaskCreateMore(s) ==
  /\ mpc[s] = "create" /\ created[s] <= GroupEnd(s)
  /\ forking' = [forking EXCEPT ![s] = 1]
  /\ created' = [created EXCEPT ![s] = @ + 1]
  /\ Goto(<<s, created[s] + 1>>, "fork")
  /\ MainGoto(s, "check")
  /\ UNCHANGED <<group, joined, flags, busy, linked, backlog, mate>>

(* worker_task_create(): announce the fork and start the thread. *)
TaskCreate(s) ==
  /\ mpc[s] = "create" /\ created[s] < GroupEnd(s)
  /\ forking' = [forking EXCEPT ![s] = 1]
  /\ created' = [created EXCEPT ![s] = @ + 1]
  /\ Goto(<<s, created[s] + 1>>, "fork")
  /\ MainGoto(s, "check")
  /\ UNCHANGED <<group, joined, flags, busy, linked, backlog, mate>>

(* ... then look at the forking flag, with a mutex that the worker does not take, *)
CheckForking(s) == /\ mpc[s] = "check"
                   /\ MainGoto(s, IF forking[s] = 1 THEN "park" ELSE "create")
                   /\ UNCHANGED <<group, created, forking, joined, wpc, flags, busy,
                                  linked, backlog, mate>>

(* ... and wait on the condition variable. *)
CondWait(s) == /\ mpc[s] = "park"
               /\ MainGoto(s, "asleep")
               /\ UNCHANGED <<group, created, forking, joined, wpc, flags, busy,
                              linked, backlog, mate>>

(* The end of a creation loop; a group without workers is not waited for. *)
GroupCreated(s) ==
  /\ mpc[s] = "create" /\ created[s] = GroupEnd(s)
  /\ LET empty == IF group[s] = 1 THEN StraightCount = 0 ELSE StraightCount = W
     IN  /\ MainGoto(s, IF ~empty THEN "ready"
                        ELSE IF group[s] = 1 THEN "create" ELSE "joinable")
         /\ group' = [group EXCEPT ![s] = IF empty THEN 2 ELSE @]
  /\ UNCHANGED <<created, forking, joined, wpc, flags, busy, linked, backlog, mate>>

(* current_children_has_flag() *)
HasFlag(s, flag, n) ==
  Cardinality({w \in linked : w[1] = s /\ flag \in flags[w]}) >= n

(* How many workers runtime_do() waits for after the current group. *)
Expected(s) == IF group[s] = 1 /\ Async THEN W \div 2 ELSE W

(* Mutation: the second group is started once the first is ready. *)
WaitReadyOnly(s) ==
  /\ mpc[s] = "ready" /\ HasFlag(s, "READY", Expected(s))
  /\ MainGoto(s, IF group[s] = 1 THEN "create" ELSE "running")
  /\ group' = [group EXCEPT ![s] = 2]
  /\ UNCHANGED <<created, forking, joined, wpc, flags, busy, linked, backlog, mate>>

(* _runtime_wait_worker_flag(), which looks again every 125 ms: for READY ... *)
WaitReady(s) == /\ mpc[s] = "ready" /\ HasFlag(s, "READY", Expected(s))
                /\ MainGoto(s, "running")
                /\ UNCHANGED <<group, created, forking, joined, wpc, flags, busy,
                               linked, backlog, mate>>

(* ... for RUNNING, after which the other group is started ... *)
WaitRunning(s) ==
  /\ mpc[s] = "running" /\ HasFlag(s, "RUNNING", Expected(s))
  /\ MainGoto(s, IF group[s] = 1 THEN "create" ELSE "joinable")
  /\ group' = [group EXCEPT ![s] = 2]
  /\ UNCHANGED <<created, forking, joined, wpc, flags, busy, linked, backlog, mate>>

(* Mutation: main reports once half of the workers are joinable. *)
WaitJoinableHalf(s) ==
  /\ mpc[s] = "joinable" /\ HasFlag(s, "JOINABLE", W \div 2)
  /\ MainGoto(s, "report")
  /\ UNCHANGED <<group, created, forking, joined, wpc, flags, busy, linked, backlog, mate>>

(* ... and for JOINABLE, after which process_report() combines the results of
   all the contexts.                                                          *)
WaitJoinable(s) == /\ mpc[s] = "joinable" /\ HasFlag(s, "JOINABLE", W)
                   /\ MainGoto(s, "report")
                   /\ UNCHANGED <<group, created, forking, joined, wpc, flags, busy,
                                  linked, backlog, mate>>

ProcessReport(s) == /\ mpc[s] = "report"
                    /\ MainGoto(s, "join")
                    /\ UNCHANGED <<group, created, forking, joined, wpc, flags, busy,
                                   linked, backlog, mate>>

(* Mutation: the context is taken down without its mutex. *)
JoinNoLock(s) == LET w == <<s, joined[s] + 1>> IN
  /\ mpc[s] = "join" /\ joined[s] < W /\ w \in linked
  /\ IF "RUNNING" \notin flags[w] /\ "JOINABLE" \in flags[w]
     THEN MainGoto(s, "pjoin") /\ linked' = linked \ {w}
     ELSE MainGoto(s, "aborted") /\ UNCHANGED linked
  /\ UNCHANGED <<group, created, forking, joined, wpc, flags, busy, backlog, mate>>

(* current_join(): take the local mutex, which the worker may still hold, check
   the flags, unlink the context and free it.                                 *)
Join(s) == LET w == <<s, joined[s] + 1>> IN
  /\ mpc[s] = "join" /\ joined[s] < W
  /\ w \in linked /\ ~busy[w]
  /\ IF "RUNNING" \notin flags[w] /\ "JOINABLE" \in flags[w]
     THEN MainGoto(s, "pjoin") /\ linked' = linked \ {w}
     ELSE MainGoto(s, "aborted") /\ UNCHANGED linked
  /\ UNCHANGED <<group, created, forking, joined, wpc, flags, busy, backlog, mate>>

(* pthread_join() of the same worker. *)
ThreadJoin(s) == /\ mpc[s] = "pjoin" /\ wpc[<<s, joined[s] + 1>>] = "gone"
                 /\ joined' = [joined EXCEPT ![s] = @ + 1]
                 /\ MainGoto(s, IF joined[s] + 1 = W THEN "done" ELSE "join")
                 /\ UNCHANGED <<group, created, forking, wpc, flags, busy, linked,
                                backlog, mate>>

-----------------------------------------------------------------------------
(* A worker thread. *)

(* current_fork(): a context of its own, marked READY, linked into the list. *)
Fork(w) == /\ wpc[w] = "fork"
           /\ flags' = [flags EXCEPT ![w] = {"CHILD", "READY"}]
           /\ linked' = linked \cup {w}
           /\ Goto(w, "forked")
           /\ UNCHANGED <<mainVars, busy, backlog, mate>>

(* The fork is over ... *)
ClearForking(w) == /\ wpc[w] = "forked"
                   /\ forking' = [forking EXCEPT ![w[1]] = 0]
                   /\ Goto(w, "sigfork")
                   /\ UNCHANGED <<mpc, group, created, joined, flags, busy, linked,
                                  backlog, mate>>

(* ... and main is told, without its mutex. *)
SignalFork(w) == /\ wpc[w] = "sigfork"
                 /\ Signal(w[1])
                 /\ Goto(w, IF w[1] = "connector" THEN "connect" ELSE "accept")
                 /\ UNCHANGED <<group, created, forking, joined, flags, busy, linked,
                                backlog, mate>>

(* net_connector_connect(): connect, send the configuration ... *)
Connect(w) == /\ wpc[w] = "connect"
              /\ backlog' = Append(backlog, w)
              /\ Goto(w, "reply")
              /\ UNCHANGED <<mainVars, flags, busy, linked, mate>>

(* ... and wait for the answer of the worker that accepts. *)
RecvAccept(w) == /\ wpc[w] = "reply" /\ mate[w] # NoMate
                 /\ Goto(w, "connected")
                 /\ UNCHANGED <<mainVars, flags, busy, linked, backlog, mate>>

(* net_listener_accept(): whichever worker is waiting gets the next connection
   of the queue.                                                              *)
Accept(w) == /\ wpc[w] = "accept" /\ backlog # <<>>
             /\ mate' = [mate EXCEPT ![w] = Head(backlog), ![Head(backlog)] = w]
             /\ backlog' = Tail(backlog)
             /\ Goto(w, "connected")
             /\ UNCHANGED <<mainVars, flags, busy, linked>>

(* Mutation: main is not told that the worker is running. *)
RunningSetSilent(w) == /\ wpc[w] = "connected"
                       /\ Prompt => mpc[w[1]] # "park"
                       /\ flags' = [flags EXCEPT ![w] = @ \cup {"RUNNING"}]
                       /\ Goto(w, "barrier")
                       /\ UNCHANGED <<mainVars, busy, linked, backlog, mate>>

(* current_running_set(): set the flag and signal. *)
RunningSet(w) == /\ wpc[w] = "connected"
                 /\ Prompt => mpc[w[1]] # "park"
                 /\ flags' = [flags EXCEPT ![w] = @ \cup {"RUNNING"}]
                 /\ Signal(w[1])
                 /\ Goto(w, "barrier")
                 /\ UNCHANGED <<group, created, forking, joined, busy, linked, backlog,
                                mate>>

(* The first barrier of the test is for all the workers of the side. *)
StartTalk(s) ==
  /\ \A j \in 1 .. W : wpc[<<s, j>>] = "barrier"
  /\ wpc' = [w \in Workers |-> IF w[1] = s THEN "talk" ELSE wpc[w]]
  /\ UNCHANGED <<mainVars, flags, busy, linked, backlog, mate>>

(* The test of w is over, for which all the workers of both sides had to be in
   it (see Talk), and current_running_unset() clears the flag and signals.    *)
EndTalk(w) ==
  /\ wpc[w] = "talk"
  /\ \A u \in Workers : wpc[u] \in {"talk", "exit", "exiting", "gone"}
  /\ Prompt => mpc[w[1]] = "joinable"
  /\ flags' = [flags EXCEPT ![w] = @ \ {"RUNNING"}]
  /\ Signal(w[1])
  /\ Goto(w, "exit")
  /\ UNCHANGED <<group, created, forking, joined, busy, linked, backlog, mate>>

(* current_exit(): become joinable and signal, holding the local mutex, ... *)
TaskExit(w) == /\ wpc[w] = "exit"
               /\ flags' = [flags EXCEPT ![w] = (@ \ {"RUNNING"}) \cup {"JOINABLE"}]
               /\ busy' = [busy EXCEPT ![w] = TRUE]
               /\ Signal(w[1])
               /\ Goto(w, "exiting")
               /\ UNCHANGED <<group, created, forking, joined, linked, backlog, mate>>

(* ... release it, and end the thread. *)
ThreadExit(w) == /\ wpc[w] = "exiting"
                 /\ busy' = [busy EXCEPT ![w] = FALSE]
                 /\ Goto(w, "gone")
                 /\ UNCHANGED <<mainVars, flags, linked, backlog, mate>>

-----------------------------------------------------------------------------
MainStep(s) == \/ TaskCreate(s) \/ CheckForking(s) \/ CondWait(s) \/ GroupCreated(s)
               \/ WaitReady(s) \/ WaitRunning(s) \/ WaitJoinable(s)
               \/ ProcessReport(s) \/ Join(s) \/ ThreadJoin(s)

WorkerStep(w) == \/ Fork(w) \/ ClearForking(w) \/ SignalFork(w) \/ Connect(w)
                 \/ RecvAccept(w) \/ Accept(w) \/ RunningSet(w)
                 \/ EndTalk(w) \/ TaskExit(w) \/ ThreadExit(w)

(* Both processes have ended. *)
Ended == (\A s \in Sides : mpc[s] = "done") /\ UNCHANGED vars

Progress == \/ \E s \in Sides : MainStep(s) \/ StartTalk(s)
            \/ \E w \in Workers : WorkerStep(w)

Next == Progress \/ Ended

Spec == Init /\ [][Next]_vars

(* The operating systems run a thread as long as there is one that can run. *)
FairSpec == Spec /\ WF_vars(Progress)

-----------------------------------------------------------------------------
(* Properties. *)

TypeOK ==
  /\ mpc \in [Sides -> {"create", "check", "park", "asleep", "ready", "running",
                        "joinable", "report", "join", "pjoin", "done", "aborted"}]
  /\ group \in [Sides -> {1, 2}]
  /\ created \in [Sides -> 0 .. W] /\ joined \in [Sides -> 0 .. W]
  /\ forking \in [Sides -> {0, 1}]
  /\ wpc \in [Workers -> {"none", "fork", "forked", "sigfork", "connect", "reply",
                          "accept", "connected", "barrier", "talk",
                          "exit", "exiting", "gone"}]
  /\ flags \in [Workers -> SUBSET {"CHILD", "READY", "RUNNING", "JOINABLE"}]
  /\ busy \in [Workers -> BOOLEAN]
  /\ linked \subseteq Workers
  /\ backlog \in Seq(Workers)
  /\ mate \in [Workers -> Workers \cup {NoMate}]

(* A connection joins two workers that test in the same direction.  Nothing in
   the connection handshake (conn.c) says which kind the peer is: only the order
   in which runtime_do() starts the two groups keeps a straight worker from
   being accepted by a reverse one.                                           *)
SameKind == \A w \in Workers : mate[w] # NoMate => Straight(w) = Straight(mate[w])

(* The assertions of current_join() hold (lines 257-258), and a context is freed
   only when its worker, which makes itself joinable before it lets go of the
   mutex in that context, does not use it any more.                           *)
JoinSafe == /\ \A s \in Sides : mpc[s] # "aborted"
            /\ \A w \in Workers : w \notin linked => wpc[w] \in {"none", "fork", "gone"}

(* While main combines the results of all the workers, none of them is still in
   its test.                                                                  *)
ReportsComplete ==
  \A s \in Sides : mpc[s] \in {"report", "join", "pjoin", "done"} =>
    \A j \in 1 .. W : wpc[<<s, j>>] \in {"exiting", "gone"}

(* Both processes create all their workers, run the test and join them: what the
   tests expect of every test run (tests/libtest.in runs a listener and a
   connector and waits for the connector to end).                             *)
Completes == <>(\A s \in Sides : mpc[s] = "done")
=============================================================================
