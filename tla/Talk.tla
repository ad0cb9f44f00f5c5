------------------------------- MODULE Talk -------------------------------
(* One bandwidth test between two processes, the listener and the connector:
   talk_sender() and talk_receiver() of src/src/talk.c, run by one worker
   thread per connection on each side in the order that src/src/process.c
   gives them, over the read and write loops of src/src/net.c, for TCP and for
   UDP.

   A worker is a pair <<side, conn>>; the two workers of a connection talk to
   each other, the workers of a side share the talk context (__talk, which both
   directions share in part) and meet at the side's barriers.  The direction of
   a talk is 0 (straight: the connector sends) or 1 (reverse: the listener
   sends); current->process.reverse is that number.

   Abstractions.  Time is not modelled: whether a stream was weak, i.e. shorter
   than talk_stream_minimum_time, is a choice of the environment, possible below
   WeakLimit packets; the factor computed from weak_time is a choice among
   Muls (module Recount has the arithmetic).  Latency, stage display and
   debugging output are left out.  A packet on the wire is a header unit and,
   except in the handshake, a body unit.  TCP delivers units; UDP delivers, or
   loses or duplicates, whole packets.                                        *)
EXTENDS Naturals, Sequences, FiniteSets

CONSTANTS
  Conns,           \* the connections; one worker each on either side
  ReverseConns,    \* those whose worker runs process_run(1), the rest run
                   \* process_run(0): the reverse-first and straight-first workers
  Async,           \* config->asynchronous
  Bidirectional,   \* config->bidirectional
  HandshakeIter,   \* config->talk_handshake_iter
  CountDefault,    \* config->talk_count_default
  CountMax,        \* config->talk_count_max
  Muls,            \* the factors by which a recount may multiply the count
  WeakLimit,       \* streams of this many packets take long enough on this link
  Udp,             \* config->net_l4_proto_value is UDP, not TCP
  MaxTimeouts,     \* bound: receive timeouts in a behaviour
  MaxLosses,       \* bound: datagrams lost or duplicated in a behaviour
  Crashes          \* whether a process may be killed

ASSUME TalkAssumption ==
  /\ IsFiniteSet(Conns) /\ Conns # {} /\ ReverseConns \subseteq Conns
  /\ Async \in BOOLEAN /\ Bidirectional \in BOOLEAN /\ Crashes \in BOOLEAN
  /\ Async => Bidirectional /\ 2 * Cardinality(ReverseConns) = Cardinality(Conns)
  /\ ~Async => ReverseConns \in {{}, Conns}
  /\ Udp \in BOOLEAN /\ (Udp => ~Async /\ Cardinality(Conns) = 1)
  /\ HandshakeIter \in Nat \ {0} /\ CountDefault \in Nat \ {0}
  /\ CountMax \in Nat /\ CountDefault < CountMax
  /\ Muls \subseteq Nat \ {0, 1} /\ Muls # {}
  /\ WeakLimit \in Nat /\ MaxTimeouts \in Nat /\ MaxLosses \in Nat

VARIABLES
  alive,     \* alive[s]: what became of the process of side s
  pc,        \* pc[w]: where worker w is
  loc,       \* loc[w]: its local variables (see LocalType)
  report,    \* report[w][d]: collected result of direction d in w's context
  weak,      \* weak[s]: __talk_weak, shared by both directions
  imWeak,    \* imWeak[s][d]: __talk[d].im_weak
  cnt,       \* cnt[s][d]: __talk[d].count
  chan,      \* chan[w]: segments sent to w that w has not read
  timeouts,  \* receive timeouts so far
  losses     \* datagrams lost or duplicated so far

shared == <<weak, imWeak, cnt>>
faults == <<timeouts, losses>>
vars == <<alive, pc, loc, report, shared, chan, faults>>

Sides == {"listener", "connector"}
Dirs == {0, 1}
Workers == Sides \X Conns

workerCount == Cardinality(Conns)

Other(s) == CHOOSE o \in Sides : o # s
Peer(w) == <<Other(w[1]), w[2]>>

(* A synchronous bidirectional test is two talks on the same connection, the
   second in the opposite direction; every other test is one talk.            *)
Phases == IF Bidirectional /\ ~Async THEN 2 ELSE 1

(* process.reverse of worker w in its current talk. *)
Dir(w) == IF (w[2] \in ReverseConns) = (loc[w].phase = 1) THEN 1 ELSE 0

(* process.im_sender of worker w in its current talk. *)
Sender(w) == (w[1] = "connector") = (Dir(w) = 0)

-----------------------------------------------------------------------------
(* The wire. *)

NoReport == [count |-> 0, recv |-> 0]

Unit(op, n, r) == [op |-> op, n |-> n, report |-> r]

(* The labels at which current->stage is RUNTIME_TALK_HANDSHAKE. *)
HandshakeLabels == {"b_init", "ping", "pong", "hs", "b_count1", "setcount", "b_count2"}

(* Units that _talk_send() writes and _talk_recv() reads in w's stage: only the
   header in the handshake, the whole payload afterwards.                     *)
UnitsOf(w) == IF pc[w] \in HandshakeLabels THEN 1 ELSE 2

(* What _talk_send() hands to the write loop, and what that puts on the wire: a
   segment is a sequence of units that are received together, a whole datagram
   or, since TCP keeps no boundaries, a single unit.                          *)
Packet(w, op, n, r) == SubSeq(<<Unit(op, n, NoReport), Unit("body", 0, r)>>, 1, UnitsOf(w))
Segments(pkt) == IF Udp THEN <<pkt>> ELSE [i \in DOMAIN pkt |-> <<pkt[i]>>]

(* The number of segments that the read loop takes for a packet of w.  A
   datagram that is longer than asked for is cut off; to one that is shorter
   the loop appends the next, and a header is so much shorter than a payload
   that it goes on until a long one comes.                                    *)
Needed(w) ==
  IF Udp /\ UnitsOf(w) = 2
  THEN LET long == {i \in DOMAIN chan[w] : Len(chan[w][i]) = 2} IN
       IF long = {} THEN Len(chan[w]) + 1
                    ELSE CHOOSE i \in long : \A j \in long : i <= j
  ELSE UnitsOf(w)

(* net_read_from_*(): blocks until everything asked for is there. *)
Readable(w) == Len(chan[w]) >= Needed(w)

Drop(ch, w, k) == [ch EXCEPT ![w] = SubSeq(@, k + 1, Len(@))]
Put(ch, w, pkt) == [ch EXCEPT ![Peer(w)] = @ \o Segments(pkt)]

Send(w, op, n, r) == chan' = Put(chan, w, Packet(w, op, n, r))

(* The header that _talk_recv() returns to w, the body of a long packet, and
   whether it is the abort that forces the receive to fail.                   *)
Got(w) == chan[w][1][1]
GotBody(w) == IF Len(chan[w][1]) = 2 THEN chan[w][1][2] ELSE chan[w][2][1]
Aborted(w) == Got(w).op = "FAIL"

Consume(w) == chan' = Drop(chan, w, Needed(w))

-----------------------------------------------------------------------------
(* Control. *)

Running(s) == alive[s] = "running"
At(w, label) == Running(w[1]) /\ pc[w] = label
Goto(w, label) == pc' = [pc EXCEPT ![w] = label]

(* error_handler(FATAL) or a failed assertion: the process is gone. *)
Exit(w) == /\ alive' = [alive EXCEPT ![w[1]] = "failed"]
           /\ UNCHANGED <<pc, loc, report, shared, faults>>

(* A failed step of the talk: _talk_send_abort(), then exit.  ch is the wire
   after what the failed step read.                                           *)
Fail(w, ch) == chan' = Put(ch, w, Packet(w, "FAIL", 0, NoReport)) /\ Exit(w)

FailReceived(w) == Fail(w, Drop(chan, w, Needed(w)))

(* Mutation: one talk too many. *)
EndTalkTwice(w) ==
  IF loc[w].phase <= Phases
  THEN /\ loc' = [loc EXCEPT ![w].phase = @ + 1, ![w].i = 0, ![w].round = 0]
       /\ Goto(w, "b_init")
  ELSE UNCHANGED loc /\ Goto(w, "done")

(* The end of a talk: the next one, or the end of the worker. *)
EndTalk(w) ==
  IF loc[w].phase < Phases
  THEN /\ loc' = [loc EXCEPT ![w].phase = @ + 1, ![w].i = 0, ![w].round = 0]
       /\ Goto(w, "b_init")
  ELSE UNCHANGED loc /\ Goto(w, "done")

-----------------------------------------------------------------------------
(* The barriers of a side: 0 and 1 for the workers of a direction, 2 for all
   the workers of an asynchronous test.                                       *)

(* The barriers that span both directions of an asynchronous test. *)
GlobalLabels == {"b_init", "b_reset", "b_start", "b_end2", "b_mark", "b_ret"}
DirLabels == {"b_count1", "b_count2", "b_end", "b_re1", "b_re2"}

(* Mutation: the directions of an asynchronous test are never synchronised. *)
GlobalBarrierDir(w) == Dir(w)

GlobalBarrier(w) == IF Async THEN 2 ELSE Dir(w)
BarrierOf(w) == IF pc[w] \in GlobalLabels THEN GlobalBarrier(w) ELSE Dir(w)

(* Mutation: the barriers of a synchronous test are initialised for half of the
   workers.                                                                   *)
BarrierSizeHalf(b) == (workerCount + 1) \div 2

(* worker_init(): the number of threads each barrier is initialised for. *)
BarrierSize(b) ==
  LET first == CASE b = 0 -> Conns \ ReverseConns
                 [] b = 1 -> ReverseConns
                 [] b = 2 -> {}
  IN  IF first # {} THEN Cardinality(first) ELSE workerCount

WaitingAt(s, b) == {w \in Workers : /\ w[1] = s
                                    /\ pc[w] \in GlobalLabels \cup DirLabels
                                    /\ BarrierOf(w) = b}

(* Mutations: a worker does not wait at the second barrier after the count was
   set, or raised.                                                            *)
AfterBarrierNoSetSync(w, serial) ==
  CASE pc[w] = "b_init"   -> IF Sender(w) THEN "ping" ELSE "hs"
    [] pc[w] = "b_count1" -> IF serial THEN "setcount" ELSE "neg"
    [] pc[w] = "b_re1"    -> IF serial THEN "recount" ELSE "b_re2"
    [] OTHER -> [b_count2 |-> "neg", b_reset |-> "reset", b_start |-> "run",
                 b_end |-> IF Async THEN "b_end2" ELSE "end", b_end2 |-> "end",
                 b_mark |-> "mark", b_ret |-> "ret", b_re2 |-> "neg"][pc[w]]

AfterBarrierNoRecountSync(w, serial) ==
  CASE pc[w] = "b_init"   -> IF Sender(w) THEN "ping" ELSE "hs"
    [] pc[w] = "b_count1" -> IF serial THEN "setcount" ELSE "b_count2"
    [] pc[w] = "b_re1"    -> IF serial THEN "recount" ELSE "neg"
    [] OTHER -> [b_count2 |-> "neg", b_reset |-> "reset", b_start |-> "run",
                 b_end |-> IF Async THEN "b_end2" ELSE "end", b_end2 |-> "end",
                 b_mark |-> "mark", b_ret |-> "ret", b_re2 |-> "neg"][pc[w]]

(* Where w continues when the barrier lets it go; serial says whether
   worker_barrier_wait() returned true to w.                                  *)
AfterBarrier(w, serial) ==
  CASE pc[w] = "b_init"   -> IF Sender(w) THEN "ping" ELSE "hs"
    [] pc[w] = "b_count1" -> IF serial THEN "setcount" ELSE "b_count2"
    [] pc[w] = "b_count2" -> "neg"
    [] pc[w] = "b_reset"  -> "reset"
    [] pc[w] = "b_start"  -> "run"
    [] pc[w] = "b_end"    -> IF Async THEN "b_end2" ELSE "end"
    [] pc[w] = "b_end2"   -> "end"
    [] pc[w] = "b_mark"   -> "mark"
    [] pc[w] = "b_ret"    -> "ret"
    [] pc[w] = "b_re1"    -> IF serial THEN "recount" ELSE "b_re2"
    [] pc[w] = "b_re2"    -> "neg"

(* worker_barrier_wait() lets everybody go once the last has come (see
   WorkerBarrier for the promise).                                            *)
BarrierWait(s, b) ==
  /\ Running(s)
  /\ Cardinality(WaitingAt(s, b)) = BarrierSize(b)
  /\ \E serial \in WaitingAt(s, b) :
       pc' = [w \in Workers |-> IF w \in WaitingAt(s, b)
                                THEN AfterBarrier(w, w = serial) ELSE pc[w]]
  /\ UNCHANGED <<alive, loc, report, shared, chan, faults>>

-----------------------------------------------------------------------------
(* The steps of a worker. *)

(* talk_init(): clear the talk contexts of both directions (every worker does
   it, when it starts); the connection is then established.                   *)
TalkInit(w) ==
  /\ At(w, "init")
  /\ imWeak' = [imWeak EXCEPT ![w[1]] = [d \in Dirs |-> 0]]
  /\ cnt' = [cnt EXCEPT ![w[1]] = [d \in Dirs |-> 0]]
  /\ Goto(w, "b_init")
  /\ UNCHANGED <<alive, loc, report, weak, chan, faults>>

(* _talk_sender_handshake(): send PING ... *)
SendPing(w) == /\ At(w, "ping")
               /\ Send(w, "PING", HandshakeIter, NoReport)
               /\ Goto(w, "pong")
               /\ UNCHANGED <<alive, loc, report, shared, faults>>

(* ... and wait for PONG.  Only the count of the answer is checked. *)
RecvPong(w) ==
  /\ At(w, "pong") /\ Readable(w)
  /\ IF Aborted(w) \/ Got(w).n # HandshakeIter
     THEN FailReceived(w)
     ELSE LET more == loc[w].i + 1 < HandshakeIter IN
          /\ Consume(w)
          /\ loc' = [loc EXCEPT ![w].i = IF more THEN @ + 1 ELSE 0]
          /\ Goto(w, IF more THEN "ping" ELSE "b_count1")
          /\ UNCHANGED <<alive, report, shared, faults>>

(* _talk_receiver_handshake(): wait for PING, answer PONG. *)
Handshake(w) ==
  /\ At(w, "hs") /\ Readable(w)
  /\ IF Got(w).op # "PING" \/ Got(w).n # HandshakeIter
     THEN FailReceived(w)
     ELSE LET more == loc[w].i + 1 < HandshakeIter IN
          /\ chan' = Put(Drop(chan, w, Needed(w)), w,
                         Packet(w, "PONG", HandshakeIter, NoReport))
          /\ loc' = [loc EXCEPT ![w].i = IF more THEN @ + 1 ELSE 0]
          /\ Goto(w, IF more THEN "hs" ELSE "neg")
          /\ UNCHANGED <<alive, report, shared, faults>>

(* The sender that the barrier singled out sets the count of its direction. *)
SetCount(w) == /\ At(w, "setcount")
               /\ cnt' = [cnt EXCEPT ![w[1]][Dir(w)] = CountDefault]
               /\ Goto(w, "b_count2")
               /\ UNCHANGED <<alive, loc, report, weak, imWeak, chan, faults>>

(* The assertions on the count before the first and before a later round. *)
CountAsserted(w) == LET c == cnt[w[1]][Dir(w)] IN
  IF loc[w].round = 0 THEN c > 0 ELSE CountDefault <= c /\ c <= CountMax

(* The sender negotiates the count it finds in the talk context and goes on to
   _talk_sender_stream() with it.                                             *)
SenderNegotiate(w) ==
  /\ At(w, "neg") /\ Sender(w)
  /\ IF ~CountAsserted(w)
     THEN Exit(w) /\ UNCHANGED chan
     ELSE LET c == cnt[w[1]][Dir(w)] IN
          /\ Send(w, "COUNT", c, NoReport)
          /\ loc' = [loc EXCEPT ![w].n = c, ![w].round = @ + 1]
          /\ report' = [report EXCEPT ![w][Dir(w)].count = c]
          /\ Goto(w, "start")
          /\ UNCHANGED <<alive, shared, faults>>

(* The receiver refuses a count that is not below the maximum. *)
ReceiverNegotiate(w) ==
  /\ At(w, "neg") /\ ~Sender(w) /\ Readable(w)
  /\ IF Got(w).op # "COUNT" \/ Got(w).n >= CountMax
     THEN FailReceived(w)
     ELSE /\ Consume(w)
          /\ loc' = [loc EXCEPT ![w].n = Got(w).n, ![w].round = @ + 1]
          /\ report' = [report EXCEPT ![w][Dir(w)].count = Got(w).n]
          /\ Goto(w, "start")
          /\ UNCHANGED <<alive, shared, faults>>

(* The receiver announces that it is ready ... *)
SendStart(w) == /\ At(w, "start") /\ ~Sender(w)
                /\ Send(w, "START", loc[w].n, NoReport)
                /\ Goto(w, "b_reset")
                /\ UNCHANGED <<alive, loc, report, shared, faults>>

(* ... which the sender waits for. *)
RecvStart(w) ==
  /\ At(w, "start") /\ Sender(w) /\ Readable(w)
  /\ IF Got(w).op # "START"
     THEN FailReceived(w)
     ELSE /\ Consume(w)
          /\ Goto(w, "b_reset")
          /\ UNCHANGED <<alive, loc, report, shared, faults>>

(* Mutation: only the count that both directions share is cleared. *)
ResetSharedOnly(w) == /\ At(w, "reset")
                      /\ weak' = [weak EXCEPT ![w[1]] = 0]
                      /\ Goto(w, "b_start")
                      /\ UNCHANGED <<alive, loc, report, imWeak, cnt, chan, faults>>

(* Between two barriers every worker clears the marks of its direction, and
   the weak count that both directions share.                                 *)
Reset(w) == /\ At(w, "reset")
            /\ weak' = [weak EXCEPT ![w[1]] = 0]
            /\ imWeak' = [imWeak EXCEPT ![w[1]][Dir(w)] = 0]
            /\ Goto(w, "b_start")
            /\ UNCHANGED <<alive, loc, report, cnt, chan, faults>>

(* The stream: the sender writes n packets ... *)
SendRun(w) ==
  /\ At(w, "run") /\ Sender(w)
  /\ IF loc[w].i < loc[w].n
     THEN /\ Send(w, "RUN", loc[w].i, NoReport)
          /\ loc' = [loc EXCEPT ![w].i = @ + 1]
          /\ UNCHANGED pc
     ELSE UNCHANGED <<chan, loc>> /\ Goto(w, "b_end")
  /\ UNCHANGED <<alive, report, shared, faults>>

(* ... and the receiver reads n packets, whatever they say.  An abort ends the
   process at once, with no abort of its own.                                 *)
RecvRun(w) ==
  /\ At(w, "run") /\ ~Sender(w)
  /\ \/ /\ loc[w].i < loc[w].n /\ Readable(w) /\ Aborted(w)
        /\ Consume(w) /\ Exit(w)
     \/ /\ loc[w].i < loc[w].n /\ Readable(w) /\ ~Aborted(w)
        /\ Consume(w)
        /\ loc' = [loc EXCEPT ![w].i = @ + 1]
        /\ UNCHANGED <<alive, pc, report, shared, faults>>
     \/ /\ loc[w].i >= loc[w].n
        /\ Goto(w, "b_end")
        /\ UNCHANGED <<alive, loc, report, shared, chan, faults>>

(* The receiver stores what it got and ends the stream, telling the sender
   whether it was weak.  A stream cut short by a timeout may be weak whatever
   its count: the timeout is subtracted from its duration.                    *)
SendEnd(w) ==
  /\ At(w, "end") /\ ~Sender(w)
  /\ \E wk \in {b \in BOOLEAN : b => loc[w].n < WeakLimit \/ loc[w].i < loc[w].n} :
       /\ Send(w, IF wk THEN "ENDWEAK" ELSE "END", 0, NoReport)
       /\ loc' = [loc EXCEPT ![w].weak = wk, ![w].i = 0]
  /\ report' = [report EXCEPT ![w][Dir(w)].recv = loc[w].i]
  /\ Goto(w, "b_mark")
  /\ UNCHANGED <<alive, shared, faults>>

(* The sender waits for the end of the stream. *)
RecvEnd(w) ==
  /\ At(w, "end") /\ Sender(w) /\ Readable(w)
  /\ IF Got(w).op \notin {"END", "ENDWEAK"}
     THEN FailReceived(w)
     ELSE /\ Consume(w)
          /\ loc' = [loc EXCEPT ![w].weak = (Got(w).op = "ENDWEAK"), ![w].i = 0]
          /\ Goto(w, "b_mark")
          /\ UNCHANGED <<alive, report, shared, faults>>

(* Mutation: the marks are read before everybody has made its mark. *)
MarkNoSync(w) ==
  /\ At(w, "mark")
  /\ IF loc[w].weak
     THEN /\ weak' = [weak EXCEPT ![w[1]] = @ + 1]
          /\ imWeak' = [imWeak EXCEPT ![w[1]][Dir(w)] = @ + 1]
     ELSE UNCHANGED <<weak, imWeak>>
  /\ Goto(w, "ret")
  /\ UNCHANGED <<alive, loc, report, cnt, chan, faults>>

(* Between two barriers a worker whose stream was weak counts it. *)
Mark(w) ==
  /\ At(w, "mark")
  /\ IF loc[w].weak
     THEN /\ weak' = [weak EXCEPT ![w[1]] = @ + 1]
          /\ imWeak' = [imWeak EXCEPT ![w[1]][Dir(w)] = @ + 1]
     ELSE UNCHANGED <<weak, imWeak>>
  /\ Goto(w, "b_ret")
  /\ UNCHANGED <<alive, loc, report, cnt, chan, faults>>

(* The stream function returns whether any stream of the side was weak; the
   marks are read without the mutex.                                          *)
Return(w) == /\ At(w, "ret")
             /\ Goto(w, IF weak[w[1]] > 0 THEN "decide" ELSE "report")
             /\ UNCHANGED <<alive, loc, report, shared, chan, faults>>

(* Mutation: each side looks at the marks of its own direction only. *)
NeedsRestartOwn(w) == imWeak[w[1]][Dir(w)] = workerCount \div (IF Async THEN 2 ELSE 1)

(* _talk_weak_stream_needs_restart(): all the streams of a direction are weak. *)
NeedsRestart(w) ==
  IF Async THEN \E d \in Dirs : imWeak[w[1]][d] = workerCount \div 2
           ELSE imWeak[w[1]][Dir(w)] = workerCount

(* _talk_weak_stream_needs_recount(): all those of the worker's direction are. *)
NeedsRecount(w) ==
  imWeak[w[1]][Dir(w)] = workerCount \div (IF Async THEN 2 ELSE 1)

Decide(w) == /\ At(w, "decide")
             /\ Goto(w, IF ~NeedsRestart(w) THEN "report"
                        ELSE IF Sender(w) THEN "b_re1" ELSE "neg")
             /\ UNCHANGED <<alive, loc, report, shared, chan, faults>>

(* The sender that the barrier singled out raises the count. *)
Recount(w) ==
  /\ At(w, "recount")
  /\ IF NeedsRecount(w)
     THEN \E m \in Muls : cnt' = [cnt EXCEPT ![w[1]][Dir(w)] = @ * m]
     ELSE UNCHANGED cnt
  /\ Goto(w, "b_re2")
  /\ UNCHANGED <<alive, loc, report, weak, imWeak, chan, faults>>

(* The receiver sends its report ... *)
SendReport(w) == /\ At(w, "report") /\ ~Sender(w)
                 /\ Send(w, "REPORT", 0, report[w][Dir(w)])
                 /\ Goto(w, "finish")
                 /\ UNCHANGED <<alive, loc, report, shared, faults>>

(* Mutation: the report of the receiver is not taken over. *)
RecvReportIgnored(w) ==
  /\ At(w, "report") /\ Sender(w) /\ Readable(w)
  /\ IF Got(w).op # "REPORT"
     THEN FailReceived(w)
     ELSE /\ Consume(w)
          /\ Goto(w, "finish")
          /\ UNCHANGED <<alive, loc, report, shared, faults>>

(* ... and the sender takes it over. *)
RecvReport(w) ==
  /\ At(w, "report") /\ Sender(w) /\ Readable(w)
  /\ IF Got(w).op # "REPORT"
     THEN FailReceived(w)
     ELSE /\ Consume(w)
          /\ report' = [report EXCEPT ![w][Dir(w)] = GotBody(w).report]
          /\ Goto(w, "finish")
          /\ UNCHANGED <<alive, loc, shared, faults>>

(* The sender says FINISH and ends the talk. *)
SendFinish(w) == /\ At(w, "finish") /\ Sender(w)
                 /\ Send(w, "FINISH", 0, NoReport)
                 /\ EndTalk(w)
                 /\ UNCHANGED <<alive, report, shared, faults>>

(* The receiver ends the talk whatever it receives: a failure is a warning. *)
RecvFinish(w) == /\ At(w, "finish") /\ ~Sender(w) /\ Readable(w)
                 /\ Consume(w)
                 /\ EndTalk(w)
                 /\ UNCHANGED <<alive, report, shared, faults>>

-----------------------------------------------------------------------------
(* Failures. *)

(* The labels at which w is in _talk_recv(), and in _talk_send(). *)
Receiving(w) == \/ pc[w] \in {"pong", "hs"}
                \/ pc[w] \in {"start", "end", "report"} /\ Sender(w)
                \/ pc[w] \in {"neg", "finish"} /\ ~Sender(w)
                \/ pc[w] = "run" /\ ~Sender(w) /\ loc[w].i < loc[w].n
Sending(w) == \/ pc[w] = "ping"
              \/ pc[w] \in {"start", "end", "report"} /\ ~Sender(w)
              \/ pc[w] \in {"neg", "finish"} /\ Sender(w)
              \/ pc[w] = "run" /\ Sender(w) /\ loc[w].i < loc[w].n

(* The process of w's peer has closed its sockets. *)
PeerGone(w) == ~Running(Other(w[1]))

(* Mutation: only the stream has a timeout. *)
RecvTimeoutStreamOnly(w) ==
  /\ At(w, "run") /\ Receiving(w) /\ (PeerGone(w) => Udp)
  /\ timeouts < MaxTimeouts /\ timeouts' = timeouts + 1
  /\ Goto(w, "b_end")
  /\ UNCHANGED <<alive, loc, report, shared, chan, losses>>

(* The receive timeout of the socket expires before all of a packet has come.
   The segments that had come are lost.  It ends the stream early, is only
   a warning for FINISH, and fails the talk anywhere else.                    *)
RecvTimeout(w) ==
  /\ Running(w[1]) /\ Receiving(w) /\ (PeerGone(w) => Udp)
  /\ timeouts < MaxTimeouts /\ timeouts' = timeouts + 1
  /\ UNCHANGED losses
  /\ \E k \in 0 .. Needed(w) - 1 :
       /\ k <= Len(chan[w])
       /\ CASE pc[w] = "run" ->
                 /\ chan' = Drop(chan, w, k) /\ Goto(w, "b_end")
                 /\ UNCHANGED <<alive, loc, report, shared>>
            [] pc[w] = "finish" ->
                 /\ chan' = Drop(chan, w, k) /\ EndTalk(w)
                 /\ UNCHANGED <<alive, report, shared>>
            [] OTHER ->
                 /\ chan' = Put(Drop(chan, w, k), w, Packet(w, "FAIL", 0, NoReport))
                 /\ alive' = [alive EXCEPT ![w[1]] = "failed"]
                 /\ UNCHANGED <<pc, loc, report, shared>>

(* A process that closes a connection with unread data, or is sent data after
   it, makes the kernel reset the connection: once what came before has been
   read, the receive fails.  Without a reset read() returns 0, which the loops
   of net_read_from_*() take for progress: they spin, and no timeout ends them. *)
RecvReset(w) ==
  /\ ~Udp /\ Running(w[1]) /\ Receiving(w) /\ PeerGone(w) /\ ~Readable(w)
  /\ chan[Peer(w)] # <<>>
  /\ CASE pc[w] = "run" -> Exit(w) /\ UNCHANGED chan
       [] pc[w] = "finish" -> EndTalk(w) /\ UNCHANGED <<alive, report, shared, chan, faults>>
       [] OTHER -> Fail(w, chan)

(* Writing on a connection that has been reset raises SIGPIPE, which the
   program neither handles nor ignores.                                       *)
SendReset(w) == /\ ~Udp /\ Running(w[1]) /\ Sending(w) /\ PeerGone(w)
                /\ chan[Peer(w)] # <<>>
                /\ Exit(w)
                /\ UNCHANGED chan

(* The read loop at the end of file: see RecvReset. *)
Spin(w) == /\ ~Udp /\ Running(w[1]) /\ Receiving(w) /\ PeerGone(w) /\ ~Readable(w)
           /\ chan[Peer(w)] = <<>>
           /\ UNCHANGED vars

(* A datagram on its way to w is lost, or comes twice. *)
Lose(w) == /\ Udp /\ losses < MaxLosses /\ losses' = losses + 1
           /\ \E i \in DOMAIN chan[w] :
                chan' = [chan EXCEPT ![w] = SubSeq(@, 1, i - 1) \o SubSeq(@, i + 1, Len(@))]
           /\ UNCHANGED <<alive, pc, loc, report, shared, timeouts>>

Duplicate(w) == /\ Udp /\ losses < MaxLosses /\ losses' = losses + 1
                /\ \E i \in DOMAIN chan[w] :
                     chan' = [chan EXCEPT ![w] = Append(@, @[i])]
                /\ UNCHANGED <<alive, pc, loc, report, shared, timeouts>>

(* The process of side s is killed. *)
Crash(s) == /\ Crashes /\ Running(s)
            /\ \A o \in Sides : Running(o)
            /\ alive' = [alive EXCEPT ![s] = "failed"]
            /\ UNCHANGED <<pc, loc, report, shared, chan, faults>>

(* All the workers are done: main joins them, reports and exits. *)
Complete(s) == /\ Running(s)
               /\ \A c \in Conns : pc[<<s, c>>] = "done"
               /\ alive' = [alive EXCEPT ![s] = "completed"]
               /\ UNCHANGED <<pc, loc, report, shared, chan, faults>>

-----------------------------------------------------------------------------
Init == /\ alive = [s \in Sides |-> "running"]
        /\ pc = [w \in Workers |-> "init"]
        /\ loc = [w \in Workers |->
                    [phase |-> 1, i |-> 0, n |-> 0, weak |-> FALSE, round |-> 0]]
        /\ report = [w \in Workers |-> [d \in Dirs |-> NoReport]]
        /\ weak = [s \in Sides |-> 0]
        /\ imWeak = [s \in Sides |-> [d \in Dirs |-> 0]]
        /\ cnt = [s \in Sides |-> [d \in Dirs |-> 0]]
        /\ chan = [w \in Workers |-> <<>>]
        /\ timeouts = 0 /\ losses = 0

Step(w) ==
  \/ TalkInit(w) \/ SendPing(w) \/ RecvPong(w) \/ Handshake(w) \/ SetCount(w)
  \/ SenderNegotiate(w) \/ ReceiverNegotiate(w) \/ SendStart(w) \/ RecvStart(w)
  \/ Reset(w) \/ SendRun(w) \/ RecvRun(w) \/ SendEnd(w) \/ RecvEnd(w) \/ Mark(w)
  \/ Return(w) \/ Decide(w) \/ Recount(w) \/ SendReport(w) \/ RecvReport(w)
  \/ SendFinish(w) \/ RecvFinish(w) \/ RecvReset(w)

(* What the processes do by themselves. *)
Progress == \/ \E w \in Workers : Step(w)
            \/ \E s \in Sides : Complete(s) \/ \E b \in 0 .. 2 : BarrierWait(s, b)

(* What happens to them. *)
Environment == \/ \E w \in Workers : RecvTimeout(w) \/ SendReset(w) \/ Spin(w)
               \/ \E w \in Workers : Lose(w) \/ Duplicate(w)
               \/ \E s \in Sides : Crash(s)

(* Both processes have ended. *)
Ended == (\A s \in Sides : ~Running(s)) /\ UNCHANGED vars

Next == Progress \/ Environment \/ Ended

Spec == Init /\ [][Next]_vars

(* The operating system runs every thread that can run, and the network
   delivers what it does not lose.                                            *)
FairSpec == Spec /\ WF_vars(Progress)

(* ... and a receive from a silent peer times out in the end. *)
TimedSpec == FairSpec /\ \A w \in Workers : WF_vars(RecvTimeout(w))

-----------------------------------------------------------------------------
(* Properties. *)

LabelSet == HandshakeLabels \cup GlobalLabels \cup DirLabels \cup
            {"init", "neg", "start", "reset", "run", "end", "mark", "ret",
             "decide", "recount", "report", "finish", "done"}

LocalType == [phase : 1 .. Phases, i : Nat, n : Nat, weak : BOOLEAN, round : Nat]
ReportType == [count : Nat, recv : Nat]
UnitType == [op : {"PING", "PONG", "COUNT", "START", "RUN", "END", "ENDWEAK",
                   "REPORT", "FINISH", "FAIL", "body"},
             n : Nat, report : ReportType]

TypeOK == /\ alive \in [Sides -> {"running", "failed", "completed"}]
          /\ pc \in [Workers -> LabelSet]
          /\ loc \in [Workers -> LocalType]
          /\ report \in [Workers -> [Dirs -> ReportType]]
          /\ weak \in [Sides -> Nat]
          /\ imWeak \in [Sides -> [Dirs -> Nat]]
          /\ cnt \in [Sides -> [Dirs -> Nat]]
          /\ chan \in [Workers -> Seq(Seq(UnitType))]
          /\ timeouts \in Nat /\ losses \in Nat

(* Without timeouts and crashes no worker ever fails: no assertion on the count
   (lines 888, 954, 955) is violated, no receive finds another message than
   the one it expects, no count is refused.                                   *)
NoFailure == \A s \in Sides : alive[s] # "failed"

(* While packets flow, and until every stream of the side has ended, the marks
   of the previous round are gone and those of this round not yet made: what
   the reset and its two barriers (lines 391-422 and 565-596) are for.        *)
StreamLabels == {"run", "b_end", "b_end2", "end", "b_mark"}
FreshMarks == \A w \in Workers :
                pc[w] \in StreamLabels => /\ weak[w[1]] = 0
                                          /\ imWeak[w[1]][Dir(w)] = 0

(* The workers of w's side that test in the direction of w. *)
Team(w) == {u \in Workers : /\ u[1] = w[1]
                            /\ Async => (u[2] \in ReverseConns) = (w[2] \in ReverseConns)}

(* Whoever reads the marks (lines 77-79, 91, 531, 718), without a lock, finds
   them complete: im_weak is the number of weak streams of its direction, and
   the shared weak count that of the side.                                    *)
MarksExact ==
  \A w \in Workers : pc[w] \in {"ret", "decide", "recount"} =>
    /\ imWeak[w[1]][Dir(w)] = Cardinality({u \in Team(w) : loc[u].weak})
    /\ weak[w[1]] = Cardinality({u \in Workers : u[1] = w[1] /\ loc[u].weak})

(* All the workers of both sides stop after the same round of a talk: nobody
   begins another round once somebody has decided to report.                  *)
SameVerdict ==
  \A w, u \in Workers :
    /\ pc[w] \in {"report", "finish", "done"}
    /\ loc[u].phase = loc[w].phase
    => loc[u].round <= loc[w].round

(* A process that completes reports, in the direction in which it sent, what the
   receiver found, of the last round they negotiated, even if the receiver's
   process fails afterwards; without a timeout everything was received.  When
   both complete they agree in both directions.                               *)
SendingSide(d) == IF d = 0 THEN "connector" ELSE "listener"
ReportAgreement ==
  \A c \in Conns, d \in Dirs :
    LET s == SendingSide(d)  sent == report[<<s, c>>][d] IN
    alive[s] = "completed" =>
      /\ report[<<Other(s), c>>][d] = sent
      /\ sent.recv <= sent.count
      /\ timeouts = 0 => sent.recv = sent.count

(* The workers of the two processes measure in lockstep (module Lockstep): a
   worker begins a round when it negotiates its count (lines 275-361), and
   closes the talk when it leaves the loop of talk_sender() (lines 916, 962) or
   talk_receiver().                                                           *)
Closing(w) == pc[w] \in {"report", "finish", "done"}
Agreement == INSTANCE Lockstep WITH
  Workers <- Workers,
  Direction <- [w \in Workers |-> Async /\ w[2] \in ReverseConns],
  Talks <- Phases,
  Counts <- CountDefault .. CountMax,
  talk <- [w \in Workers |-> loc[w].phase],
  round <- [w \in Workers |-> loc[w].round],
  count <- [w \in Workers |-> IF loc[w].round = 0 THEN 0 ELSE loc[w].n],
  closed <- [w \in Workers |-> Closing(w)]
RefinesLockstep == Agreement!Safe

(* Without timeouts and crashes both processes complete the test. *)
Termination == <>(\A s \in Sides : alive[s] = "completed")

(* Over UDP both processes come to an end, whatever datagrams are lost or come
   twice and whichever process fails first: every receive has a timeout (lines
   67-72), and a datagram socket knows no end of file.                        *)
AlwaysEnds == <>(\A s \in Sides : ~Running(s))

(* The usage text of -T, "Maximum wait time between stream packets": a receiver
   in the stream loop does not wait for ever for a process that is gone.      *)
StreamWaitBounded ==
  \A w \in Workers :
    [](pc[w] = "run" /\ ~Sender(w) /\ PeerGone(w)
       => <>(pc[w] # "run" \/ ~Running(w[1])))
=============================================================================
